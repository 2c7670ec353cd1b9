--------------------------- MODULE DurableDocument ---------------------------
(***************************************************************************)
(* What the collaboration server promises about the document of a room: it *)
(* is a memory cell with a stored copy.  While the server is up the cell   *)
(* only grows, and the store only ever takes over the whole cell.  The     *)
(* cell falls back to the stored copy when the server goes down, and then  *)
(* alone.                                                                  *)
(***************************************************************************)
CONSTANT Updates

VARIABLES up,      \* does the server look after the document?
          live,    \* the document as the next client to join will find it
          saved    \* the stored copy

vars == <<up, live, saved>>

Init == up = FALSE /\ live = {} /\ saved = {}

Start == ~up /\ up' = TRUE /\ UNCHANGED <<live, saved>>

Write ==
  /\ up
  /\ live' \in SUBSET Updates /\ live \subseteq live'
  /\ UNCHANGED <<up, saved>>

Save == up /\ saved' = live /\ UNCHANGED <<up, live>>

GoDown == up /\ up' = FALSE /\ live' = saved /\ UNCHANGED saved

Next == Start \/ Write \/ Save \/ GoDown

Spec == Init /\ [][Next]_vars
==============================================================================
