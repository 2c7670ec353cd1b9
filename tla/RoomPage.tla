------------------------------- MODULE RoomPage -------------------------------
(***************************************************************************)
(* The live connection of a room's page                                    *)
(* (apps/web/src/lib/use-collab-socket.ts) to the server's event bridge    *)
(* (packages/collab-server/src/ws.ts).  An effect of the page opens a      *)
(* socket and opens another some time after each 'error' and each 'close'  *)
(* of one; a socket that fails has both.  The events that arrive and how   *)
(* long a timer waits are left out.                                        *)
(***************************************************************************)
EXTENDS Naturals, FiniteSets

CONSTANTS Sockets,    \* socket objects: one that is closed may be taken again
          MaxTimers   \* reconnect timers armed at a time

ASSUME PageAssumption == MaxTimers \in Nat \ {0}

VARIABLES effect,    \* whether an effect of the page runs
          socket,    \* Sockets -> its state
          mine,      \* the sockets whose events the running effect listens to
          latest,    \* socketRef: a set of at most one socket
          timers,    \* timers armed by the running effect
          listening  \* whether the server takes sockets

pageVars == <<effect, socket, mine, latest, timers, listening>>

\* "failed" has had its 'error' and waits for its 'close'.
PageTypeOK ==
  /\ effect \in BOOLEAN /\ listening \in BOOLEAN
  /\ socket \in [Sockets -> {"closed", "connecting", "open", "failed"}]
  /\ mine \subseteq Sockets /\ latest \subseteq Sockets /\ Cardinality(latest) <= 1
  /\ timers \in 0 .. MaxTimers /\ (~effect => timers = 0 /\ mine = {})

PageInit ==
  /\ effect = FALSE /\ listening = TRUE
  /\ socket = [s \in Sockets |-> "closed"]
  /\ mine = {} /\ latest = {} /\ timers = 0

-----------------------------------------------------------------------------

\* open()
Opens(s) ==
  /\ socket[s] = "closed"
  /\ socket' = [socket EXCEPT ![s] = "connecting"]
  /\ mine' = mine \cup {s} /\ latest' = {s}

\* The page has a token and a room.
Mount(s) ==
  /\ ~effect /\ effect' = TRUE
  /\ Opens(s)
  /\ UNCHANGED <<timers, listening>>

\* The cleanup of the effect.  A timer that it does not clear finds it
\* cancelled, as do the events of its sockets.
Unmount ==
  /\ effect /\ effect' = FALSE
  /\ socket' = [s \in Sockets |-> IF s \in latest /\ socket[s] = "open" THEN "closed"
                                  ELSE socket[s]]
  /\ latest' = {} /\ mine' = {} /\ timers' = 0
  /\ UNCHANGED listening

TimerOpens(s) ==
  /\ timers > 0 /\ timers' = timers - 1
  /\ Opens(s)
  /\ UNCHANGED <<effect, listening>>

\* Mistake: only a connection that could not be made is tried again.
OnFailedConnect(s) ==
  timers' = IF s \in mine /\ socket[s] = "connecting" THEN timers + 1 ELSE timers

\* onCloseOrError(): the effect that opened the socket arms a timer.
OnCloseOrError(s) ==
  /\ s \in mine => timers < MaxTimers
  /\ timers' = IF s \in mine THEN timers + 1 ELSE timers

\* A token that does not verify is turned away later, by a close.
SocketOpens(s) ==
  /\ listening /\ socket[s] = "connecting"
  /\ socket' = [socket EXCEPT ![s] = "open"]
  /\ UNCHANGED <<effect, mine, latest, timers, listening>>

SocketFails(s) ==
  /\ socket[s] \in {"connecting", "open"}
  /\ OnCloseOrError(s)
  /\ socket' = [socket EXCEPT ![s] = "failed"]
  /\ UNCHANGED <<effect, mine, latest, listening>>

\* The server or the network ends it, with or without an error before.
SocketCloses(s) ==
  /\ socket[s] \in {"open", "failed"}
  /\ OnCloseOrError(s)
  /\ socket' = [socket EXCEPT ![s] = "closed"]
  /\ mine' = mine \ {s}
  /\ UNCHANGED <<effect, latest, listening>>

\* dispose(), and the process with it: each page will see its close.
BridgeStops ==
  /\ listening /\ listening' = FALSE
  /\ UNCHANGED <<effect, socket, mine, latest, timers>>

BridgeStarts ==
  /\ ~listening /\ listening' = TRUE
  /\ UNCHANGED <<effect, socket, mine, latest, timers>>

PageNext ==
  \/ \E s \in Sockets : \/ Mount(s) \/ TimerOpens(s)
                        \/ SocketOpens(s) \/ SocketFails(s) \/ SocketCloses(s)
  \/ Unmount \/ BridgeStops \/ BridgeStarts

PageSpec == PageInit /\ [][PageNext]_pageVars

-----------------------------------------------------------------------------

\* Whatever fails in whatever order, a page that wants events has a socket
\* that is open, may open or will report its close, or a timer that opens one:
\* it never stops trying (use-collab-socket.ts:90-99).
NeverGivesUp == effect => timers > 0 \/ \E s \in mine : socket[s] # "closed"
===============================================================================
