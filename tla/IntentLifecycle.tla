--------------------------- MODULE IntentLifecycle ----------------------------
(***************************************************************************)
(* What the intent engine promises its observers, with no approval         *)
(* manager, gateway, mode or timer in sight: every intent is proposed at   *)
(* most once, is resolved at most once, executes only after an approval,   *)
(* and once terminal never changes again except to be forgotten.           *)
(***************************************************************************)
CONSTANT Intents

VARIABLE status

Terminal == {"completed", "failed", "rejected", "invalidated"}
Present  == Terminal \cup {"pending", "approved", "executing"}

Init == status = [i \in Intents |-> "none"]

\* A proposal may be resolved before propose() returns.
Propose(i) ==
  /\ status[i] = "none"
  /\ \E s \in {"pending", "approved", "rejected"} :
       status' = [status EXCEPT ![i] = s]

Resolve(i) ==
  /\ status[i] = "pending"
  /\ \E s \in {"approved", "rejected"} : status' = [status EXCEPT ![i] = s]

Execute(i) ==
  /\ status[i] = "approved"
  /\ status' = [status EXCEPT ![i] = "executing"]

Finish(i) ==
  /\ status[i] = "executing"
  /\ \E s \in {"completed", "failed"} : status' = [status EXCEPT ![i] = s]

Invalidate ==
  \E S \in SUBSET { i \in Intents : status[i] \in Present \ Terminal } :
    status' = [i \in Intents |-> IF i \in S THEN "invalidated" ELSE status[i]]

Purge ==
  \E S \in SUBSET { i \in Intents : status[i] \in Terminal } :
    status' = [i \in Intents |-> IF i \in S THEN "purged" ELSE status[i]]

Clear ==
  status' = [i \in Intents |-> IF status[i] \in Present THEN "cleared" ELSE status[i]]

Next ==
  \/ \E i \in Intents : Propose(i) \/ Resolve(i) \/ Execute(i) \/ Finish(i)
  \/ Invalidate
  \/ Purge
  \/ Clear

Spec == Init /\ [][Next]_status
===============================================================================
