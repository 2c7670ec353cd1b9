----------------------------- MODULE OrderedWork -----------------------------
(***************************************************************************)
(* What both queues of packages/queue promise: work waits until all that   *)
(* it depends on is completed, and of the work that can start, that of the *)
(* best priority is started, in the order in which it was added.  When a   *)
(* queue finds out that work can start is its own affair.                  *)
(***************************************************************************)
EXTENDS Naturals

CONSTANTS Tasks, Priorities

VARIABLE work  \* Tasks -> its state, what it depends on, its priority and its arrival

Nothing == [state |-> "absent", deps |-> {}, priority |-> 0, arrival |-> 0]

CanStart(t) ==
  work[t].state = "waiting" /\ \A d \in work[t].deps : work[d].state = "completed"

Before(t, u) ==
  \/ work[t].priority < work[u].priority
  \/ work[t].priority = work[u].priority /\ work[t].arrival < work[u].arrival

Init == work = [t \in Tasks |-> Nothing]

Added == [state : {"waiting"}, deps : SUBSET Tasks, priority : Priorities, arrival : Nat]

Add(t) ==
  /\ work[t].state = "absent"
  /\ work'[t] \in Added
  /\ \A u \in Tasks : work[u].arrival < work'[t].arrival
  /\ work' = [work EXCEPT ![t] = work'[t]]

Start(t) ==
  /\ CanStart(t)
  /\ \A u \in Tasks \ {t} : CanStart(u) => Before(t, u)
  /\ work' = [work EXCEPT ![t].state = "running"]

End(t, state) ==
  /\ work[t].state = "running"
  /\ work' = [work EXCEPT ![t].state = state]

Cancel(t) ==
  /\ work[t].state \in {"waiting", "running", "failed"}
  /\ work' = [work EXCEPT ![t].state = "cancelled"]

Clear == work' = [t \in Tasks |-> Nothing]

Next ==
  \/ \E t \in Tasks : Add(t) \/ Start(t) \/ End(t, "completed") \/ End(t, "failed") \/ Cancel(t)
  \/ Clear

Spec == Init /\ [][Next]_work
==============================================================================
