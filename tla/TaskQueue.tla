------------------------------- MODULE TaskQueue -------------------------------
(***************************************************************************)
(* The in-memory priority queue of packages/queue.  A task becomes ready   *)
(* when its dependencies are completed, and the next task is the ready one *)
(* of the best priority, the earliest creation time and, among equals, the *)
(* earliest place in the Map.                                              *)
(*                                                                         *)
(* The queue is one function, so that the dispatcher can run several of    *)
(* its operations in one synchronous stretch.                              *)
(***************************************************************************)
EXTENDS Naturals, FiniteSets

CONSTANTS
  Tasks,       \* task ids, those a plan may name without ever adding them too
  Priorities,  \* PRIORITY_VALUES that occur, lower is better
  MaxTime      \* bound on the creation clock

ASSUME QueueAssumption == Priorities \subseteq Nat /\ MaxTime \in Nat

TaskStatus == {"absent", "pending", "ready", "running", "completed", "failed", "cancelled"}

TaskRecord == [status : TaskStatus, deps : SUBSET Tasks, priority : Nat,
               created : Nat, place : Nat]

NoTask == [status |-> "absent", deps |-> {}, priority |-> 0, created |-> 0, place |-> 0]

EmptyQueue == [t \in Tasks |-> NoTask]

-------------------------------------------------------------------------------
(* Operations on a queue value q *)

HasStatus(q, s) == { t \in Tasks : q[t].status = s }

Present(q) == Tasks \ HasStatus(q, "absent")

SetStatus(q, t, s) == [q EXCEPT ![t].status = s]

DepsCompleted(q, t) == \A d \in q[t].deps : q[d].status = "completed"

\* Mistake: a dependency that failed or was cancelled counts as satisfied.
UpdateReadyAfterFailure(q) ==
  [t \in Tasks |->
     IF /\ q[t].status = "pending"
        /\ \A d \in q[t].deps : q[d].status \in {"completed", "failed", "cancelled"}
     THEN [q[t] EXCEPT !.status = "ready"] ELSE q[t]]

\* updateReadyTasks
UpdateReady(q) ==
  [t \in Tasks |-> IF q[t].status = "pending" /\ DepsCompleted(q, t)
                   THEN [q[t] EXCEPT !.status = "ready"] ELSE q[t]]

\* add: a task without dependencies is ready at once.  Map.set on an id that is
\* there replaces the task and keeps its place in the iteration order.
Added(q, t, deps, priority, now) ==
  [q EXCEPT ![t] =
     [status |-> IF deps = {} THEN "ready" ELSE "pending",
      deps |-> deps, priority |-> priority, created |-> now,
      place |-> IF t \in Present(q) THEN q[t].place ELSE Cardinality(Present(q)) + 1]]

\* Mistake: the latest first.
BeforeLatest(q, t, u) ==
  \/ q[t].priority < q[u].priority
  \/ q[t].priority = q[u].priority /\ q[t].created > q[u].created
  \/ q[t].priority = q[u].priority /\ q[t].created = q[u].created /\ q[t].place < q[u].place

Before(q, t, u) ==
  \/ q[t].priority < q[u].priority
  \/ q[t].priority = q[u].priority /\ q[t].created < q[u].created
  \/ /\ q[t].priority = q[u].priority
     /\ q[t].created = q[u].created
     /\ q[t].place < q[u].place

\* The task getNext returns, if the readied queue has one.
IsNext(q, t) ==
  /\ t \in HasStatus(q, "ready")
  /\ \A u \in HasStatus(q, "ready") \ {t} : Before(q, t, u)

-------------------------------------------------------------------------------
(* The queue on its own *)

VARIABLES queue, now

vars == <<queue, now>>

TypeOK == queue \in [Tasks -> TaskRecord] /\ now \in Nat

Init == queue = EmptyQueue /\ now = 0

\* The clock may or may not have moved on since the last creation.
Tick == now' \in {now, now + 1} /\ now' <= MaxTime

Add(t, deps, priority) ==
  /\ t \notin Present(queue)
  /\ Tick
  /\ queue' = Added(queue, t, deps, priority, now')

\* A caller that chooses its own ids, as the dispatcher does, may reuse one.
ReAdd(t, deps, priority) ==
  /\ t \in Present(queue)
  /\ Tick
  /\ queue' = Added(queue, t, deps, priority, now')

\* getNext followed by start of what it returned: nothing runs in between.
StartNext ==
  LET q == UpdateReady(queue) IN
  /\ \E t \in Tasks : IsNext(q, t) /\ queue' = SetStatus(q, t, "running")
  /\ UNCHANGED now

Complete(t) ==
  /\ queue[t].status = "running"
  /\ queue' = UpdateReady(SetStatus(queue, t, "completed"))
  /\ UNCHANGED now

Fail(t) ==
  /\ queue[t].status = "running"
  /\ queue' = SetStatus(queue, t, "failed")
  /\ UNCHANGED now

\* Mistake: a status the queue does not have.
CancelAsRemoved(t) ==
  /\ queue[t].status \in {"pending", "ready", "running", "failed"}
  /\ queue' = SetStatus(queue, t, "removed")
  /\ UNCHANGED now

Cancel(t) ==
  /\ queue[t].status \in {"pending", "ready", "running", "failed"}
  /\ queue' = SetStatus(queue, t, "cancelled")
  /\ UNCHANGED now

ClearQueue ==
  /\ Present(queue) # {}
  /\ queue' = EmptyQueue
  /\ UNCHANGED now

Operate ==
  \/ \E t \in Tasks : Complete(t) \/ Fail(t) \/ Cancel(t)
  \/ StartNext
  \/ ClearQueue

Next == Operate \/ \E t \in Tasks, deps \in SUBSET Tasks, p \in Priorities : Add(t, deps, p)

Spec == Init /\ [][Next]_vars

-------------------------------------------------------------------------------
(* Properties *)

\* Whatever is ready, running or has run has all its dependencies completed,
\* however additions, failures, cancellations and completions interleave
\* ("Tasks with unsatisfied dependencies are skipped").
DependenciesFirst ==
  \A t \in Tasks : queue[t].status \in {"ready", "running", "completed", "failed"} =>
    DepsCompleted(queue, t)

\* What the queue is for, with the passes that ready tasks hidden.
WorkOf(q) ==
  [t \in Tasks |->
     [state |-> IF q[t].status \in {"pending", "ready"} THEN "waiting" ELSE q[t].status,
      deps |-> q[t].deps, priority |-> q[t].priority, arrival |-> q[t].place]]

Promise == INSTANCE OrderedWork WITH work <- WorkOf(queue)

\* The queue is one of OrderedWork: however readying is put off, and whatever
\* ties of creation times, the task that starts is the first of the best that
\* could, and completions are final (task-queue.ts:70-94, 119-161, 213-226).
ImplementsOrderedWork == Promise!Spec
===============================================================================
