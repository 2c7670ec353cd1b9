---------------------------- MODULE TaskQueueProofs ----------------------------
(***************************************************************************)
(* Proofs, for every set of tasks, dependencies and priorities, that the   *)
(* queue respects dependencies and implements OrderedWork.                 *)
(*                                                                         *)
(* DependenciesFirst is inductive together with TypeOK because "completed" *)
(* is final: the only steps that move a completed task elsewhere replace   *)
(* it (ReAdd, excluded by Spec) or empty the queue.  That finitely many    *)
(* tasks are present makes the place of a new one a number, without        *)
(* assuming that there are finitely many ids.                              *)
(***************************************************************************)
EXTENDS TaskQueue, FiniteSetTheorems, TLAPS

IInv ==
  /\ TypeOK
  /\ IsFiniteSet(Present(queue))
  /\ DependenciesFirst

Guarded == {"ready", "running", "completed", "failed"}

\* A status change keeps the type.
LEMMA SetStatusType ==
  ASSUME NEW q \in [Tasks -> TaskRecord], NEW t \in Tasks, NEW s \in TaskStatus
  PROVE  /\ SetStatus(q, t, s) \in [Tasks -> TaskRecord]
         /\ \A u \in Tasks : /\ SetStatus(q, t, s)[u].deps = q[u].deps
                            /\ SetStatus(q, t, s)[u].status = IF u = t THEN s ELSE q[u].status
  BY DEF SetStatus, TaskRecord

\* updateReadyTasks only moves pending tasks, to ready, once their
\* dependencies are completed.
LEMMA UpdateReadyType ==
  ASSUME NEW q \in [Tasks -> TaskRecord]
  PROVE  /\ UpdateReady(q) \in [Tasks -> TaskRecord]
         /\ \A u \in Tasks :
              /\ UpdateReady(q)[u].deps = q[u].deps
              /\ UpdateReady(q)[u].status =
                   IF q[u].status = "pending" /\ DepsCompleted(q, u) THEN "ready"
                   ELSE q[u].status
  BY DEF UpdateReady, TaskRecord, TaskStatus

\* Dependencies of a present task are ids.
LEMMA DepsAreTasks ==
  ASSUME NEW q \in [Tasks -> TaskRecord], NEW t \in Tasks
  PROVE  q[t].deps \subseteq Tasks /\ q[t].status \in TaskStatus
  BY DEF TaskRecord

DepsFirst(q) ==
  \A t \in Tasks : q[t].status \in Guarded => DepsCompleted(q, t)

\* Readying tasks keeps the invariant.
LEMMA UpdateReadyKeeps ==
  ASSUME NEW q \in [Tasks -> TaskRecord], DepsFirst(q)
  PROVE  DepsFirst(UpdateReady(q))
<1> DEFINE r == UpdateReady(q)
<1>1. \A u \in Tasks : DepsCompleted(q, u) => DepsCompleted(r, u)
  BY UpdateReadyType, DepsAreTasks DEF DepsCompleted
<1> SUFFICES ASSUME NEW t \in Tasks, r[t].status \in Guarded
             PROVE  DepsCompleted(r, t)
  BY DEF DepsFirst
<1>2. DepsCompleted(q, t)
  BY UpdateReadyType DEF DepsFirst, Guarded
<1>3. QED
  BY <1>1, <1>2

\* So does a status change that takes nothing away from "completed" and moves
\* only tasks whose dependencies are completed.
LEMMA SetStatusKeeps ==
  ASSUME NEW q \in [Tasks -> TaskRecord], DepsFirst(q),
         NEW t \in Tasks, NEW s \in TaskStatus,
         q[t].status # "completed",
         s \in Guarded => q[t].status \in Guarded
  PROVE  DepsFirst(SetStatus(q, t, s))
<1> DEFINE r == SetStatus(q, t, s)
<1>1. \A u \in Tasks : /\ r[u].deps = q[u].deps
                       /\ r[u].status = IF u = t THEN s ELSE q[u].status
  BY SetStatusType
<1>2. \A u \in Tasks : q[u].deps \subseteq Tasks
  BY DepsAreTasks
<1> HIDE DEF r
<1>3. \A u \in Tasks : DepsCompleted(q, u) => DepsCompleted(r, u)
  BY <1>1, <1>2 DEF DepsCompleted
<1>4. \A u \in Tasks : r[u].status \in Guarded => q[u].status \in Guarded
  BY <1>1
<1>5. QED
  BY <1>3, <1>4 DEF DepsFirst, r

LEMMA SameInvariant == DependenciesFirst <=> DepsFirst(queue)
  BY DEF DependenciesFirst, DepsFirst, Guarded

LEMMA SameInvariantNext == DependenciesFirst' <=> DepsFirst(queue')
  BY DEF DependenciesFirst, DepsFirst, Guarded, DepsCompleted

LEMMA EmptyQueueType ==
  /\ EmptyQueue \in [Tasks -> TaskRecord]
  /\ DepsFirst(EmptyQueue)
  /\ IsFiniteSet(Present(EmptyQueue))
<1>1. Present(EmptyQueue) = {}
  BY DEF Present, HasStatus, EmptyQueue, NoTask
<1>2. QED
  BY <1>1, FS_EmptySet DEF EmptyQueue, NoTask, TaskRecord, TaskStatus, DepsFirst, Guarded

LEMMA InitIInv == Init => IInv
<1> SUFFICES ASSUME Init PROVE IInv
  OBVIOUS
<1>1. queue = EmptyQueue /\ now = 0
  BY DEF Init
<1>2. QED
  BY <1>1, EmptyQueueType, SameInvariant DEF IInv, TypeOK

-------------------------------------------------------------------------------
(* The operations *)

LEMMA AddKeepsIInv ==
  ASSUME IInv, NEW t \in Tasks, NEW deps \in SUBSET Tasks, NEW p \in Priorities,
         Add(t, deps, p)
  PROVE  IInv'
<1> DEFINE new == [status |-> IF deps = {} THEN "ready" ELSE "pending",
                   deps |-> deps, priority |-> p, created |-> now',
                   place |-> IF t \in Present(queue) THEN queue[t].place
                             ELSE Cardinality(Present(queue)) + 1]
<1>1. /\ queue \in [Tasks -> TaskRecord] /\ now' \in Nat
      /\ t \notin Present(queue) /\ queue[t].status = "absent"
      /\ queue' = [queue EXCEPT ![t] = new]
  BY DEF IInv, TypeOK, Add, Tick, Added, Present, HasStatus
<1>2. Cardinality(Present(queue)) \in Nat
  BY FS_CardinalityType DEF IInv
<1>3. new \in TaskRecord /\ new.deps = deps
      /\ new.status = IF deps = {} THEN "ready" ELSE "pending"
  BY <1>1, <1>2, QueueAssumption DEF TaskRecord, TaskStatus
<1> HIDE DEF new
<1>4. TypeOK'
  BY <1>1, <1>3 DEF TypeOK
<1>5. Present(queue') = Present(queue) \cup {t}
  BY <1>1, <1>3 DEF Present, HasStatus
<1>6. IsFiniteSet(Present(queue'))
  BY <1>5, FS_AddElement DEF IInv
<1>7. DepsFirst(queue')
  <2>1. \A u \in Tasks \ {t} : DepsCompleted(queue, u) => DepsCompleted(queue', u)
    BY <1>1, DepsAreTasks DEF DepsCompleted
  <2>2. \A u \in Tasks \ {t} : queue[u].status \in Guarded => DepsCompleted(queue', u)
    BY <2>1, SameInvariant DEF IInv, DepsFirst
  <2>3. queue'[t].status \in Guarded => DepsCompleted(queue', t)
    BY <1>1, <1>3 DEF DepsCompleted, Guarded
  <2>4. \A u \in Tasks \ {t} : queue'[u].status = queue[u].status
    BY <1>1
  <2>5. ASSUME NEW u \in Tasks, queue'[u].status \in Guarded
        PROVE  DepsCompleted(queue', u)
    BY <2>2, <2>3, <2>4, <2>5
  <2>6. QED
    BY <2>5 DEF DepsFirst
<1>8. IsFiniteSet(Present(queue))'
  BY <1>6 DEF Present, HasStatus
<1>9. QED
  BY <1>4, <1>7, <1>8, SameInvariantNext DEF IInv

\* Neither operation makes a task appear or vanish.
LEMMA SamePresence ==
  ASSUME NEW q \in [Tasks -> TaskRecord], NEW t \in Tasks,
         NEW s \in TaskStatus \ {"absent"}, q[t].status # "absent"
  PROVE  /\ Present(SetStatus(q, t, s)) = Present(q)
         /\ Present(UpdateReady(q)) = Present(q)
<1>1. \A u \in Tasks :
        SetStatus(q, t, s)[u].status = "absent" <=> q[u].status = "absent"
  BY SetStatusType
<1>2. \A u \in Tasks : UpdateReady(q)[u].status = "absent" <=> q[u].status = "absent"
  BY UpdateReadyType
<1>3. QED
  BY <1>1, <1>2 DEF Present, HasStatus

\* One status change, after readying or not and followed by readying or not.
LEMMA ChangeKeepsIInv ==
  ASSUME IInv, NEW q, q \in {queue, UpdateReady(queue)},
         NEW t \in Tasks, NEW s \in TaskStatus \ {"absent"},
         q[t].status \notin {"absent", "completed"},
         s \in Guarded => q[t].status \in Guarded,
         queue' \in {SetStatus(q, t, s), UpdateReady(SetStatus(q, t, s))},
         now' = now
  PROVE  IInv'
<1> DEFINE r == SetStatus(q, t, s)
<1>1. q \in [Tasks -> TaskRecord] /\ DepsFirst(q) /\ IsFiniteSet(Present(q))
  <2>1. queue \in [Tasks -> TaskRecord] /\ DepsFirst(queue) /\ IsFiniteSet(Present(queue))
    BY SameInvariant DEF IInv, TypeOK
  <2>2. Present(UpdateReady(queue)) = Present(queue)
    BY <2>1, UpdateReadyType DEF Present, HasStatus
  <2>3. QED
    BY <2>1, <2>2, UpdateReadyType, UpdateReadyKeeps
<1>2. r \in [Tasks -> TaskRecord] /\ DepsFirst(r) /\ Present(r) = Present(q)
  BY <1>1, SetStatusType, SetStatusKeeps, SamePresence
<1>3. /\ UpdateReady(r) \in [Tasks -> TaskRecord] /\ DepsFirst(UpdateReady(r))
      /\ Present(UpdateReady(r)) = Present(r)
  <2>1. r[t].status # "absent"
    BY <1>1, SetStatusType
  <2> HIDE DEF r
  <2>2. QED
    BY <1>2, UpdateReadyType, UpdateReadyKeeps DEF Present, HasStatus
<1>4. queue' \in [Tasks -> TaskRecord] /\ DepsFirst(queue') /\ IsFiniteSet(Present(queue'))
  BY <1>1, <1>2, <1>3
<1>5. IsFiniteSet(Present(queue))'
  BY <1>4 DEF Present, HasStatus
<1>6. TypeOK'
  BY <1>4 DEF IInv, TypeOK
<1>7. QED
  BY <1>4, <1>5, <1>6, SameInvariantNext DEF IInv

LEMMA StartNextKeepsIInv ==
  ASSUME IInv, StartNext
  PROVE  IInv'
<1> DEFINE q == UpdateReady(queue)
<1>1. PICK t \in Tasks : q[t].status = "ready" /\ queue' = SetStatus(q, t, "running")
  BY DEF StartNext, IsNext, HasStatus
<1>2. now' = now
  BY DEF StartNext
<1> HIDE DEF q
<1>3. QED
  BY <1>1, <1>2, ChangeKeepsIInv DEF q, TaskStatus, Guarded

LEMMA CompleteKeepsIInv ==
  ASSUME IInv, NEW t \in Tasks, Complete(t)
  PROVE  IInv'
  BY ChangeKeepsIInv DEF Complete, TaskStatus, Guarded

LEMMA FailKeepsIInv ==
  ASSUME IInv, NEW t \in Tasks, Fail(t)
  PROVE  IInv'
  BY ChangeKeepsIInv DEF Fail, TaskStatus, Guarded

LEMMA CancelKeepsIInv ==
  ASSUME IInv, NEW t \in Tasks, Cancel(t)
  PROVE  IInv'
  BY ChangeKeepsIInv DEF Cancel, TaskStatus, Guarded

LEMMA ClearKeepsIInv ==
  ASSUME IInv, ClearQueue
  PROVE  IInv'
<1>1. queue' = EmptyQueue /\ now' = now
  BY DEF ClearQueue
<1>2. IsFiniteSet(Present(queue))'
  BY <1>1, EmptyQueueType DEF Present, HasStatus
<1>3. QED
  BY <1>1, <1>2, EmptyQueueType, SameInvariantNext DEF IInv, TypeOK

LEMMA StepKeepsIInv == IInv /\ [Next]_vars => IInv'
<1> SUFFICES ASSUME IInv, [Next]_vars PROVE IInv'
  OBVIOUS
<1>1. CASE Operate
  BY <1>1, StartNextKeepsIInv, CompleteKeepsIInv, FailKeepsIInv, CancelKeepsIInv,
     ClearKeepsIInv DEF Operate
<1>2. ASSUME NEW t \in Tasks, NEW deps \in SUBSET Tasks, NEW p \in Priorities,
             Add(t, deps, p)
      PROVE  IInv'
  BY <1>2, AddKeepsIInv
<1>3. CASE UNCHANGED vars
  BY <1>3 DEF vars, IInv, TypeOK, DependenciesFirst, DepsCompleted, Present, HasStatus
<1>4. QED
  BY <1>1, <1>2, <1>3 DEF Next

-------------------------------------------------------------------------------
(* The theorems *)

\* The queue's records keep their types, place and creation time included.
THEOREM TypeCorrect == Spec => []TypeOK
<1>1. IInv => TypeOK
  BY DEF IInv
<1>2. QED
  BY <1>1, InitIInv, StepKeepsIInv, PTL DEF Spec

\* Nothing is ready, runs or has run before its dependencies are completed,
\* for any number of tasks and any dependencies, cyclic or dangling ones too.
THEOREM DependenciesCompleteFirst == Spec => []DependenciesFirst
<1>1. IInv => DependenciesFirst
  BY DEF IInv
<1>2. QED
  BY <1>1, InitIInv, StepKeepsIInv, PTL DEF Spec

-------------------------------------------------------------------------------
(* The queue implements OrderedWork.                                       *)

\* The places are the order of arrival, and the clock agrees with them.
Ordered(q, time) ==
  /\ \A t \in Tasks : q[t].status = "absent" => q[t].place = 0
  /\ \A t \in Present(q) : q[t].place \in 1 .. Cardinality(Present(q)) /\ q[t].created <= time
  /\ \A t, u \in Present(q) : t # u => q[t].place # q[u].place
  /\ \A t, u \in Present(q) : q[t].place < q[u].place => q[t].created <= q[u].created

OInv == IInv /\ Ordered(queue, now)

\* What a task record says of the order.
SameOrder(q, r) ==
  \A t \in Tasks : /\ r[t].place = q[t].place /\ r[t].created = q[t].created
                   /\ r[t].priority = q[t].priority /\ r[t].deps = q[t].deps
                   /\ r[t].status = "absent" <=> q[t].status = "absent"

\* Readying changes neither the order nor the work.
LEMMA UpdateReadyOrder ==
  ASSUME NEW q \in [Tasks -> TaskRecord]
  PROVE  SameOrder(q, UpdateReady(q)) /\ WorkOf(UpdateReady(q)) = WorkOf(q)
  BY DEF SameOrder, UpdateReady, TaskRecord, WorkOf

\* A change of status is one of the work, and keeps the order.
LEMMA SetStatusOrder ==
  ASSUME NEW q \in [Tasks -> TaskRecord], NEW t \in Tasks, q[t].status # "absent",
         NEW s \in {"running", "completed", "failed", "cancelled"}
  PROVE  /\ SameOrder(q, SetStatus(q, t, s))
         /\ WorkOf(SetStatus(q, t, s)) = [WorkOf(q) EXCEPT ![t].state = s]
<1> DEFINE r == SetStatus(q, t, s)
<1>1. \A u \in Tasks : r[u] = IF u = t THEN [q[u] EXCEPT !.status = s] ELSE q[u]
  BY DEF SetStatus
<1>2. \A u \in Tasks : /\ r[u].place = q[u].place /\ r[u].created = q[u].created
                       /\ r[u].priority = q[u].priority /\ r[u].deps = q[u].deps
                       /\ r[u].status = IF u = t THEN s ELSE q[u].status
  BY <1>1 DEF TaskRecord
<1> HIDE DEF r
<1>3. SameOrder(q, r)
  BY <1>2 DEF SameOrder
<1>4. WorkOf(r)[t] = [WorkOf(q)[t] EXCEPT !.state = s]
  BY <1>2 DEF WorkOf
<1>5. \A u \in Tasks \ {t} : WorkOf(r)[u] = WorkOf(q)[u]
  BY <1>2 DEF WorkOf
<1>6. WorkOf(r) = [u \in Tasks |-> WorkOf(r)[u]] /\ WorkOf(q) = [u \in Tasks |-> WorkOf(q)[u]]
  BY DEF WorkOf
<1>7. WorkOf(r) = [WorkOf(q) EXCEPT ![t].state = s]
  BY <1>4, <1>5, <1>6
<1> QED
  BY <1>3, <1>7 DEF r

LEMMA SameOrderTransitive ==
  ASSUME NEW q, NEW r, NEW s, SameOrder(q, r), SameOrder(r, s)
  PROVE  SameOrder(q, s)
  BY DEF SameOrder

LEMMA OrderedKept ==
  ASSUME NEW q, NEW r, NEW time, SameOrder(q, r), Ordered(q, time)
  PROVE  Ordered(r, time)
<1>1. Present(r) = Present(q)
  BY DEF Present, HasStatus, SameOrder
<1>2. \A t \in Present(q) : t \in Tasks
  BY DEF Present
<1>3. QED
  BY <1>1, <1>2 DEF Ordered, SameOrder

\* The states of the work.
LEMMA WorkStates ==
  ASSUME NEW q \in [Tasks -> TaskRecord], NEW t \in Tasks
  PROVE  /\ WorkOf(q)[t].state = "absent" <=> q[t].status = "absent"
         /\ WorkOf(q)[t].state = "running" <=> q[t].status = "running"
         /\ WorkOf(q)[t].state = "completed" <=> q[t].status = "completed"
         /\ WorkOf(q)[t].state = "failed" <=> q[t].status = "failed"
         /\ WorkOf(q)[t].state = "waiting" <=> q[t].status \in {"pending", "ready"}
         /\ WorkOf(q)[t].deps = q[t].deps /\ WorkOf(q)[t].priority = q[t].priority
         /\ WorkOf(q)[t].arrival = q[t].place
  BY DEF WorkOf, TaskRecord, TaskStatus

\* Work can start exactly when its task is ready, once all are readied.
LEMMA ReadyIsStartable ==
  ASSUME queue \in [Tasks -> TaskRecord], DepsFirst(queue), NEW t \in Tasks
  PROVE  Promise!CanStart(t) <=> UpdateReady(queue)[t].status = "ready"
<1>1. queue[t].deps \subseteq Tasks /\ queue[t].status \in TaskStatus
  BY DepsAreTasks
<1>2. (\A d \in WorkOf(queue)[t].deps : WorkOf(queue)[d].state = "completed")
        <=> DepsCompleted(queue, t)
  BY <1>1, WorkStates DEF DepsCompleted
<1>3. queue[t].status = "ready" => DepsCompleted(queue, t)
  BY DEF DepsFirst, Guarded
<1>4. QED
  BY <1>2, <1>3, WorkStates, UpdateReadyType DEF Promise!CanStart

\* Among present tasks the order of getNext() is that of arrival.
LEMMA BeforeIsArrival ==
  ASSUME NEW q \in [Tasks -> TaskRecord], Ordered(q, now), now \in Nat,
         NEW t \in Present(q), NEW u \in Present(q), t # u, Before(q, t, u)
  PROVE  \/ q[t].priority < q[u].priority
         \/ q[t].priority = q[u].priority /\ q[t].place < q[u].place
<1>1. /\ t \in Tasks /\ u \in Tasks
      /\ q[t].place \in Nat /\ q[u].place \in Nat /\ q[t].created \in Nat /\ q[u].created \in Nat
  BY DEF Present, TaskRecord
<1>2. q[t].place # q[u].place /\ (q[u].place < q[t].place => q[u].created <= q[t].created)
  BY DEF Ordered
<1>3. QED
  BY <1>1, <1>2 DEF Before

-------------------------------------------------------------------------------
(* The steps, as steps of the work.                                        *)

LEMMA InitOrder == Init => Ordered(queue, now) /\ Promise!Init
<1> SUFFICES ASSUME Init PROVE Ordered(queue, now) /\ Promise!Init
  OBVIOUS
<1>1. queue = EmptyQueue
  BY DEF Init
<1>2. Present(queue) = {}
  BY <1>1 DEF Present, HasStatus, EmptyQueue, NoTask
<1> QED
  BY <1>1, <1>2 DEF Ordered, EmptyQueue, NoTask, WorkOf, Promise!Init, Promise!Nothing

LEMMA AddIsAdd ==
  ASSUME OInv, NEW t \in Tasks, NEW deps \in SUBSET Tasks, NEW p \in Priorities,
         Add(t, deps, p)
  PROVE  Ordered(queue', now') /\ Promise!Next
<1> DEFINE n == Cardinality(Present(queue)) + 1
           new == [status |-> IF deps = {} THEN "ready" ELSE "pending", deps |-> deps,
                   priority |-> p, created |-> now', place |-> n]
           old == Present(queue)
<1>1. /\ queue \in [Tasks -> TaskRecord] /\ now \in Nat /\ now' \in Nat /\ now <= now'
      /\ t \notin old /\ queue[t].status = "absent" /\ IsFiniteSet(old)
      /\ queue' = [queue EXCEPT ![t] = new]
  <2>1. queue \in [Tasks -> TaskRecord] /\ now \in Nat /\ IsFiniteSet(old)
    BY DEF OInv, IInv, TypeOK
  <2>2. now' \in Nat /\ now <= now'
    BY <2>1 DEF Add, Tick
  <2>3. t \notin old /\ queue' = [queue EXCEPT ![t] = new]
    BY DEF Add, Added
  <2>4. queue[t].status = "absent"
    BY <2>3 DEF Present, HasStatus
  <2> QED
    BY <2>1, <2>2, <2>3, <2>4
<1>2. n \in Nat /\ n - 1 \in Nat /\ n > n - 1 /\ n > 0
  BY <1>1, FS_CardinalityType
<1>3. /\ new.deps = deps /\ new.priority = p /\ new.created = now' /\ new.place = n
      /\ new.status \in {"ready", "pending"}
  OBVIOUS
<1>4. /\ queue'[t] = new /\ \A u \in Tasks \ {t} : queue'[u] = queue[u]
      /\ DOMAIN queue' = Tasks
  BY <1>1
<1>5. Present(queue') = old \cup {t}
  BY <1>3, <1>4 DEF Present, HasStatus
<1>6. Cardinality(Present(queue')) = n
  BY <1>1, <1>5, FS_AddElement
<1>7. \A u \in old : u \in Tasks \ {t} /\ queue[u].place \in Nat /\ queue[u].created \in Nat
  BY <1>1 DEF Present, TaskRecord
<1> HIDE DEF n, new
<1>8. Ordered(queue, now)
  BY DEF OInv
<1> HIDE DEF old
<1>9. \A u \in old : queue[u].place < n /\ queue[u].place >= 1 /\ queue[u].created <= now'
  <2>1. TAKE u \in old
  <2>2. queue[u].place \in 1 .. (n - 1) /\ queue[u].created <= now
    <3>1. queue[u].place \in 1 .. Cardinality(old) /\ queue[u].created <= now
      BY <1>8 DEF Ordered, old
    <3>2. Cardinality(old) = n - 1
      BY <1>1, FS_CardinalityType DEF n, old
    <3> QED
      BY <3>1, <3>2
  <2> QED
    BY <1>1, <1>2, <1>7, <2>2
<1>10. Ordered(queue', now')
  <2>1. \A u \in Tasks : queue'[u].status = "absent" => queue'[u].place = 0
    BY <1>3, <1>4, <1>8 DEF Ordered
  <2>2. \A u \in Present(queue') : queue'[u].place \in 1 .. n /\ queue'[u].created <= now'
    BY <1>1, <1>2, <1>3, <1>4, <1>5, <1>7, <1>9
  <2>3. \A u, v \in Present(queue') : u # v => queue'[u].place # queue'[v].place
    BY <1>2, <1>3, <1>4, <1>5, <1>7, <1>8, <1>9 DEF Ordered, old
  <2>4. \A u, v \in Present(queue') :
          queue'[u].place < queue'[v].place => queue'[u].created <= queue'[v].created
    BY <1>1, <1>2, <1>3, <1>4, <1>5, <1>7, <1>8, <1>9 DEF Ordered, old
  <2> QED
    BY <1>6, <2>1, <2>2, <2>3, <2>4 DEF Ordered
<1>11. WorkOf(queue')[t] \in Promise!Added
  <2>1. WorkOf(queue')[t] = [state |-> "waiting", deps |-> deps, priority |-> p, arrival |-> n]
    BY <1>3, <1>4 DEF WorkOf
  <2> QED
    BY <1>2, <2>1 DEF Promise!Added
<1>12. WorkOf(queue') = [WorkOf(queue) EXCEPT ![t] = WorkOf(queue')[t]]
  BY <1>4 DEF WorkOf
<1>13. \A u \in Tasks : WorkOf(queue)[u].arrival < WorkOf(queue')[t].arrival
  <2>1. WorkOf(queue')[t].arrival = n
    BY <1>3, <1>4 DEF WorkOf
  <2>2. \A u \in Tasks : WorkOf(queue)[u].arrival = queue[u].place
    BY DEF WorkOf
  <2>3. \A u \in Tasks : queue[u].place < n
    BY <1>2, <1>8, <1>9 DEF Ordered, old, Present, HasStatus
  <2> QED
    BY <2>1, <2>2, <2>3
<1>14. WorkOf(queue)[t].state = "absent"
  BY <1>1, WorkStates
<1>15. Promise!Add(t)
  BY <1>11, <1>12, <1>13, <1>14 DEF Promise!Add
<1> QED
  BY <1>10, <1>15 DEF Promise!Next

LEMMA StartIsStart ==
  ASSUME OInv, StartNext
  PROVE  Ordered(queue', now') /\ Promise!Next
<1> DEFINE q == UpdateReady(queue)
<1>1. /\ queue \in [Tasks -> TaskRecord] /\ DepsFirst(queue) /\ now \in Nat
      /\ Ordered(queue, now) /\ now' = now
  BY SameInvariant DEF OInv, IInv, TypeOK, StartNext
<1>2. /\ q \in [Tasks -> TaskRecord] /\ SameOrder(queue, q) /\ WorkOf(q) = WorkOf(queue)
      /\ Ordered(q, now)
  BY <1>1, UpdateReadyType, UpdateReadyOrder, OrderedKept
<1>3. PICK t \in Tasks : IsNext(q, t) /\ queue' = SetStatus(q, t, "running")
  BY DEF StartNext
<1>4. \A u \in Tasks : Promise!CanStart(u) <=> q[u].status = "ready"
  BY <1>1, ReadyIsStartable
<1> HIDE DEF q
<1>5. q[t].status = "ready" /\ \A u \in Tasks \ {t} : q[u].status = "ready" => Before(q, t, u)
  BY <1>3 DEF IsNext, HasStatus
<1>6. /\ SameOrder(q, queue') /\ WorkOf(queue') = [WorkOf(q) EXCEPT ![t].state = "running"]
  BY <1>2, <1>3, <1>5, SetStatusOrder
<1>7. Ordered(queue', now')
  BY <1>1, <1>2, <1>6, OrderedKept
<1>8. ASSUME NEW u \in Tasks \ {t}, Promise!CanStart(u)
      PROVE  Promise!Before(t, u)
  <2>1. t \in Present(q) /\ u \in Present(q) /\ Before(q, t, u)
    BY <1>4, <1>5, <1>8 DEF Present, HasStatus
  <2>2. \/ q[t].priority < q[u].priority
        \/ q[t].priority = q[u].priority /\ q[t].place < q[u].place
    BY <1>1, <1>2, <2>1, BeforeIsArrival
  <2>3. \A v \in Tasks : WorkOf(queue)[v].priority = q[v].priority
                         /\ WorkOf(queue)[v].arrival = q[v].place
    BY <1>2, WorkStates
  <2> QED
    BY <2>2, <2>3 DEF Promise!Before
<1>9. Promise!Start(t)
  BY <1>2, <1>4, <1>5, <1>6, <1>8 DEF Promise!Start
<1> QED
  BY <1>7, <1>9 DEF Promise!Next

\* One change of status of a task that is there, with or without a pass after it.
LEMMA ChangeOfWork ==
  ASSUME OInv, NEW t \in Tasks, queue[t].status # "absent",
         NEW s \in {"running", "completed", "failed", "cancelled"},
         queue' \in {SetStatus(queue, t, s), UpdateReady(SetStatus(queue, t, s))},
         now' = now
  PROVE  Ordered(queue', now') /\ WorkOf(queue') = [WorkOf(queue) EXCEPT ![t].state = s]
<1> DEFINE r == SetStatus(queue, t, s)
<1>1. queue \in [Tasks -> TaskRecord] /\ Ordered(queue, now)
  BY DEF OInv, IInv, TypeOK
<1>2. /\ r \in [Tasks -> TaskRecord] /\ SameOrder(queue, r)
      /\ WorkOf(r) = [WorkOf(queue) EXCEPT ![t].state = s]
  BY <1>1, SetStatusType, SetStatusOrder DEF TaskStatus
<1> HIDE DEF r
<1>3. SameOrder(r, UpdateReady(r)) /\ WorkOf(UpdateReady(r)) = WorkOf(r)
  BY <1>2, UpdateReadyOrder
<1>4. SameOrder(queue, UpdateReady(r))
  BY <1>2, <1>3, SameOrderTransitive
<1>5. queue' \in {r, UpdateReady(r)}
  BY DEF r
<1>6. SameOrder(queue, queue') /\ WorkOf(queue') = WorkOf(r)
  BY <1>2, <1>3, <1>4, <1>5
<1>7. Ordered(queue', now')
  BY <1>1, <1>6, OrderedKept
<1> QED
  BY <1>2, <1>6, <1>7

LEMMA StepIsWork == OInv /\ [Next]_vars => Ordered(queue', now') /\ [Promise!Next]_(WorkOf(queue))
<1> SUFFICES ASSUME OInv, [Next]_vars
             PROVE  Ordered(queue', now') /\ [Promise!Next]_(WorkOf(queue))
  OBVIOUS
<1>1. queue \in [Tasks -> TaskRecord]
  BY DEF OInv, IInv, TypeOK
<1>2. CASE StartNext
  BY <1>2, StartIsStart
<1>3. ASSUME NEW t \in Tasks, Complete(t)
      PROVE  Ordered(queue', now') /\ Promise!Next
  <2>1. /\ queue[t].status = "running" /\ now' = now
        /\ queue' = UpdateReady(SetStatus(queue, t, "completed"))
    BY <1>3 DEF Complete
  <2>2. Ordered(queue', now') /\ WorkOf(queue') = [WorkOf(queue) EXCEPT ![t].state = "completed"]
    BY <2>1, ChangeOfWork
  <2>3. Promise!End(t, "completed")
    BY <1>1, <2>1, <2>2, WorkStates DEF Promise!End
  <2> QED
    BY <2>2, <2>3 DEF Promise!Next
<1>4. ASSUME NEW t \in Tasks, Fail(t)
      PROVE  Ordered(queue', now') /\ Promise!Next
  <2>1. queue[t].status = "running" /\ now' = now /\ queue' = SetStatus(queue, t, "failed")
    BY <1>4 DEF Fail
  <2>2. Ordered(queue', now') /\ WorkOf(queue') = [WorkOf(queue) EXCEPT ![t].state = "failed"]
    BY <2>1, ChangeOfWork
  <2>3. Promise!End(t, "failed")
    BY <1>1, <2>1, <2>2, WorkStates DEF Promise!End
  <2> QED
    BY <2>2, <2>3 DEF Promise!Next
<1>5. ASSUME NEW t \in Tasks, Cancel(t)
      PROVE  Ordered(queue', now') /\ Promise!Next
  <2>1. /\ queue[t].status \in {"pending", "ready", "running", "failed"} /\ now' = now
        /\ queue' = SetStatus(queue, t, "cancelled")
    BY <1>5 DEF Cancel
  <2>2. Ordered(queue', now') /\ WorkOf(queue') = [WorkOf(queue) EXCEPT ![t].state = "cancelled"]
    BY <2>1, ChangeOfWork
  <2>3. WorkOf(queue)[t].state \in {"waiting", "running", "failed"}
    BY <1>1, <2>1, WorkStates
  <2>4. Promise!Cancel(t)
    BY <2>2, <2>3 DEF Promise!Cancel
  <2> QED
    BY <2>2, <2>4 DEF Promise!Next
<1>6. CASE ClearQueue
  <2>1. queue' = EmptyQueue
    BY <1>6 DEF ClearQueue
  <2>2. Present(queue') = {}
    BY <2>1 DEF Present, HasStatus, EmptyQueue, NoTask
  <2>3. Ordered(queue', now')
    BY <2>1, <2>2 DEF Ordered, EmptyQueue, NoTask
  <2>4. WorkOf(queue') = [t \in Tasks |-> Promise!Nothing]
    BY <2>1 DEF WorkOf, EmptyQueue, NoTask, Promise!Nothing
  <2> QED
    BY <2>3, <2>4 DEF Promise!Next, Promise!Clear
<1>7. ASSUME NEW t \in Tasks, NEW deps \in SUBSET Tasks, NEW p \in Priorities, Add(t, deps, p)
      PROVE  Ordered(queue', now') /\ Promise!Next
  BY <1>7, AddIsAdd
<1>8. CASE UNCHANGED vars
  BY <1>8 DEF vars, OInv, WorkOf
<1> QED
  BY <1>2, <1>3, <1>4, <1>5, <1>6, <1>7, <1>8 DEF Next, Operate

\* The queue does what OrderedWork promises, for any tasks, dependencies and
\* priorities and any clock that does not run backwards, as long as ids are
\* not reused: first come first served within a priority, and nothing early.
THEOREM QueueIsOrderedWork == Spec => ImplementsOrderedWork
<1>1. Init => OInv
  BY InitIInv, InitOrder DEF OInv
<1>2. OInv /\ [Next]_vars => OInv'
  <2> SUFFICES ASSUME OInv, [Next]_vars PROVE OInv'
    OBVIOUS
  <2>1. IInv'
    BY StepKeepsIInv DEF OInv
  <2>2. Ordered(queue', now')
    BY StepIsWork
  <2>3. Ordered(queue, now)'
    BY <2>2 DEF Ordered, Present, HasStatus
  <2> QED
    BY <2>1, <2>3 DEF OInv
<1>3. Init => Promise!Init
  BY InitOrder
<1>4. OInv /\ [Next]_vars => [Promise!Next]_(WorkOf(queue))
  BY StepIsWork
<1> QED
  BY <1>1, <1>2, <1>3, <1>4, PTL DEF Spec, ImplementsOrderedWork, Promise!Spec
===============================================================================
