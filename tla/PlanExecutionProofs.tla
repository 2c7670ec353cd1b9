-------------------------- MODULE PlanExecutionProofs --------------------------
(***************************************************************************)
(* Proofs about plan execution for any plans, calls and bounds.            *)
(*                                                                         *)
(* That no step is stranded and that steps follow their dependencies holds *)
(* however many calls share the dispatcher.  Neither is inductive alone: a *)
(* step may be ready although one of its dependencies was loaded anew      *)
(* since, so what matters is that each of them has ended once (Earned),    *)
(* and a plan that a call executes must be one (PlanKnown).                *)
(*                                                                         *)
(* That a step runs once, and what bounds the workers, is proved for any   *)
(* number of calls whose plans share no step (PlansApart): two calls that  *)
(* share one violate both.  What the report covers is proved for a         *)
(* dispatcher that one call has to itself.  It says nothing of how it came *)
(* about, so for it each task is accounted for all along: collected, or    *)
(* still to be collected.  And whatever they share, the calls have only so *)
(* much to do, and each of their steps leaves less of it.                  *)
(***************************************************************************)
EXTENDS PlanExecution, FiniteSetTheorems, TLAPS

Over == Done \cup {"unstored"}

\* Some run of task t ended and left its output.
EndedOnce(t) == \E m \in DOMAIN runs : runs[m].task = t /\ runs[m].phase \in Over

Earned ==
  /\ \A t \in Tasks : queue[t].status = "completed" => EndedOnce(t)
  /\ \A t \in Tasks : queue[t].status = "ready" => \A d \in queue[t].deps : EndedOnce(d)

PlanKnown == \A k \in Calls : pc[k] # "idle" => planOf[k] \in Plans

IInv ==
  /\ TypeOK
  /\ IsFiniteSet(Q!Present(queue))
  /\ PlanKnown
  /\ RunningHasWorker
  /\ Earned
  /\ DependentsFollow

-------------------------------------------------------------------------------
(* What the operations of the queue do, task by task *)

Queues == [Tasks -> Q!TaskRecord]

\* updateReadyTasks only moves pending tasks, to ready, once their
\* dependencies are completed.
LEMMA ReadyingEffect ==
  ASSUME NEW q \in Queues
  PROVE  /\ Q!UpdateReady(q) \in Queues
         /\ \A u \in Tasks :
              /\ Q!UpdateReady(q)[u].deps = q[u].deps
              /\ Q!UpdateReady(q)[u].status =
                   IF q[u].status = "pending" /\ Q!DepsCompleted(q, u) THEN "ready"
                   ELSE q[u].status
         /\ Q!Present(Q!UpdateReady(q)) = Q!Present(q)
<1>1. /\ Q!UpdateReady(q) \in Queues
      /\ \A u \in Tasks :
              /\ Q!UpdateReady(q)[u].deps = q[u].deps
              /\ Q!UpdateReady(q)[u].status =
                   IF q[u].status = "pending" /\ Q!DepsCompleted(q, u) THEN "ready"
                   ELSE q[u].status
  BY DEF Q!UpdateReady, Q!TaskRecord, Q!TaskStatus, Queues
<1> QED
  BY <1>1 DEF Q!Present, Q!HasStatus

\* A change of status between two that a task in the queue may have.
LEMMA StatusEffect ==
  ASSUME NEW q \in Queues, NEW t \in Tasks, NEW s \in Q!TaskStatus \ {"absent"},
         q[t].status # "absent"
  PROVE  /\ Q!SetStatus(q, t, s) \in Queues
         /\ \A u \in Tasks : /\ Q!SetStatus(q, t, s)[u].deps = q[u].deps
                             /\ Q!SetStatus(q, t, s)[u].status = IF u = t THEN s ELSE q[u].status
         /\ Q!Present(Q!SetStatus(q, t, s)) = Q!Present(q)
<1>1. /\ Q!SetStatus(q, t, s) \in Queues
      /\ \A u \in Tasks : /\ Q!SetStatus(q, t, s)[u].deps = q[u].deps
                          /\ Q!SetStatus(q, t, s)[u].status = IF u = t THEN s ELSE q[u].status
  BY DEF Q!SetStatus, Q!TaskRecord, Queues
<1> QED
  BY <1>1 DEF Q!Present, Q!HasStatus

\* The queue counts as this module does.
LEMMA SameCount == \A S : Q!Cardinality(S) = Cardinality(S)
  BY Zenon DEF Q!Cardinality, Cardinality, Q!IsFiniteSet, IsFiniteSet

LEMMA QueueTyped ==
  ASSUME TypeOK
  PROVE  /\ queue \in Queues /\ now \in Nat
         /\ \A u \in Tasks : queue[u].deps \subseteq Tasks
  BY DEF TypeOK, Q!TypeOK, Queues, Q!TaskRecord

\* The task a call starts was ready or could have been made so.
LEMMA StartEffect ==
  ASSUME TypeOK, NEW t \in Tasks, Q!IsNext(Q!UpdateReady(queue), t),
         queue' = Q!SetStatus(Q!UpdateReady(queue), t, "running")
  PROVE  /\ queue' \in Queues
         /\ Q!Present(queue') = Q!Present(queue)
         /\ queue[t].status = "ready" \/ (queue[t].status = "pending" /\ Q!DepsCompleted(queue, t))
         /\ Q!UpdateReady(queue)[t].deps = queue[t].deps
         /\ \A u \in Tasks :
              /\ queue'[u].deps = queue[u].deps
              /\ queue'[u].status =
                   IF u = t THEN "running"
                   ELSE IF queue[u].status = "pending" /\ Q!DepsCompleted(queue, u) THEN "ready"
                   ELSE queue[u].status
<1> DEFINE q == Q!UpdateReady(queue)
<1>1. queue \in Queues
  BY QueueTyped
<1>2. q \in Queues /\ Q!Present(q) = Q!Present(queue)
  BY <1>1, ReadyingEffect
<1>3. q[t].status = "ready"
  BY DEF Q!IsNext, Q!HasStatus
<1>4. \A u \in Tasks :
        /\ q[u].deps = queue[u].deps
        /\ q[u].status = IF queue[u].status = "pending" /\ Q!DepsCompleted(queue, u) THEN "ready"
                         ELSE queue[u].status
  BY <1>1, ReadyingEffect
<1>5. queue' = Q!SetStatus(q, t, "running")
  OBVIOUS
<1> HIDE DEF q
<1>6. "running" \in Q!TaskStatus \ {"absent"}
  BY DEF Q!TaskStatus
<1>7. /\ queue' \in Queues /\ Q!Present(queue') = Q!Present(q)
      /\ \A u \in Tasks : /\ queue'[u].deps = q[u].deps
                          /\ queue'[u].status = IF u = t THEN "running" ELSE q[u].status
  BY <1>2, <1>3, <1>5, <1>6, StatusEffect
<1>8. queue[t].status = "ready" \/ (queue[t].status = "pending" /\ Q!DepsCompleted(queue, t))
  BY <1>3, <1>4
<1> QED
  BY <1>2, <1>4, <1>7, <1>8 DEF q

LEMMA CompleteEffect ==
  ASSUME TypeOK, NEW t \in Tasks, Q!Complete(t)
  PROVE  /\ queue' \in Queues /\ now' = now
         /\ Q!Present(queue') = Q!Present(queue)
         /\ queue[t].status = "running"
         /\ \A u \in Tasks :
              /\ queue'[u].deps = queue[u].deps
              /\ u = t => queue'[u].status = "completed"
              /\ u # t => \/ queue'[u].status = queue[u].status
                          \/ /\ queue[u].status = "pending" /\ queue'[u].status = "ready"
                             /\ \A d \in queue[u].deps : queue'[d].status = "completed"
<1> DEFINE q == Q!SetStatus(queue, t, "completed")
<1>1. queue \in Queues /\ queue[t].status = "running" /\ queue' = Q!UpdateReady(q) /\ now' = now
      /\ \A u \in Tasks : queue[u].deps \subseteq Tasks
  BY QueueTyped DEF Q!Complete
<1>2. "completed" \in Q!TaskStatus \ {"absent"}
  BY DEF Q!TaskStatus
<1>3. /\ q \in Queues /\ Q!Present(q) = Q!Present(queue)
      /\ \A u \in Tasks : /\ q[u].deps = queue[u].deps
                          /\ q[u].status = IF u = t THEN "completed" ELSE queue[u].status
  BY <1>1, <1>2, StatusEffect
<1> HIDE DEF q
<1>4. /\ queue' \in Queues /\ Q!Present(queue') = Q!Present(q)
      /\ \A u \in Tasks :
           /\ queue'[u].deps = q[u].deps
           /\ queue'[u].status = IF q[u].status = "pending" /\ Q!DepsCompleted(q, u) THEN "ready"
                                 ELSE q[u].status
  BY <1>1, <1>3, ReadyingEffect
<1>5. \A u \in Tasks : Q!DepsCompleted(q, u) =>
        \A d \in queue[u].deps : d \in Tasks /\ q[d].status = "completed"
  BY <1>1, <1>3 DEF Q!DepsCompleted
<1>6. \A d \in Tasks : q[d].status = "completed" => queue'[d].status = "completed"
  BY <1>4
<1> QED
  BY <1>1, <1>3, <1>4, <1>5, <1>6

LEMMA FailEffect ==
  ASSUME TypeOK, NEW t \in Tasks, Q!Fail(t)
  PROVE  /\ queue' \in Queues /\ now' = now
         /\ Q!Present(queue') = Q!Present(queue)
         /\ queue[t].status = "running"
         /\ \A u \in Tasks : /\ queue'[u].deps = queue[u].deps
                             /\ queue'[u].status = IF u = t THEN "failed" ELSE queue[u].status
<1>1. "failed" \in Q!TaskStatus \ {"absent"}
  BY DEF Q!TaskStatus
<1> QED
  BY <1>1, QueueTyped, StatusEffect DEF Q!Fail

\* A step that is loaded waits, and is ready only without dependencies.
LEMMA LoadEffect ==
  ASSUME TypeOK, IsFiniteSet(Q!Present(queue)),
         NEW t \in Tasks, NEW deps \in SUBSET Tasks, NEW p \in Priorities,
         Q!Add(t, deps, p) \/ Q!ReAdd(t, deps, p)
  PROVE  /\ queue' \in Queues /\ now' \in Nat
         /\ IsFiniteSet(Q!Present(queue'))
         /\ queue'[t].deps = deps
         /\ queue'[t].status = IF deps = {} THEN "ready" ELSE "pending"
         /\ \A u \in Tasks \ {t} : queue'[u] = queue[u]
<1> DEFINE new == [status |-> IF deps = {} THEN "ready" ELSE "pending",
                   deps |-> deps, priority |-> p, created |-> now',
                   place |-> IF t \in Q!Present(queue) THEN queue[t].place
                             ELSE Cardinality(Q!Present(queue)) + 1]
<1>1. /\ queue \in Queues /\ now' \in Nat
      /\ queue' = [queue EXCEPT ![t] = new]
  BY QueueTyped, SameCount DEF Q!Add, Q!ReAdd, Q!Tick, Q!Added
<1>2. Cardinality(Q!Present(queue)) \in Nat
  BY FS_CardinalityType
<1>3. new \in Q!TaskRecord /\ new.deps = deps
      /\ new.status = IF deps = {} THEN "ready" ELSE "pending"
  BY <1>1, <1>2, PlanAssumption DEF Q!TaskRecord, Q!TaskStatus, Queues
<1> HIDE DEF new
<1>4. queue' \in Queues /\ queue'[t] = new /\ \A u \in Tasks \ {t} : queue'[u] = queue[u]
  BY <1>1, <1>3 DEF Queues
<1>5. Q!Present(queue') = Q!Present(queue) \cup {t}
  BY <1>3, <1>4 DEF Q!Present, Q!HasStatus
<1>6. IsFiniteSet(Q!Present(queue'))
  BY <1>5, FS_AddElement
<1> QED
  BY <1>1, <1>3, <1>4, <1>6

-------------------------------------------------------------------------------
(* What ends and what starts a run *)

LEMMA RunsTyped ==
  ASSUME TypeOK
  PROVE  /\ runs \in Seq(Run) /\ DOMAIN runs = 1 .. Len(runs) /\ Len(runs) \in Nat
         /\ \A n \in DOMAIN runs : /\ runs[n] \in Run /\ runs[n].task \in Tasks
                                   /\ runs[n].deps \subseteq Tasks
<1>1. runs \in Seq(Run) /\ DOMAIN runs = 1 .. Len(runs) /\ Len(runs) \in Nat
  BY DEF TypeOK
<1>2. \A n \in DOMAIN runs : runs[n] \in Run
  BY <1>1
<1> QED
  BY <1>1, <1>2 DEF Run

LEMMA EndEffect ==
  ASSUME TypeOK, NEW n \in DOMAIN runs, NEW ph \in Result \cup Rejected, EndRun(n, ph)
  PROVE  /\ runs' \in Seq(Run) /\ Len(runs') = Len(runs) /\ DOMAIN runs' = DOMAIN runs
         /\ \A m \in DOMAIN runs : /\ runs'[m].task = runs[m].task
                                   /\ runs'[m].deps = runs[m].deps
                                   /\ runs'[m].phase = IF m = n THEN ph ELSE runs[m].phase
<1>1. /\ runs \in Seq(Run) /\ DOMAIN runs = 1 .. Len(runs)
      /\ \A m \in DOMAIN runs : runs[m] \in Run
  BY RunsTyped
<1>2. runs' = [runs EXCEPT ![n] = [runs[n] EXCEPT !.phase = ph]]
  BY DEF EndRun
<1>3. [runs[n] EXCEPT !.phase = ph] \in Run
  BY <1>1 DEF Run
<1>4. runs' \in Seq(Run) /\ Len(runs') = Len(runs) /\ DOMAIN runs' = DOMAIN runs
  BY <1>1, <1>2, <1>3
<1>5. /\ [runs[n] EXCEPT !.phase = ph].task = runs[n].task
      /\ [runs[n] EXCEPT !.phase = ph].deps = runs[n].deps
      /\ [runs[n] EXCEPT !.phase = ph].phase = ph
  BY <1>1 DEF Run
<1> QED
  BY <1>1, <1>2, <1>4, <1>5

LEMMA AppendEffect ==
  ASSUME TypeOK, NEW r \in Run, runs' = Append(runs, r)
  PROVE  /\ runs' \in Seq(Run) /\ Len(runs') = Len(runs) + 1
         /\ DOMAIN runs' = DOMAIN runs \cup {Len(runs) + 1}
         /\ Len(runs) + 1 \notin DOMAIN runs
         /\ runs'[Len(runs) + 1] = r
         /\ \A m \in DOMAIN runs : runs'[m] = runs[m]
<1>1. runs \in Seq(Run) /\ DOMAIN runs = 1 .. Len(runs) /\ Len(runs) \in Nat
  BY RunsTyped
<1>2. runs' \in Seq(Run) /\ Len(runs') = Len(runs) + 1 /\ DOMAIN runs' = 1 .. Len(runs) + 1
      /\ \A m \in 1 .. Len(runs) : runs'[m] = runs[m]
      /\ runs'[Len(runs) + 1] = r
  BY <1>1
<1> QED
  BY <1>1, <1>2

-------------------------------------------------------------------------------
(* The initial state, and steps that leave the queue and the runs alone *)

LEMMA InitIInv == Init => IInv
<1> SUFFICES ASSUME Init PROVE IInv
  OBVIOUS
<1>1. queue = Q!EmptyQueue /\ now = 0 /\ runs = <<>>
  BY DEF Init, Q!Init
<1>2. Q!EmptyQueue \in [Tasks -> Q!TaskRecord] /\ \A t \in Tasks : Q!EmptyQueue[t].status = "absent"
  BY DEF Q!EmptyQueue, Q!NoTask, Q!TaskRecord, Q!TaskStatus
<1>3. IsFiniteSet(Q!Present(queue))
  <2>1. Q!Present(queue) = {}
    BY <1>1, <1>2 DEF Q!Present, Q!HasStatus
  <2> QED
    BY <2>1, FS_EmptySet
<1>4. TypeOK
  <2>1. Q!TypeOK
    BY <1>1, <1>2 DEF Q!TypeOK
  <2>2. runs \in Seq(Run) /\ Len(runs) = 0
    BY <1>1
  <2>3. running \in [Calls -> [Tasks -> 0 .. Len(runs)]]
    BY <2>2 DEF Init
  <2> QED
    BY <2>1, <2>2, <2>3 DEF Init, TypeOK, Where
<1>5. RunningHasWorker /\ Earned
  BY <1>1, <1>2 DEF RunningHasWorker, Earned
<1>6. DependentsFollow
  BY <1>1 DEF DependentsFollow
<1>7. PlanKnown
  BY DEF Init, PlanKnown
<1> QED
  BY <1>3, <1>4, <1>5, <1>6, <1>7 DEF IInv

LEMMA SameWorkKeeps ==
  ASSUME IInv, TypeOK', PlanKnown', UNCHANGED <<queue, runs>>
  PROVE  IInv'
<1>1. IsFiniteSet(Q!Present(queue))'
  BY DEF IInv, Q!Present, Q!HasStatus
<1>2. RunningHasWorker'
  BY DEF IInv, RunningHasWorker, Working
<1>3. Earned'
  BY DEF IInv, Earned, EndedOnce
<1>4. DependentsFollow'
  BY DEF IInv, DependentsFollow
<1> QED
  BY <1>1, <1>2, <1>3, <1>4 DEF IInv

LEMMA RoutesKeep == ASSUME IInv, Routes PROVE IInv'
<1> USE DEF IInv
<1>1. ASSUME NEW p \in Plans, Submit(p) \/ RejectPlan(p) PROVE IInv'
  <2>1. TypeOK'
    BY <1>1 DEF Submit, RejectPlan, TypeOK, queueVars, callVars, workVars, storeVars,
       Q!TypeOK
  <2>2. PlanKnown' /\ UNCHANGED <<queue, runs>>
    BY <1>1 DEF Submit, RejectPlan, PlanKnown, queueVars, callVars, workVars
  <2> QED
    BY <2>1, <2>2, SameWorkKeeps
<1>2. ASSUME NEW p \in Plans, NEW k \in Calls, Approve(k, p) PROVE IInv'
  <2>1. TypeOK'
    BY <1>2 DEF Approve, TypeOK, queueVars, workVars, storeVars, Q!TypeOK, Where
  <2>2. PlanKnown' /\ UNCHANGED <<queue, runs>>
    BY <1>2 DEF Approve, PlanKnown, queueVars, workVars, TypeOK
  <2> QED
    BY <2>1, <2>2, SameWorkKeeps
<1> QED
  BY <1>1, <1>2 DEF Routes

LEMMA QuietStepsKeep ==
  ASSUME IInv, NEW k \in Calls,
         StartMonitoring(k) \/ Park(k) \/ Return(k) \/ Wake(k) \/ Throw(k)
  PROVE  IInv'
<1> USE DEF IInv
<1>1. CASE StartMonitoring(k)
  <2>1. planOf[k] \in Plans
    BY <1>1 DEF PlanKnown, StartMonitoring
  <2>2. TypeOK'
    BY <1>1, <2>1 DEF StartMonitoring, TypeOK, queueVars, storeVars, Q!TypeOK, Where
  <2>3. PlanKnown' /\ UNCHANGED <<queue, runs>>
    BY <1>1, <2>1 DEF StartMonitoring, PlanKnown, queueVars, TypeOK
  <2> QED
    BY <2>2, <2>3, SameWorkKeeps
<1>2. CASE Park(k)
  <2>1. TypeOK'
    BY <1>2 DEF Park, TypeOK, queueVars, storeVars, workVars, Q!TypeOK, Where
  <2>2. PlanKnown' /\ UNCHANGED <<queue, runs>>
    BY <1>2 DEF Park, PlanKnown, queueVars, workVars, TypeOK
  <2> QED
    BY <2>1, <2>2, SameWorkKeeps
<1>3. CASE Return(k)
  <2>1. [success |-> Failed = {}, completed |-> Completed, failed |-> Failed] \in Report
    BY DEF Report, Completed, Failed
  <2>2. TypeOK'
    BY <1>3, <2>1 DEF Return, TypeOK, queueVars, Q!TypeOK, Where
  <2>3. PlanKnown' /\ UNCHANGED <<queue, runs>>
    BY <1>3 DEF Return, PlanKnown, queueVars, TypeOK
  <2> QED
    BY <2>2, <2>3, SameWorkKeeps
<1>4. CASE Wake(k)
  <2>1. PICK t \in InFlight(k) :
          /\ runs[running[k][t]].phase \in Result
          /\ stepResults' = [stepResults EXCEPT ![t] = runs[running[k][t]].phase]
          /\ running' = [running EXCEPT ![k][t] = 0]
    BY <1>4 DEF Wake
  <2>2. t \in Tasks /\ Len(runs) \in Nat
    BY RunsTyped DEF InFlight
  <2>3. running' \in [Calls -> [Tasks -> 0 .. Len(runs)]]
    BY <2>1, <2>2 DEF TypeOK
  <2>4. stepResults' \in [Tasks -> Result \cup {"none"}]
    BY <2>1, <2>2 DEF TypeOK
  <2>5. TypeOK'
    BY <1>4, <2>3, <2>4 DEF Wake, TypeOK, queueVars, storeVars, Q!TypeOK, Where
  <2>6. PlanKnown' /\ UNCHANGED <<queue, runs>>
    BY <1>4 DEF Wake, PlanKnown, queueVars, TypeOK
  <2> QED
    BY <2>5, <2>6, SameWorkKeeps
<1>5. CASE Throw(k)
  <2>1. TypeOK'
    BY <1>5 DEF Throw, TypeOK, queueVars, storeVars, workVars, Q!TypeOK, Where
  <2>2. PlanKnown' /\ UNCHANGED <<queue, runs>>
    BY <1>5 DEF Throw, PlanKnown, queueVars, workVars, TypeOK
  <2> QED
    BY <2>1, <2>2, SameWorkKeeps
<1> QED
  BY <1>1, <1>2, <1>3, <1>4, <1>5
-------------------------------------------------------------------------------
(* Steps that load, start and end tasks *)

LEMMA LoadsAStep ==
  ASSUME TypeOK, PlanKnown, NEW k \in Calls, LoadStep(k)
  PROVE  \E s \in [id : Tasks, deps : SUBSET Tasks, priority : Priorities] :
           /\ s = StepsOf(k)[loaded[k] + 1]
           /\ Q!Add(s.id, s.deps, s.priority) \/ Q!ReAdd(s.id, s.deps, s.priority)
<1>0. planOf[k] \in Plans
  BY DEF LoadStep, PlanKnown
<1>1. StepsOf(k) \in Seq([id : Tasks, deps : SUBSET Tasks, priority : Priorities])
  BY <1>0, PlanAssumption DEF StepsOf
<1>2. loaded[k] + 1 \in 1 .. Len(StepsOf(k))
  BY <1>1 DEF LoadStep, TypeOK
<1> DEFINE s == StepsOf(k)[loaded[k] + 1]
<1>3. s \in [id : Tasks, deps : SUBSET Tasks, priority : Priorities]
  <2> HIDE DEF s
  <2>1. \A S : StepsOf(k) \in Seq(S) => StepsOf(k)[loaded[k] + 1] \in S
    BY <1>2
  <2> QED
    BY <1>1, <2>1 DEF s
<1>4. Q!Add(s.id, s.deps, s.priority) \/ Q!ReAdd(s.id, s.deps, s.priority)
  BY DEF LoadStep
<1> QED
  BY <1>3, <1>4

LEMMA LoadKeeps == ASSUME IInv, NEW k \in Calls, LoadStep(k) PROVE IInv'
<1> USE DEF IInv
<1>1. PICK s \in [id : Tasks, deps : SUBSET Tasks, priority : Priorities] :
        Q!Add(s.id, s.deps, s.priority) \/ Q!ReAdd(s.id, s.deps, s.priority)
  BY LoadsAStep
<1>2. /\ queue' \in Queues /\ now' \in Nat /\ IsFiniteSet(Q!Present(queue'))
      /\ queue'[s.id].deps = s.deps
      /\ queue'[s.id].status = IF s.deps = {} THEN "ready" ELSE "pending"
      /\ \A u \in Tasks \ {s.id} : queue'[u] = queue[u]
  BY <1>1, LoadEffect
<1>3. runs' = runs
  BY DEF LoadStep, workVars
<1>4. TypeOK'
  <2>1. Q!TypeOK'
    BY <1>2 DEF Q!TypeOK, Queues
  <2>2. loaded' \in [Calls -> Nat]
    BY DEF LoadStep, TypeOK
  <2> QED
    BY <2>1, <2>2 DEF LoadStep, TypeOK, storeVars, workVars
<1>5. PlanKnown'
  BY DEF LoadStep, PlanKnown
<1>6. IsFiniteSet(Q!Present(queue))'
  BY <1>2 DEF Q!Present, Q!HasStatus
<1>7. RunningHasWorker'
  BY <1>2, <1>3 DEF RunningHasWorker, Working
<1>8. Earned'
  BY <1>2, <1>3 DEF Earned, EndedOnce
<1>9. DependentsFollow'
  BY <1>3 DEF DependentsFollow
<1> QED
  BY <1>4, <1>5, <1>6, <1>7, <1>8, <1>9

\* The task that starts has earned it: each of its dependencies has ended.
LEMMA StartKeeps == ASSUME IInv, NEW k \in Calls, StartTask(k) PROVE IInv'
<1> USE DEF IInv
<1>1. PICK t \in Tasks :
        /\ Q!IsNext(Q!UpdateReady(queue), t)
        /\ queue' = Q!SetStatus(Q!UpdateReady(queue), t, "running")
        /\ runs' = Append(runs, [task |-> t, deps |-> Q!UpdateReady(queue)[t].deps,
                                 context |-> Context(Q!UpdateReady(queue)[t].deps),
                                 phase |-> "working"])
        /\ running' = [running EXCEPT ![k][t] = Len(runs) + 1]
        /\ activeWorkers' = activeWorkers \cup {t}
  BY DEF StartTask
<1> DEFINE r == [task |-> t, deps |-> queue[t].deps, context |-> Context(queue[t].deps),
                 phase |-> "working"]
           e == Len(runs) + 1
<1>2. /\ queue' \in Queues /\ Q!Present(queue') = Q!Present(queue)
      /\ queue[t].status = "ready" \/ (queue[t].status = "pending" /\ Q!DepsCompleted(queue, t))
      /\ Q!UpdateReady(queue)[t].deps = queue[t].deps
      /\ \A u \in Tasks :
           /\ queue'[u].deps = queue[u].deps
           /\ queue'[u].status =
                IF u = t THEN "running"
                ELSE IF queue[u].status = "pending" /\ Q!DepsCompleted(queue, u) THEN "ready"
                ELSE queue[u].status
  BY <1>1, StartEffect
<1>3. queue[t].deps \subseteq Tasks /\ \A u \in Tasks : queue[u].deps \subseteq Tasks
  BY QueueTyped
<1>4. r \in Run /\ runs' = Append(runs, r)
  BY <1>1, <1>2, <1>3 DEF Run, Context
<1>5. r.task = t /\ r.deps = queue[t].deps /\ r.phase = "working"
  OBVIOUS
<1> HIDE DEF r
<1>6. /\ runs' \in Seq(Run) /\ Len(runs') = e
      /\ DOMAIN runs' = DOMAIN runs \cup {e} /\ e \notin DOMAIN runs
      /\ runs'[e] = r
      /\ \A m \in DOMAIN runs : runs'[m] = runs[m]
  BY <1>4, AppendEffect
<1>7. TypeOK'
  <2>1. Q!TypeOK'
    BY <1>2 DEF StartTask, Q!TypeOK, Queues, TypeOK
  <2>2. running' \in [Calls -> [Tasks -> 0 .. Len(runs')]]
    <3>1. Len(runs) \in Nat /\ running \in [Calls -> [Tasks -> 0 .. Len(runs)]]
      BY RunsTyped DEF TypeOK
    <3>2. running \in [Calls -> [Tasks -> 0 .. e]]
      BY <3>1
    <3> QED
      BY <1>1, <1>6, <3>1, <3>2
  <2> QED
    BY <1>1, <1>6, <2>1, <2>2 DEF StartTask, TypeOK, storeVars
<1>8. PlanKnown'
  BY DEF StartTask, PlanKnown
<1>9. IsFiniteSet(Q!Present(queue))'
  BY <1>2 DEF Q!Present, Q!HasStatus
<1>10. RunningHasWorker'
  <2> SUFFICES ASSUME NEW u \in Tasks, queue'[u].status = "running"
               PROVE  \E n \in DOMAIN runs' : runs'[n].phase = "working" /\ runs'[n].task = u
    BY DEF RunningHasWorker, Working
  <2>1. CASE u = t
    BY <1>5, <1>6, <2>1
  <2>2. CASE u # t
    <3>1. queue[u].status = "running"
      BY <1>2, <2>2
    <3> QED
      BY <1>6, <3>1 DEF RunningHasWorker, Working
  <2> QED
    BY <2>1, <2>2
<1>11. \A u \in Tasks : EndedOnce(u) => EndedOnce(u)'
  BY <1>6 DEF EndedOnce
<1>12. \A u \in Tasks : Q!DepsCompleted(queue, u) => \A d \in queue[u].deps : EndedOnce(d)
  BY <1>3 DEF Q!DepsCompleted, Earned
<1>13. Earned'
  <2>1. \A u \in Tasks : queue'[u].status = "completed" => EndedOnce(u)'
    BY <1>2, <1>11 DEF Earned
  <2>2. ASSUME NEW u \in Tasks, queue'[u].status = "ready", NEW d \in queue'[u].deps
        PROVE  EndedOnce(d)'
    <3>1. d \in Tasks /\ d \in queue[u].deps
      BY <1>2, <1>3, <2>2
    <3>2. queue[u].status = "ready" \/ Q!DepsCompleted(queue, u)
      BY <1>2, <2>2
    <3>3. EndedOnce(d)
      BY <1>12, <3>1, <3>2 DEF Earned
    <3> QED
      BY <1>11, <3>1, <3>3
  <2> QED
    BY <2>1, <2>2 DEF Earned
<1>14. DependentsFollow'
  <2> SUFFICES ASSUME NEW n \in DOMAIN runs', NEW d \in runs'[n].deps
               PROVE  \E m \in 1 .. n - 1 : runs'[m].task = d /\ runs'[m].phase \in Over
    BY DEF DependentsFollow, Over
  <2>1. DOMAIN runs = 1 .. Len(runs) /\ Len(runs) \in Nat
    BY RunsTyped
  <2>2. CASE n \in DOMAIN runs
    <3>1. \E m \in 1 .. n - 1 : runs[m].task = d /\ runs[m].phase \in Over
      BY <1>6, <2>2 DEF DependentsFollow, Over
    <3> QED
      BY <1>6, <2>1, <2>2, <3>1
  <2>3. CASE n = e
    <3>1. d \in queue[t].deps
      BY <1>5, <1>6, <2>3
    <3>2. EndedOnce(d)
      BY <1>2, <1>12, <3>1 DEF Earned
    <3> QED
      BY <1>6, <2>1, <2>3, <3>2 DEF EndedOnce
  <2> QED
    BY <1>6, <2>2, <2>3
<1> QED
  BY <1>7, <1>8, <1>9, <1>10, <1>13, <1>14

\* What the end of run n does to the rest, whatever it does to its task.
LEMMA EndKeeps ==
  ASSUME IInv, NEW n \in DOMAIN runs, runs[n].phase = "working",
         NEW ph \in Result \cup Rejected, EndRun(n, ph)
  PROVE  /\ DependentsFollow'
         /\ \A u \in Tasks : EndedOnce(u) => EndedOnce(u)'
         /\ \A u \in Tasks : u = runs[n].task /\ ph \in Over => EndedOnce(u)'
         /\ \A m \in Working \ {n} : m \in Working' /\ runs'[m].task = runs[m].task
<1> USE DEF IInv
<1>1. /\ DOMAIN runs' = DOMAIN runs
      /\ \A m \in DOMAIN runs : /\ runs'[m].task = runs[m].task
                                /\ runs'[m].deps = runs[m].deps
                                /\ runs'[m].phase = IF m = n THEN ph ELSE runs[m].phase
  BY EndEffect
<1>2. "working" \notin Over
  BY DEF Over, Done
<1>3. \A m \in DOMAIN runs : runs[m].phase \in Over => runs'[m].phase \in Over
  BY <1>1, <1>2
<1>4. DependentsFollow'
  <2> SUFFICES ASSUME NEW m \in DOMAIN runs', NEW d \in runs'[m].deps
               PROVE  \E l \in 1 .. m - 1 : runs'[l].task = d /\ runs'[l].phase \in Over
    BY DEF DependentsFollow, Over
  <2>1. PICK l \in 1 .. m - 1 : runs[l].task = d /\ runs[l].phase \in Over
    BY <1>1 DEF DependentsFollow, Over
  <2>2. l \in DOMAIN runs
    BY <1>1, RunsTyped
  <2> QED
    BY <1>1, <1>3, <2>1, <2>2
<1>5. \A u \in Tasks : EndedOnce(u) => EndedOnce(u)'
  BY <1>1, <1>3 DEF EndedOnce
<1> QED
  BY <1>1, <1>4, <1>5 DEF EndedOnce, Working

\* The type invariant after the end of a run.
LEMMA EndTyped ==
  ASSUME TypeOK, NEW n \in DOMAIN runs, NEW ph \in Result \cup Rejected, EndRun(n, ph),
         queue' \in Queues, now' = now, activeWorkers' \subseteq activeWorkers,
         UNCHANGED <<storeVars, turn, callVars, stepResults, monitored>>
  PROVE  TypeOK'
<1>1. runs' \in Seq(Run) /\ Len(runs') = Len(runs)
  BY EndEffect
<1>2. Q!TypeOK'
  BY DEF Q!TypeOK, TypeOK, Queues
<1>3. activeWorkers' \in SUBSET Tasks
  BY DEF TypeOK
<1>4. running' \in [Calls -> [Tasks -> 0 .. Len(runs')]]
  BY <1>1 DEF TypeOK, callVars
<1> QED
  BY <1>1, <1>2, <1>3, <1>4 DEF TypeOK, storeVars, callVars

LEMMA CompletionKeeps ==
  ASSUME IInv, NEW n \in DOMAIN runs, WorkerEnds(n) \/ StoringFails(n)
  PROVE  IInv'
<1> USE DEF IInv
<1>1. PICK t \in Tasks : t = runs[n].task
  BY RunsTyped
<1>2. PICK ph \in Over : EndRun(n, ph)
  BY DEF WorkerEnds, StoringFails, Over
<1>3. /\ Q!Complete(t) /\ runs[n].phase = "working"
      /\ activeWorkers' = activeWorkers \ {t}
      /\ UNCHANGED <<storeVars, turn, callVars, stepResults, monitored>>
  BY <1>1 DEF WorkerEnds, StoringFails
<1>4. /\ queue' \in Queues /\ now' = now
      /\ Q!Present(queue') = Q!Present(queue)
      /\ \A u \in Tasks :
              /\ queue'[u].deps = queue[u].deps
              /\ u = t => queue'[u].status = "completed"
              /\ u # t => \/ queue'[u].status = queue[u].status
                          \/ /\ queue[u].status = "pending" /\ queue'[u].status = "ready"
                             /\ \A d \in queue[u].deps : queue'[d].status = "completed"
  BY <1>1, <1>3, CompleteEffect
<1>5. ph \in Result \cup Rejected
  BY DEF Over, Result, Rejected
<1>6. /\ DependentsFollow'
      /\ \A u \in Tasks : EndedOnce(u) => EndedOnce(u)'
      /\ EndedOnce(t)'
      /\ \A m \in Working \ {n} : m \in Working' /\ runs'[m].task = runs[m].task
  BY <1>1, <1>2, <1>3, <1>5, EndKeeps
<1>7. TypeOK'
  BY <1>2, <1>3, <1>4, <1>5, EndTyped
<1>8. PlanKnown'
  BY <1>3 DEF PlanKnown, callVars
<1>9. IsFiniteSet(Q!Present(queue))'
  BY <1>4 DEF Q!Present, Q!HasStatus
<1>10. RunningHasWorker'
  <2> SUFFICES ASSUME NEW u \in Tasks, queue'[u].status = "running"
               PROVE  \E m \in Working' : runs'[m].task = u
    BY DEF RunningHasWorker
  <2>1. u # t /\ queue[u].status = "running"
    BY <1>4
  <2>2. PICK m \in Working : runs[m].task = u
    BY <2>1 DEF RunningHasWorker
  <2> QED
    BY <1>1, <1>6, <2>1, <2>2
<1>11. Earned'
  <2>1. ASSUME NEW u \in Tasks, queue'[u].status = "completed" PROVE EndedOnce(u)'
    <3>1. CASE u = t
      BY <1>6, <3>1
    <3>2. CASE u # t
      BY <1>4, <1>6, <2>1, <3>2 DEF Earned
    <3> QED
      BY <3>1, <3>2
  <2>2. ASSUME NEW u \in Tasks, queue'[u].status = "ready", NEW d \in queue'[u].deps
        PROVE  EndedOnce(d)'
    <3>1. u # t /\ d \in queue[u].deps /\ d \in Tasks
      BY <1>4, <2>2, QueueTyped
    <3>2. queue[u].status = "ready" \/ queue'[d].status = "completed"
      BY <1>4, <2>2, <3>1
    <3> QED
      BY <1>6, <2>1, <3>1, <3>2 DEF Earned
  <2> QED
    BY <2>1, <2>2 DEF Earned
<1> QED
  BY <1>6, <1>7, <1>8, <1>9, <1>10, <1>11

LEMMA FailureKeeps ==
  ASSUME IInv, NEW n \in DOMAIN runs, WorkerThrows(n)
  PROVE  IInv'
<1> USE DEF IInv
<1>1. PICK t \in Tasks : t = runs[n].task
  BY RunsTyped
<1>2. /\ Q!Fail(t) /\ runs[n].phase = "working" /\ EndRun(n, "failed")
      /\ activeWorkers' = activeWorkers \ {t}
      /\ UNCHANGED <<storeVars, turn, callVars, stepResults, monitored>>
  BY <1>1 DEF WorkerThrows
<1>3. /\ queue' \in Queues /\ now' = now
      /\ Q!Present(queue') = Q!Present(queue)
      /\ \A u \in Tasks : /\ queue'[u].deps = queue[u].deps
                          /\ queue'[u].status = IF u = t THEN "failed" ELSE queue[u].status
  BY <1>1, <1>2, FailEffect
<1>4. "failed" \in Result \cup Rejected
  BY DEF Result
<1>5. /\ DependentsFollow'
      /\ \A u \in Tasks : EndedOnce(u) => EndedOnce(u)'
      /\ \A m \in Working \ {n} : m \in Working' /\ runs'[m].task = runs[m].task
  BY <1>2, <1>4, EndKeeps
<1>6. TypeOK'
  BY <1>2, <1>3, <1>4, EndTyped
<1>7. PlanKnown'
  BY <1>2 DEF PlanKnown, callVars
<1>8. IsFiniteSet(Q!Present(queue))'
  BY <1>3 DEF Q!Present, Q!HasStatus
<1>9. RunningHasWorker'
  <2> SUFFICES ASSUME NEW u \in Tasks, queue'[u].status = "running"
               PROVE  \E m \in Working' : runs'[m].task = u
    BY DEF RunningHasWorker
  <2>1. u # t /\ queue[u].status = "running"
    BY <1>3
  <2>2. PICK m \in Working : runs[m].task = u
    BY <2>1 DEF RunningHasWorker
  <2> QED
    BY <1>1, <1>5, <2>1, <2>2
<1>10. Earned'
  BY <1>3, <1>5, QueueTyped DEF Earned
<1> QED
  BY <1>5, <1>6, <1>7, <1>8, <1>9, <1>10

LEMMA CrashKeeps ==
  ASSUME IInv, NEW n \in DOMAIN runs, RunCrashes(n)
  PROVE  IInv'
<1> USE DEF IInv
<1>1. /\ runs[n].phase = "working" /\ queue[runs[n].task].status # "running"
      /\ EndRun(n, "crashed")
      /\ UNCHANGED <<queueVars, storeVars, turn, callVars, stepResults, activeWorkers, monitored>>
  BY DEF RunCrashes
<1>2. "crashed" \in Result \cup Rejected
  BY DEF Rejected
<1>3. /\ DependentsFollow'
      /\ \A u \in Tasks : EndedOnce(u) => EndedOnce(u)'
      /\ \A m \in Working \ {n} : m \in Working' /\ runs'[m].task = runs[m].task
  BY <1>1, <1>2, EndKeeps
<1>4. queue' = queue /\ now' = now
  BY <1>1 DEF queueVars
<1>5. TypeOK'
  BY <1>1, <1>2, <1>4, EndTyped, QueueTyped
<1>6. PlanKnown'
  BY <1>1 DEF PlanKnown, callVars
<1>7. IsFiniteSet(Q!Present(queue))'
  BY <1>4 DEF Q!Present, Q!HasStatus
<1>8. RunningHasWorker'
  BY <1>1, <1>3, <1>4 DEF RunningHasWorker
<1>9. Earned'
  BY <1>3, <1>4, QueueTyped DEF Earned
<1> QED
  BY <1>3, <1>5, <1>6, <1>7, <1>8, <1>9

LEMMA StepKeepsIInv == IInv /\ [Next]_vars => IInv'
<1> SUFFICES ASSUME IInv, [Next]_vars PROVE IInv'
  OBVIOUS
<1>1. CASE Routes
  BY <1>1, RoutesKeep
<1>2. ASSUME NEW k \in Calls, Sync(k) \/ Wake(k) \/ Throw(k) PROVE IInv'
  BY <1>2, LoadKeeps, StartKeeps, QuietStepsKeep DEF Sync
<1>3. ASSUME NEW n \in DOMAIN runs, Worker(n) PROVE IInv'
  BY <1>3, CompletionKeeps, FailureKeeps, CrashKeeps DEF Worker
<1>4. CASE UNCHANGED vars
  <2>1. TypeOK'
    BY <1>4 DEF IInv, TypeOK, Q!TypeOK, vars, queueVars, storeVars, callVars, workVars
  <2>2. PlanKnown' /\ UNCHANGED <<queue, runs>>
    BY <1>4 DEF IInv, PlanKnown, vars, queueVars, callVars, workVars
  <2> QED
    BY <2>1, <2>2, SameWorkKeeps
<1> QED
  BY <1>1, <1>2, <1>3, <1>4 DEF Next, Loop

LEMMA Inductive == Spec => []IInv
  BY InitIInv, StepKeepsIInv, PTL DEF Spec

\* The type invariant, for any plans, however they repeat ids.
THEOREM TypeCorrect == Spec => []TypeOK
<1>1. IInv => TypeOK
  BY DEF IInv
<1> QED
  BY <1>1, Inductive, PTL

\* A step that the queue shows as running has a worker that will end it,
\* however many calls share the dispatcher (dispatcher.ts:70-102).
THEOREM NobodyIsStranded == Spec => []RunningHasWorker
<1>1. IInv => RunningHasWorker
  BY DEF IInv
<1> QED
  BY <1>1, Inductive, PTL

\* A step starts after an earlier run of each of its dependencies ended without
\* throwing, also when a plan is loaded over another.
THEOREM StepsFollowTheirDependencies == Spec => []DependentsFollow
<1>1. IInv => DependentsFollow
  BY DEF IInv
<1> QED
  BY <1>1, Inductive, PTL

-------------------------------------------------------------------------------
(* What a step is given *)

Ends(t) == { runs[m].phase : m \in { k \in DOMAIN runs : runs[k].task = t } }

\* The map of a call leads to runs; a recorded result is that of some run; and a task
\* that ran has a result recorded, or one still to be collected.
OutputInv ==
  /\ \A k \in Calls, t \in Tasks :
       running[k][t] # 0 => running[k][t] \in DOMAIN runs /\ runs[running[k][t]].task = t
  /\ \A t \in Tasks :
       stepResults[t] # "none" =>
         \E m \in DOMAIN runs : runs[m].task = t /\ runs[m].phase = stepResults[t]
  /\ \A m \in DOMAIN runs :
       \/ stepResults[runs[m].task] # "none"
       \/ \E k \in Calls : runs[m].task \in InFlight(k)

LEMMA OutputInit == Init => OutputInv
  BY DEF Init, OutputInv

LEMMA OutputStarts ==
  ASSUME IInv, OutputInv, NEW k \in Calls, StartTask(k)
  PROVE  OutputInv'
<1>1. PICK t \in Tasks :
        /\ Q!IsNext(Q!UpdateReady(queue), t)
        /\ queue' = Q!SetStatus(Q!UpdateReady(queue), t, "running")
        /\ runs' = Append(runs, [task |-> t, deps |-> Q!UpdateReady(queue)[t].deps,
                                 context |-> Context(Q!UpdateReady(queue)[t].deps),
                                 phase |-> "working"])
        /\ running' = [running EXCEPT ![k][t] = Len(runs) + 1]
  BY DEF StartTask
<1>2. PICK e \in Nat \ {0} : e = Len(runs) + 1
  BY RunsTyped DEF IInv
<1>3. /\ DOMAIN runs' = DOMAIN runs \cup {e} /\ e \notin DOMAIN runs
      /\ runs'[e].task = t
      /\ \A m \in DOMAIN runs : runs'[m] = runs[m]
  <2> DEFINE r == [task |-> t, deps |-> queue[t].deps, context |-> Context(queue[t].deps),
                   phase |-> "working"]
  <2>1. Q!UpdateReady(queue)[t].deps = queue[t].deps
    BY <1>1, StartEffect DEF IInv
  <2>2. r \in Run /\ r.task = t /\ runs' = Append(runs, r)
    BY <1>1, <2>1, QueueTyped DEF IInv, Run, Context
  <2> HIDE DEF r
  <2> QED
    BY <2>2, <1>2, AppendEffect DEF IInv
<1>4. /\ running'[k][t] = e
      /\ \A l \in Calls, u \in Tasks : l # k \/ u # t => running'[l][u] = running[l][u]
  <2>1. running \in [Calls -> [Tasks -> Nat]]
    BY RunsTyped DEF IInv, TypeOK
  <2> QED
    BY <1>1, <1>2, <2>1
<1>5. stepResults' = stepResults
  BY DEF StartTask
<1>6. \A l \in Calls, u \in Tasks :
        running'[l][u] # 0 => running'[l][u] \in DOMAIN runs' /\ runs'[running'[l][u]].task = u
  <2>1. ASSUME NEW l \in Calls, NEW u \in Tasks, running'[l][u] # 0
        PROVE  running'[l][u] \in DOMAIN runs' /\ runs'[running'[l][u]].task = u
    <3>1. CASE l = k /\ u = t
      BY <1>3, <1>4, <3>1
    <3>2. CASE l # k \/ u # t
      BY <1>3, <1>4, <2>1, <3>2 DEF OutputInv
    <3> QED
      BY <3>1, <3>2
  <2> QED
    BY <2>1
<1>7. \A u \in Tasks :
        stepResults[u] # "none" =>
          \E m \in DOMAIN runs' : runs'[m].task = u /\ runs'[m].phase = stepResults[u]
  BY <1>3 DEF OutputInv
<1>8. \A l \in Calls : InFlight(l) \subseteq InFlight(l)' /\ t \in InFlight(k)'
  BY <1>2, <1>4 DEF InFlight
<1>9. \A m \in DOMAIN runs' :
        \/ stepResults[runs'[m].task] # "none"
        \/ \E l \in Calls : runs'[m].task \in InFlight(l)'
  BY <1>3, <1>8 DEF OutputInv
<1> QED
  BY <1>5, <1>6, <1>7, <1>9 DEF OutputInv

LEMMA OutputCollected ==
  ASSUME IInv, OutputInv, NEW k \in Calls, Wake(k)
  PROVE  OutputInv'
<1>1. PICK t \in InFlight(k) :
        /\ runs[running[k][t]].phase \in Result
        /\ stepResults' = [stepResults EXCEPT ![t] = runs[running[k][t]].phase]
        /\ running' = [running EXCEPT ![k][t] = 0]
  BY DEF Wake
<1>2. t \in Tasks /\ running[k][t] # 0 /\ runs' = runs
  BY DEF InFlight, Wake
<1>3. /\ running'[k][t] = 0
      /\ \A l \in Calls, u \in Tasks : l # k \/ u # t => running'[l][u] = running[l][u]
  <2>1. running \in [Calls -> [Tasks -> Nat]]
    BY RunsTyped DEF IInv, TypeOK
  <2> QED
    BY <1>1, <1>2, <2>1
<1>4. /\ stepResults'[t] = runs[running[k][t]].phase /\ stepResults'[t] # "none"
      /\ \A u \in Tasks \ {t} : stepResults'[u] = stepResults[u]
  BY <1>1, <1>2 DEF IInv, TypeOK, Result, Done
<1>5. \A l \in Calls : InFlight(l) \ {t} \subseteq InFlight(l)'
  BY <1>3 DEF InFlight
<1>6. \A l \in Calls, u \in Tasks :
        running'[l][u] # 0 => running'[l][u] \in DOMAIN runs /\ runs[running'[l][u]].task = u
  BY <1>3 DEF OutputInv
<1>7. \A u \in Tasks :
        stepResults'[u] # "none" =>
          \E m \in DOMAIN runs : runs[m].task = u /\ runs[m].phase = stepResults'[u]
  <2>1. running[k][t] \in DOMAIN runs /\ runs[running[k][t]].task = t
    BY <1>2 DEF OutputInv
  <2> QED
    BY <1>4, <2>1 DEF OutputInv
<1>8. \A m \in DOMAIN runs :
        \/ stepResults'[runs[m].task] # "none"
        \/ \E l \in Calls : runs[m].task \in InFlight(l)'
  <2>1. \A m \in DOMAIN runs : runs[m].task \in Tasks
    BY RunsTyped DEF IInv
  <2> QED
    BY <1>4, <1>5, <2>1 DEF OutputInv
<1> QED
  BY <1>2, <1>6, <1>7, <1>8 DEF OutputInv

LEMMA OutputEnds ==
  ASSUME IInv, OutputInv, NEW n \in DOMAIN runs, Worker(n)
  PROVE  OutputInv'
<1>1. PICK ph \in Result \cup Rejected : EndRun(n, ph)
  BY DEF Worker, WorkerEnds, WorkerThrows, StoringFails, RunCrashes, Result, Rejected
<1>2. /\ runs[n].phase = "working" /\ UNCHANGED <<running, stepResults>>
  BY DEF Worker, WorkerEnds, WorkerThrows, StoringFails, RunCrashes, callVars
<1>3. /\ DOMAIN runs' = DOMAIN runs
      /\ \A m \in DOMAIN runs : /\ runs'[m].task = runs[m].task
                                /\ runs'[m].phase = IF m = n THEN ph ELSE runs[m].phase
  BY <1>1, EndEffect DEF IInv
<1>4. \A t \in Tasks : stepResults[t] # "working"
  BY DEF IInv, TypeOK, Result, Done
<1>5. \A t \in Tasks :
        stepResults[t] # "none" =>
          \E m \in DOMAIN runs : runs'[m].task = t /\ runs'[m].phase = stepResults[t]
  BY <1>2, <1>3, <1>4 DEF OutputInv
<1> QED
  BY <1>2, <1>3, <1>5 DEF OutputInv, InFlight

LEMMA OutputStep == IInv /\ OutputInv /\ [Next]_vars => OutputInv'
<1> SUFFICES ASSUME IInv, OutputInv, [Next]_vars PROVE OutputInv'
  OBVIOUS
<1>1. CASE UNCHANGED <<running, runs, stepResults>>
  BY <1>1 DEF OutputInv, InFlight
<1>2. ASSUME NEW k \in Calls,
             LoadStep(k) \/ StartMonitoring(k) \/ Park(k) \/ Return(k) \/ Throw(k)
      PROVE  UNCHANGED <<running, runs, stepResults>>
  BY <1>2 DEF LoadStep, StartMonitoring, Park, Return, Throw, workVars
<1>3. Routes \/ UNCHANGED vars => UNCHANGED <<running, runs, stepResults>>
  BY DEF Routes, Submit, RejectPlan, Approve, vars, callVars, workVars
<1> QED
  BY <1>1, <1>2, <1>3, OutputStarts, OutputCollected, OutputEnds DEF Next, Loop, Sync

\* A step that starts is given what the result map holds.
LEMMA GivenTexts ==
  IInv /\ OutputInv /\ [Next]_vars =>
    \A n \in DOMAIN runs' \ DOMAIN runs : \A d \in runs'[n].deps :
      IF d \in runs'[n].context
        THEN "text" \in Ends(d)
        ELSE SharesOutput => Ends(d) # {"text"} \/ \E c \in Calls : d \in InFlight(c)
<1> SUFFICES ASSUME IInv, OutputInv, [Next]_vars,
                    NEW n \in DOMAIN runs' \ DOMAIN runs, NEW d \in runs'[n].deps
             PROVE  IF d \in runs'[n].context
                      THEN "text" \in Ends(d)
                      ELSE SharesOutput => Ends(d) # {"text"} \/ \E c \in Calls : d \in InFlight(c)
  OBVIOUS
<1>1. PICK k \in Calls : StartTask(k)
  <2>1. ASSUME NEW l \in Calls,
               LoadStep(l) \/ StartMonitoring(l) \/ Park(l) \/ Return(l) \/ Throw(l) \/ Wake(l)
        PROVE  runs' = runs
    BY <2>1 DEF LoadStep, StartMonitoring, Park, Return, Throw, Wake, workVars
  <2>2. ASSUME NEW m \in DOMAIN runs, Worker(m) PROVE DOMAIN runs' = DOMAIN runs
    <3>1. PICK ph \in Result \cup Rejected : EndRun(m, ph)
      BY <2>2 DEF Worker, WorkerEnds, WorkerThrows, StoringFails, RunCrashes, Result, Rejected
    <3> QED
      BY <3>1, EndEffect DEF IInv
  <2>3. Routes \/ UNCHANGED vars => runs' = runs
    BY DEF Routes, Submit, RejectPlan, Approve, vars, workVars
  <2> QED
    BY <2>1, <2>2, <2>3 DEF Next, Loop, Sync
<1>2. PICK t \in Tasks :
        /\ Q!IsNext(Q!UpdateReady(queue), t)
        /\ queue' = Q!SetStatus(Q!UpdateReady(queue), t, "running")
        /\ runs' = Append(runs, [task |-> t, deps |-> Q!UpdateReady(queue)[t].deps,
                                 context |-> Context(Q!UpdateReady(queue)[t].deps),
                                 phase |-> "working"])
  BY <1>1 DEF StartTask
<1>3. /\ runs'[n].deps = queue[t].deps /\ runs'[n].context = Context(queue[t].deps)
  <2> DEFINE r == [task |-> t, deps |-> queue[t].deps, context |-> Context(queue[t].deps),
                   phase |-> "working"]
  <2>1. Q!UpdateReady(queue)[t].deps = queue[t].deps
    BY <1>2, StartEffect DEF IInv
  <2>2. /\ r \in Run /\ runs' = Append(runs, r)
        /\ r.deps = queue[t].deps /\ r.context = Context(queue[t].deps)
    BY <1>2, <2>1, QueueTyped DEF IInv, Run, Context
  <2> HIDE DEF r
  <2>3. runs'[n] = r
    BY <2>2, AppendEffect DEF IInv
  <2> QED
    BY <2>2, <2>3
<1>4. d \in Tasks /\ (d \in runs'[n].context <=> SharesOutput /\ stepResults[d] = "text")
  BY <1>3, QueueTyped DEF IInv, Context
<1>5. CASE d \in runs'[n].context
  BY <1>4, <1>5 DEF OutputInv, Ends
<1>6. CASE d \notin runs'[n].context
  <2> SUFFICES ASSUME SharesOutput, Ends(d) = {"text"} PROVE \E c \in Calls : d \in InFlight(c)
    BY <1>6
  <2>1. stepResults[d] = "none"
    BY <1>4, <1>6 DEF OutputInv, Ends
  <2>2. \E m \in DOMAIN runs : runs[m].task = d
    BY DEF Ends
  <2> QED
    BY <2>1, <2>2 DEF OutputInv
<1> QED
  BY <1>5, <1>6

\* However many calls share the dispatcher and whatever ids their plans repeat: a step
\* gets the text of each of its dependencies that left one, unless it starts between
\* the end of a run and the collection of its result (dispatcher.ts:102-104, 118-121).
THEOREM TextsReachDependents == Spec => OutputReachesDependents
<1>1. IInv /\ OutputInv /\ [Next]_vars =>
        [\A n \in DOMAIN runs' \ DOMAIN runs : \A d \in runs'[n].deps :
           LET phases == { runs[m].phase : m \in { k \in DOMAIN runs : runs[k].task = d } } IN
           IF d \in runs'[n].context
             THEN "text" \in phases
             ELSE SharesOutput => phases # {"text"} \/ \E c \in Calls : d \in InFlight(c)]_vars
  BY GivenTexts DEF Ends
<1> QED
  BY <1>1, OutputInit, OutputStep, Inductive, PTL DEF Spec, OutputReachesDependents

-------------------------------------------------------------------------------
(* The slots of a call *)

SlotsKept ==
  \A k \in Calls : IsFiniteSet(InFlight(k)) /\ Cardinality(InFlight(k)) <= MaxConcurrency

LEMMA SlotsInit == Init => SlotsKept
<1> SUFFICES ASSUME Init PROVE SlotsKept
  OBVIOUS
<1>1. \A k \in Calls : InFlight(k) = {}
  BY DEF Init, InFlight
<1>2. IsFiniteSet({}) /\ Cardinality({}) = 0 /\ 0 <= MaxConcurrency
  BY FS_EmptySet, PlanAssumption
<1> QED
  BY <1>1, <1>2 DEF SlotsKept

\* A slot is taken when a task starts and given back when its end is collected,
\* whoever else uses the queue.
LEMMA SlotTaken ==
  ASSUME IInv, SlotsKept, NEW k \in Calls, NEW t \in Tasks, NEW e \in Nat \ {0},
         Cardinality(InFlight(k)) < MaxConcurrency,
         running' = [running EXCEPT ![k][t] = e]
  PROVE  SlotsKept'
<1>1. running \in [Calls -> [Tasks -> Nat]]
  BY RunsTyped DEF IInv, TypeOK
<1>2. /\ running'[k][t] = e
      /\ \A l \in Calls, u \in Tasks : l # k \/ u # t => running'[l][u] = running[l][u]
  BY <1>1
<1>3. /\ InFlight(k)' = InFlight(k) \cup {t}
      /\ \A l \in Calls \ {k} : InFlight(l)' = InFlight(l)
  BY <1>2 DEF InFlight
<1>4. IsFiniteSet(InFlight(k)) /\ Cardinality(InFlight(k)) \in Nat
  BY FS_CardinalityType DEF SlotsKept
<1>5. IsFiniteSet(InFlight(k) \cup {t}) /\ Cardinality(InFlight(k) \cup {t}) <= MaxConcurrency
  <2>1. /\ IsFiniteSet(InFlight(k) \cup {t})
        /\ \/ Cardinality(InFlight(k) \cup {t}) = Cardinality(InFlight(k))
           \/ Cardinality(InFlight(k) \cup {t}) = Cardinality(InFlight(k)) + 1
    BY <1>4, FS_AddElement
  <2>2. MaxConcurrency \in Nat
    BY PlanAssumption
  <2> QED
    BY <1>4, <2>1, <2>2
<1>6. \A l \in Calls : IsFiniteSet(InFlight(l)') /\ Cardinality(InFlight(l)') <= MaxConcurrency
  BY <1>3, <1>5 DEF SlotsKept
<1> QED
  BY <1>6 DEF SlotsKept

LEMMA SlotFreed ==
  ASSUME IInv, SlotsKept, NEW k \in Calls, NEW t \in Tasks,
         running' = [running EXCEPT ![k][t] = 0]
  PROVE  SlotsKept'
<1>1. running \in [Calls -> [Tasks -> Nat]]
  BY RunsTyped DEF IInv, TypeOK
<1>2. /\ running'[k][t] = 0
      /\ \A l \in Calls, u \in Tasks : l # k \/ u # t => running'[l][u] = running[l][u]
  BY <1>1
<1>3. /\ InFlight(k)' = InFlight(k) \ {t}
      /\ \A l \in Calls \ {k} : InFlight(l)' = InFlight(l)
  BY <1>2 DEF InFlight
<1>4. IsFiniteSet(InFlight(k)) /\ Cardinality(InFlight(k)) <= MaxConcurrency
  BY DEF SlotsKept
<1>5. IsFiniteSet(InFlight(k) \ {t}) /\ Cardinality(InFlight(k) \ {t}) <= MaxConcurrency
  BY <1>4, FS_Subset, FS_CardinalityType, PlanAssumption
<1>6. \A l \in Calls : IsFiniteSet(InFlight(l)') /\ Cardinality(InFlight(l)') <= MaxConcurrency
  BY <1>3, <1>5 DEF SlotsKept
<1> QED
  BY <1>6 DEF SlotsKept

LEMMA SlotsStep == IInv /\ SlotsKept /\ [Next]_vars => SlotsKept'
<1> SUFFICES ASSUME IInv, SlotsKept, [Next]_vars PROVE SlotsKept'
  OBVIOUS
<1>1. CASE running' = running
  BY <1>1 DEF SlotsKept, InFlight
<1>2. ASSUME NEW k \in Calls, StartTask(k) PROVE SlotsKept'
  <2>1. PICK t \in Tasks : running' = [running EXCEPT ![k][t] = Len(runs) + 1]
    BY <1>2 DEF StartTask
  <2>2. PICK e \in Nat \ {0} : e = Len(runs) + 1
    BY RunsTyped DEF IInv
  <2>3. Cardinality(InFlight(k)) < MaxConcurrency
    BY <1>2 DEF StartTask
  <2> QED
    BY <2>1, <2>2, <2>3, SlotTaken
<1>3. ASSUME NEW k \in Calls, Wake(k) PROVE SlotsKept'
  <2>1. PICK t \in InFlight(k) : running' = [running EXCEPT ![k][t] = 0]
    BY <1>3 DEF Wake
  <2>2. t \in Tasks
    BY DEF InFlight
  <2> QED
    BY <2>1, <2>2, SlotFreed
<1>4. ASSUME NEW k \in Calls,
             LoadStep(k) \/ StartMonitoring(k) \/ Park(k) \/ Return(k) \/ Throw(k)
      PROVE  running' = running
  BY <1>4 DEF LoadStep, StartMonitoring, Park, Return, Throw
<1>5. ASSUME NEW n \in DOMAIN runs, Worker(n) PROVE running' = running
  BY <1>5 DEF Worker, WorkerEnds, WorkerThrows, StoringFails, RunCrashes, callVars
<1>6. Routes \/ UNCHANGED vars => running' = running
  BY DEF Routes, Submit, RejectPlan, Approve, vars, callVars
<1> QED
  BY <1>1, <1>2, <1>3, <1>4, <1>5, <1>6 DEF Next, Loop, Sync

\* No call ever waits for more workers than it has slots, whatever the others
\* do with the queue and the dispatcher they share (dispatcher.ts, runAll).
THEOREM EachCallKeepsItsSlots == Spec => []SlotsKept
  BY SlotsInit, SlotsStep, Inductive, PTL DEF Spec

-------------------------------------------------------------------------------
(* Calls whose plans share no step *)

\* No two calls were given plans with a step in common.
PlansApart ==
  \A k, l \in Calls : k # l /\ planOf[k] # None /\ planOf[l] # None =>
    PlanSteps(planOf[k]) \cap PlanSteps(planOf[l]) = {}

Ran == {"running", "completed", "failed"}

Begun(k) == pc[k] \notin {"idle", "loading"}

TurnHeld == \A k \in Calls : pc[k] \in {"loading", "filling"} => turn = k

\* What is in the queue is of a plan that a call loads or has loaded, and what
\* ever ran is of one that has.
TasksHaveCalls ==
  \A t \in Tasks : queue[t].status # "absent" =>
    \E k \in Calls : pc[k] # "idle" /\ t \in PlanSteps(planOf[k])

RunsHaveCalls ==
  \A n \in DOMAIN runs : \E k \in Calls : Begun(k) /\ runs[n].task \in PlanSteps(planOf[k])

RunsAreKnown == \A n \in DOMAIN runs : queue[runs[n].task].status \in Ran

WorkIsAwaited == \A n \in Working : \E k \in Calls : running[k][runs[n].task] = n

ApartInv ==
  /\ TurnHeld
  /\ TasksHaveCalls
  /\ RunsHaveCalls
  /\ StepsRunOnce
  /\ RunsAreKnown
  /\ WorkIsAwaited

LEMMA ApartInit == Init => ApartInv
<1> SUFFICES ASSUME Init PROVE ApartInv
  OBVIOUS
<1>1. runs = <<>> /\ \A k \in Calls : pc[k] = "idle"
  BY DEF Init
<1>2. \A t \in Tasks : queue[t].status = "absent"
  BY DEF Init, Q!Init, Q!EmptyQueue, Q!NoTask
<1>3. DOMAIN runs = {}
  BY <1>1
<1> QED
  BY <1>1, <1>2, <1>3
     DEF ApartInv, TurnHeld, TasksHaveCalls, RunsHaveCalls, StepsRunOnce, RunsAreKnown,
         WorkIsAwaited, Working

\* No call goes back to what is before its plan, or to another plan.
GoesOn(k) ==
  pc[k] # "idle" => /\ pc'[k] # "idle" /\ planOf'[k] = planOf[k]
                    /\ Begun(k) => Begun(k)'

LEMMA CallsGoOn ==
  ASSUME IInv, TurnHeld, [Next]_vars
  PROVE  TurnHeld' /\ \A k \in Calls : GoesOn(k)
<1> DEFINE Fine == TurnHeld' /\ \A k \in Calls : GoesOn(k)
<1>0. pc \in [Calls -> Where] /\ planOf \in [Calls -> Plans \cup {None}] /\ None \notin Calls
  BY PlanAssumption DEF IInv, TypeOK
<1>1. CASE UNCHANGED <<turn, pc, planOf>>
  BY <1>1 DEF TurnHeld, GoesOn, Begun
<1>2. ASSUME NEW k \in Calls, NEW p \in Plans, Approve(k, p) PROVE Fine
  BY <1>0, <1>2 DEF Approve, TurnHeld, GoesOn, Begun
<1>3. ASSUME NEW k \in Calls, NEW where \in {"filling", "waiting", "returned", "threw"},
             pc' = [pc EXCEPT ![k] = where], planOf' = planOf,
             turn \in {k, None}, pc[k] # "idle",
             turn' = IF where = "filling" THEN k ELSE None
      PROVE  Fine
  BY <1>0, <1>3 DEF TurnHeld, GoesOn, Begun
<1>4. ASSUME NEW k \in Calls, StartMonitoring(k) \/ Park(k) \/ Return(k) \/ Wake(k) \/ Throw(k)
      PROVE  Fine
  <2>1. /\ planOf' = planOf /\ turn \in {k, None} /\ pc[k] # "idle"
        /\ \/ pc' = [pc EXCEPT ![k] = "filling"] /\ turn' = k
           \/ pc' = [pc EXCEPT ![k] = "waiting"] /\ turn' = None
           \/ pc' = [pc EXCEPT ![k] = "returned"] /\ turn' = None
           \/ pc' = [pc EXCEPT ![k] = "threw"] /\ turn' = None
    BY <1>4 DEF StartMonitoring, Park, Return, Wake, Throw
  <2> QED
    BY <1>0, <1>3, <2>1
<1>5. ASSUME NEW k \in Calls, LoadStep(k) \/ StartTask(k) PROVE UNCHANGED <<turn, pc, planOf>>
  BY <1>5 DEF LoadStep, StartTask
<1>6. ASSUME NEW n \in DOMAIN runs, Worker(n) PROVE UNCHANGED <<turn, pc, planOf>>
  BY <1>6 DEF Worker, WorkerEnds, WorkerThrows, StoringFails, RunCrashes, callVars
<1>7. ASSUME NEW p \in Plans, Submit(p) \/ RejectPlan(p) PROVE UNCHANGED <<turn, pc, planOf>>
  BY <1>7 DEF Submit, RejectPlan, callVars
<1>8. CASE UNCHANGED vars
  BY <1>1, <1>8 DEF vars, callVars
<1> QED
  BY <1>1, <1>2, <1>4, <1>5, <1>6, <1>7, <1>8 DEF Next, Routes, Loop, Sync

\* While one call fills its slots nobody else is loading.
LEMMA PresentHasBegun ==
  ASSUME TurnHeld, TasksHaveCalls, NEW k \in Calls, turn = k, pc[k] = "filling",
         NEW t \in Tasks, queue[t].status # "absent"
  PROVE  \E l \in Calls : Begun(l) /\ t \in PlanSteps(planOf[l])
  BY DEF TurnHeld, TasksHaveCalls, Begun

LEMMA LoadsAPlanStep ==
  ASSUME IInv, NEW k \in Calls, LoadStep(k)
  PROVE  StepsOf(k)[loaded[k] + 1].id \in PlanSteps(planOf[k])
<1>1. planOf[k] \in Plans /\ StepsOf(k) = Steps[planOf[k]]
  BY DEF LoadStep, IInv, PlanKnown, StepsOf
<1>2. Steps[planOf[k]] \in Seq([id : Tasks, deps : SUBSET Tasks, priority : Priorities])
  BY <1>1, PlanAssumption
<1>3. loaded[k] + 1 \in DOMAIN Steps[planOf[k]]
  BY <1>1, <1>2 DEF LoadStep, IInv, TypeOK
<1> QED
  BY <1>1, <1>3 DEF PlanSteps

\* What a call loads is of no plan that another has begun with.
LEMMA LoadsWhatNeverRan ==
  ASSUME IInv, RunsHaveCalls, PlansApart, NEW k \in Calls, pc[k] = "loading",
         NEW t \in PlanSteps(planOf[k]), NEW n \in DOMAIN runs
  PROVE  runs[n].task # t
<1>1. PICK l \in Calls : Begun(l) /\ runs[n].task \in PlanSteps(planOf[l])
  BY DEF RunsHaveCalls
<1>2. l # k /\ planOf[l] \in Plans /\ planOf[k] \in Plans
  BY <1>1 DEF Begun, IInv, PlanKnown
<1> QED
  BY <1>1, <1>2, PlanAssumption DEF PlansApart

\* Steps that leave the queue, the runs and what is in flight alone.
LEMMA ApartSame ==
  ASSUME ApartInv, TurnHeld', \A k \in Calls : GoesOn(k), UNCHANGED <<queue, runs, running>>
  PROVE  ApartInv'
<1>1. TasksHaveCalls'
  BY DEF ApartInv, TasksHaveCalls, GoesOn
<1>2. RunsHaveCalls'
  BY DEF ApartInv, RunsHaveCalls, GoesOn, Begun
<1>3. StepsRunOnce' /\ RunsAreKnown' /\ WorkIsAwaited'
  BY DEF ApartInv, StepsRunOnce, RunsAreKnown, WorkIsAwaited, Working
<1> QED
  BY <1>1, <1>2, <1>3 DEF ApartInv

LEMMA ApartLoads ==
  ASSUME IInv, ApartInv, PlansApart, NEW k \in Calls, LoadStep(k),
         TurnHeld', \A l \in Calls : GoesOn(l)
  PROVE  ApartInv'
<1>1. PICK s \in [id : Tasks, deps : SUBSET Tasks, priority : Priorities] :
        /\ s = StepsOf(k)[loaded[k] + 1]
        /\ Q!Add(s.id, s.deps, s.priority) \/ Q!ReAdd(s.id, s.deps, s.priority)
  BY LoadsAStep DEF IInv
<1>2. PICK t \in Tasks : t = s.id
  BY <1>1
<1>3. queue' \in Queues /\ \A u \in Tasks \ {t} : queue'[u] = queue[u]
  BY <1>1, <1>2, LoadEffect DEF IInv
<1>4. pc[k] = "loading" /\ runs' = runs /\ running' = running
  BY DEF LoadStep, workVars
<1>5. t \in PlanSteps(planOf[k])
  BY <1>1, <1>2, LoadsAPlanStep
<1>6. \A n \in DOMAIN runs : runs[n].task \in Tasks /\ runs[n].task # t
  BY <1>4, <1>5, LoadsWhatNeverRan, RunsTyped DEF ApartInv, IInv
<1>7. TasksHaveCalls'
  <2> SUFFICES ASSUME NEW u \in Tasks, queue'[u].status # "absent"
               PROVE  \E l \in Calls : pc'[l] # "idle" /\ u \in PlanSteps(planOf'[l])
    BY DEF TasksHaveCalls
  <2>1. CASE u = t
    BY <1>4, <1>5, <2>1 DEF GoesOn
  <2>2. CASE u # t
    BY <1>3, <2>2 DEF ApartInv, TasksHaveCalls, GoesOn
  <2> QED
    BY <2>1, <2>2
<1>8. RunsHaveCalls'
  BY <1>4 DEF ApartInv, RunsHaveCalls, GoesOn, Begun
<1>9. RunsAreKnown'
  BY <1>3, <1>4, <1>6 DEF ApartInv, RunsAreKnown
<1>10. StepsRunOnce' /\ WorkIsAwaited'
  BY <1>4 DEF ApartInv, StepsRunOnce, WorkIsAwaited, Working
<1> QED
  BY <1>7, <1>8, <1>9, <1>10 DEF ApartInv

LEMMA ApartStarts ==
  ASSUME IInv, ApartInv, NEW k \in Calls, StartTask(k), TurnHeld', \A l \in Calls : GoesOn(l)
  PROVE  ApartInv'
<1>1. PICK t \in Tasks :
        /\ Q!IsNext(Q!UpdateReady(queue), t)
        /\ queue' = Q!SetStatus(Q!UpdateReady(queue), t, "running")
        /\ runs' = Append(runs, [task |-> t, deps |-> Q!UpdateReady(queue)[t].deps,
                                 context |-> Context(Q!UpdateReady(queue)[t].deps),
                                 phase |-> "working"])
        /\ running' = [running EXCEPT ![k][t] = Len(runs) + 1]
  BY DEF StartTask
<1>0. PICK e \in Nat \ {0} : e = Len(runs) + 1
  BY RunsTyped DEF IInv
<1>2. /\ Q!Present(queue') = Q!Present(queue)
      /\ queue[t].status = "ready" \/ (queue[t].status = "pending" /\ Q!DepsCompleted(queue, t))
      /\ Q!UpdateReady(queue)[t].deps = queue[t].deps
      /\ \A u \in Tasks :
           queue'[u].status =
                IF u = t THEN "running"
                ELSE IF queue[u].status = "pending" /\ Q!DepsCompleted(queue, u) THEN "ready"
                ELSE queue[u].status
  BY <1>1, StartEffect DEF IInv
<1>3. \A n \in DOMAIN runs : runs[n].task \in Tasks /\ runs[n].task # t
  BY <1>2, RunsTyped DEF IInv, ApartInv, RunsAreKnown, Ran
<1>4. /\ DOMAIN runs' = DOMAIN runs \cup {e} /\ e \notin DOMAIN runs
      /\ runs'[e].task = t
      /\ \A m \in DOMAIN runs : runs'[m] = runs[m]
  <2> DEFINE r == [task |-> t, deps |-> queue[t].deps, context |-> Context(queue[t].deps),
                   phase |-> "working"]
  <2>1. r \in Run /\ r.task = t /\ runs' = Append(runs, r)
    BY <1>1, <1>2, QueueTyped DEF IInv, Run, Context
  <2> HIDE DEF r
  <2> QED
    BY <2>1, <1>0, AppendEffect DEF IInv
<1>5. /\ running'[k][t] = e
      /\ \A l \in Calls, u \in Tasks : l # k \/ u # t => running'[l][u] = running[l][u]
  <2>1. running \in [Calls -> [Tasks -> Nat]]
    BY RunsTyped DEF IInv, TypeOK
  <2> QED
    BY <1>0, <1>1, <2>1
<1>6. StepsRunOnce'
  BY <1>3, <1>4 DEF ApartInv, StepsRunOnce
<1>7. RunsAreKnown'
  BY <1>2, <1>3, <1>4 DEF ApartInv, RunsAreKnown, Ran
<1>8. WorkIsAwaited'
  <2> SUFFICES ASSUME NEW n \in Working' PROVE \E l \in Calls : running'[l][runs'[n].task] = n
    BY DEF WorkIsAwaited
  <2>1. CASE n = e
    BY <1>4, <1>5, <2>1
  <2>2. CASE n \in DOMAIN runs
    <3>1. n \in Working /\ runs'[n].task = runs[n].task
      BY <1>4, <2>2 DEF Working
    <3> QED
      BY <1>3, <1>5, <2>2, <3>1 DEF ApartInv, WorkIsAwaited
  <2> QED
    BY <1>4, <2>1, <2>2 DEF Working
<1>9. TasksHaveCalls'
  BY <1>2 DEF ApartInv, TasksHaveCalls, GoesOn
<1>10. RunsHaveCalls'
  <2> SUFFICES ASSUME NEW n \in DOMAIN runs'
               PROVE  \E l \in Calls : Begun(l)' /\ runs'[n].task \in PlanSteps(planOf'[l])
    BY DEF RunsHaveCalls
  <2>1. \E l \in Calls : Begun(l) /\ runs'[n].task \in PlanSteps(planOf[l])
    <3>1. CASE n = e
      <4>1. turn = k /\ pc[k] = "filling" /\ queue[t].status # "absent"
        BY <1>2 DEF StartTask
      <4> QED
        BY <1>4, <3>1, <4>1, PresentHasBegun DEF ApartInv
    <3>2. CASE n \in DOMAIN runs
      BY <1>4, <3>2 DEF ApartInv, RunsHaveCalls
    <3> QED
      BY <1>4, <3>1, <3>2
  <2> QED
    BY <2>1 DEF GoesOn, Begun
<1> QED
  BY <1>6, <1>7, <1>8, <1>9, <1>10 DEF ApartInv

LEMMA ApartWakes ==
  ASSUME IInv, ApartInv, NEW k \in Calls, Wake(k), TurnHeld', \A l \in Calls : GoesOn(l)
  PROVE  ApartInv'
<1>1. PICK t \in InFlight(k) :
        /\ runs[running[k][t]].phase \in Result
        /\ running' = [running EXCEPT ![k][t] = 0]
  BY DEF Wake
<1>2. \A l \in Calls, u \in Tasks : l # k \/ u # t => running'[l][u] = running[l][u]
  <2>1. t \in Tasks /\ running \in [Calls -> [Tasks -> Nat]]
    BY RunsTyped DEF IInv, TypeOK, InFlight
  <2> QED
    BY <1>1, <2>1
<1>3. queue' = queue /\ runs' = runs
  BY DEF Wake, queueVars
<1>4. WorkIsAwaited'
  <2> SUFFICES ASSUME NEW n \in Working PROVE \E l \in Calls : running'[l][runs[n].task] = n
    BY <1>3 DEF WorkIsAwaited, Working
  <2>1. runs[n].task \in Tasks /\ runs[n].phase = "working"
    BY RunsTyped DEF Working, IInv
  <2>2. PICK l \in Calls : running[l][runs[n].task] = n
    BY DEF ApartInv, WorkIsAwaited
  <2>3. l # k \/ runs[n].task # t
    BY <1>1, <2>1, <2>2 DEF Result, Done
  <2> QED
    BY <1>2, <2>1, <2>2, <2>3
<1>5. TasksHaveCalls' /\ RunsHaveCalls'
  BY <1>3 DEF ApartInv, TasksHaveCalls, RunsHaveCalls, GoesOn, Begun
<1>6. StepsRunOnce' /\ RunsAreKnown'
  BY <1>3 DEF ApartInv, StepsRunOnce, RunsAreKnown
<1> QED
  BY <1>4, <1>5, <1>6 DEF ApartInv

LEMMA ApartEnds ==
  ASSUME IInv, ApartInv, NEW n \in DOMAIN runs, Worker(n), TurnHeld', \A l \in Calls : GoesOn(l)
  PROVE  ApartInv'
<1>1. PICK ph \in Result \cup Rejected : EndRun(n, ph)
  BY DEF Worker, WorkerEnds, WorkerThrows, StoringFails, RunCrashes, Result, Rejected
<1>2. /\ DOMAIN runs' = DOMAIN runs
      /\ \A m \in DOMAIN runs : /\ runs'[m].task = runs[m].task
                                /\ runs'[m].phase = IF m = n THEN ph ELSE runs[m].phase
  BY <1>1, EndEffect DEF IInv
<1>3. running' = running
  BY DEF Worker, WorkerEnds, WorkerThrows, StoringFails, RunCrashes, callVars
<1>4. PICK t \in Tasks : t = runs[n].task
  BY RunsTyped DEF IInv
<1>5. \A u \in Tasks : /\ queue[u].status \in Ran => queue'[u].status \in Ran
                       /\ queue[u].status = "absent" => queue'[u].status = "absent"
  <2>1. CASE Q!Complete(t)
    BY <2>1, CompleteEffect DEF IInv, Ran
  <2>2. CASE Q!Fail(t)
    BY <2>2, FailEffect DEF IInv, Ran
  <2>3. CASE queue' = queue
    BY <2>3
  <2> QED
    BY <1>4, <2>1, <2>2, <2>3
       DEF Worker, WorkerEnds, WorkerThrows, StoringFails, RunCrashes, queueVars
<1>6. "working" \notin Result \cup Rejected
  BY DEF Result, Rejected, Done
<1>7. Working' \subseteq Working
  BY <1>2, <1>6 DEF Working
<1>8. WorkIsAwaited'
  BY <1>2, <1>3, <1>7 DEF ApartInv, WorkIsAwaited, Working
<1>9. RunsAreKnown'
  BY <1>2, <1>5, RunsTyped DEF ApartInv, RunsAreKnown, IInv
<1>10. TasksHaveCalls'
  BY <1>5 DEF ApartInv, TasksHaveCalls, GoesOn
<1>11. RunsHaveCalls'
  BY <1>2 DEF ApartInv, RunsHaveCalls, GoesOn, Begun
<1>12. StepsRunOnce'
  BY <1>2 DEF ApartInv, StepsRunOnce
<1> QED
  BY <1>8, <1>9, <1>10, <1>11, <1>12 DEF ApartInv

LEMMA ApartStep == IInv /\ ApartInv /\ PlansApart /\ [Next]_vars => ApartInv'
<1> SUFFICES ASSUME IInv, ApartInv, PlansApart, [Next]_vars PROVE ApartInv'
  OBVIOUS
<1>0. TurnHeld' /\ \A k \in Calls : GoesOn(k)
  BY CallsGoOn DEF ApartInv
<1>1. CASE Routes
  <2>1. UNCHANGED <<queue, runs, running>>
    BY <1>1 DEF Routes, Submit, RejectPlan, Approve, queueVars, workVars, callVars
  <2> QED
    BY <1>0, <2>1, ApartSame
<1>2. ASSUME NEW k \in Calls, StartMonitoring(k) \/ Park(k) \/ Return(k) \/ Throw(k)
      PROVE  ApartInv'
  <2>1. UNCHANGED <<queue, runs, running>>
    BY <1>2 DEF StartMonitoring, Park, Return, Throw, queueVars, workVars
  <2> QED
    BY <1>0, <2>1, ApartSame
<1>3. ASSUME NEW k \in Calls, LoadStep(k) \/ StartTask(k) \/ Wake(k) PROVE ApartInv'
  BY <1>0, <1>3, ApartLoads, ApartStarts, ApartWakes
<1>4. ASSUME NEW n \in DOMAIN runs, Worker(n) PROVE ApartInv'
  BY <1>0, <1>4, ApartEnds
<1>5. CASE UNCHANGED vars
  BY <1>0, <1>5, ApartSame DEF vars, queueVars, callVars, workVars
<1> QED
  BY <1>1, <1>2, <1>3, <1>4, <1>5 DEF Next, Loop, Sync

LEMMA ApartInductive == Spec /\ []PlansApart => []ApartInv
  BY ApartInit, ApartStep, Inductive, PTL DEF Spec

\* However many calls share the dispatcher, no step is executed twice as long as
\* their plans share none, not even one that its plan lists twice.
THEOREM PlansApartRunOnce == Spec /\ []PlansApart => []StepsRunOnce
<1>1. ApartInv => StepsRunOnce
  BY DEF ApartInv
<1> QED
  BY <1>1, ApartInductive, PTL

\* The slots are counted per call (types.ts, "Maximum parallel workers", speaks
\* of all): with so many calls, no more workers than that many times the bound.
WithinBoundPerCall == Cardinality(Working) <= Cardinality(Calls) * MaxConcurrency

THEOREM WorkersPerCall ==
  ASSUME IsFiniteSet(Calls)
  PROVE  Spec /\ []PlansApart => []WithinBoundPerCall
<1>1. IInv /\ SlotsKept /\ ApartInv => WithinBoundPerCall
  <2> SUFFICES ASSUME IInv, SlotsKept, ApartInv PROVE WithinBoundPerCall
    OBVIOUS
  <2> DEFINE caller == [n \in Working |-> CHOOSE k \in Calls : running[k][runs[n].task] = n]
             slot == [k \in Calls |-> CHOOSE f : f \in Injection(InFlight(k), 1 .. MaxConcurrency)]
             place == [n \in Working |-> <<caller[n], slot[caller[n]][runs[n].task]>>]
  <2>1. \A n \in Working : /\ caller[n] \in Calls /\ runs[n].task \in InFlight(caller[n])
                           /\ running[caller[n]][runs[n].task] = n
    <3> SUFFICES ASSUME NEW n \in Working
                 PROVE  /\ caller[n] \in Calls /\ runs[n].task \in InFlight(caller[n])
                        /\ running[caller[n]][runs[n].task] = n
      OBVIOUS
    <3>1. \E k \in Calls : running[k][runs[n].task] = n
      BY DEF ApartInv, WorkIsAwaited
    <3>2. caller[n] \in Calls /\ running[caller[n]][runs[n].task] = n
      BY <3>1
    <3>3. runs[n].task \in Tasks /\ n # 0
      BY RunsTyped DEF IInv, Working
    <3> QED
      BY <3>2, <3>3 DEF InFlight
  <2>2. \A k \in Calls : slot[k] \in Injection(InFlight(k), 1 .. MaxConcurrency)
    <3> SUFFICES ASSUME NEW k \in Calls
                 PROVE  \E f : f \in Injection(InFlight(k), 1 .. MaxConcurrency)
      OBVIOUS
    <3>1. PICK c \in Nat : c = Cardinality(InFlight(k)) /\ c <= MaxConcurrency
      BY FS_CardinalityType DEF SlotsKept
    <3>2. IsFiniteSet(InFlight(k)) /\ IsFiniteSet(1 .. c) /\ Cardinality(1 .. c) = c
      BY <3>1, FS_Interval DEF SlotsKept
    <3>3. ExistsBijection(InFlight(k), 1 .. c)
      BY <3>1, <3>2, FS_SameCardinalityBij
    <3>4. PICK f : f \in Bijection(InFlight(k), 1 .. c)
      BY <3>3 DEF ExistsBijection
    <3>5. 1 .. c \subseteq 1 .. MaxConcurrency
      BY <3>1, PlanAssumption
    <3>6. f \in Injection(InFlight(k), 1 .. MaxConcurrency)
      BY <3>4, <3>5 DEF Bijection, Injection, IsInjective
    <3> QED
      BY <3>6
  <2> HIDE DEF caller, slot
  <2>3. place \in Injection(Working, Calls \X (1 .. MaxConcurrency))
    <3>1. place \in [Working -> Calls \X (1 .. MaxConcurrency)]
      BY <2>1, <2>2 DEF Injection
    <3>2. ASSUME NEW m \in Working, NEW n \in Working, place[m] = place[n] PROVE m = n
      <4>1. caller[m] = caller[n] /\ slot[caller[n]][runs[m].task] = slot[caller[n]][runs[n].task]
        BY <3>2
      <4>2. runs[m].task = runs[n].task
        BY <2>1, <2>2, <4>1 DEF Injection, IsInjective
      <4> QED
        BY <2>1, <4>1, <4>2
    <3> HIDE DEF place
    <3> QED
      BY <3>1, <3>2 DEF Injection, IsInjective
  <2>4. IsFiniteSet(1 .. MaxConcurrency) /\ Cardinality(1 .. MaxConcurrency) = MaxConcurrency
    BY FS_Interval, PlanAssumption
  <2>5. /\ IsFiniteSet(Calls \X (1 .. MaxConcurrency))
        /\ Cardinality(Calls \X (1 .. MaxConcurrency)) = Cardinality(Calls) * MaxConcurrency
    BY <2>4, FS_Product
  <2> QED
    BY <2>3, <2>5, FS_Injection DEF WithinBoundPerCall
<1> QED
  BY <1>1, Inductive, EachCallKeepsItsSlots, ApartInductive, PTL

-------------------------------------------------------------------------------
(* What the calls report *)

\* A run that call k waits for ended in one of these ways.
EndedAs(k, t, phases) == running[k][t] # 0 /\ runs[running[k][t]].phase \in phases

\* The run of task t that call k waits for and the queue say the same of it.
QueueAgrees(k, t) ==
  running[k][t] # 0 =>
    /\ runs[running[k][t]].task = t
    /\ \/ queue[t].status = "running" /\ EndedAs(k, t, {"working"})
       \/ queue[t].status = "completed" /\ EndedAs(k, t, Over)
       \/ queue[t].status = "failed" /\ EndedAs(k, t, {"failed"})

\* What became of task t is in stepResults, or a loop still has to collect it.
Accounted(t) ==
  /\ queue[t].status = "completed" =>
       stepResults[t] \in Done \/ \E k \in Calls : EndedAs(k, t, Over)
  /\ queue[t].status = "failed" =>
       stepResults[t] = "failed" \/ \E k \in Calls : EndedAs(k, t, {"failed"})
  /\ \A k \in Calls : QueueAgrees(k, t)

LoadedSteps(k) ==
  /\ pc[k] = "idle" => loaded[k] = 0
  /\ pc[k] # "idle" => \A j \in 1 .. loaded[k] :
       j \in DOMAIN StepsOf(k) => queue[StepsOf(k)[j].id].status # "absent"
  /\ pc[k] \notin {"idle", "loading"} => loaded[k] = Len(StepsOf(k))

NothingInFlight(k) == pc[k] \in {"idle", "loading", "returned"} => InFlight(k) = {}

\* A report covers a plan when each step is in it as it ended or waits for one
\* that did not complete.
Covers(report, p) ==
  \A t \in PlanSteps(p) :
    \/ t \in report.completed /\ queue[t].status = "completed"
    \/ t \in report.failed /\ queue[t].status = "failed"
    \/ /\ queue[t].status = "pending"
       /\ \E d \in queue[t].deps : queue[d].status \in {"absent", "pending", "failed"}

AllAnswered == \A k \in Calls : pc[k] \in {"idle", "returned"}

\* Once all calls are answered, the report of one of them covers the plans of all.
LastReportCovers ==
  AllAnswered /\ (\E k \in Calls : pc[k] = "returned") =>
    \E k \in Calls : /\ pc[k] = "returned"
                     /\ \A l \in Calls : pc[l] = "returned" =>
                          Covers(resultStore[planOf[k]], planOf[l])

AccountInv ==
  /\ \A t \in Tasks : Accounted(t)
  /\ \A t \in Tasks : queue[t].status # "cancelled"
  /\ \A k \in Calls : LoadedSteps(k)
  /\ \A k \in Calls : NothingInFlight(k)
  /\ LastReportCovers

LEMMA StepIdsAreTasks ==
  ASSUME NEW p \in Plans, NEW j \in DOMAIN Steps[p]
  PROVE  Steps[p][j].id \in Tasks
<1>1. Steps[p] \in Seq([id : Tasks, deps : SUBSET Tasks, priority : Priorities])
  BY PlanAssumption
<1>2. \A S : Steps[p] \in Seq(S) => Steps[p][j] \in S
  OBVIOUS
<1>3. Steps[p][j] \in [id : Tasks, deps : SUBSET Tasks, priority : Priorities]
  BY <1>1, <1>2
<1> QED
  BY <1>3

LEMMA AccountInit == Init => AccountInv
<1> SUFFICES ASSUME Init PROVE AccountInv
  OBVIOUS
<1>1. \A t \in Tasks : queue[t].status = "absent"
  BY DEF Init, Q!Init, Q!EmptyQueue, Q!NoTask
<1>2. \A k \in Calls : pc[k] = "idle" /\ loaded[k] = 0 /\ \A t \in Tasks : running[k][t] = 0
  BY DEF Init
<1>3. \A t \in Tasks : Accounted(t)
  BY <1>1, <1>2 DEF Accounted, QueueAgrees
<1>4. \A k \in Calls : LoadedSteps(k) /\ NothingInFlight(k)
  BY <1>2 DEF LoadedSteps, NothingInFlight, InFlight
<1> QED
  BY <1>1, <1>2, <1>3, <1>4 DEF AccountInv, LastReportCovers

\* A task stays accounted for while nothing happens to it or to its runs.
LEMMA SameAccount ==
  ASSUME NEW t \in Tasks, Accounted(t),
         \/ queue'[t].status = queue[t].status
         \/ queue[t].status \notin Ran /\ queue'[t].status \notin Ran,
         stepResults'[t] = stepResults[t],
         \A k \in Calls : running'[k][t] = running[k][t],
         \A k \in Calls : running[k][t] # 0 =>
           /\ runs'[running[k][t]].task = runs[running[k][t]].task
           /\ runs'[running[k][t]].phase = runs[running[k][t]].phase
  PROVE  Accounted(t)'
<1>1. \A k \in Calls : QueueAgrees(k, t)'
  BY DEF Accounted, QueueAgrees, EndedAs, Ran
<1>2. \A k \in Calls : \A phases : EndedAs(k, t, phases) => EndedAs(k, t, phases)'
  BY DEF EndedAs
<1>3. /\ queue'[t].status = "completed" => queue[t].status = "completed"
      /\ queue'[t].status = "failed" => queue[t].status = "failed"
  BY DEF Ran
<1> QED
  BY <1>1, <1>2, <1>3 DEF Accounted

\* Steps that neither load nor start nor end nor collect a task.
LEMMA AccountSame ==
  ASSUME AccountInv, UNCHANGED <<queue, runs, running, stepResults>>,
         \A k \in Calls : LoadedSteps(k)' /\ NothingInFlight(k)', LastReportCovers'
  PROVE  AccountInv'
<1>1. \A t \in Tasks : Accounted(t)'
  BY DEF AccountInv, Accounted, QueueAgrees, EndedAs
<1> QED
  BY <1>1 DEF AccountInv

\* While a call is under way nothing is said of the last report.
LEMMA NotAllAnswered ==
  ASSUME NEW k \in Calls, pc[k] \notin {"idle", "returned"}
  PROVE  LastReportCovers
  BY DEF LastReportCovers, AllAnswered

LEMMA RoutesAccount == ASSUME IInv, AccountInv, Routes PROVE AccountInv'
<1>1. UNCHANGED <<queue, runs, running, stepResults, loaded, resultStore>>
  BY DEF Routes, Submit, RejectPlan, Approve, queueVars, storeVars, workVars, callVars
<1>2. CASE pc' = pc /\ planOf' = planOf
  <2>1. \A k \in Calls : LoadedSteps(k)' /\ NothingInFlight(k)'
    BY <1>1, <1>2 DEF AccountInv, LoadedSteps, StepsOf, NothingInFlight, InFlight
  <2>2. LastReportCovers'
    BY <1>1, <1>2 DEF AccountInv, LastReportCovers, AllAnswered, Covers
  <2> QED
    BY <1>1, <2>1, <2>2, AccountSame
<1>3. ASSUME NEW c \in Calls, NEW p \in Plans, Approve(c, p) PROVE AccountInv'
  <2>1. /\ pc[c] = "idle" /\ pc'[c] = "loading" /\ pc'[c] \notin {"idle", "returned"}
        /\ \A k \in Calls \ {c} : pc'[k] = pc[k] /\ planOf'[k] = planOf[k]
    BY <1>3 DEF Approve, IInv, TypeOK
  <2>2. \A k \in Calls : NothingInFlight(k)'
    BY <1>1, <2>1 DEF AccountInv, NothingInFlight, InFlight
  <2>3. \A k \in Calls : LoadedSteps(k)'
    <3> SUFFICES ASSUME NEW k \in Calls PROVE LoadedSteps(k)'
      OBVIOUS
    <3>1. CASE k = c
      <4>1. loaded'[c] = 0
        BY <1>1, <2>1 DEF AccountInv, LoadedSteps
      <4> QED
        BY <2>1, <3>1, <4>1 DEF LoadedSteps
    <3>2. CASE k # c
      BY <1>1, <2>1, <3>2 DEF AccountInv, LoadedSteps, StepsOf
    <3> QED
      BY <3>1, <3>2
  <2>4. LastReportCovers'
    BY <2>1 DEF LastReportCovers, AllAnswered
  <2> QED
    BY <1>1, <2>2, <2>3, <2>4, AccountSame
<1> QED
  BY <1>2, <1>3 DEF Routes, Submit, RejectPlan, callVars

LEMMA MonitoringAccount ==
  ASSUME IInv, AccountInv, NEW c \in Calls, StartMonitoring(c) \/ Park(c) \/ Throw(c)
  PROVE  AccountInv'
<1>1. /\ UNCHANGED <<queue, runs, running, stepResults, loaded, planOf>>
      /\ pc'[c] \in {"filling", "waiting", "threw"} /\ pc[c] # "idle"
      /\ pc[c] = "loading" => loaded[c] = Len(StepsOf(c))
      /\ \A k \in Calls \ {c} : pc'[k] = pc[k]
  BY DEF StartMonitoring, Park, Throw, queueVars, storeVars, workVars, IInv, TypeOK
<1>2. \A k \in Calls : LoadedSteps(k)'
  BY <1>1 DEF AccountInv, LoadedSteps, StepsOf
<1>3. \A k \in Calls : NothingInFlight(k)'
  BY <1>1 DEF AccountInv, NothingInFlight, InFlight
<1>4. LastReportCovers'
  BY <1>1 DEF LastReportCovers, AllAnswered
<1> QED
  BY <1>1, <1>2, <1>3, <1>4, AccountSame

LEMMA LoadAccount ==
  ASSUME IInv, ApartInv, PlansApart, AccountInv, NEW c \in Calls, LoadStep(c)
  PROVE  AccountInv'
<1>1. PICK s \in [id : Tasks, deps : SUBSET Tasks, priority : Priorities] :
        /\ s = StepsOf(c)[loaded[c] + 1]
        /\ Q!Add(s.id, s.deps, s.priority) \/ Q!ReAdd(s.id, s.deps, s.priority)
  BY LoadsAStep DEF IInv
<1>2. /\ queue'[s.id].status = IF s.deps = {} THEN "ready" ELSE "pending"
      /\ \A u \in Tasks \ {s.id} : queue'[u] = queue[u]
      /\ s.id \in Tasks
  <2>1. s.id \in Tasks /\ s.deps \in SUBSET Tasks /\ s.priority \in Priorities
    OBVIOUS
  <2>2. Q!Add(s.id, s.deps, s.priority) \/ Q!ReAdd(s.id, s.deps, s.priority)
    BY <1>1
  <2>3. TypeOK /\ IsFiniteSet(Q!Present(queue))
    BY DEF IInv
  <2>4. /\ queue'[s.id].status = IF s.deps = {} THEN "ready" ELSE "pending"
        /\ \A u \in Tasks \ {s.id} : queue'[u] = queue[u]
    BY <2>1, <2>2, <2>3, LoadEffect, SMTT(30)
  <2> QED
    BY <2>1, <2>4
<1>3. /\ UNCHANGED <<runs, running, stepResults, pc, planOf>> /\ pc[c] = "loading"
      /\ loaded'[c] = loaded[c] + 1 /\ loaded[c] \in Nat
      /\ \A k \in Calls \ {c} : loaded'[k] = loaded[k]
  BY DEF LoadStep, workVars, IInv, TypeOK
<1>4. \A k \in Calls : running[k][s.id] = 0
  <2> SUFFICES ASSUME NEW k \in Calls, running[k][s.id] # 0 PROVE FALSE
    OBVIOUS
  <2>1. s.id \in PlanSteps(planOf[c])
    BY <1>1, LoadsAPlanStep
  <2>2. running[k][s.id] \in DOMAIN runs
    BY <1>2, RunsTyped DEF IInv, TypeOK
  <2>3. runs[running[k][s.id]].task = s.id
    BY <1>2 DEF AccountInv, Accounted, QueueAgrees
  <2> QED
    BY <1>3, <2>1, <2>2, <2>3, LoadsWhatNeverRan DEF ApartInv
<1>5. \A t \in Tasks : Accounted(t)'
  <2> SUFFICES ASSUME NEW t \in Tasks PROVE Accounted(t)'
    OBVIOUS
  <2>1. Accounted(t)
    BY DEF AccountInv
  <2>2. CASE t = s.id
    BY <1>2, <1>3, <1>4, <2>2 DEF Accounted, QueueAgrees
  <2>3. CASE t # s.id
    <3>1. queue'[t].status = queue[t].status
      BY <1>2, <2>3
    <3> QED
      BY <1>3, <2>1, <3>1, SameAccount
  <2> QED
    BY <2>2, <2>3
<1>6. \A t \in Tasks : /\ queue'[t].status # "cancelled"
                       /\ queue[t].status # "absent" => queue'[t].status # "absent"
  BY <1>2 DEF AccountInv
<1>7. \A k \in Calls : LoadedSteps(k)'
  <2> SUFFICES ASSUME NEW k \in Calls, pc[k] # "idle",
                      NEW j \in 1 .. loaded'[k], j \in DOMAIN StepsOf(k)
               PROVE  queue'[StepsOf(k)[j].id].status # "absent"
    <3>1. \A k \in Calls : /\ pc[k] = "idle" => loaded'[k] = 0
                           /\ pc[k] \notin {"idle", "loading"} => loaded'[k] = Len(StepsOf(k))
      BY <1>3 DEF AccountInv, LoadedSteps
    <3> QED
      BY <1>3, <3>1 DEF LoadedSteps, StepsOf
  <2>1. StepsOf(k)[j].id \in Tasks
    BY StepIdsAreTasks DEF StepsOf, IInv, PlanKnown
  <2>2. CASE k = c /\ j = loaded[c] + 1
    BY <1>1, <1>2, <2>2
  <2>3. CASE j \in 1 .. loaded[k]
    BY <1>6, <2>1, <2>3 DEF AccountInv, LoadedSteps
  <2> QED
    BY <1>3, <2>2, <2>3
<1>8. \A k \in Calls : NothingInFlight(k)'
  BY <1>3 DEF AccountInv, NothingInFlight, InFlight
<1>9. LastReportCovers'
  BY <1>3 DEF LastReportCovers, AllAnswered
<1> QED
  BY <1>5, <1>6, <1>7, <1>8, <1>9 DEF AccountInv

LEMMA StartAccount ==
  ASSUME IInv, ApartInv, AccountInv, NEW c \in Calls, StartTask(c)
  PROVE  AccountInv'
<1>1. PICK t \in Tasks :
        /\ Q!IsNext(Q!UpdateReady(queue), t)
        /\ queue' = Q!SetStatus(Q!UpdateReady(queue), t, "running")
        /\ runs' = Append(runs, [task |-> t, deps |-> Q!UpdateReady(queue)[t].deps,
                                 context |-> Context(Q!UpdateReady(queue)[t].deps),
                                 phase |-> "working"])
        /\ running' = [running EXCEPT ![c][t] = Len(runs) + 1]
  BY DEF StartTask
<1>0. PICK e \in Nat \ {0} : e = Len(runs) + 1
  BY RunsTyped DEF IInv
<1>2. /\ queue[t].status = "ready" \/ (queue[t].status = "pending" /\ Q!DepsCompleted(queue, t))
      /\ Q!UpdateReady(queue)[t].deps = queue[t].deps
      /\ \A u \in Tasks :
           queue'[u].status =
                IF u = t THEN "running"
                ELSE IF queue[u].status = "pending" /\ Q!DepsCompleted(queue, u) THEN "ready"
                ELSE queue[u].status
  BY <1>1, StartEffect DEF IInv
<1>3. /\ runs'[e].task = t /\ runs'[e].phase = "working"
      /\ \A m \in DOMAIN runs : runs'[m] = runs[m]
  <2> DEFINE r == [task |-> t, deps |-> queue[t].deps, context |-> Context(queue[t].deps),
                   phase |-> "working"]
  <2>1. r \in Run /\ r.task = t /\ r.phase = "working" /\ runs' = Append(runs, r)
    BY <1>1, <1>2, QueueTyped DEF IInv, Run, Context
  <2> HIDE DEF r
  <2> QED
    BY <1>0, <2>1, AppendEffect DEF IInv
<1>4. /\ running'[c][t] = e
      /\ \A k \in Calls, u \in Tasks : k # c \/ u # t => running'[k][u] = running[k][u]
  <2>1. running \in [Calls -> [Tasks -> Nat]]
    BY RunsTyped DEF IInv, TypeOK
  <2> QED
    BY <1>0, <1>1, <2>1
<1>5. \A k \in Calls : running[k][t] = 0
  BY <1>2 DEF AccountInv, Accounted, QueueAgrees
<1>6. UNCHANGED <<stepResults, planOf, loaded, pc>> /\ pc[c] = "filling"
  BY DEF StartTask
<1>7. \A u \in Tasks : Accounted(u)'
  <2> SUFFICES ASSUME NEW u \in Tasks PROVE Accounted(u)'
    OBVIOUS
  <2>1. CASE u = t
    <3>1. queue'[t].status = "running" /\ \A k \in Calls \ {c} : running'[k][t] = 0
      BY <1>2, <1>4, <1>5
    <3>2. \A k \in Calls : QueueAgrees(k, t)'
      BY <1>0, <1>3, <1>4, <3>1 DEF QueueAgrees, EndedAs
    <3> QED
      BY <2>1, <3>1, <3>2 DEF Accounted
  <2>2. CASE u # t
    <3>1. Accounted(u) /\ \A k \in Calls : running'[k][u] = running[k][u]
      BY <1>4, <2>2 DEF AccountInv
    <3>2. \A k \in Calls : running[k][u] # 0 => runs'[running[k][u]] = runs[running[k][u]]
      BY <1>3, RunsTyped DEF IInv, TypeOK
    <3>3. \/ queue'[u].status = queue[u].status
          \/ queue[u].status \notin Ran /\ queue'[u].status \notin Ran
      BY <1>2, <2>2 DEF Ran
    <3> QED
      BY <1>6, <3>1, <3>2, <3>3, SameAccount
  <2> QED
    BY <2>1, <2>2
<1>8. \A u \in Tasks : /\ queue'[u].status # "cancelled"
                       /\ queue[u].status # "absent" => queue'[u].status # "absent"
  BY <1>2 DEF AccountInv
<1>9. \A k \in Calls : LoadedSteps(k)'
  BY <1>6, <1>8, StepIdsAreTasks DEF AccountInv, LoadedSteps, StepsOf, IInv, PlanKnown
<1>10. \A k \in Calls : NothingInFlight(k)'
  BY <1>4, <1>6 DEF AccountInv, NothingInFlight, InFlight
<1>11. LastReportCovers'
  BY <1>6 DEF LastReportCovers, AllAnswered
<1> QED
  BY <1>7, <1>8, <1>9, <1>10, <1>11 DEF AccountInv

LEMMA WakeAccount ==
  ASSUME IInv, AccountInv, NEW c \in Calls, Wake(c)
  PROVE  AccountInv'
<1>1. PICK t \in InFlight(c) :
        /\ runs[running[c][t]].phase \in Result
        /\ stepResults' = [stepResults EXCEPT ![t] = runs[running[c][t]].phase]
        /\ running' = [running EXCEPT ![c][t] = 0]
  BY DEF Wake
<1>2. /\ t \in Tasks /\ running[c][t] # 0 /\ running \in [Calls -> [Tasks -> Nat]]
      /\ stepResults \in [Tasks -> Result \cup {"none"}]
  BY RunsTyped DEF IInv, TypeOK, InFlight
<1>3. /\ running'[c][t] = 0 /\ stepResults'[t] = runs[running[c][t]].phase
      /\ \A k \in Calls, u \in Tasks : k # c \/ u # t => running'[k][u] = running[k][u]
      /\ \A u \in Tasks \ {t} : stepResults'[u] = stepResults[u]
  BY <1>1, <1>2
<1>4. /\ UNCHANGED <<queue, runs, loaded, planOf>> /\ pc[c] = "waiting" /\ pc'[c] = "filling"
      /\ \A k \in Calls \ {c} : pc'[k] = pc[k]
  BY DEF Wake, queueVars, IInv, TypeOK
<1>5. \A u \in Tasks : Accounted(u)'
  <2> SUFFICES ASSUME NEW u \in Tasks PROVE Accounted(u)'
    OBVIOUS
  <2>1. Accounted(u)
    BY DEF AccountInv
  <2>2. CASE u = t
    <3>1. QueueAgrees(c, t) /\ running[c][t] # 0
      BY <1>2, <2>1, <2>2 DEF Accounted
    <3>2. /\ queue[t].status = "completed" => stepResults'[t] \in Done
          /\ queue[t].status = "failed" => stepResults'[t] = "failed"
      BY <1>1, <1>3, <3>1 DEF QueueAgrees, EndedAs, Over, Result, Done
    <3>3. \A k \in Calls : QueueAgrees(k, t)'
      BY <1>3, <1>4, <2>1, <2>2 DEF Accounted, QueueAgrees, EndedAs
    <3> QED
      BY <1>4, <2>2, <3>2, <3>3 DEF Accounted
  <2>3. CASE u # t
    BY <1>3, <1>4, <2>1, <2>3, SameAccount
  <2> QED
    BY <2>2, <2>3
<1>6. \A k \in Calls : LoadedSteps(k)'
  BY <1>4 DEF AccountInv, LoadedSteps, StepsOf
<1>7. \A k \in Calls : NothingInFlight(k)'
  BY <1>3, <1>4 DEF AccountInv, NothingInFlight, InFlight
<1>8. LastReportCovers'
  BY <1>4 DEF LastReportCovers, AllAnswered
<1> QED
  BY <1>4, <1>5, <1>6, <1>7, <1>8 DEF AccountInv

\* A run that works is one that a call waits for, on a running task.
LEMMA WorkingIsInFlight ==
  ASSUME IInv, ApartInv, AccountInv, NEW n \in Working
  PROVE  /\ runs[n].task \in Tasks /\ queue[runs[n].task].status = "running"
         /\ n # 0 /\ \E k \in Calls : running[k][runs[n].task] = n
<1>1. PICK k \in Calls : running[k][runs[n].task] = n
  BY DEF ApartInv, WorkIsAwaited
<1>2. runs[n].task \in Tasks /\ n # 0 /\ runs[n].phase = "working"
  BY RunsTyped DEF Working, IInv
<1>3. QueueAgrees(k, runs[n].task)
  BY <1>2 DEF AccountInv, Accounted
<1> QED
  BY <1>1, <1>2, <1>3 DEF QueueAgrees, EndedAs, Over, Done

LEMMA WorkerAccount ==
  ASSUME IInv, ApartInv, AccountInv, NEW n \in DOMAIN runs, Worker(n)
  PROVE  AccountInv'
<1>1. n \in Working
  BY DEF Worker, WorkerEnds, WorkerThrows, StoringFails, RunCrashes, Working
<1>2. PICK t \in Tasks, c \in Calls :
        t = runs[n].task /\ running[c][t] = n /\ queue[t].status = "running" /\ n # 0
  BY <1>1, WorkingIsInFlight
<1>3. UNCHANGED <<stepResults, pc, planOf, loaded, running>>
  BY DEF Worker, WorkerEnds, WorkerThrows, StoringFails, RunCrashes, callVars
<1>4. PICK ph \in Over \cup {"failed"} :
        /\ EndRun(n, ph)
        /\ IF ph = "failed" THEN Q!Fail(t) ELSE Q!Complete(t)
  BY <1>2 DEF Worker, WorkerEnds, WorkerThrows, StoringFails, RunCrashes, Over, Done
<1>5. \A m \in DOMAIN runs : /\ runs'[m].task = runs[m].task
                             /\ runs'[m].phase = IF m = n THEN ph ELSE runs[m].phase
  BY <1>4, EndEffect DEF IInv, Over, Result, Rejected
<1>6. /\ queue'[t].status = IF ph = "failed" THEN "failed" ELSE "completed"
      /\ \A u \in Tasks \ {t} : \/ queue'[u].status = queue[u].status
                                \/ queue[u].status = "pending" /\ queue'[u].status = "ready"
  <2>1. CASE ph = "failed"
    BY <1>4, <2>1, FailEffect DEF IInv
  <2>2. CASE ph # "failed"
    BY <1>4, <2>2, CompleteEffect DEF IInv
  <2> QED
    BY <2>1, <2>2
<1>7. \A u \in Tasks, k \in Calls : running[k][u] # 0 =>
        running[k][u] \in DOMAIN runs /\ runs[running[k][u]].task = u
  BY RunsTyped DEF AccountInv, Accounted, QueueAgrees, IInv, TypeOK
<1>8. \A u \in Tasks : Accounted(u)'
  <2> SUFFICES ASSUME NEW u \in Tasks PROVE Accounted(u)'
    OBVIOUS
  <2>1. CASE u = t
    <3>1. \A k \in Calls : running[k][t] # 0 => running[k][t] = n
      <4> SUFFICES ASSUME NEW k \in Calls, running[k][t] # 0 PROVE running[k][t] = n
        OBVIOUS
      <4>1. running[k][t] \in DOMAIN runs /\ runs[running[k][t]].task = runs[n].task
        BY <1>2, <1>7
      <4> QED
        BY <4>1 DEF ApartInv, StepsRunOnce
    <3>2. \A k \in Calls : QueueAgrees(k, t)'
      BY <1>2, <1>3, <1>4, <1>5, <1>6, <3>1 DEF QueueAgrees, EndedAs
    <3>3. running'[c][t] = n /\ runs'[n].phase = ph
      BY <1>2, <1>3, <1>5
    <3> QED
      BY <1>2, <1>4, <1>6, <2>1, <3>2, <3>3 DEF Accounted, EndedAs
  <2>2. CASE u # t
    <3>1. Accounted(u)
      BY DEF AccountInv
    <3>2. \A k \in Calls : running[k][u] # 0 =>
            /\ runs'[running[k][u]].task = runs[running[k][u]].task
            /\ runs'[running[k][u]].phase = runs[running[k][u]].phase
      BY <1>2, <1>5, <1>7, <2>2
    <3>3. \/ queue'[u].status = queue[u].status
          \/ queue[u].status \notin Ran /\ queue'[u].status \notin Ran
      BY <1>6, <2>2 DEF Ran
    <3> QED
      BY <1>3, <3>1, <3>2, <3>3, SameAccount
  <2> QED
    BY <2>1, <2>2
<1>9. \A u \in Tasks : /\ queue'[u].status # "cancelled"
                       /\ queue[u].status # "absent" => queue'[u].status # "absent"
  BY <1>6 DEF AccountInv
<1>10. \A k \in Calls : LoadedSteps(k)'
  BY <1>3, <1>9, StepIdsAreTasks DEF AccountInv, LoadedSteps, StepsOf, IInv, PlanKnown
<1>11. \A k \in Calls : NothingInFlight(k)'
  BY <1>3 DEF AccountInv, NothingInFlight, InFlight
<1>12. pc[c] \notin {"idle", "returned"}
  BY <1>2 DEF AccountInv, NothingInFlight, InFlight
<1>13. LastReportCovers'
  BY <1>3, <1>12 DEF LastReportCovers, AllAnswered
<1> QED
  BY <1>8, <1>9, <1>10, <1>11, <1>13 DEF AccountInv

\* When nothing is in flight in any call and nothing is ready, the results are
\* all there: a step that did not end waits for one that nobody will complete.
LEMMA ResultsCover ==
  ASSUME IInv, ApartInv, AccountInv, Ready = {}, \A k \in Calls : InFlight(k) = {},
         NEW l \in Calls, Begun(l),
         NEW r, r = [success |-> Failed = {}, completed |-> Completed, failed |-> Failed]
  PROVE  Covers(r, planOf[l])
<1> DEFINE p == planOf[l]
<1>1. p \in Plans /\ pc[l] # "idle" /\ loaded[l] = Len(StepsOf(l))
  BY DEF IInv, PlanKnown, Begun, AccountInv, LoadedSteps
<1>2. \A t \in Tasks : queue[t].status \notin {"running", "ready", "cancelled"}
                       /\ (queue[t].status = "pending" => ~Q!DepsCompleted(queue, t))
  <2> SUFFICES ASSUME NEW t \in Tasks
               PROVE  queue[t].status \notin {"running", "ready", "cancelled"}
                      /\ (queue[t].status = "pending" => ~Q!DepsCompleted(queue, t))
    OBVIOUS
  <2>1. queue[t].status # "running"
    <3> SUFFICES ASSUME queue[t].status = "running" PROVE FALSE
      OBVIOUS
    <3>1. PICK n \in Working : runs[n].task = t
      BY DEF IInv, RunningHasWorker
    <3> QED
      BY <3>1, WorkingIsInFlight DEF InFlight
  <2>2. Q!UpdateReady(queue)[t].status # "ready"
    BY DEF Ready, Q!HasStatus
  <2>3. queue \in Queues
    BY QueueTyped DEF IInv
  <2>4. Q!UpdateReady(queue)[t].status =
          IF queue[t].status = "pending" /\ Q!DepsCompleted(queue, t) THEN "ready"
          ELSE queue[t].status
    BY <2>3, ReadyingEffect
  <2> QED
    BY <2>1, <2>2, <2>4 DEF AccountInv
<1>3. \A t \in Tasks : /\ queue[t].status = "completed" => t \in r.completed
                       /\ queue[t].status = "failed" => t \in r.failed
  <2> SUFFICES ASSUME NEW t \in Tasks
               PROVE  /\ queue[t].status = "completed" => t \in r.completed
                      /\ queue[t].status = "failed" => t \in r.failed
    OBVIOUS
  <2>1. Accounted(t) /\ \A k \in Calls : running[k][t] = 0
    BY DEF AccountInv, InFlight
  <2> QED
    BY <2>1 DEF Accounted, EndedAs, Completed, Failed
<1> SUFFICES ASSUME NEW t \in PlanSteps(p)
             PROVE  \/ t \in r.completed /\ queue[t].status = "completed"
                    \/ t \in r.failed /\ queue[t].status = "failed"
                    \/ /\ queue[t].status = "pending"
                       /\ \E d \in queue[t].deps : queue[d].status \in {"absent", "pending", "failed"}
  BY DEF Covers
<1>4. PICK j \in DOMAIN Steps[p] : t = Steps[p][j].id
  BY DEF PlanSteps
<1>5. t \in Tasks /\ queue[t].status # "absent"
  <2>1. t \in Tasks /\ j \in 1 .. Len(StepsOf(l))
    BY <1>1, <1>4, StepIdsAreTasks, PlanAssumption DEF StepsOf
  <2> QED
    BY <1>1, <1>4, <2>1 DEF AccountInv, LoadedSteps, StepsOf
<1>6. \A u \in Tasks : queue[u].status \in {"absent", "pending", "completed", "failed"}
  BY <1>2, QueueTyped DEF IInv, Queues, Q!TaskRecord, Q!TaskStatus
<1>7. CASE queue[t].status = "pending"
  <2>1. PICK d \in queue[t].deps : queue[d].status # "completed"
    BY <1>2, <1>5, <1>7 DEF Q!DepsCompleted
  <2>2. d \in Tasks
    BY <1>5, QueueTyped DEF IInv
  <2> QED
    BY <1>6, <1>7, <2>1, <2>2
<1> QED
  BY <1>3, <1>5, <1>6, <1>7

LEMMA ReturnAccount ==
  ASSUME IInv, ApartInv, AccountInv, NEW c \in Calls, Return(c)
  PROVE  AccountInv'
<1> DEFINE r == [success |-> Failed = {}, completed |-> Completed, failed |-> Failed]
<1>1. /\ UNCHANGED <<queue, runs, running, stepResults, loaded, planOf>>
      /\ pc[c] = "filling" /\ pc'[c] = "returned" /\ \A k \in Calls \ {c} : pc'[k] = pc[k]
      /\ InFlight(c) = {} /\ Ready = {} /\ resultStore'[planOf[c]] = r
  BY DEF Return, queueVars, IInv, TypeOK, PlanKnown
<1> HIDE DEF r
<1>2. \A k \in Calls : LoadedSteps(k)'
  BY <1>1 DEF AccountInv, LoadedSteps, StepsOf
<1>3. \A k \in Calls : NothingInFlight(k)'
  BY <1>1 DEF AccountInv, NothingInFlight, InFlight
<1>4. LastReportCovers'
  <2> SUFFICES ASSUME AllAnswered' PROVE LastReportCovers'
    BY DEF LastReportCovers
  <2>1. \A k \in Calls : InFlight(k) = {}
    BY <1>1 DEF AllAnswered, AccountInv, NothingInFlight
  <2>2. \A l \in Calls : pc'[l] = "returned" => Begun(l)
    BY <1>1 DEF Begun
  <2>3. \A l \in Calls : pc'[l] = "returned" => Covers(r, planOf[l])
    BY <1>1, <2>1, <2>2, ResultsCover DEF r
  <2>4. \A l \in Calls : pc'[l] = "returned" => Covers(resultStore[planOf[c]], planOf[l])'
    BY <1>1, <2>3 DEF Covers
  <2> QED
    BY <1>1, <2>4 DEF LastReportCovers
<1> QED
  BY <1>1, <1>2, <1>3, <1>4, AccountSame

LEMMA AccountStep ==
  IInv /\ ApartInv /\ AccountInv /\ PlansApart /\ [Next]_vars => AccountInv'
<1> SUFFICES ASSUME IInv, ApartInv, AccountInv, PlansApart, [Next]_vars PROVE AccountInv'
  OBVIOUS
<1>1. CASE Routes
  BY <1>1, RoutesAccount
<1>2. ASSUME NEW c \in Calls, Sync(c) \/ Wake(c) \/ Throw(c) PROVE AccountInv'
  BY <1>2, LoadAccount, MonitoringAccount, StartAccount, WakeAccount, ReturnAccount DEF Sync
<1>3. ASSUME NEW n \in DOMAIN runs, Worker(n) PROVE AccountInv'
  BY <1>3, WorkerAccount
<1>4. CASE UNCHANGED vars
  <2>1. UNCHANGED <<queue, runs, running, stepResults, loaded, planOf, pc, resultStore>>
    BY <1>4 DEF vars, queueVars, storeVars, callVars, workVars
  <2>2. \A k \in Calls : LoadedSteps(k)' /\ NothingInFlight(k)'
    BY <2>1 DEF AccountInv, LoadedSteps, StepsOf, NothingInFlight, InFlight
  <2>3. LastReportCovers'
    BY <2>1 DEF AccountInv, LastReportCovers, AllAnswered, Covers
  <2> QED
    BY <2>1, <2>2, <2>3, AccountSame
<1> QED
  BY <1>1, <1>2, <1>3, <1>4 DEF Next, Loop

\* When every call has been answered without an error, each step of each plan is
\* in one report as it ended, or waits for one that did not complete: the
\* report of the call that returned last (dispatcher.ts:70-102).  An earlier
\* report may miss a step that another call is running.
THEOREM LastReportTellsAll == Spec /\ []PlansApart => []LastReportCovers
<1>1. AccountInv => LastReportCovers
  BY DEF AccountInv
<1> QED
  BY <1>1, AccountInit, AccountStep, Inductive, ApartInductive, PTL DEF Spec

-------------------------------------------------------------------------------
(* What the calls have still to do *)

\* Steps to put into the queue, calls that load, tasks to start, workers to end,
\* results to collect, calls that fill their slots, calls that wait.
StepsToLoad ==
  IF turn # None /\ pc[turn] = "loading" THEN loaded[turn] + 1 .. Len(StepsOf(turn)) ELSE {}

CallsAt(where) == { k \in Calls : pc[k] = where }
ToStart == { t \in Tasks : queue[t].status \in {"pending", "ready"} }
ToCollect == { slot \in Calls \X Tasks : running[slot[1]][slot[2]] # 0 }

ToDo == <<StepsToLoad, CallsAt("loading"), ToStart, Working, ToCollect,
          CallsAt("filling"), CallsAt("waiting")>>

\* The first part that is not as before has lost something and gained nothing.
LessOf(after, before) ==
  \E i \in 1 .. 7 : /\ after[i] \subseteq before[i] /\ after[i] # before[i]
                    /\ \A j \in 1 .. i - 1 : after[j] = before[j]

WorkCountsDown ==
  /\ (Loop \/ \E n \in DOMAIN runs : Worker(n)) => LessOf(ToDo', ToDo)
  /\ (\E p \in Plans : Submit(p) \/ RejectPlan(p)) => UNCHANGED ToDo

\* How LessOf is met, part by part.
LEMMA LessAt ==
  ASSUME NEW i \in 1 .. 7, NEW a, NEW b, a[i] \subseteq b[i], a[i] # b[i],
         \A j \in 1 .. 7 : j < i => a[j] = b[j]
  PROVE  LessOf(a, b)
<1>1. \A j \in 1 .. i - 1 : a[j] = b[j]
  OBVIOUS
<1> QED
  BY <1>1 DEF LessOf

LEMMA Parts ==
  /\ ToDo[1] = StepsToLoad /\ ToDo'[1] = StepsToLoad'
  /\ ToDo[2] = CallsAt("loading") /\ ToDo'[2] = CallsAt("loading")'
  /\ ToDo[3] = ToStart /\ ToDo'[3] = ToStart'
  /\ ToDo[4] = Working /\ ToDo'[4] = Working'
  /\ ToDo[5] = ToCollect /\ ToDo'[5] = ToCollect'
  /\ ToDo[6] = CallsAt("filling") /\ ToDo'[6] = CallsAt("filling")'
  /\ ToDo[7] = CallsAt("waiting") /\ ToDo'[7] = CallsAt("waiting")'
  BY DEF ToDo

\* A call that goes from one place to another.
LEMMA CallMoves ==
  ASSUME TypeOK, NEW k \in Calls, NEW from, NEW to, from # to,
         pc[k] = from, pc' = [pc EXCEPT ![k] = to]
  PROVE  /\ CallsAt(from)' \subseteq CallsAt(from) /\ CallsAt(from)' # CallsAt(from)
         /\ "loading" \notin {from, to} => CallsAt("loading")' = CallsAt("loading")
         /\ "filling" \notin {from, to} => CallsAt("filling")' = CallsAt("filling")
<1>1. pc'[k] = to /\ \A l \in Calls \ {k} : pc'[l] = pc[l]
  BY DEF TypeOK
<1>2. k \in CallsAt(from) /\ k \notin CallsAt(from)'
  BY <1>1 DEF CallsAt
<1>3. CallsAt(from)' \subseteq CallsAt(from)
  BY <1>1 DEF CallsAt
<1>4. "loading" \notin {from, to} => CallsAt("loading")' = CallsAt("loading")
  BY <1>1 DEF CallsAt
<1>5. "filling" \notin {from, to} => CallsAt("filling")' = CallsAt("filling")
  BY <1>1 DEF CallsAt
<1> QED
  BY <1>2, <1>3, <1>4, <1>5

LEMMA LoadsLess ==
  ASSUME IInv, NEW k \in Calls, LoadStep(k)
  PROVE  LessOf(ToDo', ToDo)
<1>1. k # None /\ turn = k /\ turn' = k /\ pc[k] = "loading" /\ pc' = pc /\ planOf' = planOf
      /\ loaded[k] \in Nat /\ loaded'[k] = loaded[k] + 1
  BY PlanAssumption DEF LoadStep, IInv, TypeOK
<1>2. StepsToLoad = loaded[k] + 1 .. Len(StepsOf(k))
  BY <1>1 DEF StepsToLoad
<1>3. StepsToLoad' = loaded[k] + 1 + 1 .. Len(StepsOf(k))
  BY <1>1 DEF StepsToLoad, StepsOf
<1>4. Len(StepsOf(k)) \in Nat /\ loaded[k] < Len(StepsOf(k))
  <2>1. planOf[k] \in Plans
    BY <1>1 DEF IInv, PlanKnown
  <2> QED
    BY <2>1, PlanAssumption DEF StepsOf, LoadStep
<1>5. StepsToLoad' \subseteq StepsToLoad /\ StepsToLoad' # StepsToLoad
  <2>1. loaded[k] + 1 \in StepsToLoad /\ loaded[k] + 1 \notin StepsToLoad'
    BY <1>1, <1>2, <1>3, <1>4
  <2> QED
    BY <1>1, <1>2, <1>3, <1>4, <2>1
<1> QED
  BY <1>5, Parts, LessAt

LEMMA MonitoringLess ==
  ASSUME IInv, NEW k \in Calls, StartMonitoring(k)
  PROVE  LessOf(ToDo', ToDo)
<1>1. /\ pc[k] = "loading" /\ pc' = [pc EXCEPT ![k] = "filling"] /\ turn = k /\ turn' = k
      /\ loaded[k] = Len(StepsOf(k)) /\ k # None
  BY PlanAssumption DEF StartMonitoring
<1>2. pc'[k] = "filling" /\ loaded[k] \in Nat
  BY <1>1 DEF IInv, TypeOK
<1>3. StepsToLoad = {}
  BY <1>1, <1>2 DEF StepsToLoad
<1>4. StepsToLoad' = {}
  BY <1>1, <1>2, "loading" # "filling" DEF StepsToLoad
<1>5. CallsAt("loading")' \subseteq CallsAt("loading") /\ CallsAt("loading")' # CallsAt("loading")
  <2>1. "loading" # "filling"
    OBVIOUS
  <2>2. TypeOK
    BY DEF IInv
  <2> QED
    BY <1>1, <2>1, <2>2, CallMoves, Zenon
<1> QED
  BY <1>3, <1>4, <1>5, Parts, LessAt

LEMMA ParkLess ==
  ASSUME IInv, NEW k \in Calls, Park(k)
  PROVE  LessOf(ToDo', ToDo)
<1>1. /\ pc[k] = "filling" /\ pc' = [pc EXCEPT ![k] = "waiting"] /\ turn = k /\ turn' = None
      /\ UNCHANGED <<queue, runs, running>>
  BY DEF Park, queueVars, workVars
<1>2. StepsToLoad = {} /\ StepsToLoad' = {}
  BY <1>1 DEF StepsToLoad
<1>3. /\ CallsAt("filling")' \subseteq CallsAt("filling")
      /\ CallsAt("filling")' # CallsAt("filling")
      /\ CallsAt("loading")' = CallsAt("loading")
  <2>1. "filling" # "waiting" /\ "loading" \notin {"filling", "waiting"}
    OBVIOUS
  <2>2. TypeOK
    BY DEF IInv
  <2> QED
    BY <1>1, <2>1, <2>2, CallMoves, Zenon
<1>4. ToStart' = ToStart /\ Working' = Working /\ ToCollect' = ToCollect
  BY <1>1 DEF ToStart, Working, ToCollect
<1> QED
  BY <1>2, <1>3, <1>4, Parts, LessAt

LEMMA ReturnLess ==
  ASSUME IInv, NEW k \in Calls, Return(k)
  PROVE  LessOf(ToDo', ToDo)
<1>1. /\ pc[k] = "filling" /\ pc' = [pc EXCEPT ![k] = "returned"] /\ turn = k /\ turn' = None
      /\ UNCHANGED <<queue, runs, running>>
  BY DEF Return, queueVars
<1>2. StepsToLoad = {} /\ StepsToLoad' = {}
  BY <1>1 DEF StepsToLoad
<1>3. /\ CallsAt("filling")' \subseteq CallsAt("filling")
      /\ CallsAt("filling")' # CallsAt("filling")
      /\ CallsAt("loading")' = CallsAt("loading")
  <2>1. "filling" # "returned" /\ "loading" \notin {"filling", "returned"}
    OBVIOUS
  <2>2. TypeOK
    BY DEF IInv
  <2> QED
    BY <1>1, <2>1, <2>2, CallMoves, Zenon
<1>4. ToStart' = ToStart /\ Working' = Working /\ ToCollect' = ToCollect
  BY <1>1 DEF ToStart, Working, ToCollect
<1> QED
  BY <1>2, <1>3, <1>4, Parts, LessAt

LEMMA ThrowLess ==
  ASSUME IInv, NEW k \in Calls, Throw(k)
  PROVE  LessOf(ToDo', ToDo)
<1>1. /\ pc[k] = "waiting" /\ pc' = [pc EXCEPT ![k] = "threw"] /\ turn = None /\ turn' = None
      /\ UNCHANGED <<queue, runs, running>>
  BY DEF Throw, queueVars, workVars
<1>2. StepsToLoad = {} /\ StepsToLoad' = {}
  BY <1>1 DEF StepsToLoad
<1>3. /\ CallsAt("waiting")' \subseteq CallsAt("waiting")
      /\ CallsAt("waiting")' # CallsAt("waiting")
      /\ CallsAt("loading")' = CallsAt("loading")
      /\ CallsAt("filling")' = CallsAt("filling")
  <2>1. /\ "waiting" # "threw"
        /\ "loading" \notin {"waiting", "threw"}
        /\ "filling" \notin {"waiting", "threw"}
    OBVIOUS
  <2>2. TypeOK
    BY DEF IInv
  <2> QED
    BY <1>1, <2>1, <2>2, CallMoves, Zenon
<1>4. ToStart' = ToStart /\ Working' = Working /\ ToCollect' = ToCollect
  BY <1>1 DEF ToStart, Working, ToCollect
<1> QED
  BY <1>2, <1>3, <1>4, Parts, LessAt

LEMMA WakeLess ==
  ASSUME IInv, NEW k \in Calls, Wake(k)
  PROVE  LessOf(ToDo', ToDo)
<1>1. /\ pc[k] = "waiting" /\ pc' = [pc EXCEPT ![k] = "filling"] /\ turn = None /\ turn' = k
      /\ UNCHANGED <<queue, runs>>
  BY DEF Wake, queueVars
<1>2. pc'[k] = "filling"
  BY <1>1 DEF IInv, TypeOK
<1>3. StepsToLoad = {} /\ StepsToLoad' = {}
  BY <1>1, <1>2 DEF StepsToLoad
<1>4. CallsAt("loading")' = CallsAt("loading")
  <2>1. "waiting" # "filling" /\ "loading" \notin {"waiting", "filling"}
    OBVIOUS
  <2>2. TypeOK
    BY DEF IInv
  <2> QED
    BY <1>1, <2>1, <2>2, CallMoves, Zenon
<1>5. ToStart' = ToStart /\ Working' = Working
  BY <1>1 DEF ToStart, Working
<1>6. PICK t \in InFlight(k) : running' = [running EXCEPT ![k][t] = 0]
  BY DEF Wake
<1>7. t \in Tasks /\ running[k][t] # 0 /\ running'[k][t] = 0
      /\ \A l \in Calls, u \in Tasks : running'[l][u] # 0 => running[l][u] # 0
  BY <1>6 DEF InFlight, IInv, TypeOK
<1>8. ToCollect' \subseteq ToCollect
  BY <1>7 DEF ToCollect
<1>9. <<k, t>> \in ToCollect /\ <<k, t>> \notin ToCollect'
  BY <1>7 DEF ToCollect
<1> QED
  BY <1>3, <1>4, <1>5, <1>8, <1>9, Parts, LessAt

LEMMA StartsLess ==
  ASSUME IInv, NEW k \in Calls, StartTask(k)
  PROVE  LessOf(ToDo', ToDo)
<1>1. UNCHANGED pc /\ pc[k] = "filling" /\ turn = k /\ turn' = k
  BY DEF StartTask
<1>2. StepsToLoad = {} /\ StepsToLoad' = {}
  BY <1>1 DEF StepsToLoad
<1>3. CallsAt("loading")' = CallsAt("loading")
  BY <1>1 DEF CallsAt
<1>4. PICK t \in Tasks : /\ Q!IsNext(Q!UpdateReady(queue), t)
                         /\ queue' = Q!SetStatus(Q!UpdateReady(queue), t, "running")
  BY DEF StartTask
<1>5. /\ queue[t].status \in {"pending", "ready"}
      /\ \A u \in Tasks :
           queue'[u].status = IF u = t THEN "running"
                              ELSE IF queue[u].status = "pending" /\ Q!DepsCompleted(queue, u)
                                   THEN "ready" ELSE queue[u].status
  BY <1>4, StartEffect DEF IInv
<1>6. t \in ToStart /\ t \notin ToStart'
  BY <1>5 DEF ToStart
<1>7. ToStart' \subseteq ToStart
  BY <1>5 DEF ToStart
<1> QED
  BY <1>2, <1>3, <1>6, <1>7, Parts, LessAt

LEMMA WorkersLess ==
  ASSUME IInv, NEW n \in DOMAIN runs, Worker(n)
  PROVE  LessOf(ToDo', ToDo)
<1>1. UNCHANGED <<turn, pc>> /\ turn = None /\ runs[n].phase = "working"
  BY DEF Worker, WorkerEnds, WorkerThrows, StoringFails, RunCrashes, callVars
<1>2. StepsToLoad = {} /\ StepsToLoad' = {}
  BY <1>1 DEF StepsToLoad
<1>3. CallsAt("loading")' = CallsAt("loading")
  BY <1>1 DEF CallsAt
<1>4. runs[n].task \in Tasks
  BY RunsTyped DEF IInv
<1>5. ToStart' = ToStart
  <2>1. CASE Q!Complete(runs[n].task)
    BY <1>4, <2>1, CompleteEffect DEF ToStart, IInv
  <2>2. CASE Q!Fail(runs[n].task)
    BY <1>4, <2>2, FailEffect DEF ToStart, IInv
  <2>3. CASE queue' = queue
    BY <2>3 DEF ToStart
  <2> QED
    BY <2>1, <2>2, <2>3
       DEF Worker, WorkerEnds, WorkerThrows, StoringFails, RunCrashes, queueVars
<1>6. PICK ph \in (Result \cup Rejected) : EndRun(n, ph) /\ ph # "working"
  BY DEF Worker, WorkerEnds, WorkerThrows, StoringFails, RunCrashes, Result, Rejected, Done
<1>7. DOMAIN runs' = DOMAIN runs
      /\ \A m \in DOMAIN runs : runs'[m].phase = IF m = n THEN ph ELSE runs[m].phase
  BY <1>6, EndEffect DEF IInv
<1>8. Working' \subseteq Working
  BY <1>6, <1>7 DEF Working
<1>9. n \in Working /\ n \notin Working'
  BY <1>1, <1>6, <1>7 DEF Working
<1> QED
  BY <1>2, <1>3, <1>5, <1>8, <1>9, Parts, LessAt

LEMMA FinitelyMuchToDo ==
  ASSUME IsFiniteSet(Calls), IsFiniteSet(Tasks), IInv
  PROVE  \A i \in 1 .. 7 : IsFiniteSet(ToDo[i])
<1>1. IsFiniteSet(StepsToLoad)
  <2>1. CASE turn # None /\ pc[turn] = "loading"
    <3>1. turn \in Calls /\ loaded[turn] \in Nat
      BY <2>1 DEF IInv, TypeOK
    <3>2. planOf[turn] \in Plans
      BY <2>1, <3>1 DEF IInv, PlanKnown
    <3>3. Len(StepsOf(turn)) \in Nat
      BY <3>2, PlanAssumption DEF StepsOf
    <3>4. IsFiniteSet(loaded[turn] + 1 .. Len(StepsOf(turn)))
      BY <3>1, <3>3, FS_Interval
    <3> QED
      BY <2>1, <3>4 DEF StepsToLoad
  <2>2. CASE ~(turn # None /\ pc[turn] = "loading")
    BY <2>2, FS_EmptySet DEF StepsToLoad
  <2> QED
    BY <2>1, <2>2
<1>2. \A where : IsFiniteSet(CallsAt(where))
  <2>1. \A where : CallsAt(where) \subseteq Calls
    BY DEF CallsAt
  <2> QED
    BY <2>1, FS_Subset
<1>3. IsFiniteSet(ToStart)
  <2>1. ToStart \subseteq Tasks
    BY DEF ToStart
  <2> QED
    BY <2>1, FS_Subset
<1>4. IsFiniteSet(Working)
  <2>1. Working \subseteq 1 .. Len(runs) /\ Len(runs) \in Nat
    BY RunsTyped DEF Working, IInv
  <2>2. IsFiniteSet(1 .. Len(runs))
    BY <2>1, FS_Interval
  <2> QED
    BY <2>1, <2>2, FS_Subset
<1>5. IsFiniteSet(ToCollect)
  <2>1. ToCollect \subseteq Calls \X Tasks
    BY DEF ToCollect
  <2>2. IsFiniteSet(Calls \X Tasks)
    BY FS_Product
  <2> QED
    BY <2>1, <2>2, FS_Subset
<1> QED
  BY <1>1, <1>2, <1>3, <1>4, <1>5, Parts

\* An approval gives the calls a bounded amount of work, which is shared and which
\* every step of any of them, and of any worker, makes smaller; nothing but another
\* approval adds to it.  So as long as workers come to their ends, all loops
\* of runAll do, however many they are and whatever their plans share
\* (dispatcher.ts:65-102).
THEOREM WorkComesToAnEnd ==
  ASSUME IsFiniteSet(Calls), IsFiniteSet(Tasks)
  PROVE  Spec => /\ [](\A i \in 1 .. 7 : IsFiniteSet(ToDo[i]))
                 /\ [][WorkCountsDown]_vars
<1>1. IInv => \A i \in 1 .. 7 : IsFiniteSet(ToDo[i])
  BY FinitelyMuchToDo
<1>2. IInv /\ [Next]_vars => [WorkCountsDown]_vars
  <2> SUFFICES ASSUME IInv, Next PROVE WorkCountsDown
    OBVIOUS
  <2>1. ASSUME NEW k \in Calls, Sync(k) \/ Wake(k) \/ Throw(k) PROVE LessOf(ToDo', ToDo)
    BY <2>1, LoadsLess, MonitoringLess, StartsLess, ParkLess, ReturnLess, WakeLess, ThrowLess
       DEF Sync
  <2>2. ASSUME NEW p \in Plans, Submit(p) \/ RejectPlan(p) PROVE UNCHANGED ToDo
    <3>1. UNCHANGED <<queue, turn, pc, planOf, loaded, running, runs>>
      BY <2>2 DEF Submit, RejectPlan, queueVars, callVars, workVars
    <3> QED
      BY <3>1 DEF ToDo, StepsToLoad, StepsOf, CallsAt, ToStart, Working, ToCollect
  <2> QED
    BY <2>1, <2>2, WorkersLess DEF WorkCountsDown, Loop
<1> QED
  BY <1>1, <1>2, Inductive, PTL DEF Spec

-------------------------------------------------------------------------------
(* A call that has the dispatcher to itself *)

\* Every worker is one the loop waits for, so there are no more than slots
\* (types.ts, "Maximum parallel workers").
THEOREM OneCallIsBounded ==
  ASSUME NEW k, Calls = {k}
  PROVE  Spec => []WithinMaxParallelWorkers
<1>1. PlansApart
  BY DEF PlansApart
<1>2. IsFiniteSet(Calls) /\ Cardinality(Calls) = 1
  BY FS_Singleton
<1>3. Cardinality(Calls) * MaxConcurrency = MaxConcurrency
  BY <1>2, PlanAssumption
<1>4. WithinBoundPerCall => WithinMaxParallelWorkers
  BY <1>3 DEF WithinBoundPerCall, WithinMaxParallelWorkers
<1>5. Spec /\ []PlansApart => []WithinBoundPerCall
  BY <1>2, WorkersPerCall
<1> QED
  BY <1>1, <1>4, <1>5, PTL

\* No step is executed twice.
THEOREM OneCallRunsOnce ==
  ASSUME NEW k, Calls = {k}
  PROVE  Spec => []StepsRunOnce
<1>1. PlansApart
  BY DEF PlansApart
<1> QED
  BY <1>1, PlansApartRunOnce, PTL

\* The report of an execution covers its plan: a step is reported as it ended,
\* or waits for one that will never complete.
THEOREM OneCallReportsAll ==
  ASSUME NEW k, Calls = {k}
  PROVE  Spec => []ReportIsComplete
<1>1. PlansApart
  BY DEF PlansApart
<1>2. LastReportCovers => ReportIsComplete
  <2>1. pc[k] = "returned" => AllAnswered
    BY DEF AllAnswered
  <2> QED
    BY <2>1 DEF LastReportCovers, Covers, ReportIsComplete
<1> QED
  BY <1>1, <1>2, LastReportTellsAll, PTL
===============================================================================
