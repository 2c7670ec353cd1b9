----------------------------- MODULE PlanExecution -----------------------------
(***************************************************************************)
(* Plan execution: the server's plan routes, the orchestrator they share,  *)
(* and its dispatcher, over the task queue of module TaskQueue.            *)
(*                                                                         *)
(* One orchestrator serves every HTTP request, so two approvals run two    *)
(* loops of Dispatcher.runAll over one queue, one stepResults map and one  *)
(* monitor.  JavaScript runs one stretch at a time: `turn` is the call     *)
(* whose synchronous stretch is running, and nothing else moves until it   *)
(* parks at the Promise.race or returns.  Workers are asynchronous.        *)
(*                                                                         *)
(* Promises settle a few microtasks after the worker ends, so another      *)
(* worker may end in between: Wake takes any run of the call that ended.   *)
(***************************************************************************)
EXTENDS Naturals, Sequences, FiniteSets

CONSTANTS
  Tasks, Priorities, MaxTime,  \* as in TaskQueue
  Plans,           \* plan ids
  MaxPlans,        \* bound on the plans submitted in one behaviour
  Steps,           \* plan -> sequence of steps [id, deps, priority]
  Calls,           \* executions of POST /api/plans/:id/approve
  MaxConcurrency,  \* maxParallelWorkers
  SharesOutput,    \* the dispatcher has an artifact store and a project id
  None

ASSUME PlanAssumption ==
  /\ Priorities \subseteq Nat /\ MaxTime \in Nat
  /\ MaxConcurrency \in Nat \ {0}
  /\ MaxPlans \in Nat
  /\ SharesOutput \in BOOLEAN
  /\ Steps \in [Plans -> Seq([id : Tasks, deps : SUBSET Tasks, priority : Priorities])]
  /\ None \notin Plans \cup Calls

VARIABLES
  queue, now,     \* the TaskQueue
  planStore,      \* plan -> is it in planStore ("new": not submitted yet)
  resultStore,    \* plan -> OrchestratorResult
  turn,           \* the call that runs, if any
  pc,             \* call -> where it is
  planOf,         \* call -> plan
  loaded,         \* call -> steps added so far
  running,        \* call -> runAll's map: task -> number of its run (0: none)
  runs,           \* every executeTask started, in order
  stepResults,    \* task -> status of the StepResult
  activeWorkers,  \* tasks with an active worker
  monitored       \* ProgressMonitor.plan

queueVars == <<queue, now>>
storeVars == <<planStore, resultStore>>
callVars  == <<pc, planOf, loaded, running>>
workVars  == <<runs, stepResults, activeWorkers, monitored>>
vars == <<queueVars, storeVars, turn, callVars, workVars>>

Q == INSTANCE TaskQueue

Where == {"idle", "loading", "filling", "waiting", "returned", "threw"}

\* A run completes with text or silently; only text is handed to dependents.
\* A run that rejects does so before its task is completed or, when storing the
\* output fails, after.
Done     == {"text", "silent"}
Result   == Done \cup {"failed"}
Rejected == {"crashed", "unstored"}
Run      == [task : Tasks, deps : SUBSET Tasks, context : SUBSET Tasks,
             phase : Result \cup Rejected \cup {"working"}]

\* What executePlan returns: success, and the steps completed and failed.
Report == [success : BOOLEAN, completed : SUBSET Tasks, failed : SUBSET Tasks]

TypeOK ==
  /\ Q!TypeOK
  /\ planStore \in [Plans -> {"new", "stored", "rejected"}]
  /\ resultStore \in [Plans -> Report \cup {None}]
  /\ turn \in Calls \cup {None}
  /\ pc \in [Calls -> Where]
  /\ planOf \in [Calls -> Plans \cup {None}]
  /\ loaded \in [Calls -> Nat]
  /\ runs \in Seq(Run)
  /\ running \in [Calls -> [Tasks -> 0 .. Len(runs)]]
  /\ stepResults \in [Tasks -> Result \cup {"none"}]
  /\ activeWorkers \in SUBSET Tasks
  /\ monitored \in Plans \cup {None}

Init ==
  /\ Q!Init
  /\ planStore = [p \in Plans |-> "new"]
  /\ resultStore = [p \in Plans |-> None]
  /\ turn = None
  /\ pc = [c \in Calls |-> "idle"]
  /\ planOf = [c \in Calls |-> None]
  /\ loaded = [c \in Calls |-> 0]
  /\ running = [c \in Calls |-> [t \in Tasks |-> 0]]
  /\ runs = <<>>
  /\ stepResults = [t \in Tasks |-> "none"]
  /\ activeWorkers = {}
  /\ monitored = None

-------------------------------------------------------------------------------
(* The routes *)

\* POST /api/requests: the planner's answer is stored as it came.
Submit(p) ==
  /\ turn = None
  /\ planStore[p] = "new"
  /\ Cardinality({ q \in Plans : planStore[q] # "new" }) < MaxPlans
  /\ planStore' = [planStore EXCEPT ![p] = "stored"]
  /\ UNCHANGED <<queueVars, resultStore, turn, callVars, workVars>>

\* POST /api/plans/:id/reject, whether or not the plan is being executed.
RejectPlan(p) ==
  /\ turn = None
  /\ planStore[p] = "stored"
  /\ planStore' = [planStore EXCEPT ![p] = "rejected"]
  /\ UNCHANGED <<queueVars, resultStore, turn, callVars, workVars>>

\* POST /api/plans/:id/approve, up to executePlan.
Approve(c, p) ==
  /\ turn = None
  /\ pc[c] = "idle"
  /\ planStore[p] = "stored"
  /\ resultStore[p] = None
  /\ turn' = c
  /\ pc' = [pc EXCEPT ![c] = "loading"]
  /\ planOf' = [planOf EXCEPT ![c] = p]
  /\ UNCHANGED <<queueVars, storeVars, loaded, running, workVars>>

-------------------------------------------------------------------------------
(* Dispatcher.loadPlan *)

StepsOf(c) == Steps[planOf[c]]

LoadStep(c) ==
  /\ turn = c
  /\ pc[c] = "loading"
  /\ loaded[c] < Len(StepsOf(c))
  /\ LET s == StepsOf(c)[loaded[c] + 1] IN
       Q!Add(s.id, s.deps, s.priority) \/ Q!ReAdd(s.id, s.deps, s.priority)
  /\ loaded' = [loaded EXCEPT ![c] = @ + 1]
  /\ UNCHANGED <<storeVars, turn, pc, planOf, running, workVars>>

StartMonitoring(c) ==
  /\ turn = c
  /\ pc[c] = "loading"
  /\ loaded[c] = Len(StepsOf(c))
  /\ monitored' = planOf[c]
  /\ pc' = [pc EXCEPT ![c] = "filling"]
  /\ UNCHANGED <<queueVars, storeVars, turn, planOf, loaded, running,
                 runs, stepResults, activeWorkers>>

-------------------------------------------------------------------------------
(* Dispatcher.runAll *)

InFlight(c) == { t \in Tasks : running[c][t] # 0 }

Ready == Q!HasStatus(Q!UpdateReady(queue), "ready")

\* buildArtifactContext: the dependencies whose output is in stepResults.
Context(deps) ==
  { d \in deps : SharesOutput /\ stepResults[d] = "text" }

\* getNext, start and executeTask up to its first await.
StartTask(c) ==
  /\ turn = c
  /\ pc[c] = "filling"
  /\ Cardinality(InFlight(c)) < MaxConcurrency
  /\ LET q == Q!UpdateReady(queue) IN
     \E t \in Tasks :
       /\ Q!IsNext(q, t)
       /\ queue' = Q!SetStatus(q, t, "running")
       /\ runs' = Append(runs, [task |-> t, deps |-> q[t].deps,
                                context |-> Context(q[t].deps),
                                phase |-> "working"])
       /\ running' = [running EXCEPT ![c][t] = Len(runs) + 1]
       /\ activeWorkers' = activeWorkers \cup {t}
  /\ UNCHANGED <<now, storeVars, turn, pc, planOf, loaded, stepResults, monitored>>

SlotsFilled(c) == Cardinality(InFlight(c)) >= MaxConcurrency \/ Ready = {}

\* Mistake: the loop waits although nothing is running.
ParkIdle(c) ==
  /\ turn = c
  /\ pc[c] = "filling"
  /\ SlotsFilled(c)
  /\ turn' = None
  /\ pc' = [pc EXCEPT ![c] = "waiting"]
  /\ UNCHANGED <<queueVars, storeVars, planOf, loaded, running, workVars>>

\* await Promise.race(...)
Park(c) ==
  /\ turn = c
  /\ pc[c] = "filling"
  /\ SlotsFilled(c)
  /\ InFlight(c) # {}
  /\ turn' = None
  /\ pc' = [pc EXCEPT ![c] = "waiting"]
  /\ UNCHANGED <<queueVars, storeVars, planOf, loaded, running, workVars>>

\* Mistake: the result is dropped with the promise.
WakeWithoutResult(c) ==
  /\ turn = None
  /\ pc[c] = "waiting"
  /\ \E t \in InFlight(c) :
       /\ runs[running[c][t]].phase \in Result
       /\ running' = [running EXCEPT ![c][t] = 0]
  /\ turn' = c
  /\ pc' = [pc EXCEPT ![c] = "filling"]
  /\ UNCHANGED <<queueVars, storeVars, planOf, loaded, workVars>>

\* The race is won by a run that ended: record its result and go on.
Wake(c) ==
  /\ turn = None
  /\ pc[c] = "waiting"
  /\ \E t \in InFlight(c) :
       LET n == running[c][t] IN
       /\ runs[n].phase \in Result
       /\ stepResults' = [stepResults EXCEPT ![t] = runs[n].phase]
       /\ running' = [running EXCEPT ![c][t] = 0]
  /\ turn' = c
  /\ pc' = [pc EXCEPT ![c] = "filling"]
  /\ UNCHANGED <<queueVars, storeVars, planOf, loaded, runs, activeWorkers, monitored>>

\* The race is won by a rejected promise: runAll, executePlan and the route
\* throw; what is still running goes on and nobody collects it.
Throw(c) ==
  /\ turn = None
  /\ pc[c] = "waiting"
  /\ \E t \in InFlight(c) : runs[running[c][t]].phase \in Rejected
  /\ pc' = [pc EXCEPT ![c] = "threw"]
  /\ UNCHANGED <<queueVars, storeVars, turn, planOf, loaded, running, workVars>>

Completed == { t \in Tasks : stepResults[t] \in Done }
Failed    == { t \in Tasks : stepResults[t] = "failed" }

\* Mistake: the loop ends with the last ready step, not with the last run.
ReturnEarly(c) ==
  /\ turn = c
  /\ pc[c] = "filling"
  /\ Ready = {}
  /\ turn' = None
  /\ pc' = [pc EXCEPT ![c] = "returned"]
  /\ monitored' = None
  /\ resultStore' = [resultStore EXCEPT ![planOf[c]] =
       [success |-> Failed = {}, completed |-> Completed, failed |-> Failed]]
  /\ UNCHANGED <<queueVars, planStore, planOf, loaded, running,
                 runs, stepResults, activeWorkers>>

\* runAll, executePlan and the route return.  The awaits between them are
\* microtasks that no request can come between.
Return(c) ==
  /\ turn = c
  /\ pc[c] = "filling"
  /\ InFlight(c) = {}
  /\ Ready = {}
  /\ turn' = None
  /\ pc' = [pc EXCEPT ![c] = "returned"]
  /\ monitored' = None
  /\ resultStore' = [resultStore EXCEPT ![planOf[c]] =
       [success |-> Failed = {}, completed |-> Completed, failed |-> Failed]]
  /\ UNCHANGED <<queueVars, planStore, planOf, loaded, running,
                 runs, stepResults, activeWorkers>>

-------------------------------------------------------------------------------
(* Workers *)

EndRun(n, phase) == runs' = [runs EXCEPT ![n].phase = phase]

\* The worker's event stream ends.  An agent that failed yields an error event
\* and ends its stream too: without text the output is empty.
WorkerEnds(n) ==
  LET t == runs[n].task IN
  /\ turn = None
  /\ runs[n].phase = "working"
  /\ Q!Complete(t)
  /\ \E phase \in Done : EndRun(n, phase)
  /\ activeWorkers' = activeWorkers \ {t}
  /\ UNCHANGED <<storeVars, turn, callVars, stepResults, monitored>>

\* Mistake: the queue is not told of the failure.
WorkerThrowsUnnoticed(n) ==
  /\ turn = None
  /\ runs[n].phase = "working"
  /\ EndRun(n, "failed")
  /\ activeWorkers' = activeWorkers \ {runs[n].task}
  /\ UNCHANGED <<queueVars, storeVars, turn, callVars, stepResults, monitored>>

\* The worker throws, or the factory knows no such role.
WorkerThrows(n) ==
  LET t == runs[n].task IN
  /\ turn = None
  /\ runs[n].phase = "working"
  /\ Q!Fail(t)
  /\ EndRun(n, "failed")
  /\ activeWorkers' = activeWorkers \ {t}
  /\ UNCHANGED <<storeVars, turn, callVars, stepResults, monitored>>

\* The queue no longer has the task running: complete() throws, and so does the
\* fail() in the catch block, so executeTask rejects.
RunCrashes(n) ==
  /\ turn = None
  /\ runs[n].phase = "working"
  /\ queue[runs[n].task].status # "running"
  /\ EndRun(n, "crashed")
  /\ UNCHANGED <<queueVars, storeVars, turn, callVars,
                 stepResults, activeWorkers, monitored>>

\* The task is completed and its output cannot be stored: the catch block's
\* fail() throws, because the task is no longer running.
StoringFails(n) ==
  LET t == runs[n].task IN
  /\ SharesOutput
  /\ turn = None
  /\ runs[n].phase = "working"
  /\ Q!Complete(t)
  /\ EndRun(n, "unstored")
  /\ activeWorkers' = activeWorkers \ {t}
  /\ UNCHANGED <<storeVars, turn, callVars, stepResults, monitored>>

-------------------------------------------------------------------------------

Routes == \E p \in Plans : Submit(p) \/ RejectPlan(p) \/ \E c \in Calls : Approve(c, p)

Sync(c) == LoadStep(c) \/ StartMonitoring(c) \/ StartTask(c) \/ Park(c) \/ Return(c)

Loop == \E c \in Calls : Sync(c) \/ Wake(c) \/ Throw(c)

Worker(n) == WorkerEnds(n) \/ WorkerThrows(n) \/ StoringFails(n) \/ RunCrashes(n)

Next == Routes \/ Loop \/ \E n \in DOMAIN runs : Worker(n)

Spec == Init /\ [][Next]_vars

\* The event loop runs every stretch to its end and every settled promise's
\* continuation.  That workers end is an assumption on the agents: the
\* dispatcher applies no timeout of its own.
MaxRuns == Cardinality(Calls) * Cardinality(Tasks)

FairSpec == /\ Spec
            /\ \A c \in Calls : WF_vars(Sync(c)) /\ WF_vars(Wake(c) \/ Throw(c))
            /\ \A n \in 1 .. MaxRuns : WF_vars(n \in DOMAIN runs /\ Worker(n))

-------------------------------------------------------------------------------
(* Safety *)

Working == { n \in DOMAIN runs : runs[n].phase = "working" }

\* No step is stranded: a task the queue shows as running has a worker that
\* will end it, even after a loop threw or a plan was loaded over another.
RunningHasWorker ==
  \A t \in Tasks : queue[t].status = "running" =>
    \E n \in Working : runs[n].task = t

\* A step starts only after the worker of an earlier run of each of its
\* dependencies ended without throwing.
DependentsFollow ==
  \A n \in DOMAIN runs : \A d \in runs[n].deps :
    \E m \in 1 .. n - 1 : runs[m].task = d /\ runs[m].phase \in Done \cup {"unstored"}

\* A step is given the text of the dependencies it was started after: of none that
\* left no text, and of each that did, unless a result of it is still to be
\* collected.  The queue learns of a completion before the result map does, and
\* what starts in between goes without (dispatcher.ts:102-104, 118-121).
OutputReachesDependents ==
  [][\A n \in DOMAIN runs' \ DOMAIN runs : \A d \in runs'[n].deps :
       LET phases == { runs[m].phase : m \in { k \in DOMAIN runs : runs[k].task = d } } IN
       IF d \in runs'[n].context
         THEN "text" \in phases
         ELSE SharesOutput => phases # {"text"} \/ \E c \in Calls : d \in InFlight(c)]_vars

\* The report of an execution covers it: no step is still running or ready, and
\* a step without a result waits for one that will never complete.
PlanSteps(p) == { Steps[p][k].id : k \in DOMAIN Steps[p] }

ReportIsComplete ==
  \A c \in Calls : pc[c] = "returned" =>
    \A t \in PlanSteps(planOf[c]) :
      LET report == resultStore[planOf[c]] IN
      \/ t \in report.completed /\ queue[t].status = "completed"
      \/ t \in report.failed /\ queue[t].status = "failed"
      \/ /\ queue[t].status = "pending"
         /\ \E d \in queue[t].deps : queue[d].status \in {"absent", "pending", "failed"}

\* There are never more workers than maxParallelWorkers, "Maximum parallel workers"
\* (types.ts:100).  The loop of one call keeps to it; two calls do not.
WithinMaxParallelWorkers == Cardinality(Working) <= MaxConcurrency

\* A step of a plan is executed at most once ("Check if already executed").
StepsRunOnce ==
  \A m, n \in DOMAIN runs : runs[m].task = runs[n].task => m = n

-------------------------------------------------------------------------------
(* Liveness *)

\* An approved plan's request is answered, with a result or an error, whatever
\* the shape of the plan and whatever fails.
ApprovalIsAnswered ==
  \A c \in Calls : pc[c] = "loading" ~> pc[c] \in {"returned", "threw"}
===============================================================================
