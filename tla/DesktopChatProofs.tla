------------------------- MODULE DesktopChatProofs -------------------------
(***************************************************************************)
(* Proofs about the desktop's chat, for any number of agents and messages, *)
(* any bound on iterations, retries and tool calls, and any compaction     *)
(* that keeps something.                                                   *)
(*                                                                         *)
(* All but the type invariant and the bound on the context assume that no  *)
(* API key is stored during a run: with it they are false.  They rest on   *)
(* one fact, that a run is active only while the service has its           *)
(* controller, so that no two runs share the state of an agent.            *)
(***************************************************************************)
EXTENDS DesktopChat, AgentLoopProofs

\* An agent can be made whenever the service has none.
AgentToMake == agent = None => made + 1 \in Agents

TypeInv == TypeOK /\ LoopTyped /\ AgentToMake

\* The controller of the service is that of the active run, or of a message for
\* which no agent could be made.
ControllerInv ==
  /\ \A r \in Runs : Active(r) => controller = r
  /\ \A r \in Runs : controller = r => Active(r) \/ (r = accepted /\ At(r, "new"))
  /\ \A r \in Runs : r > accepted => At(r, "new")

\* An agent whose state says that it runs has an active run.
RunningInv ==
  \A a \in Agents : loopState[a].isRunning => \E r \in Runs : Active(r) /\ run[r].agent = a

ContextInv ==
  /\ \A r \in Runs : Active(r) => Owes(r) /\ Placed(r)
  /\ \A a \in Agents :
       (\A r \in Runs : Active(r) => run[r].agent # a) => Paired(context[a])

IInv ==
  /\ ControllerInv
  /\ RunningInv
  /\ ui = "busy" => submitted \/ NeverRan \/ \E r \in Runs : Active(r)

-----------------------------------------------------------------------------
LEMMA TypeInit == Init => TypeInv
<1> SUFFICES ASSUME Init PROVE TypeInv
  OBVIOUS
<1>1. LoopTyped
  BY LoopBegins DEF Init
<1>2. AgentToMake
  <2>1. PICK a \in Agents : TRUE
    BY LoopAssumption
  <2>2. a \in Nat \ {0} /\ 1 .. a \subseteq Agents
    BY DesktopAssumption
  <2> QED
    BY <2>2 DEF AgentToMake, Init
<1> QED
  BY <1>1, <1>2 DEF TypeInv, TypeOK, LoopTyped, Init

\* Every step keeps the types.
LEMMA TypeStep == TypeInv /\ [Next]_vars => TypeInv'
<1> SUFFICES ASSUME TypeInv, [Next]_vars PROVE TypeInv'
  OBVIOUS
<1>1. LoopTyped /\ LoopTypeOK /\ TypeOK /\ CallsInProgress /\ AgentToMake
  BY DEF TypeInv, TypeOK, LoopTyped
<1>2. CASE Submit
  BY <1>1, <1>2 DEF Submit, TypeInv, TypeOK, LoopTyped, LoopTypeOK, CallsInProgress, AgentToMake, loopVars
<1>3. CASE ChatRefused
  BY <1>1, <1>3
  DEF ChatRefused, TypeInv, TypeOK, LoopTyped, LoopTypeOK, CallsInProgress, AgentToMake, loopVars
<1>4. CASE Chat
  <2> DEFINE r == accepted + 1
             a == IF agent = None THEN made + 1 ELSE agent
             new == [run[r] EXCEPT !.phase = "starting", !.agent = a]
  <2>1. r \in Runs /\ a \in Agents /\ a # None
    BY <1>1, <1>4, DesktopAssumption DEF Chat, TypeOK, AgentToMake, None
  <2>2. run[r] \in RunLocals /\ CallsKnown(run[r])
    BY <1>1, <2>1 DEF LoopTypeOK, CallsInProgress
  <2>3. new \in RunLocals /\ CallsKnown(new)
    BY <2>1, <2>2 DEF RunLocals, Phases, CallsKnown
  <2>4. run' = [run EXCEPT ![r] = new] /\ context' = context /\ loopState' = loopState
    BY <1>1, <1>4, <2>1 DEF Chat, Start, LoopTypeOK, RunLocals
  <2>5. /\ agent' = a /\ controller' = r /\ accepted' = r /\ submitted' = FALSE /\ ui' = "busy"
        /\ made' \in {made, a} /\ registered' = registered
    BY <1>4 DEF Chat
  <2> HIDE DEF new, r, a
  <2>6. LoopTypeOK' /\ CallsInProgress'
    BY <1>1, <2>1, <2>3, <2>4, RunTypes DEF LoopTypeOK
  <2> QED
    BY <1>1, <2>1, <2>5, <2>6 DEF TypeInv, TypeOK, LoopTyped, AgentToMake
<1>5. ASSUME controller \in Runs, run' = [run EXCEPT ![controller].aborted = TRUE]
      PROVE  run' \in [Runs -> RunLocals] /\ CallsInProgress'
  <2> DEFINE new == [run[controller] EXCEPT !.aborted = TRUE]
  <2>1. run[controller] \in RunLocals /\ CallsKnown(run[controller])
    BY <1>1, <1>5 DEF LoopTypeOK, CallsInProgress
  <2>2. new \in RunLocals /\ CallsKnown(new) /\ run' = [run EXCEPT ![controller] = new]
    BY <1>5, <2>1 DEF RunLocals, CallsKnown
  <2> HIDE DEF new
  <2> QED
    BY <1>1, <1>5, <2>2, RunTypes
<1>6. CASE Stop
  <2>1. controller \in Runs /\ run' = [run EXCEPT ![controller].aborted = TRUE]
    BY <1>1, <1>6 DEF Stop, TypeOK
  <2> QED
    BY <1>1, <1>5, <1>6, <2>1 DEF Stop, TypeInv, TypeOK, LoopTyped, LoopTypeOK, AgentToMake
<1>7. CASE SetCwd
  BY <1>1, <1>7 DEF SetCwd, TypeInv, TypeOK, LoopTyped, LoopTypeOK, CallsInProgress, AgentToMake, loopVars
<1>8. CASE SetApiKey
  <2>1. run' \in [Runs -> RunLocals] /\ CallsInProgress'
    <3>1. CASE controller = None
      BY <1>1, <1>8, <3>1 DEF SetApiKey, LoopTypeOK, CallsInProgress
    <3>2. CASE controller # None
      BY <1>1, <1>5, <1>8, <3>2 DEF SetApiKey, TypeOK
    <3> QED
      BY <3>1, <3>2
  <2> QED
    BY <1>1, <1>8, <2>1 DEF SetApiKey, TypeInv, TypeOK, LoopTyped, LoopTypeOK, AgentToMake
<1>9. ASSUME NEW r \in Runs, LoopSteps(r)
      PROVE  TypeInv'
  <2>1. LoopTypeOK' /\ CallsInProgress'
    BY <1>9, LoopTypes DEF LoopSteps, TypeInv
  <2> QED
    BY <1>1, <1>9, <2>1 DEF LoopSteps, TypeInv, TypeOK, LoopTyped, AgentToMake, serviceVars
<1>10. ASSUME NEW r \in Runs, RunEnds(r)
       PROVE  TypeInv'
  <2> DEFINE new == [run[r] EXCEPT !.phase = "ended"]
  <2>1. run[r] \in RunLocals /\ CallsKnown(run[r])
    BY <1>1 DEF LoopTypeOK, CallsInProgress
  <2>2. new \in RunLocals /\ CallsKnown(new) /\ run' = [run EXCEPT ![r] = new]
    BY <1>10, <2>1 DEF RunEnds, Finish, RunLocals, Phases, CallsKnown
  <2>3. loopState' \in [Agents -> [iteration : 0 .. MaxIterations, isRunning : BOOLEAN]]
    BY <1>1, <1>10, <2>1 DEF RunEnds, Finish, LoopTypeOK, RunLocals
  <2> HIDE DEF new
  <2>4. LoopTypeOK' /\ CallsInProgress'
    BY <1>1, <1>10, <2>2, <2>3, RunTypes DEF RunEnds, Finish, LoopTypeOK
  <2> QED
    BY <1>1, <1>10, <2>4 DEF RunEnds, TypeInv, TypeOK, LoopTyped, AgentToMake
<1>11. CASE UNCHANGED vars
  BY <1>1, <1>11
  DEF vars, loopVars, serviceVars, TypeInv, TypeOK, LoopTyped, LoopTypeOK, CallsInProgress, AgentToMake
<1>12. CASE ChatThrows
  BY <1>1, <1>12
  DEF ChatThrows, TypeInv, TypeOK, LoopTyped, LoopTypeOK, CallsInProgress, AgentToMake, loopVars
<1>13. CASE RemoveApiKey \/ SetProvider
  BY <1>1, <1>13
  DEF RemoveApiKey, SetProvider, TypeInv, TypeOK, LoopTyped, LoopTypeOK, CallsInProgress,
      AgentToMake, loopVars
<1> QED
  BY <1>2, <1>3, <1>4, <1>6, <1>7, <1>8, <1>9, <1>10, <1>11, <1>12, <1>13 DEF Next

\* The type invariant, whatever the user does and when.
THEOREM TypeCorrect == Spec => []TypeOK
<1>1. TypeInv => TypeOK
  BY DEF TypeInv
<1> QED
  BY <1>1, TypeInit, TypeStep, PTL DEF Spec

-----------------------------------------------------------------------------
LEMMA ControllerInit == Init => IInv
<1> SUFFICES ASSUME Init PROVE IInv
  OBVIOUS
<1>1. \A r \in Runs : ~Active(r) /\ At(r, "new")
  BY DEF Init, LoopInit, Active, At
<1>2. controller = None /\ None \notin Runs
  BY DesktopAssumption DEF Init, None
<1>3. \A a \in Agents : ~loopState[a].isRunning
  BY DEF Init, LoopInit
<1>4. ui = "idle"
  BY DEF Init
<1> QED
  BY <1>1, <1>2, <1>3, <1>4 DEF IInv, ControllerInv, RunningInv

\* A step that leaves the phases and agents of the runs, and their states, and
\* keeps or clears the controller.
LEMMA ServiceStep ==
  ASSUME TypeInv, IInv, accepted' = accepted, loopState' = loopState,
         \A r \in Runs : run'[r].phase = run[r].phase /\ run'[r].agent = run[r].agent,
         controller' = controller \/ ((\A r \in Runs : ~Active(r)) /\ controller' \notin Runs)
  PROVE  /\ ControllerInv' /\ RunningInv'
         /\ NeverRan' <=> NeverRan
         /\ (\E r \in Runs : Active(r))' <=> \E r \in Runs : Active(r)
<1>1. \A r \in Runs : /\ Active(r)' <=> Active(r)
                      /\ At(r, "new")' <=> At(r, "new")
  BY DEF Active, At
<1>2. ControllerInv'
  BY <1>1 DEF IInv, ControllerInv
<1>3. RunningInv'
  BY <1>1 DEF IInv, RunningInv
<1>4. NeverRan' <=> NeverRan
  <2>1. CASE accepted \in Runs
    BY <1>1, <2>1 DEF NeverRan
  <2>2. CASE accepted \notin Runs
    BY <2>2 DEF NeverRan, TypeInv, TypeOK
  <2> QED
    BY <2>1, <2>2
<1> QED
  BY <1>1, <1>2, <1>3, <1>4

\* If no key is stored during a run, controller, state and status stay true.
LEMMA ControllerStep ==
  ASSUME KeyChangesDuringRun = FALSE
  PROVE  TypeInv /\ IInv /\ [Next]_vars => IInv'
<1> SUFFICES ASSUME TypeInv, IInv, [Next]_vars PROVE IInv'
  OBVIOUS
<1>1. /\ run \in [Runs -> RunLocals] /\ controller \in Runs \cup {None} /\ None \notin Runs
      /\ loopState \in [Agents -> [iteration : 0 .. MaxIterations, isRunning : BOOLEAN]]
      /\ \A r \in Runs : run[r] \in RunLocals /\ run[r].agent \in Agents
      /\ accepted \in Nat /\ Runs \subseteq Nat \ {0}
  <2>1. run \in [Runs -> RunLocals] /\ controller \in Runs \cup {None} /\ accepted \in Runs \cup {0}
    BY DEF TypeInv, TypeOK, LoopTypeOK
  <2>2. loopState \in [Agents -> [iteration : 0 .. MaxIterations, isRunning : BOOLEAN]]
    BY DEF TypeInv, TypeOK, LoopTypeOK
  <2>3. Runs \subseteq Nat \ {0} /\ None \notin Runs
    BY DesktopAssumption DEF None
  <2>4. \A r \in Runs : run[r] \in RunLocals /\ run[r].agent \in Agents
    BY <2>1 DEF RunLocals
  <2> QED
    BY <2>1, <2>2, <2>3, <2>4
<1>2. ASSUME ControllerInv', RunningInv',
             ui' = "busy" => submitted' \/ NeverRan' \/ (\E r \in Runs : Active(r))'
      PROVE  IInv'
  BY <1>2 DEF IInv
<1>3. /\ \A r \in Runs : Active(r) => controller = r
      /\ \A r \in Runs : controller = r => Active(r) \/ (r = accepted /\ At(r, "new"))
      /\ \A r \in Runs : r > accepted => At(r, "new")
  BY DEF IInv, ControllerInv
<1>4. ui = "busy" => submitted \/ NeverRan \/ \E r \in Runs : Active(r)
  BY DEF IInv
<1>5. \A r \in Runs : run[r].phase = "new" => ~Active(r)
  BY DEF Active
<1>6. CASE Submit
  <2>1. /\ accepted' = accepted /\ loopState' = loopState /\ run' = run
        /\ controller' = controller /\ submitted' = TRUE
    BY <1>6 DEF Submit, loopVars
  <2> QED
    BY <1>2, <2>1, ServiceStep
<1>7. CASE ChatRefused
  <2>1. /\ accepted' = accepted /\ loopState' = loopState /\ run' = run
        /\ controller' = controller /\ controller # None
    BY <1>7 DEF ChatRefused, loopVars
  <2>2. NeverRan \/ \E r \in Runs : Active(r)
    BY <1>1, <1>3, <2>1 DEF NeverRan
  <2> QED
    BY <1>2, <2>1, <2>2, ServiceStep
<1>8. CASE Chat
  <2>1. PICK r \in Runs : \E a : /\ r = accepted + 1 /\ controller = None
                                 /\ controller' = r /\ Start(r, a) /\ accepted' = r
    BY <1>8 DEF Chat
  <2>a. PICK a : Start(r, a)
    BY <2>1
  <2>2. /\ loopState' = loopState /\ ~Active(r) /\ Active(r)'
        /\ \A s \in Runs \ {r} : run'[s] = run[s]
    <3>1. run[r] \in RunLocals /\ run[r].phase = "new" /\ loopState' = loopState
      BY <1>1, <2>a DEF Start, At
    <3>2. run' = [run EXCEPT ![r] = [run[r] EXCEPT !.phase = "starting", !.agent = a]]
      BY <1>1, <2>a DEF Start
    <3>3. run'[r].phase = "starting" /\ \A s \in Runs \ {r} : run'[s] = run[s]
      BY <1>1, <2>1, <3>1, <3>2 DEF RunLocals
    <3> QED
      BY <3>1, <3>3 DEF Active
  <2>3. \A s \in Runs : ~Active(s)
    BY <1>1, <1>3, <2>1
  <2>4. ControllerInv'
    <3>1. \A s \in Runs \ {r} : ~Active(s)'
      BY <2>2, <2>3 DEF Active
    <3>2. \A s \in Runs : s > r => At(s, "new")'
      <4>1. \A s \in Runs : s > r => s # r /\ s > accepted
        BY <1>1, <2>1
      <4> QED
        BY <1>3, <2>2, <4>1 DEF At
    <3> QED
      BY <2>1, <2>2, <3>1, <3>2 DEF ControllerInv
  <2>5. RunningInv'
    BY <2>2, <2>3 DEF IInv, RunningInv
  <2>6. \E s \in Runs : Active(s)'
    BY <2>1, <2>2
  <2> QED
    BY <1>2, <2>4, <2>5, <2>6
<1>9. CASE ChatThrows
  <2>1. PICK r \in Runs : /\ r = accepted + 1 /\ controller = None
                         /\ controller' = r /\ accepted' = r
                         /\ run' = run /\ loopState' = loopState
    BY <1>9 DEF ChatThrows, loopVars
  <2>2. At(r, "new")' /\ r # 0
    BY <1>1, <1>3, <2>1 DEF At
  <2>3. NeverRan'
    BY <2>1, <2>2 DEF NeverRan, At
  <2>4. ControllerInv'
    <3>1. \A s \in Runs : ~Active(s)'
      BY <1>1, <1>3, <2>1 DEF Active
    <3>2. \A s \in Runs : s > r => At(s, "new")'
      BY <1>1, <1>3, <2>1 DEF At
    <3> QED
      BY <2>1, <2>2, <3>1, <3>2 DEF ControllerInv
  <2>5. RunningInv'
    BY <2>1 DEF IInv, RunningInv, Active
  <2> QED
    BY <1>2, <2>3, <2>4, <2>5
<1>10. CASE Stop
  <2>1. \A r \in Runs : run'[r].phase = run[r].phase /\ run'[r].agent = run[r].agent
    BY <1>1, <1>10 DEF Stop, RunLocals
  <2>2. accepted' = accepted /\ loopState' = loopState /\ controller' = controller /\ ui' = "idle"
    BY <1>10 DEF Stop
  <2> QED
    BY <1>2, <2>1, <2>2, ServiceStep
<1>11. CASE SetCwd \/ RemoveApiKey \/ SetProvider \/ UNCHANGED vars
  <2>1. /\ accepted' = accepted /\ loopState' = loopState /\ run' = run /\ ui' = ui
        /\ controller' = controller /\ submitted' = submitted
    BY <1>11 DEF SetCwd, RemoveApiKey, SetProvider, vars, loopVars, serviceVars
  <2> QED
    BY <1>2, <1>4, <2>1, ServiceStep
<1>12. CASE SetApiKey
  <2>1. /\ \A r \in Runs : ~Active(r)
        /\ controller' = None /\ accepted' = accepted /\ loopState' = loopState
        /\ ui' = ui /\ submitted' = submitted
    BY <1>12 DEF SetApiKey
  <2>2. \A r \in Runs : run'[r].phase = run[r].phase /\ run'[r].agent = run[r].agent
    BY <1>1, <1>12 DEF SetApiKey, RunLocals
  <2> QED
    BY <1>1, <1>2, <1>4, <2>1, <2>2, ServiceStep
<1>13. ASSUME NEW r \in Runs, LoopSteps(r)
       PROVE  IInv'
  <2>1. /\ Active(r) /\ Active(r)' /\ run'[r].agent = run[r].agent
        /\ \A s \in Runs \ {r} : run'[s] = run[s]
        /\ \A a \in Agents \ {run[r].agent} : loopState'[a] = loopState[a]
    BY <1>13, LoopStepLocal DEF LoopSteps, TypeInv
  <2>2. /\ controller' = controller /\ ui' = ui /\ submitted' = submitted /\ accepted' = accepted
    BY <1>13 DEF LoopSteps, serviceVars
  <2>3. \A s \in Runs : Active(s)' <=> Active(s)
    BY <2>1 DEF Active
  <2>4. \A s \in Runs : At(s, "new")' <=> At(s, "new")
    <3>1. ~At(r, "new") /\ ~At(r, "new")'
      BY <2>1 DEF Active, At
    <3> QED
      BY <2>1, <3>1 DEF At
  <2>5. ControllerInv'
    BY <1>3, <2>2, <2>3, <2>4 DEF ControllerInv
  <2>6. RunningInv'
    BY <1>1, <2>1, <2>3 DEF IInv, RunningInv
  <2>7. \E s \in Runs : Active(s)'
    BY <2>1
  <2> QED
    BY <1>2, <2>5, <2>6, <2>7
<1>14. ASSUME NEW r \in Runs, RunEnds(r)
       PROVE  IInv'
  <2>1. /\ Active(r) /\ ~Active(r)' /\ controller' = None /\ ui' = "idle"
        /\ \A s \in Runs \ {r} : run'[s] = run[s] /\ ~Active(s)
        /\ ~loopState'[run[r].agent].isRunning
        /\ \A a \in Agents \ {run[r].agent} : loopState'[a] = loopState[a]
        /\ accepted' = accepted
    BY <1>1, <1>3, <1>14 DEF RunEnds, Finish, At, Active, RunLocals
  <2>2. \A s \in Runs : ~Active(s)'
    BY <2>1 DEF Active
  <2>3. \A s \in Runs : s > accepted => At(s, "new")'
    <3>1. \A s \in Runs : s > accepted => s # r
      BY <1>3, <1>5, <2>1 DEF At
    <3> QED
      BY <1>3, <2>1, <3>1 DEF At
  <2>4. ControllerInv'
    BY <1>1, <2>1, <2>2, <2>3 DEF ControllerInv
  <2>5. RunningInv'
    BY <1>1, <2>1 DEF IInv, RunningInv, Active
  <2> QED
    BY <1>2, <2>1, <2>4, <2>5
<1> QED
  BY <1>6, <1>7, <1>8, <1>9, <1>10, <1>11, <1>12, <1>13, <1>14 DEF Next

LEMMA ControllerAlways ==
  ASSUME KeyChangesDuringRun = FALSE
  PROVE  Spec => [](TypeInv /\ IInv)
BY TypeInit, TypeStep, ControllerInit, ControllerStep, PTL DEF Spec

\* Unless a key is stored during a run, there is one run at a time and stop()
\* reaches it.
THEOREM OneRunIsReachable ==
  ASSUME KeyChangesDuringRun = FALSE
  PROVE  Spec => []OneRunAtATime
<1>1. IInv => OneRunAtATime
  BY DEF IInv, ControllerInv, OneRunAtATime
<1> QED
  BY <1>1, ControllerAlways, PTL

\* Nor does anything say "busy" when nothing is at work, but the renderer after
\* a message for which no agent could be made.
THEOREM BusyIsTrue ==
  ASSUME KeyChangesDuringRun = FALSE
  PROVE  Spec => []BusyMeansWork
<1>1. TypeInv /\ IInv => BusyMeansWork
  BY DEF TypeInv, TypeOK, LoopTyped, IInv, RunningInv, BusyMeansWork, Status
<1> QED
  BY <1>1, ControllerAlways, PTL

\* A run that was stopped counts no further iteration.
THEOREM StopIsObeyed ==
  ASSUME KeyChangesDuringRun = FALSE
  PROVE  Spec => StopEndsIterating
<1>1. TypeInv /\ IInv /\ [Next]_vars => [\A r \in Runs : ~StoppedRunIterates(r)]_vars
  <2> SUFFICES ASSUME TypeInv, IInv, Next, NEW r \in Runs, run[r].aborted, Active(r)
               PROVE  ~(loopState'[run[r].agent].iteration > Iteration(r))
    BY DEF StoppedRunIterates
  <2>1. /\ loopState \in [Agents -> [iteration : 0 .. MaxIterations, isRunning : BOOLEAN]]
        /\ run[r].agent \in Agents
    BY DEF TypeInv, TypeOK, LoopTyped, LoopTypeOK, RunLocals
  <2>6. Iteration(r) \in 0 .. MaxIterations /\ Iteration(r) \in Nat
    BY <2>1, LoopAssumption DEF Iteration
  <2>2. \A s \in Runs : Active(s) => s = r
    BY DEF IInv, ControllerInv
  <2>3. CASE \/ Submit \/ ChatRefused \/ Chat \/ ChatThrows \/ Stop
             \/ SetCwd \/ SetApiKey \/ RemoveApiKey \/ SetProvider
    BY <2>3, <2>6
    DEF Submit, ChatRefused, Chat, ChatThrows, Start, Stop, SetCwd, SetApiKey, RemoveApiKey,
        SetProvider, loopVars, Iteration
  <2>4. ASSUME NEW s \in Runs, LoopSteps(s)
        PROVE  ~(loopState'[run[r].agent].iteration > Iteration(r))
    <3>1. s = r
      BY <2>2, <2>4, LoopStepLocal DEF LoopSteps, TypeInv
    <3>2. loopState'[run[r].agent].iteration \in {0, Iteration(r)}
      BY <2>4, <3>1, LoopStepLocal DEF LoopSteps, Iteration, TypeInv
    <3> QED
      BY <2>6, <3>2
  <2>5. ASSUME NEW s \in Runs, RunEnds(s)
        PROVE  ~(loopState'[run[r].agent].iteration > Iteration(r))
    <3>1. loopState'[run[r].agent].iteration = Iteration(r)
      BY <2>1, <2>5 DEF RunEnds, Finish, Iteration
    <3> QED
      BY <2>6, <3>1
  <2> QED
    BY <2>3, <2>4, <2>5 DEF Next
<1> QED
  BY <1>1, ControllerAlways, PTL DEF Spec, StopEndsIterating

-----------------------------------------------------------------------------
\* No context outgrows what compaction promises, if compaction keeps something.
THEOREM ContextBound ==
  ASSUME KeepRecent > 0
  PROVE  Spec => []ContextIsBounded
<1> DEFINE Bound == IF KeepRecent > Threshold THEN KeepRecent ELSE Threshold
<1>1. Init => ContextIsBounded
  <2>1. Len(<<>>) = 0 /\ 0 <= Bound
    BY LoopAssumption
  <2> QED
    BY <2>1 DEF Init, LoopInit, ContextIsBounded
<1>2. TypeInv /\ ContextIsBounded /\ [Next]_vars => ContextIsBounded'
  <2> SUFFICES ASSUME TypeInv, ContextIsBounded, [Next]_vars PROVE ContextIsBounded'
    OBVIOUS
  <2>1. context \in [Agents -> Seq(Messages)]
    BY DEF TypeInv, TypeOK, LoopTyped, LoopTypeOK
  <2>2. ASSUME NEW a \in Agents, NEW m \in Messages, AddMessage(a, m)
        PROVE  ContextIsBounded'
    <3>1. Append(context[a], m) \in Seq(Messages)
      BY <2>1
    <3>2. Len(Compacted(Append(context[a], m))) <= Bound
      BY <3>1, CompactedBounded
    <3> QED
      BY <2>1, <2>2, <3>2 DEF AddMessage, ContextIsBounded
  <2>3. ASSUME NEW r \in Runs, LoopSteps(r)
        PROVE  ContextIsBounded'
    <3>1. run[r] \in RunLocals /\ run[r].agent \in Agents /\ CallsKnown(run[r])
      BY DEF TypeInv, TypeOK, LoopTyped, LoopTypeOK, RunLocals, CallsInProgress
    <3>2. CASE Prompt(r)
      BY <2>2, <3>1, <3>2, MessageTypes DEF Prompt
    <3>3. CASE Iterate(r)
      BY <2>1, <3>1, <3>3, CompactedBounded DEF Iterate, NextIteration, ContextIsBounded
    <3>4. CASE AddResult(r)
      <4>1. run[r].calls[run[r].done + 1] \in CallIds
        BY <3>1, <3>4, LoopAssumption DEF AddResult, At, CallsKnown, RunLocals
      <4> QED
        BY <2>2, <3>1, <3>4, <4>1, MessageTypes DEF AddResult
    <3>5. ASSUME NEW n \in 0 .. MaxCalls, Answer(r, n)
          PROVE  ContextIsBounded'
      <4>1. [i \in 1 .. n |-> <<r, Iteration(r), i>>] \in Seq(CallIds)
        BY AnswerCalls DEF TypeInv
      <4> QED
        BY <2>2, <3>1, <3>5, <4>1, MessageTypes DEF Answer, ContextIsBounded
    <3>6. CASE UNCHANGED context
      BY <3>6 DEF ContextIsBounded
    <3> QED
      BY <2>3, <3>2, <3>3, <3>4, <3>5, <3>6
      DEF LoopSteps, LoopStep, Begin, LeaveLoop, TextChunk, AbortSeen, Retry, ChatFails, Execute
  <2>4. CASE UNCHANGED context
    BY <2>4 DEF ContextIsBounded
  <2> QED
    BY <2>3, <2>4
    DEF Next, Submit, ChatRefused, Chat, ChatThrows, Start, Stop, SetCwd, SetApiKey,
        RemoveApiKey, SetProvider, RunEnds, Finish, vars, loopVars
<1> QED
  BY <1>1, <1>2, TypeInit, TypeStep, PTL DEF Spec

-----------------------------------------------------------------------------
LEMMA ContextInit == Init => ContextInv
<1>1. Paired(<<>>)
  <2>1. Len(<<>>) = 0
    OBVIOUS
  <2> QED
    BY <2>1 DEF Paired, CallsAnswered, ResultsInPlace
<1>2. ASSUME Init PROVE ContextInv
  <2>1. \A r \in Runs : ~Active(r)
    BY <1>2 DEF Init, LoopInit, Active
  <2>2. \A a \in Agents : context[a] = <<>>
    BY <1>2 DEF Init, LoopInit
  <2> QED
    BY <1>1, <2>1, <2>2 DEF ContextInv
<1> QED
  BY <1>2

\* With one run at a time no other run's messages come between.
LEMMA ContextStep ==
  ASSUME KeyChangesDuringRun = FALSE
  PROVE  TypeInv /\ IInv /\ ContextInv /\ [Next]_vars => ContextInv'
<1> SUFFICES ASSUME TypeInv, IInv, ContextInv, [Next]_vars PROVE ContextInv'
  OBVIOUS
<1>1. /\ run \in [Runs -> RunLocals] /\ context \in [Agents -> Seq(Messages)]
      /\ \A r \in Runs : /\ run[r] \in RunLocals /\ run[r].agent \in Agents
                         /\ run[r].calls \in Seq(CallIds)
  BY DEF TypeInv, TypeOK, LoopTyped, LoopTypeOK, RunLocals
<1>2. \A r, s \in Runs : Active(r) /\ Active(s) => r = s
  BY DEF IInv, ControllerInv
<1>3. CASE context' = context /\ \A r \in Runs : /\ run'[r].phase = run[r].phase
                                                /\ run'[r].agent = run[r].agent
                                                /\ run'[r].calls = run[r].calls
                                                /\ run'[r].done = run[r].done
  <2>1. \A r \in Runs : /\ Active(r)' <=> Active(r)
                        /\ Answered(r)' = Answered(r)
    BY <1>3 DEF Active, Answered, At
  <2>2. \A r \in Runs : Owes(r) /\ Placed(r) => Owes(r)' /\ Placed(r)'
    BY <1>3, <2>1 DEF Owes, Placed
  <2> QED
    BY <1>3, <2>1, <2>2 DEF ContextInv
<1>4. CASE Chat
  <2>1. PICK r \in Runs, a \in Agents : controller = None /\ Start(r, a)
    <3>1. accepted + 1 \in Runs
      BY <1>4 DEF Chat
    <3>2. (IF agent = None THEN made + 1 ELSE agent) \in Agents
      BY DEF TypeInv, TypeOK, LoopTyped, AgentToMake
    <3> QED
      BY <1>4, <3>1, <3>2 DEF Chat
  <2>2. /\ context' = context /\ run[r] \in RunLocals
        /\ run' = [run EXCEPT ![r] = [run[r] EXCEPT !.phase = "starting", !.agent = a]]
    BY <1>1, <2>1 DEF Start
  <2>3. /\ run'[r].phase = "starting" /\ run'[r].agent = a /\ run'[r].calls = run[r].calls
        /\ \A s \in Runs \ {r} : run'[s] = run[s]
    BY <1>1, <2>2 DEF RunLocals
  <2>4. \A s \in Runs : ~Active(s)
    BY <2>1, DesktopAssumption DEF IInv, ControllerInv, None
  <2>5. \A b \in Agents : Paired(context[b])
    BY <2>4 DEF ContextInv
  <2>6. \A s \in Runs \ {r} : ~Active(s)'
    BY <2>3, <2>4 DEF Active
  <2>7. Answered(r)' = Len(run'[r].calls)
    BY <2>3 DEF Answered, At
  <2>8. Owes(r)' /\ Placed(r)'
    BY <1>1, <2>2, <2>3, <2>5, <2>7, AllAnswered DEF Owes, Placed, Paired
  <2> QED
    BY <2>2, <2>5, <2>6, <2>8 DEF ContextInv
<1>5. ASSUME NEW r \in Runs, LoopSteps(r)
      PROVE  ContextInv'
  <2>1. LoopStep(r)
    BY <1>5 DEF LoopSteps, TypeInv
  <2>2. PICK a \in Agents : a = run[r].agent
    BY <1>1
  <2>3. /\ Active(r) /\ Active(r)' /\ run'[r].agent = a
        /\ \A s \in Runs \ {r} : run'[s] = run[s]
        /\ \A b \in Agents \ {a} : context'[b] = context[b]
    BY <2>1, <2>2, LoopStepLocal DEF TypeInv
  <2>4. Owes(r)' /\ Placed(r)'
    BY <2>1, <2>3, LoopStepOwes, LoopStepPlaced DEF ContextInv, TypeInv
  <2>5. \A s \in Runs \ {r} : ~Active(s) /\ ~Active(s)'
    BY <1>2, <2>3 DEF Active
  <2>6. \A b \in Agents \ {a} : Paired(context[b])
    BY <2>2, <2>5 DEF ContextInv
  <2>7. \A b \in Agents : (\A s \in Runs : Active(s)' => run'[s].agent # b)
                          => Paired(context'[b])
    BY <2>3, <2>6
  <2> QED
    BY <2>4, <2>5, <2>7 DEF ContextInv
<1>6. ASSUME NEW r \in Runs, RunEnds(r)
      PROVE  ContextInv'
  <2>1. /\ At(r, "finishing") /\ context' = context /\ Active(r)
        /\ run'[r].phase = "ended" /\ \A s \in Runs \ {r} : run'[s] = run[s]
    BY <1>1, <1>6 DEF RunEnds, Finish, At, Active, RunLocals
  <2>2. \A s \in Runs : ~Active(s)'
    BY <1>2, <2>1 DEF Active
  <2>3. Paired(context[run[r].agent])
    BY <1>1, <2>1, AllAnswered DEF ContextInv, Owes, Placed, Paired, Answered, At
  <2>4. \A b \in Agents : Paired(context[b])
    BY <1>2, <2>1, <2>3 DEF ContextInv
  <2> QED
    BY <2>1, <2>2, <2>4 DEF ContextInv
<1>7. CASE \/ Submit \/ ChatRefused \/ ChatThrows \/ SetCwd \/ RemoveApiKey \/ SetProvider
           \/ UNCHANGED vars
  BY <1>3, <1>7
  DEF Submit, ChatRefused, ChatThrows, SetCwd, RemoveApiKey, SetProvider, vars, loopVars
<1>8. CASE Stop \/ SetApiKey
  <2>1. context' = context /\ (run' = run \/ run' = [run EXCEPT ![controller].aborted = TRUE])
    BY <1>8 DEF Stop, SetApiKey
  <2>2. \A r \in Runs : /\ run'[r].phase = run[r].phase /\ run'[r].agent = run[r].agent
                        /\ run'[r].calls = run[r].calls /\ run'[r].done = run[r].done
    <3>1. \A r \in Runs : run'[r] \in {run[r], [run[r] EXCEPT !.aborted = TRUE]}
      BY <1>1, <2>1
    <3> QED
      BY <1>1, <3>1 DEF RunLocals
  <2> QED
    BY <1>3, <2>1, <2>2
<1> QED
  BY <1>4, <1>5, <1>6, <1>7, <1>8 DEF Next

\* Unless a key is stored during a run, every request has each tool call with its
\* result and each result with its call, but for results at its head, whatever
\* was stopped, failed or cut.
THEOREM RequestsAreComplete ==
  ASSUME KeyChangesDuringRun = FALSE
  PROVE  Spec => []RequestsArePaired
<1>1. TypeInv /\ ContextInv => RequestsArePaired
  <2> SUFFICES ASSUME TypeInv, ContextInv, NEW r \in Runs, At(r, "streaming")
               PROVE  Paired(context[run[r].agent])
    BY DEF RequestsArePaired
  <2>1. context[run[r].agent] \in Seq(Messages) /\ run[r].calls \in Seq(CallIds)
    BY DEF TypeInv, TypeOK, LoopTyped, LoopTypeOK, RunLocals
  <2>2. Active(r) /\ Answered(r) = Len(run[r].calls)
    BY DEF Active, At, Answered
  <2> QED
    BY <2>1, <2>2, AllAnswered DEF ContextInv, Owes, Placed, Paired
<1> QED
  BY <1>1, TypeInit, TypeStep, ControllerInit, ControllerStep, ContextInit, ContextStep, PTL
  DEF Spec

-----------------------------------------------------------------------------
\* A run that is active has less to do after each of its steps, and after no
\* other step more.
RunCountsDown(r) ==
  LET now == LeftToDo(run[r], Iteration(r))
      next == LeftToDo(run'[r], loopState'[run'[r].agent].iteration)
  IN /\ now \in Nat \X Nat \X Nat
     /\ Fewer(next, now) \/ next = now
     /\ LoopSteps(r) \/ RunEnds(r) => Fewer(next, now)

RunsCountDown == \A r \in Runs : Active(r) => RunCountsDown(r)

LEMMA EndingCountsDown ==
  ASSUME TypeInv, NEW r \in Runs, RunEnds(r)
  PROVE  Fewer(LeftToDo(run'[r], loopState'[run'[r].agent].iteration),
               LeftToDo(run[r], Iteration(r)))
<1>1. run[r].phase = "finishing" /\ run'[r].phase = "ended"
  BY DEF RunEnds, Finish, At, TypeInv, LoopTyped, LoopTypeOK
<1> QED
  BY <1>1 DEF Fewer, LeftToDo, RoundsLeft, StagesLeft

\* Stopping a run, and whatever the service does besides, leaves it as much to do.
LEMMA AsMuchToDo ==
  ASSUME TypeInv, NEW r \in Runs, Active(r),
         run'[r] \in {run[r], [run[r] EXCEPT !.aborted = TRUE]}, loopState' = loopState
  PROVE  LeftToDo(run'[r], loopState'[run'[r].agent].iteration)
           = LeftToDo(run[r], Iteration(r))
<1>1. run[r] \in RunLocals
  BY DEF TypeInv, LoopTyped, LoopTypeOK
<1>2. /\ run'[r].phase = run[r].phase
      /\ run'[r].agent = run[r].agent
      /\ run'[r].attempt = run[r].attempt
      /\ run'[r].text = run[r].text
      /\ run'[r].calls = run[r].calls
      /\ run'[r].done = run[r].done
  BY <1>1 DEF RunLocals
<1>3. loopState'[run'[r].agent].iteration = Iteration(r)
  BY <1>2 DEF Iteration
<1> QED
  BY <1>2, <1>3, Zenon DEF LeftToDo, RoundsLeft, StagesLeft, TurnsLeft

\* Unless a key is stored during a run, every run comes to its end as long as
\* the provider and the tools come to theirs: no stop, refused message, retry or
\* new folder gives it more to do, for any bounds on iterations, attempts and
\* calls (loop.ts:198-310).
THEOREM RunsComeToAnEnd ==
  ASSUME KeyChangesDuringRun = FALSE
  PROVE  Spec => [][RunsCountDown]_vars
<1>1. TypeInv /\ IInv /\ [Next]_vars => [RunsCountDown]_vars
  <2> SUFFICES ASSUME TypeInv, IInv, Next, NEW r \in Runs, Active(r)
               PROVE  RunCountsDown(r)
    BY DEF RunsCountDown
  <2> DEFINE now == LeftToDo(run[r], Iteration(r))
             next == LeftToDo(run'[r], loopState'[run'[r].agent].iteration)
  <2>1. now \in Nat \X Nat \X Nat
    <3>1. /\ run[r] \in RunLocals
          /\ CallsKnown(run[r])
          /\ Iteration(r) \in 0 .. MaxIterations
      BY DEF TypeInv, LoopTyped, LoopTypeOK, CallsInProgress, RunLocals, Iteration
    <3> QED
      BY <3>1, LeftToDoTyped
  <2>2. \A s \in Runs : Active(s) => s = r
    BY DEF IInv, ControllerInv
  <2>3. run \in [Runs -> RunLocals] /\ LoopTyped
    BY DEF TypeInv, LoopTyped, LoopTypeOK
  <2>4. ASSUME LoopSteps(r) \/ RunEnds(r) PROVE Fewer(next, now)
    BY <2>3, <2>4, LoopCountsDown, EndingCountsDown DEF LoopSteps
  <2>5. CASE \/ Submit \/ ChatRefused \/ Chat \/ ChatThrows \/ Stop
             \/ SetCwd \/ SetApiKey \/ RemoveApiKey \/ SetProvider
    <3>1. loopState' = loopState
      BY <2>5 DEF Submit, ChatRefused, Chat, ChatThrows, Start, Stop, SetCwd, SetApiKey,
                  RemoveApiKey, SetProvider, loopVars
    <3>2. run'[r] \in {run[r], [run[r] EXCEPT !.aborted = TRUE]}
      <4>1. CASE Submit \/ ChatRefused \/ ChatThrows \/ SetCwd \/ RemoveApiKey \/ SetProvider
        BY <4>1 DEF Submit, ChatRefused, ChatThrows, SetCwd, RemoveApiKey, SetProvider, loopVars
      <4>2. ASSUME NEW s \in Runs, run' = [run EXCEPT ![s].aborted = TRUE]
            PROVE  run'[r] \in {run[r], [run[r] EXCEPT !.aborted = TRUE]}
        BY <2>3, <4>2
      <4>3. CASE Stop \/ SetApiKey
        BY <4>2, <4>3 DEF Stop, SetApiKey, TypeInv, TypeOK
      <4>4. CASE Chat
        <5>1. controller = r
          BY DEF IInv, ControllerInv
        <5>2. r # None
          BY DesktopAssumption DEF None
        <5> QED
          BY <4>4, <5>1, <5>2 DEF Chat
      <4> QED
        BY <2>5, <4>1, <4>3, <4>4
    <3>3. next = now
      BY <3>1, <3>2, AsMuchToDo
    <3> QED
      BY <2>1, <2>4, <3>3 DEF RunCountsDown
  <2>6. ASSUME NEW s \in Runs, LoopSteps(s) \/ RunEnds(s) PROVE s = r
    <3>1. run[s].phase \notin {"new", "ended"}
      BY <2>6, LoopStepLocal, <2>3 DEF LoopSteps, RunEnds, Finish, At, Active
    <3> QED
      BY <2>2, <3>1 DEF Active
  <2>7. CASE LoopSteps(r) \/ RunEnds(r)
    BY <2>1, <2>4, <2>7 DEF RunCountsDown
  <2> QED
    BY <2>5, <2>6, <2>7 DEF Next
<1> QED
  BY <1>1, ControllerAlways, PTL DEF Spec
=============================================================================
