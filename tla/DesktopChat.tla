---------------------------- MODULE DesktopChat ----------------------------
(***************************************************************************)
(* The desktop's AgentService (apps/desktop/src/main/services/agent.ts)    *)
(* around the agent loop, with the IPC handlers that drive it and the      *)
(* status the renderer keeps.                                              *)
(*                                                                         *)
(* The renderer's "error" status counts as idle: the input is open, and the *)
(* run that reports an error ends at once.                                 *)
(*                                                                         *)
(* The service has at most one agent and one abort controller; the         *)
(* controller is also its only record that a run is on.  A change of the   *)
(* API key disposes of both at once, whatever the run is doing; a change   *)
(* of the folder drops the agent alone.                                    *)
(*                                                                         *)
(* An agent cannot be made while the router's primary provider is not      *)
(* registered, as after an installation or when its key was removed: chat() *)
(* then throws with its controller set.  An agent that is there keeps      *)
(* trying and its requests fail; that they must is left out.               *)
(*                                                                         *)
(* Agents are made, and messages submitted, in order, so both are numbers. *)
(* A controller is named by the run it was made for.                       *)
(***************************************************************************)
EXTENDS AgentLoop

CONSTANT KeyChangesDuringRun   \* may the user store an API key during a run?

ASSUME DesktopAssumption ==
  /\ KeyChangesDuringRun \in BOOLEAN
  /\ Agents \subseteq Nat \ {0} /\ \A a \in Agents : 1 .. a \subseteq Agents
  /\ Runs \subseteq Nat \ {0} /\ \A r \in Runs : 1 .. r \subseteq Runs

None == 0

VARIABLES agent,        \* this.agent: the current agent or None
          made,         \* how many agents were made
          controller,   \* this.abortController: its run, or None
          ui,           \* the status of the conversation store
          submitted,    \* is a chat invocation on its way to the service?
          accepted,     \* how many messages the service has made a controller for
          registered    \* is the primary provider registered in the router?

serviceVars == <<agent, made, controller, ui, submitted, accepted, registered>>
vars == <<loopVars, serviceVars>>

TypeOK ==
  /\ LoopTypeOK
  /\ agent \in Agents \cup {None} /\ made \in Agents \cup {0}
  /\ controller \in Runs \cup {None} /\ accepted \in Runs \cup {0}
  /\ ui \in {"idle", "busy"} /\ submitted \in BOOLEAN /\ registered \in BOOLEAN

Init ==
  /\ LoopInit
  /\ agent = None /\ made = 0 /\ controller = None
  /\ ui = "idle" /\ submitted = FALSE /\ accepted = 0
  /\ registered \in BOOLEAN

\* The user sends a message.  The input is closed while the status is busy, but
\* a dropped file is sent whatever the status is.
Submit ==
  /\ ~submitted /\ accepted + 1 \in Runs                   \* bounds
  /\ ui' = "busy" /\ submitted' = TRUE
  /\ UNCHANGED <<loopVars, agent, made, controller, accepted, registered>>

\* chat() while there is a controller: success is false, and nobody looks at it.
ChatRefused ==
  /\ submitted /\ controller # None
  /\ submitted' = FALSE
  /\ UNCHANGED <<loopVars, agent, made, controller, ui, accepted, registered>>

\* chat(): a new controller, an agent if there is none, and the run starts.
Chat ==
  LET r == accepted + 1
      a == IF agent = None THEN made + 1 ELSE agent
  IN /\ submitted /\ controller = None /\ r \in Runs
     /\ agent # None \/ registered
     /\ submitted' = FALSE /\ accepted' = r
     /\ controller' = r
     /\ agent' = a /\ made' = IF agent = None THEN made + 1 ELSE made
     /\ ui' = "busy"
     /\ Start(r, a)
     /\ UNCHANGED registered

\* chat() when no agent can be made: createAgent() throws behind the new
\* controller, and the renderer, which logs the error, stays busy.
ChatThrows ==
  LET r == accepted + 1
  IN /\ submitted /\ controller = None /\ r \in Runs
     /\ agent = None /\ ~registered
     /\ submitted' = FALSE /\ accepted' = r
     /\ controller' = r
     /\ UNCHANGED <<loopVars, agent, made, ui, registered>>

Stop ==
  /\ controller # None
  /\ run' = [run EXCEPT ![controller].aborted = TRUE]
  /\ ui' = "idle"
  /\ UNCHANGED <<context, loopState, agent, made, controller, submitted, accepted, registered>>

\* Mistake: a new folder frees the service as a new key does.
SetCwdAndRelease ==
  /\ agent # None /\ made + 1 \in Agents
  /\ agent' = None /\ controller' = None
  /\ UNCHANGED <<loopVars, made, ui, submitted, accepted, registered>>

\* setCwd(): the run that is on goes on with the agent it has.
SetCwd ==
  /\ agent # None /\ made + 1 \in Agents                   \* bound
  /\ agent' = None
  /\ UNCHANGED <<loopVars, made, controller, ui, submitted, accepted, registered>>

\* The handler that stores an API key: its provider is registered, if it can be
\* made, and becomes the primary one; dispose() follows in any case.
SetApiKey ==
  /\ agent # None => made + 1 \in Agents                   \* bound
  /\ KeyChangesDuringRun \/ \A r \in Runs : ~Active(r)
  /\ run' = IF controller # None THEN [run EXCEPT ![controller].aborted = TRUE] ELSE run
  /\ controller' = None /\ agent' = None
  /\ registered' \in BOOLEAN
  /\ UNCHANGED <<context, loopState, made, ui, submitted, accepted>>

\* The key of the primary provider is removed; nothing is disposed of.
RemoveApiKey ==
  /\ registered' = FALSE
  /\ UNCHANGED <<loopVars, agent, made, controller, ui, submitted, accepted>>

\* ConfigService.set(): only a provider that is registered becomes primary.
SetProvider ==
  /\ registered' = TRUE
  /\ UNCHANGED <<loopVars, agent, made, controller, ui, submitted, accepted>>

\* Mistake: the renderer learns of the end by 'done' alone, which a run that is
\* stopped while an answer is streamed does not emit.
RunEndsSilently(r) ==
  /\ Finish(r)
  /\ controller' = None
  /\ ui' = IF run[r].aborted THEN ui ELSE "idle"
  /\ UNCHANGED <<agent, made, submitted, accepted, registered>>

\* The generator is exhausted: the finally block of consumeEvents().
RunEnds(r) ==
  /\ Finish(r)
  /\ controller' = None
  /\ ui' = "idle"
  /\ UNCHANGED <<agent, made, submitted, accepted, registered>>

LoopSteps(r) == LoopStep(r) /\ UNCHANGED serviceVars

Next ==
  \/ Submit \/ ChatRefused \/ Chat \/ ChatThrows \/ Stop
  \/ SetCwd \/ SetApiKey \/ RemoveApiKey \/ SetProvider
  \/ \E r \in Runs : LoopSteps(r) \/ RunEnds(r)

Spec == Init /\ [][Next]_vars

\* The provider ends or fails each answer and each tool returns; what
\* the loop and the service await otherwise is settled by themselves.  The user owes nothing.
FairSpec ==
  /\ Spec
  /\ WF_vars(Chat) /\ WF_vars(ChatThrows) /\ WF_vars(ChatRefused)
  /\ \A r \in Runs : WF_vars(LoopSteps(r)) /\ WF_vars(RunEnds(r))

-----------------------------------------------------------------------------
(* Properties.                                                             *)

\* getStatus().
Status == IF agent # None /\ loopState[agent].isRunning THEN "busy" ELSE "idle"

\* There is never more than one run, and stop() can reach it: the controller
\* of the service is always that of the run (agent.ts, chat and stop).
OneRunAtATime == \A r \in Runs : Active(r) => controller = r

\* In what is sent to the provider every call of an assistant message has its
\* result behind it, in order, and every result its call, also after aborts,
\* failed requests and compactions.  A compaction may leave results without
\* their call at the head, which the property allows although a provider may
\* not (loop.ts:254-302, context/manager.ts:144-190).
RequestsArePaired ==
  \A r \in Runs : At(r, "streaming") => Paired(context[run[r].agent])

\* A context never outgrows what compaction promises, not even while the
\* results of several calls are added (context/manager.ts:96-98).
ContextIsBounded ==
  \A a \in Agents : Len(context[a]) <= IF KeepRecent > Threshold THEN KeepRecent ELSE Threshold

\* The last message that got a controller never got its run: no agent could be
\* made for it.
NeverRan == accepted # 0 /\ At(accepted, "new")

\* Neither the renderer nor getStatus() reports work when there is none: the
\* renderer is not left busy by a stop, a refused message or the error of a
\* run.  It is left so by a message for which no agent could be made, and that
\* is the one exception (agent.ts:56-83, 88-95, 100-114, 146-156).
BusyMeansWork ==
  /\ ui = "busy" => submitted \/ NeverRan \/ \E r \in Runs : Active(r)
  /\ Status = "busy" => \E r \in Runs : Active(r) /\ run[r].agent = agent

\* After stop() the run starts no further iteration (loop.ts:199).
StoppedRunIterates(r) ==
  run[r].aborted /\ Active(r) /\ loopState'[run[r].agent].iteration > Iteration(r)
StopEndsIterating == [][\A r \in Runs : ~StoppedRunIterates(r)]_vars

\* Every run that is started comes to its end, after which the service takes
\* messages again: iterations and retries are bounded.
EveryRunEnds == \A r \in Runs : Active(r) ~> (run[r].phase = "ended")

\* agent.ts: "Stops the current agent operation."  Whenever the current agent
\* is at work and was not stopped yet, stop() must have its controller.
StopReachesTheRun ==
  \A r \in Runs : Active(r) /\ run[r].agent = agent /\ ~run[r].aborted => controller = r
=============================================================================
