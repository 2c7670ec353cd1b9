-------------------------- MODULE PermissionGateway ---------------------------
(***************************************************************************)
(* One room's permission stack, as RoomRegistry wires it: the intent       *)
(* engine, the mode manager, the approval manager with its timers, the     *)
(* gateway that keeps the three in agreement, and the bus adapter that     *)
(* mirrors the engine's events to the room's observers.                    *)
(*                                                                         *)
(* Every listener runs synchronously inside the call that emits, so one    *)
(* action is one top-level call with the whole cascade it sets off.  The   *)
(* interleavings are those of REST requests, agents, mode switches and the *)
(* timers of the approval manager.                                         *)
(***************************************************************************)
EXTENDS PermissionPolicy, Sequences, FiniteSets

CONSTANTS
  Intents,      \* intent ids the engine can hand out
  Requests,     \* approval request ids the manager can hand out
  Approvers,    \* identities a request may be approved with
  Proposals,    \* the kinds of intent that agents propose
  InitialMode,  \* room.config.defaultMode
  None          \* an absent map entry

ASSUME GatewayAssumption ==
  /\ InitialMode \in PermissionMode
  /\ Proposals \subseteq IntentData
  /\ None \notin Intents \cup Requests \cup IntentData \cup PermissionMode

VARIABLES
  alive,        \* the room is registered
  mode,         \* ModeState.current
  previous,     \* ModeState.previous
  status,       \* intent -> status ("none": not proposed; "purged", "cleared": forgotten)
  data,         \* intent -> what was proposed
  resolver,     \* intent -> who resolved it (resolvedBy), or invalidated it, which the
                \*   engine stamps nobody for
  reqStatus,    \* request -> approval status ("none": not opened)
  reqIntent,    \* request -> intentId
  approvals,    \* request -> who approved
  required,     \* request -> requiredCounts
  timer,        \* request -> timerMode
  openedIn,     \* request -> the mode whose policy opened it (history)
  r2i,          \* gateway.requestToIntent
  i2r,          \* gateway.intentToRequest
  published     \* intent -> statuses published on the bus, in order

engineVars  == <<status, data, resolver, published>>
modeVars    == <<mode, previous>>
requestData == <<reqIntent, approvals, required, openedIn>>
managerVars == <<reqStatus, timer, requestData>>
gatewayVars == <<r2i, i2r>>
vars == <<alive, modeVars, engineVars, managerVars, gatewayVars>>

Lifecycle == INSTANCE IntentLifecycle

IntentStatus  == Lifecycle!Present \cup {"none", "purged", "cleared"}
RequestStatus == {"none", "waiting", "approved", "rejected", "expired", "auto_approved"}
Resolver      == {"nobody", "gateway", "approval", "policy", "caller"}

TypeOK ==
  /\ alive \in BOOLEAN
  /\ mode \in PermissionMode
  /\ previous \in PermissionMode \cup {None}
  /\ status \in [Intents -> IntentStatus]
  /\ data \in [Intents -> IntentData \cup {None}]
  /\ resolver \in [Intents -> Resolver]
  /\ reqStatus \in [Requests -> RequestStatus]
  /\ reqIntent \in [Requests -> Intents \cup {None}]
  /\ approvals \in [Requests -> SUBSET Approvers]
  /\ required \in [Requests -> Nat]
  /\ timer \in [Requests -> {"none", "countdown", "timeout"}]
  /\ openedIn \in [Requests -> PermissionMode]
  /\ r2i \in [Requests -> Intents \cup {None}]
  /\ i2r \in [Intents -> Requests \cup {None}]
  /\ published \in [Intents -> Seq(IntentStatus)]

Init ==
  /\ alive = TRUE
  /\ mode = InitialMode
  /\ previous = None
  /\ status = [i \in Intents |-> "none"]
  /\ data = [i \in Intents |-> None]
  /\ resolver = [i \in Intents |-> "nobody"]
  /\ reqStatus = [r \in Requests |-> "none"]
  /\ reqIntent = [r \in Requests |-> None]
  /\ approvals = [r \in Requests |-> {}]
  /\ required = [r \in Requests |-> 0]
  /\ timer = [r \in Requests |-> "none"]
  /\ openedIn = [r \in Requests |-> InitialMode]
  /\ r2i = [r \in Requests |-> None]
  /\ i2r = [i \in Intents |-> None]
  /\ published = [i \in Intents |-> <<>>]

-------------------------------------------------------------------------------
(* Building blocks *)

\* The engine moves the intents of S to s and emits; the adapter publishes.
EngineMoves(S, s, by) ==
  /\ status' = [i \in Intents |-> IF i \in S THEN s ELSE status[i]]
  /\ resolver' = [i \in Intents |-> IF i \in S THEN by ELSE resolver[i]]
  /\ published' = [i \in Intents |->
                     IF i \in S THEN Append(published[i], s) ELSE published[i]]
  /\ UNCHANGED data

\* ApprovalManager.finalize on the requests of R.
Finalize(R, s) ==
  /\ reqStatus' = [r \in Requests |-> IF r \in R THEN s ELSE reqStatus[r]]
  /\ timer' = [r \in Requests |-> IF r \in R THEN "none" ELSE timer[r]]

\* PermissionGateway.forgetPair for every pair that holds a request of R.
ForgetPairs(R) ==
  /\ r2i' = [r \in Requests |-> IF r \in R THEN None ELSE r2i[r]]
  /\ i2r' = [i \in Intents |-> IF i2r[i] \in R THEN None ELSE i2r[i]]

Tracked    == { r \in Requests : r2i[r] # None }
Waiting(i) == { r \in Requests : reqStatus[r] = "waiting" /\ reqIntent[r] = i }

-------------------------------------------------------------------------------
(* Proposals *)

\* What the gateway's 'proposed' listener leaves of the intent ...
AfterGateway(d) ==
  IF d.kind = "auto_approve" THEN "approved"
  ELSE IF d.kind = "auto_reject" THEN "rejected" ELSE "pending"

\* ... and what the engine's own policy then makes of it.  When the gateway
\* has already resolved the intent the policy's approve() throws out of
\* propose(), and the intent keeps the gateway's verdict.
PolicyApproves(d, k) == AfterGateway(d) = "pending" /\ ShouldAutoApprove(k)

StatusAfter(d, k) == IF PolicyApproves(d, k) THEN "approved" ELSE AfterGateway(d)

ResolverAfter(d, k) ==
  IF PolicyApproves(d, k) THEN "policy"
  ELSE IF AfterGateway(d) = "pending" THEN "nobody" ELSE "gateway"

\* Mistake: the verdict is announced before the proposal.
RecordProposalLate(i, k, d) ==
  /\ status[i] = "none"
  /\ status' = [status EXCEPT ![i] = StatusAfter(d, k)]
  /\ data' = [data EXCEPT ![i] = k]
  /\ resolver' = [resolver EXCEPT ![i] = ResolverAfter(d, k)]
  /\ published' = [published EXCEPT ![i] =
       IF StatusAfter(d, k) = "pending" THEN <<"pending">>
       ELSE <<StatusAfter(d, k), "pending">>]

RecordProposal(i, k, d) ==
  /\ status[i] = "none"
  /\ status' = [status EXCEPT ![i] = StatusAfter(d, k)]
  /\ data' = [data EXCEPT ![i] = k]
  /\ resolver' = [resolver EXCEPT ![i] = ResolverAfter(d, k)]
  /\ published' = [published EXCEPT ![i] =
       IF StatusAfter(d, k) = "pending" THEN <<"pending">>
       ELSE <<"pending", StatusAfter(d, k)>>]

\* auto_approve, auto_reject and hold_pending open no request.
ProposeWithoutRequest(i, k) ==
  LET d == Decide(mode, k) IN
  /\ alive
  /\ d.kind # "require_approval"
  /\ RecordProposal(i, k, d)
  /\ UNCHANGED <<alive, modeVars, managerVars, gatewayVars>>

\* The request opened for an intent that the engine's policy approves right
\* after is cancelled by the gateway's 'approved' listener in the same call.
OpenRequest(r, i, k, d) ==
  LET kept == ~ PolicyApproves(d, k) IN
  /\ reqStatus[r] = "none"
  /\ reqStatus' = [reqStatus EXCEPT ![r] = IF kept THEN "waiting" ELSE "rejected"]
  /\ reqIntent' = [reqIntent EXCEPT ![r] = i]
  /\ approvals' = [approvals EXCEPT ![r] = {}]
  /\ required' = [required EXCEPT ![r] = d.required]
  /\ timer' = [timer EXCEPT ![r] =
       IF ~ kept THEN "none"
       ELSE IF d.countdown > 0 THEN "countdown"
       ELSE IF d.timeout > 0 THEN "timeout" ELSE "none"]
  /\ openedIn' = [openedIn EXCEPT ![r] = mode]
  /\ r2i' = [r2i EXCEPT ![r] = IF kept THEN i ELSE None]
  /\ i2r' = [i2r EXCEPT ![i] = IF kept THEN r ELSE None]

ProposeWithRequest(i, k) ==
  LET d == Decide(mode, k) IN
  /\ alive
  /\ d.kind = "require_approval"
  /\ RecordProposal(i, k, d)
  /\ \E r \in Requests : OpenRequest(r, i, k, d)
  /\ UNCHANGED <<alive, modeVars>>

-------------------------------------------------------------------------------
(* The approval manager's side: people and timers *)

\* Mistake: the pair is forgotten and the intent left as it is.
SettleQuietly(r, s, intentStatus) ==
  /\ Finalize({r}, s)
  /\ ForgetPairs({r})
  /\ UNCHANGED <<alive, modeVars, engineVars, reqIntent, required, openedIn>>

\* A request reaches a verdict; the gateway's listener forgets the pair and
\* moves the intent along if it is still pending.
Settle(r, s, intentStatus) ==
  /\ Finalize({r}, s)
  /\ ForgetPairs({r})
  /\ EngineMoves({ i \in Intents : r2i[r] = i /\ status[i] = "pending" },
                 intentStatus, "approval")
  /\ UNCHANGED <<alive, modeVars, reqIntent, required, openedIn>>

RecordApproval(r, u) ==
  /\ alive
  /\ r \in Waiting(reqIntent[r])
  /\ approvals' = [approvals EXCEPT ![r] = @ \cup {u}]

\* POST .../approve, below the threshold and reaching it.
ApproveShort(r, u) ==
  /\ RecordApproval(r, u)
  /\ Cardinality(approvals[r] \cup {u}) < required[r]
  /\ UNCHANGED <<alive, modeVars, engineVars, gatewayVars, reqStatus, timer,
                 reqIntent, required, openedIn>>

\* Mistake: one approval short of the threshold is enough.
ApproveFinalEarly(r, u) ==
  /\ RecordApproval(r, u)
  /\ Cardinality(approvals[r] \cup {u}) + 1 >= required[r]
  /\ Settle(r, "approved", "approved")

ApproveFinal(r, u) ==
  /\ RecordApproval(r, u)
  /\ Cardinality(approvals[r] \cup {u}) >= required[r]
  /\ Settle(r, "approved", "approved")

\* POST .../reject, or cancel() by a caller of the manager.
Reject(r) ==
  /\ alive
  /\ reqStatus[r] = "waiting"
  /\ Settle(r, "rejected", "rejected")
  /\ UNCHANGED approvals

CountdownFires(r) ==
  /\ alive
  /\ timer[r] = "countdown"
  /\ Settle(r, "auto_approved", "approved")
  /\ UNCHANGED approvals

\* Mistake: the timeout disarms itself and settles nothing.
TimeoutOnlyDisarms(r) ==
  /\ alive
  /\ timer[r] = "timeout"
  /\ timer' = [timer EXCEPT ![r] = "none"]
  /\ UNCHANGED <<alive, modeVars, engineVars, gatewayVars, reqStatus, requestData>>

TimeoutFires(r) ==
  /\ alive
  /\ timer[r] = "timeout"
  /\ Settle(r, "expired", "rejected")
  /\ UNCHANGED approvals

-------------------------------------------------------------------------------
(* The engine's side: coordinators that resolve, run and forget intents *)

\* Mistake: the gateway does not hear of the resolution.
EngineResolvesAlone(i, s) ==
  /\ alive
  /\ \/ s \in {"approved", "rejected"} /\ status[i] = "pending"
     \/ s = "invalidated" /\ status[i] \in {"pending", "approved", "executing"}
  /\ EngineMoves({i}, s, "caller")
  /\ UNCHANGED <<alive, modeVars, managerVars, gatewayVars>>

\* Mistake: the transition's source status is not checked.
EngineResolvesAnytime(i, s) ==
  /\ alive
  /\ status[i] \in Lifecycle!Present
  /\ EngineMoves({i}, s, "caller")
  /\ UNCHANGED <<alive, modeVars, managerVars, gatewayVars>>

\* engine.approve / reject / invalidate past the approval manager: the
\* gateway's listener drops the intent's request.
EngineResolves(i, s) ==
  /\ alive
  /\ \/ s \in {"approved", "rejected"} /\ status[i] = "pending"
     \/ s = "invalidated" /\ status[i] \in {"pending", "approved", "executing"}
  /\ EngineMoves({i}, s, "caller")
  /\ LET dropped == { r \in Requests : i2r[i] = r } IN
       /\ Finalize({ r \in dropped : reqStatus[r] = "waiting" }, "rejected")
       /\ ForgetPairs(dropped)
  /\ UNCHANGED <<alive, modeVars, requestData>>

\* startExecution, complete and fail stamp no resolver.
Executes(i) ==
  \E step \in {<<"approved", "executing">>, <<"executing", "completed">>,
               <<"executing", "failed">>} :
    /\ alive
    /\ status[i] = step[1]
    /\ EngineMoves({i}, step[2], resolver[i])
    /\ UNCHANGED <<alive, modeVars, managerVars, gatewayVars>>

\* purgeOld: ages are not modelled, so any terminal intents may be old enough.
Purge ==
  /\ alive
  /\ \E S \in SUBSET { i \in Intents : status[i] \in Lifecycle!Terminal } :
       /\ S # {}
       /\ status' = [i \in Intents |-> IF i \in S THEN "purged" ELSE status[i]]
  /\ UNCHANGED <<alive, modeVars, managerVars, gatewayVars, data, resolver, published>>

\* clear() forgets every intent and emits nothing.
ClearEngine ==
  /\ alive
  /\ \E i \in Intents : status[i] \in Lifecycle!Present
  /\ status' = [i \in Intents |->
                  IF status[i] \in Lifecycle!Present THEN "cleared" ELSE status[i]]
  /\ UNCHANGED <<alive, modeVars, managerVars, gatewayVars, data, resolver, published>>

-------------------------------------------------------------------------------
(* The mode manager's side, and the end of the room *)

\* Mistake: what waits under the old mode keeps waiting.
ChangeModeOnly(next) ==
  /\ alive
  /\ next # mode
  /\ mode' = next
  /\ previous' = mode
  /\ UNCHANGED <<alive, engineVars, managerVars, gatewayVars>>

\* setMode(next): every tracked request is cancelled and its intent
\* invalidated, whatever that intent's non-terminal status.
ChangeMode(next) ==
  /\ alive
  /\ next # mode
  /\ mode' = next
  /\ previous' = mode
  /\ Finalize({ r \in Tracked : reqStatus[r] = "waiting" }, "rejected")
  /\ r2i' = [r \in Requests |-> None]
  /\ i2r' = [i \in Intents |-> None]
  /\ EngineMoves({ i \in Intents : /\ status[i] \in {"pending", "approved", "executing"}
                                   /\ \E r \in Tracked : r2i[r] = i },
                 "invalidated", "gateway")
  /\ UNCHANGED <<alive, requestData>>

\* Mistake: undo() without a previous mode.
UndoUnguarded == ChangeMode(previous)

Undo == previous # None /\ ChangeMode(previous)

\* RoomRegistry.destroy: detach, then ApprovalManager.destroy clears every
\* request and timer.  Nothing can reach the room afterwards.
Destroy ==
  /\ alive
  /\ alive' = FALSE
  /\ reqStatus' = [r \in Requests |-> "none"]
  /\ timer' = [r \in Requests |-> "none"]
  /\ UNCHANGED <<modeVars, engineVars, gatewayVars, requestData>>

-------------------------------------------------------------------------------

Propose == \E i \in Intents, k \in Proposals :
             ProposeWithoutRequest(i, k) \/ ProposeWithRequest(i, k)

People == \E r \in Requests :
            \/ \E u \in Approvers : ApproveShort(r, u) \/ ApproveFinal(r, u)
            \/ Reject(r)

Timers == \E r \in Requests : CountdownFires(r) \/ TimeoutFires(r)

Engine == \/ \E i \in Intents :
               \/ \E s \in {"approved", "rejected", "invalidated"} : EngineResolves(i, s)
               \/ Executes(i)
          \/ Purge
          \/ ClearEngine

ModeSwitch == (\E next \in PermissionMode : ChangeMode(next)) \/ Undo

Next == Propose \/ People \/ Timers \/ Engine \/ ModeSwitch \/ Destroy

Spec == Init /\ [][Next]_vars

\* Node fires every timer that stays armed.
Fairness == \A r \in Requests : WF_vars(CountdownFires(r) \/ TimeoutFires(r))

FairSpec == Spec /\ Fairness

-------------------------------------------------------------------------------
(* Safety *)

Published(i, s) == \E n \in DOMAIN published[i] : published[i][n] = s

Flagged(k) == k.sensitive \/ Assess(k) = Dangerous

\* The gateway's two maps are inverse to each other: a resolution that comes
\* from the engine finds the request that a resolution from the manager would
\* have found (forgetPair keeps the two in step).
PairingConsistent ==
  \A r \in Requests, i \in Intents : r2i[r] = i <=> i2r[i] = r

\* No zombie waiter: whatever resolves an intent, in whatever order people,
\* timers, coordinators and mode switches act, no request is left waiting for
\* an intent that is already resolved.  Only clear(), which emits nothing, can
\* take the intent away under a waiting request.
NoZombieWaiter ==
  alive => \A r \in Requests : reqStatus[r] = "waiting" =>
             /\ reqIntent[r] \in Intents
             /\ r2i[r] = reqIntent[r]
             /\ status[reqIntent[r]] \in {"pending", "cleared"}

\* A timer never outlives its request.  finalize() does not look at the status
\* it overwrites, so a timer left armed would re-resolve a settled request.
NoStrayTimer ==
  \A r \in Requests : timer[r] # "none" => alive /\ reqStatus[r] = "waiting"

\* A request that can still be approved was opened by the policy of the mode
\* the room is in now: no approval obtained under an older, laxer mode counts.
JudgedUnderCurrentMode ==
  alive => \A r \in Requests : reqStatus[r] = "waiting" => openedIn[r] = mode

\* A countdown only ever approves what its mode may approve on its own: never
\* a sensitive path, never a dangerous assessment.
CountdownOnlyForUnflagged ==
  \A r \in Requests :
    timer[r] = "countdown" \/ reqStatus[r] = "auto_approved" =>
      /\ ~ Flagged(data[reqIntent[r]])
      /\ ModeRules[openedIn[r]].autoApproveSafe

\* The request's verdict and the intent's fate agree, for the verdicts that
\* only the approval manager gives.
VerdictReachesIntent ==
  \A r \in Requests :
    LET i == reqIntent[r] IN
    reqStatus[r] # "none" /\ status[i] # "cleared" =>
      /\ reqStatus[r] \in {"approved", "auto_approved"} => Published(i, "approved")
      /\ reqStatus[r] = "expired" => Published(i, "rejected")

\* An approval stamped with the manager's identity has a request behind it,
\* and a flagged intent one that as many people as its policy asks for approved.
ApprovedByConsent ==
  alive => \A i \in Intents :
    resolver[i] = "approval" /\ Published(i, "approved") =>
      \E r \in Requests :
        /\ reqIntent[r] = i
        /\ \/ reqStatus[r] = "approved" /\ Cardinality(approvals[r]) >= required[r]
           \/ reqStatus[r] = "auto_approved" /\ ~ Flagged(data[i])

\* What the observers of the bus have seen of an intent is a legal life in the
\* right order, and ends in the intent's status.
LegalSteps ==
  {<<"pending", "approved">>, <<"pending", "rejected">>, <<"pending", "invalidated">>,
   <<"approved", "executing">>, <<"approved", "invalidated">>,
   <<"executing", "completed">>, <<"executing", "failed">>, <<"executing", "invalidated">>}

ObserversSeeTheLife ==
  \A i \in Intents :
    LET seen == published[i] IN
    /\ \A n \in 1 .. Len(seen) - 1 : <<seen[n], seen[n + 1]>> \in LegalSteps
    /\ seen # <<>> => seen[1] = "pending"
    /\ status[i] \in Lifecycle!Present => seen # <<>> /\ seen[Len(seen)] = status[i]

\* The stack implements the intent lifecycle: seen from the engine's observers
\* no cascade resolves an intent twice or revives one.
ImplementsLifecycle == Lifecycle!Spec

-------------------------------------------------------------------------------
(* Liveness *)

\* Nobody has to answer: a request whose policy arms a timer settles.
TimedRequestsSettle ==
  \A r \in Requests : timer[r] # "none" ~> reqStatus[r] # "waiting"
===============================================================================
