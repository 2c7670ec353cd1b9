----------------------- MODULE PermissionGatewayProofs ------------------------
(***************************************************************************)
(* Proofs, for every set of intents, requests and approvers and for every  *)
(* mode matrix and approval policy, of the safety of the permission stack. *)
(*                                                                         *)
(* The invariants of PermissionGateway are not inductive one by one: that  *)
(* a settled request leaves no timer, that a resolved intent leaves no     *)
(* waiter and that the two maps are inverse each need the others.  IInv is *)
(* their conjunction with two facts the code keeps silently: exactly the   *)
(* waiting requests are tracked, and a request always names an intent that *)
(* has been proposed.                                                      *)
(***************************************************************************)
EXTENDS PermissionGateway, TLAPS

\* A pair is in the gateway's maps exactly while its request waits.
TrackedIffWaiting ==
  alive => \A r \in Requests : (r2i[r] # None) <=> (reqStatus[r] = "waiting")

\* A request that was ever opened names an intent that was proposed.
RequestsNameProposals ==
  \A r \in Requests : reqStatus[r] # "none" =>
    reqIntent[r] \in Intents /\ status[reqIntent[r]] # "none"

IInv ==
  /\ TypeOK
  /\ PairingConsistent
  /\ TrackedIffWaiting
  /\ RequestsNameProposals
  /\ NoZombieWaiter
  /\ NoStrayTimer
  /\ JudgedUnderCurrentMode
  /\ CountdownOnlyForUnflagged

-------------------------------------------------------------------------------
(* The pure rules *)

LEMMA NoneApart == None \notin Intents /\ None \notin Requests
                   /\ None \notin PermissionMode /\ Proposals \subseteq IntentData
  BY GatewayAssumption

LEMMA AssessType ==
  ASSUME NEW k \in IntentData
  PROVE  Assess(k) \in RiskLevel
  BY DEF IntentData, Assess, PathLevel, DeclaredLevel, BaseLevel, MaxLevel,
         Escalate, RiskLevel, Safe, Moderate, Dangerous

\* decide() never takes its auto_approve branch: whatever the policy, a level
\* that may be auto-approved and is not dangerous has a positive countdown.
THEOREM NeverApprovesAtOnce ==
  ASSUME NEW m \in PermissionMode, NEW k \in IntentData
  PROVE  Decide(m, k).kind # "auto_approve"
<1>1. Assess(k) \in RiskLevel
  BY AssessType
<1>2. Policies[m] \in ApprovalPolicy
  BY PolicyAssumption
<1>3. QED
  BY <1>1, <1>2 DEF Decide, Verdict, RequireApproval, CanAutoApprove, AutoApproveCountdown,
     RiskLevel, Safe, Moderate, Dangerous, ApprovalPolicy

LEMMA DecideType ==
  ASSUME NEW m \in PermissionMode, NEW k \in IntentData
  PROVE  Decide(m, k) \in Decision
<1>1. Policies[m] \in ApprovalPolicy
  BY PolicyAssumption
<1>2. AutoApproveCountdown(m, Assess(k)) \in Nat
  BY <1>1 DEF AutoApproveCountdown, ApprovalPolicy
<1>3. QED
  BY <1>1, <1>2 DEF Decide, Decision, Verdict, RequireApproval, ApprovalPolicy

\* A countdown is only ever granted to an intent that is neither sensitive nor
\* dangerous, in a mode that approves on its own.
LEMMA CountdownMeansUnflagged ==
  ASSUME NEW m \in PermissionMode, NEW k \in IntentData, Decide(m, k).countdown > 0
  PROVE  ~ Flagged(k) /\ ModeRules[m].autoApproveSafe
  BY DEF Decide, Verdict, RequireApproval, Flagged, CanAutoApprove

-------------------------------------------------------------------------------
(* The initial state *)

LEMMA InitIInv == Init => IInv
<1> SUFFICES ASSUME Init PROVE IInv
  OBVIOUS
<1> USE NoneApart DEF Init
<1>1. TypeOK
  BY GatewayAssumption DEF TypeOK, IntentStatus, Lifecycle!Present, Lifecycle!Terminal,
     RequestStatus, Resolver
<1>2. PairingConsistent
  BY DEF PairingConsistent
<1>3. TrackedIffWaiting /\ RequestsNameProposals /\ NoZombieWaiter
  BY DEF TrackedIffWaiting, RequestsNameProposals, NoZombieWaiter
<1>4. NoStrayTimer /\ JudgedUnderCurrentMode /\ CountdownOnlyForUnflagged
  BY DEF NoStrayTimer, JudgedUnderCurrentMode, CountdownOnlyForUnflagged
<1>5. QED
  BY <1>1, <1>2, <1>3, <1>4 DEF IInv

-------------------------------------------------------------------------------
(* One lemma for the four ways a waiting request settles *)

LEMMA SettleKeepsIInv ==
  ASSUME IInv, alive,
         NEW r \in Requests, reqStatus[r] = "waiting",
         NEW s \in {"approved", "rejected", "expired", "auto_approved"},
         NEW to \in {"approved", "rejected"},
         s = "auto_approved" => timer[r] = "countdown",
         Settle(r, s, to),
         approvals' \in [Requests -> SUBSET Approvers]
  PROVE  IInv'
<1> USE NoneApart DEF Settle, Finalize, ForgetPairs, EngineMoves, modeVars
<1>1. TypeOK'
  <2>1. published' \in [Intents -> Seq(IntentStatus)]
    BY DEF IInv, TypeOK, IntentStatus, Lifecycle!Present, Lifecycle!Terminal
  <2>2. QED
    BY <2>1 DEF IInv, TypeOK, IntentStatus, Lifecycle!Present, Lifecycle!Terminal,
       RequestStatus, Resolver
<1>2. PairingConsistent'
  BY DEF IInv, TypeOK, PairingConsistent
<1>3. TrackedIffWaiting'
  BY DEF IInv, TypeOK, TrackedIffWaiting
<1>4. RequestsNameProposals'
  BY DEF IInv, TypeOK, RequestsNameProposals
<1>5. NoZombieWaiter'
  BY DEF IInv, TypeOK, NoZombieWaiter, PairingConsistent
<1>6. NoStrayTimer'
  BY DEF IInv, TypeOK, NoStrayTimer
<1>7. JudgedUnderCurrentMode'
  BY DEF IInv, TypeOK, JudgedUnderCurrentMode
<1>8. CountdownOnlyForUnflagged'
  <2> SUFFICES ASSUME NEW q \in Requests,
                      timer'[q] = "countdown" \/ reqStatus'[q] = "auto_approved"
               PROVE  /\ ~ Flagged(data[reqIntent[q]])
                      /\ ModeRules[openedIn[q]].autoApproveSafe
    BY DEF CountdownOnlyForUnflagged, Flagged
  <2>1. timer[q] = "countdown" \/ reqStatus[q] = "auto_approved"
    BY DEF IInv, TypeOK
  <2>2. QED
    BY <2>1 DEF IInv, CountdownOnlyForUnflagged
<1>9. QED
  BY <1>1, <1>2, <1>3, <1>4, <1>5, <1>6, <1>7, <1>8 DEF IInv

-------------------------------------------------------------------------------
(* The other actions *)

LEMMA RecordedProposalType ==
  ASSUME TypeOK, NEW i \in Intents, NEW k \in IntentData, NEW d, RecordProposal(i, k, d)
  PROVE  /\ status' \in [Intents -> IntentStatus]
         /\ data' \in [Intents -> IntentData \cup {None}]
         /\ resolver' \in [Intents -> Resolver]
         /\ published' \in [Intents -> Seq(IntentStatus)]
<1> DEFINE st == StatusAfter(d, k)
<1>1. st \in {"pending", "approved", "rejected"} /\ ResolverAfter(d, k) \in Resolver
  BY DEF StatusAfter, ResolverAfter, AfterGateway, Resolver
<1>2. st \in IntentStatus /\ "pending" \in IntentStatus
  BY <1>1 DEF IntentStatus, Lifecycle!Present, Lifecycle!Terminal
<1> HIDE DEF st
<1>3. <<"pending">> \in Seq(IntentStatus) /\ <<"pending", st>> \in Seq(IntentStatus)
  BY <1>2
<1>4. published' \in [Intents -> Seq(IntentStatus)]
  BY <1>3 DEF RecordProposal, TypeOK, st
<1>5. QED
  BY <1>1, <1>2, <1>4 DEF RecordProposal, TypeOK, st

LEMMA ProposeWithoutRequestKeepsIInv ==
  ASSUME IInv, NEW i \in Intents, NEW k \in Proposals, ProposeWithoutRequest(i, k)
  PROVE  IInv'
<1> USE NoneApart DEF ProposeWithoutRequest, RecordProposal, modeVars, managerVars,
        requestData, gatewayVars
<1>1. StatusAfter(Decide(mode, k), k) \in {"pending", "approved", "rejected"}
  BY DEF StatusAfter, AfterGateway
<1>2. TypeOK'
  BY RecordedProposalType DEF IInv, TypeOK
<1>3. \A r \in Requests : reqStatus[r] # "none" => reqIntent[r] # i
  BY DEF IInv, RequestsNameProposals
<1>4. PairingConsistent' /\ TrackedIffWaiting' /\ NoStrayTimer' /\ JudgedUnderCurrentMode'
  BY DEF IInv, PairingConsistent, TrackedIffWaiting, NoStrayTimer, JudgedUnderCurrentMode
<1>5. RequestsNameProposals' /\ NoZombieWaiter'
  BY <1>3 DEF IInv, TypeOK, RequestsNameProposals, NoZombieWaiter
<1>6. CountdownOnlyForUnflagged'
  <2> SUFFICES ASSUME NEW q \in Requests,
                      timer[q] = "countdown" \/ reqStatus[q] = "auto_approved"
               PROVE  /\ ~ Flagged(data'[reqIntent[q]])
                      /\ ModeRules[openedIn[q]].autoApproveSafe
    BY DEF CountdownOnlyForUnflagged, Flagged
  <2>1. reqStatus[q] # "none"
    BY DEF IInv, NoStrayTimer
  <2>2. data'[reqIntent[q]] = data[reqIntent[q]]
    BY <1>3, <2>1 DEF IInv, TypeOK, RequestsNameProposals
  <2>3. QED
    BY <2>2 DEF IInv, CountdownOnlyForUnflagged
<1>7. QED
  BY <1>2, <1>4, <1>5, <1>6 DEF IInv

LEMMA ProposeWithRequestKeepsIInv ==
  ASSUME IInv, NEW i \in Intents, NEW k \in Proposals, ProposeWithRequest(i, k)
  PROVE  IInv'
<1> DEFINE d == Decide(mode, k)
<1>1. PICK r \in Requests : OpenRequest(r, i, k, d)
  BY DEF ProposeWithRequest
<1>2. d \in Decision /\ k \in IntentData
  BY DecideType, NoneApart DEF IInv, TypeOK
<1>3. d.countdown > 0 => ~ Flagged(k) /\ ModeRules[mode].autoApproveSafe
  BY <1>2, CountdownMeansUnflagged DEF IInv, TypeOK
<1>4. alive /\ RecordProposal(i, k, d) /\ UNCHANGED <<alive, modeVars>>
  BY DEF ProposeWithRequest
<1>5. StatusAfter(d, k) = (IF PolicyApproves(d, k) THEN "approved" ELSE "pending")
  BY DEF ProposeWithRequest, StatusAfter, AfterGateway
<1> HIDE DEF d
<1> USE NoneApart, <1>1, <1>4, <1>5 DEF OpenRequest, RecordProposal, modeVars
<1>7. TypeOK'
  <2>1. TypeOK /\ RecordProposal(i, k, d)
    BY DEF IInv
  <2>2. /\ status' \in [Intents -> IntentStatus]
        /\ data' \in [Intents -> IntentData \cup {None}]
        /\ resolver' \in [Intents -> Resolver]
        /\ published' \in [Intents -> Seq(IntentStatus)]
    BY <1>2, <2>1, RecordedProposalType
  <2>3. d.required \in Nat
    BY <1>2 DEF Decision
  <2>4. QED
    BY <2>1, <2>2, <2>3 DEF TypeOK, RequestStatus
<1>8. /\ r2i[r] = None /\ i2r[i] = None
      /\ \A q \in Requests : reqStatus[q] # "none" => reqIntent[q] # i /\ q # r
  BY DEF IInv, TypeOK, RequestsNameProposals, TrackedIffWaiting, PairingConsistent,
     NoZombieWaiter
<1>9. PairingConsistent'
  BY <1>8 DEF IInv, TypeOK, PairingConsistent
<1>10. TrackedIffWaiting' /\ NoStrayTimer' /\ JudgedUnderCurrentMode'
  BY DEF IInv, TypeOK, TrackedIffWaiting, NoStrayTimer, JudgedUnderCurrentMode
<1>11. RequestsNameProposals' /\ NoZombieWaiter'
  BY <1>8 DEF IInv, TypeOK, RequestsNameProposals, NoZombieWaiter
<1>12. CountdownOnlyForUnflagged'
  <2> SUFFICES ASSUME NEW q \in Requests,
                      timer'[q] = "countdown" \/ reqStatus'[q] = "auto_approved"
               PROVE  /\ ~ Flagged(data'[reqIntent'[q]])
                      /\ ModeRules[openedIn'[q]].autoApproveSafe
    BY DEF CountdownOnlyForUnflagged, Flagged
  <2>1. CASE q = r
    <3>1. d.countdown > 0
      BY <2>1 DEF IInv, TypeOK
    <3>2. data'[reqIntent'[q]] = k /\ openedIn'[q] = mode
      BY <2>1 DEF IInv, TypeOK
    <3>3. QED
      BY <1>3, <3>1, <3>2
  <2>2. CASE q # r
    <3>1. timer[q] = "countdown" \/ reqStatus[q] = "auto_approved"
      BY <2>2 DEF IInv, TypeOK
    <3>2. reqStatus[q] # "none"
      BY <3>1 DEF IInv, NoStrayTimer
    <3>3. data'[reqIntent'[q]] = data[reqIntent[q]] /\ openedIn'[q] = openedIn[q]
      BY <1>8, <2>2, <3>2 DEF IInv, TypeOK, RequestsNameProposals
    <3>4. QED
      BY <3>1, <3>3 DEF IInv, CountdownOnlyForUnflagged
  <2>3. QED
    BY <2>1, <2>2
<1>13. QED
  BY <1>7, <1>9, <1>10, <1>11, <1>12 DEF IInv

LEMMA ApproveShortKeepsIInv ==
  ASSUME IInv, NEW r \in Requests, NEW u \in Approvers, ApproveShort(r, u)
  PROVE  IInv'
<1> USE DEF ApproveShort, RecordApproval, modeVars, engineVars, gatewayVars
<1>1. TypeOK'
  BY DEF IInv, TypeOK
<1>2. QED
  BY <1>1 DEF IInv, PairingConsistent, TrackedIffWaiting, RequestsNameProposals,
     NoZombieWaiter, NoStrayTimer, JudgedUnderCurrentMode, CountdownOnlyForUnflagged, Flagged

LEMMA EngineResolvesKeepsIInv ==
  ASSUME IInv, NEW i \in Intents, NEW s \in {"approved", "rejected", "invalidated"},
         EngineResolves(i, s)
  PROVE  IInv'
<1> USE NoneApart DEF EngineResolves, EngineMoves, Finalize, ForgetPairs, modeVars, requestData
<1>1. TypeOK'
  <2>1. published' \in [Intents -> Seq(IntentStatus)]
    BY DEF IInv, TypeOK, IntentStatus, Lifecycle!Present, Lifecycle!Terminal
  <2>2. QED
    BY <2>1 DEF IInv, TypeOK, IntentStatus, Lifecycle!Present, Lifecycle!Terminal,
       RequestStatus, Resolver
<1>2. PairingConsistent'
  BY DEF IInv, TypeOK, PairingConsistent
<1>3. TrackedIffWaiting' /\ NoStrayTimer' /\ JudgedUnderCurrentMode'
  BY DEF IInv, TypeOK, PairingConsistent, TrackedIffWaiting, NoStrayTimer,
     JudgedUnderCurrentMode
<1>4. RequestsNameProposals' /\ NoZombieWaiter'
  BY DEF IInv, TypeOK, PairingConsistent, RequestsNameProposals, NoZombieWaiter
<1>5. CountdownOnlyForUnflagged'
  BY DEF IInv, TypeOK, CountdownOnlyForUnflagged, Flagged
<1>6. QED
  BY <1>1, <1>2, <1>3, <1>4, <1>5 DEF IInv

LEMMA ExecutesKeepsIInv ==
  ASSUME IInv, NEW i \in Intents, Executes(i)
  PROVE  IInv'
<1> USE NoneApart DEF modeVars, managerVars, requestData, gatewayVars
<1>1. PICK step \in {<<"approved", "executing">>, <<"executing", "completed">>,
                      <<"executing", "failed">>} :
        /\ status[i] = step[1]
        /\ EngineMoves({i}, step[2], resolver[i])
        /\ UNCHANGED <<alive, modeVars, managerVars, gatewayVars>>
  BY DEF Executes
<1> USE <1>1 DEF EngineMoves
<1>2. TypeOK'
  <2>1. published' \in [Intents -> Seq(IntentStatus)]
    BY DEF IInv, TypeOK, IntentStatus, Lifecycle!Present, Lifecycle!Terminal
  <2>2. QED
    BY <2>1 DEF IInv, TypeOK, IntentStatus, Lifecycle!Present, Lifecycle!Terminal
<1>3. NoZombieWaiter' /\ RequestsNameProposals'
  BY DEF IInv, TypeOK, NoZombieWaiter, RequestsNameProposals
<1>4. QED
  BY <1>2, <1>3 DEF IInv, PairingConsistent, TrackedIffWaiting, NoStrayTimer,
     JudgedUnderCurrentMode, CountdownOnlyForUnflagged, Flagged

LEMMA ForgetKeepsIInv ==
  ASSUME IInv, Purge \/ ClearEngine
  PROVE  IInv'
<1> USE NoneApart DEF Purge, ClearEngine, modeVars, managerVars, requestData, gatewayVars
<1>1. status' \in [Intents -> IntentStatus]
  <2>1. CASE Purge
    BY <2>1 DEF IInv, TypeOK, IntentStatus
  <2>2. CASE ClearEngine
    BY <2>2 DEF IInv, TypeOK, IntentStatus
  <2>3. QED
    BY <2>1, <2>2
<1>2. TypeOK'
  BY <1>1 DEF IInv, TypeOK
<1>3. ASSUME NEW i \in Intents
      PROVE  /\ status[i] # "none" => status'[i] # "none"
             /\ status[i] \in {"pending", "cleared"} => status'[i] \in {"pending", "cleared"}
  <2>1. CASE Purge
    BY <2>1 DEF Lifecycle!Terminal
  <2>2. CASE ClearEngine
    BY <2>2 DEF Lifecycle!Present
  <2> QED
    BY <2>1, <2>2
<1>4. NoZombieWaiter' /\ RequestsNameProposals'
  BY <1>3 DEF IInv, TypeOK, NoZombieWaiter, RequestsNameProposals
<1>5. QED
  BY <1>2, <1>4 DEF IInv, PairingConsistent, TrackedIffWaiting, NoStrayTimer,
     JudgedUnderCurrentMode, CountdownOnlyForUnflagged, Flagged

LEMMA ChangeModeKeepsIInv ==
  ASSUME IInv, NEW next \in PermissionMode, ChangeMode(next)
  PROVE  IInv'
<1> USE NoneApart DEF ChangeMode, EngineMoves, Finalize, requestData
<1>1. \A r \in Requests : reqStatus'[r] # "waiting"
  BY DEF IInv, TypeOK, TrackedIffWaiting, Tracked
<1>2. TypeOK'
  <2>1. published' \in [Intents -> Seq(IntentStatus)]
    BY DEF IInv, TypeOK, IntentStatus, Lifecycle!Present, Lifecycle!Terminal
  <2>2. QED
    BY <2>1 DEF IInv, TypeOK, IntentStatus, Lifecycle!Present, Lifecycle!Terminal,
       RequestStatus, Resolver
<1>3. PairingConsistent' /\ TrackedIffWaiting' /\ NoZombieWaiter' /\ JudgedUnderCurrentMode'
  BY <1>1 DEF IInv, TypeOK, PairingConsistent, TrackedIffWaiting, NoZombieWaiter,
     JudgedUnderCurrentMode
<1>4. NoStrayTimer'
  BY DEF IInv, TypeOK, NoStrayTimer, TrackedIffWaiting, Tracked
<1>5. RequestsNameProposals'
  BY DEF IInv, TypeOK, RequestsNameProposals
<1>6. CountdownOnlyForUnflagged'
  BY DEF IInv, TypeOK, CountdownOnlyForUnflagged, Flagged
<1>7. QED
  BY <1>2, <1>3, <1>4, <1>5, <1>6 DEF IInv

LEMMA DestroyKeepsIInv ==
  ASSUME IInv, Destroy
  PROVE  IInv'
<1> USE DEF Destroy, modeVars, engineVars, gatewayVars, requestData
<1>1. TypeOK'
  BY DEF IInv, TypeOK, RequestStatus
<1>2. QED
  BY <1>1 DEF IInv, PairingConsistent, TrackedIffWaiting, RequestsNameProposals,
     NoZombieWaiter, NoStrayTimer, JudgedUnderCurrentMode, CountdownOnlyForUnflagged, Flagged

-------------------------------------------------------------------------------
(* The theorems *)

LEMMA StepKeepsIInv == IInv /\ [Next]_vars => IInv'
<1> SUFFICES ASSUME IInv, [Next]_vars PROVE IInv'
  OBVIOUS
<1>1. CASE Propose
  BY <1>1, ProposeWithoutRequestKeepsIInv, ProposeWithRequestKeepsIInv DEF Propose
<1>2. CASE People
  <2>1. ASSUME NEW r \in Requests, NEW u \in Approvers, ApproveShort(r, u)
        PROVE  IInv'
    BY <2>1, ApproveShortKeepsIInv
  <2>2. ASSUME NEW r \in Requests, NEW u \in Approvers, ApproveFinal(r, u)
        PROVE  IInv'
    <3>1. /\ alive /\ reqStatus[r] = "waiting" /\ Settle(r, "approved", "approved")
          /\ approvals' \in [Requests -> SUBSET Approvers]
      BY <2>2 DEF ApproveFinal, RecordApproval, Waiting, IInv, TypeOK
    <3>2. QED
      BY <3>1, SettleKeepsIInv
  <2>3. ASSUME NEW r \in Requests, Reject(r)
        PROVE  IInv'
    <3>1. /\ alive /\ reqStatus[r] = "waiting" /\ Settle(r, "rejected", "rejected")
          /\ approvals' \in [Requests -> SUBSET Approvers]
      BY <2>3 DEF Reject, IInv, TypeOK
    <3>2. QED
      BY <3>1, SettleKeepsIInv
  <2>4. QED
    BY <1>2, <2>1, <2>2, <2>3 DEF People
<1>3. CASE Timers
  <2>1. ASSUME NEW r \in Requests, CountdownFires(r)
        PROVE  IInv'
    <3>1. /\ alive /\ reqStatus[r] = "waiting" /\ Settle(r, "auto_approved", "approved")
          /\ timer[r] = "countdown" /\ approvals' \in [Requests -> SUBSET Approvers]
      BY <2>1 DEF CountdownFires, IInv, TypeOK, NoStrayTimer
    <3>2. QED
      BY <3>1, SettleKeepsIInv
  <2>2. ASSUME NEW r \in Requests, TimeoutFires(r)
        PROVE  IInv'
    <3>1. /\ alive /\ reqStatus[r] = "waiting" /\ Settle(r, "expired", "rejected")
          /\ approvals' \in [Requests -> SUBSET Approvers]
      BY <2>2 DEF TimeoutFires, IInv, TypeOK, NoStrayTimer
    <3>2. QED
      BY <3>1, SettleKeepsIInv
  <2>3. QED
    BY <1>3, <2>1, <2>2 DEF Timers
<1>4. CASE Engine
  BY <1>4, EngineResolvesKeepsIInv, ExecutesKeepsIInv, ForgetKeepsIInv DEF Engine
<1>5. CASE ModeSwitch
  BY <1>5, ChangeModeKeepsIInv DEF ModeSwitch, Undo, IInv, TypeOK
<1>6. CASE Destroy
  BY <1>6, DestroyKeepsIInv
<1>7. CASE UNCHANGED vars
  <2> USE <1>7 DEF vars, modeVars, engineVars, managerVars, requestData, gatewayVars
  <2>1. TypeOK'
    BY DEF IInv, TypeOK
  <2>2. QED
    BY <2>1 DEF IInv, PairingConsistent, TrackedIffWaiting, RequestsNameProposals,
       NoZombieWaiter, NoStrayTimer, JudgedUnderCurrentMode, CountdownOnlyForUnflagged,
       Flagged
<1>8. QED
  BY <1>1, <1>2, <1>3, <1>4, <1>5, <1>6, <1>7 DEF Next

\* The inductive invariant holds of every room.
THEOREM StackIsConsistent == Spec => []IInv
<1>1. QED
  BY InitIInv, StepKeepsIInv, PTL DEF Spec

\* Type correctness of the room's permission stack.
THEOREM TypeCorrect == Spec => []TypeOK
<1>1. IInv => TypeOK
  BY DEF IInv
<1>2. QED
  BY <1>1, StackIsConsistent, PTL

\* The gateway never leaves a request waiting for a resolved intent, whoever
\* resolved it: the case dropRequestForIntent and handleModeChanged are for.
THEOREM NoZombies == Spec => [](PairingConsistent /\ NoZombieWaiter)
<1>1. IInv => PairingConsistent /\ NoZombieWaiter
  BY DEF IInv
<1>2. QED
  BY <1>1, StackIsConsistent, PTL

\* No timer is armed for a settled request, so finalize() settles each once.
THEOREM TimersEndWithTheirRequest == Spec => []NoStrayTimer
<1>1. IInv => NoStrayTimer
  BY DEF IInv
<1>2. QED
  BY <1>1, StackIsConsistent, PTL

\* Every request that waits was opened by the policy of the current mode.
THEOREM CurrentModeJudges == Spec => []JudgedUnderCurrentMode
<1>1. IInv => JudgedUnderCurrentMode
  BY DEF IInv
<1>2. QED
  BY <1>1, StackIsConsistent, PTL

\* No countdown ever approves a sensitive or dangerous intent, under any
\* mode matrix and any approval policy.
THEOREM FlaggedNeverAutoApproved == Spec => []CountdownOnlyForUnflagged
<1>1. IInv => CountdownOnlyForUnflagged
  BY DEF IInv
<1>2. QED
  BY <1>1, StackIsConsistent, PTL

-------------------------------------------------------------------------------
(* The stack implements the lifecycle                                      *)

LEMMA LifecycleInit == Init => Lifecycle!Init
  BY DEF Init, Lifecycle!Init

LEMMA ProposalIsLifecycleStep ==
  ASSUME TypeOK, NEW i \in Intents, NEW k, NEW d, RecordProposal(i, k, d)
  PROVE  Lifecycle!Next
<1>1. StatusAfter(d, k) \in {"pending", "approved", "rejected"}
  BY DEF StatusAfter, AfterGateway
<1>2. Lifecycle!Propose(i)
  BY <1>1 DEF RecordProposal, Lifecycle!Propose
<1> QED
  BY <1>2 DEF Lifecycle!Next

\* At most one intent is moved: the one of the request.
LEMMA SettleIsLifecycleStep ==
  ASSUME TypeOK, NEW r \in Requests, NEW s, NEW to \in {"approved", "rejected"},
         Settle(r, s, to)
  PROVE  [Lifecycle!Next]_status
<1>1. status' = [i \in Intents |-> IF r2i[r] = i /\ status[i] = "pending" THEN to ELSE status[i]]
  BY DEF Settle, EngineMoves
<1>2. CASE \E i \in Intents : r2i[r] = i /\ status[i] = "pending"
  <2>1. PICK i \in Intents : r2i[r] = i /\ status[i] = "pending"
    BY <1>2
  <2>2. status' = [status EXCEPT ![i] = to]
    BY <1>1, <2>1 DEF TypeOK
  <2>3. Lifecycle!Resolve(i)
    BY <2>1, <2>2 DEF Lifecycle!Resolve
  <2> QED
    BY <2>3 DEF Lifecycle!Next
<1>3. CASE ~ \E i \in Intents : r2i[r] = i /\ status[i] = "pending"
  BY <1>1, <1>3 DEF TypeOK
<1> QED
  BY <1>2, <1>3

LEMMA EngineIsLifecycleStep ==
  ASSUME TypeOK, Engine
  PROVE  Lifecycle!Next
<1>1. ASSUME NEW i \in Intents, NEW s \in {"approved", "rejected", "invalidated"},
             EngineResolves(i, s)
      PROVE  Lifecycle!Next
  <2>1. status' = [j \in Intents |-> IF j \in {i} THEN s ELSE status[j]]
    BY <1>1 DEF EngineResolves, EngineMoves
  <2>2. CASE s = "invalidated"
    <3>1. {i} \in SUBSET {j \in Intents : status[j] \in Lifecycle!Present \ Lifecycle!Terminal}
      BY <1>1, <2>2 DEF EngineResolves, Lifecycle!Present, Lifecycle!Terminal
    <3> QED
      BY <2>1, <2>2, <3>1 DEF Lifecycle!Next, Lifecycle!Invalidate
  <2>3. CASE s # "invalidated"
    <3>1. status' = [status EXCEPT ![i] = s]
      BY <2>1 DEF TypeOK
    <3>2. Lifecycle!Resolve(i)
      BY <1>1, <2>3, <3>1 DEF EngineResolves, Lifecycle!Resolve
    <3> QED
      BY <3>2 DEF Lifecycle!Next
  <2> QED
    BY <2>2, <2>3
<1>2. ASSUME NEW i \in Intents, Executes(i)
      PROVE  Lifecycle!Next
  <2>1. PICK step \in {<<"approved", "executing">>, <<"executing", "completed">>,
                       <<"executing", "failed">>} :
          status[i] = step[1] /\ EngineMoves({i}, step[2], resolver[i])
    BY <1>2 DEF Executes
  <2>2. status' = [status EXCEPT ![i] = step[2]]
    BY <2>1 DEF EngineMoves, TypeOK
  <2>3. CASE step[1] = "approved" /\ step[2] = "executing"
    BY <2>1, <2>2, <2>3 DEF Lifecycle!Execute, Lifecycle!Next
  <2>4. CASE step[1] = "executing" /\ step[2] \in {"completed", "failed"}
    BY <2>1, <2>2, <2>4 DEF Lifecycle!Finish, Lifecycle!Next
  <2> QED
    BY <2>3, <2>4
<1>3. Purge => Lifecycle!Purge
  BY DEF Purge, Lifecycle!Purge
<1>4. ClearEngine => Lifecycle!Clear
  BY DEF ClearEngine, Lifecycle!Clear
<1> QED
  BY <1>1, <1>2, <1>3, <1>4 DEF Engine, Lifecycle!Next

LEMMA ChangeModeIsLifecycleStep ==
  ASSUME NEW next, ChangeMode(next)
  PROVE  Lifecycle!Next
<1> DEFINE S == {i \in Intents : /\ status[i] \in {"pending", "approved", "executing"}
                                 /\ \E r \in Tracked : r2i[r] = i}
<1>1. status' = [i \in Intents |-> IF i \in S THEN "invalidated" ELSE status[i]]
  BY DEF ChangeMode, EngineMoves
<1>2. S \in SUBSET {i \in Intents : status[i] \in Lifecycle!Present \ Lifecycle!Terminal}
  BY DEF Lifecycle!Present, Lifecycle!Terminal
<1> QED
  BY <1>1, <1>2 DEF Lifecycle!Next, Lifecycle!Invalidate

LEMMA StepIsLifecycleStep == TypeOK /\ [Next]_vars => [Lifecycle!Next]_status
<1> SUFFICES ASSUME TypeOK, [Next]_vars PROVE [Lifecycle!Next]_status
  OBVIOUS
<1>1. CASE Propose
  BY <1>1, ProposalIsLifecycleStep DEF Propose, ProposeWithoutRequest, ProposeWithRequest
<1>2. CASE People
  BY <1>2, SettleIsLifecycleStep DEF People, ApproveShort, ApproveFinal, Reject, engineVars
<1>3. CASE Timers
  BY <1>3, SettleIsLifecycleStep DEF Timers, CountdownFires, TimeoutFires
<1>4. CASE Engine
  BY <1>4, EngineIsLifecycleStep
<1>5. CASE ModeSwitch
  BY <1>5, ChangeModeIsLifecycleStep DEF ModeSwitch, Undo
<1>6. CASE Destroy \/ UNCHANGED vars
  BY <1>6 DEF Destroy, engineVars, vars
<1> QED
  BY <1>1, <1>2, <1>3, <1>4, <1>5, <1>6 DEF Next

\* Seen from outside the stack is the engine alone: whatever cascade a call sets
\* off, an intent is proposed once, resolved once and never revived.
THEOREM StackIsLifecycle == Spec => ImplementsLifecycle
<1> QED
  BY LifecycleInit, StepIsLifecycleStep, TypeCorrect, PTL DEF Spec, ImplementsLifecycle,
     Lifecycle!Spec

-------------------------------------------------------------------------------
(* What any step does to one intent and to one request                     *)

Untouched(i) ==
  /\ status'[i] = status[i] /\ data'[i] = data[i]
  /\ resolver'[i] = resolver[i] /\ published'[i] = published[i]

Proposed(i) ==
  /\ status[i] = "none" /\ status'[i] \in {"pending", "approved", "rejected"}
  /\ resolver'[i] # "approval"
  /\ published'[i] = IF status'[i] = "pending" THEN <<"pending">>
                     ELSE <<"pending", status'[i]>>

Forgotten(i) ==
  /\ status[i] \in Lifecycle!Present /\ status'[i] \in {"purged", "cleared"}
  /\ data'[i] = data[i] /\ resolver'[i] = resolver[i] /\ published'[i] = published[i]

\* A request that gives its consent to intent i in this step.
Consents(r, i) ==
  /\ reqStatus[r] = "waiting" /\ reqIntent[r] = i /\ reqIntent'[r] = i
  /\ \/ reqStatus'[r] = "approved" /\ Cardinality(approvals'[r]) >= required'[r]
     \/ reqStatus'[r] = "auto_approved" /\ ~ Flagged(data[i])

Moved(i) ==
  /\ <<status[i], status'[i]>> \in LegalSteps
  /\ data'[i] = data[i] /\ published'[i] = Append(published[i], status'[i])
  /\ resolver'[i] = "approval" =>
       \/ resolver[i] = "approval" /\ status'[i] # "approved"
       \/ status'[i] = "rejected" /\ status[i] = "pending"
       \/ status'[i] = "approved" /\ \E r \in Requests : Consents(r, i)

Kept(r) ==
  /\ reqStatus'[r] = reqStatus[r] /\ reqIntent'[r] = reqIntent[r]
  /\ required'[r] = required[r] /\ (reqStatus[r] # "waiting" => approvals'[r] = approvals[r])

Opened(r) == reqStatus[r] = "none" /\ reqStatus'[r] \in {"waiting", "rejected"}

Settled(r) ==
  /\ alive /\ reqStatus[r] = "waiting" /\ reqIntent'[r] = reqIntent[r]
  /\ status[reqIntent[r]] = "pending" =>
       /\ reqStatus'[r] \in {"approved", "auto_approved"} => status'[reqIntent[r]] = "approved"
       /\ reqStatus'[r] = "expired" => status'[reqIntent[r]] = "rejected"

Dropped(r) == ~ alive' /\ reqStatus'[r] = "none"

\* A step as the intents and the requests see it.
StepView ==
  /\ \A i \in Intents : Untouched(i) \/ Proposed(i) \/ Moved(i) \/ Forgotten(i)
  /\ \A r \in Requests : Kept(r) \/ Opened(r) \/ Settled(r) \/ Dropped(r)
  /\ alive' => alive

LEMMA ProposalView ==
  ASSUME IInv, NEW i \in Intents, NEW k \in Proposals,
         ProposeWithoutRequest(i, k) \/ ProposeWithRequest(i, k)
  PROVE  StepView
<1> DEFINE d == Decide(mode, k)
<1>1. RecordProposal(i, k, d) /\ alive' = alive
  BY DEF ProposeWithoutRequest, ProposeWithRequest
<1>2. StatusAfter(d, k) \in {"pending", "approved", "rejected"} /\ ResolverAfter(d, k) # "approval"
  BY DEF StatusAfter, ResolverAfter, AfterGateway
<1>3. \A j \in Intents : IF j = i THEN Proposed(j) ELSE Untouched(j)
  BY <1>1, <1>2 DEF IInv, TypeOK, RecordProposal, Proposed, Untouched
<1>4. CASE ProposeWithoutRequest(i, k)
  BY <1>1, <1>3, <1>4 DEF StepView, ProposeWithoutRequest, managerVars, requestData, Kept
<1>5. CASE ProposeWithRequest(i, k)
  <2>1. PICK r \in Requests : OpenRequest(r, i, k, d)
    BY <1>5 DEF ProposeWithRequest
  <2>2. \A q \in Requests : IF q = r THEN Opened(q) ELSE Kept(q)
    BY <2>1 DEF IInv, TypeOK, OpenRequest, Opened, Kept
  <2> QED
    BY <1>1, <1>3, <2>2 DEF StepView
<1> QED
  BY <1>4, <1>5

\* A waiting request and what its verdict moves.
LEMMA SettleView ==
  ASSUME IInv, alive, NEW r \in Requests, reqStatus[r] = "waiting",
         NEW s \in {"approved", "rejected", "expired", "auto_approved"},
         NEW to \in {"approved", "rejected"}, Settle(r, s, to),
         \A q \in Requests \ {r} : approvals'[q] = approvals[q],
         to = "approved" <=> s \in {"approved", "auto_approved"},
         s = "approved" => Cardinality(approvals'[r]) >= required[r],
         s = "auto_approved" => ~ Flagged(data[reqIntent[r]])
  PROVE  StepView
<1> DEFINE i == reqIntent[r]
<1>1. i \in Intents /\ r2i[r] = i /\ status[i] \in {"pending", "cleared"}
  BY DEF IInv, NoZombieWaiter
<1>2. \A j \in Intents \ {i} : Untouched(j)
  BY <1>1 DEF IInv, TypeOK, Settle, EngineMoves, Untouched
<1>3. \A q \in Requests \ {r} : Kept(q)
  BY DEF IInv, TypeOK, Settle, Finalize, Kept
<1>4. reqStatus'[r] = s /\ reqIntent'[r] = i /\ required'[r] = required[r]
  BY DEF IInv, TypeOK, Settle, Finalize
<1>5. CASE status[i] = "pending"
  <2>1. /\ status'[i] = to /\ resolver'[i] = "approval" /\ data'[i] = data[i]
        /\ published'[i] = Append(published[i], to)
    BY <1>1, <1>5 DEF IInv, TypeOK, Settle, EngineMoves
  <2>2. to = "approved" => Consents(r, i)
    BY <1>4 DEF Consents
  <2>3. Moved(i)
    BY <1>5, <2>1, <2>2 DEF Moved, LegalSteps
  <2>4. Settled(r)
    BY <1>4, <2>1 DEF Settled
  <2> QED
    BY <1>2, <1>3, <2>3, <2>4 DEF StepView, Settle
<1>6. CASE status[i] = "cleared"
  <2>1. Untouched(i)
    BY <1>1, <1>6 DEF IInv, TypeOK, Settle, EngineMoves, Untouched
  <2>2. Settled(r)
    BY <1>4, <1>6 DEF Settled
  <2> QED
    BY <1>2, <1>3, <2>1, <2>2 DEF StepView, Settle
<1> QED
  BY <1>1, <1>5, <1>6

LEMMA PeopleView ==
  ASSUME IInv, People
  PROVE  StepView
<1>1. ASSUME NEW r \in Requests, NEW u \in Approvers, ApproveShort(r, u)
      PROVE  StepView
  <2>1. \A i \in Intents : Untouched(i)
    BY <1>1 DEF ApproveShort, engineVars, Untouched
  <2>2. \A q \in Requests : Kept(q)
    BY <1>1 DEF ApproveShort, RecordApproval, Waiting, IInv, TypeOK, Kept
  <2> QED
    BY <1>1, <2>1, <2>2 DEF StepView, ApproveShort
<1>2. ASSUME NEW r \in Requests, NEW u \in Approvers, ApproveFinal(r, u)
      PROVE  StepView
  <2>1. /\ alive /\ reqStatus[r] = "waiting" /\ Settle(r, "approved", "approved")
        /\ approvals' = [approvals EXCEPT ![r] = @ \cup {u}]
        /\ Cardinality(approvals[r] \cup {u}) >= required[r]
    BY <1>2 DEF ApproveFinal, RecordApproval, Waiting
  <2>2. /\ approvals'[r] = approvals[r] \cup {u}
        /\ \A q \in Requests \ {r} : approvals'[q] = approvals[q]
    BY <2>1 DEF IInv, TypeOK
  <2> QED
    BY <2>1, <2>2, SettleView
<1>3. ASSUME NEW r \in Requests, Reject(r)
      PROVE  StepView
  BY <1>3, SettleView DEF Reject
<1> QED
  BY <1>1, <1>2, <1>3 DEF People

LEMMA TimersView ==
  ASSUME IInv, Timers
  PROVE  StepView
<1>1. ASSUME NEW r \in Requests, CountdownFires(r)
      PROVE  StepView
  <2>1. alive /\ reqStatus[r] = "waiting" /\ ~ Flagged(data[reqIntent[r]])
    BY <1>1 DEF CountdownFires, IInv, NoStrayTimer, CountdownOnlyForUnflagged
  <2> QED
    BY <1>1, <2>1, SettleView DEF CountdownFires
<1>2. ASSUME NEW r \in Requests, TimeoutFires(r)
      PROVE  StepView
  <2>1. alive /\ reqStatus[r] = "waiting"
    BY <1>2 DEF TimeoutFires, IInv, NoStrayTimer
  <2> QED
    BY <1>2, <2>1, SettleView DEF TimeoutFires
<1> QED
  BY <1>1, <1>2 DEF Timers

LEMMA EngineView ==
  ASSUME IInv, Engine
  PROVE  StepView
<1>1. ASSUME NEW i \in Intents, NEW s \in {"approved", "rejected", "invalidated"},
             EngineResolves(i, s)
      PROVE  StepView
  <2>1. \A j \in Intents \ {i} : Untouched(j)
    BY <1>1 DEF IInv, TypeOK, EngineResolves, EngineMoves, Untouched
  <2>2. /\ status'[i] = s /\ resolver'[i] = "caller" /\ data'[i] = data[i]
        /\ published'[i] = Append(published[i], s)
    BY <1>1 DEF IInv, TypeOK, EngineResolves, EngineMoves
  <2>3. Moved(i)
    BY <1>1, <2>2 DEF EngineResolves, Moved, LegalSteps
  <2>4. \A r \in Requests : Kept(r) \/ Settled(r)
    BY <1>1 DEF IInv, TypeOK, EngineResolves, Finalize, requestData, Kept, Settled
  <2> QED
    BY <1>1, <2>1, <2>3, <2>4 DEF StepView, EngineResolves
<1>2. ASSUME NEW i \in Intents, Executes(i)
      PROVE  StepView
  <2>1. PICK step \in {<<"approved", "executing">>, <<"executing", "completed">>,
                       <<"executing", "failed">>} :
          status[i] = step[1] /\ EngineMoves({i}, step[2], resolver[i])
    BY <1>2 DEF Executes
  <2>2. \A j \in Intents \ {i} : Untouched(j)
    BY <2>1 DEF IInv, TypeOK, EngineMoves, Untouched
  <2>3. /\ status'[i] = step[2] /\ resolver'[i] = resolver[i] /\ data'[i] = data[i]
        /\ published'[i] = Append(published[i], step[2])
    BY <2>1 DEF IInv, TypeOK, EngineMoves
  <2>4. <<step[1], step[2]>> \in LegalSteps /\ step[2] # "approved"
    BY DEF LegalSteps
  <2>5. Moved(i)
    BY <2>1, <2>3, <2>4 DEF Moved
  <2> QED
    BY <1>2, <2>2, <2>5 DEF StepView, Executes, managerVars, requestData, Kept
<1>3. ASSUME Purge \/ ClearEngine
      PROVE  StepView
  <2>1. \A i \in Intents : Untouched(i) \/ Forgotten(i)
    BY <1>3 DEF Purge, ClearEngine, IInv, TypeOK, Untouched, Forgotten, Lifecycle!Present
  <2> QED
    BY <1>3, <2>1 DEF StepView, Purge, ClearEngine, managerVars, requestData, Kept
<1> QED
  BY <1>1, <1>2, <1>3 DEF Engine

LEMMA ModeView ==
  ASSUME IInv, NEW next, ChangeMode(next)
  PROVE  StepView
<1>1. \A i \in Intents : Untouched(i) \/ Moved(i)
  BY DEF ChangeMode, EngineMoves, IInv, TypeOK, Untouched, Moved, LegalSteps
<1>2. \A r \in Requests : Kept(r) \/ Settled(r)
  BY DEF ChangeMode, Finalize, requestData, IInv, TypeOK, Kept, Settled
<1> QED
  BY <1>1, <1>2 DEF StepView, ChangeMode

LEMMA Viewed == IInv /\ [Next]_vars => StepView
<1> SUFFICES ASSUME IInv, [Next]_vars PROVE StepView
  OBVIOUS
<1>1. CASE Propose
  BY <1>1, ProposalView DEF Propose
<1>2. CASE ModeSwitch
  BY <1>2, ModeView DEF ModeSwitch, Undo
<1>3. CASE Destroy
  BY <1>3 DEF StepView, Destroy, engineVars, Untouched, Dropped
<1>4. CASE UNCHANGED vars
  BY <1>4 DEF StepView, vars, engineVars, managerVars, requestData, Untouched, Kept
<1> QED
  BY <1>1, <1>2, <1>3, <1>4, PeopleView, TimersView, EngineView DEF Next

-------------------------------------------------------------------------------
(* What the observers see, and what stands behind an approval               *)

LEMMA ObserversStep == IInv /\ ObserversSeeTheLife /\ StepView => ObserversSeeTheLife'
<1> SUFFICES ASSUME IInv, ObserversSeeTheLife, StepView, NEW i \in Intents
             PROVE  LET seen == published'[i] IN
                    /\ \A n \in 1 .. Len(seen) - 1 : <<seen[n], seen[n + 1]>> \in LegalSteps
                    /\ seen # <<>> => seen[1] = "pending"
                    /\ status'[i] \in Lifecycle!Present => seen # <<>> /\ seen[Len(seen)] = status'[i]
  BY DEF ObserversSeeTheLife
<1> DEFINE was == published[i]
<1>1. /\ \A n \in 1 .. Len(was) - 1 : <<was[n], was[n + 1]>> \in LegalSteps
      /\ was # <<>> => was[1] = "pending"
      /\ status[i] \in Lifecycle!Present => was # <<>> /\ was[Len(was)] = status[i]
      /\ was \in Seq(IntentStatus)
  BY DEF ObserversSeeTheLife, IInv, TypeOK
<1> HIDE DEF was
<1>2. CASE Untouched(i)
  BY <1>1, <1>2 DEF Untouched, was
<1>3. CASE Proposed(i)
  BY <1>3 DEF Proposed, LegalSteps
<1>4. CASE Moved(i)
  <2>1. status[i] \in Lifecycle!Present
    BY <1>4 DEF Moved, LegalSteps, Lifecycle!Present, Lifecycle!Terminal
  <2>2. /\ published'[i] = Append(was, status'[i]) /\ was # <<>> /\ was[Len(was)] = status[i]
        /\ <<status[i], status'[i]>> \in LegalSteps /\ was[1] = "pending"
    BY <1>1, <1>4, <2>1 DEF Moved, was
  <2>3. /\ Len(published'[i]) = Len(was) + 1 /\ Len(was) \in Nat \ {0}
        /\ \A n \in 1 .. Len(was) : published'[i][n] = was[n]
        /\ published'[i][Len(was) + 1] = status'[i]
    BY <1>1, <2>2
  <2>4. ASSUME NEW n \in 1 .. Len(was)
        PROVE  <<published'[i][n], published'[i][n + 1]>> \in LegalSteps
    <3>1. CASE n < Len(was)
      <4>1. n \in 1 .. Len(was) - 1 /\ n + 1 \in 1 .. Len(was)
        BY <2>3, <3>1
      <4> QED
        BY <1>1, <2>3, <4>1
    <3>2. CASE n = Len(was)
      BY <2>2, <2>3, <3>2
    <3> QED
      BY <2>3, <3>1, <3>2
  <2> QED
    BY <2>2, <2>3, <2>4
<1>5. CASE Forgotten(i)
  BY <1>1, <1>5 DEF Forgotten, Lifecycle!Present, Lifecycle!Terminal, was
<1> QED
  BY <1>2, <1>3, <1>4, <1>5 DEF StepView

Contains(seq, s) == \E n \in DOMAIN seq : seq[n] = s

\* What was published stays so, but of an intent that is proposed anew there
\* is nothing to keep.
LEMMA PublishedStays ==
  ASSUME IInv, StepView, NEW i \in Intents, NEW s, Contains(published[i], s),
         status[i] # "none"
  PROVE  Contains(published'[i], s)
<1>1. published[i] \in Seq(IntentStatus)
  BY DEF IInv, TypeOK
<1>2. PICK n \in DOMAIN published[i] : published[i][n] = s
  BY DEF Contains
<1>3. CASE published'[i] = published[i]
  BY <1>2, <1>3 DEF Contains
<1>4. CASE published'[i] = Append(published[i], status'[i])
  BY <1>1, <1>2, <1>4 DEF Contains
<1> QED
  BY <1>3, <1>4 DEF StepView, Untouched, Proposed, Moved, Forgotten

LEMMA MovedIsPublished ==
  ASSUME IInv, NEW i \in Intents, Moved(i)
  PROVE  Contains(published'[i], status'[i])
<1>1. published[i] \in Seq(IntentStatus) /\ published'[i] = Append(published[i], status'[i])
  BY DEF IInv, TypeOK, Moved
<1> QED
  BY <1>1 DEF Contains

VerdictReaches(r) ==
  reqStatus[r] # "none" /\ status[reqIntent[r]] # "cleared" =>
    /\ reqStatus[r] \in {"approved", "auto_approved"} => Contains(published[reqIntent[r]], "approved")
    /\ reqStatus[r] = "expired" => Contains(published[reqIntent[r]], "rejected")

LEMMA VerdictByRequest == VerdictReachesIntent <=> \A r \in Requests : VerdictReaches(r)
  BY DEF VerdictReachesIntent, VerdictReaches, Published, Contains

LEMMA VerdictStep ==
  IInv /\ (\A r \in Requests : VerdictReaches(r)) /\ StepView
    => (\A r \in Requests : VerdictReaches(r))'
<1> SUFFICES ASSUME IInv, \A r \in Requests : VerdictReaches(r), StepView,
                    NEW r \in Requests, reqStatus'[r] # "none",
                    status'[reqIntent'[r]] # "cleared"
             PROVE  /\ reqStatus'[r] \in {"approved", "auto_approved"}
                         => Contains(published'[reqIntent'[r]], "approved")
                    /\ reqStatus'[r] = "expired"
                         => Contains(published'[reqIntent'[r]], "rejected")
  BY DEF VerdictReaches
<1> DEFINE i == reqIntent[r]
<1>1. CASE Opened(r)
  BY <1>1 DEF Opened
<1>2. CASE Kept(r)
  <2>1. i \in Intents /\ status[i] # "none" /\ reqIntent'[r] = i /\ reqStatus'[r] = reqStatus[r]
    BY <1>2 DEF Kept, IInv, RequestsNameProposals
  <2>2. status[i] # "cleared"
    BY <2>1 DEF StepView, Untouched, Proposed, Moved, Forgotten, LegalSteps, Lifecycle!Present,
       Lifecycle!Terminal
  <2>3. /\ reqStatus[r] \in {"approved", "auto_approved"} => Contains(published[i], "approved")
        /\ reqStatus[r] = "expired" => Contains(published[i], "rejected")
    BY <2>1, <2>2 DEF VerdictReaches
  <2> QED
    BY <2>1, <2>3, PublishedStays
<1>3. CASE Settled(r)
  <2>1. i \in Intents /\ status[i] \in {"pending", "cleared"} /\ reqIntent'[r] = i
    BY <1>3 DEF Settled, IInv, NoZombieWaiter
  <2>2. status[i] = "pending"
    BY <2>1 DEF StepView, Untouched, Proposed, Moved, Forgotten, LegalSteps, Lifecycle!Present,
       Lifecycle!Terminal
  <2>3. status'[i] \in {"approved", "rejected"} => Moved(i)
    BY <2>1, <2>2 DEF StepView, Untouched, Proposed, Forgotten
  <2> QED
    BY <1>3, <2>1, <2>2, <2>3, MovedIsPublished DEF Settled
<1> QED
  BY <1>1, <1>2, <1>3 DEF StepView, Dropped

\* The legal life of an intent that still waits is its proposal.
LEMMA PendingWasNotApproved ==
  ASSUME IInv, ObserversSeeTheLife, NEW i \in Intents, status[i] = "pending"
  PROVE  ~ Contains(published[i], "approved")
<1> DEFINE seen == published[i]
<1>1. /\ \A n \in 1 .. Len(seen) - 1 : <<seen[n], seen[n + 1]>> \in LegalSteps
      /\ seen # <<>> /\ seen[Len(seen)] = "pending" /\ seen \in Seq(IntentStatus)
  BY DEF ObserversSeeTheLife, IInv, TypeOK, Lifecycle!Present
<1> HIDE DEF seen
<1>2. Len(seen) \in Nat \ {0}
  BY <1>1
<1>3. Len(seen) = 1
  <2> SUFFICES ASSUME Len(seen) # 1 PROVE FALSE
    OBVIOUS
  <2> DEFINE n == Len(seen)
  <2>1. n - 1 \in 1 .. n - 1 /\ (n - 1) + 1 = n
    <3>1. n \in Nat \ {0, 1}
      BY <1>2
    <3> HIDE DEF n
    <3> QED
      BY <3>1
  <2>2. <<seen[Len(seen) - 1], "pending">> \in LegalSteps
    BY <1>1, <2>1
  <2> QED
    BY <2>2 DEF LegalSteps
<1>4. ~ Contains(seen, "approved")
  BY <1>1, <1>3 DEF Contains
<1> QED
  BY <1>4 DEF seen

\* Request r stands behind the approval of intent i.
Backs(r, i) ==
  /\ reqIntent[r] = i
  /\ \/ reqStatus[r] = "approved" /\ Cardinality(approvals[r]) >= required[r]
     \/ reqStatus[r] = "auto_approved" /\ ~ Flagged(data[i])

Backed(i) ==
  alive /\ resolver[i] = "approval" /\ Contains(published[i], "approved")
    => \E r \in Requests : Backs(r, i)

LEMMA ConsentByIntent == ApprovedByConsent <=> \A i \in Intents : Backed(i)
  BY DEF ApprovedByConsent, Backed, Backs, Published, Contains

LEMMA ConsentStep ==
  IInv /\ ObserversSeeTheLife /\ (\A i \in Intents : Backed(i)) /\ StepView
    => (\A i \in Intents : Backed(i))'
<1> SUFFICES ASSUME IInv, ObserversSeeTheLife, \A i \in Intents : Backed(i), StepView,
                    NEW i \in Intents, alive', resolver'[i] = "approval",
                    Contains(published'[i], "approved")
             PROVE  (\E r \in Requests : Backs(r, i))'
  BY DEF Backed
<1>1. alive /\ published[i] \in Seq(IntentStatus)
  BY DEF StepView, IInv, TypeOK
<1>2. ASSUME NEW r \in Requests, Backs(r, i), data'[i] = data[i]
      PROVE  Backs(r, i)'
  <2>1. Kept(r) /\ reqStatus[r] # "waiting"
    BY <1>2 DEF Backs, StepView, Opened, Settled, Dropped
  <2> QED
    BY <1>2, <2>1 DEF Backs, Kept, Flagged
<1>3. ASSUME NEW r \in Requests, Consents(r, i), data'[i] = data[i]
      PROVE  Backs(r, i)'
  BY <1>3 DEF Consents, Backs, Flagged
<1>4. CASE Untouched(i) \/ Forgotten(i)
  <2>1. \E r \in Requests : Backs(r, i)
    BY <1>1, <1>4 DEF Backed, Untouched, Forgotten
  <2> QED
    BY <1>2, <1>4, <2>1 DEF Untouched, Forgotten
<1>5. CASE Moved(i)
  <2>1. CASE resolver[i] = "approval" /\ status'[i] # "approved"
    <3>1. Contains(published[i], "approved")
      BY <1>1, <1>5, <2>1 DEF Moved, Contains
    <3> QED
      BY <1>1, <1>2, <1>5, <2>1, <3>1 DEF Backed, Moved
  <2>2. CASE status'[i] = "rejected" /\ status[i] = "pending"
    <3>1. Contains(published[i], "approved")
      BY <1>1, <1>5, <2>2 DEF Moved, Contains
    <3> QED
      BY <2>2, <3>1, PendingWasNotApproved
  <2>3. CASE \E r \in Requests : Consents(r, i)
    BY <1>3, <1>5, <2>3 DEF Moved
  <2> QED
    BY <1>5, <2>1, <2>2, <2>3 DEF Moved
<1> QED
  BY <1>4, <1>5 DEF StepView, Proposed

-------------------------------------------------------------------------------

LEMMA InitHistory ==
  Init => /\ ObserversSeeTheLife
          /\ \A r \in Requests : VerdictReaches(r)
          /\ \A i \in Intents : Backed(i)
  BY DEF Init, ObserversSeeTheLife, VerdictReaches, Backed, Contains, Lifecycle!Present,
     Lifecycle!Terminal

\* What observers of the bus see of an intent is a legal life that ends in its status.
THEOREM ObserversAreRight == Spec => []ObserversSeeTheLife
<1>1. IInv /\ [Next]_vars /\ ObserversSeeTheLife => ObserversSeeTheLife'
  BY Viewed, ObserversStep
<1> QED
  BY <1>1, InitHistory, StackIsConsistent, PTL DEF Spec

\* A request's verdict reaches its intent, unless the engine was cleared.
THEOREM VerdictsArrive == Spec => []VerdictReachesIntent
<1> DEFINE Inv == \A r \in Requests : VerdictReaches(r)
<1>1. IInv /\ [Next]_vars /\ Inv => Inv'
  BY Viewed, VerdictStep
<1>2. Init => Inv
  BY InitHistory
<1>3. Inv => VerdictReachesIntent
  BY VerdictByRequest
<1> HIDE DEF Inv
<1> QED
  BY <1>1, <1>2, <1>3, StackIsConsistent, PTL DEF Spec

\* Nothing is approved in the manager's name without the people its policy asks
\* for, or a countdown that ran for an intent nobody need look at.
THEOREM ApprovalHasConsent == Spec => []ApprovedByConsent
<1> DEFINE Inv == \A i \in Intents : Backed(i)
<1>1. IInv /\ [Next]_vars /\ ObserversSeeTheLife /\ Inv => Inv'
  BY Viewed, ConsentStep
<1>2. Init => Inv
  BY InitHistory
<1>3. Inv => ApprovedByConsent
  BY ConsentByIntent
<1> HIDE DEF Inv
<1> QED
  BY <1>1, <1>2, <1>3, StackIsConsistent, ObserversAreRight, PTL DEF Spec
-------------------------------------------------------------------------------
(* Intents that nobody is asked about *)

\* Pending without a request: nobody is asked about it and no timer runs for it.
Held(i) == status[i] = "pending" /\ i2r[i] = None
HeldAfter(i) == status'[i] = "pending" /\ i2r'[i] = None

\* What a step may do to one: a caller of the engine resolves it or clears it.
HeldUntilResolved(i) ==
  Held(i) =>
    \/ HeldAfter(i)
    \/ /\ status'[i] \in {"approved", "rejected", "invalidated"}
       /\ resolver'[i] = "caller"
    \/ status'[i] = "cleared"

\* Where one comes from: it was proposed under a policy that holds it.
HeldSinceProposed(i) ==
  HeldAfter(i) =>
    \/ Held(i)
    \/ /\ status[i] = "none"
       /\ Decide(mode, data'[i]).kind = "hold_pending"

HeldStep == \A i \in Intents : HeldUntilResolved(i) /\ HeldSinceProposed(i)

LEMMA SameIsHeldStep ==
  ASSUME UNCHANGED <<status, i2r>>
  PROVE  HeldStep
  BY DEF HeldStep, HeldUntilResolved, HeldSinceProposed, Held, HeldAfter

LEMMA ProposalIsHeldStep ==
  ASSUME IInv, NEW i \in Intents, NEW k \in Proposals,
         ProposeWithoutRequest(i, k) \/ ProposeWithRequest(i, k)
  PROVE  HeldStep
<1> DEFINE d == Decide(mode, k)
<1>1. RecordProposal(i, k, d)
  BY DEF ProposeWithoutRequest, ProposeWithRequest
<1>2. status[i] = "none" /\ status'[i] = StatusAfter(d, k) /\ data'[i] = k
  BY <1>1 DEF RecordProposal, IInv, TypeOK
<1>3. \A j \in Intents \ {i} : status'[j] = status[j]
  BY <1>1 DEF RecordProposal, IInv, TypeOK
<1>4. \A j \in Intents \ {i} : i2r'[j] = i2r[j]
  BY DEF ProposeWithoutRequest, ProposeWithRequest, OpenRequest, gatewayVars, IInv, TypeOK
<1>5. \A j \in Intents \ {i} : HeldUntilResolved(j) /\ HeldSinceProposed(j)
  BY <1>3, <1>4 DEF HeldUntilResolved, HeldSinceProposed, Held, HeldAfter
<1>6. HeldUntilResolved(i)
  BY <1>2 DEF HeldUntilResolved, Held, HeldAfter
<1>7. HeldAfter(i) => d.kind = "hold_pending"
  <2>1. CASE ProposeWithoutRequest(i, k)
    <3>1. d.kind \in {"auto_approve", "auto_reject", "require_approval", "hold_pending"}
      BY DecideType, NoneApart DEF Decision, IInv, TypeOK
    <3>2. d.kind # "require_approval"
      BY <2>1 DEF ProposeWithoutRequest
    <3> QED
      BY <1>2, <3>1, <3>2 DEF HeldAfter, StatusAfter, AfterGateway
  <2>2. CASE ProposeWithRequest(i, k)
    <3>1. PICK r \in Requests : OpenRequest(r, i, k, d)
      BY <2>2 DEF ProposeWithRequest
    <3>2. PolicyApproves(d, k) => status'[i] = "approved"
      BY <1>2 DEF StatusAfter
    <3>3. ~ PolicyApproves(d, k) => i2r'[i] = r
      BY <3>1 DEF OpenRequest, IInv, TypeOK
    <3> QED
      BY <3>2, <3>3, NoneApart DEF HeldAfter
  <2> QED
    BY <2>1, <2>2
<1>8. HeldSinceProposed(i)
  BY <1>2, <1>7 DEF HeldSinceProposed
<1> QED
  BY <1>5, <1>6, <1>8 DEF HeldStep

\* A verdict concerns the intent of its pair and no other, so it can neither
\* reach an intent that has none nor take a request from one that stays pending.
LEMMA SettleIsHeldStep ==
  ASSUME IInv, NEW r \in Requests, NEW s, NEW to \in {"approved", "rejected"},
         Settle(r, s, to)
  PROVE  HeldStep
<1> SUFFICES ASSUME NEW i \in Intents PROVE HeldUntilResolved(i) /\ HeldSinceProposed(i)
  BY DEF HeldStep
<1>1. r2i[r] = i <=> i2r[i] = r
  BY DEF IInv, PairingConsistent
<1>2. CASE i2r[i] = r
  <2>1. ~ Held(i)
    BY <1>2, NoneApart DEF Held
  <2>2. status'[i] = IF status[i] = "pending" THEN to ELSE status[i]
    BY <1>1, <1>2 DEF Settle, EngineMoves, IInv, TypeOK
  <2> QED
    BY <2>1, <2>2 DEF HeldUntilResolved, HeldSinceProposed, Held, HeldAfter
<1>3. CASE i2r[i] # r
  <2>1. status'[i] = status[i] /\ i2r'[i] = i2r[i]
    BY <1>1, <1>3 DEF Settle, EngineMoves, ForgetPairs, IInv, TypeOK
  <2> QED
    BY <2>1 DEF HeldUntilResolved, HeldSinceProposed, Held, HeldAfter
<1> QED
  BY <1>2, <1>3

LEMMA EngineIsHeldStep ==
  ASSUME IInv, Engine
  PROVE  HeldStep
<1> SUFFICES ASSUME NEW i \in Intents PROVE HeldUntilResolved(i) /\ HeldSinceProposed(i)
  BY DEF HeldStep
<1> USE DEF HeldUntilResolved, HeldSinceProposed, Held, HeldAfter
<1>1. ASSUME NEW j \in Intents, NEW s \in {"approved", "rejected", "invalidated"},
             EngineResolves(j, s)
      PROVE  HeldUntilResolved(i) /\ HeldSinceProposed(i)
  <2>1. CASE i = j
    <3>1. status'[i] = s /\ resolver'[i] = "caller"
      BY <1>1, <2>1 DEF EngineResolves, EngineMoves, IInv, TypeOK
    <3> QED
      BY <3>1
  <2>2. CASE i # j
    <3>1. status'[i] = status[i]
      BY <1>1, <2>2 DEF EngineResolves, EngineMoves, IInv, TypeOK
    <3>2. i2r[i] \notin { r \in Requests : i2r[j] = r }
      <4> SUFFICES ASSUME i2r[i] \in Requests, i2r[j] = i2r[i] PROVE FALSE
        OBVIOUS
      <4>1. r2i[i2r[i]] = i /\ r2i[i2r[i]] = j
        BY DEF IInv, PairingConsistent
      <4> QED
        BY <2>2, <4>1
    <3>3. i2r'[i] = i2r[i]
      BY <1>1, <3>2 DEF EngineResolves, ForgetPairs
    <3> QED
      BY <3>1, <3>3
  <2> QED
    BY <2>1, <2>2
<1>2. ASSUME NEW j \in Intents, Executes(j)
      PROVE  HeldUntilResolved(i) /\ HeldSinceProposed(i)
  <2>1. PICK step \in {<<"approved", "executing">>, <<"executing", "completed">>,
                       <<"executing", "failed">>} :
          status[j] = step[1] /\ EngineMoves({j}, step[2], resolver[j])
    BY <1>2 DEF Executes
  <2>2. IF i = j THEN status[i] # "pending" /\ status'[i] # "pending"
                 ELSE status'[i] = status[i]
    BY <2>1 DEF EngineMoves, IInv, TypeOK
  <2>3. i2r' = i2r
    BY <1>2 DEF Executes, gatewayVars
  <2> QED
    BY <2>2, <2>3
<1>3. ASSUME Purge \/ ClearEngine
      PROVE  HeldUntilResolved(i) /\ HeldSinceProposed(i)
  <2>1. i2r' = i2r
    BY <1>3 DEF Purge, ClearEngine, gatewayVars
  <2>2. CASE Purge
    <3>1. \/ status'[i] = status[i]
          \/ status[i] \in Lifecycle!Terminal /\ status'[i] = "purged"
      BY <2>2 DEF Purge, IInv, TypeOK
    <3> QED
      BY <2>1, <3>1 DEF Lifecycle!Terminal
  <2>3. CASE ClearEngine
    <3>1. status'[i] = status[i] \/ status'[i] = "cleared"
      BY <2>3 DEF ClearEngine, IInv, TypeOK
    <3> QED
      BY <2>1, <3>1
  <2> QED
    BY <1>3, <2>2, <2>3
<1> QED
  BY <1>1, <1>2, <1>3 DEF Engine

LEMMA ChangeModeIsHeldStep ==
  ASSUME IInv, NEW next, ChangeMode(next)
  PROVE  HeldStep
<1> SUFFICES ASSUME NEW i \in Intents PROVE HeldUntilResolved(i) /\ HeldSinceProposed(i)
  BY DEF HeldStep
<1>1. (\E r \in Tracked : r2i[r] = i) <=> i2r[i] # None
  BY NoneApart DEF Tracked, IInv, TypeOK, PairingConsistent
<1>2. i2r'[i] = None
  BY DEF ChangeMode
<1>3. CASE i2r[i] = None
  <2>1. status'[i] = status[i]
    BY <1>1, <1>3 DEF ChangeMode, EngineMoves, IInv, TypeOK
  <2> QED
    BY <1>2, <1>3, <2>1 DEF HeldUntilResolved, HeldSinceProposed, Held, HeldAfter
<1>4. CASE i2r[i] # None
  <2>1. status'[i] # "pending"
    BY <1>1, <1>4 DEF ChangeMode, EngineMoves, IInv, TypeOK
  <2> QED
    BY <1>4, <2>1 DEF HeldUntilResolved, HeldSinceProposed, Held, HeldAfter
<1> QED
  BY <1>3, <1>4

LEMMA StepIsHeldStep == IInv /\ [Next]_vars => HeldStep
<1> SUFFICES ASSUME IInv, [Next]_vars PROVE HeldStep
  OBVIOUS
<1>1. CASE Propose
  BY <1>1, ProposalIsHeldStep DEF Propose
<1>2. CASE People
  <2>1. ASSUME NEW r \in Requests, NEW u \in Approvers, ApproveShort(r, u) PROVE HeldStep
    BY <2>1, SameIsHeldStep DEF ApproveShort, engineVars, gatewayVars
  <2>2. ASSUME NEW r \in Requests, NEW u \in Approvers, ApproveFinal(r, u) PROVE HeldStep
    BY <2>2, SettleIsHeldStep DEF ApproveFinal
  <2>3. ASSUME NEW r \in Requests, Reject(r) PROVE HeldStep
    BY <2>3, SettleIsHeldStep DEF Reject
  <2> QED
    BY <1>2, <2>1, <2>2, <2>3 DEF People
<1>3. CASE Timers
  BY <1>3, SettleIsHeldStep DEF Timers, CountdownFires, TimeoutFires
<1>4. CASE Engine
  BY <1>4, EngineIsHeldStep
<1>5. CASE ModeSwitch
  BY <1>5, ChangeModeIsHeldStep DEF ModeSwitch, Undo
<1>6. CASE Destroy
  BY <1>6, SameIsHeldStep DEF Destroy, engineVars, gatewayVars
<1>7. CASE UNCHANGED vars
  BY <1>7, SameIsHeldStep DEF vars, engineVars, gatewayVars
<1> QED
  BY <1>1, <1>2, <1>3, <1>4, <1>5, <1>6, <1>7 DEF Next

\* An intent that plan mode holds gets no request and no timer later, whatever
\* the mode changes to and whoever decides on others: it stays pending until a
\* caller resolves or clears it in the engine (permission-checker.ts:231).  And
\* no other intent is ever pending without a request.
THEOREM HeldIsForCallersToResolve == Spec => [][HeldStep]_vars
  BY StackIsConsistent, StepIsHeldStep, PTL DEF Spec
===============================================================================
