--------------------------- MODULE PermissionPolicy ---------------------------
(***************************************************************************)
(* The pure rules of packages/collab-permissions: the risk assessor, the   *)
(* mode capability matrix, the approval policies and decide(), which turns *)
(* a proposed intent into one of four decisions.  The engine's own         *)
(* auto-approval policy of packages/collab-ai is here too, since the       *)
(* gateway's behaviour depends on both.                                    *)
(*                                                                         *)
(* An intent is abstracted to what these rules can tell apart: its type,   *)
(* the risk its agent declared, whether its confidence clears the policy's *)
(* floor, whether its target path is sensitive or risky, and whether the   *)
(* edit is over the line threshold.                                        *)
(***************************************************************************)
EXTENDS Naturals

CONSTANTS
  ModeRules,     \* capability block of every mode
  Policies,      \* approval policy of every mode
  AutoApproval   \* the engine's policy: [enabled, allowedRisks, allowedTypes]

PermissionMode == {"plan", "code", "ask", "auto"}

\* Risk levels are their index in the LEVELS table of the assessor.
Safe      == 0
Moderate  == 1
Dangerous == 2
RiskLevel == {Safe, Moderate, Dangerous}

ReadTypes  == {"file_read", "search", "analyze"}
WriteTypes == {"file_create", "file_edit", "file_delete", "file_rename", "other"}
IntentType == ReadTypes \cup WriteTypes \cup {"command_run"}

\* The path (of a rename, the new one) and the size of an edit are those of the
\* action, whose type need not be the type of the intent.
IntentData ==
  [type : IntentType, risk : RiskLevel, confident : BOOLEAN,
   sensitive : BOOLEAN, risky : BOOLEAN, large : BOOLEAN]

Capabilities ==
  [canRead : BOOLEAN, canWrite : BOOLEAN, canExecute : BOOLEAN,
   canPropose : BOOLEAN, autoApproveSafe : BOOLEAN]

ApprovalPolicy ==
  [requiredApprovals : Nat, safeAutoApproveSeconds : Nat,
   moderateAutoApproveSeconds : Nat, allowDangerousAutoApprove : BOOLEAN,
   timeoutSeconds : Nat]

ASSUME PolicyAssumption ==
  /\ ModeRules \in [PermissionMode -> Capabilities]
  /\ Policies \in [PermissionMode -> ApprovalPolicy]
  /\ AutoApproval \in [enabled : BOOLEAN, allowedRisks : SUBSET RiskLevel,
                       allowedTypes : SUBSET IntentType]

-------------------------------------------------------------------------------
(* Risk assessment *)

AlwaysSafe      == {"file_read", "search", "analyze"}
AlwaysDangerous == {"command_run"}

MaxLevel(a, b) == IF a >= b THEN a ELSE b

Escalate(l) == IF l + 1 > Dangerous THEN Dangerous ELSE l + 1

BaseLevel(k) ==
  IF k.type \in AlwaysSafe THEN Safe
  ELSE IF k.type \in AlwaysDangerous THEN Dangerous ELSE Moderate

DeclaredLevel(k) == MaxLevel(BaseLevel(k), k.risk)

PathLevel(k) ==
  IF k.sensitive THEN Dangerous
  ELSE IF k.risky THEN Escalate(DeclaredLevel(k)) ELSE DeclaredLevel(k)

Assess(k) == IF k.large THEN Escalate(PathLevel(k)) ELSE PathLevel(k)

-------------------------------------------------------------------------------
(* The mode's answer to an assessed intent *)

CanAutoApprove(mode, level) ==
  /\ ModeRules[mode].autoApproveSafe
  /\ \/ level = Safe      /\ Policies[mode].safeAutoApproveSeconds > 0
     \/ level = Moderate  /\ Policies[mode].moderateAutoApproveSeconds > 0
     \/ level = Dangerous /\ Policies[mode].allowDangerousAutoApprove

AutoApproveCountdown(mode, level) ==
  IF ~ CanAutoApprove(mode, level) \/ level = Dangerous THEN 0
  ELSE IF level = Safe THEN Policies[mode].safeAutoApproveSeconds
       ELSE Policies[mode].moderateAutoApproveSeconds

ActionAllowed(mode, k) ==
  /\ k.type \in ReadTypes       => ModeRules[mode].canRead
  /\ k.type \in WriteTypes      => ModeRules[mode].canWrite
  /\ k.type = "command_run"     => ModeRules[mode].canExecute

Decision == [kind : {"auto_approve", "auto_reject", "hold_pending", "require_approval"},
             countdown : Nat, timeout : Nat, required : Nat]

Verdict(kind) == [kind |-> kind, countdown |-> 0, timeout |-> 0, required |-> 0]

RequireApproval(mode, countdown) ==
  [kind |-> "require_approval", countdown |-> countdown,
   timeout |-> Policies[mode].timeoutSeconds,
   required |-> Policies[mode].requiredApprovals]

\* First match wins.
Decide(mode, k) ==
  LET level     == Assess(k)
      countdown == AutoApproveCountdown(mode, level)
  IN  IF ~ (ModeRules[mode].canPropose /\ ActionAllowed(mode, k))
        THEN Verdict("auto_reject")
      ELSE IF mode = "plan"
        THEN Verdict("hold_pending")
      ELSE IF k.sensitive \/ level = Dangerous \/ ~ CanAutoApprove(mode, level)
        THEN RequireApproval(mode, 0)
      ELSE IF countdown > 0
        THEN RequireApproval(mode, countdown)
      ELSE Verdict("auto_approve")

-------------------------------------------------------------------------------
(* The engine's own policy: it reads the DECLARED risk, not the assessment *)

ShouldAutoApprove(k) ==
  /\ AutoApproval.enabled
  /\ k.risk \in AutoApproval.allowedRisks
  /\ k.type \in AutoApproval.allowedTypes
  /\ k.confident

===============================================================================
