------------------------- MODULE MCPermissionGateway --------------------------
(***************************************************************************)
(* Small instances of the room's permission stack for TLC.                 *)
(***************************************************************************)
EXTENDS PermissionGateway, TLC

Caps(read, write, execute, propose, auto) ==
  [canRead |-> read, canWrite |-> write, canExecute |-> execute,
   canPropose |-> propose, autoApproveSafe |-> auto]

\* DEFAULT_MODE_RULES
DefaultModeRules ==
  [m \in PermissionMode |->
     CASE m = "plan" -> Caps(TRUE, FALSE, FALSE, TRUE, FALSE)
       [] m = "code" -> Caps(TRUE, TRUE, TRUE, TRUE, FALSE)
       [] m = "ask"  -> Caps(TRUE, FALSE, FALSE, FALSE, FALSE)
       [] m = "auto" -> Caps(TRUE, TRUE, TRUE, TRUE, TRUE)]

Policy(n, safe, moderate, timeout) ==
  [requiredApprovals |-> n, safeAutoApproveSeconds |-> safe,
   moderateAutoApproveSeconds |-> moderate, allowDangerousAutoApprove |-> FALSE,
   timeoutSeconds |-> timeout]

\* DEFAULT_APPROVAL_POLICIES, and two variants: code mode asks two people, and so
\* does auto mode, where nothing has a timeout.
DefaultPolicies ==
  [m \in PermissionMode |-> IF m = "auto" THEN Policy(1, 10, 30, 120)
                            ELSE Policy(1, 0, 0, 300)]

StricterCode == [DefaultPolicies EXCEPT !["code"] = Policy(2, 0, 0, 300)]

TwoPeoplePolicies == [StricterCode EXCEPT !["auto"] = Policy(2, 10, 0, 0)]

\* defaultAutoApprovalPolicy, off and switched on.
PolicyOff == [enabled |-> FALSE, allowedRisks |-> {Safe},
              allowedTypes |-> {"file_read", "search", "analyze"}]
PolicyOn  == [PolicyOff EXCEPT !.enabled = TRUE]

Kind(t, risk, sensitive) ==
  [type |-> t, risk |-> risk, confident |-> TRUE, sensitive |-> sensitive,
   risky |-> FALSE, large |-> FALSE]

SafeRead      == Kind("file_read", Safe, FALSE)
SensitiveRead == Kind("file_read", Safe, TRUE)
PlainEdit     == Kind("file_edit", Safe, FALSE)
Command       == Kind("command_run", Moderate, FALSE)

TwoKinds  == {PlainEdit, SensitiveRead}
FourKinds == {SafeRead, SensitiveRead, PlainEdit, Command}

Symmetric == Permutations(Intents) \cup Permutations(Requests) \cup Permutations(Approvers)
===============================================================================
