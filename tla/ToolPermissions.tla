--------------------------- MODULE ToolPermissions ---------------------------
(***************************************************************************)
(* How packages/core/src/permissions/manager.ts judges a tool call: four   *)
(* kinds of rules in order, then the mode.                                 *)
(*                                                                         *)
(* A call is a tool with its parameters.  The patterns of the rules are    *)
(* abstracted to the calls they match, and the key of the approval cache   *)
(* (session, tool and a path or the first 100 characters of a command) to  *)
(* a function that may give two calls the same key.                        *)
(***************************************************************************)
CONSTANTS Calls,
          BuiltinDenied, Denied, Allowed, Asked,  \* what the rules match
          SafeCalls,                              \* calls of the default allow tools
          Mode,                                   \* "permissive", "strict" or "default"
          Key                                     \* buildCacheKey()

ASSUME RulesAssumption ==
  /\ Calls # {}
  /\ BuiltinDenied \subseteq Calls /\ Denied \subseteq Calls
  /\ Allowed \subseteq Calls /\ Asked \subseteq Calls /\ SafeCalls \subseteq Calls
  /\ Mode \in {"permissive", "strict", "default"}
  /\ DOMAIN Key = Calls

Keys == {Key[c] : c \in Calls}

\* Rules 1 and 2; nothing overrides them.
Refused(c) == c \in BuiltinDenied \cup Denied

\* applyDefaultMode()
ByMode(c) ==
  IF Mode = "permissive" \/ (Mode = "default" /\ c \in SafeCalls) THEN "allow" ELSE "ask"

\* check(), before the cache and the user are asked.
Verdict(c) ==
  IF Refused(c) THEN "deny"
  ELSE IF c \in Allowed THEN "allow"
  ELSE IF c \in Asked THEN "ask" ELSE ByMode(c)
==============================================================================
