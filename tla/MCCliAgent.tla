----------------------------- MODULE MCCliAgent -----------------------------
(***************************************************************************)
(* Four calls: a built-in rule matches one, which an allow rule matches    *)
(* too; two need the user and share the key of the cache, as two commands  *)
(* do that begin with the same 100 characters; and one is of the Task      *)
(* tool, which an allow rule matches.                                      *)
(***************************************************************************)
EXTENDS CliAgent

CONSTANTS forbidden, ask1, ask2, task

FourCalls == {forbidden, ask1, ask2, task}
KeyOf == [c \in FourCalls |-> IF c = ask2 THEN ask1 ELSE c]
=============================================================================
