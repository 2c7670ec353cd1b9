------------------------------ MODULE CliAgent ------------------------------
(***************************************************************************)
(* The command line agent (apps/cli/src/index.ts): one process per prompt, *)
(* each with an agent loop that has hooks (packages/hooks) and permissions *)
(* (packages/core/src/permissions), and a session that is read at the      *)
(* start (--resume) and written at the end.                                *)
(*                                                                         *)
(* Processes are numbered in the order they are started; process p runs    *)
(* the run p of the agent p, so the loop of AgentLoop is used as it is,    *)
(* but for its tool phase: here every call passes a hook, the permission   *)
(* manager and perhaps the user before it is executed.                     *)
(*                                                                         *)
(* A hook is a command that may answer, fail, hang or time out.  Whatever  *)
(* it does but answer lets the action pass as it is.  What a hook does to  *)
(* the text of a prompt is left out.                                       *)
(*                                                                         *)
(* A call of the Task tool makes a subagent in the same process, which the *)
(* agent waits for or leaves in the background.  A subagent has a loop of  *)
(* its own, over the tools of the agent without Task, and that loop has    *)
(* neither hooks nor permissions: of it we keep the calls it executes.     *)
(***************************************************************************)
EXTENDS AgentLoop, ToolPermissions

CONSTANT TaskCalls   \* the calls of the Task tool

ASSUME CliAssumption ==
  /\ Agents = Runs /\ Runs \subseteq Nat \ {0}
  /\ TaskCalls \subseteq Calls

NoFile == [state |-> "none", messages |-> <<>>]
Torn == [state |-> "torn", messages |-> <<>>]
Written(messages) == [state |-> "written", messages |-> messages]

VARIABLES proc,      \* Runs -> "off", "on", "saving", "saved" or "exited"
          file,      \* the file of the session
          call,      \* Runs -> the call in hand: its stage, as asked for and as to run
          cache,     \* Runs -> approvalCache
          shown,     \* Runs -> the prompts the user was shown, as often as shown
          ran,       \* Runs -> the calls that the agent executed
          delegated, \* Runs -> the calls that its subagents executed
          background \* Runs -> is a subagent at work that nobody waits for?

cliVars == <<proc, file, call, cache, shown, ran, delegated, background>>
vars == <<loopVars, cliVars>>

Stages == {"none", "check", "asking", "execute", "delegating"}
Answers == {"unknown", "yes", "no"}

AnyCall == CHOOSE c \in Calls : TRUE
NoCall == [stage |-> "none", asked |-> AnyCall, runs |-> AnyCall]

TypeOK ==
  /\ LoopTypeOK
  /\ proc \in [Runs -> {"off", "on", "saving", "saved", "exited"}]
  /\ file \in [state : {"none", "torn", "written"}, messages : Seq(Messages)]
  /\ call \in [Runs -> [stage : Stages, asked : Calls, runs : Calls]]
  /\ cache \in [Runs -> [Keys -> Answers]]
  /\ shown \in [Runs -> Seq(Calls)]
  /\ ran \in [Runs -> SUBSET Calls]
  /\ delegated \in [Runs -> SUBSET Calls]
  /\ background \in [Runs -> BOOLEAN]
  /\ \A p \in Runs : call[p].stage # "none" => At(p, "executing") /\ proc[p] = "on"

Init ==
  /\ LoopInit
  /\ proc = [p \in Runs |-> "off"]
  /\ file = NoFile
  /\ call = [p \in Runs |-> NoCall]
  /\ cache = [p \in Runs |-> [k \in Keys |-> "unknown"]]
  /\ shown = [p \in Runs |-> <<>>]
  /\ ran = [p \in Runs |-> {}]
  /\ delegated = [p \in Runs |-> {}]
  /\ background = [p \in Runs |-> FALSE]

On(p) == proc[p] = "on"

-----------------------------------------------------------------------------
(* The process.                                                            *)

\* A new session, or the one in the file is resumed: load() and restore().  A
\* file that cannot be read ends the process at once, so a session that is
\* torn can only be left for a new one.
StartProcess(p) ==
  /\ proc[p] = "off" /\ \A q \in Runs : q < p => proc[q] = "exited"   \* one terminal
  /\ proc' = [proc EXCEPT ![p] = "on"]
  /\ run' = [run EXCEPT ![p].phase = "starting", ![p].agent = p]
  /\ \/ file' = NoFile /\ UNCHANGED context
     \/ /\ file.state = "written"
        /\ context' = [context EXCEPT ![p] = file.messages]
        /\ UNCHANGED file
  /\ UNCHANGED <<loopState, call, cache, shown, ran, delegated, background>>

\* With the process goes its memory; the file is what is left.
Exit(p) ==
  /\ proc' = [proc EXCEPT ![p] = "exited"]
  /\ run' = [run EXCEPT ![p] = [phase |-> "ended", agent |-> p, aborted |-> FALSE, attempt |-> 1,
                                text |-> FALSE, calls |-> <<>>, done |-> 0]]
  /\ context' = [context EXCEPT ![p] = <<>>]
  /\ loopState' = [loopState EXCEPT ![p] = [iteration |-> 0, isRunning |-> FALSE]]
  /\ call' = [call EXCEPT ![p] = NoCall]
  /\ cache' = [cache EXCEPT ![p] = [k \in Keys |-> "unknown"]]
  /\ shown' = [shown EXCEPT ![p] = <<>>]
  /\ ran' = [ran EXCEPT ![p] = {}]
  /\ delegated' = [delegated EXCEPT ![p] = {}]
  /\ background' = [background EXCEPT ![p] = FALSE]
  /\ UNCHANGED file

\* A session_start or user_prompt_submit hook blocks: an error that is not
\* recoverable, and process.exit(1).
PromptBlocked(p) == On(p) /\ (At(p, "starting") \/ At(p, "prompting")) /\ Exit(p)

\* So is the error of a request that failed for good.
RequestFails(p) == On(p) /\ At(p, "streaming") /\ Exit(p)

\* The user or the system ends the process, at whatever it is, also at a prompt.
Crash(p) == proc[p] \in {"on", "saving", "saved"} /\ Exit(p)

\* The loop by itself: what has no hook, no permission and no error.
Loop(p) ==
  /\ On(p)
  /\ \/ Begin(p) \/ Prompt(p) \/ Iterate(p) \/ LeaveLoop(p) \/ TextChunk(p) \/ Retry(p)
     \/ AddResult(p) \/ \E n \in 0 .. MaxCalls : Answer(p, n)
  /\ UNCHANGED cliVars

-----------------------------------------------------------------------------
(* One tool call (executeToolCallsWithHooks).                              *)

\* Mistake: the call stays in hand.
CallStaysInHand(p) ==
  /\ run' = [run EXCEPT ![p].done = 0, ![p].phase = "answering"]
  /\ UNCHANGED call

\* The call has its result, whatever became of it; the next one is up.
CallIsOver(p) ==
  LET last == run[p].done + 1 = Len(run[p].calls)
  IN /\ call' = [call EXCEPT ![p] = NoCall]
     /\ run' = [run EXCEPT ![p].done = IF last THEN 0 ELSE @ + 1,
                           ![p].phase = IF last THEN "answering" ELSE @]

\* The provider asked for c, and the pre_tool_use hooks make d of it.
PreToolUse(p, c, d) ==
  /\ On(p) /\ At(p, "executing") /\ call[p].stage = "none"
  /\ call' = [call EXCEPT ![p] = [stage |-> "check", asked |-> c, runs |-> d]]
  /\ UNCHANGED <<context, loopState, run, proc, file, cache, shown, ran, delegated, background>>

HookBlocksCall(p) ==
  /\ On(p) /\ At(p, "executing") /\ call[p].stage = "none"
  /\ CallIsOver(p)
  /\ UNCHANGED <<context, loopState, proc, file, cache, shown, ran, delegated, background>>

\* Mistake: the call is judged as the provider asked for it, before the hooks.
JudgedAsAsked(p) == call[p].asked

JudgedCall(p) == call[p].runs

\* handleAsk(): a call the cache knows is not shown again.
Cached(p) == cache[p][Key[JudgedCall(p)]]

\* The verdict of the rules and the cache.
Judged(p) ==
  LET v == Verdict(JudgedCall(p))
  IN IF v # "ask" THEN v
     ELSE IF Cached(p) = "yes" THEN "allow" ELSE IF Cached(p) = "no" THEN "deny" ELSE "ask"

\* check() lets the call pass, or starts to wait for the user.
Check(p) ==
  /\ On(p) /\ call[p].stage = "check" /\ Judged(p) # "deny"
  /\ IF Judged(p) = "allow"
       THEN call' = [call EXCEPT ![p].stage = "execute"] /\ UNCHANGED shown
       ELSE /\ call' = [call EXCEPT ![p].stage = "asking"]
            /\ shown' = [shown EXCEPT ![p] = Append(@, JudgedCall(p))]
  /\ UNCHANGED <<loopVars, proc, file, cache, ran, delegated, background>>

CheckDenies(p) ==
  /\ On(p) /\ call[p].stage = "check" /\ Judged(p) = "deny"
  /\ CallIsOver(p)
  /\ UNCHANGED <<context, loopState, proc, file, cache, shown, ran, delegated, background>>

\* Mistake: only a yes is remembered.
RememberYes(p, answer) ==
  cache' = IF answer = "yes" THEN [cache EXCEPT ![p][Key[JudgedCall(p)]] = answer] ELSE cache

Remember(p, answer) == cache' = [cache EXCEPT ![p][Key[JudgedCall(p)]] = answer]

UserApproves(p) ==
  /\ On(p) /\ call[p].stage = "asking"
  /\ Remember(p, "yes")
  /\ call' = [call EXCEPT ![p].stage = "execute"]
  /\ UNCHANGED <<loopVars, proc, file, shown, ran, delegated, background>>

UserDenies(p) ==
  /\ On(p) /\ call[p].stage = "asking"
  /\ Remember(p, "no")
  /\ CallIsOver(p)
  /\ UNCHANGED <<context, loopState, proc, file, shown, ran, delegated, background>>

\* The tool returns or throws, and the post_tool_use hooks run: a result in any
\* case.  A Task call may return at once, because it is refused or leaves its
\* subagent in the background, or wait for a subagent.
ExecuteCall(p) ==
  /\ On(p) /\ call[p].stage = "execute"
  /\ ran' = [ran EXCEPT ![p] = @ \cup {call[p].runs}]
  /\ \/ CallIsOver(p) /\ UNCHANGED background
     \/ /\ call[p].runs \in TaskCalls
        /\ CallIsOver(p)
        /\ background' = [background EXCEPT ![p] = TRUE]
     \/ /\ call[p].runs \in TaskCalls
        /\ call' = [call EXCEPT ![p].stage = "delegating"]
        /\ UNCHANGED <<run, background>>
  /\ UNCHANGED <<context, loopState, proc, file, cache, shown, delegated>>

\* A subagent executes what its model asks for, as it is asked for.
SubagentExecutes(p, c) ==
  /\ proc[p] \in {"on", "saved"}
  /\ call[p].stage = "delegating" \/ background[p]
  /\ delegated' = [delegated EXCEPT ![p] = @ \cup {c}]
  /\ UNCHANGED <<loopVars, proc, file, call, cache, shown, ran, background>>

\* The subagent the agent waits for ends, fails or is waited for too long.
SubagentReturns(p) ==
  /\ On(p) /\ call[p].stage = "delegating"
  /\ CallIsOver(p)
  /\ UNCHANGED <<context, loopState, proc, file, cache, shown, ran, delegated, background>>

BackgroundEnds(p) ==
  /\ background[p] /\ proc[p] \in {"on", "saved"}
  /\ background' = [background EXCEPT ![p] = FALSE]
  /\ UNCHANGED <<loopVars, proc, file, call, cache, shown, ran, delegated>>

ToolStep(p) ==
  \/ \E c, d \in Calls : PreToolUse(p, c, d)
  \/ HookBlocksCall(p) \/ Check(p) \/ CheckDenies(p) \/ ExecuteCall(p)

SubagentStep(p) ==
  \/ \E c \in Calls \ TaskCalls : SubagentExecutes(p, c)
  \/ SubagentReturns(p) \/ BackgroundEnds(p)

UserStep(p) == UserApproves(p) \/ UserDenies(p)

-----------------------------------------------------------------------------
(* The end of a run.                                                       *)

\* Mistake: the session is written while the results are still to come, at a
\* tool_call event.
SaveAtToolCall(p) ==
  /\ On(p) /\ (At(p, "finishing") \/ At(p, "executing")) /\ call[p].stage = "none"
  /\ proc' = [proc EXCEPT ![p] = "saving"]
  /\ file' = Torn
  /\ UNCHANGED <<loopVars, call, cache, shown, ran, delegated, background>>

\* The done event: writeFileSync() truncates the file ...
BeginSave(p) ==
  /\ On(p) /\ At(p, "finishing")
  /\ proc' = [proc EXCEPT ![p] = "saving"]
  /\ file' = Torn
  /\ UNCHANGED <<loopVars, call, cache, shown, ran, delegated, background>>

\* ... and writes it.
EndSave(p) ==
  /\ proc[p] = "saving"
  /\ proc' = [proc EXCEPT ![p] = "saved"]
  /\ file' = Written(context[p])
  /\ UNCHANGED <<loopVars, call, cache, shown, ran, delegated, background>>

\* The stop hook, the finally block, and main() returns; the process lasts as long
\* as a subagent in the background.
RunOver(p) == proc[p] = "saved" /\ ~background[p] /\ Exit(p)

Ending(p) == BeginSave(p) \/ EndSave(p) \/ RunOver(p)

Failing(p) == PromptBlocked(p) \/ RequestFails(p) \/ Crash(p)

Next == \E p \in Runs :
  \/ StartProcess(p) \/ Loop(p) \/ ToolStep(p) \/ SubagentStep(p) \/ UserStep(p)
  \/ Ending(p) \/ Failing(p)

Spec == Init /\ [][Next]_vars

-----------------------------------------------------------------------------
(* Properties.                                                             *)

\* A call that the agent itself executes is executed as it was judged: with the
\* parameters the hooks left, no rule against it, and a rule or mode for it or a
\* yes of the user to a call of the same key in the same process.  What its
\* subagents execute is judged by nobody (subagent.ts:123-133), whatever rules
\* there are against it; but there is none without a Task call that was judged
\* (loop.ts:447-578, manager.ts:270-327).
RanAsJudged ==
  \A p \in Runs :
    /\ \A c \in ran[p] :
         /\ ~Refused(c)
         /\ Verdict(c) = "allow" \/ \E i \in 1 .. Len(shown[p]) : Key[shown[p][i]] = Key[c]
    /\ delegated[p] # {} \/ background[p] => ran[p] \cap TaskCalls # {}

\* The user is shown one prompt per key and process, and after a no the agent
\* itself executes nothing of that key; a subagent, which asks nobody, may
\* (manager.ts:422-480).
AskedOnce ==
  \A p \in Runs :
    /\ \A i, j \in 1 .. Len(shown[p]) : Key[shown[p][i]] = Key[shown[p][j]] => i = j
    /\ \A c \in ran[p] : Verdict(c) = "ask" => cache[p][Key[c]] = "yes"

\* A session that can be resumed has every call of an assistant message with its
\* result behind it, the blocked, denied and failed ones included, and every
\* result with its call, but for those at its head whose call a compaction cut
\* away, although the process may end anywhere (index.ts:1250-1360).
SavedIsPaired == file.state = "written" => Paired(file.messages)
=============================================================================
