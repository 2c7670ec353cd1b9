----------------------------- MODULE AgentLoop -----------------------------
(***************************************************************************)
(* The agent loop of packages/core (agent/loop.ts) with the context it     *)
(* keeps (context/manager.ts) and the router it asks (llm/router.ts).      *)
(*                                                                         *)
(* An agent has one context and one state record; every call of run() is a *)
(* generator that works on them.  Nothing in the loop keeps two runs of    *)
(* one agent apart: their steps interleave at the awaits.                  *)
(*                                                                         *)
(* Abstractions.  The loop is the one its interactive user, the desktop,   *)
(* builds: no hooks and no permission manager (CliAgent puts both in the   *)
(* place of the tool phase).  The system message is always there and never *)
(* cut, so it is left out.  Every message counts as one token.  Of an      *)
(* answer we keep whether it has text and how many tools it calls; of a    *)
(* tool, that it returns (an exception becomes a result).  An adapter      *)
(* emits the tool calls last, so an answer that fails has none.            *)
(***************************************************************************)
EXTENDS Naturals, Sequences

CONSTANTS Agents, Runs,    \* the agents and the calls of run()
          MaxIterations,   \* config.maxIterations
          RetryAttempts,   \* attempts of the router at its one provider
          Threshold,       \* messages that fit before compaction
          KeepRecent,      \* config.keepRecentMessages
          MaxCalls         \* bound: tool calls in one answer

ASSUME LoopAssumption ==
  /\ Agents # {}
  /\ MaxIterations \in Nat \ {0} /\ RetryAttempts \in Nat \ {0}
  /\ Threshold \in Nat /\ KeepRecent \in Nat /\ MaxCalls \in Nat

VARIABLES context,    \* Agents -> the messages of ContextManager
          loopState,  \* Agents -> AgentState: iteration and isRunning
          run         \* Runs -> the locals of one call of run()

loopVars == <<context, loopState, run>>

Phases == {"new", "starting", "prompting", "top", "streaming", "executing",
           "answering", "finishing", "ended"}

\* The id of the n-th call of the i-th iteration of run r.
CallIds == Runs \X (0 .. MaxIterations) \X (1 .. MaxCalls)

User(r) == [role |-> "user", run |-> r]
Assistant(calls) == [role |-> "assistant", calls |-> calls]
Tool(call) == [role |-> "tool", call |-> call]

Messages == {User(r) : r \in Runs} \cup [role : {"assistant"}, calls : Seq(CallIds)]
              \cup {Tool(c) : c \in CallIds}

RunLocals == [phase : Phases, agent : Agents, aborted : BOOLEAN, attempt : 1 .. RetryAttempts,
              text : BOOLEAN, calls : Seq(CallIds), done : 0 .. MaxCalls]

LoopTypeOK ==
  /\ context \in [Agents -> Seq(Messages)]
  /\ loopState \in [Agents -> [iteration : 0 .. MaxIterations, isRunning : BOOLEAN]]
  /\ run \in [Runs -> RunLocals]

LoopInit ==
  /\ context = [a \in Agents |-> <<>>]
  /\ loopState = [a \in Agents |-> [iteration |-> 0, isRunning |-> FALSE]]
  /\ run = [r \in Runs |-> [phase |-> "new", agent |-> CHOOSE a \in Agents : TRUE,
                            aborted |-> FALSE, attempt |-> 1, text |-> FALSE,
                            calls |-> <<>>, done |-> 0]]

Active(r) == run[r].phase \notin {"new", "ended"}
At(r, p) == run[r].phase = p
Iteration(r) == loopState[run[r].agent].iteration

-----------------------------------------------------------------------------
(* The context.                                                            *)

NeedsCompaction(msgs) == Len(msgs) > Threshold

\* slice(-keepRecentMessages): all of them when the count is 0.
Recent(msgs) ==
  IF KeepRecent = 0 \/ KeepRecent >= Len(msgs)
    THEN msgs
    ELSE SubSeq(msgs, Len(msgs) - KeepRecent + 1, Len(msgs))

Compacted(msgs) == IF NeedsCompaction(msgs) THEN Recent(msgs) ELSE msgs

AddMessage(a, m) == context' = [context EXCEPT ![a] = Compacted(Append(@, m))]

-----------------------------------------------------------------------------
(* One action per stretch of run() between two awaits.                     *)

\* The consumer calls run() and asks for the first event.
Start(r, a) ==
  /\ At(r, "new")
  /\ run' = [run EXCEPT ![r].phase = "starting", ![r].agent = a]
  /\ UNCHANGED <<context, loopState>>

Begin(r) ==
  /\ At(r, "starting")
  /\ loopState' = [loopState EXCEPT ![run[r].agent] = [iteration |-> 0, isRunning |-> TRUE]]
  /\ run' = [run EXCEPT ![r].phase = "prompting"]
  /\ UNCHANGED context

Prompt(r) ==
  /\ At(r, "prompting")
  /\ AddMessage(run[r].agent, User(r))
  /\ run' = [run EXCEPT ![r].phase = "top"]
  /\ UNCHANGED loopState

\* One more iteration: the context is compacted if need be and sent.
NextIteration(r) ==
  /\ loopState' = [loopState EXCEPT ![run[r].agent].iteration = @ + 1]
  /\ context' = [context EXCEPT ![run[r].agent] = Compacted(@)]
  /\ run' = [run EXCEPT ![r].phase = "streaming", ![r].attempt = 1, ![r].text = FALSE,
                        ![r].calls = <<>>, ![r].done = 0]

\* Mistake: the iteration is compared after it was counted.
IterateOnceMore(r) ==
  At(r, "top") /\ Iteration(r) <= MaxIterations /\ ~run[r].aborted /\ NextIteration(r)

Iterate(r) ==
  At(r, "top") /\ Iteration(r) < MaxIterations /\ ~run[r].aborted /\ NextIteration(r)

\* Mistake: only a stop leaves the loop.
LeaveLoopIfStopped(r) ==
  /\ At(r, "top") /\ run[r].aborted
  /\ run' = [run EXCEPT ![r].phase = "finishing"]
  /\ UNCHANGED <<context, loopState>>

\* The loop is left: the signal is set or the iterations are used up.
LeaveLoop(r) ==
  /\ At(r, "top") /\ (Iteration(r) >= MaxIterations \/ run[r].aborted)
  /\ run' = [run EXCEPT ![r].phase = "finishing"]
  /\ UNCHANGED <<context, loopState>>

TextChunk(r) ==
  /\ At(r, "streaming") /\ ~run[r].aborted /\ ~run[r].text
  /\ run' = [run EXCEPT ![r].text = TRUE]
  /\ UNCHANGED <<context, loopState>>

\* The signal is looked at when a chunk arrives, whatever the chunk.
AbortSeen(r) ==
  /\ At(r, "streaming") /\ run[r].aborted
  /\ run' = [run EXCEPT ![r].phase = "finishing"]
  /\ UNCHANGED <<context, loopState>>

\* The router tries again; the text of the failed attempt stays.
Retry(r) ==
  /\ At(r, "streaming") /\ run[r].attempt < RetryAttempts
  /\ run' = [run EXCEPT ![r].attempt = @ + 1]
  /\ UNCHANGED <<context, loopState>>

\* An error that is not retryable, or the last attempt failed.
ChatFails(r) ==
  /\ At(r, "streaming")
  /\ run' = [run EXCEPT ![r].phase = "finishing"]
  /\ UNCHANGED <<context, loopState>>

\* The answer is complete, with n tool calls; without any the run is over.
Answer(r, n) ==
  LET calls == [i \in 1 .. n |-> <<r, Iteration(r), i>>]
  IN /\ At(r, "streaming") /\ ~run[r].aborted
     /\ IF run[r].text \/ n > 0
          THEN AddMessage(run[r].agent, Assistant(calls))
          ELSE UNCHANGED context
     /\ run' = [run EXCEPT ![r].calls = calls,
                           ![r].phase = IF n > 0 THEN "executing" ELSE "finishing"]
     /\ UNCHANGED loopState

\* The tools run one after another; the loop does not look at the signal.
Execute(r) ==
  LET last == run[r].done + 1 = Len(run[r].calls)
  IN /\ At(r, "executing")
     /\ run' = [run EXCEPT ![r].done = IF last THEN 0 ELSE @ + 1,
                           ![r].phase = IF last THEN "answering" ELSE @]
     /\ UNCHANGED <<context, loopState>>

\* Mistake: a stop ends the tool phase at once, and the results that are still
\* to be added are dropped.
AddResultUnlessStopped(r) ==
  LET i == run[r].done + 1
      over == run[r].aborted \/ i = Len(run[r].calls)
  IN /\ At(r, "answering")
     /\ IF run[r].aborted
          THEN UNCHANGED context
          ELSE AddMessage(run[r].agent, Tool(run[r].calls[i]))
     /\ run' = [run EXCEPT ![r].done = i, ![r].phase = IF over THEN "top" ELSE @]
     /\ UNCHANGED loopState

\* Their results enter the context one after another.
AddResult(r) ==
  LET i == run[r].done + 1
  IN /\ At(r, "answering")
     /\ AddMessage(run[r].agent, Tool(run[r].calls[i]))
     /\ run' = [run EXCEPT ![r].done = i,
                           ![r].phase = IF i = Len(run[r].calls) THEN "top" ELSE @]
     /\ UNCHANGED loopState

\* The closing events, if any, and the finally block.
Finish(r) ==
  /\ At(r, "finishing")
  /\ loopState' = [loopState EXCEPT ![run[r].agent].isRunning = FALSE]
  /\ run' = [run EXCEPT ![r].phase = "ended"]
  /\ UNCHANGED context

\* What the loop does by itself between its start and its end.
LoopStep(r) ==
  \/ Begin(r) \/ Prompt(r) \/ Iterate(r) \/ LeaveLoop(r) \/ TextChunk(r) \/ AbortSeen(r)
  \/ Retry(r) \/ ChatFails(r) \/ Execute(r) \/ AddResult(r)
  \/ \E n \in 0 .. MaxCalls : Answer(r, n)

-----------------------------------------------------------------------------
(* Calls and results belong together in the messages a provider is sent.   *)

\* The results of an assistant message follow it, all of them and in order.
CallsAnswered(msgs) ==
  \A i \in 1 .. Len(msgs) :
     msgs[i].role = "assistant" =>
       \A k \in 1 .. Len(msgs[i].calls) :
          i + k <= Len(msgs) /\ msgs[i + k] = Tool(msgs[i].calls[k])

\* A result stands where its call wants it, unless there are but results before
\* it: those at the head, whose call a compaction has cut away.
ResultsInPlace(msgs) ==
  \A i \in 1 .. Len(msgs) :
     msgs[i].role = "tool" =>
       \/ \A j \in 1 .. i : msgs[j].role = "tool"
       \/ \E j \in 1 .. i - 1 : /\ msgs[j].role = "assistant"
                               /\ i - j <= Len(msgs[j].calls)
                               /\ msgs[i] = Tool(msgs[j].calls[i - j])

Paired(msgs) == CallsAnswered(msgs) /\ ResultsInPlace(msgs)
=============================================================================
