--------------------------- MODULE AgentLoopProofs ---------------------------
(***************************************************************************)
(* Lemmas about the agent loop and the context it keeps, for whoever runs  *)
(* the loop: the desktop (DesktopChatProofs) and the command line          *)
(* (CliAgentProofs).  What a run still owes is the heart of them: the      *)
(* results that are missing at the end of a context are those of the calls *)
(* that the run has still to answer, in their order, however much of the   *)
(* context was cut; and those that are there stand where their calls want  *)
(* them, but for those at the head whose calls were cut away.              *)
(***************************************************************************)
EXTENDS AgentLoop, TLAPS

\* What the loop knows of the calls of the current answer.
CallsKnown(locals) ==
  /\ Len(locals.calls) <= MaxCalls
  /\ locals.phase \in {"executing", "answering"} => locals.done < Len(locals.calls)
  /\ locals.phase = "streaming" => locals.done = 0 /\ locals.calls = <<>>

CallsInProgress == \A r \in Runs : CallsKnown(run[r])

LoopTyped == LoopTypeOK /\ CallsInProgress

\* How many of its calls run r has answered in the context.
Answered(r) ==
  CASE At(r, "executing") -> 0
    [] At(r, "answering") -> run[r].done
    [] OTHER -> Len(run[r].calls)

\* Behind every assistant message are the results of its calls, where those
\* that are missing at the end of msgs are calls d+1, d+2, ... of calls.
AnsweredUpTo(msgs, calls, d) ==
  \A i \in 1 .. Len(msgs) :
     msgs[i].role = "assistant" =>
       \A k \in 1 .. Len(msgs[i].calls) :
          IF i + k <= Len(msgs)
            THEN msgs[i + k] = Tool(msgs[i].calls[k])
            ELSE /\ d + i + k - Len(msgs) <= Len(calls)
                 /\ msgs[i].calls[k] = calls[d + i + k - Len(msgs)]


\* Only the calls of the active run may lack results in a context, and those
\* are the calls the run still has to answer.
Owes(r) == AnsweredUpTo(context[run[r].agent], run[r].calls, Answered(r))

-----------------------------------------------------------------------------
LEMMA MessageTypes ==
  /\ \A r \in Runs : User(r) \in Messages
  /\ \A calls \in Seq(CallIds) : Assistant(calls) \in Messages
  /\ \A c \in CallIds : Tool(c) \in Messages
BY DEF Messages, User, Assistant, Tool

\* Compaction keeps a suffix, and nothing else than that.
LEMMA CompactedSuffix ==
  ASSUME NEW S, NEW msgs \in Seq(S)
  PROVE  /\ Compacted(msgs) \in Seq(S)
         /\ Len(Compacted(msgs)) <= Len(msgs)
         /\ \A i \in 1 .. Len(Compacted(msgs)) :
              Compacted(msgs)[i] = msgs[i + Len(msgs) - Len(Compacted(msgs))]
<1>1. CASE Compacted(msgs) = msgs
  BY <1>1
<1>2. CASE Compacted(msgs) # msgs
  <2>1. /\ KeepRecent > 0 /\ KeepRecent < Len(msgs) /\ KeepRecent \in Nat
        /\ Compacted(msgs) = SubSeq(msgs, Len(msgs) - KeepRecent + 1, Len(msgs))
    BY <1>2, LoopAssumption DEF Compacted, Recent
  <2>2. /\ Len(Compacted(msgs)) = KeepRecent
        /\ Compacted(msgs) \in Seq(S)
    BY <2>1
  <2> QED
    BY <2>1, <2>2
<1> QED
  BY <1>1, <1>2

\* Whatever it is given, compaction returns no more than it promises.
LEMMA CompactedBounded ==
  ASSUME KeepRecent > 0, NEW S, NEW msgs \in Seq(S)
  PROVE  Len(Compacted(msgs)) <= IF KeepRecent > Threshold THEN KeepRecent ELSE Threshold
BY LoopAssumption DEF Compacted, NeedsCompaction, Recent

\* The calls of an answer are a sequence of ids.
LEMMA AnswerCalls ==
  ASSUME LoopTyped, NEW r \in Runs, NEW n \in 0 .. MaxCalls
  PROVE  LET calls == [i \in 1 .. n |-> <<r, Iteration(r), i>>]
         IN calls \in Seq(CallIds) /\ Len(calls) = n
<1>1. Iteration(r) \in 0 .. MaxIterations
  BY DEF LoopTyped, LoopTypeOK, RunLocals, Iteration
<1>2. [i \in 1 .. n |-> <<r, Iteration(r), i>>] \in [1 .. n -> CallIds]
  BY <1>1, LoopAssumption DEF CallIds
<1>3. n \in Nat
  BY LoopAssumption
<1> QED
  BY <1>2, <1>3

-----------------------------------------------------------------------------
\* Adding a message keeps the type of the contexts.
LEMMA AddMessageType ==
  ASSUME LoopTyped, NEW a \in Agents, NEW m \in Messages, AddMessage(a, m)
  PROVE  context' \in [Agents -> Seq(Messages)]
<1>1. Append(context[a], m) \in Seq(Messages)
  BY DEF LoopTyped, LoopTypeOK
<1>2. Compacted(Append(context[a], m)) \in Seq(Messages)
  BY <1>1, CompactedSuffix
<1> QED
  BY <1>2 DEF LoopTyped, LoopTypeOK, AddMessage
\* The loop begins with nothing asked.
LEMMA LoopBegins == LoopInit => LoopTyped /\ \A a \in Agents : Paired(context[a])
<1> SUFFICES ASSUME LoopInit PROVE LoopTyped /\ \A a \in Agents : Paired(context[a])
  OBVIOUS
<1> DEFINE a0 == CHOOSE a \in Agents : TRUE
<1>1. a0 \in Agents
  BY LoopAssumption
<1>2. 1 \in 1 .. RetryAttempts /\ 0 \in 0 .. MaxCalls /\ 0 \in 0 .. MaxIterations
  BY LoopAssumption
<1>3. <<>> \in Seq(CallIds) /\ <<>> \in Seq(Messages) /\ Len(<<>>) = 0
  OBVIOUS
<1> HIDE DEF a0
<1>4. run = [r \in Runs |-> [phase |-> "new", agent |-> a0, aborted |-> FALSE, attempt |-> 1,
                             text |-> FALSE, calls |-> <<>>, done |-> 0]]
  BY DEF LoopInit, a0
<1>5. LoopTypeOK
  <2>1. context \in [Agents -> Seq(Messages)]
    BY <1>3 DEF LoopInit
  <2>2. loopState \in [Agents -> [iteration : 0 .. MaxIterations, isRunning : BOOLEAN]]
    BY <1>2 DEF LoopInit
  <2>3. run \in [Runs -> RunLocals]
    BY <1>1, <1>2, <1>3, <1>4 DEF Phases, RunLocals
  <2> QED
    BY <2>1, <2>2, <2>3 DEF LoopTypeOK
<1>6. CallsInProgress
  BY <1>3, <1>4, LoopAssumption DEF CallsInProgress, CallsKnown
<1>7. \A a \in Agents : Paired(context[a])
  <2>1. Len(<< >>) = 0
    OBVIOUS
  <2>2. Paired(<< >>)
    BY <2>1 DEF Paired, CallsAnswered, ResultsInPlace
  <2> QED
    BY <2>2 DEF LoopInit
<1> QED
  BY <1>5, <1>6, <1>7 DEF LoopTyped

\* A step that gives one run new locals keeps the types of all.
LEMMA RunTypes ==
  ASSUME LoopTyped, NEW r \in Runs, NEW locals \in RunLocals, CallsKnown(locals),
         run' = [run EXCEPT ![r] = locals]
  PROVE  run' \in [Runs -> RunLocals] /\ CallsInProgress'
BY DEF LoopTyped, LoopTypeOK, CallsInProgress

\* Every step of the loop keeps the types.
LEMMA LoopTypes ==
  ASSUME LoopTyped, NEW r \in Runs, LoopStep(r)
  PROVE  LoopTypeOK' /\ CallsInProgress'
<1> USE DEF At
<1> DEFINE l == run[r]
<1>1. /\ LoopTypeOK /\ CallsInProgress
      /\ l \in RunLocals /\ l.agent \in Agents /\ CallsKnown(l)
  BY DEF LoopTyped, LoopTypeOK, RunLocals, CallsInProgress
<1>2. /\ loopState \in [Agents -> [iteration : 0 .. MaxIterations, isRunning : BOOLEAN]]
      /\ context \in [Agents -> Seq(Messages)]
  BY <1>1 DEF LoopTypeOK
<1>3. CASE Begin(r)
  <2> DEFINE new == [l EXCEPT !.phase = "prompting"]
  <2>1. new \in RunLocals /\ CallsKnown(new) /\ run' = [run EXCEPT ![r] = new]
    BY <1>1, <1>3, LoopAssumption DEF Begin, LoopTypeOK, RunLocals, Phases, CallsKnown
  <2>2. loopState' \in [Agents -> [iteration : 0 .. MaxIterations, isRunning : BOOLEAN]]
    BY <1>1, <1>2, <1>3, LoopAssumption DEF Begin, Iteration
  <2> HIDE DEF new
  <2> QED
    BY <1>2, <1>3, <2>1, <2>2, RunTypes DEF Begin, LoopTypeOK
<1>4. CASE Prompt(r)
  <2> DEFINE new == [l EXCEPT !.phase = "top"]
  <2>1. new \in RunLocals /\ CallsKnown(new) /\ run' = [run EXCEPT ![r] = new]
    BY <1>1, <1>4, LoopAssumption DEF Prompt, LoopTypeOK, RunLocals, Phases, CallsKnown
  <2>2. context' \in [Agents -> Seq(Messages)]
    BY <1>1, <1>2, <1>4, AddMessageType, MessageTypes DEF Prompt
  <2> HIDE DEF new
  <2> QED
    BY <1>2, <1>4, <2>1, <2>2, RunTypes DEF Prompt, LoopTypeOK
<1>5. CASE Iterate(r)
  <2>1. <<>> \in Seq(CallIds) /\ Len(<<>>) = 0 /\ 0 \in 0 .. MaxCalls /\ 1 \in 1 .. RetryAttempts
    BY LoopAssumption
  <2> DEFINE new == [l EXCEPT !.phase = "streaming", !.attempt = 1, !.text = FALSE, !.calls = <<>>, !.done = 0]
  <2>2. new \in RunLocals /\ CallsKnown(new) /\ run' = [run EXCEPT ![r] = new]
    <3>1. run' = [run EXCEPT ![r] = new]
      BY <1>1, <1>5 DEF Iterate, NextIteration, LoopTypeOK, RunLocals
    <3>2. new \in RunLocals
      BY <1>1, <1>5, <2>1, LoopAssumption DEF Iterate, NextIteration, RunLocals, Phases, CallsKnown
    <3>3. CallsKnown(new)
      BY <1>1, <1>5, <2>1, LoopAssumption DEF Iterate, NextIteration, RunLocals, Phases, CallsKnown
    <3> QED
      BY <3>1, <3>2, <3>3
  <2>3. loopState' \in [Agents -> [iteration : 0 .. MaxIterations, isRunning : BOOLEAN]]
    <3>1. loopState[l.agent] \in [iteration : 0 .. MaxIterations, isRunning : BOOLEAN]
      BY <1>1, <1>2
    <3>2. loopState[l.agent].iteration + 1 \in 0 .. MaxIterations
      BY <1>5, <3>1, LoopAssumption DEF Iterate, NextIteration, Iteration
    <3>3. loopState' = [loopState EXCEPT ![l.agent] =
                          [@ EXCEPT !.iteration = loopState[l.agent].iteration + 1]]
      BY <1>1, <1>2, <1>5 DEF Iterate, NextIteration
    <3> QED
      BY <1>2, <3>1, <3>2, <3>3
  <2>4. context' \in [Agents -> Seq(Messages)]
    BY <1>1, <1>2, <1>5, <2>1, CompactedSuffix DEF Iterate, NextIteration
  <2> HIDE DEF new
  <2> QED
    BY <1>2, <1>5, <2>1, <2>2, <2>3, <2>4, RunTypes DEF Iterate, NextIteration, LoopTypeOK
<1>6. CASE LeaveLoop(r)
  <2> DEFINE new == [l EXCEPT !.phase = "finishing"]
  <2>1. new \in RunLocals /\ CallsKnown(new) /\ run' = [run EXCEPT ![r] = new]
    BY <1>1, <1>6, LoopAssumption DEF LeaveLoop, LoopTypeOK, RunLocals, Phases, CallsKnown
  <2> HIDE DEF new
  <2> QED
    BY <1>2, <1>6, <2>1, RunTypes DEF LeaveLoop, LoopTypeOK
<1>7. CASE TextChunk(r)
  <2> DEFINE new == [l EXCEPT !.text = TRUE]
  <2>1. new \in RunLocals /\ CallsKnown(new) /\ run' = [run EXCEPT ![r] = new]
    BY <1>1, <1>7, LoopAssumption DEF TextChunk, LoopTypeOK, RunLocals, Phases, CallsKnown
  <2> HIDE DEF new
  <2> QED
    BY <1>2, <1>7, <2>1, RunTypes DEF TextChunk, LoopTypeOK
<1>8. CASE AbortSeen(r)
  <2> DEFINE new == [l EXCEPT !.phase = "finishing"]
  <2>1. new \in RunLocals /\ CallsKnown(new) /\ run' = [run EXCEPT ![r] = new]
    BY <1>1, <1>8, LoopAssumption DEF AbortSeen, LoopTypeOK, RunLocals, Phases, CallsKnown
  <2> HIDE DEF new
  <2> QED
    BY <1>2, <1>8, <2>1, RunTypes DEF AbortSeen, LoopTypeOK
<1>9. CASE Retry(r)
  <2> DEFINE new == [l EXCEPT !.attempt = l.attempt + 1]
  <2>1. new \in RunLocals /\ CallsKnown(new) /\ run' = [run EXCEPT ![r] = new]
    <3>1. run' = [run EXCEPT ![r] = new]
      BY <1>1, <1>9 DEF Retry, LoopTypeOK, RunLocals
    <3>2. new \in RunLocals
      BY <1>1, <1>9, LoopAssumption DEF Retry, RunLocals, Phases, CallsKnown
    <3>3. CallsKnown(new)
      BY <1>1, <1>9, LoopAssumption DEF Retry, RunLocals, Phases, CallsKnown
    <3> QED
      BY <3>1, <3>2, <3>3
  <2> HIDE DEF new
  <2> QED
    BY <1>2, <1>9, <2>1, RunTypes DEF Retry, LoopTypeOK
<1>10. CASE ChatFails(r)
  <2> DEFINE new == [l EXCEPT !.phase = "finishing"]
  <2>1. new \in RunLocals /\ CallsKnown(new) /\ run' = [run EXCEPT ![r] = new]
    BY <1>1, <1>10, LoopAssumption DEF ChatFails, LoopTypeOK, RunLocals, Phases, CallsKnown
  <2> HIDE DEF new
  <2> QED
    BY <1>2, <1>10, <2>1, RunTypes DEF ChatFails, LoopTypeOK
<1>11. CASE Execute(r)
  <2> DEFINE new == [l EXCEPT !.done = IF l.done + 1 = Len(l.calls) THEN 0 ELSE l.done + 1, !.phase = IF l.done + 1 = Len(l.calls) THEN "answering" ELSE l.phase]
  <2>1. new \in RunLocals /\ CallsKnown(new) /\ run' = [run EXCEPT ![r] = new]
    <3>1. run' = [run EXCEPT ![r] = new]
      BY <1>1, <1>11 DEF Execute, LoopTypeOK, RunLocals
    <3> DEFINE last == l.done + 1 = Len(l.calls)
               next == IF last THEN 0 ELSE l.done + 1
               phase == IF last THEN "answering" ELSE l.phase
    <3>4. next \in 0 .. MaxCalls
      BY <1>1, <1>11, LoopAssumption DEF Execute, RunLocals, CallsKnown
    <3>5. phase \in Phases
      BY <1>1 DEF RunLocals, Phases
    <3>6. new = [l EXCEPT !.done = next, !.phase = phase]
      OBVIOUS
    <3>2. new \in RunLocals
      <4> HIDE DEF next, phase, new
      <4> QED
        BY <1>1, <3>4, <3>5, <3>6 DEF RunLocals
    <3>3. CallsKnown(new)
      BY <1>1, <1>11, LoopAssumption DEF Execute, RunLocals, Phases, CallsKnown
    <3> QED
      BY <3>1, <3>2, <3>3
  <2> HIDE DEF new
  <2> QED
    BY <1>2, <1>11, <2>1, RunTypes DEF Execute, LoopTypeOK
<1>12. CASE AddResult(r)
  <2>1. /\ l.done + 1 \in 1 .. Len(l.calls) /\ l.done + 1 \in 0 .. MaxCalls
        /\ l.calls[l.done + 1] \in CallIds
    BY <1>1, <1>12, LoopAssumption DEF AddResult, RunLocals, CallsKnown
  <2> DEFINE new == [l EXCEPT !.done = l.done + 1, !.phase = IF l.done + 1 = Len(l.calls) THEN "top" ELSE l.phase]
  <2>2. new \in RunLocals /\ CallsKnown(new) /\ run' = [run EXCEPT ![r] = new]
    <3>1. run' = [run EXCEPT ![r] = new]
      BY <1>1, <1>12 DEF AddResult, LoopTypeOK, RunLocals
    <3>2. new \in RunLocals
      BY <1>1, <1>12, <2>1, LoopAssumption DEF AddResult, RunLocals, Phases, CallsKnown
    <3>3. CallsKnown(new)
      BY <1>1, <1>12, <2>1, LoopAssumption DEF AddResult, RunLocals, Phases, CallsKnown
    <3> QED
      BY <3>1, <3>2, <3>3
  <2>3. context' \in [Agents -> Seq(Messages)]
    BY <1>1, <1>2, <1>12, <2>1, AddMessageType, MessageTypes DEF AddResult
  <2> HIDE DEF new
  <2> QED
    BY <1>2, <1>12, <2>1, <2>2, <2>3, RunTypes DEF AddResult, LoopTypeOK
<1>13. ASSUME NEW n \in 0 .. MaxCalls, Answer(r, n)
       PROVE  LoopTypeOK' /\ CallsInProgress'
  <2> DEFINE calls == [i \in 1 .. n |-> <<r, Iteration(r), i>>]
             new == [l EXCEPT !.calls = calls,
                              !.phase = IF n > 0 THEN "executing" ELSE "finishing"]
  <2>1. calls \in Seq(CallIds) /\ Len(calls) = n /\ n \in 0 .. MaxCalls
    BY <1>1, AnswerCalls
  <2>2. context' \in [Agents -> Seq(Messages)]
    BY <1>1, <1>2, <1>13, <2>1, AddMessageType, MessageTypes DEF Answer
  <2>3. run' = [run EXCEPT ![r] = new] /\ loopState' = loopState
    BY <1>1, <1>13 DEF Answer, LoopTypeOK, RunLocals
  <2>4. l.phase = "streaming" /\ (n > 0 => l.done < n)
    BY <1>1, <1>13, <2>1, LoopAssumption DEF Answer, CallsKnown
  <2> HIDE DEF calls
  <2>5. new \in RunLocals
    BY <1>1, <2>1 DEF RunLocals, Phases
  <2>6. CallsKnown(new)
    BY <1>1, <2>1, <2>4, LoopAssumption DEF RunLocals, CallsKnown
  <2> HIDE DEF new
  <2> QED
    BY <1>2, <2>2, <2>3, <2>5, <2>6, RunTypes DEF LoopTypeOK
<1> QED
  BY <1>3, <1>4, <1>5, <1>6, <1>7, <1>8, <1>9, <1>10, <1>11, <1>12, <1>13 DEF LoopStep

-----------------------------------------------------------------------------
\* A step of the loop stays with its run and its agent, the run stays active,
\* and a run that was stopped counts no iteration.
LEMMA LoopStepLocal ==
  ASSUME LoopTyped, NEW r \in Runs, LoopStep(r)
  PROVE  /\ Active(r) /\ Active(r)'
         /\ run[r].agent \in Agents /\ run'[r].agent = run[r].agent
         /\ \A s \in Runs \ {r} : run'[s] = run[s]
         /\ \A a \in Agents \ {run[r].agent} :
              context'[a] = context[a] /\ loopState'[a] = loopState[a]
         /\ run[r].aborted =>
              loopState'[run[r].agent].iteration \in {0, loopState[run[r].agent].iteration}
<1>1. /\ run \in [Runs -> RunLocals] /\ run[r] \in RunLocals /\ run[r].agent \in Agents
      /\ loopState \in [Agents -> [iteration : 0 .. MaxIterations, isRunning : BOOLEAN]]
      /\ context \in [Agents -> Seq(Messages)]
  BY DEF LoopTyped, LoopTypeOK, RunLocals
<1> USE DEF At, Active
<1>2. CASE Begin(r)
  BY <1>1, <1>2 DEF Begin, RunLocals
<1>3. CASE Prompt(r)
  BY <1>1, <1>3 DEF Prompt, AddMessage, RunLocals
<1>4. CASE Iterate(r)
  BY <1>1, <1>4 DEF Iterate, NextIteration, RunLocals
<1>5. CASE LeaveLoop(r)
  BY <1>1, <1>5 DEF LeaveLoop, RunLocals
<1>6. CASE TextChunk(r)
  BY <1>1, <1>6 DEF TextChunk, RunLocals
<1>7. CASE AbortSeen(r)
  BY <1>1, <1>7 DEF AbortSeen, RunLocals
<1>8. CASE Retry(r)
  BY <1>1, <1>8 DEF Retry, RunLocals
<1>9. CASE ChatFails(r)
  BY <1>1, <1>9 DEF ChatFails, RunLocals
<1>10. CASE Execute(r)
  BY <1>1, <1>10 DEF Execute, RunLocals
<1>11. CASE AddResult(r)
  BY <1>1, <1>11 DEF AddResult, AddMessage, RunLocals
<1>12. ASSUME NEW n \in 0 .. MaxCalls, Answer(r, n)
       PROVE  /\ Active(r) /\ Active(r)'
              /\ run[r].agent \in Agents /\ run'[r].agent = run[r].agent
              /\ \A s \in Runs \ {r} : run'[s] = run[s]
              /\ \A a \in Agents \ {run[r].agent} :
                   context'[a] = context[a] /\ loopState'[a] = loopState[a]
              /\ run[r].aborted =>
                   loopState'[run[r].agent].iteration \in {0, loopState[run[r].agent].iteration}
  BY <1>1, <1>12 DEF Answer, AddMessage, RunLocals
<1> QED
  BY <1>2, <1>3, <1>4, <1>5, <1>6, <1>7, <1>8, <1>9, <1>10, <1>11, <1>12 DEF LoopStep

-----------------------------------------------------------------------------
\* The calls of an assistant message are a sequence.
LEMMA AssistantCalls ==
  ASSUME NEW m \in Messages, m.role = "assistant"
  PROVE  m.calls \in Seq(CallIds)
BY DEF Messages, User, Tool

\* With nothing left to answer, every call has its result.
LEMMA AllAnswered ==
  ASSUME NEW msgs \in Seq(Messages), NEW calls \in Seq(CallIds)
  PROVE  AnsweredUpTo(msgs, calls, Len(calls)) <=> CallsAnswered(msgs)
<1>1. \A i \in 1 .. Len(msgs) :
        msgs[i].role = "assistant" => msgs[i].calls \in Seq(CallIds)
  BY AssistantCalls
<1>2. \A i, k, n \in Nat : k >= 1 /\ i + k > n => Len(calls) + i + k - n > Len(calls)
  OBVIOUS
<1>3. ASSUME NEW i \in 1 .. Len(msgs), msgs[i].role = "assistant",
             NEW k \in 1 .. Len(msgs[i].calls)
      PROVE  /\ i \in Nat /\ k \in Nat /\ k >= 1 /\ Len(msgs) \in Nat
             /\ ~(i + k <= Len(msgs)) => ~(Len(calls) + i + k - Len(msgs) <= Len(calls))
  BY <1>1, <1>2, <1>3
<1> QED
  BY <1>3 DEF AnsweredUpTo, CallsAnswered

\* A suffix lacks the same results as the whole.
LEMMA CompactedAnswered ==
  ASSUME NEW msgs \in Seq(Messages), NEW calls \in Seq(CallIds), NEW d \in Nat,
         AnsweredUpTo(msgs, calls, d)
  PROVE  AnsweredUpTo(Compacted(msgs), calls, d)
<1> DEFINE kept == Compacted(msgs)
           off == Len(msgs) - Len(kept)
<1>1. /\ kept \in Seq(Messages) /\ off \in Nat
      /\ \A i \in 1 .. Len(kept) : kept[i] = msgs[i + off]
  BY CompactedSuffix
<1> SUFFICES ASSUME NEW i \in 1 .. Len(kept), kept[i].role = "assistant",
                    NEW k \in 1 .. Len(kept[i].calls)
             PROVE  IF i + k <= Len(kept)
                      THEN kept[i + k] = Tool(kept[i].calls[k])
                      ELSE /\ d + i + k - Len(kept) <= Len(calls)
                           /\ kept[i].calls[k] = calls[d + i + k - Len(kept)]
  BY DEF AnsweredUpTo
<1> HIDE DEF kept
<1>2. /\ i + off \in 1 .. Len(msgs) /\ kept[i] = msgs[i + off]
      /\ kept[i].calls \in Seq(CallIds) /\ k \in Nat
  BY <1>1, AssistantCalls
<1>3. IF i + off + k <= Len(msgs)
        THEN msgs[i + off + k] = Tool(kept[i].calls[k])
        ELSE /\ d + (i + off) + k - Len(msgs) <= Len(calls)
             /\ kept[i].calls[k] = calls[d + (i + off) + k - Len(msgs)]
  BY <1>2 DEF AnsweredUpTo
<1>4. /\ i + off + k <= Len(msgs) <=> i + k <= Len(kept)
      /\ d + (i + off) + k - Len(msgs) = d + i + k - Len(kept)
      /\ i + k + off = i + off + k
  <2>1. Len(kept) \in Nat /\ Len(msgs) \in Nat /\ i \in Nat /\ k \in Nat
    BY <1>1, <1>2
  <2> QED
    BY <1>1, <2>1
<1>5. CASE i + k <= Len(kept)
  <2>1. i + k \in 1 .. Len(kept)
    BY <1>1, <1>2, <1>5
  <2> QED
    BY <1>1, <1>3, <1>4, <1>5, <2>1
<1>6. CASE ~(i + k <= Len(kept))
  BY <1>3, <1>4, <1>6
<1> QED
  BY <1>5, <1>6

\* The next result answers the next call.
LEMMA ResultAnswers ==
  ASSUME NEW msgs \in Seq(Messages), NEW calls \in Seq(CallIds), NEW d \in Nat,
         d < Len(calls), AnsweredUpTo(msgs, calls, d)
  PROVE  AnsweredUpTo(Append(msgs, Tool(calls[d + 1])), calls, d + 1)
<1> DEFINE new == Append(msgs, Tool(calls[d + 1]))
<1>1. /\ Len(new) = Len(msgs) + 1 /\ new[Len(msgs) + 1] = Tool(calls[d + 1])
      /\ \A i \in 1 .. Len(msgs) : new[i] = msgs[i]
      /\ Tool(calls[d + 1]).role # "assistant"
  BY DEF Tool
<1> SUFFICES ASSUME NEW i \in 1 .. Len(new), new[i].role = "assistant",
                    NEW k \in 1 .. Len(new[i].calls)
             PROVE  IF i + k <= Len(new)
                      THEN new[i + k] = Tool(new[i].calls[k])
                      ELSE /\ d + 1 + i + k - Len(new) <= Len(calls)
                           /\ new[i].calls[k] = calls[d + 1 + i + k - Len(new)]
  BY DEF AnsweredUpTo
<1> HIDE DEF new
<1>2. /\ i \in 1 .. Len(msgs) /\ new[i] = msgs[i] /\ new[i].calls \in Seq(CallIds)
      /\ k \in Nat \ {0}
  BY <1>1, AssistantCalls
<1>3. IF i + k <= Len(msgs)
        THEN msgs[i + k] = Tool(new[i].calls[k])
        ELSE /\ d + i + k - Len(msgs) <= Len(calls)
             /\ new[i].calls[k] = calls[d + i + k - Len(msgs)]
  BY <1>2 DEF AnsweredUpTo
<1>4. CASE i + k <= Len(msgs)
  BY <1>1, <1>2, <1>3, <1>4
<1>5. CASE i + k = Len(msgs) + 1
  <2>1. new[i].calls[k] = calls[d + 1] /\ new[i + k] = Tool(calls[d + 1])
    BY <1>1, <1>2, <1>3, <1>5
  <2> QED
    BY <1>1, <1>5, <2>1
<1>6. CASE i + k > Len(msgs) + 1
  <2> DEFINE n == Len(msgs)
  <2>1. n \in Nat /\ Len(new) = n + 1 /\ i \in Nat /\ k \in Nat /\ i + k > n + 1
    BY <1>1, <1>2, <1>6
  <2> HIDE DEF n
  <2>2. d + 1 + i + k - (n + 1) = d + i + k - n /\ ~(i + k <= n + 1) /\ ~(i + k <= n)
    BY <2>1
  <2>3. /\ d + i + k - n <= Len(calls)
        /\ new[i].calls[k] = calls[d + i + k - n]
    BY <1>3, <2>2 DEF n
  <2> QED
    BY <2>1, <2>2, <2>3
<1>7. i + k <= Len(msgs) \/ i + k = Len(msgs) + 1 \/ i + k > Len(msgs) + 1
  BY <1>2
<1> QED
  BY <1>4, <1>5, <1>6, <1>7

\* An answer has all its calls to be answered, if there were none before it.
LEMMA AnswerOpens ==
  ASSUME NEW msgs \in Seq(Messages), NEW calls \in Seq(CallIds), CallsAnswered(msgs)
  PROVE  AnsweredUpTo(Append(msgs, Assistant(calls)), calls, 0)
<1> DEFINE new == Append(msgs, Assistant(calls))
<1>1. /\ Len(new) = Len(msgs) + 1 /\ new[Len(msgs) + 1].calls = calls
      /\ \A i \in 1 .. Len(msgs) : new[i] = msgs[i]
  BY DEF Assistant
<1> SUFFICES ASSUME NEW i \in 1 .. Len(new), new[i].role = "assistant",
                    NEW k \in 1 .. Len(new[i].calls)
             PROVE  IF i + k <= Len(new)
                      THEN new[i + k] = Tool(new[i].calls[k])
                      ELSE /\ 0 + i + k - Len(new) <= Len(calls)
                           /\ new[i].calls[k] = calls[0 + i + k - Len(new)]
  BY DEF AnsweredUpTo
<1> HIDE DEF new
<1>2. CASE i \in 1 .. Len(msgs)
  <2>1. /\ new[i] = msgs[i] /\ new[i].calls \in Seq(CallIds) /\ k \in Nat \ {0}
    BY <1>1, <1>2, AssistantCalls
  <2>2. i + k <= Len(msgs) /\ msgs[i + k] = Tool(msgs[i].calls[k])
    BY <1>2, <2>1 DEF CallsAnswered
  <2> QED
    BY <1>1, <1>2, <2>1, <2>2
<1>3. CASE i = Len(msgs) + 1
  BY <1>1, <1>3
<1> QED
  BY <1>1, <1>2, <1>3

\* A prompt leaves an answered context answered.
LEMMA PromptKeeps ==
  ASSUME NEW msgs \in Seq(Messages), NEW r \in Runs, CallsAnswered(msgs)
  PROVE  CallsAnswered(Append(msgs, User(r)))
<1>1. \A i \in 1 .. Len(msgs) :
        msgs[i].role = "assistant" => msgs[i].calls \in Seq(CallIds)
  BY AssistantCalls
<1> QED
  BY <1>1 DEF CallsAnswered, User

-----------------------------------------------------------------------------
\* A message added to an agent's context reaches it compacted.
LEMMA AddedMessage ==
  ASSUME LoopTyped, NEW a \in Agents, NEW m \in Messages, AddMessage(a, m)
  PROVE  /\ context[a] \in Seq(Messages) /\ Append(context[a], m) \in Seq(Messages)
         /\ context'[a] = Compacted(Append(context[a], m))
BY DEF LoopTyped, LoopTypeOK, AddMessage

\* A step of the loop pays what it owes.
LEMMA LoopStepOwes ==
  ASSUME LoopTyped, NEW r \in Runs, LoopStep(r), Owes(r)
  PROVE  Owes(r)'
<1> DEFINE l == run[r]
<1>1. /\ run \in [Runs -> RunLocals] /\ l \in RunLocals /\ l.agent \in Agents
      /\ CallsKnown(l) /\ context \in [Agents -> Seq(Messages)]
      /\ l.calls \in Seq(CallIds) /\ l.done \in Nat
  <2>1. /\ run \in [Runs -> RunLocals] /\ l \in RunLocals /\ CallsKnown(l)
        /\ context \in [Agents -> Seq(Messages)]
    BY DEF LoopTyped, LoopTypeOK, CallsInProgress
  <2>2. l.agent \in Agents /\ l.calls \in Seq(CallIds) /\ l.done \in 0 .. MaxCalls
    BY <2>1 DEF RunLocals
  <2> QED
    BY <2>1, <2>2, LoopAssumption
<1>2. PICK a \in Agents : a = l.agent
  BY <1>1
<1>3. run'[r].agent = a /\ context[a] \in Seq(Messages)
  BY <1>1, <1>2, LoopStepLocal
<1>4. AnsweredUpTo(context[a], l.calls, Answered(r))
  BY <1>2 DEF Owes
<1>5. l.phase \notin {"executing", "answering"} => CallsAnswered(context[a])
  BY <1>1, <1>3, <1>4, AllAnswered DEF Answered, At
<1>6. ASSUME run'[r].calls \in Seq(CallIds), run'[r].phase \notin {"executing", "answering"},
             CallsAnswered(context'[a]), context'[a] \in Seq(Messages)
      PROVE  Owes(r)'
  BY <1>3, <1>6, AllAnswered DEF Owes, Answered, At
<1>7. ASSUME NEW msgs \in Seq(Messages), CallsAnswered(msgs)
      PROVE  CallsAnswered(Compacted(msgs)) /\ Compacted(msgs) \in Seq(Messages)
  <2>1. PICK none \in Seq(CallIds) : Len(none) = 0
    <3>1. <<>> \in Seq(CallIds) /\ Len(<<>>) = 0
      OBVIOUS
    <3> QED
      BY <3>1
  <2>2. AnsweredUpTo(msgs, none, Len(none))
    BY <1>7, AllAnswered
  <2>3. Compacted(msgs) \in Seq(Messages)
    BY CompactedSuffix
  <2>4. AnsweredUpTo(Compacted(msgs), none, Len(none))
    <3>1. Len(none) \in Nat
      OBVIOUS
    <3> QED
      BY <2>2, <3>1, CompactedAnswered
  <2> QED
    BY <2>3, <2>4, AllAnswered
<1>8. CASE Begin(r)
  BY <1>1, <1>3, <1>5, <1>6, <1>8 DEF Begin, At, RunLocals
<1>9. CASE Prompt(r)
  <2>1. /\ context'[a] = Compacted(Append(context[a], User(r)))
        /\ Append(context[a], User(r)) \in Seq(Messages)
    BY <1>2, <1>9, AddedMessage, MessageTypes DEF Prompt
  <2>2. CallsAnswered(context'[a]) /\ context'[a] \in Seq(Messages)
    BY <1>3, <1>5, <1>7, <1>9, <2>1, PromptKeeps DEF Prompt, At
  <2>3. run'[r].calls = l.calls /\ run'[r].phase = "top"
    BY <1>1, <1>9 DEF Prompt, RunLocals
  <2> QED
    BY <1>1, <1>6, <2>2, <2>3
<1>10. CASE Iterate(r)
  <2>1. context'[a] = Compacted(context[a])
    BY <1>1, <1>2, <1>10 DEF Iterate, NextIteration
  <2>2. CallsAnswered(context'[a]) /\ context'[a] \in Seq(Messages)
    BY <1>3, <1>5, <1>7, <1>10, <2>1 DEF Iterate, NextIteration, At
  <2>3. run'[r].calls = <<>> /\ run'[r].phase = "streaming"
    BY <1>1, <1>10 DEF Iterate, NextIteration, RunLocals
  <2>4. <<>> \in Seq(CallIds)
    OBVIOUS
  <2> QED
    BY <1>6, <2>2, <2>3, <2>4
<1>11. CASE LeaveLoop(r) \/ AbortSeen(r) \/ ChatFails(r) \/ TextChunk(r) \/ Retry(r)
  <2>1. /\ l.phase \in {"top", "streaming"} /\ context' = context
        /\ run'[r].calls = l.calls /\ run'[r].phase \in {"streaming", "finishing"}
    BY <1>1, <1>11 DEF LeaveLoop, AbortSeen, ChatFails, TextChunk, Retry, At, RunLocals
  <2> QED
    BY <1>1, <1>3, <1>5, <1>6, <2>1
<1>12. CASE Execute(r)
  <2>1. /\ l.phase = "executing" /\ context' = context /\ run'[r].calls = l.calls
        /\ \/ run'[r].phase = "executing"
           \/ run'[r].phase = "answering" /\ run'[r].done = 0
    BY <1>1, <1>12 DEF Execute, At, RunLocals
  <2>2. Answered(r) = 0 /\ Answered(r)' = 0
    BY <2>1 DEF Answered, At
  <2> QED
    BY <1>2, <1>3, <1>4, <2>1, <2>2 DEF Owes
<1>13. CASE AddResult(r)
  <2> DEFINE c == l.calls[l.done + 1]
             msgs == Append(context[a], Tool(c))
  <2>1. /\ l.phase = "answering" /\ l.done < Len(l.calls) /\ c \in CallIds
    BY <1>1, <1>13 DEF AddResult, At, CallsKnown
  <2>2. context'[a] = Compacted(msgs) /\ msgs \in Seq(Messages)
    BY <1>2, <1>13, <2>1, AddedMessage, MessageTypes DEF AddResult
  <2>3. AnsweredUpTo(msgs, l.calls, l.done + 1)
    BY <1>1, <1>3, <1>4, <2>1, ResultAnswers DEF Answered, At
  <2>4. AnsweredUpTo(context'[a], l.calls, l.done + 1)
    <3>1. l.done + 1 \in Nat
      BY <1>1
    <3> HIDE DEF msgs
    <3> QED
      BY <1>1, <2>2, <2>3, <3>1, CompactedAnswered
  <2>5. /\ run'[r].calls = l.calls /\ run'[r].done = l.done + 1
        /\ run'[r].phase = IF l.done + 1 = Len(l.calls) THEN "top" ELSE "answering"
    BY <1>1, <1>13, <2>1 DEF AddResult, RunLocals
  <2>6. Answered(r)' = l.done + 1
    BY <2>5 DEF Answered, At
  <2> QED
    BY <1>3, <2>4, <2>5, <2>6 DEF Owes
<1>14. ASSUME NEW n \in 0 .. MaxCalls, Answer(r, n)
       PROVE  Owes(r)'
  <2>1. PICK calls \in Seq(CallIds) :
             /\ Len(calls) = n
             /\ run' = [run EXCEPT ![r].calls = calls,
                                   ![r].phase = IF n > 0 THEN "executing" ELSE "finishing"]
             /\ IF l.text \/ n > 0 THEN AddMessage(a, Assistant(calls)) ELSE UNCHANGED context
    BY <1>2, <1>14, AnswerCalls DEF Answer
  <2>2. /\ run'[r].calls = calls
        /\ run'[r].phase = IF n > 0 THEN "executing" ELSE "finishing"
    BY <1>1, <2>1 DEF RunLocals
  <2>3. CallsAnswered(context[a])
    BY <1>5, <1>14 DEF Answer, At
  <2>4. CASE UNCHANGED context /\ ~(n > 0)
    BY <1>3, <1>6, <2>1, <2>2, <2>3, <2>4
  <2>5. CASE AddMessage(a, Assistant(calls))
    <3> DEFINE msgs == Append(context[a], Assistant(calls))
    <3>1. context'[a] = Compacted(msgs) /\ msgs \in Seq(Messages)
      BY <2>5, AddedMessage, MessageTypes
    <3>2. AnsweredUpTo(msgs, calls, 0)
      BY <1>3, <2>3, AnswerOpens
    <3>3. AnsweredUpTo(context'[a], calls, 0) /\ context'[a] \in Seq(Messages)
      BY <3>1, <3>2, CompactedAnswered, CompactedSuffix
    <3>4. Answered(r)' = 0
      <4>1. CASE n > 0
        BY <2>2, <4>1 DEF Answered, At
      <4>2. CASE ~(n > 0)
        BY <2>1, <2>2, <4>2 DEF Answered, At
      <4> QED
        BY <4>1, <4>2
    <3> QED
      BY <1>3, <2>2, <3>3, <3>4 DEF Owes
  <2> QED
    BY <2>1, <2>4, <2>5
<1> QED
  BY <1>8, <1>9, <1>10, <1>11, <1>12, <1>13, <1>14 DEF LoopStep

-----------------------------------------------------------------------------
(* Where the results stand.                                                *)

\* The message whose calls are being answered is the last but d, unless it was cut
\* away, with all that was before it, so that but results are left.
Stands(msgs, calls, d) ==
  \/ \A i \in 1 .. Len(msgs) : msgs[i].role = "tool"
  \/ /\ d < Len(msgs)
     /\ msgs[Len(msgs) - d].role = "assistant"
     /\ msgs[Len(msgs) - d].calls = calls

\* All results are in place, and the next one will be.
Placed(r) ==
  /\ ResultsInPlace(context[run[r].agent])
  /\ run[r].phase \in {"executing", "answering"} =>
       Stands(context[run[r].agent], run[r].calls, Answered(r))

\* What is no result may follow anything.
LEMMA OtherInPlace ==
  ASSUME NEW msgs \in Seq(Messages), NEW m \in Messages, m.role # "tool", ResultsInPlace(msgs)
  PROVE  ResultsInPlace(Append(msgs, m))
<1> DEFINE new == Append(msgs, m)
<1>1. /\ Len(new) = Len(msgs) + 1 /\ new[Len(msgs) + 1] = m
      /\ \A i \in 1 .. Len(msgs) : new[i] = msgs[i]
  OBVIOUS
<1> SUFFICES ASSUME NEW i \in 1 .. Len(new), new[i].role = "tool"
             PROVE  \/ \A j \in 1 .. i : new[j].role = "tool"
                    \/ \E j \in 1 .. i - 1 : /\ new[j].role = "assistant"
                                            /\ i - j <= Len(new[j].calls)
                                            /\ new[i] = Tool(new[j].calls[i - j])
  BY DEF ResultsInPlace
<1> HIDE DEF new
<1>2. i \in 1 .. Len(msgs) /\ \A j \in 1 .. i : j \in 1 .. Len(msgs)
  BY <1>1
<1>3. \/ \A j \in 1 .. i : msgs[j].role = "tool"
      \/ \E j \in 1 .. i - 1 : /\ msgs[j].role = "assistant"
                              /\ i - j <= Len(msgs[j].calls)
                              /\ msgs[i] = Tool(msgs[j].calls[i - j])
  BY <1>1, <1>2 DEF ResultsInPlace
<1>4. \A j \in 1 .. i : new[j] = msgs[j]
  BY <1>1, <1>2
<1>5. \A j \in 1 .. i - 1 : new[j] = msgs[j]
  BY <1>4
<1>6. new[i] = msgs[i]
  BY <1>1, <1>2
<1> QED
  BY <1>3, <1>4, <1>5, <1>6, Zenon

\* A suffix has its results in place, and the calls in hand where they belong.
LEMMA CompactedInPlace ==
  ASSUME NEW msgs \in Seq(Messages), NEW calls \in Seq(CallIds), NEW d \in Nat,
         AnsweredUpTo(msgs, calls, d), ResultsInPlace(msgs)
  PROVE  /\ ResultsInPlace(Compacted(msgs))
         /\ d <= Len(calls) /\ Stands(msgs, calls, d) => Stands(Compacted(msgs), calls, d)
<1> DEFINE kept == Compacted(msgs)
           off == Len(msgs) - Len(kept)
<1>1. /\ kept \in Seq(Messages) /\ off \in Nat
      /\ \A i \in 1 .. Len(kept) : kept[i] = msgs[i + off]
  BY CompactedSuffix
<1> HIDE DEF kept
<1>2. \A i \in 1 .. Len(kept) : i + off \in 1 .. Len(msgs)
  BY <1>1
<1>3. ASSUME NEW i \in 1 .. Len(msgs), msgs[i].role = "assistant",
             NEW j \in 1 .. Len(msgs), j > i, j - i <= Len(msgs[i].calls)
      PROVE  msgs[j].role = "tool"
  <2>1. msgs[i].calls \in Seq(CallIds) /\ j - i \in 1 .. Len(msgs[i].calls)
    BY <1>3, AssistantCalls
  <2>2. i + (j - i) = j /\ j <= Len(msgs)
    OBVIOUS
  <2>3. msgs[j] = Tool(msgs[i].calls[j - i])
    BY <1>3, <2>1, <2>2 DEF AnsweredUpTo
  <2> QED
    BY <2>3 DEF Tool
<1>4. ResultsInPlace(kept)
  <2> SUFFICES ASSUME NEW i \in 1 .. Len(kept), kept[i].role = "tool"
               PROVE  \/ \A j \in 1 .. i : kept[j].role = "tool"
                      \/ \E j \in 1 .. i - 1 : /\ kept[j].role = "assistant"
                                              /\ i - j <= Len(kept[j].calls)
                                              /\ kept[i] = Tool(kept[j].calls[i - j])
    BY DEF ResultsInPlace
  <2>1. \/ \A j \in 1 .. i + off : msgs[j].role = "tool"
        \/ \E j \in 1 .. i + off - 1 : /\ msgs[j].role = "assistant"
                                      /\ i + off - j <= Len(msgs[j].calls)
                                      /\ msgs[i + off] = Tool(msgs[j].calls[i + off - j])
    <3> DEFINE h == i + off
    <3>1. h \in 1 .. Len(msgs) /\ msgs[h].role = "tool"
      BY <1>1, <1>2
    <3> HIDE DEF h
    <3>2. \/ \A j \in 1 .. h : msgs[j].role = "tool"
          \/ \E j \in 1 .. h - 1 : /\ msgs[j].role = "assistant"
                                  /\ h - j <= Len(msgs[j].calls)
                                  /\ msgs[h] = Tool(msgs[j].calls[h - j])
      BY <3>1, Zenon DEF ResultsInPlace
    <3> QED
      BY <3>2 DEF h
  <2>2. CASE \A j \in 1 .. i + off : msgs[j].role = "tool"
    <3>1. \A j \in 1 .. i : j \in 1 .. Len(kept) /\ j + off \in 1 .. i + off
      BY <1>1
    <3> QED
      BY <1>1, <2>2, <3>1
  <2>3. ASSUME NEW j \in 1 .. i + off - 1, msgs[j].role = "assistant",
               i + off - j <= Len(msgs[j].calls),
               msgs[i + off] = Tool(msgs[j].calls[i + off - j])
        PROVE  \/ \A h \in 1 .. i : kept[h].role = "tool"
               \/ \E h \in 1 .. i - 1 : /\ kept[h].role = "assistant"
                                       /\ i - h <= Len(kept[h].calls)
                                       /\ kept[i] = Tool(kept[h].calls[i - h])
    <3>1. j \in 1 .. Len(msgs) /\ Len(msgs[j].calls) \in Nat
      <4>1. j \in 1 .. Len(msgs)
        BY <1>1, <1>2
      <4> QED
        BY <2>3, <4>1, AssistantCalls
    <3>2. CASE j > off
      <4> DEFINE h == j - off
      <4>1. /\ h \in 1 .. i - 1 /\ h \in 1 .. Len(kept) /\ h + off = j
            /\ i - h = i + off - j
        BY <1>1, <3>2
      <4> HIDE DEF h
      <4>2. kept[h] = msgs[j] /\ kept[i] = msgs[i + off]
        BY <1>1, <4>1
      <4> QED
        BY <2>3, <4>1, <4>2
    <3>3. CASE j <= off
      <4>1. ASSUME NEW h \in 1 .. i PROVE kept[h].role = "tool"
        <5>1. /\ h \in 1 .. Len(kept) /\ h + off \in 1 .. Len(msgs) /\ h + off > j
              /\ h + off - j <= i + off - j
          BY <1>1, <3>1, <3>3
        <5>2. h + off - j <= Len(msgs[j].calls)
          BY <1>1, <2>3, <3>1, <5>1
        <5>3. msgs[h + off].role = "tool"
          BY <1>3, <2>3, <3>1, <5>1, <5>2
        <5> QED
          BY <1>1, <5>1, <5>3
      <4> QED
        BY <4>1
    <3> QED
      BY <1>1, <3>1, <3>2, <3>3
  <2> QED
    BY <2>1, <2>2, <2>3
<1>5. ASSUME d <= Len(calls), Stands(msgs, calls, d) PROVE Stands(kept, calls, d)
  <2>1. CASE \A i \in 1 .. Len(msgs) : msgs[i].role = "tool"
    BY <1>1, <1>2, <2>1 DEF Stands
  <2> DEFINE p == Len(msgs) - d
  <2>2. CASE d < Len(msgs) /\ msgs[p].role = "assistant" /\ msgs[p].calls = calls
    <3>1. CASE d < Len(kept)
      <4>1. Len(kept) - d \in 1 .. Len(kept) /\ Len(kept) - d + off = p
        BY <1>1, <3>1
      <4>2. kept[Len(kept) - d] = msgs[p]
        BY <1>1, <4>1
      <4> QED
        BY <2>2, <3>1, <4>2 DEF Stands
    <3>2. CASE ~(d < Len(kept))
      <4>1. ASSUME NEW i \in 1 .. Len(kept) PROVE kept[i].role = "tool"
        <5>1. /\ p \in 1 .. Len(msgs) /\ i + off \in 1 .. Len(msgs) /\ i + off > p
              /\ i + off - p <= d /\ i + off - p <= Len(calls)
          BY <1>1, <1>5, <2>2, <3>2
        <5> HIDE DEF p
        <5>2. msgs[i + off].role = "tool"
          BY <1>3, <2>2, <5>1
        <5> QED
          BY <1>1, <5>2
      <4> QED
        BY <4>1 DEF Stands
    <3> QED
      BY <3>1, <3>2
  <2> QED
    BY <1>5, <2>1, <2>2 DEF Stands
<1> QED
  BY <1>4, <1>5 DEF kept

\* The next result is in place.
LEMMA ResultStands ==
  ASSUME NEW msgs \in Seq(Messages), NEW calls \in Seq(CallIds), NEW d \in Nat,
         d < Len(calls), ResultsInPlace(msgs), Stands(msgs, calls, d)
  PROVE  /\ ResultsInPlace(Append(msgs, Tool(calls[d + 1])))
         /\ Stands(Append(msgs, Tool(calls[d + 1])), calls, d + 1)
<1> DEFINE m == Tool(calls[d + 1])
           new == Append(msgs, m)
           n == Len(msgs)
<1>1. /\ Len(new) = n + 1 /\ new[n + 1] = m /\ n \in Nat
      /\ \A i \in 1 .. n : new[i] = msgs[i]
  OBVIOUS
<1>2. m.role = "tool"
  BY DEF Tool
<1> HIDE DEF new, n
<1>3. CASE \A i \in 1 .. n : msgs[i].role = "tool"
  <2>1. \A i \in 1 .. Len(new) : new[i].role = "tool"
    BY <1>1, <1>2, <1>3
  <2>2. Stands(new, calls, d + 1)
    BY <2>1 DEF Stands
  <2>3. ResultsInPlace(new)
    BY <1>1, <2>1 DEF ResultsInPlace
  <2> QED
    BY <2>2, <2>3 DEF new
<1>4. CASE d < n /\ msgs[n - d].role = "assistant" /\ msgs[n - d].calls = calls
  <2>1. /\ n - d \in 1 .. n /\ n - d \in 1 .. (n + 1) - 1
        /\ (n + 1) - (n - d) = d + 1 /\ (n + 1) - (d + 1) = n - d
        /\ d + 1 < n + 1 /\ d + 1 <= Len(calls)
    BY <1>1, <1>4
  <2>2. new[n - d] = msgs[n - d]
    BY <1>1, <2>1
  <2>3. Stands(new, calls, d + 1)
    BY <1>1, <1>4, <2>1, <2>2 DEF Stands
  <2>4. ASSUME NEW i \in 1 .. Len(new), new[i].role = "tool"
        PROVE  \/ \A j \in 1 .. i : new[j].role = "tool"
               \/ \E j \in 1 .. i - 1 : /\ new[j].role = "assistant"
                                       /\ i - j <= Len(new[j].calls)
                                       /\ new[i] = Tool(new[j].calls[i - j])
    <3>1. CASE i = n + 1
      <4>1. /\ n - d \in 1 .. i - 1 /\ i - (n - d) = d + 1
            /\ new[i] = Tool(calls[d + 1])
        BY <1>1, <2>1, <3>1
      <4> QED
        BY <1>4, <2>1, <2>2, <4>1
    <3>2. CASE i \in 1 .. n
      <4>1. \A j \in 1 .. i : new[j] = msgs[j]
        BY <1>1, <3>2
      <4>2. \A j \in 1 .. i - 1 : new[j] = msgs[j]
        BY <1>1, <3>2
      <4>3. msgs[i].role = "tool" /\ new[i] = msgs[i]
        BY <1>1, <2>4, <3>2
      <4>4. \/ \A j \in 1 .. i : msgs[j].role = "tool"
            \/ \E j \in 1 .. i - 1 : /\ msgs[j].role = "assistant"
                                    /\ i - j <= Len(msgs[j].calls)
                                    /\ msgs[i] = Tool(msgs[j].calls[i - j])
        BY <3>2, <4>3 DEF ResultsInPlace, n
      <4> QED
        BY <4>1, <4>2, <4>3, <4>4, Zenon
    <3> QED
      BY <1>1, <3>1, <3>2
  <2>5. ResultsInPlace(new)
    BY <2>4, Zenon DEF ResultsInPlace
  <2> QED
    BY <2>3, <2>5 DEF new
<1> QED
  BY <1>3, <1>4 DEF Stands, n

\* An answer is the last message, and its calls are to be answered.
LEMMA AnswerStands ==
  ASSUME NEW msgs \in Seq(Messages), NEW calls \in Seq(CallIds), ResultsInPlace(msgs)
  PROVE  /\ ResultsInPlace(Append(msgs, Assistant(calls)))
         /\ Stands(Append(msgs, Assistant(calls)), calls, 0)
<1> DEFINE m == Assistant(calls)
<1>1. m \in Messages /\ m.role = "assistant" /\ m.role # "tool" /\ m.calls = calls
  BY MessageTypes DEF Assistant
<1> HIDE DEF m
<1>2. Len(Append(msgs, m)) = Len(msgs) + 1 /\ Append(msgs, m)[Len(msgs) + 1] = m
  OBVIOUS
<1>3. Stands(Append(msgs, m), calls, 0)
  BY <1>1, <1>2 DEF Stands
<1>4. ResultsInPlace(Append(msgs, m))
  BY <1>1, OtherInPlace
<1> QED
  BY <1>3, <1>4 DEF m

\* A step of the loop leaves every result in place.
LEMMA LoopStepPlaced ==
  ASSUME LoopTyped, NEW r \in Runs, LoopStep(r), Owes(r), Placed(r)
  PROVE  Placed(r)'
<1> DEFINE l == run[r]
<1>1. /\ run \in [Runs -> RunLocals] /\ l \in RunLocals /\ l.agent \in Agents
      /\ CallsKnown(l) /\ context \in [Agents -> Seq(Messages)]
      /\ l.calls \in Seq(CallIds) /\ l.done \in Nat
  <2>1. /\ run \in [Runs -> RunLocals] /\ l \in RunLocals /\ CallsKnown(l)
        /\ context \in [Agents -> Seq(Messages)]
    BY DEF LoopTyped, LoopTypeOK, CallsInProgress
  <2>2. l.agent \in Agents /\ l.calls \in Seq(CallIds) /\ l.done \in 0 .. MaxCalls
    BY <2>1 DEF RunLocals
  <2> QED
    BY <2>1, <2>2, LoopAssumption
<1>2. PICK a \in Agents : a = l.agent
  BY <1>1
<1>3. run'[r].agent = a /\ context[a] \in Seq(Messages)
  BY <1>1, <1>2, LoopStepLocal
<1>4. /\ AnsweredUpTo(context[a], l.calls, Answered(r)) /\ ResultsInPlace(context[a])
      /\ l.phase \in {"executing", "answering"} => Stands(context[a], l.calls, Answered(r))
  BY <1>2 DEF Owes, Placed
<1>5. ASSUME run'[r].phase \notin {"executing", "answering"}, ResultsInPlace(context'[a])
      PROVE  Placed(r)'
  BY <1>3, <1>5 DEF Placed
<1>6. l.phase \notin {"executing", "answering"} => CallsAnswered(context[a])
  BY <1>1, <1>3, <1>4, AllAnswered DEF Answered, At
<1>7. ASSUME NEW msgs \in Seq(Messages), CallsAnswered(msgs), ResultsInPlace(msgs)
      PROVE  ResultsInPlace(Compacted(msgs))
  <2>1. PICK none \in Seq(CallIds) : Len(none) = 0
    <3>1. <<>> \in Seq(CallIds) /\ Len(<<>>) = 0
      OBVIOUS
    <3> QED
      BY <3>1
  <2>2. AnsweredUpTo(msgs, none, Len(none))
    BY <1>7, AllAnswered
  <2>3. Len(none) \in Nat
    OBVIOUS
  <2> QED
    BY <1>7, <2>2, <2>3, CompactedInPlace
<1>8. CASE Begin(r)
  <2>1. context' = context /\ run'[r].phase = "prompting"
    BY <1>1, <1>8 DEF Begin, RunLocals
  <2> QED
    BY <1>4, <1>5, <2>1
<1>9. CASE Prompt(r)
  <2> DEFINE msgs == Append(context[a], User(r))
  <2>1. context'[a] = Compacted(msgs) /\ msgs \in Seq(Messages)
    BY <1>2, <1>9, AddedMessage, MessageTypes DEF Prompt
  <2>2. CallsAnswered(msgs)
    BY <1>3, <1>6, <1>9, PromptKeeps DEF Prompt, At
  <2>3. ResultsInPlace(msgs)
    <3>1. User(r) \in Messages /\ User(r).role # "tool"
      BY MessageTypes DEF User
    <3> QED
      BY <1>3, <1>4, <3>1, OtherInPlace
  <2> HIDE DEF msgs
  <2>4. ResultsInPlace(context'[a])
    BY <1>7, <2>1, <2>2, <2>3
  <2>5. run'[r].phase = "top"
    BY <1>1, <1>9 DEF Prompt, RunLocals
  <2> QED
    BY <1>5, <2>4, <2>5
<1>10. CASE Iterate(r)
  <2>1. context'[a] = Compacted(context[a])
    BY <1>1, <1>2, <1>10 DEF Iterate, NextIteration
  <2>2. l.phase = "top"
    BY <1>10 DEF Iterate, At
  <2>3. ResultsInPlace(context'[a])
    BY <1>3, <1>4, <1>6, <1>7, <2>1, <2>2
  <2>4. run'[r].phase = "streaming"
    BY <1>1, <1>10 DEF Iterate, NextIteration, RunLocals
  <2> QED
    BY <1>5, <2>3, <2>4
<1>11. CASE LeaveLoop(r) \/ AbortSeen(r) \/ ChatFails(r) \/ TextChunk(r) \/ Retry(r)
  <2>1. context' = context /\ run'[r].phase \in {"streaming", "finishing"}
    BY <1>1, <1>11 DEF LeaveLoop, AbortSeen, ChatFails, TextChunk, Retry, At, RunLocals
  <2> QED
    BY <1>4, <1>5, <2>1
<1>12. CASE Execute(r)
  <2>1. /\ l.phase = "executing" /\ context' = context /\ run'[r].calls = l.calls
        /\ \/ run'[r].phase = "executing"
           \/ run'[r].phase = "answering" /\ run'[r].done = 0
    BY <1>1, <1>12 DEF Execute, At, RunLocals
  <2>2. Answered(r) = 0 /\ Answered(r)' = 0
    BY <2>1 DEF Answered, At
  <2> QED
    BY <1>2, <1>3, <1>4, <2>1, <2>2 DEF Placed
<1>13. CASE AddResult(r)
  <2> DEFINE c == l.calls[l.done + 1]
             msgs == Append(context[a], Tool(c))
  <2>1. /\ l.phase = "answering" /\ l.done < Len(l.calls) /\ c \in CallIds
    BY <1>1, <1>13 DEF AddResult, At, CallsKnown
  <2>2. context'[a] = Compacted(msgs) /\ msgs \in Seq(Messages)
    BY <1>2, <1>13, <2>1, AddedMessage, MessageTypes DEF AddResult
  <2>3. Answered(r) = l.done
    BY <2>1 DEF Answered, At
  <2>4. AnsweredUpTo(msgs, l.calls, l.done + 1)
    BY <1>1, <1>3, <1>4, <2>1, <2>3, ResultAnswers
  <2>5. ResultsInPlace(msgs) /\ Stands(msgs, l.calls, l.done + 1)
    BY <1>1, <1>3, <1>4, <2>1, <2>3, ResultStands
  <2>6. l.done + 1 \in Nat /\ l.done + 1 <= Len(l.calls)
    BY <1>1, <2>1
  <2> HIDE DEF msgs
  <2>7. ResultsInPlace(context'[a]) /\ Stands(context'[a], l.calls, l.done + 1)
    BY <1>1, <2>2, <2>4, <2>5, <2>6, CompactedInPlace
  <2>8. /\ run'[r].calls = l.calls /\ run'[r].done = l.done + 1
        /\ run'[r].phase = IF l.done + 1 = Len(l.calls) THEN "top" ELSE "answering"
    BY <1>1, <1>13, <2>1 DEF AddResult, RunLocals
  <2>9. Answered(r)' = l.done + 1
    BY <2>8 DEF Answered, At
  <2> QED
    BY <1>3, <2>7, <2>8, <2>9 DEF Placed
<1>14. ASSUME NEW n \in 0 .. MaxCalls, Answer(r, n)
       PROVE  Placed(r)'
  <2>1. PICK calls \in Seq(CallIds) :
             /\ Len(calls) = n
             /\ run' = [run EXCEPT ![r].calls = calls,
                                   ![r].phase = IF n > 0 THEN "executing" ELSE "finishing"]
             /\ IF l.text \/ n > 0 THEN AddMessage(a, Assistant(calls)) ELSE UNCHANGED context
    BY <1>2, <1>14, AnswerCalls DEF Answer
  <2>2. /\ run'[r].calls = calls
        /\ run'[r].phase = IF n > 0 THEN "executing" ELSE "finishing"
    BY <1>1, <2>1 DEF RunLocals
  <2>3. CallsAnswered(context[a])
    BY <1>6, <1>14 DEF Answer, At
  <2>4. CASE UNCHANGED context /\ ~(n > 0)
    BY <1>4, <1>5, <2>2, <2>4
  <2>5. CASE AddMessage(a, Assistant(calls))
    <3> DEFINE msgs == Append(context[a], Assistant(calls))
    <3>1. context'[a] = Compacted(msgs) /\ msgs \in Seq(Messages)
      BY <2>5, AddedMessage, MessageTypes
    <3>2. AnsweredUpTo(msgs, calls, 0)
      BY <1>3, <2>3, AnswerOpens
    <3>3. ResultsInPlace(msgs) /\ Stands(msgs, calls, 0)
      BY <1>3, <1>4, AnswerStands
    <3> HIDE DEF msgs
    <3>4. 0 \in Nat /\ 0 <= Len(calls)
      OBVIOUS
    <3>5. ResultsInPlace(context'[a]) /\ Stands(context'[a], calls, 0)
      BY <3>1, <3>2, <3>3, <3>4, CompactedInPlace
    <3>6. run'[r].phase = "executing" => Answered(r)' = 0
      BY DEF Answered, At
    <3>7. run'[r].phase # "answering"
      BY <2>2
    <3> QED
      BY <1>3, <2>2, <3>5, <3>6, <3>7 DEF Placed
  <2> QED
    BY <2>1, <2>4, <2>5
<1> QED
  BY <1>8, <1>9, <1>10, <1>11, <1>12, <1>13, <1>14 DEF LoopStep

-----------------------------------------------------------------------------
(* What a run has still to do.                                            *)

\* What a run has still to do, given its locals and its agent's iteration.  The
\* rounds first, then how far it is in one, then the tries or calls that are left.
RoundsLeft(locals, iteration) ==
  CASE locals.phase = "starting"  -> MaxIterations + 3
    [] locals.phase = "prompting" -> MaxIterations + 2
    [] locals.phase \in {"top", "streaming", "executing", "answering"} ->
         MaxIterations + 1 - iteration
    [] OTHER -> 0

StagesLeft(locals) ==
  CASE locals.phase = "streaming" -> 4
    [] locals.phase = "executing" -> 3
    [] locals.phase = "answering" -> 2
    [] locals.phase \in {"top", "finishing"} -> 1
    [] OTHER -> 0

TurnsLeft(locals) ==
  CASE locals.phase = "streaming" ->
         RetryAttempts - locals.attempt + IF locals.text THEN 0 ELSE 1
    [] locals.phase \in {"executing", "answering"} -> Len(locals.calls) - locals.done
    [] OTHER -> 0

LeftToDo(locals, iteration) ==
  <<RoundsLeft(locals, iteration), StagesLeft(locals), TurnsLeft(locals)>>

Fewer(a, b) ==
  \/ a[1] < b[1]
  \/ /\ a[1] = b[1]
     /\ \/ a[2] < b[2]
        \/ a[2] = b[2] /\ a[3] < b[3]

LEMMA LeftToDoTyped ==
  ASSUME NEW locals \in RunLocals, CallsKnown(locals), NEW i \in 0 .. MaxIterations
  PROVE  LeftToDo(locals, i) \in Nat \X Nat \X Nat
<1>1. RoundsLeft(locals, i) \in Nat
  BY LoopAssumption DEF RoundsLeft
<1>2. StagesLeft(locals) \in Nat
  BY DEF StagesLeft
<1>3. TurnsLeft(locals) \in Nat
  <2>1. /\ locals.attempt \in 1 .. RetryAttempts
        /\ locals.done \in Nat
        /\ Len(locals.calls) \in Nat
    BY LoopAssumption DEF RunLocals
  <2>2. locals.phase \in {"executing", "answering"} => locals.done < Len(locals.calls)
    BY DEF CallsKnown
  <2> QED
    BY <2>1, <2>2, LoopAssumption DEF TurnsLeft
<1> QED
  BY <1>1, <1>2, <1>3 DEF LeftToDo

\* Whatever the loop does by itself leaves it less to do.
LEMMA LoopCountsDown ==
  ASSUME LoopTyped, NEW r \in Runs, LoopStep(r)
  PROVE  Fewer(LeftToDo(run'[r], loopState'[run'[r].agent].iteration),
               LeftToDo(run[r], Iteration(r)))
<1> DEFINE l == run[r]
           i == Iteration(r)
           m == run'[r]
           j == loopState'[run'[r].agent].iteration
<1>1. /\ l \in RunLocals
      /\ l.agent \in Agents
      /\ CallsKnown(l)
      /\ i \in 0 .. MaxIterations
      /\ loopState \in [Agents -> [iteration : 0 .. MaxIterations, isRunning : BOOLEAN]]
      /\ run \in [Runs -> RunLocals]
  BY DEF LoopTyped, LoopTypeOK, RunLocals, CallsInProgress, Iteration
<1>2. /\ l.attempt \in Nat
      /\ l.done \in Nat
      /\ Len(l.calls) \in Nat
      /\ l.text \in BOOLEAN
      /\ MaxIterations \in Nat
      /\ RetryAttempts \in Nat
      /\ i \in Nat
  BY <1>1, LoopAssumption DEF RunLocals
<1>3. CASE Begin(r)
  <2>1. l.phase = "starting" /\ m.phase = "prompting"
    BY <1>1, <1>3 DEF Begin, At
  <2> QED
    BY <1>2, <2>1 DEF Fewer, LeftToDo, RoundsLeft
<1>4. CASE Prompt(r)
  <2>1. l.phase = "prompting" /\ m.phase = "top" /\ j = i
    BY <1>1, <1>4 DEF Prompt, At, Iteration
  <2> QED
    BY <1>2, <2>1 DEF Fewer, LeftToDo, RoundsLeft
<1>5. CASE Iterate(r)
  <2>1. l.phase = "top" /\ m.phase = "streaming" /\ i < MaxIterations
    BY <1>1, <1>5 DEF Iterate, NextIteration, At
  <2>2. m.agent = l.agent /\ j = i + 1
    BY <1>1, <1>5 DEF Iterate, NextIteration, Iteration
  <2> QED
    BY <1>2, <2>1, <2>2 DEF Fewer, LeftToDo, RoundsLeft
<1>6. CASE LeaveLoop(r) \/ AbortSeen(r) \/ ChatFails(r)
  <2>1. l.phase \in {"top", "streaming"}
    BY <1>6 DEF LeaveLoop, AbortSeen, ChatFails, At
  <2>2. run' = [run EXCEPT ![r].phase = "finishing"]
    BY <1>6 DEF LeaveLoop, AbortSeen, ChatFails
  <2>3. m.phase = "finishing"
    BY <1>1, <2>2
  <2>4. RoundsLeft(m, j) = 0
    BY <2>3 DEF RoundsLeft
  <2>5. RoundsLeft(l, i) = MaxIterations + 1 - i
    BY <2>1 DEF RoundsLeft
  <2>6. MaxIterations + 1 - i > 0
    BY <1>1, <1>2
  <2> QED
    BY <2>4, <2>5, <2>6 DEF Fewer, LeftToDo
<1>7. CASE TextChunk(r)
  <2>1. /\ l.phase = "streaming" /\ m.phase = "streaming" /\ j = i
        /\ ~l.text /\ m.text /\ m.attempt = l.attempt
    BY <1>1, <1>7 DEF TextChunk, At, Iteration, RunLocals
  <2> QED
    BY <1>2, <2>1 DEF Fewer, LeftToDo, RoundsLeft, StagesLeft, TurnsLeft
<1>8. CASE Retry(r)
  <2>1. /\ l.phase = "streaming"
        /\ run' = [run EXCEPT ![r].attempt = @ + 1]
        /\ loopState' = loopState
    BY <1>8 DEF Retry, At
  <2>2. m = [l EXCEPT !.attempt = @ + 1]
    BY <1>1, <2>1
  <2>3. /\ m.phase = l.phase /\ m.text = l.text /\ m.agent = l.agent
        /\ m.attempt = l.attempt + 1
    BY <1>1, <2>2 DEF RunLocals
  <2>4. j = i
    BY <2>1, <2>3 DEF Iteration
  <2> QED
    BY <1>2, <2>1, <2>3, <2>4 DEF Fewer, LeftToDo, RoundsLeft, StagesLeft, TurnsLeft
<1>9. ASSUME NEW n \in 0 .. MaxCalls, Answer(r, n)
      PROVE  Fewer(LeftToDo(m, j), LeftToDo(l, i))
  <2>1. l.phase = "streaming" /\ m.phase \in {"executing", "finishing"} /\ j = i
    BY <1>1, <1>9 DEF Answer, At, Iteration
  <2> QED
    BY <1>1, <1>2, <2>1 DEF Fewer, LeftToDo, RoundsLeft, StagesLeft
<1>10. CASE Execute(r)
  <2>1. l.phase = "executing" /\ j = i /\ m.calls = l.calls /\ l.done < Len(l.calls)
    BY <1>1, <1>10 DEF Execute, At, Iteration, CallsKnown
  <2>2. \/ m.phase = "answering"
        \/ m.phase = "executing" /\ m.done = l.done + 1
    BY <1>1, <1>10 DEF Execute, At
  <2> QED
    BY <1>2, <2>1, <2>2 DEF Fewer, LeftToDo, RoundsLeft, StagesLeft, TurnsLeft
<1>11. CASE AddResult(r)
  <2>1. l.phase = "answering" /\ j = i /\ m.calls = l.calls /\ l.done < Len(l.calls)
    BY <1>1, <1>11 DEF AddResult, At, Iteration, CallsKnown
  <2>2. \/ m.phase = "top"
        \/ m.phase = "answering" /\ m.done = l.done + 1
    BY <1>1, <1>11 DEF AddResult, At
  <2> QED
    BY <1>2, <2>1, <2>2 DEF Fewer, LeftToDo, RoundsLeft, StagesLeft, TurnsLeft
<1> QED
  BY <1>3, <1>4, <1>5, <1>6, <1>7, <1>8, <1>9, <1>10, <1>11 DEF LoopStep
=============================================================================
