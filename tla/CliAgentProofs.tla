---------------------------- MODULE CliAgentProofs ----------------------------
(***************************************************************************)
(* Proofs about the command line agent, for any calls, rules, mode and     *)
(* keys of the cache and any number of processes: what the agent itself    *)
(* executes was judged, the user is asked once per key, and what is saved  *)
(* has its calls and results paired.                                       *)
(*                                                                         *)
(* The first two are not inductive: between the prompt and the execution   *)
(* the call in hand carries the verdict, and the cache the answers.        *)
(* ProcessOK says what holds between the four parts of one process, and    *)
(* DelegationInv where subagents come from.  What is saved is complete     *)
(* because the loop owes nothing when it finishes: SessionInv.             *)
(***************************************************************************)
EXTENDS CliAgent, AgentLoopProofs

CallRecord == [stage : Stages, asked : Calls, runs : Calls]

\* May this call be executed with these answers?
Cleared(c, answers) ==
  ~Refused(c) /\ (Verdict(c) = "allow" \/ (Verdict(c) = "ask" /\ answers[Key[c]] = "yes"))

\* Something of this key was shown.
WasShown(k, prompts) == \E i \in 1 .. Len(prompts) : Key[prompts[i]] = k

\* inHand, answers, prompts and executed of one process
Types(inHand, answers, prompts, executed) ==
  /\ inHand \in CallRecord
  /\ answers \in [Keys -> Answers]
  /\ prompts \in Seq(Calls)
  /\ executed \in SUBSET Calls

ProcessOK(inHand, answers, prompts, executed) ==
  /\ Types(inHand, answers, prompts, executed)
  /\ \A c \in executed : Cleared(c, answers)
  /\ inHand.stage = "execute" => Cleared(inHand.runs, answers)
  /\ \A k \in Keys : answers[k] # "unknown" => WasShown(k, prompts)
  /\ \A i, j \in 1 .. Len(prompts) : Key[prompts[i]] = Key[prompts[j]] => i = j
  /\ inHand.stage = "asking" =>
       /\ Verdict(inHand.runs) = "ask" /\ answers[Key[inHand.runs]] = "unknown"
       /\ WasShown(Key[inHand.runs], prompts)
  /\ \A i \in 1 .. Len(prompts) :
       \/ answers[Key[prompts[i]]] # "unknown"
       \/ inHand.stage = "asking" /\ Key[inHand.runs] = Key[prompts[i]]

ProcessInv(p) == ProcessOK(call[p], cache[p], shown[p], ran[p])

IInv ==
  /\ call \in [Runs -> CallRecord] /\ cache \in [Runs -> [Keys -> Answers]]
  /\ shown \in [Runs -> Seq(Calls)] /\ ran \in [Runs -> SUBSET Calls]
  /\ \A p \in Runs : ProcessInv(p)

-----------------------------------------------------------------------------
(* One process.                                                            *)

LEMMA NothingDone ==
  ProcessOK(NoCall, [k \in Keys |-> "unknown"], <<>>, {})
  BY RulesAssumption DEF ProcessOK, Types, NoCall, CallRecord, AnyCall, Stages, Answers, Keys

\* No call in hand, or one that is still to be checked, promises nothing.
LEMMA HandChanges ==
  ASSUME NEW h \in CallRecord, NEW g \in CallRecord, NEW k, NEW s, NEW r,
         ProcessOK(h, k, s, r), h.stage # "asking", g.stage \in {"none", "check"}
  PROVE  ProcessOK(g, k, s, r)
  BY DEF ProcessOK, Types

LEMMA KeyType == \A c \in Calls : Key[c] \in Keys
  BY DEF Keys

\* The call passes: allowed by the rules or the mode, or by an earlier yes.
LEMMA Passes ==
  ASSUME NEW h, NEW k, NEW s, NEW r, ProcessOK(h, k, s, r), h.stage = "check",
         Cleared(h.runs, k)
  PROVE  ProcessOK([h EXCEPT !.stage = "execute"], k, s, r)
<1> DEFINE g == [h EXCEPT !.stage = "execute"]
<1>1. g \in CallRecord /\ g.stage = "execute" /\ g.runs = h.runs
  BY DEF ProcessOK, Types, CallRecord, Stages
<1> HIDE DEF g
<1>2. ProcessOK(g, k, s, r)
  BY <1>1 DEF ProcessOK, Types
<1> QED
  BY <1>2 DEF g

\* The prompt is shown: the first of its key.
LEMMA Asks ==
  ASSUME NEW h, NEW k, NEW s, NEW r, ProcessOK(h, k, s, r), h.stage = "check",
         Verdict(h.runs) = "ask", k[Key[h.runs]] = "unknown"
  PROVE  ProcessOK([h EXCEPT !.stage = "asking"], k, Append(s, h.runs), r)
<1> DEFINE g == [h EXCEPT !.stage = "asking"]
           t == Append(s, h.runs)
<1>1. g \in CallRecord /\ g.stage = "asking" /\ g.runs = h.runs /\ h.runs \in Calls
  BY DEF ProcessOK, Types, CallRecord, Stages
<1>2. s \in Seq(Calls) /\ Len(s) \in Nat
  BY DEF ProcessOK, Types
<1>3. /\ t \in Seq(Calls) /\ Len(t) = Len(s) + 1 /\ t[Len(s) + 1] = h.runs
      /\ \A i \in 1 .. Len(s) : t[i] = s[i]
  BY <1>1, <1>2
<1>4. \A i \in 1 .. Len(s) : k[Key[s[i]]] # "unknown"
  BY DEF ProcessOK
<1>5. \A i \in 1 .. Len(s) : Key[s[i]] # Key[h.runs]
  BY <1>4
<1> HIDE DEF g, t
<1>6. Types(g, k, t, r)
  BY <1>1, <1>3 DEF ProcessOK, Types
<1>7. \A i, j \in 1 .. Len(t) : Key[t[i]] = Key[t[j]] => i = j
  <2>1. \A i, j \in 1 .. Len(s) : Key[s[i]] = Key[s[j]] => i = j
    BY DEF ProcessOK
  <2>2. \A i \in 1 .. Len(t) : i \in 1 .. Len(s) \/ i = Len(s) + 1
    BY <1>2, <1>3
  <2> QED
    BY <1>2, <1>3, <1>5, <2>1, <2>2
<1>8. \A x \in Keys : k[x] # "unknown" => WasShown(x, t)
  <2>1. TAKE x \in Keys
  <2>2. HAVE k[x] # "unknown"
  <2>3. PICK i \in 1 .. Len(s) : Key[s[i]] = x
    BY <2>2 DEF ProcessOK, WasShown
  <2>4. i \in 1 .. Len(t) /\ Key[t[i]] = x
    BY <1>2, <1>3, <2>3
  <2> QED
    BY <2>4 DEF WasShown
<1>9. WasShown(Key[h.runs], t)
  <2>1. Len(s) + 1 \in 1 .. Len(t)
    BY <1>2, <1>3
  <2> QED
    BY <1>3, <2>1 DEF WasShown
<1>10. \A i \in 1 .. Len(t) : k[Key[t[i]]] # "unknown" \/ Key[h.runs] = Key[t[i]]
  <2>1. \A i \in 1 .. Len(t) : i \in 1 .. Len(s) \/ i = Len(s) + 1
    BY <1>2, <1>3
  <2> QED
    BY <1>3, <1>4, <2>1
<1>11. \A c \in r : Cleared(c, k)
  BY DEF ProcessOK
<1>12. ProcessOK(g, k, t, r)
  BY <1>1, <1>6, <1>7, <1>8, <1>9, <1>10, <1>11 DEF ProcessOK
<1> QED
  BY <1>12 DEF g, t

\* The user answers; the answer is of a key that had none.
LEMMA AnswerKept ==
  ASSUME NEW h, NEW k, NEW s, NEW r, ProcessOK(h, k, s, r), h.stage = "asking",
         NEW answer \in {"yes", "no"}, NEW g \in CallRecord,
         \/ g.stage = "none"
         \/ g.stage = "execute" /\ g.runs = h.runs /\ answer = "yes"
  PROVE  ProcessOK(g, [k EXCEPT ![Key[h.runs]] = answer], s, r)
<1> DEFINE l == [k EXCEPT ![Key[h.runs]] = answer]
<1>1. /\ h.runs \in Calls /\ Key[h.runs] \in Keys /\ k \in [Keys -> Answers] /\ r \subseteq Calls
      /\ k[Key[h.runs]] = "unknown" /\ Verdict(h.runs) = "ask"
      /\ WasShown(Key[h.runs], s) /\ s \in Seq(Calls)
  BY KeyType DEF ProcessOK, Types, CallRecord
<1>2. /\ l \in [Keys -> Answers] /\ l[Key[h.runs]] = answer
      /\ \A x \in Keys : x # Key[h.runs] => l[x] = k[x]
  BY <1>1 DEF Answers
<1> HIDE DEF l
<1>3. \A c \in r : Cleared(c, l)
  BY <1>1, <1>2, KeyType DEF ProcessOK, Cleared
<1>4. g.stage = "execute" => Cleared(g.runs, l)
  BY <1>1, <1>2 DEF Cleared, Verdict
<1>5. \A x \in Keys : l[x] # "unknown" => WasShown(x, s)
  BY <1>1, <1>2 DEF ProcessOK
<1>6. \A i \in 1 .. Len(s) : l[Key[s[i]]] # "unknown"
  <2>1. \A i \in 1 .. Len(s) : s[i] \in Calls
    BY <1>1
  <2> QED
    BY <1>1, <1>2, <2>1, KeyType DEF ProcessOK
<1>7. ProcessOK(g, l, s, r)
  BY <1>2, <1>3, <1>4, <1>5, <1>6 DEF ProcessOK, Types
<1> QED
  BY <1>7 DEF l

\* An executed call leaves no call in hand, or one that waits for a subagent.
LEMMA Executed ==
  ASSUME NEW h, NEW k, NEW s, NEW r, ProcessOK(h, k, s, r), h.stage = "execute",
         NEW g \in CallRecord, g.stage \in {"none", "delegating"}
  PROVE  ProcessOK(g, k, s, r \cup {h.runs})
<1>1. h.runs \in Calls
  BY DEF ProcessOK, Types, CallRecord
<1> QED
  BY <1>1 DEF ProcessOK, Types

-----------------------------------------------------------------------------
(* The steps.                                                              *)

\* A step of one process leaves those of the others alone.
LEMMA OneProcess ==
  ASSUME IInv, NEW p \in Runs, NEW h, NEW k, NEW s, NEW r, ProcessOK(h, k, s, r),
         call' = [call EXCEPT ![p] = h], cache' = [cache EXCEPT ![p] = k],
         shown' = [shown EXCEPT ![p] = s], ran' = [ran EXCEPT ![p] = r]
  PROVE  IInv'
<1>1. h \in CallRecord /\ k \in [Keys -> Answers] /\ s \in Seq(Calls) /\ r \in SUBSET Calls
  BY DEF ProcessOK, Types
<1>2. /\ call' \in [Runs -> CallRecord] /\ cache' \in [Runs -> [Keys -> Answers]]
      /\ shown' \in [Runs -> Seq(Calls)] /\ ran' \in [Runs -> SUBSET Calls]
  BY <1>1 DEF IInv
<1>3. ASSUME NEW q \in Runs PROVE ProcessInv(q)'
  <2>1. CASE q = p
    <3>1. call'[p] = h /\ cache'[p] = k /\ shown'[p] = s /\ ran'[p] = r
      BY DEF IInv
    <3> QED
      BY <2>1, <3>1 DEF ProcessInv
  <2>2. CASE q # p
    <3>1. call'[q] = call[q] /\ cache'[q] = cache[q] /\ shown'[q] = shown[q] /\ ran'[q] = ran[q]
      BY <2>2 DEF IInv
    <3>2. ProcessOK(call[q], cache[q], shown[q], ran[q])
      BY DEF IInv, ProcessInv
    <3> QED
      BY <3>1, <3>2 DEF ProcessInv
  <2> QED
    BY <2>1, <2>2
<1> QED
  BY <1>2, <1>3 DEF IInv

LEMMA OneProcessNow ==
  ASSUME IInv, NEW p \in Runs, ProcessOK(call'[p], cache'[p], shown'[p], ran'[p]),
         call' = [call EXCEPT ![p] = call'[p]], cache' = [cache EXCEPT ![p] = cache'[p]],
         shown' = [shown EXCEPT ![p] = shown'[p]], ran' = [ran EXCEPT ![p] = ran'[p]]
  PROVE  IInv'
<1> DEFINE h == call'[p]
           k == cache'[p]
           s == shown'[p]
           r == ran'[p]
<1>1. /\ ProcessOK(h, k, s, r) /\ call' = [call EXCEPT ![p] = h] /\ cache' = [cache EXCEPT ![p] = k]
      /\ shown' = [shown EXCEPT ![p] = s] /\ ran' = [ran EXCEPT ![p] = r]
  OBVIOUS
<1> HIDE DEF h, k, s, r
<1> QED
  BY <1>1, OneProcess, Zenon

LEMMA SameParts ==
  ASSUME IInv, UNCHANGED <<call, cache, shown, ran>>
  PROVE  IInv'
  BY DEF IInv, ProcessInv

LEMMA CallsExist ==
  ASSUME IInv, NEW p \in Runs
  PROVE  /\ Calls # {} /\ NoCall \in CallRecord /\ NoCall.stage = "none"
         /\ call = [call EXCEPT ![p] = call[p]] /\ cache = [cache EXCEPT ![p] = cache[p]]
         /\ shown = [shown EXCEPT ![p] = shown[p]] /\ ran = [ran EXCEPT ![p] = ran[p]]
         /\ ProcessOK(call[p], cache[p], shown[p], ran[p])
         /\ call[p] \in CallRecord /\ call[p].asked \in Calls /\ call[p].runs \in Calls
<1>1. call[p] \in CallRecord
  BY DEF IInv
<1>2. Calls # {} /\ call[p].asked \in Calls /\ call[p].runs \in Calls
  BY <1>1 DEF CallRecord
<1>3. NoCall \in CallRecord /\ NoCall.stage = "none"
  BY <1>2 DEF NoCall, AnyCall, CallRecord, Stages
<1> QED
  BY <1>1, <1>2, <1>3 DEF IInv, ProcessInv

LEMMA ExitKeeps ==
  ASSUME IInv, NEW p \in Runs, Exit(p)
  PROVE  IInv'
  BY NothingDone, OneProcess, Zenon DEF Exit

\* The call in hand is done with, without a change of what is remembered.
LEMMA OverKeeps ==
  ASSUME IInv, NEW p \in Runs, call[p].stage # "asking", call' = [call EXCEPT ![p] = NoCall],
         UNCHANGED <<cache, shown, ran>>
  PROVE  IInv'
<1>1. ProcessOK(NoCall, cache[p], shown[p], ran[p])
  BY CallsExist, HandChanges
<1>2. call'[p] = NoCall /\ cache'[p] = cache[p] /\ shown'[p] = shown[p] /\ ran'[p] = ran[p]
  BY DEF IInv
<1>3. /\ cache' = [cache EXCEPT ![p] = cache'[p]] /\ shown' = [shown EXCEPT ![p] = shown'[p]]
      /\ ran' = [ran EXCEPT ![p] = ran'[p]]
  BY CallsExist
<1> QED
  BY <1>1, <1>2, <1>3, OneProcessNow, Zenon

LEMMA PreToolUseKeeps ==
  ASSUME IInv, NEW p \in Runs, NEW c \in Calls, NEW d \in Calls, PreToolUse(p, c, d)
  PROVE  IInv'
<1> DEFINE h == [stage |-> "check", asked |-> c, runs |-> d]
<1>1. h \in CallRecord /\ h.stage = "check"
  BY DEF CallRecord, Stages
<1>2. ProcessOK(h, cache[p], shown[p], ran[p])
  BY <1>1, CallsExist, HandChanges DEF PreToolUse
<1>3. /\ call' = [call EXCEPT ![p] = h] /\ cache' = [cache EXCEPT ![p] = cache[p]]
      /\ shown' = [shown EXCEPT ![p] = shown[p]] /\ ran' = [ran EXCEPT ![p] = ran[p]]
  BY CallsExist DEF PreToolUse
<1> QED
  BY <1>2, <1>3, OneProcess, Zenon

\* The verdict of the rules is what the call is cleared by, with the cache.
LEMMA JudgedMeans ==
  ASSUME IInv, NEW p \in Runs
  PROVE  /\ Judged(p) = "allow" => Cleared(call[p].runs, cache[p])
         /\ Judged(p) \notin {"allow", "deny"} =>
              Verdict(call[p].runs) = "ask" /\ cache[p][Key[call[p].runs]] = "unknown"
<1>1. cache[p][Key[call[p].runs]] \in Answers
  BY CallsExist, KeyType DEF IInv
<1>2. Verdict(call[p].runs) \in {"allow", "deny", "ask"}
  BY DEF Verdict, ByMode
<1> QED
  BY <1>1, <1>2 DEF Judged, JudgedCall, Cached, Cleared, Verdict, ByMode, Answers

LEMMA CheckKeeps ==
  ASSUME IInv, NEW p \in Runs, Check(p)
  PROVE  IInv'
<1>1. call[p].stage = "check" /\ Judged(p) # "deny" /\ UNCHANGED <<cache, ran>>
  BY DEF Check
<1>2. CASE Judged(p) = "allow"
  <2>1. ProcessOK([call[p] EXCEPT !.stage = "execute"], cache[p], shown[p], ran[p])
    BY <1>1, <1>2, CallsExist, JudgedMeans, Passes
  <2>2. call' = [call EXCEPT ![p] = [call[p] EXCEPT !.stage = "execute"]] /\ shown' = shown
    BY <1>2 DEF Check
  <2>3. /\ cache' = [cache EXCEPT ![p] = cache[p]] /\ shown' = [shown EXCEPT ![p] = shown[p]]
        /\ ran' = [ran EXCEPT ![p] = ran[p]]
    BY <1>1, <2>2, CallsExist
  <2> QED
    BY <2>1, <2>2, <2>3, OneProcess, Zenon
<1>3. CASE Judged(p) # "allow"
  <2>1. ProcessOK([call[p] EXCEPT !.stage = "asking"], cache[p],
                  Append(shown[p], call[p].runs), ran[p])
    BY <1>1, <1>3, CallsExist, JudgedMeans, Asks
  <2>2. /\ call' = [call EXCEPT ![p] = [call[p] EXCEPT !.stage = "asking"]]
        /\ shown' = [shown EXCEPT ![p] = Append(shown[p], call[p].runs)]
    BY <1>3 DEF Check, JudgedCall
  <2>3. cache' = [cache EXCEPT ![p] = cache[p]] /\ ran' = [ran EXCEPT ![p] = ran[p]]
    BY <1>1, CallsExist
  <2> QED
    BY <2>1, <2>2, <2>3, OneProcess, Zenon
<1> QED
  BY <1>2, <1>3

LEMMA UserStepKeeps ==
  ASSUME IInv, NEW p \in Runs, UserStep(p)
  PROVE  IInv'
<1>1. CASE UserApproves(p)
  <2> DEFINE g == [call[p] EXCEPT !.stage = "execute"]
             k == [cache[p] EXCEPT ![Key[call[p].runs]] = "yes"]
  <2>1. g \in CallRecord /\ g.stage = "execute" /\ g.runs = call[p].runs
    BY CallsExist DEF CallRecord, Stages
  <2>2. call[p].stage = "asking"
    BY <1>1 DEF UserApproves
  <2>3. ProcessOK(g, k, shown[p], ran[p])
    <3> HIDE DEF g
    <3> QED
      BY <2>1, <2>2, CallsExist, AnswerKept
  <2>4. call' = [call EXCEPT ![p] = g] /\ cache' = [cache EXCEPT ![p] = k] /\ UNCHANGED <<shown, ran>>
    BY <1>1 DEF UserApproves, Remember, JudgedCall
  <2> HIDE DEF g, k
  <2>5. call'[p] = g /\ cache'[p] = k /\ shown'[p] = shown[p] /\ ran'[p] = ran[p]
    BY <2>4 DEF IInv
  <2>6. shown' = [shown EXCEPT ![p] = shown'[p]] /\ ran' = [ran EXCEPT ![p] = ran'[p]]
    BY <2>4, CallsExist
  <2> QED
    BY <2>3, <2>4, <2>5, <2>6, OneProcessNow, Zenon
<1>2. CASE UserDenies(p)
  <2> DEFINE k == [cache[p] EXCEPT ![Key[call[p].runs]] = "no"]
  <2>1. ProcessOK(NoCall, k, shown[p], ran[p])
    BY <1>2, CallsExist, AnswerKept DEF UserDenies
  <2>2. /\ call' = [call EXCEPT ![p] = NoCall] /\ cache' = [cache EXCEPT ![p] = k]
        /\ UNCHANGED <<shown, ran>>
    BY <1>2 DEF UserDenies, Remember, JudgedCall, CallIsOver
  <2> HIDE DEF k
  <2>3. call'[p] = NoCall /\ cache'[p] = k /\ shown'[p] = shown[p] /\ ran'[p] = ran[p]
    BY <2>2 DEF IInv
  <2>4. shown' = [shown EXCEPT ![p] = shown'[p]] /\ ran' = [ran EXCEPT ![p] = ran'[p]]
    BY <2>2, CallsExist
  <2> QED
    BY <2>1, <2>2, <2>3, <2>4, OneProcessNow, Zenon
<1> QED
  BY <1>1, <1>2 DEF UserStep

\* What becomes of the call in hand when it was executed.
LEMMA AfterExecution ==
  ASSUME IInv, NEW p \in Runs, ExecuteCall(p)
  PROVE  \/ CallIsOver(p) /\ call' = [call EXCEPT ![p] = NoCall]
         \/ /\ call[p].runs \in TaskCalls /\ UNCHANGED run
            /\ call' = [call EXCEPT ![p] = [call[p] EXCEPT !.stage = "delegating"]]
            /\ [call[p] EXCEPT !.stage = "delegating"] \in CallRecord
<1>1. [call[p] EXCEPT !.stage = "delegating"] \in CallRecord
  BY CallsExist DEF CallRecord, Stages
<1> QED
  BY <1>1 DEF ExecuteCall, CallIsOver

LEMMA ExecuteCallKeeps ==
  ASSUME IInv, NEW p \in Runs, ExecuteCall(p)
  PROVE  IInv'
<1> DEFINE k == cache[p]
           s == shown[p]
           r == ran[p] \cup {call[p].runs}
<1>1. \E g \in CallRecord : g.stage \in {"none", "delegating"} /\ call' = [call EXCEPT ![p] = g]
  <2>1. [call[p] EXCEPT !.stage = "delegating"].stage = "delegating"
    BY CallsExist DEF CallRecord
  <2>2. NoCall \in CallRecord /\ NoCall.stage = "none"
    BY CallsExist
  <2> QED
    BY <2>1, <2>2, AfterExecution
<1>2. PICK g \in CallRecord : g.stage \in {"none", "delegating"} /\ call' = [call EXCEPT ![p] = g]
  BY <1>1
<1>3. ProcessOK(g, k, s, r)
  BY <1>2, CallsExist, Executed DEF ExecuteCall
<1>4. ran' = [ran EXCEPT ![p] = r] /\ UNCHANGED <<cache, shown>>
  BY DEF ExecuteCall
<1>5. cache' = [cache EXCEPT ![p] = k] /\ shown' = [shown EXCEPT ![p] = s]
  BY <1>4, CallsExist
<1> HIDE DEF k, s, r
<1> QED
  BY <1>2, <1>3, <1>4, <1>5, OneProcess, Zenon

LEMMA StepKeepsIInv == IInv /\ [Next]_vars => IInv'
<1> SUFFICES ASSUME IInv, [Next]_vars PROVE IInv'
  OBVIOUS
<1>1. ASSUME NEW p \in Runs, StartProcess(p) \/ Loop(p) \/ BeginSave(p) \/ EndSave(p)
      PROVE  UNCHANGED <<call, cache, shown, ran>>
  BY <1>1 DEF StartProcess, Loop, BeginSave, EndSave, cliVars
<1>2. ASSUME NEW p \in Runs, RunOver(p) \/ Failing(p)
      PROVE  Exit(p)
  BY <1>2 DEF RunOver, Failing, PromptBlocked, RequestFails, Crash
<1>3. ASSUME NEW p \in Runs, ToolStep(p)
      PROVE  IInv'
  <2>1. ASSUME HookBlocksCall(p) \/ CheckDenies(p) PROVE IInv'
    BY <2>1, OverKeeps DEF HookBlocksCall, CheckDenies, CallIsOver
  <2> QED
    BY <1>3, <2>1, PreToolUseKeeps, CheckKeeps, ExecuteCallKeeps DEF ToolStep
<1>4. ASSUME NEW p \in Runs, SubagentStep(p)
      PROVE  IInv'
  <2>1. CASE SubagentReturns(p)
    BY <2>1, OverKeeps DEF SubagentReturns, CallIsOver
  <2>2. CASE UNCHANGED <<call, cache, shown, ran>>
    BY <2>2, SameParts
  <2> QED
    BY <1>4, <2>1, <2>2 DEF SubagentStep, SubagentExecutes, BackgroundEnds
<1>5. CASE UNCHANGED vars
  BY <1>5, SameParts DEF vars, cliVars
<1> QED
  BY <1>1, <1>2, <1>3, <1>4, <1>5, SameParts, ExitKeeps, UserStepKeeps DEF Next, Ending

LEMMA ProcessesAlways == Spec => []IInv
<1>1. Init => IInv
  <2> SUFFICES ASSUME Init PROVE IInv
    OBVIOUS
  <2>1. ProcessOK(NoCall, [k \in Keys |-> "unknown"], <<>>, {})
    BY NothingDone
  <2>2. NoCall \in CallRecord /\ [k \in Keys |-> "unknown"] \in [Keys -> Answers] /\ <<>> \in Seq(Calls)
    BY <2>1 DEF ProcessOK, Types
  <2> QED
    BY <2>1, <2>2 DEF Init, IInv, ProcessInv
<1> QED
  BY <1>1, StepKeepsIInv, PTL DEF Spec

-----------------------------------------------------------------------------
(* The subagents.                                                          *)

\* There is one only where a Task call was executed, and so judged.
Delegates(inHand, executed, done, working) ==
  /\ done \in SUBSET Calls /\ working \in BOOLEAN
  /\ inHand.stage = "delegating" => inHand.runs \in executed \cap TaskCalls
  /\ done # {} \/ working => executed \cap TaskCalls # {}

DelegationInv ==
  /\ delegated \in [Runs -> SUBSET Calls] /\ background \in [Runs -> BOOLEAN]
  /\ \A p \in Runs : Delegates(call[p], ran[p], delegated[p], background[p])

LEMMA DelegationBegins == Init => DelegationInv
  BY DEF Init, NoCall, DelegationInv, Delegates

\* A step of one process leaves the subagents of the others alone.
LEMMA OneDelegates ==
  ASSUME IInv, DelegationInv, NEW p \in Runs, NEW h, NEW r, NEW d, NEW b, Delegates(h, r, d, b),
         call' = [call EXCEPT ![p] = h], ran' = [ran EXCEPT ![p] = r],
         delegated' = [delegated EXCEPT ![p] = d], background' = [background EXCEPT ![p] = b]
  PROVE  DelegationInv'
<1>1. /\ delegated' \in [Runs -> SUBSET Calls] /\ background' \in [Runs -> BOOLEAN]
  BY DEF DelegationInv, Delegates
<1>2. ASSUME NEW q \in Runs
      PROVE  Delegates(call'[q], ran'[q], delegated'[q], background'[q])
  <2>1. CASE q = p
    <3>1. call'[p] = h /\ ran'[p] = r /\ delegated'[p] = d /\ background'[p] = b
      BY DEF IInv, DelegationInv
    <3> QED
      BY <2>1, <3>1
  <2>2. CASE q # p
    <3>1. /\ call'[q] = call[q] /\ ran'[q] = ran[q]
          /\ delegated'[q] = delegated[q] /\ background'[q] = background[q]
      BY <2>2 DEF IInv, DelegationInv
    <3>2. Delegates(call[q], ran[q], delegated[q], background[q])
      BY DEF DelegationInv
    <3> QED
      BY <3>1, <3>2
  <2> QED
    BY <2>1, <2>2
<1> QED
  BY <1>1, <1>2 DEF DelegationInv

LEMMA SameProcess ==
  ASSUME IInv, DelegationInv, NEW p \in Runs
  PROVE  /\ call = [call EXCEPT ![p] = call[p]] /\ ran = [ran EXCEPT ![p] = ran[p]]
         /\ delegated = [delegated EXCEPT ![p] = delegated[p]]
         /\ background = [background EXCEPT ![p] = background[p]]
         /\ Delegates(call[p], ran[p], delegated[p], background[p])
  BY DEF IInv, DelegationInv

\* A call is put in hand, or taken out of it, that waits for no subagent.
LEMMA HandDelegates ==
  ASSUME IInv, DelegationInv, NEW p \in Runs, NEW h, h.stage # "delegating",
         call' = [call EXCEPT ![p] = h], UNCHANGED <<ran, delegated, background>>
  PROVE  DelegationInv'
<1> DEFINE r == ran[p]
           d == delegated[p]
           b == background[p]
<1>1. Delegates(h, r, d, b)
  BY SameProcess DEF Delegates
<1>2. /\ ran' = [ran EXCEPT ![p] = r]
      /\ delegated' = [delegated EXCEPT ![p] = d]
      /\ background' = [background EXCEPT ![p] = b]
  BY SameProcess
<1>3. call' = [call EXCEPT ![p] = h]
  OBVIOUS
<1> HIDE DEF r, d, b
<1> QED
  BY <1>1, <1>2, <1>3, OneDelegates, Zenon

LEMMA ExecuteCallDelegates ==
  ASSUME IInv, DelegationInv, NEW p \in Runs, ExecuteCall(p)
  PROVE  DelegationInv'
<1> DEFINE r == ran[p] \cup {call[p].runs}
           d == delegated[p]
<1>1. ran' = [ran EXCEPT ![p] = r] /\ delegated' = [delegated EXCEPT ![p] = d]
  BY SameProcess DEF ExecuteCall
<1>2. Delegates(call[p], ran[p], d, background[p])
  BY SameProcess
<1>3. CASE call' = [call EXCEPT ![p] = NoCall] /\ UNCHANGED background
  <2>1. Delegates(NoCall, r, d, background[p])
    BY <1>2 DEF Delegates, NoCall
  <2>2. background' = [background EXCEPT ![p] = background[p]]
    BY <1>3, SameProcess
  <2> HIDE DEF r, d
  <2> QED
    BY <1>1, <1>3, <2>1, <2>2, OneDelegates, Zenon
<1>4. CASE /\ call' = [call EXCEPT ![p] = NoCall] /\ call[p].runs \in TaskCalls
           /\ background' = [background EXCEPT ![p] = TRUE]
  <2>1. Delegates(NoCall, r, d, TRUE)
    BY <1>2, <1>4 DEF Delegates, NoCall
  <2> HIDE DEF r, d
  <2> QED
    BY <1>1, <1>4, <2>1, OneDelegates, Zenon
<1>5. CASE /\ call[p].runs \in TaskCalls /\ UNCHANGED background
           /\ call' = [call EXCEPT ![p] = [call[p] EXCEPT !.stage = "delegating"]]
  <2> DEFINE h == [call[p] EXCEPT !.stage = "delegating"]
  <2>1. h.runs = call[p].runs
    BY CallsExist DEF CallRecord
  <2> HIDE DEF h
  <2>2. Delegates(h, r, d, background[p])
    BY <1>2, <1>5, <2>1 DEF Delegates
  <2>3. background' = [background EXCEPT ![p] = background[p]] /\ call' = [call EXCEPT ![p] = h]
    BY <1>5, SameProcess DEF h
  <2> HIDE DEF r, d
  <2> QED
    BY <1>1, <2>2, <2>3, OneDelegates, Zenon
<1> QED
  BY <1>3, <1>4, <1>5 DEF ExecuteCall, CallIsOver

LEMMA SubagentStepDelegates ==
  ASSUME IInv, DelegationInv, NEW p \in Runs, SubagentStep(p)
  PROVE  DelegationInv'
<1>1. Delegates(call[p], ran[p], delegated[p], background[p])
  BY SameProcess
<1>2. ASSUME NEW c \in Calls, SubagentExecutes(p, c) PROVE DelegationInv'
  <2> DEFINE d == delegated[p] \cup {c}
  <2>1. Delegates(call[p], ran[p], d, background[p])
    BY <1>1, <1>2 DEF Delegates, SubagentExecutes
  <2>2. /\ call' = [call EXCEPT ![p] = call[p]] /\ ran' = [ran EXCEPT ![p] = ran[p]]
        /\ delegated' = [delegated EXCEPT ![p] = d]
        /\ background' = [background EXCEPT ![p] = background[p]]
    BY <1>2, SameProcess DEF SubagentExecutes
  <2> HIDE DEF d
  <2> QED
    BY <2>1, <2>2, OneDelegates, Zenon
<1>3. CASE BackgroundEnds(p)
  <2>1. Delegates(call[p], ran[p], delegated[p], FALSE)
    BY <1>1 DEF Delegates
  <2>2. /\ call' = [call EXCEPT ![p] = call[p]] /\ ran' = [ran EXCEPT ![p] = ran[p]]
        /\ delegated' = [delegated EXCEPT ![p] = delegated[p]]
        /\ background' = [background EXCEPT ![p] = FALSE]
    BY <1>3, SameProcess DEF BackgroundEnds
  <2> QED
    BY <2>1, <2>2, OneDelegates, Zenon
<1>4. CASE SubagentReturns(p)
  <2>1. /\ NoCall.stage # "delegating" /\ call' = [call EXCEPT ![p] = NoCall]
        /\ UNCHANGED <<ran, delegated, background>>
    BY <1>4 DEF SubagentReturns, CallIsOver, NoCall
  <2> QED
    BY <2>1, HandDelegates, Zenon
<1> QED
  BY <1>2, <1>3, <1>4 DEF SubagentStep

LEMMA DelegationStep == DelegationInv /\ IInv /\ [Next]_vars => DelegationInv'
<1> SUFFICES ASSUME DelegationInv, IInv, [Next]_vars PROVE DelegationInv'
  OBVIOUS
<1>1. CASE UNCHANGED <<call, ran, delegated, background>>
  BY <1>1 DEF DelegationInv
<1>2. ASSUME NEW p \in Runs, StartProcess(p) \/ Loop(p) \/ BeginSave(p) \/ EndSave(p)
      PROVE  UNCHANGED <<call, ran, delegated, background>>
  BY <1>2 DEF StartProcess, Loop, BeginSave, EndSave, cliVars
<1>3. ASSUME NEW p \in Runs, RunOver(p) \/ Failing(p)
      PROVE  DelegationInv'
  <2>1. Exit(p)
    BY <1>3 DEF RunOver, Failing, PromptBlocked, RequestFails, Crash
  <2>2. Delegates(NoCall, {}, {}, FALSE)
    BY DEF Delegates, NoCall
  <2> QED
    BY <2>1, <2>2, OneDelegates, Zenon DEF Exit
<1>4. ASSUME NEW p \in Runs, ToolStep(p) \/ UserStep(p), ~ExecuteCall(p)
      PROVE  DelegationInv'
  <2>1. UNCHANGED <<ran, delegated, background>>
    BY <1>4 DEF ToolStep, UserStep, PreToolUse, HookBlocksCall, Check, CheckDenies, UserApproves,
       UserDenies
  <2>2. \E h : h.stage # "delegating" /\ call' = [call EXCEPT ![p] = h]
    <3>1. ASSUME NEW c \in Calls, NEW d \in Calls, PreToolUse(p, c, d) PROVE <2>2
      BY <3>1 DEF PreToolUse
    <3>2. ASSUME CallIsOver(p) PROVE <2>2
      BY <3>2 DEF CallIsOver, NoCall
    <3>3. \A st \in Stages : [call[p] EXCEPT !.stage = st].stage = st
      BY CallsExist DEF CallRecord
    <3>4. ASSUME Check(p) \/ UserApproves(p) PROVE <2>2
      <4>1. \E st \in {"execute", "asking"} : call' = [call EXCEPT ![p] = [call[p] EXCEPT !.stage = st]]
        BY <3>4 DEF Check, UserApproves
      <4> QED
        BY <3>3, <4>1 DEF Stages
    <3> QED
      BY <1>4, <3>1, <3>2, <3>4 DEF ToolStep, UserStep, HookBlocksCall, CheckDenies, UserDenies
  <2> QED
    BY <2>1, <2>2, HandDelegates
<1>5. CASE UNCHANGED vars
  BY <1>1, <1>5 DEF vars, cliVars
<1> QED
  BY <1>1, <1>2, <1>3, <1>4, <1>5, ExecuteCallDelegates, SubagentStepDelegates
     DEF Next, Ending

LEMMA DelegationAlways == Spec => [](DelegationInv /\ IInv)
  BY DelegationBegins, DelegationStep, ProcessesAlways, PTL DEF Spec

-----------------------------------------------------------------------------

\* Whatever the hooks make of the calls, the rules and the answers: a call that the
\* agent itself executes was judged as it is executed, allowed or confirmed in the
\* same process; and although nothing judges what a subagent executes, there is a
\* subagent only where a Task call was judged so (loop.ts, executeToolCallsWithHooks;
\* manager.ts, check; subagent.ts, runAgent).
THEOREM ExecutedAsJudged == Spec => []RanAsJudged
<1>1. IInv /\ DelegationInv => RanAsJudged
  <2> SUFFICES ASSUME IInv, DelegationInv, NEW p \in Runs
               PROVE  /\ \A c \in ran[p] :
                           /\ ~Refused(c)
                           /\ \/ Verdict(c) = "allow"
                              \/ \E i \in 1 .. Len(shown[p]) : Key[shown[p][i]] = Key[c]
                      /\ delegated[p] # {} \/ background[p] => ran[p] \cap TaskCalls # {}
    BY DEF RanAsJudged
  <2>1. ASSUME NEW c \in ran[p]
        PROVE  /\ ~Refused(c)
               /\ Verdict(c) = "allow" \/ \E i \in 1 .. Len(shown[p]) : Key[shown[p][i]] = Key[c]
    <3>1. c \in Calls /\ Cleared(c, cache[p])
      BY CallsExist DEF IInv, ProcessOK
    <3>2. cache[p][Key[c]] = "yes" => WasShown(Key[c], shown[p])
      BY <3>1, CallsExist, KeyType DEF ProcessOK
    <3> QED
      BY <3>1, <3>2 DEF Cleared, WasShown
  <2>2. delegated[p] # {} \/ background[p] => ran[p] \cap TaskCalls # {}
    BY DEF DelegationInv, Delegates
  <2> QED
    BY <2>1, <2>2
<1> QED
  BY <1>1, DelegationAlways, PTL

\* The user answers once per key and process, and the agent itself keeps to a no; its
\* subagents, which nobody judges, need not (manager.ts, handleAsk).
THEOREM OneQuestionPerKey == Spec => []AskedOnce
<1>1. IInv => AskedOnce
  BY DEF IInv, ProcessInv, ProcessOK, AskedOnce, Cleared
<1> QED
  BY <1>1, ProcessesAlways, PTL
-----------------------------------------------------------------------------
(* The session.                                                            *)

Alive(p) == proc[p] \in {"on", "saving"}

\* A process works on a context of its own, and its run knows what it owes there
\* and where the results stand.
OwnContext(p) ==
  /\ Alive(p) => run[p].agent = p /\ Owes(p) /\ Placed(p)
  /\ proc[p] = "off" => Paired(context[p])

\* A call is in hand in the tool phase only.
HandInPhase(p) == call[p].stage # "none" => At(p, "executing") /\ proc[p] = "on"

SessionInv ==
  /\ LoopTyped
  /\ proc \in [Runs -> {"off", "on", "saving", "saved", "exited"}]
  /\ file \in [state : {"none", "torn", "written"}, messages : Seq(Messages)]
  /\ \A p \in Runs : OwnContext(p) /\ HandInPhase(p) /\ (proc[p] = "saving" => At(p, "finishing"))
  /\ SavedIsPaired

LEMMA FileTypes ==
  /\ NoFile \in [state : {"none", "torn", "written"}, messages : Seq(Messages)]
  /\ Torn \in [state : {"none", "torn", "written"}, messages : Seq(Messages)]
  /\ \A m \in Seq(Messages) :
       Written(m) \in [state : {"none", "torn", "written"}, messages : Seq(Messages)]
  BY DEF NoFile, Torn, Written

LEMMA SessionBegins == Init => SessionInv
<1> SUFFICES ASSUME Init PROVE SessionInv
  OBVIOUS
<1>1. LoopTyped /\ \A p \in Runs : Paired(context[p])
  BY LoopBegins, CliAssumption DEF Init
<1>2. \A p \in Runs : proc[p] = "off" /\ call[p].stage = "none"
  BY DEF Init, NoCall
<1>3. file = NoFile /\ proc \in [Runs -> {"off", "on", "saving", "saved", "exited"}]
  BY DEF Init
<1> QED
  BY <1>1, <1>2, <1>3, FileTypes
     DEF SessionInv, OwnContext, Alive, HandInPhase, SavedIsPaired, NoFile

LEMMA SessionTypes ==
  ASSUME SessionInv, NEW p \in Runs
  PROVE  /\ p \in Agents /\ run \in [Runs -> RunLocals] /\ run[p] \in RunLocals
         /\ run[p].calls \in Seq(CallIds)
         /\ context \in [Agents -> Seq(Messages)] /\ context[p] \in Seq(Messages)
         /\ loopState \in [Agents -> [iteration : 0 .. MaxIterations, isRunning : BOOLEAN]]
         /\ CallsKnown(run[p])
  BY CliAssumption DEF SessionInv, LoopTyped, LoopTypeOK, CallsInProgress, RunLocals

\* Nobody else is touched by a step of p that leaves the other processes, runs
\* and contexts alone.
LEMMA OthersKeep ==
  ASSUME SessionInv, NEW p \in Runs, NEW q \in Runs \ {p},
         run'[q] = run[q], context'[q] = context[q], call'[q] = call[q], proc'[q] = proc[q]
  PROVE  OwnContext(q)' /\ HandInPhase(q)' /\ (proc[q] = "saving" => At(q, "finishing"))'
<1>1. OwnContext(q) /\ HandInPhase(q) /\ (proc[q] = "saving" => At(q, "finishing"))
  BY DEF SessionInv
<1>2. OwnContext(q)'
  BY <1>1 DEF OwnContext, Alive, Owes, Placed, Answered, At
<1> QED
  BY <1>1, <1>2 DEF HandInPhase, At

\* A resumed conversation is complete, and a new one is empty.
LEMMA StartSession ==
  ASSUME SessionInv, NEW p \in Runs, StartProcess(p)
  PROVE  SessionInv'
<1> DEFINE new == [run[p] EXCEPT !.phase = "starting", !.agent = p]
<1>1. new \in RunLocals /\ CallsKnown(new) /\ run' = [run EXCEPT ![p] = new]
  <2>1. run[p] \in RunLocals /\ CallsKnown(run[p]) /\ p \in Agents
    BY SessionTypes
  <2>2. new \in RunLocals
    BY <2>1 DEF RunLocals, Phases
  <2>3. CallsKnown(new)
    BY <2>1 DEF RunLocals, CallsKnown
  <2>4. run' = [run EXCEPT ![p] = new]
    BY SessionTypes DEF StartProcess
  <2> QED
    BY <2>2, <2>3, <2>4
<1>2. /\ new.phase = "starting" /\ new.agent = p /\ new.calls = run[p].calls
  BY SessionTypes DEF RunLocals
<1> HIDE DEF new
<1>3. run'[p] = new /\ \A q \in Runs \ {p} : run'[q] = run[q]
  BY <1>1, SessionTypes
<1>4. /\ context'[p] \in Seq(Messages) /\ Paired(context'[p])
      /\ context' \in [Agents -> Seq(Messages)]
      /\ \A q \in Runs \ {p} : context'[q] = context[q]
      /\ file' \in [state : {"none", "torn", "written"}, messages : Seq(Messages)]
      /\ SavedIsPaired'
  <2>1. CASE file' = NoFile /\ UNCHANGED context
    BY <2>1, SessionTypes, FileTypes
       DEF SessionInv, OwnContext, StartProcess, NoFile, SavedIsPaired
  <2>2. CASE /\ file.state = "written" /\ UNCHANGED file
             /\ context' = [context EXCEPT ![p] = file.messages]
    <3>1. file.messages \in Seq(Messages) /\ Paired(file.messages)
      BY <2>2 DEF SessionInv, SavedIsPaired
    <3> QED
      BY <2>2, <3>1, SessionTypes DEF SessionInv, SavedIsPaired
  <2> QED
    BY <2>1, <2>2 DEF StartProcess
<1>5. LoopTyped'
  BY <1>1, <1>4, RunTypes, SessionTypes
     DEF LoopTyped, LoopTypeOK, StartProcess, SessionInv
<1>6. proc[p] = "off" /\ proc' = [proc EXCEPT ![p] = "on"] /\ call' = call
  BY DEF StartProcess
<1>7. proc'[p] = "on" /\ \A q \in Runs \ {p} : proc'[q] = proc[q]
  BY <1>6 DEF SessionInv
<1>8. OwnContext(p)'
  <2>1. AnsweredUpTo(context'[p], run'[p].calls, Len(run'[p].calls))
    BY <1>2, <1>3, <1>4, SessionTypes, AllAnswered DEF Paired
  <2>2. Answered(p)' = Len(run'[p].calls) /\ run'[p].agent = p
    BY <1>2, <1>3 DEF Answered, At
  <2>3. Owes(p)'
    BY <2>1, <2>2 DEF Owes
  <2>4. Placed(p)'
    BY <1>2, <1>3, <1>4 DEF Placed, Paired
  <2> QED
    BY <1>7, <2>2, <2>3, <2>4 DEF OwnContext
<1>9. HandInPhase(p)' /\ (proc[p] = "saving" => At(p, "finishing"))'
  BY <1>6, <1>7 DEF SessionInv, HandInPhase
<1>10. \A q \in Runs \ {p} : OwnContext(q)' /\ HandInPhase(q)' /\ (proc[q] = "saving" => At(q, "finishing"))'
  BY <1>3, <1>4, <1>6, <1>7, OthersKeep
<1> QED
  BY <1>4, <1>5, <1>6, <1>8, <1>9, <1>10 DEF SessionInv

LEMMA ExitSession ==
  ASSUME SessionInv, IInv, NEW p \in Runs, Exit(p)
  PROVE  SessionInv'
<1> DEFINE new == [phase |-> "ended", agent |-> p, aborted |-> FALSE, attempt |-> 1,
                   text |-> FALSE, calls |-> <<>>, done |-> 0]
           idle == [iteration |-> 0, isRunning |-> FALSE]
<1>1. <<>> \in Seq(CallIds) /\ <<>> \in Seq(Messages) /\ Len(<<>>) = 0
      /\ 1 \in 1 .. RetryAttempts /\ 0 \in 0 .. MaxCalls /\ 0 \in 0 .. MaxIterations /\ p \in Agents
  BY LoopAssumption, CliAssumption
<1>2. new \in RunLocals /\ CallsKnown(new) /\ run' = [run EXCEPT ![p] = new]
  BY <1>1, LoopAssumption DEF Exit, RunLocals, Phases, CallsKnown
<1>3. /\ context' = [context EXCEPT ![p] = <<>>] /\ loopState' = [loopState EXCEPT ![p] = idle]
      /\ idle \in [iteration : 0 .. MaxIterations, isRunning : BOOLEAN]
      /\ proc' = [proc EXCEPT ![p] = "exited"] /\ call' = [call EXCEPT ![p] = NoCall]
      /\ file' = file
  BY <1>1 DEF Exit
<1> HIDE DEF new, idle
<1>4. /\ context' \in [Agents -> Seq(Messages)]
      /\ loopState' \in [Agents -> [iteration : 0 .. MaxIterations, isRunning : BOOLEAN]]
  BY <1>1, <1>3, SessionTypes
<1>5. LoopTyped'
  BY <1>2, <1>4, RunTypes DEF LoopTyped, LoopTypeOK, SessionInv
<1>6. /\ proc' \in [Runs -> {"off", "on", "saving", "saved", "exited"}] /\ proc'[p] = "exited"
      /\ call'[p].stage = "none"
      /\ \A q \in Runs \ {p} : /\ run'[q] = run[q] /\ context'[q] = context[q]
                               /\ call'[q] = call[q] /\ proc'[q] = proc[q]
  BY <1>2, <1>3, SessionTypes DEF SessionInv, IInv, NoCall
<1>7. \A q \in Runs \ {p} : OwnContext(q)' /\ HandInPhase(q)' /\ (proc[q] = "saving" => At(q, "finishing"))'
  BY <1>6, OthersKeep
<1>8. OwnContext(p)' /\ HandInPhase(p)' /\ (proc[p] = "saving" => At(p, "finishing"))'
  BY <1>6 DEF OwnContext, Alive, HandInPhase
<1> QED
  BY <1>3, <1>5, <1>6, <1>7, <1>8 DEF SessionInv, SavedIsPaired

\* A step of the loop of a process, with what it does to the call in hand.
LEMMA LoopSession ==
  ASSUME SessionInv, NEW p \in Runs, On(p), LoopStep(p), UNCHANGED <<proc, file>>,
         call'[p].stage = "none", \A q \in Runs \ {p} : call'[q] = call[q]
  PROVE  SessionInv'
<1>1. LoopTyped' /\ run[p].agent = p /\ Owes(p)' /\ Placed(p)'
  BY LoopTypes, LoopStepOwes, LoopStepPlaced DEF SessionInv, OwnContext, Alive, On, LoopTyped
<1>2. /\ run'[p].agent = p
      /\ \A q \in Runs \ {p} : run'[q] = run[q] /\ context'[q] = context[q]
  BY <1>1, LoopStepLocal, CliAssumption DEF SessionInv
<1>3. \A q \in Runs \ {p} : OwnContext(q)' /\ HandInPhase(q)' /\ (proc[q] = "saving" => At(q, "finishing"))'
  BY <1>2, OthersKeep
<1>4. OwnContext(p)' /\ HandInPhase(p)' /\ (proc[p] = "saving" => At(p, "finishing"))'
  BY <1>1, <1>2 DEF OwnContext, Alive, HandInPhase, On
<1> QED
  BY <1>1, <1>3, <1>4 DEF SessionInv, SavedIsPaired

\* The end of a call is what the loop of AgentLoop does to execute it.
LEMMA CallOverSession ==
  ASSUME SessionInv, IInv, NEW p \in Runs, On(p), At(p, "executing"), CallIsOver(p),
         UNCHANGED <<context, loopState, proc, file>>
  PROVE  SessionInv'
<1>1. LoopStep(p)
  BY DEF CallIsOver, LoopStep, Execute
<1>2. call'[p].stage = "none" /\ \A q \in Runs \ {p} : call'[q] = call[q]
  BY DEF CallIsOver, IInv, NoCall
<1> QED
  BY <1>1, <1>2, LoopSession

\* A call is taken up, judged or approved: nothing else changes.
LEMMA HandSession ==
  ASSUME SessionInv, IInv, NEW p \in Runs, On(p), At(p, "executing"), NEW h,
         call' = [call EXCEPT ![p] = h], UNCHANGED <<loopVars, proc, file>>
  PROVE  SessionInv'
<1>1. UNCHANGED <<context, loopState, run>>
  BY DEF loopVars
<1>2. LoopTyped'
  BY <1>1 DEF SessionInv, LoopTyped, LoopTypeOK, CallsInProgress
<1>3. \A q \in Runs \ {p} : call'[q] = call[q]
  BY DEF IInv
<1>4. \A q \in Runs \ {p} : OwnContext(q)' /\ HandInPhase(q)' /\ (proc[q] = "saving" => At(q, "finishing"))'
  BY <1>1, <1>3, OthersKeep
<1>5. OwnContext(p)' /\ HandInPhase(p)' /\ (proc[p] = "saving" => At(p, "finishing"))'
  BY <1>1 DEF SessionInv, OwnContext, HandInPhase, Alive, Owes, Placed, Answered, At, On
<1> QED
  BY <1>2, <1>4, <1>5 DEF SessionInv, SavedIsPaired

\* A loop that finishes owes nothing, so what is written is complete.
LEMMA SaveSession ==
  ASSUME SessionInv, NEW p \in Runs, BeginSave(p) \/ EndSave(p)
  PROVE  SessionInv'
<1>1. UNCHANGED <<context, loopState, run, call>> /\ At(p, "finishing") /\ Alive(p)
  BY DEF BeginSave, EndSave, loopVars, SessionInv, Alive, On
<1>2. /\ proc' \in [Runs -> {"off", "on", "saving", "saved", "exited"}]
      /\ proc'[p] \in {"saving", "saved"}
      /\ \A q \in Runs \ {p} : proc'[q] = proc[q]
  BY DEF BeginSave, EndSave, SessionInv
<1>3. LoopTyped'
  BY <1>1 DEF SessionInv, LoopTyped, LoopTypeOK, CallsInProgress
<1>4. run[p].agent = p /\ Owes(p) /\ Placed(p) /\ HandInPhase(p)
  BY <1>1 DEF SessionInv, OwnContext
<1>5. call[p].stage = "none"
  BY <1>1, <1>4 DEF HandInPhase, At
<1>6. Paired(context[p])
  <2>1. Answered(p) = Len(run[p].calls)
    BY <1>1 DEF Answered, At
  <2>2. CallsAnswered(context[p])
    BY <1>4, <2>1, SessionTypes, AllAnswered DEF Owes
  <2> QED
    BY <1>4, <2>2 DEF Placed, Paired
<1>7. OwnContext(p)' /\ HandInPhase(p)' /\ (proc[p] = "saving" => At(p, "finishing"))'
  BY <1>1, <1>2, <1>4, <1>5 DEF OwnContext, HandInPhase, Owes, Placed, Answered, At
<1>8. \A q \in Runs \ {p} : OwnContext(q)' /\ HandInPhase(q)' /\ (proc[q] = "saving" => At(q, "finishing"))'
  BY <1>1, <1>2, OthersKeep
<1>9. file' \in [state : {"none", "torn", "written"}, messages : Seq(Messages)] /\ SavedIsPaired'
  <2>1. CASE file' = Torn
    BY <2>1, FileTypes DEF SavedIsPaired, Torn
  <2>2. CASE file' = Written(context[p])
    <3>1. context[p] \in Seq(Messages)
      BY SessionTypes
    <3>2. Written(context[p]).messages = context[p]
      BY DEF Written
    <3> QED
      BY <1>6, <2>2, <3>1, <3>2, FileTypes DEF SavedIsPaired
  <2> QED
    BY <2>1, <2>2 DEF BeginSave, EndSave
<1> QED
  BY <1>2, <1>3, <1>7, <1>8, <1>9 DEF SessionInv

LEMMA SessionStep == SessionInv /\ IInv /\ [Next]_vars => SessionInv'
<1> SUFFICES ASSUME SessionInv, IInv, [Next]_vars PROVE SessionInv'
  OBVIOUS
<1>1. ASSUME NEW p \in Runs, Loop(p) PROVE SessionInv'
  <2>1. LoopStep(p) /\ ~At(p, "executing") /\ On(p)
    BY <1>1 DEF Loop, LoopStep, Begin, Prompt, Iterate, LeaveLoop, TextChunk, Retry, AddResult,
       Answer, At
  <2>2. call[p].stage = "none" /\ UNCHANGED <<proc, file, call>>
    BY <1>1, <2>1 DEF Loop, cliVars, SessionInv, HandInPhase
  <2> QED
    BY <2>1, <2>2, LoopSession
<1>2. ASSUME NEW p \in Runs, call[p].stage # "none" PROVE At(p, "executing")
  BY <1>2 DEF SessionInv, HandInPhase
<1>3. ASSUME NEW p \in Runs,
             HookBlocksCall(p) \/ CheckDenies(p) \/ UserDenies(p) \/ SubagentReturns(p)
      PROVE SessionInv'
  BY <1>2, <1>3, CallOverSession DEF HookBlocksCall, CheckDenies, UserDenies, SubagentReturns
<1>4. ASSUME NEW p \in Runs, NEW c \in Calls, NEW d \in Calls, PreToolUse(p, c, d)
      PROVE SessionInv'
  BY <1>4, HandSession DEF PreToolUse, loopVars
<1>5. ASSUME NEW p \in Runs, Check(p) \/ UserApproves(p)
      PROVE SessionInv'
  <2>1. \E h : call' = [call EXCEPT ![p] = h]
    BY <1>5 DEF Check, UserApproves
  <2> QED
    BY <1>2, <1>5, <2>1, HandSession DEF Check, UserApproves
<1>6. ASSUME NEW p \in Runs, ExecuteCall(p) PROVE SessionInv'
  <2>1. On(p) /\ At(p, "executing") /\ UNCHANGED <<context, loopState, proc, file>>
    BY <1>2, <1>6 DEF ExecuteCall
  <2>2. CASE CallIsOver(p)
    BY <2>1, <2>2, CallOverSession
  <2>3. CASE /\ UNCHANGED run
             /\ call' = [call EXCEPT ![p] = [call[p] EXCEPT !.stage = "delegating"]]
    BY <2>1, <2>3, HandSession DEF loopVars
  <2> QED
    BY <1>6, <2>2, <2>3, AfterExecution
<1>7. ASSUME NEW p \in Runs, RunOver(p) \/ Failing(p) PROVE SessionInv'
  BY <1>7, ExitSession DEF RunOver, Failing, PromptBlocked, RequestFails, Crash
<1>8. CASE UNCHANGED <<loopVars, proc, file, call>>
  BY <1>8 DEF loopVars, SessionInv, LoopTyped, LoopTypeOK, CallsInProgress,
     OwnContext, HandInPhase, Alive, Owes, Placed, Answered, At, SavedIsPaired
<1>9. ASSUME NEW p \in Runs, SubagentStep(p) PROVE SessionInv'
  <2>1. CASE UNCHANGED <<loopVars, proc, file, call>>
    BY <1>8, <2>1
  <2> QED
    BY <1>3, <1>9, <2>1 DEF SubagentStep, SubagentExecutes, BackgroundEnds
<1> QED
  BY <1>1, <1>3, <1>4, <1>5, <1>6, <1>7, <1>8, <1>9, StartSession, SaveSession
     DEF Next, ToolStep, UserStep, Ending, vars, cliVars

LEMMA SessionAlways == Spec => [](SessionInv /\ IInv)
  BY SessionBegins, SessionStep, ProcessesAlways, PTL DEF Spec

\* Wherever a process ends, at a prompt, within a call or while it writes: the
\* session that is left for the next one is none, cannot be read, or has a result
\* behind every call and a call before every result, but for the results at its
\* head, whose call a compaction cut away (index.ts, the done event and --resume).
THEOREM ResumedIsPaired == Spec => []SavedIsPaired
<1>1. SessionInv => SavedIsPaired
  BY DEF SessionInv
<1> QED
  BY <1>1, SessionAlways, PTL

\* The types, and that a call is in hand in the tool phase only.
THEOREM TypeCorrect == Spec => []TypeOK
<1>1. SessionInv /\ IInv /\ DelegationInv => TypeOK
  BY DEF SessionInv, IInv, DelegationInv, TypeOK, LoopTyped, HandInPhase, CallRecord
<1> QED
  BY <1>1, SessionAlways, DelegationAlways, PTL
===============================================================================
