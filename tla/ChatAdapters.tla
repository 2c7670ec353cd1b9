----------------------------- MODULE ChatAdapters -----------------------------
(***************************************************************************)
(* How the adapters of the language models put tool calls together from    *)
(* the provider's stream (packages/llm/src/adapters): OpenAI sends pieces  *)
(* of several calls under their index, Anthropic one block after another,  *)
(* Gemini whole calls, Ollama lines that a read may cut anywhere.  All of  *)
(* them hand the calls on when the stream has ended, and none of them when *)
(* it fails.  Text is passed on as it comes and usage is left out.         *)
(***************************************************************************)
EXTENDS Naturals, Sequences, SequencesExt

CONSTANTS MaxCalls,    \* indices a stream uses, text blocks included
          MaxPieces    \* pieces in a stream

ASSUME AdapterAssumption == MaxCalls \in Nat \ {0} /\ MaxPieces \in Nat

VARIABLES provider,
          stream,     \* the index each piece belongs to, 0 for text
          toolCalls,  \* the adapter's Map in insertion order: index and pieces
          block,      \* Anthropic: blocks begun and whether the last is a call
          buffer,     \* Ollama: the line that is not complete yet
          passed,     \* the calls handed on
          reply       \* how the stream ended

adapterVars == <<provider, stream, toolCalls, block, buffer, passed, reply>>

Providers == {"openai", "anthropic", "gemini", "ollama"}
Indices == 1 .. MaxCalls
Partial == [index : Indices, pieces : Seq(1 .. MaxPieces)]

AdapterTypeOK ==
  /\ provider \in Providers
  /\ stream \in Seq({0} \cup Indices) /\ Len(stream) <= MaxPieces
  /\ toolCalls \in Seq(Partial) /\ passed \in Seq(Partial)
  /\ block \in [index : {0} \cup Indices, call : BOOLEAN]
  /\ buffer \in {"", "text", "call"}
  /\ reply \in {"none", "done", "error"}

AdapterInit ==
  /\ provider \in Providers
  /\ stream = <<>> /\ toolCalls = <<>> /\ passed = <<>>
  /\ block = [index |-> 0, call |-> FALSE]
  /\ buffer = "" /\ reply = "none"

-----------------------------------------------------------------------------

\* The next thing the provider says; a piece is known by its place.
Says(i) ==
  /\ reply = "none" /\ Len(stream) < MaxPieces
  /\ stream' = Append(stream, i)
  /\ UNCHANGED <<provider, passed, reply>>

New(i) == Append(toolCalls, [index |-> i, pieces |-> <<Len(stream) + 1>>])

\* Mistake: a piece goes to the call begun last.
AccumulateToLast(i) ==
  IF \A k \in DOMAIN toolCalls : toolCalls[k].index # i
    THEN New(i)
    ELSE [toolCalls EXCEPT ![Len(toolCalls)].pieces = Append(@, Len(stream) + 1)]

\* A piece goes to the call under the index; an unknown index begins one.
Accumulate(i) ==
  IF \A k \in DOMAIN toolCalls : toolCalls[k].index # i
    THEN New(i)
    ELSE [k \in DOMAIN toolCalls |->
            IF toolCalls[k].index = i
              THEN [toolCalls[k] EXCEPT !.pieces = Append(@, Len(stream) + 1)]
              ELSE toolCalls[k]]

\* OpenAI: the first piece of an index brings the call's id and name.
OpenAIPiece(i) ==
  /\ provider = "openai" /\ Says(i)
  /\ toolCalls' = Accumulate(i)
  /\ UNCHANGED <<block, buffer>>

\* Anthropic: text and calls are blocks with one numbering.
BlockStart(call) ==
  LET i == block.index + 1 IN
  /\ provider = "anthropic" /\ i <= MaxCalls
  /\ block' = [index |-> i, call |-> call]
  /\ Says(IF call THEN i ELSE 0)
  /\ toolCalls' = IF call THEN New(i) ELSE toolCalls
  /\ UNCHANGED buffer

\* The piece's own index is not looked at: it belongs to the block begun last.
BlockDelta ==
  /\ provider = "anthropic" /\ block.call
  /\ Says(block.index)
  /\ toolCalls' = Accumulate(block.index)
  /\ UNCHANGED <<block, buffer>>

\* Gemini: a part of a chunk is a whole call.
WholeCall ==
  /\ provider = "gemini" /\ Len(toolCalls) < MaxCalls
  /\ Says(Len(toolCalls) + 1)
  /\ toolCalls' = New(Len(toolCalls) + 1)
  /\ UNCHANGED <<block, buffer>>

\* Ollama: a read ends within a line, and what there is of it is kept.
HalfLine(kind) ==
  /\ provider = "ollama" /\ buffer = "" /\ Len(toolCalls) < MaxCalls
  /\ Says(IF kind = "call" THEN Len(toolCalls) + 1 ELSE 0)
  /\ buffer' = kind
  /\ UNCHANGED <<toolCalls, block>>

RestOfLine ==
  /\ buffer # "" /\ reply = "none"
  /\ toolCalls' = IF buffer = "text" THEN toolCalls
                  ELSE Append(toolCalls, [index |-> Len(toolCalls) + 1,
                                          pieces |-> <<Len(stream)>>])
  /\ buffer' = ""
  /\ UNCHANGED <<provider, stream, block, passed, reply>>

\* Of a last line without its end Ollama's adapter passes on the text only.
StreamEnds ==
  /\ reply = "none"
  /\ reply' = "done" /\ passed' = toolCalls
  /\ UNCHANGED <<provider, stream, toolCalls, block, buffer>>

StreamFails ==
  /\ reply = "none" /\ reply' = "error"
  /\ UNCHANGED <<provider, stream, toolCalls, block, buffer, passed>>

AdapterNext ==
  \/ \E i \in Indices : OpenAIPiece(i)
  \/ \E call \in BOOLEAN : BlockStart(call)
  \/ \E kind \in {"text", "call"} : HalfLine(kind)
  \/ BlockDelta \/ WholeCall \/ RestOfLine \/ StreamEnds \/ StreamFails

AdapterSpec == AdapterInit /\ [][AdapterNext]_adapterVars

-----------------------------------------------------------------------------

\* The places of the stream s that belong to call i, in their order.
AreThePieces(pieces, i, s) ==
  /\ ToSet(pieces) = {p \in DOMAIN s : s[p] = i}
  /\ \A a, b \in DOMAIN pieces : a < b => pieces[a] < pieces[b]

AreTheCalls(calls, s) ==
  /\ {calls[k].index : k \in DOMAIN calls} = ToSet(s) \ {0}
  /\ \A k \in DOMAIN calls : AreThePieces(calls[k].pieces, calls[k].index, s)
  /\ \A k, l \in DOMAIN calls : k < l => Head(calls[k].pieces) < Head(calls[l].pieces)

\* However the provider interleaves the pieces of its calls and wherever a
\* read cuts them, the loop gets each call once, with all of its pieces and no
\* other's, in the order the calls began; after a failure it gets none.  Only
\* a call in a last line that is never ended is lost (ollama.ts:228-243).
CallsAreWhole ==
  /\ reply = "error" => passed = <<>>
  /\ reply = "done" /\ buffer # "call" => AreTheCalls(passed, stream)
===============================================================================
