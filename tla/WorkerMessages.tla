---------------------------- MODULE WorkerMessages ----------------------------
(***************************************************************************)
(* The messages of workers (packages/worker/src/communication.ts) over the *)
(* message bus (packages/message-bus/src/bus.ts), up to the prompt they    *)
(* are put in (base-worker.ts).                                            *)
(*                                                                         *)
(* publish() runs all handlers before it returns, and the handlers of a    *)
(* channel only push, so that one publication is one step.  A message is   *)
(* its number in the order of publication.  A broadcast and a shared       *)
(* result are handled alike.  clear(), which makes the bus forget the      *)
(* handlers of open channels, is left out: nothing but tests calls it.     *)
(***************************************************************************)
EXTENDS Naturals, Sequences, SequencesExt

CONSTANTS Workers, RoleOf, MaxMessages, MaxHistory

ASSUME MessagesAssumption == MaxMessages \in Nat /\ MaxHistory \in Nat \ {0}

Roles == {RoleOf[w] : w \in Workers}
Numbers == 1 .. MaxMessages

VARIABLES channel,   \* Workers -> "none", "open" or "disposed"
          since,     \* Workers -> how much had been published when it subscribed
          inbox,     \* Workers -> what it has received and not read
          read,      \* Workers -> what it has read, into a prompt or otherwise
          sent,      \* all that was published: kind, sender and addressee
          history,   \* what the bus remembers of it
          ask        \* Numbers -> what became of a question

messageVars == <<channel, since, inbox, read, sent, history, ask>>

Kinds == {"message", "question", "broadcast", "answer"}

MessageTypeOK ==
  /\ channel \in [Workers -> {"none", "open", "disposed"}]
  /\ since \in [Workers -> 0 .. MaxMessages]
  /\ inbox \in [Workers -> Seq(Numbers)] /\ read \in [Workers -> Seq(Numbers)]
  /\ sent \in Seq([kind : Kinds, from : Workers, to : Workers \cup Roles \cup {"all"}])
  /\ history \in Seq(Numbers) /\ Len(history) <= MaxHistory
  /\ ask \in [Numbers -> {"none", "waiting", "answered", "timedOut"}]

MessageInit ==
  /\ channel = [w \in Workers |-> "none"]
  /\ since = [w \in Workers |-> 0]
  /\ inbox = [w \in Workers |-> <<>>] /\ read = [w \in Workers |-> <<>>]
  /\ sent = <<>> /\ history = <<>>
  /\ ask = [n \in Numbers |-> "none"]

\* A channel is made with its worker; a disposed one is not used again.
Open(w) ==
  /\ channel[w] = "none"
  /\ channel' = [channel EXCEPT ![w] = "open"]
  /\ since' = [since EXCEPT ![w] = Len(sent)]
  /\ UNCHANGED <<inbox, read, sent, history, ask>>

\* What the handlers let through.  The sender may be among those of the role.
IsFor(w, m) ==
  \/ m.kind = "message" /\ m.to \in {w, RoleOf[w]}
  \/ m.kind = "question" /\ m.to = RoleOf[w]
  \/ m.kind = "broadcast" /\ m.from # w

\* publish(): the ring of the bus, then every subscriber.
Publish(m) ==
  LET n == Len(sent) + 1
  IN /\ n <= MaxMessages
     /\ sent' = Append(sent, m)
     /\ history' = LET all == Append(history, n)
                   IN IF Len(all) > MaxHistory THEN Tail(all) ELSE all
     /\ inbox' = [w \in Workers |-> IF channel[w] = "open" /\ IsFor(w, m)
                                      THEN Append(inbox[w], n) ELSE inbox[w]]

Message(kind, w, to) == [kind |-> kind, from |-> w, to |-> to]

Send(w, to) ==
  /\ channel[w] # "none" /\ Publish(Message("message", w, to))
  /\ UNCHANGED <<channel, since, read, ask>>

Broadcast(w) ==
  /\ channel[w] # "none" /\ Publish(Message("broadcast", w, "all"))
  /\ UNCHANGED <<channel, since, read, ask>>

\* ask() listens for the answer before it publishes the question.
Ask(w, role) ==
  /\ channel[w] # "none" /\ Publish(Message("question", w, role))
  /\ ask' = [ask EXCEPT ![Len(sent) + 1] = "waiting"]
  /\ UNCHANGED <<channel, since, read>>

\* answer(): who has read a question knows its correlation id.  An answer that
\* comes late finds no listener.
Answer(w, n) ==
  /\ channel[w] # "none" /\ Contains(read[w], n) /\ sent[n].kind = "question"
  /\ Publish(Message("answer", w, "all"))
  /\ ask' = IF ask[n] = "waiting" THEN [ask EXCEPT ![n] = "answered"] ELSE ask
  /\ UNCHANGED <<channel, since, read>>

AskTimesOut(n) ==
  /\ ask[n] = "waiting" /\ ask' = [ask EXCEPT ![n] = "timedOut"]
  /\ UNCHANGED <<channel, since, inbox, read, sent, history>>

\* Mistake: what is read stays in the inbox.
DrainCopy(w) ==
  /\ inbox[w] # <<>>
  /\ read' = [read EXCEPT ![w] = @ \o inbox[w]]
  /\ UNCHANGED <<channel, since, inbox, sent, history, ask>>

\* drainInbox(), from the start of a run (formatInboxAsContext) or by itself.
Drain(w) ==
  /\ inbox[w] # <<>>
  /\ read' = [read EXCEPT ![w] = @ \o inbox[w]]
  /\ inbox' = [inbox EXCEPT ![w] = <<>>]
  /\ UNCHANGED <<channel, since, sent, history, ask>>

DisposeChannel(w) ==
  /\ channel[w] = "open"
  /\ channel' = [channel EXCEPT ![w] = "disposed"]
  /\ inbox' = [inbox EXCEPT ![w] = <<>>]
  /\ UNCHANGED <<since, read, sent, history, ask>>

MessageNext ==
  \/ \E w \in Workers :
       \/ Open(w) \/ Broadcast(w) \/ Drain(w) \/ DisposeChannel(w)
       \/ \E to \in Workers \cup Roles : Send(w, to)
       \/ \E role \in Roles : Ask(w, role)
       \/ \E n \in DOMAIN sent : Answer(w, n)
  \/ \E n \in DOMAIN sent : AskTimesOut(n)

MessageSpec == MessageInit /\ [][MessageNext]_messageVars

-----------------------------------------------------------------------------
(* Properties.                                                             *)

\* got is what was published for w after the first messages, each once, in order.
IsAllFor(w, got, all, first) ==
  /\ ToSet(got) = {n \in DOMAIN all : n > first /\ IsFor(w, all[n])}
  /\ \A i, j \in DOMAIN got : i < j => got[i] < got[j]

\* What a worker that is still subscribed has read and will read is what was
\* published for it since it subscribed: nothing lost, doubled or out of
\* order, whenever it reads (communication.ts:46-87, 181-209).
NothingLost ==
  \A w \in Workers : channel[w] = "open" =>
    IsAllFor(w, read[w] \o inbox[w], sent, since[w])
===============================================================================
