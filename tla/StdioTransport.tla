---------------------------- MODULE StdioTransport -----------------------------
(***************************************************************************)
(* The MCP transport of packages/mcp over a child process: spawning it,    *)
(* pairing responses with requests by id, timing requests out, and killing *)
(* the child on close().                                                   *)
(*                                                                         *)
(* One action is one synchronous stretch of JavaScript: a call up to its   *)
(* first await, a timer, or an event of the child.  A spawn that fails     *)
(* reports it before any other event, so start() and the failure are one   *)
(* action.                                                                 *)
(***************************************************************************)
EXTENDS Naturals, FiniteSets

CONSTANTS
  Children,    \* child processes, in the order they are spawned
  Requests,    \* request ids (MCPClient counts them up: each used once)
  ServerAsks,  \* does the server send requests of its own?
  None

ASSUME TransportAssumption ==
  /\ Children \subseteq Nat /\ None \notin Children
  /\ ServerAsks \in BOOLEAN

VARIABLES
  state,     \* TransportState
  process,   \* this.process
  child,     \* child -> is it running
  signalled, \* child -> ChildProcess.killed: a signal was delivered
  forced,    \* children that were sent SIGKILL
  starting,  \* children whose 100 ms start timer is armed
  closing,   \* children whose exit a close() awaits, its 5 s timer armed
  readline,  \* this.readline
  readers,   \* children whose lines are handled
  pending,   \* keys of pendingRequests, each with its timer
  sentTo,    \* request -> child it was written to
  call       \* request -> what its caller has seen

processVars == <<process, child, signalled, forced>>
vars == <<state, processVars, starting, closing, readline, readers, pending, sentTo, call>>

TransportState == {"disconnected", "connecting", "connected", "error"}
Settled == {"answered", "misanswered", "rejected", "timed_out"}

TypeOK ==
  /\ state \in TransportState
  /\ process \in Children \cup {None}
  /\ child \in [Children -> {"unborn", "running", "exited", "failed"}]
  /\ signalled \in [Children -> BOOLEAN]
  /\ forced \in SUBSET Children
  /\ starting \in SUBSET Children
  /\ closing \in SUBSET Children
  /\ readline \in Children \cup {None}
  /\ readers \in SUBSET Children
  /\ pending \in SUBSET Requests
  /\ sentTo \in [Requests -> Children \cup {None}]
  /\ call \in [Requests -> Settled \cup {"none", "waiting"}]

Init ==
  /\ state = "disconnected"
  /\ process = None
  /\ child = [g \in Children |-> "unborn"]
  /\ signalled = [g \in Children |-> FALSE]
  /\ forced = {}
  /\ starting = {}
  /\ closing = {}
  /\ readline = None
  /\ readers = {}
  /\ pending = {}
  /\ sentTo = [r \in Requests |-> None]
  /\ call = [r \in Requests |-> "none"]

-------------------------------------------------------------------------------

\* Mistake: the map is emptied without rejecting.
DropAllPending ==
  /\ pending' = {}
  /\ UNCHANGED call

RejectAllPending ==
  /\ pending' = {}
  /\ call' = [r \in Requests |->
                IF r \in pending /\ call[r] = "waiting" THEN "rejected" ELSE call[r]]

(* start() *)

NextChild(g) == child[g] = "unborn" /\ \A h \in Children : child[h] = "unborn" => g <= h

Spawn(g, outcome) ==
  /\ state = "disconnected"
  /\ NextChild(g)
  /\ process' = g
  /\ child' = [child EXCEPT ![g] = outcome]
  /\ readline' = g
  /\ UNCHANGED <<signalled, forced, closing, sentTo>>

Start(g) ==
  /\ Spawn(g, "running")
  /\ state' = "connecting"
  /\ starting' = starting \cup {g}
  /\ readers' = readers \cup {g}
  /\ UNCHANGED <<pending, call>>

StartFails(g) ==
  /\ Spawn(g, "failed")
  /\ state' = "error"
  /\ RejectAllPending
  /\ UNCHANGED <<starting, readers>>

\* Mistake: the error is not looked at.
StartedAnyway(g) ==
  /\ g \in starting
  /\ starting' = starting \ {g}
  /\ state' = "connected"
  /\ UNCHANGED <<processVars, closing, readline, readers, pending, sentTo, call>>

\* 100 ms later, whatever happened to the child meanwhile.
Started(g) ==
  /\ g \in starting
  /\ starting' = starting \ {g}
  /\ state' = IF state = "error" \/ (process # None /\ signalled[process])
              THEN "error" ELSE "connected"
  /\ UNCHANGED <<processVars, closing, readline, readers, pending, sentTo, call>>

-------------------------------------------------------------------------------
(* send() *)

Writable == process # None /\ child[process] = "running"

Send(r) ==
  /\ state = "connected"
  /\ call[r] = "none"
  /\ Writable
  /\ pending' = pending \cup {r}
  /\ sentTo' = [sentTo EXCEPT ![r] = process]
  /\ call' = [call EXCEPT ![r] = "waiting"]
  /\ UNCHANGED <<state, processVars, starting, closing, readline, readers>>

\* write() throws: the promise rejects, its entry and timer stay behind.
SendFails(r) ==
  /\ state = "connected"
  /\ call[r] = "none"
  /\ ~ Writable
  /\ pending' = pending \cup {r}
  /\ call' = [call EXCEPT ![r] = "rejected"]
  /\ UNCHANGED <<state, processVars, starting, closing, readline, readers, sentTo>>

Settle(r, outcome) ==
  /\ r \in pending
  /\ pending' = pending \ {r}
  /\ call' = [call EXCEPT ![r] = IF @ = "waiting" THEN outcome ELSE @]
  /\ UNCHANGED <<state, processVars, starting, closing, readline, readers, sentTo>>

\* Mistake: the entry goes and nobody is told.
TimesOutSilently(r) ==
  /\ r \in pending
  /\ pending' = pending \ {r}
  /\ UNCHANGED <<state, processVars, starting, closing, readline, readers, sentTo, call>>

RequestTimesOut(r) == Settle(r, "timed_out")

\* A response line.  Output already in the pipe is read after the exit too.
Answer(r) ==
  /\ sentTo[r] \in readers
  /\ Settle(r, "answered")

\* A request of the server's own: its id is the server's to choose, and any
\* line with an id is taken for a response.
ServerRequest(g, r) ==
  /\ ServerAsks
  /\ g \in readers
  /\ child[g] = "running"
  /\ Settle(r, "misanswered")

-------------------------------------------------------------------------------
(* close() and the child's end *)

\* Mistake: close() waits for a process that may be gone already.
CloseUnchecked ==
  /\ state # "disconnected"
  /\ RejectAllPending
  /\ readline' = None
  /\ readers' = readers \ {readline}
  /\ closing' = closing \cup {process}
  /\ UNCHANGED <<processVars, state, starting, sentTo>>

Close ==
  /\ state # "disconnected"
  /\ RejectAllPending
  /\ readline' = None
  /\ readers' = readers \ {readline}
  /\ IF process # None /\ ~ signalled[process]
     THEN /\ closing' = closing \cup {process}
          /\ signalled' = [signalled EXCEPT ![process] = child[process] = "running"]
          /\ UNCHANGED <<process, state>>
     ELSE /\ process' = None
          /\ state' = "disconnected"
          /\ UNCHANGED <<closing, signalled>>
  /\ UNCHANGED <<child, forced, starting, sentTo>>

\* 5 s later: SIGKILL only if no signal was ever delivered.
CloseTimesOut(g) ==
  /\ g \in closing
  /\ closing' = closing \ {g}
  /\ forced' = IF process # None /\ ~ signalled[process] /\ child[process] = "running"
               THEN forced \cup {process} ELSE forced
  /\ signalled' = [h \in Children |-> signalled[h] \/ h \in forced' \ forced]
  /\ process' = None
  /\ state' = "disconnected"
  /\ UNCHANGED <<child, starting, readline, readers, pending, sentTo, call>>

\* The child exits: on its own, on SIGTERM or SIGKILL.  A close() that awaits
\* it goes on at once.
Exit(g) ==
  /\ child[g] = "running"
  /\ child' = [child EXCEPT ![g] = "exited"]
  /\ state' = "disconnected"
  /\ RejectAllPending
  /\ closing' = closing \ {g}
  /\ process' = IF g \in closing THEN None ELSE process
  /\ UNCHANGED <<signalled, forced, starting, readline, readers, sentTo>>

-------------------------------------------------------------------------------

Timers ==
  \/ \E g \in Children : Started(g) \/ CloseTimesOut(g)
  \/ \E r \in Requests : RequestTimesOut(r)

Server ==
  \/ \E r \in Requests : Answer(r) \/ \E g \in Children : ServerRequest(g, r)
  \/ \E g \in Children : Exit(g)

Client ==
  \/ \E g \in Children : Start(g) \/ StartFails(g)
  \/ \E r \in Requests : Send(r) \/ SendFails(r)
  \/ Close

Next == Timers \/ Server \/ Client

Spec == Init /\ [][Next]_vars

\* Node fires every timer that stays armed.
FairSpec ==
  /\ Spec
  /\ \A r \in Requests : WF_vars(RequestTimesOut(r))
  /\ \A g \in Children : WF_vars(Started(g)) /\ WF_vars(CloseTimesOut(g))

-------------------------------------------------------------------------------
(* Safety *)

\* Nobody is forgotten: a caller that waits has an entry, hence a timer, in
\* pendingRequests, across exits, restarts and closes.
WaitersArePending ==
  \A r \in Requests : call[r] = "waiting" => r \in pending

\* A failed start stays failed: no timer of an earlier attempt turns the error
\* into a connection; only close() or an exit leads out of it.
FailedStartStaysFailed ==
  [][state = "error" => state' \in {"error", "disconnected"}]_vars

-------------------------------------------------------------------------------
(* Liveness *)

\* Every request settles: answered, rejected or timed out.
RequestsSettle ==
  \A r \in Requests : call[r] = "waiting" ~> call[r] \in Settled
===============================================================================
