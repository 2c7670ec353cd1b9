# Mustard: TLA+ models, checks and proofs

Mustard is a TypeScript monorepo: an AI coding agent (loop, tools, providers,
MCP client), an orchestrator that splits a request into steps and runs workers
on them, and collaboration rooms in which people and agents share documents and
approve each other's intents. This directory models the parts that keep state
across calls and are exposed to orders of events that tests hardly reach.

## 1. Inventory

Paths are below `src/packages` unless they start with `apps`, which is below `src`.

| Component | State | Operations and interactions | What makes it hard | What makes it correct |
|---|---|---|---|---|
| Intent engine (`collab-ai/src/intent-engine.ts`) | the Map of intents and their statuses | propose, approve, reject, startExecution, complete, fail, invalidate, purgeOld, clear; emits to listeners inside the call | listeners call back into the engine before `propose()` returns; its own auto-approval policy runs after them | an intent is resolved once, runs only after an approval, never revives |
| Approval manager (`collab-permissions/src/approval-manager.ts`) | requests, required counts, one timer each | open, approve, reject, cancel, clear, destroy; countdowns and timeouts | timers race people; `finalize()` overwrites whatever status it finds | thresholds, no stray timer, every timed request settles |
| Permission gateway, mode manager, rules (`collab-permissions/src`) | two maps pairing intents with requests; the mode and the one before | turns a proposal into a decision, mirrors resolutions both ways, clears the table on a mode switch | every cascade re-enters one of the three managers | the managers agree; what is approved was judged under the current mode; nothing flagged is approved by a countdown |
| Task queue, durable queue (`queue/src/task-queue.ts`, `sqlite-queue.ts`) | a Map of tasks, or a table | add, getNext, start, complete, fail, cancel, clear | failed and unknown dependencies, ties in creation time, reused ids; an end of the process between two statements | dependencies first, best priority first, first come first served |
| Dependency resolver (`queue/src/dependency-resolver.ts`) | none across calls; within one, the search's path and the sort's queue | resolve, detectCycle | self-loops, repeated and unknown names | an order exactly when there is no cycle, and a valid one |
| Orchestrator and dispatcher (`orchestrator/src`), plan routes (`server/src/routes/requests.ts`) | queue, step results, active workers, plan and result stores | loadPlan, runAll, executeTask; submit, approve, reject over HTTP | one dispatcher serves every request; a result is recorded later than the queue learns of the completion | no stranded step, outputs that reach their dependents, a complete report, an answer; workers are bounded per request only |
| Worker channel and message bus (`worker/src/communication.ts`, `message-bus/src/bus.ts`) | subscriptions, inboxes, bounded history | send, ask, respond, drain, dispose | a question answered during another; a message between two drains | nothing addressed to an open channel is lost or reordered |
| MCP stdio transport (`mcp/src/transport/stdio.ts`) | connection state, child process, pending requests with timers | start, send, close; lines, exits and errors of the child | handlers of an old child after a restart; sends during an awaited close; three kinds of timers | every request settles; nobody is forgotten; an error is not a connection |
| MCP registry and client (`mcp/src/registry.ts`, `client.ts`, `apps/desktop/src/main/services/mcp.ts`) | servers, clients per server | add, connect, restart, disconnect, remove, all at once | every await lets another call in | a server shown as connected can be called |
| Agent loop and context (`core/src/agent/loop.ts`, `context/manager.ts`), router (`llm/src/router.ts`) | messages, iteration count, token count | run, tool calls, retries, hooks, compaction | a stop or an error in the middle of an iteration; a compaction between a call and its results | calls and results belong together, the loop stops |
| Model adapters (`llm/src/adapters`) | pieces of the calls of one stream | chat | pieces of several calls interleaved, lines cut anywhere | a call is handed on whole and once |
| Desktop agent service (`apps/desktop/src/main/services/agent.ts`) | the agent, one abort controller; the renderer's status | chat, stop, setCwd, dispose, end of a run | messages, stops and settings arrive during a run; an agent may fail to be made; the controller stands for "a run is on" | one run at a time, stop reaches it, the status is honest |
| Desktop keys (`apps/desktop/src/main/services/credentials.ts`, `config.ts`) | a file per key, a file that lists them, a copy in memory, the router | setApiKey, removeApiKey, start | writes that overlap or are cut off by the end of the application | a removed key stays removed |
| Tool permissions, hooks, sessions (`core/src/permissions`, `hooks/src`, `core/src/session`), subagents (`core/src/tools/builtin/subagent.ts`), command line agent (`apps/cli/src/index.ts`) | rules, approval cache; one file per session | check, ask, remember; run hooks; delegate; resume, save | a hook changes what was judged; a cached answer outlives its reason; a subagent asks nobody; an end while the session is written | what the agent itself runs was judged, nobody is asked twice, calls and results of what is resumed belong together |
| Zones (`collab-ai/src/zone-manager.ts`) | claims with expiry | claim, release, releaseAll, clear; every query sweeps | a person's claim over several agents' | no overlap; a person's claim wins |
| Agent registry, rate limiter (`collab-ai/src`) | agents, windows, pauses | register, unregister, status, touch, sweep, consume | the edge of the window, the end of the pause, a name registered again | the limit holds in every window |
| Documents and their persistence (`collab-sync/src`, `collab-server/src/yjs-persistence.ts`, `yjs-route.ts`) | Yjs documents, one timer each, rows | bind, update, flush, detach, destroy | a detach or an end while a write is pending | the stored copy never falls back; what is edited gets stored |
| Room page (`apps/web/src/lib/use-collab-socket.ts`) and event bridge (`collab-server/src/ws.ts`) | sockets, reconnect timers | open, error, close, retry, unmount | 'error' and 'close' of one socket, an unmount while connecting | the page never stops trying |
| Presence (`collab-presence/src`) | activity, cursor, three timers | signals, blur, timers, throttled broadcast | a timer armed before the last signal | what is shown is what is |
| Context bridge, collaboration memory and core, artifacts and handoffs, planner and parser, retry policy, server routes | maps and files behind synchronous calls | see PROJECT.json | nothing runs concurrently in them | bookkeeping |
| Tools, configuration, logger, terminal widgets, integrations, the rest of the applications | little or none | I/O and formatting | the outside world | out of scope |

PROJECT.json lists each with its status, and the hazards line by line.

## 2. Plan

Most important first:

1. The permission stack of a room: it decides what agents may do. *Done:*
   `PermissionPolicy`, `IntentLifecycle` (abstract), `PermissionGateway`,
   `PermissionGatewayProofs`.
2. The task queue and plan execution over it. *Done:* `OrderedWork` (abstract),
   `TaskQueue`, `TaskQueueProofs`, `PlanExecution`, `PlanExecutionProofs`.
3. The MCP stdio transport. *Done:* `StdioTransport`, `ServicesProofs`.
4. The agent loop and the desktop's chat around it. *Done:* `AgentLoop`,
   `AgentLoopProofs`, `DesktopChat`, `DesktopChatProofs`.
5. Hooks, permissions and sessions around the loop. *Done:* `ToolPermissions`,
   `CliAgent`, `CliAgentProofs`.
6. The MCP registry and its clients. *Done:* `McpRegistry`, `ServicesProofs`.
7. Persistence of documents. *Done:* `DurableDocument` (abstract),
   `YjsPersistence`, `CollaborationProofs`.
8. The services that stand alone. *Done:* `ZoneManager`, `AgentRegistry`,
   `DurableQueue`, `DependencyResolver`, `WorkerMessages`, `ChatAdapters`, `RoomPage`,
   `Presence`, `DesktopKeys`, composed in `MCServices`; proofs in
   `CollaborationProofs` and `ServicesProofs`.
9. Every safety property that a run checks is a theorem, except what section 5
   names. *Done.*
10. If the code comes to use them: the context of a worker's plan (step outputs
    through the artifact store), handoffs, the fallback list of the router.

Which module composes which: `PermissionGateway` composes the engine, the
managers and the gateway and implements `IntentLifecycle`. `PlanExecution`
composes the routes and the dispatcher with `TaskQueue`; `TaskQueue` and
`DurableQueue` implement `OrderedWork`. `DesktopChat` and
`CliAgent` each put what surrounds it around `AgentLoop`; `CliAgent` judges calls
by `ToolPermissions`. `YjsPersistence` implements `DurableDocument`. `MCRoom` puts
`PermissionGateway` and `YjsPersistence` side by side, `MCServices` ten modules.

## 3. Modules

JavaScript runs one synchronous stretch at a time, and every listener in this
code runs inside the call that emits. So in all modules **one action is one
stretch**: a call with everything it sets off, up to its first real `await`, a
timer, or an event from outside. Interleavings are those of stretches.

Operators whose comment starts with "Mistake:" are plausible bugs in the
definition that follows. No specification uses them; each is there so that one
property can be shown to depend on the definition (PROJECT.json, "mutants").

**PermissionPolicy** - risk assessment, mode capabilities, policies and
`decide()` as operators. An intent is the record of what these rules can tell
apart: type, declared risk, confidence, whether the path is sensitive or risky,
whether the edit is large. Globs and path patterns are abstracted to the last
two.

**PermissionGateway** - one room. `status`, `data`, `resolver` are the engine's intents;
`reqStatus`, `reqIntent`, `approvals`, `required`, `timer` the approval manager's
requests; `r2i` and `i2r` the gateway's maps; `mode` and `previous` the mode manager.
`openedIn` (the mode a request was opened in) and `published` (what the bus saw of an
intent) are history. `resolver` also names who invalidated an intent, which the
code stamps nowhere; no property tells that apart. `Propose*` is
`propose()` with the gateway's and the engine policy's verdicts, `Approve*`, `Reject`,
`CountdownFires`, `TimeoutFires` are the manager's, `EngineResolves`, `Executes`,
`Purge`, `ClearEngine` the engine's, `ChangeMode` and `Undo` the mode manager's,
`Destroy` the room registry's.

**IntentLifecycle** - the abstract specification of the engine.

**OrderedWork** - what a queue promises: work starts when all it depends on is
completed, best first, in order of arrival; when work is found ready is not said.

**TaskQueue** - the queue in memory as one function from task ids to records, so
that the dispatcher can chain operations in one stretch. `StartNext` is `getNext`
and `start`, which no caller separates. Ids of plans that are never added are in
`Tasks` too and stay `absent`.

**DurableQueue** - the queue in a table. `complete()` and `getNext()` are several
statements, each durable alone; `phase` says which the process is at, `left` the
rows that `updateReadyTasks()` has yet to look at. `ProcessEnds` and `Reopen` may come
between any two. Its rows are the tasks of `TaskQueue`.
The dependencies of a task are a list, and a row is readied when as many rows as the
list is long are found completed: `repeating` has the tasks whose list names one
twice, which are never readied. To the abstract queue (`TableWork`) such a task is
one that depends on itself: it waits for ever and others may pass it. In that the
durable queue keeps another promise than the one in memory.

**PlanExecution** - `turn` is the call whose stretch is running. `LoadStep` and
`StartTask` are single steps of a stretch; since nothing else moves while `turn`
is taken, a stretch is still atomic. `runs` is the history of `executeTask`; a
run is `working` until its worker ends with text, ends silently, throws, or the
queue refuses the result (`crashed`, `unstored`). `Wake` and `Throw` are the
two outcomes of the race. A promise settles some microtasks after the worker
ends, which is why another worker may end before `Wake`.

**StdioTransport** - children are numbered in the order they are spawned.
`signalled` is Node's `ChildProcess.killed`: a signal was delivered, not: the
process is gone. A timer is armed while its child is in `starting` or `closing`
or its request in `pending`.

**AgentLoop** - `context` and `loopState` belong to an agent, the record `run[r]`
holds the locals of one call of `run()`: nothing but the caller keeps two calls
on one agent apart. A run goes from `top` (the `while`) to `streaming` (the answer
arrives), `executing` (the tools, one by one), `answering` (their results enter
the context) and back. `Retry` and `ChatFails` are the router's. The tool phase is
the desktop's, without hooks and permissions; `CliAgent` has its own. The system
message stays and is left out; a message counts as one token, and counting is part
of the stretch that asks for it. Of an answer the model keeps whether it has
text and how many tools it calls; the adapters emit the calls last, so a failed
attempt leaves text behind and no call.

**DesktopChat** - `agent` and `controller` are the two fields of the service, a
controller being named by the run it was made for; `ui` is the renderer's status, in
which "error" counts as idle because both open the input. `submitted` is a message
between the renderer and the service, which may find a stopped run still on
(`ChatRefused`). A file dropped on the page is sent whatever the status is. `registered`
says whether an agent can be made: the primary provider may not be in the router after
an installation (`Init`), when its key was removed (`RemoveApiKey`) or does not serve
(`SetApiKey`), and is there again when another is chosen (`SetProvider`). `ChatThrows`
is `chat()` without it, which leaves a controller and no run. `KeyChangesDuringRun` says
whether the user may store an API key while a run is on; the code allows it, and most
properties fail if he does.

**ToolPermissions** - `check()` of the permission manager: the four lists of
rules, then the mode. Which patterns match is a constant, and so is the key a call
has in the approval cache, which two calls may share.

**CliAgent** - one process per prompt over one session file. A call goes from hook to
permission to prompt to execution (`call[r].stage`), as asked for and as the hook may
have changed it; `cache`, `shown` and `ran` are the answers remembered, the questions
asked and the calls the agent executed. A call of `TaskCalls` makes a subagent, which
the agent waits for ("delegating") or not (`background`); what it executes (`delegated`)
is chosen freely, since neither hook nor permission manager is asked about it. A hook
may answer, block, fail, hang or time out. `file` may be torn by an end during its
write.

**YjsPersistence** - a document is the set of the updates it has taken in, merging
is union. `flushTimer` is the debounced flush; `server` goes through "disposed", in which
the database is closed and sockets are still there. A crash loses `ydoc`, a closed
connection what it had not delivered, which the client offers again when it
connects. The clients are those that reach the route, which those of this repository do
not (section 7). `DurableDocument` is the memory cell with a stored copy that it promises.

**MCRoom** is a room: its permission stack and its document do not call each other, so
that a behaviour is one of either, with the fairness of both.

**MCServices** extends ten modules that share nothing. A behaviour picks one and
leaves the others as they began, so that the run checks each alone:

- **ZoneManager** - claims on half-open regions of files; `call` is the last call
  and its answer, for the properties.
- **AgentRegistry** - agents and their sliding windows over a clock; `done` is all
  that was let through, which the windows forget.
- **WorkerMessages** - channels over the bus; a message is its number in the order
  of publication. `clear()` of the bus, which only tests call, is left out.
- **McpRegistry** - the registry with a step per await of each call; state and
  client objects are numbered as they are made, for a name may have had several.
- **ChatAdapters** - how each of the four adapters puts calls together from the
  pieces of a stream, a piece being the index it belongs to.
- **DependencyResolver** - `resolve()` of one list of nodes, a step per turn of its
  loops: `frames` are the calls of `dfs()` under way, `told` is the cycle found, and
  `line` is Kahn's result followed by its queue, of which `taken` are the result. What
  it answers is held against reachability, defined by closed sets and not by a search.
- **RoomPage** - the sockets and timers of one mounted page.
- **Presence** - the activity of one participant with the time left on each timer.
- **DesktopKeys** - `setApiKey` and `removeApiKey` await by await; a file that two
  calls write at once, or that is emptied and not written, is torn.
- **DurableQueue**, above.

## 4. Runs

| Run | Question | Instance |
|---|---|---|
| `gateway` | do the managers agree in every order of events, and does the stack implement the lifecycle? | 2 intents, 2 requests, 2 approvers, a plain edit and a sensitive read, all modes, the default policies but for two approvals in code mode |
| `room` | are thresholds and timers honoured when two people must approve and the engine policy is on? Is what is edited stored, does the stored copy only grow, do edits reach everybody? | 1 intent, 1 request, 2 approvers, four kinds of intent; 3 clients, 2 edits, any number of crashes, disposals and restarts; weak fairness of timers and open connections |
| `queue` | does the queue implement ordered work? | 3 tasks, any dependency relation, 2 priorities, 2 instants |
| `plan` | one request: a complete report, an answer | every shape of plan of `OnePlan`, up to 4 steps and one id nobody adds, 2 slots |
| `plans_shared` | two requests over one dispatcher: nobody stranded, dependencies first, their output handed on | 2 plans of 2 steps that share an id, 2 calls (of the same plan too), 2 slots |
| `plan_workers` | *violated*: two requests run more workers than the maximum | 2 plans of 2 steps that have nothing in common, 2 calls, 2 slots |
| `plan_twice` | *violated*: an approval that arrives while the plan runs executes it again | as `plans_shared` |
| `stdio` | nobody is forgotten, errors stay errors, requests settle | 3 children, 2 requests |
| `chat` | one run at a time, calls and results together, a status that is honest but for one case, an end | 2 messages, 2 agents, 3 iterations, 2 attempts, 2 calls in an answer; a context of 3 messages, cut to 2; the provider registered or not; no key is stored during a run |
| `chat_newkey` | *violated*: after a new API key the old run takes away the controller of the new one | as `chat`, 2 iterations, keys at any time |
| `cli` | was what the agent itself runs judged, is nobody asked twice, do calls and results of what can be resumed belong together? | 2 processes on one session, 4 calls of which 2 share a key and one is a Task call, 2 iterations, 2 attempts, 2 calls in an answer |
| `services` | ten parts, one at a time, each with a property of its own | the constants of `Services.cfg` |

In `services`: regions of zones do not overlap and a person's claim wins
(`NoOverlap`, `HumansPrevail`); the limit holds in every window (`WithinRate`); the
durable queue implements ordered work across restarts, a task that names a dependency
twice being one that waits for ever (`ImplementsOrderedWork`);
no message of an open channel is lost or out of order (`NothingLost`); a server
shown as connected has its client (`ConnectedIsCallable`); a call is handed on
whole (`CallsAreWhole`); resolve() returns an order exactly when there is one, and a
right one (`OrderIsRight`); a page has a live socket or a timer (`NeverGivesUp`);
the activity and the cursor shown are the last ones (`ShownIsCurrent`); a key whose
removal succeeded does not come back (`RemovedIsGone`).

The type invariants of `TaskQueue`, `PlanExecution`, `StdioTransport`,
`DesktopChat`, `CliAgent` and `YjsPersistence` are theorems and cost no run.

Four properties name an exception, because the code has it. A pairing of calls and
results (`RequestsArePaired`, `SavedIsPaired`) lets a conversation begin with results
whose call a compaction cut. `BusyMeansWork` lets the renderer stay busy after a
message for which no agent could be made. `OutputReachesDependents` lets a step miss the
output of a dependency that ended and whose result its loop has not collected. And two
speak of the agent's own calls only, `RanAsJudged` and `AskedOnce`: of a subagent
they say no more than that a judged Task call made it.

**Bounds.** Two intents and two requests are enough for the gateway: its listeners
relate one request to one intent, and a second pair shows that nobody touches another's.
Two approvers meet the largest threshold used. Three tasks give chains, joins, cycles and
self-loops; ties need two tasks of one instant and `MaxTime` = 1 gives two instants. Two
calls are the least that share a dispatcher, and may be for one plan or two. The two
plans of `plan_workers` share no step, so that only the dispatcher is shared. Three
children let two old ones outlive a restart. Two messages are the least with an old and
a new run; two agents let one be replaced by a change of folder; with two calls in an
answer and a context of three messages a compaction falls between a call and its
results. `MaxPlans` bounds the plans submitted in a behaviour. Three clients leave two
connected when one goes, and two edits can be stored apart. Two processes are the least
with a resume, and the second may be cut off as the first was. Three regions lie inside,
beside and across one another and two files keep apart; two people and two agents give
every pair of claimants. A window of two actions and two milliseconds, a pause of three
and a clock of six see a pause end and a window begin after it. Three messages and a
history of two let the oldest be forgotten. Two servers, two state objects and two
clients let a server be added anew while its old client closes (`Closers`). Three
indices and five pieces give two calls, a text between them and pieces out of order.
Three nodes with two dependencies each hold every cycle up to length three and a name
that no node has. Three sockets and three timers let a page open a second socket before
the first is gone. One task that names a dependency twice (`MaxRepeating`) is passed by
the two others. Silence is counted to one more than the longer timeout. Two keys and two
calls under way give every pair of overlapping writes.

**Fairness.** `PermissionGateway.Fairness` and `StdioTransport.FairSpec`: Node
fires every timer that stays armed; nothing is assumed of people, servers or
children. `PlanExecution.FairSpec`: the event loop finishes every stretch and
runs every settled continuation; that a worker ends is an assumption on agents,
since the dispatcher applies no timeout of its own. `DesktopChat.FairSpec`: a
message reaches the service, the provider ends or fails each answer and each tool
returns, which are assumptions on them; the rest is continuations that the event
loop runs. The user owes nothing. `YjsPersistence.DocumentFairness`: the flush timer fires,
and an open connection carries what is to be carried; that a server stays up is not
assumed, so `EditsArrive` lets go of a client whose connection ends or whose server does.
The other specifications have no fairness and no liveness property.

**Deadlock** is not checked where the system may stop: a room that is destroyed, a
queue whose tasks are done, a transport that used up its children, a chat or a
command line that used up its messages, a service at its bound. Each run has such a
stop, so no run checks it; that those who wait are answered is what the liveness
properties and `NobodyIsStranded` are for.

## 5. Proofs

Eight modules hold 60 theorems that a reader should know (PROJECT.json,
"theorems") and the lemmas they rest on. They hold for all values of the
constants that meet the assumptions named in the modules, which TLC evaluates on
the instances. The assumptions say of what kind a constant is (a bound is a natural
number, a set of numbers is one) or that a set or a limit is not empty or zero where
the code's is not; a theorem that needs more says so below and in its statement.

### The permission stack: `PermissionGatewayProofs`

For any sets of intents, requests and approvers, any capability table and any
policies (`PolicyAssumption`, `GatewayAssumption`) the stack keeps `IInv`, from
which follow type correctness, the pairing of the maps, the absence of zombie
waiters and stray timers, that what waits was judged under the current mode, and
that no countdown runs for a flagged intent. None of these is inductive alone: that
a resolution from the engine finds its request needs the pairing, the pairing needs
that a pair is in the maps exactly while its request waits (`TrackedIffWaiting`), and
that needs that a waiting request's intent is pending. `NeverApprovesAtOnce` shows
that the last branch of `decide()` is dead.

`StackIsLifecycle`: every stretch of the room is a step of `IntentLifecycle` or
leaves the statuses alone. Its step that matters is the change of mode, which
resolves many intents at once.

The three theorems about what observers see rest on one lemma, `Viewed`, that says of
every step what it does to one intent and one request, as a reader of the events sees
it (`StepView`): an intent is left alone, proposed, moved along the lifecycle with one
event, or forgotten; a request is kept, opened or settled together with its intent.
Each of `ObserversAreRight`, `VerdictsArrive` and `ApprovalHasConsent` then needs
no action of the room any more. `ApprovalHasConsent` finds the request that backs an
approval in the step that approves: it had its approvers or its countdown then,
and a settled request is never touched again.

`HeldIsForCallersToResolve` is about the intents that plan mode holds, which have no
request and no timer. No step makes another intent pending without a request, and none
resolves a held one but a call of the engine: a change of the mode, which resolves
waiting requests, passes it by, since the maps pair only intents that were asked
about, and so do decisions, countdowns and expiry.

### The queues: `TaskQueueProofs`, `ServicesProofs`

`TaskQueueProofs` proves the type invariant, that the queue implements
`OrderedWork`, and that dependencies complete first, all as long as an id is not
added twice (what sharing ids does is the matter of `PlanExecution`). The
invariant adds that finitely many tasks are present, which the place of a new task
needs. The refinement maps what is pending or ready to waiting work; its step that
matters is `StartNext`, whose choice by status "ready" must agree with the choice among
all work that can start.

`TableIsOrderedWork` is the same promise of the durable queue, whose `complete()` and
`getNext()` may be cut off between any two statements, for lists of dependencies that
may name one twice: a task with such a list (`RepeatsWait`) never leaves its place in
the line, which is what the abstract queue has work do that depends on itself.
`DurableInv` says what the next process finds: a task that is ready has its dependencies
completed, rows are in the order of their arrival, and a pass over the pending rows that
precedes a choice has made ready every row it is past (`PassIsThorough`). A cut pass of
`complete()` leaves rows that could be ready and are not; the pass that every
`getNext()` starts with is what makes up for it.

Of the dependency resolver, `OrderIsAlwaysRight` says what `resolve()` answers: it throws
only for a cycle, names one, and otherwise returns every node that needs known nodes
only, once and after what it needs. `SearchInv` says where the search and the sort
are at every turn. The nodes the search has finished need only finished ones and
reach none of themselves (`FinishedInv`); the calls of `dfs()` under way are linked, each
by an edge to the next, and each reaches the last (`FramesInv`); the path traced back is
the calls from the last one down to the node met again (`TraceInv`); a degree counts the
dependencies not told of yet, and the line holds each node that has none open, after
what it needs (`SortInv`). That a finished set is closed is what rules out cycles
without any induction over paths: what a node reaches is the least closed set that
has its dependencies.

`ResolveComesToAnEnd` says that every turn of `resolve()` leaves less to do: five natural
numbers, compared one after the other (`ToGo`, `Below`), of phases, roots, names not
visited, calls under way and dependencies not followed, or of nodes not taken and not
told. These do not descend for ever, so that `resolve()` ends as long as it goes on.

`TableTyped` adds to these the types of the table, the clock and the phases.

### Plan execution: `PlanExecutionProofs`

No running step loses its worker and a step starts after what it depends on, however
many calls share the dispatcher. A step may be ready although a dependency was loaded
anew since, so what is inductive is that each dependency of a ready step has ended once
(`Earned`).

`TextsReachDependents` says the same of outputs, whatever ids the plans repeat: a step
that starts gets the text of each dependency that left one, except while the result of a
run of it is still to be collected. The worker's end and its
collection are two stretches, and in between a dependent may start. `OutputInv` has it
that a step that ran has a result recorded, or is in the map of a call that will.

`EachCallKeepsItsSlots` holds of calls that share everything: a loop waits for no more
runs than it has slots. It does not bound the workers there are, because the slots are
each call's own.

Nor does sharing keep a request from its answer. `WorkComesToAnEnd` says for any calls
and plans that what all of them have to do is one descent: steps to load, calls that
load, tasks to start, workers to end, results to collect, calls that fill, calls that
wait (`ToDo`), compared from the first, each a finite set. Every step of any loop or
worker takes something from the first of these that it changes, and only an approval
adds to them. No loop spins, and no two keep each other busy, though each starts the
tasks of the other. That a worker ends at all is what `ApprovalIsAnswered` assumes.

The other theorems suppose that the plans of any two calls that are not idle have no
step in common (`PlansApart`). The code does not see to that: the planner names a step
without an id by its place (`planner.ts:109`), and one plan may be approved twice. The
theorems say what the sharing of names, and not that of the dispatcher, breaks.
`PlansApartRunOnce` says that no step runs twice, not even one that its plan lists
twice, and `WorkersPerCall` that there are at most `Cardinality(Calls)` times as many
workers as slots. `ApartInv` says for both that what is in the queue and what ever ran
is of a plan that was loaded (`TasksHaveCalls`, `RunsHaveCalls`), so that loading a plan
never puts a task over one that ran, and that some call waits for every worker
(`WorkIsAwaited`).

`LastReportTellsAll`: once every call is answered and none with an error, each step of
each plan is in one report as it ended or waits for one that did not complete.
`AccountInv` follows a task through the gap between the queue's record of its end and
the dispatcher's: a task that the queue has as completed has its result or a run that
ended and is not collected yet (`Accounted`), the steps loaded so far are in the queue
(`LoadedSteps`), and a call that has returned has nothing in flight
(`NothingInFlight`). When the last loop stops no step is ready or running. Nothing of
the kind holds of an earlier report: `getNext()` hands out anyone's task, and so a call
may return while another runs a step of its plan.

For a dispatcher that one call has to itself (`Calls = {k}`) three things
follow: the bound on workers, that a step runs once, and that the report is complete
(`OneCallReportsAll`). Two calls violate the first, even if their plans have nothing in
common (`plan_workers`), and the second when they are for one plan (`plan_twice`).

### The agent loop: `AgentLoopProofs`, `DesktopChatProofs`, `CliAgentProofs`

`AgentLoopProofs` holds the lemmas about a context and the run that writes it, used for
both callers: its calls are answered up to those the run still owes (`Owes`,
`AnsweredUpTo`), each result is behind its call or at the head (`ResultsInPlace`), each
step of the loop keeps both, and a compaction, which keeps a suffix, cannot break them.
It can cut a call from its results, and these are then the results at the head.

`DesktopChatProofs` proves for any agents, messages, iterations, attempts, calls and
compaction what `chat` checks of safety. Type correctness needs that the calls being
made are those of the answer (`CallsInProgress`) and that there is an id for the next
agent (`AgentToMake`). `IInv` says that the service has a controller while its
run is active, and otherwise only for the last message it took, whose run was never
begun because no agent could be made (`NeverRan`), and that only an agent with an
active run is running. One run at a time, an honest status but for that message, and
that a stop is obeyed follow. All but type correctness and the
bound of the context assume `KeyChangesDuringRun = FALSE`, without which they are false
(`chat_newkey`). The bound assumes `KeepRecent > 0`: `slice(-0)` keeps everything.

`RunsComeToAnEnd` is the descent behind `EveryRunEnds`. What a run has left to do is a
triple of natural numbers, compared from the first: its rounds, the stages of the round
it is in, the turns within the stage (attempts, pieces of an answer, calls to make).
Each step of the run makes it smaller (`LoopCountsDown` of `AgentLoopProofs`), and a
stop, a refused message or a new folder leaves it as it is. It assumes one run at a time
too, because another run that began on the same agent would set its iteration back to
zero (`loop.ts:198`). That a step is taken at all is fairness, and stays with
`EveryRunEnds`.

`CliAgentProofs` proves for any rules, mode, calls and keys that what the agent itself
executes was judged and allowed as it ran, and that nobody is asked twice for one key.
The verdict is given one step and the execution is another, with the user in between:
`ProcessOK` says what the call in hand, the cache, the questions shown and the calls
executed owe one another. Neither holds of subagents, which nobody asks; `DelegationInv`
says that one is only there because of a Task call that passed all of this.
`ResumedIsPaired` says that a session left behind is none, unreadable or one whose calls
and results belong together, wherever the process ended. `SessionInv` adds the types,
that each process has its own context, paired up to what its run owes (`OwnContext`),
and that a process which saves has come to the end of its loop: so nothing is owed then.

### The transport and the registry: `ServicesProofs`

Of the transport: the type invariant, that a waiting caller has an entry, and that an
error never turns into a connection (`TransportInv`).

`ConnectedServersAnswer`: `ConnectedIsCallable` speaks of a server for which nothing is
under way. Inductive is `CallableUnlessClosing`, which holds through the awaits too
except between the close of a client and its caller's going on, together with that a
state object belongs to one name for life (`OneNameEach`).

`CallsArriveWhole`: the calls an adapter holds, with the one in a line that is not
complete (`CallsSoFar`), are at any moment those of the stream so far, and each provider
numbers them in its own way (`Numbered`): Gemini and Ollama by counting,
Anthropic by a block index that only grows. `AdaptersTyped` keeps the types, which need
that only Ollama's adapter ever has a line that is not complete.

`RemovedKeysStayGone`: a removed key has no file, nobody is about to write one, and it
is not in use (`RemovedForGood`). That holds at the end of a removal because nobody sets
the key of one that counts as alone (`LoneRemoval`) and because a call that removes
touches the file only to unlink it (`RemovingOnlyUnlinks`). A removal that overlaps a
setting of its own key promises nothing and is not meant.

### What is shared in a room: `CollaborationProofs`

Documents: the type invariant, that what is unsaved has a flush pending, and that the
server implements `DurableDocument`. Needed is that the stored copy is behind the
document while it is open (`StoredIsBehind`): that is why a flush may overwrite it, and
why a crash loses nothing that was stored.

Zones: no two overlap and people come first, for any participants and regions.
`NoOverlap` is inductive with the types.

`RateIsKept`: the limiter knows only the times it kept and the end of its pause, the
property speaks of everything it ever let through. `RateInv` joins them: what is kept is
a suffix of what was let through, what was dropped has left the window (`OfTimes`), and
each full window has been given its pause or is inside it (`Spread`, `Paused`). The
theorem is for any limit, window and pause that `RegistryAssumption` admits.
`AgentsAreBounded` is the type invariant of registry and limiter: no more agents than
the room takes, no more times kept than the limit.

`PageKeepsTrying` and `PresenceIsCurrent` are inductive with the types and,
for presence, with what ties the pending cursor to the one shown (`PendingIsCursor`) and
with that no timer that is armed is due before its timeout of silence (`TimersAreDue`).

`NoMessageIsLost` holds of any number of workers, roles and messages: what a channel has
read and what is in its inbox is all that was published for it since it opened, in
order, although the bus itself forgets. `MessagesTyped` says how much of them the bus
remembers.

### Only model-checked

- Liveness under fairness, which is beyond the prover: `TimedRequestsSettle`,
  `ApprovalIsAnswered`, `RequestsSettle`, `EveryRunEnds`, `EditsArrive`. Of
  `ApprovalIsAnswered` and `EveryRunEnds` the descent is proved (`WorkComesToAnEnd`,
  `RunsComeToAnEnd`), not that the steps are taken.
- `TypeOK` of `MCServices`, of which each of the ten parts is a theorem of that part's
  own specification, for any constants. What the check adds is only that a behaviour
  of one part leaves the nine others as they began.
- Neither checked nor proved, but read: that a turn of the resolver is always possible
  before it ends. It is about `ENABLED`; the guards of the turns of each phase are each
  other's complements.

Every inductive invariant whose proof is not immediate (`IInv` of the room, `RateInv`,
`AgentInv`, `MessageInv`, `RegistryInv`, `DurableInv`, `AdapterInv`, `KeyInv`, `SearchInv`,
`ApartInv`, `AccountInv`) and the steps `HeldStep`, `CountsDown`, `RunsCountDown` and
`WorkCountsDown` were model-checked first, on the instances of `gateway`, `services`
and `chat` and, for plans, with two calls.

## 6. Not modelled

See PROJECT.json for each part and its reason. In short: network and file I/O, the
Yjs merge, prompts and parsing, rendering; the ages in `purgeOld` (any terminal
intents may be old enough); wording and identifiers; `Orchestrator.execute` and the
deprecated sequential `dispatchNext`, which the server does not call.

The map covers about 4,400 of the repository's 49,000 lines. What it leaves out is of
four kinds: user interfaces (desktop and web components, terminal widgets, the
command line's options and output), conversions (provider formats, schemas,
parsers, configuration), tools that are one call into the file system, a process
or the network, and types, prompts and role definitions. A few stores are state,
but each of their operations is one synchronous write (collaboration memory,
artifacts, handoffs, rooms and invitations), so that no order of events can hurt
them: a unit test reaches what a model would.

## 7. Other observations

Reading the code for the models showed disagreements that no run is spent on. The
models have the code's behaviour wherever the part is modelled.

*Permissions.* The engine's own policy approves a sensitive read before anybody is asked
(`intent-engine.ts:85`), though `README.md:183` says that sensitive files always require
manual approval. A proposal recorded in plan mode gets no approval request when the mode
changes to code, though `permission-checker.ts:235` says to switch; writes in plan mode
are rejected, though `docs/MUSTARD-GETTING-STARTED.md:155` says they stay pending.

*Queues and plans.* A dependent step may start before the output it needs is recorded
(`dispatcher.ts:104` records it, `:118` reads it). `TaskQueue.add` puts a task over a
completed one of the same id without its dependents being told. A task that names a
dependency twice is never ready in the durable queue (`sqlite-queue.ts:196-200` counts
rows), whose header says "Same interface as in-memory TaskQueue";
`ImplementsOrderedWork` has it as an exception. What was running when its process ended
stays running. `taskTimeoutMs` and `maxRetries` of the orchestrator are read nowhere;
its `success` looks at results only, so a plan with a cycle succeeds; its results are
those of every plan the shared dispatcher ran. The report of a request may miss a step
of its own plan that another request is running, even when their plans share nothing,
because `getNext` of the shared queue hands out anyone's task (`dispatcher.ts:70-107`).

*Workers.* The prompt shows a question without its `correlationId`
(`communication.ts:203-206`), which `answer()` needs. `run()` resets a worker that
was aborted before it began (`base-worker.ts:130`).

*MCP.* A child that exits during the 100 ms of the start leaves the transport
connected; the exit of an old child marks the transport disconnected while its new
one runs (`stdio.ts:105`); `SIGKILL` is never sent to a child that ignores
`SIGTERM`; a server's own request settles the client's request of the same id.
The HTTP transport's abort controller reaches no fetch (`http.ts:141`). A listing
that fails after the handshake leaves a client whose transport nobody closes.

*Agent, desktop, command line.* The subagents of a Task call get neither permission
manager nor hooks (`subagent.ts:123-133`; enabled by `index.ts:1046` and `:1233`), so
that one allowed Task call executes whatever its model asks for, also what a builtin
rule denies that `manager.ts:20` and `permissions/types.ts:5` call never bypassable.
When the primary provider is not registered, as after an installation without a key,
`chat()` throws behind the controller it has just set (`agent.ts:61-65`): the renderer
stays busy until `stop()`, and every message is refused until a key is stored. A chat
message sent before a stopped run has noticed the stop is refused and lost, though
`apps/desktop/docs/THIN-CLIENT.md:42` has `chat` return `{ success: true }`; a run that
answers in its last allowed iteration is reported as out of iterations (`loop.ts:308`);
the messages that a compaction keeps may exceed `maxTokens`, though
`context/manager.ts:5` promises to prevent that, and may start with results whose call
was cut, which providers refuse; `lastError` is read by `getStatus()` and set nowhere.
The renderer replaces what an answer has so far by its last piece
(`event-adapter.ts:47`, `conversation.ts:60-67`). An error that ends a run of the
command line ends the process before the session is saved (`index.ts:1283`).
`credentials.json` torn by an end of the application, or written by two calls at once,
loses the keys it listed; the primary provider may be one whose key was removed.

*Providers.* Ollama's adapter drops a call in a last line without a newline; the
adapters of Gemini and Ollama leave earlier tool calls out of the history they
send; Anthropic's appends a piece to the block that began last, not to the one the
event names (`anthropic.ts:121`).

*Documents.* The providers of the web page and of `collab-sync` connect to
`/yjs/<room>` (`use-yjs-doc.ts:50-58`, `ws-provider.ts:78-87`), and the route accepts
`/yjs?roomId=<room>` only (`yjs-route.ts:79-129`).

*Room page.* A socket that fails reports 'error' and 'close', and each arms a
timer, so that sockets multiply; a socket still connecting when the page is left
stays open, though `use-collab-socket.ts:7` says "Cleans up on unmount"; a page
whose token has expired retries for ever (`ws.ts:109`).

*Tools and stores.* A command's timeout kills the shell and waits for whoever holds
its pipes, so the "hard limit" of `bash.ts:19` is none. Background processes older
than an hour are forgotten while they run, so neither is
`MAX_BACKGROUND_PROCESSES`. The maps that KillShell and TaskOutput read are filled
by nothing. MultiEdit passes `new_string` to `String.replace`, which interprets `$`
(`multi-edit.ts:129`). `ArtifactStore.delete` removes the name of a younger artifact
of the same name (`artifact/src/store.ts:129`). "Recent activity" of the memory
context lists the oldest entries (`context-assembler.ts:234`).
