----------------------------- MODULE DurableQueue -----------------------------
(***************************************************************************)
(* The queue in a table (packages/queue/src/sqlite-queue.ts).  Each        *)
(* statement is durable on its own: complete() and getNext() are several,  *)
(* and the process may end between any two of them.  The table is what the *)
(* next process starts with.                                               *)
(*                                                                         *)
(* A row is a task as the queue in memory has it (TaskQueue), its place    *)
(* the rowid.  The dependencies of a task are a list, which may name one   *)
(* of them more than once: `repeating' says for which tasks it does.       *)
(***************************************************************************)
EXTENDS Naturals, FiniteSets

CONSTANTS Tasks, Priorities, MaxTime,
          MaxRepeating  \* bound: how many tasks name a dependency twice

ASSUME DurableAssumption ==
  Priorities \subseteq Nat /\ MaxTime \in Nat /\ MaxRepeating \in Nat

VARIABLES rows,   \* the table
          repeating,  \* the tasks whose list names a dependency more than once
          clock,
          phase,  \* of the one process: "down", "idle", "completing" or "getting"
          left    \* the pending rows updateReadyTasks() has still to look at

durableVars == <<rows, repeating, clock, phase, left>>

T == INSTANCE TaskQueue WITH queue <- rows, now <- clock

Rows(status) == {t \in Tasks : rows[t].status = status}

DurableTypeOK ==
  /\ rows \in [Tasks -> T!TaskRecord] /\ clock \in 0 .. MaxTime
  /\ repeating \subseteq {t \in Tasks : rows[t].deps # {}}
  /\ phase \in {"down", "idle", "completing", "getting"}
  /\ left \subseteq Rows("pending")
  /\ phase \in {"down", "idle"} => left = {}

DurableInit ==
  rows = T!EmptyQueue /\ repeating = {} /\ clock = 0 /\ phase = "idle" /\ left = {}

Update(t, status) == rows' = [rows EXCEPT ![t].status = status]

\* add(): an INSERT, which throws for an id that is there.
Insert(t, deps, priority) ==
  /\ phase = "idle" /\ rows[t].status = "absent"
  /\ clock' \in {clock, clock + 1} /\ clock' <= MaxTime
  /\ rows' = T!Added(rows, t, deps, priority, clock')
  /\ \/ repeating' = repeating
     \/ /\ deps # {} /\ Cardinality(repeating) < MaxRepeating
        /\ repeating' = repeating \cup {t}
  /\ UNCHANGED <<phase, left>>

\* Mistake: the dependents are readied before the task is marked completed.
CompleteLast(t) ==
  /\ phase = "idle" /\ rows[t].status = "running"
  /\ rows' = [u \in Tasks |->
                IF rows[u].status = "pending" /\ rows[u].deps \subseteq Rows("completed") \cup {t}
                THEN [rows[u] EXCEPT !.status = "ready"] ELSE rows[u]]
  /\ phase' = "completing" /\ left' = {}
  /\ UNCHANGED <<clock, repeating>>

\* complete(): the row, then updateReadyTasks().
CompleteRow(t) ==
  /\ phase = "idle" /\ rows[t].status = "running"
  /\ Update(t, "completed")
  /\ phase' = "completing" /\ left' = Rows("pending")
  /\ UNCHANGED <<clock, repeating>>

\* getNext(): updateReadyTasks(), then the SELECT.
BeginGetNext ==
  /\ phase = "idle"
  /\ phase' = "getting" /\ left' = Rows("pending")
  /\ UNCHANGED <<rows, repeating, clock>>

\* The rows are read in the order of their rowid; each gets an UPDATE of its own,
\* if the number of completed rows that its list names is the length of the list.
\* A row counts once however often it is named, so a list with a repetition is
\* always longer.
ReadyRow(t) ==
  /\ t \in left /\ \A u \in left : rows[t].place <= rows[u].place
  /\ left' = left \ {t}
  /\ IF T!DepsCompleted(rows, t) /\ t \notin repeating THEN Update(t, "ready") ELSE UNCHANGED rows
  /\ UNCHANGED <<repeating, clock, phase>>

\* The caller of getNext() starts what it got, in the same stretch ...
StartRow(t) ==
  /\ phase = "getting" /\ left = {} /\ T!IsNext(rows, t)
  /\ Update(t, "running")
  /\ phase' = "idle"
  /\ UNCHANGED <<repeating, clock, left>>

\* ... or does not, or got nothing; or complete() returns.
CallReturns ==
  /\ phase \in {"getting", "completing"} /\ left = {}
  /\ phase' = "idle"
  /\ UNCHANGED <<rows, repeating, clock, left>>

FailRow(t) ==
  /\ phase = "idle" /\ rows[t].status = "running" /\ Update(t, "failed")
  /\ UNCHANGED <<repeating, clock, phase, left>>

CancelRow(t) ==
  /\ phase = "idle" /\ rows[t].status \in {"pending", "ready", "running", "failed"}
  /\ Update(t, "cancelled")
  /\ UNCHANGED <<repeating, clock, phase, left>>

DeleteRows ==
  /\ phase = "idle" /\ rows' = T!EmptyQueue /\ repeating' = {}
  /\ UNCHANGED <<clock, phase, left>>

\* The process ends, before or after any statement ...
ProcessEnds ==
  /\ phase # "down" /\ phase' = "down" /\ left' = {}
  /\ UNCHANGED <<rows, repeating, clock>>

\* ... and another opens the table.  Nothing is done about what was running.
Reopen == phase = "down" /\ phase' = "idle" /\ UNCHANGED <<rows, repeating, clock, left>>

DurableNext ==
  \/ \E t \in Tasks :
       \/ \E deps \in SUBSET Tasks, p \in Priorities : Insert(t, deps, p)
       \/ CompleteRow(t) \/ ReadyRow(t) \/ StartRow(t) \/ FailRow(t) \/ CancelRow(t)
  \/ BeginGetNext \/ CallReturns \/ DeleteRows \/ ProcessEnds \/ Reopen

DurableSpec == DurableInit /\ [][DurableNext]_durableVars

-------------------------------------------------------------------------------
(* Properties.                                                             *)

\* The work in the table.  One that names a dependency twice is to the table what
\* one that depends on itself is: it is kept, and waits for ever.
TableWork ==
  [t \in Tasks |->
     [state |-> IF rows[t].status \in {"pending", "ready"} THEN "waiting" ELSE rows[t].status,
      deps |-> rows[t].deps \cup (repeating \cap {t}),
      priority |-> rows[t].priority, arrival |-> rows[t].place]]

Promise == INSTANCE OrderedWork WITH work <- TableWork

\* The table is a queue in the sense of OrderedWork wherever the process ends
\* and another goes on: what was readied by half of a pass is the same work in
\* the same order, and nothing starts early or overtakes (sqlite-queue.ts:84-94,
\* 112-124, 183-204).  The one exception is in TableWork: a task whose list names a
\* dependency twice never starts and the others pass it, where the queue in memory,
\* whose interface this one is said to have (sqlite-queue.ts:5), starts it.
ImplementsOrderedWork == Promise!Spec
===============================================================================
