---------------------------- MODULE AgentRegistry ----------------------------
(***************************************************************************)
(* The agents of a room (packages/collab-ai/src/agent-registry.ts) and the *)
(* limiter they share (rate-limiter.ts): a sliding window per agent and    *)
(* kind of action, and a pause once the window is full.                    *)
(*                                                                         *)
(* Nothing here has a timer: the sweep for silent agents is a call.        *)
(***************************************************************************)
EXTENDS Integers, Sequences, FiniteSets

CONSTANTS AgentIds, MaxAgents,
          Actions,                    \* the kinds of action that have a limit
          MaxOperations, WindowMs, CooldownMs,
          HealthTimeout,
          MaxClock                    \* bound on the clock

ASSUME RegistryAssumption ==
  /\ MaxAgents \in Nat /\ MaxOperations \in Nat \ {0}
  /\ WindowMs \in Nat \ {0} /\ CooldownMs \in Nat
  /\ HealthTimeout \in Nat /\ MaxClock \in Nat

VARIABLES agents,     \* AgentIds -> the record of a registered agent
          windows,    \* AgentIds -> Actions -> the times kept of what was done
          cooldowns,  \* AgentIds -> Actions -> cooldownUntil
          ms,         \* Date.now()
          done        \* AgentIds -> Actions -> all that was let through since it registered

agentVars == <<agents, windows, cooldowns, ms, done>>

Statuses == {"initializing", "idle", "thinking", "executing", "paused", "error", "disconnected"}
Absent == [status |-> "absent", lastActivity |-> 0]

Idle == [a \in Actions |-> <<>>]
Warm == [a \in Actions |-> 0]

Registered == {g \in AgentIds : agents[g] # Absent}

AgentTypeOK ==
  /\ agents \in [AgentIds -> [status : Statuses \cup {"absent"}, lastActivity : 0 .. MaxClock]]
  /\ windows \in [AgentIds -> [Actions -> Seq(0 .. MaxClock)]]
  /\ cooldowns \in [AgentIds -> [Actions -> 0 .. MaxClock + CooldownMs]]
  /\ ms \in 0 .. MaxClock
  /\ done \in [AgentIds -> [Actions -> Seq(0 .. MaxClock)]]
  /\ Cardinality(Registered) <= MaxAgents
  /\ \A g \in AgentIds, a \in Actions : Len(windows[g][a]) <= MaxOperations

AgentInit ==
  /\ agents = [g \in AgentIds |-> Absent]
  /\ windows = [g \in AgentIds |-> Idle]
  /\ cooldowns = [g \in AgentIds |-> Warm]
  /\ ms = 0
  /\ done = [g \in AgentIds |-> Idle]

Record(status) == [status |-> status, lastActivity |-> ms]

-----------------------------------------------------------------------------
(* The registry.                                                           *)

\* Mistake: the limit is compared with what is there already.
RegisterBeyond(g) ==
  /\ g \notin Registered /\ Cardinality(Registered) <= MaxAgents
  /\ agents' = [agents EXCEPT ![g] = Record("initializing")]
  /\ UNCHANGED <<windows, cooldowns, ms, done>>

Register(g) ==
  /\ g \notin Registered /\ Cardinality(Registered) < MaxAgents
  /\ agents' = [agents EXCEPT ![g] = Record("initializing")]
  /\ UNCHANGED <<windows, cooldowns, ms, done>>

\* resetAgent(): whoever comes next under this id starts anew.
Unregister(g) ==
  /\ g \in Registered
  /\ agents' = [agents EXCEPT ![g] = Absent]
  /\ windows' = [windows EXCEPT ![g] = Idle]
  /\ cooldowns' = [cooldowns EXCEPT ![g] = Warm]
  /\ done' = [done EXCEPT ![g] = Idle]
  /\ UNCHANGED ms

\* setStatus(): the status it has already is no activity.
SetStatus(g, status) ==
  /\ g \in Registered /\ agents[g].status # status
  /\ agents' = [agents EXCEPT ![g] = Record(status)]
  /\ UNCHANGED <<windows, cooldowns, ms, done>>

Touch(g) ==
  /\ g \in Registered
  /\ agents' = [agents EXCEPT ![g].lastActivity = ms]
  /\ UNCHANGED <<windows, cooldowns, ms, done>>

\* markStaleAsError()
Stale(g) ==
  /\ agents[g].status \notin {"absent", "error", "disconnected"}
  /\ agents[g].lastActivity < ms - HealthTimeout

MarkStaleAsError ==
  /\ \E g \in AgentIds : Stale(g)
  /\ agents' = [g \in AgentIds |-> IF Stale(g) THEN Record("error") ELSE agents[g]]
  /\ UNCHANGED <<windows, cooldowns, ms, done>>

ClearRegistry ==
  /\ agents' = [g \in AgentIds |-> Absent]
  /\ windows' = [g \in AgentIds |-> Idle]
  /\ cooldowns' = [g \in AgentIds |-> Warm]
  /\ done' = [g \in AgentIds |-> Idle]
  /\ UNCHANGED ms

-----------------------------------------------------------------------------
(* The limiter.                                                            *)

\* The times after the start of the window: they are in order, so what the filter
\* takes out are the first of them.
Kept(times, start) ==
  SubSeq(times, Cardinality({i \in DOMAIN times : times[i] <= start}) + 1, Len(times))

InWindow(times) == Kept(times, ms - WindowMs)

\* Mistake: the pause is not looked at.
LimitedByWindow(g, a) == Len(InWindow(windows[g][a])) >= MaxOperations

\* getStatus()
Limited(g, a) == ms < cooldowns[g][a] \/ Len(InWindow(windows[g][a])) >= MaxOperations

\* tryConsume() and record(), whatever the status of the agent; the call is no
\* activity either.
Consume(g, a) ==
  /\ g \in Registered /\ ~Limited(g, a)
  /\ LET active == InWindow(Append(windows[g][a], ms))
     IN /\ windows' = [windows EXCEPT ![g][a] = active]
        /\ cooldowns' = IF Len(active) >= MaxOperations
                          THEN [cooldowns EXCEPT ![g][a] = ms + CooldownMs] ELSE cooldowns
  /\ done' = [done EXCEPT ![g][a] = Append(@, ms)]
  /\ UNCHANGED <<agents, ms>>

ClockTick == ms < MaxClock /\ ms' = ms + 1 /\ UNCHANGED <<agents, windows, cooldowns, done>>

AgentNext ==
  \/ \E g \in AgentIds :
       \/ Register(g) \/ Unregister(g) \/ Touch(g)
       \/ \E status \in Statuses : SetStatus(g, status)
       \/ \E a \in Actions : Consume(g, a)
  \/ MarkStaleAsError \/ ClearRegistry \/ ClockTick

AgentSpec == AgentInit /\ [][AgentNext]_agentVars

-----------------------------------------------------------------------------
(* Properties.                                                             *)

\* However the calls are spread, an agent gets no more than MaxOperations through
\* in any window, wherever it begins, although the limiter forgets what left
\* the last one; and a full window is followed by the whole pause
\* (rate-limiter.ts:46-71, 98-118).
WithinRate ==
  \A g \in AgentIds, a \in Actions :
    LET times == done[g][a] IN
    \A i, j \in 1 .. Len(times) :
      /\ j = i + MaxOperations => times[j] - times[i] >= WindowMs
      /\ j = i + MaxOperations - 1 /\ times[j] - times[i] < WindowMs =>
           \A k \in j + 1 .. Len(times) : times[k] - times[j] >= CooldownMs
==============================================================================
