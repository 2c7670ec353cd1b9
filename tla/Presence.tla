------------------------------- MODULE Presence -------------------------------
(***************************************************************************)
(* What the others see of one participant: its activity                    *)
(* (packages/collab-presence/src/activity-tracker.ts) with the timers that *)
(* turn silence into "idle" and then "away", and its cursor                *)
(* (cursor-tracker.ts) with the timer that throttles broadcasts.  A timer  *)
(* fires at its time or later.                                             *)
(***************************************************************************)
EXTENDS Integers

CONSTANTS IdleTimeout, AwayTimeout, MaxSilence,
          Positions   \* of a cursor; 0 is none

ASSUME PresenceAssumption ==
  /\ IdleTimeout \in Nat /\ AwayTimeout \in Nat /\ MaxSilence \in Nat
  /\ IdleTimeout < AwayTimeout /\ 0 \notin Positions

VARIABLES kind,       \* participantType
          activity,
          last,       \* the last signal: none yet, one of work, or a blur
          silence,    \* the time since the last signal, up to MaxSilence
          idleTimer, awayTimer,   \* the time each has left, Off when there is none
          cursor, pending, throttled,   \* CursorTracker
          shown       \* the cursor broadcast last

presenceVars == <<kind, activity, last, silence, idleTimer, awayTimer,
                  cursor, pending, throttled, shown>>
activityVars == <<activity, last, silence, idleTimer, awayTimer>>
cursorVars == <<cursor, pending, throttled, shown>>

Off == -1

States == {"active", "typing", "viewing", "idle", "away", "thinking", "executing"}

PresenceTypeOK ==
  /\ kind \in {"human", "ai"} /\ activity \in States /\ last \in {"none", "work", "blur"}
  /\ silence \in 0 .. MaxSilence
  /\ idleTimer \in Off .. IdleTimeout /\ awayTimer \in Off .. AwayTimeout
  /\ {cursor, pending, shown} \subseteq Positions \cup {0} /\ throttled \in BOOLEAN

\* The constructors arm no timer.
PresenceInit ==
  /\ kind \in {"human", "ai"} /\ activity = "active" /\ last = "none"
  /\ silence = 0 /\ idleTimer = Off /\ awayTimer = Off
  /\ cursor = 0 /\ pending = 0 /\ shown = 0 /\ throttled = FALSE

-----------------------------------------------------------------------------

\* Mistake: the timers are not started again.
TouchOnly == silence' = 0 /\ UNCHANGED <<idleTimer, awayTimer>>

TouchTimers == silence' = 0 /\ idleTimer' = IdleTimeout /\ awayTimer' = Off

\* Keystrokes, moves, clicks, opened files, focus; what an AI reports of itself.
Signal(next) ==
  /\ \/ next \in {"typing", "active", "viewing", "idle"}
     \/ next \in {"thinking", "executing"} /\ kind = "ai"
  /\ TouchTimers
  /\ activity' = next /\ last' = "work"
  /\ UNCHANGED <<kind, cursorVars>>

Blur ==
  /\ activity' = "away" /\ last' = "blur"
  /\ idleTimer' = Off /\ awayTimer' = Off
  /\ UNCHANGED <<kind, silence, cursorVars>>

GoesIdle ==
  /\ idleTimer = 0 /\ idleTimer' = Off
  /\ IF activity = "away"
       THEN UNCHANGED <<activity, awayTimer>>
       ELSE activity' = "idle" /\ awayTimer' = AwayTimeout - IdleTimeout
  /\ UNCHANGED <<kind, last, silence, cursorVars>>

GoesAway ==
  /\ awayTimer = 0 /\ awayTimer' = Off
  /\ activity' = IF activity = "idle" THEN "away" ELSE activity
  /\ UNCHANGED <<kind, last, silence, idleTimer, cursorVars>>

TimePasses ==
  /\ silence < MaxSilence /\ silence' = silence + 1
  /\ idleTimer' = IF idleTimer > 0 THEN idleTimer - 1 ELSE idleTimer
  /\ awayTimer' = IF awayTimer > 0 THEN awayTimer - 1 ELSE awayTimer
  /\ UNCHANGED <<kind, activity, last, cursorVars>>

-----------------------------------------------------------------------------

SetCursor(p) ==
  /\ cursor' = p /\ pending' = p /\ throttled' = TRUE
  /\ UNCHANGED <<shown, kind, activityVars>>

ClearCursor ==
  /\ cursor' = 0 /\ shown' = 0 /\ pending' = 0
  /\ UNCHANGED <<throttled, kind, activityVars>>

ThrottleEnds ==
  /\ throttled /\ throttled' = FALSE
  /\ IF pending # 0 THEN shown' = cursor /\ pending' = 0 ELSE UNCHANGED <<shown, pending>>
  /\ UNCHANGED <<cursor, kind, activityVars>>

PresenceNext ==
  \/ \E next \in States : Signal(next)
  \/ Blur \/ GoesIdle \/ GoesAway \/ TimePasses
  \/ \E p \in Positions : SetCursor(p)
  \/ ClearCursor \/ ThrottleEnds

PresenceSpec == PresenceInit /\ [][PresenceNext]_presenceVars

-----------------------------------------------------------------------------

\* After a first signal nobody silent is shown at work for ever, nobody is
\* shown away before the time unless the page lost focus, and what is shown of
\* the cursor is where it is or is about to be corrected
\* (activity-tracker.ts:162-177, cursor-tracker.ts:101-119).
ShownIsCurrent ==
  /\ activity \notin {"idle", "away"} /\ last # "none" => idleTimer # Off
  /\ activity = "idle" => idleTimer # Off \/ awayTimer # Off
  /\ activity = "away" => last = "blur" \/ silence >= AwayTimeout
  /\ shown # cursor => throttled /\ pending = cursor
===============================================================================
