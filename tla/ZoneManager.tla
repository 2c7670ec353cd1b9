----------------------------- MODULE ZoneManager -----------------------------
(***************************************************************************)
(* Claims on regions of files (packages/collab-ai/src/zone-manager.ts).    *)
(* The claims of people last; those of agents expire.  A person takes the  *)
(* region of an agent, nobody takes that of a person.                      *)
(*                                                                         *)
(* A region is the half-open interval between its two positions, where a   *)
(* position is a number in the order of lines and columns.                 *)
(***************************************************************************)
EXTENDS Naturals

CONSTANTS Humans, AIs, Files, Regions,
          Durations,    \* that agents ask for
          MaxZoneTime   \* bound on the clock

ASSUME ZoneAssumption ==
  /\ Humans \cap AIs = {}
  /\ Regions \subseteq [start : Nat, end : Nat]
  /\ Durations \subseteq Nat /\ MaxZoneTime \in Nat

Participants == Humans \cup AIs
Never == MaxZoneTime + 1     \* expiresAt of a person's claim, which is undefined

Claims == [file : Files, region : Regions, by : Participants, expires : Nat]

VARIABLES claims,
          time,
          call    \* the last call: who asked for what, and whether it was granted

zoneVars == <<claims, time, call>>

NoRegion == [start |-> 0, end |-> 0]
Asked(op, file, region, by, granted) ==
  [op |-> op, file |-> file, region |-> region, by |-> by, granted |-> granted]

Calls == [op : {"none", "claim", "release", "releaseAll", "clear"}, file : Files \cup {"any"},
          region : Regions \cup {NoRegion}, by : Participants \cup {"nobody"}, granted : BOOLEAN]

NoCall == Asked("none", "any", NoRegion, "nobody", FALSE)

ZoneTypeOK == claims \subseteq Claims /\ time \in 0 .. MaxZoneTime /\ call \in Calls

ZoneInit == claims = {} /\ time = 0 /\ call = NoCall

-----------------------------------------------------------------------------
(* The operations.                                                         *)

\* Mistake: a region that reaches over the whole of another is missed.
OverlapAtStart(r, s) == s.start <= r.start /\ r.start < s.end

\* rangesOverlap()
Overlap(r, s) == ~(r.end <= s.start) /\ ~(s.end <= r.start)

Expired(c) == c.by \in AIs /\ c.expires <= time

\* removeExpired()
Active == {c \in claims : ~Expired(c)}

Overlapping(file, region) == {c \in Active : c.file = file /\ Overlap(c.region, region)}

Of(cs, participants) == {c \in cs : c.by \in participants}

\* removeClaim(), for several participants
Without(cs, file, participants) == {c \in cs : ~(c.file = file /\ c.by \in participants)}

Granted(cs, file, region, by, expires) ==
  Without(cs, file, {by})
    \cup {[file |-> file, region |-> region, by |-> by, expires |-> expires]}

\* Mistake: every agent in the file makes room.
EvictAllAIs(file, region) == Without(Active, file, AIs)

\* An agent whose claim overlaps loses it, though the person may be denied next.
EvictAIs(file, region) ==
  Without(Active, file, {c.by : c \in Of(Overlapping(file, region), AIs)})

HumanClaims(h, file, region) ==
  LET granted == Of(Overlapping(file, region), Humans) = {}
      rest == EvictAIs(file, region)
  IN /\ claims' = IF granted THEN Granted(rest, file, region, h, Never) ELSE rest
     /\ call' = Asked("claim", file, region, h, granted)
     /\ UNCHANGED time

\* An agent may only replace a claim of its own.
AIClaims(a, file, region, duration) ==
  LET granted == \A c \in Overlapping(file, region) : c.by = a
  IN /\ claims' = IF granted THEN Granted(Active, file, region, a, time + duration) ELSE Active
     /\ call' = Asked("claim", file, region, a, granted)
     /\ UNCHANGED time

Release(p, file) ==
  /\ claims' = Without(claims, file, {p})
  /\ call' = Asked("release", file, NoRegion, p, TRUE)
  /\ UNCHANGED time

ReleaseAll(p) ==
  /\ claims' = {c \in claims : c.by # p}
  /\ call' = Asked("releaseAll", "any", NoRegion, p, TRUE)
  /\ UNCHANGED time

ClearZones ==
  /\ claims' = {}
  /\ call' = Asked("clear", "any", NoRegion, "nobody", TRUE)
  /\ UNCHANGED time

\* A query removes what expired.
Query == claims' = Active /\ call' = NoCall /\ UNCHANGED time

ZoneTick == time < MaxZoneTime /\ time' = time + 1 /\ UNCHANGED <<claims, call>>

ZoneNext ==
  \/ \E h \in Humans, file \in Files, r \in Regions : HumanClaims(h, file, r)
  \/ \E a \in AIs, file \in Files, r \in Regions, d \in Durations : AIClaims(a, file, r, d)
  \/ \E p \in Participants : ReleaseAll(p) \/ \E file \in Files : Release(p, file)
  \/ ClearZones \/ Query \/ ZoneTick

ZoneSpec == ZoneInit /\ [][ZoneNext]_zoneVars

-----------------------------------------------------------------------------
(* Properties.                                                             *)

\* No two participants hold overlapping regions of a file, and nobody holds two
\* regions of one (zone-manager.ts:4, "prevent editing conflicts").
NoOverlap ==
  \A c, d \in claims : c.file = d.file /\ c # d => c.by # d.by /\ ~Overlap(c.region, d.region)

\* Why a claim may be gone after a call.
MayGo(c) ==
  \/ Expired(c)
  \/ call'.op = "clear"
  \/ call'.by = c.by
  \/ /\ c.by \in AIs /\ call'.by \in Humans
     /\ call'.op = "claim" /\ call'.file = c.file /\ Overlap(c.region, call'.region)

\* The key rule (zone-manager.ts:5): a person is only ever denied because of a
\* person, and is rid of every agent there; and no claim goes before its time
\* but by its holder or, that of an agent, by a person who wants the region.
HumansPrevail ==
  [][/\ \A c \in claims \ claims' : MayGo(c)
     /\ call'.op = "claim" /\ call'.by \in Humans =>
          /\ \A c \in claims' : c.file = call'.file /\ c.by # call'.by /\ Overlap(c.region, call'.region)
                                  => c.by \in Humans /\ ~call'.granted
          /\ ~call'.granted => \E c \in claims' : /\ c.file = call'.file /\ c.by \in Humans
                                                  /\ Overlap(c.region, call'.region)]_zoneVars
==============================================================================
