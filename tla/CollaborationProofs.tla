------------------------- MODULE CollaborationProofs -------------------------
(***************************************************************************)
(* Proofs about what the people and agents of a room share: the document   *)
(* and its stored copy, the claims on regions, the limit on what an agent  *)
(* does, the connection of a page, presence, and the messages of workers;  *)
(* each for any participants and any bounds.  The parts share no state, so *)
(* each section is on its own.                                             *)
(***************************************************************************)
EXTENDS YjsPersistence, ZoneManager, AgentRegistry, RoomPage, Presence,
        WorkerMessages, FiniteSetTheorems, SequenceTheorems, TLAPS

-----------------------------------------------------------------------------
(* The shared document: the two sides are the memory cell and the copy of  *)
(* DurableDocument.                                                        *)

\* Between two flushes the stored copy is behind the document, never beside it:
\* that is what lets a flush overwrite it.
StoredIsBehind == open => db \subseteq ydoc

\* The inductive invariant: neither part is inductive without the others.
DocumentInv == DocumentTypeOK /\ UnsavedIsScheduled /\ StoredIsBehind

LEMMA DocumentBegins == DocumentInit => DocumentInv
  BY DEF DocumentInit, DocumentInv, DocumentTypeOK, UnsavedIsScheduled, StoredIsBehind, Serving

LEMMA ProcessKeeps == DocumentInv /\ Process => DocumentInv'
<1> SUFFICES ASSUME DocumentInv, Process PROVE DocumentInv'
  OBVIOUS
<1> USE DEF DocumentInv, DocumentTypeOK, UnsavedIsScheduled, StoredIsBehind, Serving
<1>1. CASE Start
  BY <1>1 DEF Start
<1>2. CASE Adopt
  BY <1>2 DEF Adopt
<1>3. CASE DestroyRoom
  BY <1>3 DEF DestroyRoom
<1>4. CASE Dispose
  BY <1>4 DEF Dispose
<1>5. CASE Exit
  BY <1>5 DEF Exit
<1> QED
  BY <1>1, <1>2, <1>3, <1>4, <1>5 DEF Process

LEMMA SocketsKeep == DocumentInv /\ SocketSteps => DocumentInv'
<1> SUFFICES ASSUME DocumentInv, NEW c \in Clients, Connect(c) \/ Disconnect(c) \/ Forget(c)
             PROVE  DocumentInv'
  BY DEF SocketSteps
<1> USE DEF DocumentInv, DocumentTypeOK, UnsavedIsScheduled, StoredIsBehind, Serving
<1>1. CASE Connect(c)
  BY <1>1 DEF Connect, BindState
<1>2. CASE Disconnect(c)
  <2>1. CASE conns = {c}
    BY <1>2, <2>1 DEF Disconnect, LastOneLeaves, FlushNow
  <2>2. CASE conns # {c}
    BY <1>2, <2>2 DEF Disconnect
  <2> QED
    BY <2>1, <2>2
<1>3. CASE Forget(c)
  BY <1>3 DEF Forget
<1> QED
  BY <1>1, <1>2, <1>3

LEMMA SyncKeeps == DocumentInv /\ Sync => DocumentInv'
<1> SUFFICES ASSUME DocumentInv, NEW c \in Clients, NEW u \in Updates,
                    Upload(c, u) \/ Download(c, u) \/ Edit(c, u)
             PROVE  DocumentInv'
  BY DEF Sync
<1> USE DEF DocumentInv, DocumentTypeOK, UnsavedIsScheduled, StoredIsBehind, Serving
<1>1. CASE Upload(c, u)
  BY <1>1 DEF Upload, ScheduleFlush
<1>2. CASE Download(c, u)
  BY <1>2 DEF Download
<1>3. CASE Edit(c, u)
  BY <1>3 DEF Edit
<1> QED
  BY <1>1, <1>2, <1>3

LEMMA DocumentKeeps == DocumentInv /\ [DocumentNext]_documentVars => DocumentInv'
<1> SUFFICES ASSUME DocumentInv, [DocumentNext]_documentVars PROVE DocumentInv'
  OBVIOUS
<1>1. CASE FlushTimerFires
  BY <1>1
  DEF FlushTimerFires, FlushNow, DocumentInv, DocumentTypeOK, UnsavedIsScheduled, StoredIsBehind,
      Serving
<1>2. CASE UNCHANGED documentVars
  BY <1>2 DEF documentVars, DocumentInv, DocumentTypeOK, UnsavedIsScheduled, StoredIsBehind, Serving
<1> QED
  BY <1>1, <1>2, ProcessKeeps, SocketsKeep, SyncKeeps DEF DocumentNext

LEMMA DocumentAlways == DocumentSpec => []DocumentInv
  BY DocumentBegins, DocumentKeeps, PTL DEF DocumentSpec

\* The type invariant (all of yjs-persistence.ts), for any clients and updates.
THEOREM TypeCorrect == DocumentSpec => []DocumentTypeOK
  BY DocumentAlways, PTL DEF DocumentInv

\* What reached an open document unsaved has a flush pending (yjs-persistence.ts:208-216).
THEOREM NothingStaysUnsaved == DocumentSpec => []UnsavedIsScheduled
  BY DocumentAlways, PTL DEF DocumentInv

-----------------------------------------------------------------------------
(* The refinement: the initial state and every step.                       *)

LEMMA StartsAsCell == DocumentInit => Document!Init
  BY DEF DocumentInit, Document!Init, Serving

LEMMA StepOfCell == DocumentInv /\ [DocumentNext]_documentVars => [Document!Next]_Document!vars
<1> SUFFICES ASSUME DocumentInv, [DocumentNext]_documentVars PROVE [Document!Next]_Document!vars
  OBVIOUS
<1> USE DEF DocumentInv, DocumentTypeOK, StoredIsBehind, Serving, Document!vars
<1>1. CASE Process
  <2>1. CASE Start
    BY <1>1, <2>1 DEF Start, Document!Next, Document!Start
  <2>2. CASE Adopt \/ DestroyRoom
    BY <2>2 DEF Adopt, DestroyRoom
  <2>3. CASE Dispose
    BY <2>3 DEF Dispose, Document!Next, Document!GoDown
  <2>4. CASE Exit
    BY <2>4 DEF Exit, Document!Next, Document!GoDown
  <2> QED
    BY <1>1, <2>1, <2>2, <2>3, <2>4 DEF Process
<1>2. CASE SocketSteps
  <2>1. PICK c \in Clients : Connect(c) \/ Disconnect(c) \/ Forget(c)
    BY <1>2 DEF SocketSteps
  <2>2. CASE Connect(c)
    BY <2>2 DEF Connect, BindState
  <2>3. CASE Disconnect(c)
    <3>1. CASE conns = {c}
      BY <2>3, <3>1 DEF Disconnect, LastOneLeaves, FlushNow, Document!Next, Document!Save
    <3>2. CASE conns # {c}
      BY <2>3, <3>2 DEF Disconnect
    <3> QED
      BY <3>1, <3>2
  <2>4. CASE Forget(c)
    BY <2>4 DEF Forget
  <2> QED
    BY <2>1, <2>2, <2>3, <2>4
<1>3. CASE Sync
  <2>1. PICK c \in Clients, u \in Updates : Upload(c, u) \/ Download(c, u) \/ Edit(c, u)
    BY <1>3 DEF Sync
  <2>2. CASE Upload(c, u)
    BY <2>2 DEF Upload, ScheduleFlush, Document!Next, Document!Write
  <2>3. CASE Download(c, u) \/ Edit(c, u)
    BY <2>3 DEF Download, Edit
  <2> QED
    BY <2>1, <2>2, <2>3
<1>4. CASE FlushTimerFires
  BY <1>4 DEF FlushTimerFires, FlushNow, Document!Next, Document!Save
<1>5. CASE UNCHANGED documentVars
  BY <1>5 DEF documentVars
<1> QED
  BY <1>1, <1>2, <1>3, <1>4, <1>5 DEF DocumentNext

\* The document and its copy are a memory cell that falls back to what was stored
\* when the server goes down, and then alone (yjs-persistence.ts:11-14).
THEOREM DocumentIsDurable == DocumentSpec => ImplementsDurableDocument
<1>1. DocumentInv /\ [DocumentNext]_documentVars => [Document!Next]_Document!vars
  BY StepOfCell
<1> QED
  BY <1>1, StartsAsCell, DocumentAlways, PTL
  DEF DocumentSpec, ImplementsDurableDocument, Document!Spec

-----------------------------------------------------------------------------
(* The claims on regions.                                                  *)

ZoneInv == ZoneTypeOK /\ NoOverlap

\* What is left of claims without overlap has none.
LEMMA FewerClaims ==
  ASSUME ZoneTypeOK, NoOverlap, claims' \subseteq claims
  PROVE  NoOverlap' /\ claims' \subseteq Claims
  BY DEF ZoneTypeOK, NoOverlap

\* A claim that overlaps none of those that stay is granted.
LEMMA OneMoreClaim ==
  ASSUME ZoneTypeOK, NoOverlap,
         NEW rest \in SUBSET claims, NEW file \in Files, NEW region \in Regions,
         NEW p \in Participants, NEW expires \in Nat,
         \A c \in rest : c.file = file /\ Overlap(c.region, region) => c.by = p,
         claims' = Granted(rest, file, region, p, expires)
  PROVE  NoOverlap' /\ claims' \subseteq Claims
<1> DEFINE new == [file |-> file, region |-> region, by |-> p, expires |-> expires]
           kept == Without(rest, file, {p})
<1>1. claims' = kept \cup {new} /\ kept \subseteq claims /\ new \in Claims
  BY DEF Granted, Without, Claims
<1>2. \A c \in kept : c.file = file => c.by # p /\ ~Overlap(c.region, region) /\ ~Overlap(region, c.region)
  BY DEF Without, Overlap
<1>3. new.file = file /\ new.region = region /\ new.by = p
  OBVIOUS
<1> HIDE DEF new, kept
<1>4. NoOverlap'
  <2> SUFFICES ASSUME NEW c \in claims', NEW d \in claims', c.file = d.file, c # d
               PROVE  c.by # d.by /\ ~Overlap(c.region, d.region)
    BY DEF NoOverlap
  <2>1. CASE c \in kept /\ d \in kept
    BY <1>1, <2>1 DEF NoOverlap
  <2>2. CASE c = new \/ d = new
    BY <1>1, <1>2, <1>3, <2>2
  <2> QED
    BY <1>1, <2>1, <2>2
<1> QED
  BY <1>1, <1>4 DEF ZoneTypeOK

\* What the people's and the agents' requests leave, and when they are granted.
LEMMA HumanClaimsKeeps ==
  ASSUME ZoneTypeOK, NoOverlap, NEW h \in Humans, NEW file \in Files, NEW region \in Regions,
         HumanClaims(h, file, region)
  PROVE  NoOverlap' /\ claims' \subseteq Claims
<1> DEFINE rest == EvictAIs(file, region)
           free == Of(Overlapping(file, region), Humans) = {}
<1>1. rest \in SUBSET claims
  BY DEF EvictAIs, Without, Active
<1>2. CASE ~free
  BY <1>1, <1>2, FewerClaims DEF HumanClaims
<1>3. CASE free
  <2>1. ASSUME NEW c \in rest, c.file = file, Overlap(c.region, region)
        PROVE  FALSE
    <3>1. c \in Overlapping(file, region) /\ c.by \in Humans \cup AIs
      BY <2>1 DEF EvictAIs, Without, Overlapping, Active, ZoneTypeOK, Claims, Participants
    <3>2. c.by \notin AIs
      BY <2>1, <3>1 DEF EvictAIs, Without, Of
    <3> QED
      BY <1>3, <3>1, <3>2 DEF Of
  <2>2. claims' = Granted(rest, file, region, h, Never) /\ Never \in Nat /\ h \in Participants
    BY <1>3, ZoneAssumption DEF HumanClaims, Never, Participants
  <2> HIDE DEF rest
  <2> QED
    BY <1>1, <2>1, <2>2, OneMoreClaim
<1> QED
  BY <1>2, <1>3

LEMMA AIClaimsKeeps ==
  ASSUME ZoneTypeOK, NoOverlap, NEW a \in AIs, NEW file \in Files, NEW region \in Regions,
         NEW d \in Durations, AIClaims(a, file, region, d)
  PROVE  NoOverlap' /\ claims' \subseteq Claims
<1>1. Active \in SUBSET claims
  BY DEF Active
<1>2. CASE ~ \A c \in Overlapping(file, region) : c.by = a
  BY <1>1, <1>2, FewerClaims DEF AIClaims
<1>3. CASE \A c \in Overlapping(file, region) : c.by = a
  <2>1. \A c \in Active : c.file = file /\ Overlap(c.region, region) => c.by = a
    BY <1>3 DEF Overlapping
  <2>2. claims' = Granted(Active, file, region, a, time + d)
    BY <1>3 DEF AIClaims
  <2>3. time + d \in Nat /\ a \in Participants
    BY ZoneAssumption DEF ZoneTypeOK, Participants
  <2> QED
    BY <1>1, <2>1, <2>2, <2>3, OneMoreClaim
<1> QED
  BY <1>2, <1>3

LEMMA AskedType ==
  /\ \A h \in Participants, file \in Files, region \in Regions, granted \in BOOLEAN :
       Asked("claim", file, region, h, granted) \in Calls
  /\ \A p \in Participants, file \in Files : Asked("release", file, NoRegion, p, TRUE) \in Calls
  /\ \A p \in Participants : Asked("releaseAll", "any", NoRegion, p, TRUE) \in Calls
  /\ Asked("clear", "any", NoRegion, "nobody", TRUE) \in Calls
  /\ NoCall \in Calls
  BY DEF Asked, Calls, NoCall

LEMMA ZoneKeeps == ZoneInv /\ [ZoneNext]_zoneVars => ZoneInv'
<1> SUFFICES ASSUME ZoneTypeOK, NoOverlap, [ZoneNext]_zoneVars
             PROVE  NoOverlap' /\ claims' \subseteq Claims /\ time' \in 0 .. MaxZoneTime /\ call' \in Calls
  BY DEF ZoneInv, ZoneTypeOK
<1>1. time \in 0 .. MaxZoneTime /\ MaxZoneTime \in Nat /\ call \in Calls /\ claims \subseteq Claims
  BY ZoneAssumption DEF ZoneTypeOK
<1>2. ASSUME NEW h \in Humans, NEW file \in Files, NEW r \in Regions, HumanClaims(h, file, r)
      PROVE  NoOverlap' /\ claims' \subseteq Claims /\ time' = time /\ call' \in Calls
  <2>1. time' = time /\ call' \in Calls
    BY <1>2, AskedType DEF HumanClaims, Participants
  <2> QED
    BY <1>2, <2>1, HumanClaimsKeeps
<1>3. ASSUME NEW a \in AIs, NEW file \in Files, NEW r \in Regions, NEW d \in Durations,
             AIClaims(a, file, r, d)
      PROVE  NoOverlap' /\ claims' \subseteq Claims /\ time' = time /\ call' \in Calls
  <2>1. time' = time /\ call' \in Calls
    BY <1>3, AskedType DEF AIClaims, Participants
  <2> QED
    BY <1>3, <2>1, AIClaimsKeeps
<1>4. ASSUME NEW p \in Participants, ReleaseAll(p) \/ \E file \in Files : Release(p, file)
      PROVE  claims' \subseteq claims /\ time' = time /\ call' \in Calls
  BY <1>4, AskedType DEF ReleaseAll, Release, Without
<1>5. CASE ClearZones
  BY <1>1, <1>5, AskedType, FewerClaims DEF ClearZones
<1>6. CASE Query
  BY <1>1, <1>6, AskedType, FewerClaims DEF Query, Active
<1>7. CASE ZoneTick
  BY <1>1, <1>7, FewerClaims DEF ZoneTick
<1>8. CASE UNCHANGED zoneVars
  BY <1>1, <1>8, FewerClaims DEF zoneVars
<1> QED
  BY <1>1, <1>2, <1>3, <1>4, <1>5, <1>6, <1>7, <1>8, FewerClaims DEF ZoneNext

-----------------------------------------------------------------------------

LEMMA ZonesAlways == ZoneSpec => []ZoneInv
<1>1. ZoneInit => ZoneInv
  BY ZoneAssumption, AskedType DEF ZoneInit, ZoneInv, ZoneTypeOK, NoOverlap
<1> QED
  BY <1>1, ZoneKeeps, PTL DEF ZoneSpec

\* No two claims on a file overlap, and nobody has two on one, for any
\* participants, files, regions and durations (zone-manager.ts, claim).
THEOREM ZonesAreApart == ZoneSpec => [](ZoneTypeOK /\ NoOverlap)
<1>1. ZoneInv => ZoneTypeOK /\ NoOverlap
  BY DEF ZoneInv
<1> QED
  BY <1>1, ZonesAlways, PTL

-----------------------------------------------------------------------------
(* People come first.                                                      *)

\* What the last call of a person left behind; it stays so until the next call.
CallLeft ==
  call.op = "claim" /\ call.by \in Humans =>
    /\ \A c \in claims : c.file = call.file /\ c.by # call.by /\ Overlap(c.region, call.region)
                           => c.by \in Humans /\ ~call.granted
    /\ ~call.granted => \E c \in claims : /\ c.file = call.file /\ c.by \in Humans
                                          /\ Overlap(c.region, call.region)

LEMMA CallFields ==
  ASSUME NEW op, NEW file, NEW region, NEW by, NEW granted
  PROVE  /\ Asked(op, file, region, by, granted).op = op
         /\ Asked(op, file, region, by, granted).file = file
         /\ Asked(op, file, region, by, granted).region = region
         /\ Asked(op, file, region, by, granted).by = by
         /\ Asked(op, file, region, by, granted).granted = granted
  BY DEF Asked

LEMMA HumanPrevails ==
  ASSUME ZoneInv, NEW h \in Humans, NEW file \in Files, NEW region \in Regions,
         HumanClaims(h, file, region)
  PROVE  CallLeft' /\ \A c \in claims \ claims' : MayGo(c)
<1> DEFINE rest == EvictAIs(file, region)
           free == Of(Overlapping(file, region), Humans) = {}
<1>1. /\ call'.op = "claim" /\ call'.file = file /\ call'.region = region /\ call'.by = h
      /\ call'.granted = free
  BY CallFields DEF HumanClaims
<1>2. /\ claims' \subseteq rest \cup {[file |-> file, region |-> region, by |-> h, expires |-> Never]}
      /\ \A c \in rest : c \in claims' \/ c.by = h
  BY DEF HumanClaims, Granted, Without
<1>3. \A c \in rest : c.file = file /\ Overlap(c.region, region) =>
                        c \in Overlapping(file, region) /\ c.by \notin AIs /\ c.by \in Humans
  BY DEF EvictAIs, Without, Overlapping, Of, Active, ZoneInv, ZoneTypeOK, Claims, Participants
<1>4. \A c \in claims' : c.file = file /\ c.by # h /\ Overlap(c.region, region)
                           => c.by \in Humans /\ ~free
  BY <1>2, <1>3 DEF Of
<1>5. ~free => \E c \in claims' : c.file = file /\ c.by \in Humans /\ Overlap(c.region, region)
  <2> SUFFICES ASSUME ~free
               PROVE  \E c \in claims' : c.file = file /\ c.by \in Humans /\ Overlap(c.region, region)
    OBVIOUS
  <2>1. PICK c \in Overlapping(file, region) : c.by \in Humans
    BY DEF Of
  <2>2. c \in rest /\ c.file = file /\ Overlap(c.region, region)
    BY <2>1, ZoneAssumption DEF EvictAIs, Without, Of, Overlapping
  <2>3. claims' = rest
    BY DEF HumanClaims
  <2> QED
    BY <2>1, <2>2, <2>3
<1>6. CallLeft'
  BY <1>1, <1>4, <1>5 DEF CallLeft
<1>7. ASSUME NEW c \in claims, c \notin claims', ~Expired(c), c.by # h
      PROVE  c.by \in AIs /\ c.file = file /\ Overlap(c.region, region)
  <2>1. c \in Active /\ c \notin rest
    BY <1>2, <1>7 DEF Active
  <2>2. c.file = file /\ c.by \in {d.by : d \in Of(Overlapping(file, region), AIs)}
    BY <2>1 DEF EvictAIs, Without
  <2>3. PICK d \in Overlapping(file, region) : d.by \in AIs /\ d.by = c.by
    BY <2>2 DEF Of
  <2>4. d \in claims /\ d.file = file /\ Overlap(d.region, region)
    BY DEF Overlapping, Active
  <2>5. c = d
    BY <2>2, <2>3, <2>4 DEF ZoneInv, NoOverlap
  <2> QED
    BY <2>2, <2>3, <2>4, <2>5
<1> QED
  BY <1>1, <1>6, <1>7 DEF MayGo

\* A person has precedence over every agent and yields to people only, for any
\* participants, files, regions and durations (zone-manager.ts, claim).
THEOREM PeopleComeFirst == ZoneSpec => HumansPrevail
<1> DEFINE Followed == \A c \in claims \ claims' : MayGo(c)
<1>1. ZoneInit => CallLeft
  BY DEF ZoneInit, CallLeft, NoCall, Asked
<1>2. ZoneInv /\ CallLeft /\ [ZoneNext]_zoneVars => CallLeft' /\ Followed
  <2> SUFFICES ASSUME ZoneInv, CallLeft, [ZoneNext]_zoneVars PROVE CallLeft' /\ Followed
    OBVIOUS
  <2>1. ASSUME NEW h \in Humans, NEW file \in Files, NEW r \in Regions, HumanClaims(h, file, r)
        PROVE  CallLeft' /\ Followed
    BY <2>1, HumanPrevails
  <2>2. ASSUME NEW a \in AIs, NEW file \in Files, NEW r \in Regions, NEW d \in Durations,
               AIClaims(a, file, r, d)
        PROVE  CallLeft' /\ Followed
    <3>1. call'.by = a /\ a \notin Humans
      BY <2>2, ZoneAssumption DEF AIClaims, Asked
    <3>2. \A c \in claims \ claims' : Expired(c) \/ c.by = a
      BY <2>2 DEF AIClaims, Active, Granted, Without
    <3> QED
      BY <3>1, <3>2 DEF CallLeft, MayGo
  <2>3. ASSUME NEW p \in Participants, ReleaseAll(p) \/ \E file \in Files : Release(p, file)
        PROVE  CallLeft' /\ Followed
    <3>1. call'.by = p /\ call'.op # "claim"
      BY <2>3 DEF ReleaseAll, Release, Asked
    <3>2. \A c \in claims \ claims' : c.by = p
      BY <2>3 DEF ReleaseAll, Release, Without
    <3> QED
      BY <3>1, <3>2 DEF CallLeft, MayGo
  <2>4. CASE ClearZones
    BY <2>4 DEF ClearZones, CallLeft, MayGo, Asked
  <2>5. CASE Query
    BY <2>5 DEF Query, NoCall, CallLeft, MayGo, Active, Asked
  <2>6. CASE ZoneTick \/ UNCHANGED zoneVars
    BY <2>6 DEF ZoneTick, zoneVars, CallLeft
  <2> QED
    BY <2>1, <2>2, <2>3, <2>4, <2>5, <2>6 DEF ZoneNext
<1>3. CallLeft' /\ Followed =>
        (/\ \A c \in claims \ claims' : MayGo(c)
         /\ call'.op = "claim" /\ call'.by \in Humans =>
              /\ \A c \in claims' : c.file = call'.file /\ c.by # call'.by /\ Overlap(c.region, call'.region)
                                      => c.by \in Humans /\ ~call'.granted
              /\ ~call'.granted => \E c \in claims' : /\ c.file = call'.file /\ c.by \in Humans
                                                      /\ Overlap(c.region, call'.region))
  BY DEF CallLeft
<1> QED
  BY <1>1, <1>2, <1>3, ZonesAlways, PTL DEF ZoneSpec, HumansPrevail

-----------------------------------------------------------------------------
(* The agent registry's limiter.                                           *)

InTurn(times) == \A i, j \in 1 .. Len(times) : i <= j => times[i] <= times[j]

\* d: all that was let through, w: the times kept of it, c: the end of the pause.
OfTimes(d, w, now) ==
  /\ d \in Seq(Nat) /\ w \in Seq(Nat) /\ now \in Nat
  /\ InTurn(d) /\ \A i \in 1 .. Len(d) : d[i] <= now
  /\ Len(w) <= Len(d)
  /\ \A i \in 1 .. Len(w) : w[i] = d[Len(d) - Len(w) + i]
  /\ \A i \in 1 .. Len(d) - Len(w) : d[i] <= now - WindowMs

Spread(d) ==
  \A i, j \in 1 .. Len(d) :
    /\ j = i + MaxOperations => d[j] - d[i] >= WindowMs
    /\ j = i + MaxOperations - 1 /\ d[j] - d[i] < WindowMs =>
         \A k \in j + 1 .. Len(d) : d[k] - d[j] >= CooldownMs

Paused(d, c) ==
  \A i, j \in 1 .. Len(d) :
    j = i + MaxOperations - 1 /\ d[j] - d[i] < WindowMs => d[j] + CooldownMs <= c

WellRated(d, w, c, now) == OfTimes(d, w, now) /\ c \in Nat /\ Spread(d) /\ Paused(d, c)

RateInv ==
  /\ windows \in [AgentIds -> [Actions -> Seq(Nat)]]
  /\ cooldowns \in [AgentIds -> [Actions -> Nat]]
  /\ done \in [AgentIds -> [Actions -> Seq(Nat)]]
  /\ ms \in Nat
  /\ \A g \in AgentIds, a \in Actions :
       WellRated(done[g][a], windows[g][a], cooldowns[g][a], ms)

\* As the times are in order, those that left the window are the first.
LEMMA FirstLeft ==
  ASSUME NEW times \in Seq(Nat), InTurn(times), NEW start \in Int
  PROVE  LET n == Cardinality({i \in DOMAIN times : times[i] <= start}) IN
         /\ n \in 0 .. Len(times) /\ Len(times) \in Nat
         /\ \A i \in 1 .. Len(times) : times[i] <= start <=> i <= n
<1> DEFINE old == {i \in DOMAIN times : times[i] <= start}
<1>1. Len(times) \in Nat /\ DOMAIN times = 1 .. Len(times) /\ \A i \in 1 .. Len(times) : times[i] \in Nat
  OBVIOUS
<1>2. old \subseteq 1 .. Len(times)
  BY <1>1
<1>3. IsFiniteSet(1 .. Len(times)) /\ Cardinality(1 .. Len(times)) = Len(times)
  BY <1>1, FS_Interval
<1>4. IsFiniteSet(old) /\ Cardinality(old) \in Nat /\ Cardinality(old) <= Len(times)
  BY <1>2, <1>3, FS_Subset, FS_CardinalityType
<1>5. ASSUME NEW i \in 1 .. Len(times), i \in old PROVE i <= Cardinality(old)
  <2>1. 1 .. i \subseteq old
    BY <1>1, <1>5 DEF InTurn
  <2>2. Cardinality(1 .. i) = i
    BY <1>1, FS_Interval
  <2> HIDE DEF old
  <2> QED
    BY <1>4, <2>1, <2>2, FS_Subset
<1>6. ASSUME NEW i \in 1 .. Len(times), i \notin old PROVE Cardinality(old) < i
  <2>1. old \subseteq 1 .. (i - 1)
    BY <1>1, <1>6 DEF InTurn
  <2>2. IsFiniteSet(1 .. (i - 1)) /\ Cardinality(1 .. (i - 1)) = i - 1
    <3> DEFINE m == i - 1
    <3>1. m \in Nat
      BY <1>1
    <3> HIDE DEF m
    <3>2. IsFiniteSet(1 .. m) /\ Cardinality(1 .. m) = m
      BY <3>1, FS_Interval
    <3> QED
      BY <3>2 DEF m
  <2> HIDE DEF old
  <2>3. Cardinality(old) <= i - 1
    BY <2>1, <2>2, FS_Subset
  <2> QED
    BY <1>1, <1>4, <2>3
<1>7. \A i \in 1 .. Len(times) : i \in old <=> times[i] <= start
  BY <1>1
<1>8. Cardinality(old) \in 0 .. Len(times)
  BY <1>1, <1>4
<1>9. ASSUME NEW i \in 1 .. Len(times) PROVE times[i] <= start <=> i <= Cardinality(old)
  <2> HIDE DEF old
  <2>1. CASE i \in old
    BY <1>5, <1>7, <2>1
  <2>2. CASE i \notin old
    <3>1. ~ (i <= Cardinality(old))
      BY <1>4, <1>6, <2>2
    <3> QED
      BY <1>7, <2>2, <3>1
  <2> QED
    BY <2>1, <2>2
<1> QED
  BY <1>1, <1>8, <1>9

\* What is kept: the last of the times, all those after the start and no other.
LEMMA KeptTimes ==
  ASSUME NEW times \in Seq(Nat), InTurn(times), NEW start \in Int
  PROVE  LET kept == Kept(times, start)
             n == Len(times) - Len(kept)
         IN /\ kept \in Seq(Nat) /\ Len(kept) \in Nat /\ n \in 0 .. Len(times) /\ Len(times) \in Nat
            /\ \A i \in 1 .. Len(kept) : kept[i] = times[n + i]
            /\ \A i \in 1 .. Len(times) : times[i] <= start <=> i <= n
<1> DEFINE n == Cardinality({i \in DOMAIN times : times[i] <= start})
<1>1. /\ n \in 0 .. Len(times) /\ Len(times) \in Nat
      /\ \A i \in 1 .. Len(times) : times[i] <= start <=> i <= n
  BY FirstLeft
<1>2. Kept(times, start) = SubSeq(times, n + 1, Len(times))
  BY DEF Kept
<1> HIDE DEF n
<1>3. /\ SubSeq(times, n + 1, Len(times)) \in Seq(Nat)
      /\ Len(SubSeq(times, n + 1, Len(times))) = Len(times) - n
      /\ \A i \in 1 .. Len(times) - n : SubSeq(times, n + 1, Len(times))[i] = times[n + i]
  BY <1>1, SubSeqProperties
<1>4. Len(times) - n \in Nat /\ Len(times) - (Len(times) - n) = n
  BY <1>1
<1> QED
  BY <1>1, <1>2, <1>3, <1>4

LEMMA TailInTurn ==
  ASSUME NEW d \in Seq(Nat), NEW w \in Seq(Nat), InTurn(d), Len(w) <= Len(d),
         \A i \in 1 .. Len(w) : w[i] = d[Len(d) - Len(w) + i]
  PROVE  InTurn(w)
<1> SUFFICES ASSUME NEW i \in 1 .. Len(w), NEW j \in 1 .. Len(w), i <= j PROVE w[i] <= w[j]
  BY DEF InTurn
<1> DEFINE n == Len(d) - Len(w)
<1>1. n + i \in 1 .. Len(d) /\ n + j \in 1 .. Len(d) /\ n + i <= n + j
  <2>1. Len(d) \in Nat /\ Len(w) \in Nat
    OBVIOUS
  <2> QED
    BY <2>1
<1> HIDE DEF n
<1>2. d[n + i] <= d[n + j]
  BY <1>1 DEF InTurn
<1> QED
  BY <1>2 DEF n

\* What was let through since the start of the window is among what is kept of it.
LEMMA SinceStart ==
  ASSUME NEW d \in Seq(Nat), NEW w \in Seq(Nat), NEW now \in Nat, OfTimes(d, w, now),
         NEW i \in 1 .. Len(d), d[i] > now - WindowMs
  PROVE  Len(Kept(w, now - WindowMs)) >= Len(d) - i + 1
<1> DEFINE start == now - WindowMs
           kept == Kept(w, start)
           n == Len(w) - Len(kept)
           p == i - (Len(d) - Len(w))
<1>1. start \in Int /\ WindowMs \in Nat
  BY RegistryAssumption
<1>2. /\ Len(d) \in Nat /\ Len(w) \in Nat /\ Len(w) <= Len(d) /\ InTurn(d)
      /\ \A k \in 1 .. Len(w) : w[k] = d[Len(d) - Len(w) + k]
      /\ \A k \in 1 .. Len(d) - Len(w) : d[k] <= start
      /\ \A k \in 1 .. Len(d) : d[k] \in Nat
  BY DEF OfTimes
<1>3. InTurn(w)
  BY <1>2, TailInTurn
<1> HIDE DEF start
<1>4. /\ Len(kept) \in Nat /\ n \in 0 .. Len(w)
      /\ \A k \in 1 .. Len(w) : w[k] <= start <=> k <= n
  BY <1>1, <1>2, <1>3, KeptTimes
<1> HIDE DEF kept
<1>5. d[i] > start
  BY DEF start
<1>6. ~ (i <= Len(d) - Len(w))
  BY <1>1, <1>2, <1>5
<1>7. p \in 1 .. Len(w) /\ Len(d) - Len(w) + p = i
  BY <1>2, <1>6
<1>8. w[p] = d[i]
  BY <1>2, <1>7
<1>9. ~ (w[p] <= start)
  BY <1>1, <1>2, <1>5, <1>8
<1>10. n < p
  <2>1. n \in Int /\ p \in Int /\ p \in 1 .. Len(w)
    BY <1>2, <1>4, <1>7
  <2> HIDE DEF n, p
  <2>2. ~ (p <= n)
    BY <1>4, <1>9, <2>1
  <2> QED
    BY <2>1, <2>2
<1>11. Len(kept) >= Len(d) - i + 1
  BY <1>2, <1>4, <1>7, <1>10
<1> QED
  BY <1>11 DEF kept, start

\* A call that is let through.
LEMMA OneMoreTime ==
  ASSUME NEW d, NEW w, NEW now, OfTimes(d, w, now)
  PROVE  OfTimes(Append(d, now), Append(w, now), now)
<1> DEFINE d1 == Append(d, now)
           w1 == Append(w, now)
<1>1. /\ d \in Seq(Nat) /\ w \in Seq(Nat) /\ now \in Nat
      /\ Len(d) \in Nat /\ Len(w) \in Nat /\ Len(w) <= Len(d)
  BY DEF OfTimes
<1>2. /\ d1 \in Seq(Nat) /\ w1 \in Seq(Nat)
      /\ Len(d1) = Len(d) + 1 /\ Len(w1) = Len(w) + 1
      /\ \A i \in 1 .. Len(d) : d1[i] = d[i] /\ d[i] \in Nat
      /\ \A i \in 1 .. Len(w) : w1[i] = w[i]
      /\ d1[Len(d) + 1] = now /\ w1[Len(w) + 1] = now
  BY <1>1
<1> HIDE DEF d1, w1
<1>3. \A i \in 1 .. Len(d1) : i \in 1 .. Len(d) \/ i = Len(d) + 1
  BY <1>1, <1>2
<1>4. \A i \in 1 .. Len(d1) : d1[i] <= now
  <2>1. \A i \in 1 .. Len(d) : d[i] <= now
    BY DEF OfTimes
  <2>2. now <= now
    BY <1>1
  <2> QED
    BY <1>2, <1>3, <2>1, <2>2
<1>5. InTurn(d1)
  <2> SUFFICES ASSUME NEW i \in 1 .. Len(d1), NEW j \in 1 .. Len(d1), i <= j PROVE d1[i] <= d1[j]
    BY DEF InTurn
  <2>1. CASE j = Len(d) + 1
    BY <1>2, <1>4, <2>1
  <2>2. CASE j \in 1 .. Len(d)
    <3>1. i \in 1 .. Len(d)
      BY <1>1, <1>2, <2>2
    <3>2. d[i] <= d[j]
      BY <2>2, <3>1 DEF OfTimes, InTurn
    <3> QED
      BY <1>2, <2>2, <3>1, <3>2
  <2> QED
    BY <1>3, <2>1, <2>2
<1>6. Len(d1) - Len(w1) = Len(d) - Len(w) /\ Len(w1) <= Len(d1)
  BY <1>1, <1>2
<1>7. ASSUME NEW i \in 1 .. Len(w1) PROVE w1[i] = d1[Len(d1) - Len(w1) + i]
  <2>1. CASE i = Len(w) + 1
    BY <1>1, <1>2, <2>1
  <2>2. CASE i \in 1 .. Len(w)
    <3>1. Len(d) - Len(w) + i \in 1 .. Len(d)
      BY <1>1, <2>2
    <3>2. w[i] = d[Len(d) - Len(w) + i]
      BY <2>2 DEF OfTimes
    <3> QED
      BY <1>2, <1>6, <2>2, <3>1, <3>2
  <2> QED
    BY <1>1, <1>2, <2>1, <2>2
<1>8. \A i \in 1 .. Len(d1) - Len(w1) : d1[i] <= now - WindowMs
  <2>1. \A i \in 1 .. Len(d) - Len(w) : i \in 1 .. Len(d)
    BY <1>1
  <2> QED
    BY <1>2, <1>6, <2>1 DEF OfTimes
<1>9. OfTimes(d1, w1, now)
  BY <1>1, <1>2, <1>4, <1>5, <1>6, <1>7, <1>8 DEF OfTimes
<1> QED
  BY <1>9 DEF d1, w1

\* Forgetting what left the window forgets nothing that counts.
LEMMA KeptIsOfTimes ==
  ASSUME NEW d, NEW w, NEW now, OfTimes(d, w, now)
  PROVE  OfTimes(d, Kept(w, now - WindowMs), now)
<1> DEFINE start == now - WindowMs
           kept == Kept(w, start)
           n == Len(w) - Len(kept)
<1>1. /\ d \in Seq(Nat) /\ w \in Seq(Nat) /\ now \in Nat /\ InTurn(d)
      /\ Len(d) \in Nat /\ Len(w) \in Nat /\ Len(w) <= Len(d)
      /\ \A k \in 1 .. Len(w) : w[k] = d[Len(d) - Len(w) + k]
      /\ \A k \in 1 .. Len(d) - Len(w) : d[k] <= start
      /\ \A k \in 1 .. Len(d) : d[k] <= now
  BY DEF OfTimes
<1>2. start \in Int
  BY <1>1, RegistryAssumption
<1> HIDE DEF start
<1>3. InTurn(w)
  BY <1>1, TailInTurn
<1>4. /\ kept \in Seq(Nat) /\ Len(kept) \in Nat /\ n \in 0 .. Len(w)
      /\ \A k \in 1 .. Len(kept) : kept[k] = w[n + k]
      /\ \A k \in 1 .. Len(w) : w[k] <= start <=> k <= n
  BY <1>1, <1>2, <1>3, KeptTimes
<1> HIDE DEF kept
<1>5. Len(kept) <= Len(d) /\ Len(d) - Len(kept) = Len(d) - Len(w) + n
  BY <1>1, <1>4
<1>6. ASSUME NEW k \in 1 .. Len(kept) PROVE kept[k] = d[Len(d) - Len(kept) + k]
  <2>1. n + k \in 1 .. Len(w) /\ Len(d) - Len(w) + (n + k) = Len(d) - Len(kept) + k
    BY <1>1, <1>4, <1>5
  <2> QED
    BY <1>1, <1>4, <2>1
<1>7. ASSUME NEW k \in 1 .. Len(d) - Len(kept) PROVE d[k] <= start
  <2>1. CASE k <= Len(d) - Len(w)
    BY <1>1, <1>4, <2>1
  <2>2. CASE k > Len(d) - Len(w)
    <3> DEFINE p == k - (Len(d) - Len(w))
    <3>1. p \in 1 .. Len(w) /\ p <= n /\ Len(d) - Len(w) + p = k
      BY <1>1, <1>4, <1>5, <2>2
    <3> HIDE DEF p
    <3>2. w[p] <= start /\ w[p] = d[Len(d) - Len(w) + p]
      BY <1>1, <1>4, <3>1
    <3> QED
      BY <3>1, <3>2
  <2> QED
    BY <1>1, <1>4, <2>1, <2>2
<1>8. OfTimes(d, kept, now)
  BY <1>1, <1>4, <1>5, <1>6, <1>7 DEF OfTimes, start
<1> QED
  BY <1>8 DEF kept, start

\* The limit on every window and the pause after a full one, kept by a call that is
\* let through after the pause and with room in the window.
LEMMA ConsumeIsRated ==
  ASSUME NEW d, NEW w, NEW c, NEW now, WellRated(d, w, c, now), c <= now,
         Len(Kept(w, now - WindowMs)) < MaxOperations
  PROVE  LET active == Kept(Append(w, now), now - WindowMs) IN
         WellRated(Append(d, now), active,
                   IF Len(active) >= MaxOperations THEN now + CooldownMs ELSE c, now)
<1> DEFINE d1 == Append(d, now)
           w1 == Append(w, now)
           active == Kept(w1, now - WindowMs)
           c1 == IF Len(active) >= MaxOperations THEN now + CooldownMs ELSE c
           n == Len(d)
<1>1. /\ d \in Seq(Nat) /\ w \in Seq(Nat) /\ now \in Nat /\ c \in Nat /\ n \in Nat
      /\ OfTimes(d, w, now) /\ \A i \in 1 .. n : d[i] <= now /\ d[i] \in Nat
  BY DEF WellRated, OfTimes
<1>2. MaxOperations \in Nat \ {0} /\ WindowMs \in Nat \ {0} /\ CooldownMs \in Nat
  BY RegistryAssumption
<1>3. /\ d1 \in Seq(Nat) /\ w1 \in Seq(Nat) /\ Len(d1) = n + 1
      /\ \A i \in 1 .. n : d1[i] = d[i]
      /\ d1[n + 1] = now
  BY <1>1
<1>4. OfTimes(d1, w1, now)
  BY <1>1, OneMoreTime
<1>5. OfTimes(d1, active, now)
  BY <1>4, KeptIsOfTimes
<1>6. ASSUME NEW i \in 1 .. n, d[i] > now - WindowMs PROVE n - i + 1 < MaxOperations
  <2>1. Len(Kept(w, now - WindowMs)) >= n - i + 1
    BY <1>1, <1>6, SinceStart
  <2>2. Len(Kept(w, now - WindowMs)) \in Nat
    <3>1. OfTimes(d, Kept(w, now - WindowMs), now)
      BY <1>1, KeptIsOfTimes
    <3> QED
      BY <3>1 DEF OfTimes
  <2> QED
    BY <1>1, <1>2, <2>1, <2>2
<1>7. ASSUME NEW i \in 1 .. n + 1, d1[i] > now - WindowMs, i + MaxOperations <= n + 2
      PROVE  Len(active) >= MaxOperations
  <2> HIDE DEF d1, w1
  <2>1. Len(active) >= Len(d1) - i + 1
    BY <1>1, <1>3, <1>4, <1>7, SinceStart
  <2>2. Len(active) \in Nat
    BY <1>5 DEF OfTimes
  <2> HIDE DEF active
  <2> QED
    BY <1>1, <1>2, <1>3, <1>7, <2>1, <2>2
<1>8. c1 \in Nat /\ c <= c1 /\ (c1 = c \/ c1 = now + CooldownMs)
  BY <1>1, <1>2
<1>9. Len(active) >= MaxOperations => c1 = now + CooldownMs
  OBVIOUS
<1> HIDE DEF d1, w1, active, c1, n
<1>10. \A i \in 1 .. n + 1 : i \in 1 .. n \/ i = n + 1
  BY <1>1
<1>11. Spread(d) /\ Paused(d, c)
  BY DEF WellRated
<1>12. ASSUME NEW i \in 1 .. n + 1, NEW j \in 1 .. n + 1, j = i + MaxOperations
       PROVE  d1[j] - d1[i] >= WindowMs
  <2>1. CASE j = n + 1
    <3>1. i \in 1 .. n
      BY <1>1, <1>2, <1>12, <2>1
    <3>2. ~ (n - i + 1 < MaxOperations)
      BY <1>1, <1>2, <1>12, <2>1
    <3>3. ~ (d[i] > now - WindowMs)
      BY <1>6, <3>1, <3>2
    <3>4. d1[j] = now /\ d1[i] = d[i] /\ d[i] \in Nat
      BY <1>1, <1>3, <2>1, <3>1
    <3> QED
      BY <1>1, <1>2, <3>3, <3>4
  <2>2. CASE j \in 1 .. n
    <3>1. i \in 1 .. n
      BY <1>1, <1>2, <1>12, <2>2
    <3>2. d[j] - d[i] >= WindowMs
      BY <1>11, <1>12, <2>2, <3>1 DEF Spread, n
    <3> QED
      BY <1>3, <2>2, <3>1, <3>2
  <2> QED
    BY <1>10, <2>1, <2>2
<1>13. ASSUME NEW i \in 1 .. n + 1, NEW j \in 1 .. n + 1,
              j = i + MaxOperations - 1, d1[j] - d1[i] < WindowMs
       PROVE  /\ d1[j] + CooldownMs <= c1
              /\ \A k \in j + 1 .. n + 1 : d1[k] - d1[j] >= CooldownMs
  <2>1. CASE j = n + 1
    <3>1. d1[j] = now
      BY <1>3, <2>1
    <3>2. d1[i] \in Nat
      BY <1>1, <1>3, <1>10
    <3>3. d1[i] > now - WindowMs /\ i + MaxOperations <= n + 2
      BY <1>1, <1>2, <1>13, <2>1, <3>1, <3>2
    <3>4. c1 = now + CooldownMs
      BY <1>7, <1>9, <3>3
    <3>5. j + 1 .. n + 1 = {}
      BY <1>1, <2>1
    <3>6. now + CooldownMs \in Nat
      BY <1>1, <1>2
    <3>7. d1[j] + CooldownMs <= c1
      BY <3>1, <3>4, <3>6
    <3> QED
      BY <3>5, <3>7
  <2>2. CASE j \in 1 .. n
    <3>1. i \in 1 .. n
      BY <1>1, <1>2, <1>13, <2>2
    <3>2. d1[i] = d[i] /\ d1[j] = d[j] /\ d[i] \in Nat /\ d[j] \in Nat /\ d[j] <= now
      BY <1>1, <1>3, <2>2, <3>1
    <3>3. d[j] - d[i] < WindowMs
      BY <1>13, <3>2
    <3>4. d[j] + CooldownMs <= c
      BY <1>11, <1>13, <2>2, <3>1, <3>3 DEF Paused, n
    <3>5. \A k \in j + 1 .. n : d[k] - d[j] >= CooldownMs
      BY <1>11, <1>13, <2>2, <3>1, <3>3 DEF Spread, n
    <3>6. d[j] + CooldownMs <= c1
      BY <1>1, <1>2, <1>8, <3>2, <3>4
    <3>7. now - d[j] >= CooldownMs
      BY <1>1, <1>2, <3>2, <3>4
    <3>8. ASSUME NEW k \in j + 1 .. n + 1 PROVE d1[k] - d1[j] >= CooldownMs
      <4>1. CASE k = n + 1
        BY <1>3, <3>2, <3>7, <4>1
      <4>2. CASE k # n + 1
        <5>1. k \in j + 1 .. n /\ k \in 1 .. n
          BY <1>1, <2>2, <4>2
        <5> QED
          BY <1>3, <3>2, <3>5, <5>1
      <4> QED
        BY <4>1, <4>2
    <3> QED
      BY <3>2, <3>6, <3>8
  <2> QED
    BY <1>10, <2>1, <2>2
<1>14. Spread(d1)
  BY <1>3, <1>12, <1>13 DEF Spread
<1>15. Paused(d1, c1)
  BY <1>3, <1>13 DEF Paused
<1>16. WellRated(d1, active, c1, now)
  BY <1>5, <1>8, <1>14, <1>15 DEF WellRated
<1> QED
  BY <1>16 DEF d1, w1, active, c1

\* Nothing was let through yet, and time passes.
LEMMA NothingIsRated ==
  ASSUME NEW now \in Nat PROVE WellRated(<<>>, <<>>, 0, now)
<1>1. OfTimes(<<>>, <<>>, now)
  BY DEF OfTimes, InTurn
<1>2. Spread(<<>>) /\ Paused(<<>>, 0)
  BY DEF Spread, Paused
<1> QED
  BY <1>1, <1>2 DEF WellRated

LEMMA LaterIsRated ==
  ASSUME NEW d, NEW w, NEW c, NEW now, WellRated(d, w, c, now)
  PROVE  WellRated(d, w, c, now + 1)
<1>1. OfTimes(d, w, now) /\ now \in Nat /\ WindowMs \in Nat
  BY RegistryAssumption DEF WellRated, OfTimes
<1>2. d \in Seq(Nat) /\ w \in Seq(Nat) /\ Len(d) \in Nat /\ Len(w) \in Nat
      /\ \A i \in 1 .. Len(d) : d[i] \in Nat
      /\ Len(w) <= Len(d)
  BY <1>1 DEF OfTimes
<1>3. \A i \in 1 .. Len(d) : d[i] <= now + 1
  BY <1>1, <1>2 DEF OfTimes
<1>4. \A i \in 1 .. Len(d) - Len(w) : i \in 1 .. Len(d)
  BY <1>2
<1>5. \A i \in 1 .. Len(d) - Len(w) : d[i] <= now + 1 - WindowMs
  BY <1>1, <1>2, <1>4 DEF OfTimes
<1>6. OfTimes(d, w, now + 1)
  BY <1>1, <1>2, <1>3, <1>5 DEF OfTimes
<1> QED
  BY <1>6 DEF WellRated

LEMMA RateBegins == AgentInit => RateInv
<1> SUFFICES ASSUME AgentInit PROVE RateInv
  OBVIOUS
<1>1. /\ windows = [g \in AgentIds |-> Idle] /\ cooldowns = [g \in AgentIds |-> Warm]
      /\ done = [g \in AgentIds |-> Idle] /\ ms = 0
  BY DEF AgentInit
<1>2. Idle \in [Actions -> Seq(Nat)] /\ Warm \in [Actions -> Nat]
  BY DEF Idle, Warm
<1>3. /\ windows \in [AgentIds -> [Actions -> Seq(Nat)]]
      /\ cooldowns \in [AgentIds -> [Actions -> Nat]]
      /\ done \in [AgentIds -> [Actions -> Seq(Nat)]]
      /\ ms \in Nat
  BY <1>1, <1>2
<1>4. ASSUME NEW g \in AgentIds, NEW a \in Actions
      PROVE  WellRated(done[g][a], windows[g][a], cooldowns[g][a], ms)
  <2>1. done[g][a] = <<>> /\ windows[g][a] = <<>> /\ cooldowns[g][a] = 0
    BY <1>1 DEF Idle, Warm
  <2> QED
    BY <1>3, <2>1, NothingIsRated
<1> QED
  BY <1>3, <1>4 DEF RateInv

LEMMA RateKeeps == RateInv /\ [AgentNext]_agentVars => RateInv'
<1> SUFFICES ASSUME RateInv, [AgentNext]_agentVars PROVE RateInv'
  OBVIOUS
<1>1. /\ windows \in [AgentIds -> [Actions -> Seq(Nat)]]
      /\ cooldowns \in [AgentIds -> [Actions -> Nat]]
      /\ done \in [AgentIds -> [Actions -> Seq(Nat)]]
      /\ ms \in Nat
  BY DEF RateInv
<1>2. \A g \in AgentIds, a \in Actions :
        WellRated(done[g][a], windows[g][a], cooldowns[g][a], ms)
  BY DEF RateInv
<1>3. Idle \in [Actions -> Seq(Nat)] /\ Warm \in [Actions -> Nat]
      /\ \A a \in Actions : Idle[a] = <<>> /\ Warm[a] = 0
  BY DEF Idle, Warm
<1>4. CASE UNCHANGED <<windows, cooldowns, ms, done>>
  BY <1>1, <1>2, <1>4 DEF RateInv
<1>5. ASSUME NEW g \in AgentIds, Unregister(g) PROVE RateInv'
  <2>1. /\ windows' = [windows EXCEPT ![g] = Idle] /\ cooldowns' = [cooldowns EXCEPT ![g] = Warm]
        /\ done' = [done EXCEPT ![g] = Idle] /\ ms' = ms
    BY <1>5 DEF Unregister
  <2>2. /\ windows' \in [AgentIds -> [Actions -> Seq(Nat)]]
        /\ cooldowns' \in [AgentIds -> [Actions -> Nat]]
        /\ done' \in [AgentIds -> [Actions -> Seq(Nat)]]
    BY <1>1, <1>3, <2>1
  <2>3. ASSUME NEW h \in AgentIds, NEW a \in Actions
        PROVE  WellRated(done'[h][a], windows'[h][a], cooldowns'[h][a], ms')
    <3>1. CASE h = g
      <4>1. done'[h][a] = <<>> /\ windows'[h][a] = <<>> /\ cooldowns'[h][a] = 0
        BY <1>1, <1>3, <2>1, <3>1
      <4> QED
        BY <1>1, <2>1, <4>1, NothingIsRated
    <3>2. CASE h # g
      <4>1. done'[h] = done[h] /\ windows'[h] = windows[h] /\ cooldowns'[h] = cooldowns[h]
        BY <1>1, <2>1, <3>2
      <4> QED
        BY <1>2, <2>1, <4>1
    <3> QED
      BY <3>1, <3>2
  <2> QED
    BY <1>1, <2>1, <2>2, <2>3 DEF RateInv
<1>6. CASE ClearRegistry
  <2>1. /\ windows' = [g \in AgentIds |-> Idle] /\ cooldowns' = [g \in AgentIds |-> Warm]
        /\ done' = [g \in AgentIds |-> Idle] /\ ms' = ms
    BY <1>6 DEF ClearRegistry
  <2>2. /\ windows' \in [AgentIds -> [Actions -> Seq(Nat)]]
        /\ cooldowns' \in [AgentIds -> [Actions -> Nat]]
        /\ done' \in [AgentIds -> [Actions -> Seq(Nat)]]
    BY <1>3, <2>1
  <2>3. ASSUME NEW h \in AgentIds, NEW a \in Actions
        PROVE  WellRated(done'[h][a], windows'[h][a], cooldowns'[h][a], ms')
    <3>1. done'[h][a] = <<>> /\ windows'[h][a] = <<>> /\ cooldowns'[h][a] = 0
      BY <1>3, <2>1
    <3> QED
      BY <1>1, <2>1, <3>1, NothingIsRated
  <2> QED
    BY <1>1, <2>1, <2>2, <2>3 DEF RateInv
<1>7. ASSUME NEW g \in AgentIds, NEW a \in Actions, Consume(g, a) PROVE RateInv'
  <2> DEFINE d == done[g][a]
             w == windows[g][a]
             c == cooldowns[g][a]
             active == Kept(Append(w, ms), ms - WindowMs)
             c1 == IF Len(active) >= MaxOperations THEN ms + CooldownMs ELSE c
  <2>1. /\ windows' = [windows EXCEPT ![g][a] = active]
        /\ cooldowns' = IF Len(active) >= MaxOperations
                          THEN [cooldowns EXCEPT ![g][a] = ms + CooldownMs] ELSE cooldowns
        /\ done' = [done EXCEPT ![g][a] = Append(@, ms)]
        /\ ms' = ms
    BY <1>7 DEF Consume, InWindow
  <2>2. WellRated(d, w, c, ms) /\ c \in Nat /\ w \in Seq(Nat) /\ d \in Seq(Nat)
    BY <1>1, <1>2
  <2>3. c <= ms /\ Len(Kept(w, ms - WindowMs)) < MaxOperations
    <3>1. ~ (ms < c) /\ ~ (Len(Kept(w, ms - WindowMs)) >= MaxOperations)
      BY <1>7 DEF Consume, Limited, InWindow
    <3>2. OfTimes(d, Kept(w, ms - WindowMs), ms)
      BY <2>2, KeptIsOfTimes DEF WellRated
    <3>3. Len(Kept(w, ms - WindowMs)) \in Nat
      BY <3>2 DEF OfTimes
    <3> QED
      BY <1>1, <2>2, <3>1, <3>3, RegistryAssumption
  <2>4. WellRated(Append(d, ms), active, c1, ms)
    BY <2>2, <2>3, ConsumeIsRated
  <2>5. active \in Seq(Nat) /\ c1 \in Nat /\ Append(d, ms) \in Seq(Nat)
    BY <2>4 DEF WellRated, OfTimes
  <2>6. cooldowns' = [cooldowns EXCEPT ![g][a] = c1]
    <3>1. CASE Len(active) >= MaxOperations
      BY <2>1, <3>1
    <3>2. CASE ~ (Len(active) >= MaxOperations)
      BY <1>1, <2>1, <3>2
    <3> QED
      BY <3>1, <3>2
  <2>7. done' = [done EXCEPT ![g][a] = Append(d, ms)]
    BY <2>1
  <2> HIDE DEF active, c1
  <2>8. /\ windows' \in [AgentIds -> [Actions -> Seq(Nat)]]
        /\ cooldowns' \in [AgentIds -> [Actions -> Nat]]
        /\ done' \in [AgentIds -> [Actions -> Seq(Nat)]]
    BY <1>1, <2>1, <2>5, <2>6, <2>7
  <2>9. ASSUME NEW h \in AgentIds, NEW b \in Actions
        PROVE  WellRated(done'[h][b], windows'[h][b], cooldowns'[h][b], ms')
    <3>1. CASE h = g /\ b = a
      <4>1. done'[h][b] = Append(d, ms) /\ windows'[h][b] = active /\ cooldowns'[h][b] = c1
        BY <1>1, <2>1, <2>6, <2>7, <3>1
      <4> QED
        BY <2>1, <2>4, <4>1
    <3>2. CASE ~ (h = g /\ b = a)
      <4>1. done'[h][b] = done[h][b] /\ windows'[h][b] = windows[h][b]
            /\ cooldowns'[h][b] = cooldowns[h][b]
        BY <1>1, <2>1, <2>6, <2>7, <3>2
      <4> QED
        BY <1>2, <2>1, <4>1
    <3> QED
      BY <3>1, <3>2
  <2> QED
    BY <1>1, <2>1, <2>8, <2>9 DEF RateInv
<1>8. CASE ClockTick
  <2>1. ms' = ms + 1 /\ windows' = windows /\ cooldowns' = cooldowns /\ done' = done
    BY <1>8 DEF ClockTick
  <2>2. \A g \in AgentIds, a \in Actions :
          WellRated(done'[g][a], windows'[g][a], cooldowns'[g][a], ms')
    BY <1>2, <2>1, LaterIsRated
  <2> QED
    BY <1>1, <2>1, <2>2 DEF RateInv
<1> QED
  BY <1>4, <1>5, <1>6, <1>7, <1>8
  DEF AgentNext, agentVars, Register, SetStatus, Touch, MarkStaleAsError

\* For every limit, window and pause, and however the calls are spread: no window,
\* wherever it begins, lets more than MaxOperations through, and a full one is
\* followed by the whole pause (rate-limiter.ts).
THEOREM RateIsKept == AgentSpec => []WithinRate
<1>1. RateInv => WithinRate
  BY DEF RateInv, WellRated, Spread, WithinRate
<1> QED
  BY <1>1, RateBegins, RateKeeps, PTL DEF AgentSpec

\* The types of the registry and of the limiter's records.  Nobody is registered
\* under the record that stands for nobody.
AgentInv == AgentTypeOK /\ IsFiniteSet(Registered)
            /\ \A g \in Registered : agents[g].status \in Statuses

\* What is left of a sequence without its first a elements.
LEMMA RestLength ==
  ASSUME NEW s \in Seq(Nat), NEW a \in 0 .. Len(s)
  PROVE  Len(SubSeq(s, a + 1, Len(s))) = Len(s) - a
<1>1. Len(s) \in Nat /\ a \in Nat /\ a <= Len(s)
  OBVIOUS
<1>2. \A i \in a + 1 .. Len(s) : s[i] \in Nat
  BY <1>1
<1>3. Len(SubSeq(s, a + 1, Len(s))) = IF a + 1 <= Len(s) THEN Len(s) - (a + 1) + 1 ELSE 0
  BY <1>1, <1>2, SubSeqProperties
<1> DEFINE n == Len(s)
<1> HIDE DEF n
<1>4. n \in Nat /\ a \in Nat /\ a <= n
  BY <1>1 DEF n
<1>5. (IF a + 1 <= n THEN n - (a + 1) + 1 ELSE 0) = n - a
  BY <1>4
<1> QED
  BY <1>3, <1>5 DEF n

\* A call that is let through adds one to what is kept, if not less.
LEMMA KeptGrowsByOne ==
  ASSUME NEW w \in Seq(0 .. MaxClock), NEW now \in 0 .. MaxClock, InTurn(w), InTurn(Append(w, now))
  PROVE  /\ Len(Kept(Append(w, now), now - WindowMs)) <= Len(Kept(w, now - WindowMs)) + 1
         /\ Kept(Append(w, now), now - WindowMs) \in Seq(0 .. MaxClock)
<1> DEFINE start == now - WindowMs
           w1 == Append(w, now)
           left(s) == Cardinality({i \in DOMAIN s : s[i] <= start})
<1>1. start \in Int
  BY RegistryAssumption
<1> HIDE DEF start
<1>2. /\ w \in Seq(Nat) /\ w1 \in Seq(Nat) /\ w1 \in Seq(0 .. MaxClock) /\ Len(w1) = Len(w) + 1
      /\ \A i \in 1 .. Len(w) : w1[i] = w[i]
      /\ \A i \in 1 .. Len(w1) : w1[i] \in 0 .. MaxClock
      /\ Len(w) \in Nat
  <2>1. MaxClock \in Nat /\ now \in Nat
    BY RegistryAssumption
  <2>2. w \in Seq(Nat)
    BY <2>1
  <2> QED
    BY <2>1, <2>2
<1>3. /\ left(w) \in 0 .. Len(w) /\ \A i \in 1 .. Len(w) : w[i] <= start <=> i <= left(w)
  BY <1>1, <1>2, FirstLeft
<1> HIDE DEF w1
<1>4. InTurn(w1)
  BY DEF w1
<1>5. /\ left(w1) \in 0 .. Len(w1) /\ \A i \in 1 .. Len(w1) : w1[i] <= start <=> i <= left(w1)
  BY <1>1, <1>2, <1>4, FirstLeft
<1>6. Kept(w, start) = SubSeq(w, left(w) + 1, Len(w)) /\ Kept(w1, start) = SubSeq(w1, left(w1) + 1, Len(w1))
  BY DEF Kept
<1> HIDE DEF left
<1>7. left(w) <= left(w1)
  <2>1. CASE left(w) = 0
    BY <1>2, <1>5, <2>1
  <2>2. CASE left(w) # 0
    <3>1. left(w) \in 1 .. Len(w) /\ left(w) \in 1 .. Len(w1)
      BY <1>2, <1>3, <2>2
    <3>2. left(w) <= left(w)
      BY <1>3
    <3>3. w[left(w)] <= start
      BY <1>3, <3>1, <3>2
    <3>4. w1[left(w)] <= start
      BY <1>2, <3>1, <3>3
    <3> QED
      BY <1>5, <3>1, <3>4
  <2> QED
    BY <2>1, <2>2
<1>8. Len(Kept(w, start)) = Len(w) - left(w) /\ Len(Kept(w1, start)) = Len(w1) - left(w1)
  <2>1. Len(SubSeq(w, left(w) + 1, Len(w))) = Len(w) - left(w)
    BY <1>2, <1>3, RestLength
  <2>2. Len(SubSeq(w1, left(w1) + 1, Len(w1))) = Len(w1) - left(w1)
    BY <1>2, <1>5, RestLength
  <2> QED
    BY <1>6, <2>1, <2>2, Zenon
<1>9. Kept(w1, start) \in Seq(0 .. MaxClock)
  <2>1. left(w1) + 1 \in Int /\ Len(w1) \in Int
        /\ \A i \in left(w1) + 1 .. Len(w1) : w1[i] \in 0 .. MaxClock
    BY <1>2, <1>5
  <2> QED
    BY <1>6, <2>1, SubSeqProperties
<1>10. Len(Kept(w1, start)) <= Len(Kept(w, start)) + 1
  BY <1>2, <1>3, <1>5, <1>7, <1>8
<1> QED
  BY <1>9, <1>10 DEF start, w1

LEMMA AgentBegins == AgentInit => AgentInv
<1> SUFFICES ASSUME AgentInit PROVE AgentInv
  OBVIOUS
<1>1. /\ agents = [g \in AgentIds |-> Absent] /\ windows = [g \in AgentIds |-> Idle]
      /\ cooldowns = [g \in AgentIds |-> Warm] /\ done = [g \in AgentIds |-> Idle] /\ ms = 0
  BY DEF AgentInit
<1>2. /\ 0 \in 0 .. MaxClock /\ 0 \in 0 .. MaxClock + CooldownMs
      /\ MaxAgents \in Nat /\ MaxOperations \in Nat
  BY RegistryAssumption
<1>3. /\ Idle \in [Actions -> Seq(0 .. MaxClock)] /\ Warm \in [Actions -> 0 .. MaxClock + CooldownMs]
      /\ Absent \in [status : Statuses \cup {"absent"}, lastActivity : 0 .. MaxClock]
      /\ \A a \in Actions : Len(Idle[a]) = 0
  BY <1>2 DEF Idle, Warm, Absent
<1>4. Registered = {} /\ Cardinality({}) = 0 /\ IsFiniteSet({})
  BY <1>1, FS_EmptySet DEF Registered
<1>5. \A g \in AgentIds, a \in Actions : Len(windows[g][a]) <= MaxOperations
  BY <1>1, <1>2, <1>3
<1>6. AgentTypeOK
  BY <1>1, <1>2, <1>3, <1>4, <1>5 DEF AgentTypeOK
<1> QED
  BY <1>4, <1>6 DEF AgentInv

\* The steps of the registry: somebody comes, goes, or is seen.
LEMMA RegistryKeeps ==
  ASSUME AgentInv,
         \/ MarkStaleAsError \/ ClearRegistry
         \/ \E g \in AgentIds : \/ Register(g) \/ Unregister(g) \/ Touch(g)
                                \/ \E status \in Statuses : SetStatus(g, status)
  PROVE  AgentInv'
<1> DEFINE Records == [status : Statuses \cup {"absent"}, lastActivity : 0 .. MaxClock]
<1>1. /\ agents \in [AgentIds -> Records] /\ ms \in 0 .. MaxClock
      /\ windows \in [AgentIds -> [Actions -> Seq(0 .. MaxClock)]]
      /\ cooldowns \in [AgentIds -> [Actions -> 0 .. MaxClock + CooldownMs]]
      /\ done \in [AgentIds -> [Actions -> Seq(0 .. MaxClock)]]
      /\ \A g \in AgentIds, a \in Actions : Len(windows[g][a]) <= MaxOperations
  BY DEF AgentInv, AgentTypeOK
<1>2. /\ IsFiniteSet(Registered) /\ Cardinality(Registered) <= MaxAgents
      /\ \A g \in Registered : agents[g].status \in Statuses
  BY DEF AgentInv, AgentTypeOK
<1>3. MaxAgents \in Nat /\ MaxOperations \in Nat /\ 0 \in 0 .. MaxClock /\ 0 \in 0 .. MaxClock + CooldownMs
  BY RegistryAssumption
<1>4. /\ Idle \in [Actions -> Seq(0 .. MaxClock)] /\ Warm \in [Actions -> 0 .. MaxClock + CooldownMs]
      /\ Absent \in Records /\ \A a \in Actions : Len(Idle[a]) = 0
  BY <1>3 DEF Idle, Warm, Absent
<1>5. \A s \in Statuses : Record(s) \in Records /\ Record(s) # Absent /\ Record(s).status = s
  BY <1>1 DEF Record, Absent, Statuses
\* The limiter forgets nobody, or those who went.
<1>6. ms' = ms /\ \/ UNCHANGED <<windows, cooldowns, done>>
                  \/ \E g \in AgentIds : /\ windows' = [windows EXCEPT ![g] = Idle]
                                         /\ cooldowns' = [cooldowns EXCEPT ![g] = Warm]
                                         /\ done' = [done EXCEPT ![g] = Idle]
                  \/ /\ windows' = [g \in AgentIds |-> Idle]
                     /\ cooldowns' = [g \in AgentIds |-> Warm]
                     /\ done' = [g \in AgentIds |-> Idle]
  BY DEF MarkStaleAsError, ClearRegistry, Register, Unregister, Touch, SetStatus
<1>7. /\ windows' \in [AgentIds -> [Actions -> Seq(0 .. MaxClock)]]
      /\ cooldowns' \in [AgentIds -> [Actions -> 0 .. MaxClock + CooldownMs]]
      /\ done' \in [AgentIds -> [Actions -> Seq(0 .. MaxClock)]]
      /\ \A g \in AgentIds, a \in Actions : Len(windows'[g][a]) <= MaxOperations
  <2>1. CASE UNCHANGED <<windows, cooldowns, done>>
    BY <1>1, <2>1
  <2>2. ASSUME NEW g \in AgentIds, windows' = [windows EXCEPT ![g] = Idle],
               cooldowns' = [cooldowns EXCEPT ![g] = Warm], done' = [done EXCEPT ![g] = Idle]
        PROVE  /\ windows' \in [AgentIds -> [Actions -> Seq(0 .. MaxClock)]]
               /\ cooldowns' \in [AgentIds -> [Actions -> 0 .. MaxClock + CooldownMs]]
               /\ done' \in [AgentIds -> [Actions -> Seq(0 .. MaxClock)]]
               /\ \A h \in AgentIds, a \in Actions : Len(windows'[h][a]) <= MaxOperations
    <3>1. \A h \in AgentIds : windows'[h] = IF h = g THEN Idle ELSE windows[h]
      BY <1>1, <2>2
    <3>2. \A h \in AgentIds, a \in Actions : Len(windows'[h][a]) <= MaxOperations
      <4> SUFFICES ASSUME NEW h \in AgentIds, NEW a \in Actions
                   PROVE  Len(windows'[h][a]) <= MaxOperations
        OBVIOUS
      <4>1. CASE h = g
        <5>1. Len(windows'[h][a]) = 0
          BY <1>4, <3>1, <4>1
        <5> QED
          BY <1>3, <5>1
      <4>2. CASE h # g
        BY <1>1, <3>1, <4>2
      <4> QED
        BY <4>1, <4>2
    <3> QED
      BY <1>1, <1>4, <2>2, <3>2
  <2>3. CASE /\ windows' = [g \in AgentIds |-> Idle]
             /\ cooldowns' = [g \in AgentIds |-> Warm]
             /\ done' = [g \in AgentIds |-> Idle]
    BY <1>3, <1>4, <2>3
  <2> QED
    BY <1>6, <2>1, <2>2, <2>3
\* Whoever is registered was so before, or there was room.
<1>8. /\ agents' \in [AgentIds -> Records] /\ Registered' \subseteq AgentIds
      /\ \A g \in Registered' : agents'[g].status \in Statuses
      /\ \/ Registered' \subseteq Registered
         \/ \E g \in AgentIds : Registered' = Registered \cup {g} /\ Cardinality(Registered) < MaxAgents
  <2>1. ASSUME NEW g \in AgentIds, NEW s \in Statuses, agents' = [agents EXCEPT ![g] = Record(s)]
        PROVE  /\ agents' \in [AgentIds -> Records] /\ Registered' = Registered \cup {g}
               /\ \A h \in Registered' : agents'[h].status \in Statuses
    BY <1>1, <1>2, <1>5, <2>1 DEF Registered
  <2>2. ASSUME NEW g \in AgentIds, Register(g)
        PROVE  /\ agents' \in [AgentIds -> Records] /\ Registered' = Registered \cup {g}
               /\ Cardinality(Registered) < MaxAgents
               /\ \A h \in Registered' : agents'[h].status \in Statuses
    <3>1. agents' = [agents EXCEPT ![g] = Record("initializing")] /\ Cardinality(Registered) < MaxAgents
      BY <2>2 DEF Register
    <3>2. "initializing" \in Statuses
      BY DEF Statuses
    <3> QED
      BY <2>1, <3>1, <3>2
  <2>3. ASSUME NEW g \in AgentIds, NEW s \in Statuses, SetStatus(g, s)
        PROVE  /\ agents' \in [AgentIds -> Records] /\ Registered' = Registered
               /\ \A h \in Registered' : agents'[h].status \in Statuses
    <3>1. agents' = [agents EXCEPT ![g] = Record(s)] /\ g \in Registered
      BY <2>3 DEF SetStatus
    <3>2. Registered \cup {g} = Registered
      BY <3>1
    <3>3. /\ agents' \in [AgentIds -> Records] /\ Registered' = Registered \cup {g}
          /\ \A h \in Registered' : agents'[h].status \in Statuses
      BY <2>1, <3>1
    <3> QED
      BY <3>2, <3>3
  <2>4. ASSUME NEW g \in AgentIds, Unregister(g)
        PROVE  /\ agents' \in [AgentIds -> Records] /\ Registered' \subseteq Registered
               /\ \A h \in Registered' : agents'[h].status \in Statuses
    <3>1. agents' = [agents EXCEPT ![g] = Absent]
      BY <2>4 DEF Unregister
    <3> QED
      BY <1>1, <1>2, <1>4, <3>1 DEF Registered
  <2>5. ASSUME NEW g \in AgentIds, Touch(g)
        PROVE  /\ agents' \in [AgentIds -> Records] /\ Registered' \subseteq Registered
               /\ \A h \in Registered' : agents'[h].status \in Statuses
    <3>1. agents' = [agents EXCEPT ![g].lastActivity = ms] /\ g \in Registered
      BY <2>5 DEF Touch
    <3>2. agents[g] \in Records /\ agents[g].status \in Statuses
      BY <1>1, <1>2, <3>1
    <3>3. [agents[g] EXCEPT !.lastActivity = ms] \in Records
          /\ [agents[g] EXCEPT !.lastActivity = ms].status = agents[g].status
      BY <1>1, <3>2
    <3>4. agents' \in [AgentIds -> Records] /\ agents'[g].status = agents[g].status
          /\ \A h \in AgentIds : h # g => agents'[h] = agents[h]
      BY <1>1, <3>1, <3>3
    <3>5. Registered' \subseteq Registered
      BY <1>1, <3>1, <3>4 DEF Registered
    <3>6. ASSUME NEW h \in Registered' PROVE agents'[h].status \in Statuses
      <4>1. h \in Registered /\ h \in AgentIds
        BY <3>5 DEF Registered
      <4>2. CASE h = g
        BY <3>2, <3>4, <4>2
      <4>3. CASE h # g
        BY <1>2, <3>4, <4>1, <4>3
      <4> QED
        BY <4>2, <4>3
    <3> QED
      BY <3>4, <3>5, <3>6
  <2>6. CASE MarkStaleAsError
    <3>1. agents' = [g \in AgentIds |-> IF Stale(g) THEN Record("error") ELSE agents[g]]
      BY <2>6 DEF MarkStaleAsError
    <3>2. "error" \in Statuses
      BY DEF Statuses
    <3>3. agents' \in [AgentIds -> Records]
      BY <1>1, <1>5, <3>1, <3>2
    <3>4. ASSUME NEW g \in Registered' PROVE g \in Registered /\ agents'[g].status \in Statuses
      <4>1. g \in AgentIds /\ agents'[g] # Absent
        BY <3>4 DEF Registered
      <4>2. CASE Stale(g)
        <5>1. agents[g] # Absent
          BY <4>2 DEF Stale, Absent
        <5> QED
          BY <1>5, <3>1, <3>2, <4>1, <4>2, <5>1 DEF Registered
      <4>3. CASE ~Stale(g)
        BY <1>2, <3>1, <4>1, <4>3 DEF Registered
      <4> QED
        BY <4>2, <4>3
    <3> QED
      BY <3>3, <3>4 DEF Registered
  <2>7. CASE ClearRegistry
    BY <1>4, <2>7 DEF ClearRegistry, Registered
  <2>8. Registered' \subseteq AgentIds
    BY DEF Registered
  <2> QED
    BY <2>2, <2>3, <2>4, <2>5, <2>6, <2>7, <2>8
<1>9. IsFiniteSet(Registered') /\ Cardinality(Registered') <= MaxAgents
  <2>1. Cardinality(Registered) \in Nat
    BY <1>2, FS_CardinalityType
  <2>2. CASE Registered' \subseteq Registered
    <3>1. IsFiniteSet(Registered') /\ Cardinality(Registered') <= Cardinality(Registered)
      BY <1>2, <2>2, FS_Subset
    <3>2. Cardinality(Registered') \in Nat
      BY <3>1, FS_CardinalityType
    <3> QED
      BY <1>2, <1>3, <2>1, <3>1, <3>2
  <2>3. ASSUME NEW g \in AgentIds, Registered' = Registered \cup {g}, Cardinality(Registered) < MaxAgents
        PROVE  IsFiniteSet(Registered') /\ Cardinality(Registered') <= MaxAgents
    <3>1. /\ IsFiniteSet(Registered \cup {g})
          /\ Cardinality(Registered \cup {g}) =
               IF g \in Registered THEN Cardinality(Registered) ELSE Cardinality(Registered) + 1
      BY <1>2, FS_AddElement
    <3> QED
      BY <1>3, <2>1, <2>3, <3>1
  <2> QED
    BY <1>8, <2>2, <2>3
<1>10. AgentTypeOK'
  BY <1>1, <1>6, <1>7, <1>8, <1>9 DEF AgentTypeOK
<1> QED
  BY <1>8, <1>9, <1>10 DEF AgentInv

LEMMA KeptInTurn ==
  ASSUME NEW d, NEW w, NEW now, OfTimes(d, w, now)
  PROVE  InTurn(w) /\ Len(w) \in Nat
<1>1. /\ d \in Seq(Nat) /\ w \in Seq(Nat) /\ InTurn(d) /\ Len(w) <= Len(d)
      /\ \A i \in 1 .. Len(w) : w[i] = d[Len(d) - Len(w) + i]
  BY DEF OfTimes
<1>2. InTurn(w)
  BY <1>1, TailInTurn
<1> QED
  BY <1>1, <1>2

LEMMA AgentKeeps == RateInv /\ AgentInv /\ [AgentNext]_agentVars => AgentInv'
<1> SUFFICES ASSUME RateInv, AgentInv, [AgentNext]_agentVars PROVE AgentInv'
  OBVIOUS
<1>1. AgentTypeOK
  BY DEF AgentInv
<1>2. /\ ms \in 0 .. MaxClock /\ windows \in [AgentIds -> [Actions -> Seq(0 .. MaxClock)]]
      /\ cooldowns \in [AgentIds -> [Actions -> 0 .. MaxClock + CooldownMs]]
      /\ done \in [AgentIds -> [Actions -> Seq(0 .. MaxClock)]]
      /\ \A g \in AgentIds, a \in Actions : Len(windows[g][a]) <= MaxOperations
  BY <1>1 DEF AgentTypeOK
<1>3. MaxOperations \in Nat \ {0} /\ CooldownMs \in Nat /\ MaxClock \in Nat
  BY RegistryAssumption
<1>4. ASSUME NEW g \in AgentIds, NEW a \in Actions, Consume(g, a) PROVE AgentInv'
  <2> DEFINE w == windows[g][a]
             active == Kept(Append(w, ms), ms - WindowMs)
             until == ms + CooldownMs
  <2>1. /\ windows' = [windows EXCEPT ![g][a] = active]
        /\ \/ cooldowns' = [cooldowns EXCEPT ![g][a] = until] \/ cooldowns' = cooldowns
        /\ done' = [done EXCEPT ![g][a] = Append(@, ms)]
        /\ ms' = ms /\ agents' = agents
        /\ ~ (Len(Kept(w, ms - WindowMs)) >= MaxOperations)
    BY <1>4 DEF Consume, InWindow, Limited
  <2>2. w \in Seq(0 .. MaxClock) /\ ms \in Nat /\ until \in 0 .. MaxClock + CooldownMs
    BY <1>2, <1>3
  <2>3. OfTimes(done[g][a], w, ms)
    BY DEF RateInv, WellRated
  <2>4. /\ InTurn(w) /\ Len(Kept(w, ms - WindowMs)) \in Nat
    <3>1. OfTimes(done[g][a], Kept(w, ms - WindowMs), ms)
      BY <2>3, KeptIsOfTimes
    <3> QED
      BY <2>3, <3>1, KeptInTurn
  <2>5. InTurn(Append(w, ms)) /\ Len(active) \in Nat
    <3>1. OfTimes(Append(done[g][a], ms), Append(w, ms), ms)
      BY <2>3, OneMoreTime
    <3>2. OfTimes(Append(done[g][a], ms), active, ms)
      BY <3>1, KeptIsOfTimes
    <3> QED
      BY <3>1, <3>2, KeptInTurn
  <2>6. active \in Seq(0 .. MaxClock) /\ Len(active) <= Len(Kept(w, ms - WindowMs)) + 1
    BY <1>2, <2>2, <2>4, <2>5, KeptGrowsByOne
  <2> HIDE DEF active, until
  <2>7. Len(active) <= MaxOperations
    BY <1>3, <2>1, <2>4, <2>5, <2>6
  <2>8. Append(done[g][a], ms) \in Seq(0 .. MaxClock)
    BY <1>2
  <2>9. /\ windows' \in [AgentIds -> [Actions -> Seq(0 .. MaxClock)]]
        /\ cooldowns' \in [AgentIds -> [Actions -> 0 .. MaxClock + CooldownMs]]
        /\ done' \in [AgentIds -> [Actions -> Seq(0 .. MaxClock)]]
    <3>1. windows' \in [AgentIds -> [Actions -> Seq(0 .. MaxClock)]]
      BY <1>2, <2>1, <2>6
    <3>2. done' \in [AgentIds -> [Actions -> Seq(0 .. MaxClock)]]
      <4>1. done' = [done EXCEPT ![g][a] = Append(done[g][a], ms)]
        BY <2>1
      <4> QED
        BY <1>2, <2>8, <4>1
    <3>3. cooldowns' \in [AgentIds -> [Actions -> 0 .. MaxClock + CooldownMs]]
      <4> DEFINE Ends == 0 .. MaxClock + CooldownMs
      <4>1. cooldowns \in [AgentIds -> [Actions -> Ends]] /\ until \in Ends
        BY <1>2, <2>2
      <4> HIDE DEF Ends
      <4>2. cooldowns' \in [AgentIds -> [Actions -> Ends]]
        <5>1. CASE cooldowns' = cooldowns
          BY <4>1, <5>1
        <5>2. CASE cooldowns' = [cooldowns EXCEPT ![g][a] = until]
          BY <4>1, <5>2
        <5> QED
          BY <2>1, <5>1, <5>2
      <4> QED
        BY <4>2 DEF Ends
    <3> QED
      BY <3>1, <3>2, <3>3
  <2>10. ASSUME NEW h \in AgentIds, NEW b \in Actions PROVE Len(windows'[h][b]) <= MaxOperations
    <3>1. CASE h = g /\ b = a
      BY <1>2, <2>1, <2>7, <3>1
    <3>2. CASE ~ (h = g /\ b = a)
      <4>1. windows'[h][b] = windows[h][b]
        BY <1>2, <2>1, <3>2
      <4> QED
        BY <1>2, <4>1
    <3> QED
      BY <3>1, <3>2
  <2>11. Registered' = Registered
    BY <2>1 DEF Registered
  <2>12. AgentTypeOK'
    BY <1>1, <2>1, <2>9, <2>10, <2>11 DEF AgentTypeOK
  <2> QED
    BY <2>1, <2>11, <2>12 DEF AgentInv
<1>5. CASE ClockTick
  <2>1. ms' \in 0 .. MaxClock /\ UNCHANGED <<agents, windows, cooldowns, done>>
    BY <1>2, <1>3, <1>5 DEF ClockTick
  <2>2. Registered' = Registered
    BY <2>1 DEF Registered
  <2> QED
    BY <1>1, <2>1, <2>2 DEF AgentInv, AgentTypeOK
<1>6. CASE UNCHANGED agentVars
  BY <1>6 DEF AgentInv, AgentTypeOK, Registered, agentVars
<1> QED
  BY <1>4, <1>5, <1>6, RegistryKeeps DEF AgentNext

\* For any agents, and any limits: there are never more agents than the room takes,
\* and no more times kept of one than a window lets through (agent-registry.ts).
THEOREM AgentsAreBounded == AgentSpec => []AgentTypeOK
<1>1. AgentInv => AgentTypeOK
  BY DEF AgentInv
<1> QED
  BY <1>1, RateBegins, RateKeeps, AgentBegins, AgentKeeps, PTL DEF AgentSpec

-----------------------------------------------------------------------------
(* The connection of a room's page.                                        *)

\* The types hold what NeverGivesUp leans on: an effect that does not run has
\* neither sockets nor timers.
PageInv == PageTypeOK /\ NeverGivesUp

LEMMA PageBegins == PageInit => PageInv
<1> SUFFICES ASSUME PageInit PROVE PageInv
    OBVIOUS
<1>1. Cardinality(latest) <= 1
  BY FS_EmptySet DEF PageInit
<1>2. timers \in 0 .. MaxTimers
  BY PageAssumption DEF PageInit
<1>3. PageTypeOK
  BY <1>1, <1>2, Zenon DEF PageInit, PageTypeOK
<1> QED
  BY <1>3 DEF PageInit, PageInv, NeverGivesUp

LEMMA OpenKeeps ==
  ASSUME PageInv, NEW s \in Sockets, Opens(s)
  PROVE  /\ socket' \in [Sockets -> {"closed", "connecting", "open", "failed"}]
         /\ mine' \subseteq Sockets /\ latest' \subseteq Sockets
         /\ Cardinality(latest') <= 1
         /\ s \in mine' /\ socket'[s] # "closed"
<1>1. Cardinality({s}) = 1
  BY FS_Singleton
<1> QED
  BY <1>1 DEF PageInv, PageTypeOK, Opens

LEMMA PageKeeps == PageInv /\ [PageNext]_pageVars => PageInv'
<1> SUFFICES ASSUME PageInv, [PageNext]_pageVars PROVE PageInv'
    OBVIOUS
<1> USE PageAssumption
<1>1. ASSUME NEW s \in Sockets, Mount(s) PROVE PageInv'
  BY <1>1, OpenKeeps DEF Mount, PageInv, PageTypeOK, NeverGivesUp
<1>2. ASSUME NEW s \in Sockets, TimerOpens(s) PROVE PageInv'
  <2>1. effect /\ effect'
    BY <1>2 DEF TimerOpens, PageInv, PageTypeOK
  <2> QED
    BY <1>2, <2>1, OpenKeeps DEF TimerOpens, PageInv, PageTypeOK, NeverGivesUp
<1>3. ASSUME NEW s \in Sockets, SocketOpens(s) PROVE PageInv'
  BY <1>3 DEF SocketOpens, PageInv, PageTypeOK, NeverGivesUp
\* A socket of the running effect arms a timer when it fails and when it closes,
\* and any other is not the one the page relies on.
<1>4. ASSUME NEW s \in Sockets, SocketFails(s) PROVE PageInv'
  <2>1. s \in mine => effect
    BY DEF PageInv, PageTypeOK
  <2>2. PageTypeOK'
    BY <1>4, <2>1 DEF SocketFails, OnCloseOrError, PageInv, PageTypeOK
  <2>3. NeverGivesUp'
    BY <1>4 DEF SocketFails, OnCloseOrError, PageInv, PageTypeOK, NeverGivesUp
  <2> QED
    BY <2>2, <2>3 DEF PageInv
<1>5. ASSUME NEW s \in Sockets, SocketCloses(s) PROVE PageInv'
  <2>1. s \in mine => effect
    BY DEF PageInv, PageTypeOK
  <2>2. PageTypeOK'
    BY <1>5, <2>1 DEF SocketCloses, OnCloseOrError, PageInv, PageTypeOK
  <2>3. NeverGivesUp'
    BY <1>5 DEF SocketCloses, OnCloseOrError, PageInv, PageTypeOK, NeverGivesUp
  <2> QED
    BY <2>2, <2>3 DEF PageInv
<1>6. CASE Unmount
  <2>1. Cardinality(latest') <= 1
    BY <1>6, FS_EmptySet DEF Unmount
  <2>2. socket' \in [Sockets -> {"closed", "connecting", "open", "failed"}]
    BY <1>6 DEF Unmount, PageInv, PageTypeOK
  <2>3. timers' \in 0 .. MaxTimers
    BY <1>6 DEF Unmount
  <2>4. PageTypeOK'
    BY <1>6, <2>1, <2>2, <2>3, Zenon DEF Unmount, PageInv, PageTypeOK
  <2> QED
    BY <1>6, <2>4 DEF Unmount, PageInv, NeverGivesUp
<1>7. CASE BridgeStops \/ BridgeStarts \/ UNCHANGED pageVars
  <2>1. UNCHANGED <<effect, socket, mine, latest, timers>> /\ listening' \in BOOLEAN
    BY <1>7 DEF BridgeStops, BridgeStarts, pageVars, PageInv, PageTypeOK
  <2>2. Cardinality(latest') <= 1
    BY <2>1 DEF PageInv, PageTypeOK
  <2> QED
    BY <2>1, <2>2, Zenon DEF PageInv, PageTypeOK, NeverGivesUp
<1> QED
  BY <1>1, <1>2, <1>3, <1>4, <1>5, <1>6, <1>7 DEF PageNext

\* A page that wants events never stops trying to connect, whatever fails and in
\* whatever order (use-collab-socket.ts:90-99, the effect's onCloseOrError).
THEOREM PageKeepsTrying == PageSpec => [](PageTypeOK /\ NeverGivesUp)
<1>1. PageInv => PageTypeOK /\ NeverGivesUp
  BY DEF PageInv
<1> QED
  BY PageBegins, PageKeeps, <1>1, PTL DEF PageSpec

-----------------------------------------------------------------------------
(* What the others see of a participant.                                   *)

\* A timer that is armed has at most as much left as the silence still lacks.
TimersAreDue ==
  /\ idleTimer # Off => silence + idleTimer >= IdleTimeout
  /\ awayTimer # Off => silence + awayTimer >= AwayTimeout

\* What is pending is the cursor, and without it the cursor is what is shown.
PendingIsCursor ==
  IF pending = 0 THEN shown = cursor ELSE throttled /\ pending = cursor

PresenceInv == PresenceTypeOK /\ TimersAreDue /\ ShownIsCurrent /\ PendingIsCursor

LEMMA PresenceBegins == PresenceInit => PresenceInv
<1> SUFFICES ASSUME PresenceInit PROVE PresenceInv
    OBVIOUS
<1>1. /\ silence \in 0 .. MaxSilence
      /\ idleTimer \in Off .. IdleTimeout /\ awayTimer \in Off .. AwayTimeout
  BY PresenceAssumption DEF PresenceInit, Off
<1>2. {cursor, pending, shown} \subseteq Positions \cup {0}
  BY DEF PresenceInit
<1>3. PresenceTypeOK
  BY <1>1, <1>2, Zenon DEF PresenceInit, PresenceTypeOK, States
<1> QED
  BY <1>3 DEF PresenceInit, PresenceInv, TimersAreDue, ShownIsCurrent, PendingIsCursor, Off

\* The timers and the cursor have nothing to do with each other.
LEMMA ActivityKeeps ==
  ASSUME PresenceInv,
         \/ \E next \in States : Signal(next)
         \/ Blur \/ GoesIdle \/ GoesAway \/ TimePasses
  PROVE  PresenceInv'
<1> USE PresenceAssumption DEF PresenceInv, PresenceTypeOK, TimersAreDue,
        ShownIsCurrent, PendingIsCursor, Off, cursorVars
<1>1. ASSUME NEW next \in States, Signal(next) PROVE PresenceInv'
  BY <1>1 DEF Signal, TouchTimers
<1>2. CASE Blur
  BY <1>2 DEF Blur, States
<1>3. CASE GoesIdle
  BY <1>3 DEF GoesIdle, States
<1>4. CASE GoesAway
  BY <1>4 DEF GoesAway, States
<1>5. CASE TimePasses
  BY <1>5 DEF TimePasses, States
<1> QED
  BY <1>1, <1>2, <1>3, <1>4, <1>5

LEMMA CursorKeeps ==
  ASSUME PresenceInv, (\E p \in Positions : SetCursor(p)) \/ ClearCursor \/ ThrottleEnds
  PROVE  PresenceInv'
<1> USE PresenceAssumption DEF PresenceInv, PresenceTypeOK, TimersAreDue,
        ShownIsCurrent, PendingIsCursor, activityVars
<1>1. ASSUME NEW p \in Positions, SetCursor(p) PROVE PresenceInv'
  BY <1>1 DEF SetCursor
<1>2. CASE ClearCursor
  BY <1>2 DEF ClearCursor
<1>3. CASE ThrottleEnds
  BY <1>3 DEF ThrottleEnds
<1> QED
  BY <1>1, <1>2, <1>3

\* Nobody silent is shown at work for ever, nobody is shown away too early, and
\* the cursor shown is the cursor or is about to be corrected, for any timeouts
\* (activity-tracker.ts:162-177, cursor-tracker.ts:101-119).
THEOREM PresenceIsCurrent == PresenceSpec => [](PresenceTypeOK /\ ShownIsCurrent)
<1>1. PresenceInv /\ [PresenceNext]_presenceVars => PresenceInv'
  <2> SUFFICES ASSUME PresenceInv, [PresenceNext]_presenceVars PROVE PresenceInv'
      OBVIOUS
  <2>1. CASE UNCHANGED presenceVars
    BY <2>1 DEF presenceVars, PresenceInv, PresenceTypeOK, TimersAreDue,
                ShownIsCurrent, PendingIsCursor
  <2> QED
    BY <2>1, ActivityKeeps, CursorKeeps DEF PresenceNext
<1>2. PresenceInv => PresenceTypeOK /\ ShownIsCurrent
  BY DEF PresenceInv
<1> QED
  BY PresenceBegins, <1>1, <1>2, PTL DEF PresenceSpec

-----------------------------------------------------------------------------
(* The messages of workers.                                                *)

MessageRecord == [kind : Kinds, from : Workers, to : Workers \cup Roles \cup {"all"}]

\* Whoever is not subscribed yet has received nothing.
MessageInv ==
  /\ channel \in [Workers -> {"none", "open", "disposed"}] /\ since \in [Workers -> Nat]
  /\ inbox \in [Workers -> Seq(Nat)] /\ read \in [Workers -> Seq(Nat)]
  /\ sent \in Seq(MessageRecord)
  /\ \A w \in Workers : since[w] <= Len(sent)
  /\ \A w \in Workers : channel[w] = "none" => read[w] \o inbox[w] = <<>>
  /\ NothingLost

LEMMA MessagesBegin == MessageInit => MessageInv
  BY DEF MessageInit, MessageInv, NothingLost

\* A message that comes next is for the worker or not.
LEMMA OneMoreMessage ==
  ASSUME NEW w \in Workers, NEW got \in Seq(Nat), NEW all \in Seq(MessageRecord),
         NEW first \in Nat, first <= Len(all), IsAllFor(w, got, all, first),
         NEW m \in MessageRecord
  PROVE  IsAllFor(w, IF IsFor(w, m) THEN Append(got, Len(all) + 1) ELSE got,
                  Append(all, m), first)
<1> DEFINE n == Len(all) + 1
           more == Append(all, m)
           theirs(a) == {i \in DOMAIN a : i > first /\ IsFor(w, a[i])}
<1>1. /\ DOMAIN all = 1 .. Len(all) /\ DOMAIN more = 1 .. n /\ n \in Nat /\ n > first
      /\ \A i \in 1 .. Len(all) : more[i] = all[i]
      /\ more[n] = m
  OBVIOUS
<1>2. theirs(more) = IF IsFor(w, m) THEN theirs(all) \cup {n} ELSE theirs(all)
  BY <1>1
<1>3. /\ ToSet(got) = theirs(all)
      /\ \A i, j \in DOMAIN got : i < j => got[i] < got[j]
  BY DEF IsAllFor
<1>4. CASE ~IsFor(w, m)
  BY <1>2, <1>3, <1>4 DEF IsAllFor
<1>5. CASE IsFor(w, m)
  <2> DEFINE all2 == Append(got, n)
  <2>1. /\ DOMAIN got = 1 .. Len(got) /\ DOMAIN all2 = 1 .. Len(got) + 1 /\ Len(got) \in Nat
        /\ \A i \in 1 .. Len(got) : all2[i] = got[i] /\ got[i] \in Nat
        /\ all2[Len(got) + 1] = n
    OBVIOUS
  <2>2. ToSet(all2) = ToSet(got) \cup {n}
    BY <2>1 DEF ToSet
  <2>3. \A i \in 1 .. Len(got) : got[i] < n
    <3>1. \A i \in 1 .. Len(got) : got[i] \in ToSet(got)
      BY <2>1 DEF ToSet
    <3>2. \A p \in theirs(all) : p < n
      BY <1>1
    <3> QED
      BY <1>3, <3>1, <3>2
  <2>4. \A i, j \in DOMAIN all2 : i < j => all2[i] < all2[j]
    BY <1>1, <1>3, <2>1, <2>3
  <2> HIDE DEF all2
  <2>5. IsAllFor(w, all2, more, first)
    BY <1>2, <1>3, <1>5, <2>2, <2>4 DEF IsAllFor
  <2> QED
    BY <1>5, <2>5 DEF all2
<1> QED
  BY <1>4, <1>5

LEMMA AppendAtTheEnd ==
  ASSUME NEW s \in Seq(Nat), NEW t \in Seq(Nat), NEW n \in Nat
  PROVE  Append(s \o t, n) = s \o Append(t, n) /\ s \o t \in Seq(Nat)
<1>1. s \o t \in Seq(Nat) /\ <<n>> \in Seq(Nat)
  OBVIOUS
<1>2. Append(s \o t, n) = (s \o t) \o <<n>> /\ Append(t, n) = t \o <<n>>
  BY <1>1, AppendIsConcat
<1> QED
  BY <1>1, <1>2, ConcatAssociative

\* Every publication reaches the open channels it is for.
LEMMA PublishKeeps ==
  ASSUME MessageInv, NEW m \in MessageRecord, Publish(m), UNCHANGED <<channel, since, read>>
  PROVE  MessageInv'
<1> DEFINE n == Len(sent) + 1
<1>1. /\ sent \in Seq(MessageRecord) /\ n \in Nat
      /\ sent' = Append(sent, m) /\ sent' \in Seq(MessageRecord) /\ Len(sent') = n
  BY DEF MessageInv, Publish
<1>2. inbox' = [w \in Workers |-> IF channel[w] = "open" /\ IsFor(w, m)
                                    THEN Append(inbox[w], n) ELSE inbox[w]]
  BY DEF Publish
<1>3. \A w \in Workers : read[w] \in Seq(Nat) /\ inbox[w] \in Seq(Nat) /\ since[w] \in Nat
  BY DEF MessageInv
<1>4. inbox' \in [Workers -> Seq(Nat)]
  BY <1>1, <1>2, <1>3
<1>5. \A w \in Workers : Append(read[w] \o inbox[w], n) = read[w] \o Append(inbox[w], n)
                         /\ read[w] \o inbox[w] \in Seq(Nat)
  BY <1>1, <1>3, AppendAtTheEnd
<1>6. \A w \in Workers : since'[w] <= Len(sent')
  BY <1>1, <1>3 DEF MessageInv
<1>7. \A w \in Workers : channel'[w] = "none" => read'[w] \o inbox'[w] = <<>>
  BY <1>2 DEF MessageInv
<1>8. NothingLost'
  <2> SUFFICES ASSUME NEW w \in Workers, channel[w] = "open"
               PROVE  IsAllFor(w, read'[w] \o inbox'[w], sent', since'[w])
      BY DEF NothingLost, IsAllFor
  <2>1. IsAllFor(w, read[w] \o inbox[w], sent, since[w]) /\ since[w] <= Len(sent)
    BY DEF MessageInv, NothingLost
  <2>2. IsAllFor(w, IF IsFor(w, m) THEN Append(read[w] \o inbox[w], Len(sent) + 1)
                    ELSE read[w] \o inbox[w], Append(sent, m), since[w])
    BY <1>1, <1>3, <1>5, <2>1, OneMoreMessage
  <2>3. read'[w] \o inbox'[w] = IF IsFor(w, m) THEN Append(read[w] \o inbox[w], Len(sent) + 1)
                                ELSE read[w] \o inbox[w]
    BY <1>2, <1>5
  <2> QED
    BY <1>1, <2>2, <2>3
<1> QED
  BY <1>1, <1>4, <1>6, <1>7, <1>8 DEF MessageInv

LEMMA SpeakKeeps ==
  ASSUME MessageInv, NEW w \in Workers,
         \/ Broadcast(w) \/ \E to \in Workers \cup Roles : Send(w, to)
         \/ \E role \in Roles : Ask(w, role)
         \/ \E n \in DOMAIN sent : Answer(w, n)
  PROVE  MessageInv'
<1>1. ASSUME NEW k \in Kinds, NEW to \in Workers \cup Roles \cup {"all"}
      PROVE  Message(k, w, to) \in MessageRecord
  BY DEF Message, MessageRecord
<1>2. CASE Broadcast(w)
  BY <1>1, <1>2, PublishKeeps DEF Broadcast, Kinds
<1>3. ASSUME NEW to \in Workers \cup Roles, Send(w, to) PROVE MessageInv'
  BY <1>1, <1>3, PublishKeeps DEF Send, Kinds
<1>4. ASSUME NEW role \in Roles, Ask(w, role) PROVE MessageInv'
  BY <1>1, <1>4, PublishKeeps DEF Ask, Kinds
<1>5. ASSUME NEW n \in DOMAIN sent, Answer(w, n) PROVE MessageInv'
  BY <1>1, <1>5, PublishKeeps DEF Answer, Kinds
<1> QED
  BY <1>2, <1>3, <1>4, <1>5

\* Who subscribes has missed what was published before; who reads moves it from
\* the inbox; who is disposed is not promised anything any more.
LEMMA ListenKeeps ==
  ASSUME MessageInv, NEW w \in Workers, Open(w) \/ Drain(w) \/ DisposeChannel(w)
  PROVE  MessageInv'
<1>1. \A v \in Workers : read[v] \in Seq(Nat) /\ inbox[v] \in Seq(Nat) /\ since[v] \in Nat
  BY DEF MessageInv
<1>2. CASE Open(w)
  <2>1. /\ channel' \in [Workers -> {"none", "open", "disposed"}] /\ since' \in [Workers -> Nat]
        /\ \A v \in Workers : since'[v] <= Len(sent)
        /\ \A v \in Workers : v # w => channel'[v] = channel[v] /\ since'[v] = since[v]
        /\ channel'[w] = "open" /\ since'[w] = Len(sent) /\ channel[w] = "none"
        /\ UNCHANGED <<inbox, read, sent>>
    BY <1>2 DEF Open, MessageInv
  <2>2. read[w] \o inbox[w] = <<>>
    BY <2>1 DEF MessageInv
  <2>3. IsAllFor(w, <<>>, sent, Len(sent))
    <3>1. \A i \in DOMAIN sent : ~(i > Len(sent))
      BY DEF MessageInv
    <3> QED
      BY <3>1 DEF IsAllFor, ToSet
  <2>4. NothingLost'
    <3> SUFFICES ASSUME NEW v \in Workers, channel'[v] = "open"
                 PROVE  IsAllFor(v, read[v] \o inbox[v], sent, since'[v])
        BY <2>1 DEF NothingLost, IsAllFor
    <3> QED
      BY <2>1, <2>2, <2>3 DEF MessageInv, NothingLost
  <2> QED
    BY <2>1, <2>4 DEF MessageInv
<1>3. CASE Drain(w)
  <2>1. /\ read' = [read EXCEPT ![w] = read[w] \o inbox[w]] /\ inbox' = [inbox EXCEPT ![w] = <<>>]
        /\ UNCHANGED <<channel, since, sent>>
    BY <1>3 DEF Drain
  <2>2. /\ read' \in [Workers -> Seq(Nat)] /\ inbox' \in [Workers -> Seq(Nat)]
        /\ \A v \in Workers : read'[v] \o inbox'[v] = read[v] \o inbox[v]
    <3>1. /\ read[w] \o inbox[w] \in Seq(Nat)
          /\ (read[w] \o inbox[w]) \o <<>> = read[w] \o inbox[w]
      BY <1>1, ConcatProperties, ConcatEmptySeq
    <3>2. read' \in [Workers -> Seq(Nat)] /\ inbox' \in [Workers -> Seq(Nat)]
      BY <1>1, <2>1, <3>1 DEF MessageInv
    <3>3. read'[w] = read[w] \o inbox[w] /\ inbox'[w] = <<>>
      BY <2>1 DEF MessageInv
    <3>4. \A v \in Workers \ {w} : read'[v] = read[v] /\ inbox'[v] = inbox[v]
      BY <2>1 DEF MessageInv
    <3> QED
      BY <3>1, <3>2, <3>3, <3>4
  <2>3. NothingLost'
    <3> SUFFICES ASSUME NEW v \in Workers, channel[v] = "open"
                 PROVE  IsAllFor(v, read'[v] \o inbox'[v], sent, since[v])
        BY <2>1 DEF NothingLost, IsAllFor
    <3> QED
      BY <2>2 DEF MessageInv, NothingLost
  <2> QED
    BY <2>1, <2>2, <2>3 DEF MessageInv
<1>4. CASE DisposeChannel(w)
  <2>1. /\ channel' = [channel EXCEPT ![w] = "disposed"] /\ inbox' = [inbox EXCEPT ![w] = <<>>]
        /\ UNCHANGED <<since, read, sent>>
    BY <1>4 DEF DisposeChannel
  <2>2. /\ channel' \in [Workers -> {"none", "open", "disposed"}] /\ inbox' \in [Workers -> Seq(Nat)]
        /\ \A v \in Workers \ {w} : channel'[v] = channel[v] /\ inbox'[v] = inbox[v]
        /\ channel'[w] = "disposed"
    BY <1>1, <2>1 DEF MessageInv
  <2>3. NothingLost'
    <3> SUFFICES ASSUME NEW v \in Workers, channel'[v] = "open"
                 PROVE  IsAllFor(v, read[v] \o inbox'[v], sent, since[v])
        BY <2>1 DEF NothingLost, IsAllFor
    <3> QED
      BY <2>2 DEF MessageInv, NothingLost
  <2> QED
    BY <2>1, <2>2, <2>3 DEF MessageInv
<1> QED
  BY <1>2, <1>3, <1>4

\* A worker that is subscribed reads all that is published for it, once and in
\* order, for any workers and roles and however its reads and the publications
\* alternate (communication.ts:46-87, 181-209).
THEOREM NoMessageIsLost == MessageSpec => []NothingLost
<1>1. MessageInv /\ [MessageNext]_messageVars => MessageInv'
  <2> SUFFICES ASSUME MessageInv, [MessageNext]_messageVars PROVE MessageInv'
      OBVIOUS
  <2>1. CASE UNCHANGED <<channel, since, inbox, read, sent>>
    BY <2>1 DEF MessageInv, NothingLost, IsAllFor
  <2>2. ASSUME NEW n, AskTimesOut(n) PROVE UNCHANGED <<channel, since, inbox, read, sent>>
    BY <2>2 DEF AskTimesOut
  <2> QED
    BY <2>1, <2>2, SpeakKeeps, ListenKeeps DEF MessageNext, messageVars
<1>2. MessageInv => NothingLost
  BY DEF MessageInv
<1> QED
  BY MessagesBegin, <1>1, <1>2, PTL DEF MessageSpec

\* No more is published than the bound, so that every message has a number.
MessageTypes == MessageTypeOK /\ Len(sent) <= MaxMessages

\* A message is numbered where it comes next.
LEMMA PublishTyped ==
  ASSUME MessageTypes, NEW m \in MessageRecord, Publish(m), UNCHANGED <<channel, since, read>>,
         ask' \in [Numbers -> {"none", "waiting", "answered", "timedOut"}]
  PROVE  MessageTypes'
<1>1. /\ sent \in Seq(MessageRecord)
      /\ history \in Seq(Numbers)
      /\ Len(history) <= MaxHistory
      /\ inbox \in [Workers -> Seq(Numbers)]
  BY DEF MessageTypes, MessageTypeOK, MessageRecord
<1>2. PICK n \in Nat : n = Len(sent) + 1
  BY <1>1
<1>3. /\ n <= MaxMessages
      /\ sent' = Append(sent, m)
      /\ history' = IF Len(Append(history, n)) > MaxHistory THEN Tail(Append(history, n))
                    ELSE Append(history, n)
      /\ inbox' = [w \in Workers |-> IF channel[w] = "open" /\ IsFor(w, m)
                                       THEN Append(inbox[w], n) ELSE inbox[w]]
  BY <1>2 DEF Publish
<1>4. n \in Numbers
  BY <1>1, <1>2, <1>3, MessagesAssumption DEF Numbers
<1>5. sent' \in Seq(MessageRecord) /\ Len(sent') = n
  BY <1>1, <1>2, <1>3
<1>6. history' \in Seq(Numbers) /\ Len(history') <= MaxHistory
  <2>1. Append(history, n) \in Seq(Numbers) /\ Len(Append(history, n)) = Len(history) + 1
    BY <1>1, <1>4
  <2>2. Len(history) \in Nat
    BY <1>1
  <2> DEFINE all == Append(history, n)
  <2> HIDE DEF all
  <2>3. all # <<>> /\ all \in Seq(Numbers) /\ Len(all) = Len(history) + 1
    BY <2>1, <2>2 DEF all
  <2>4. Tail(all) \in Seq(Numbers) /\ Len(Tail(all)) = Len(history)
    BY <2>2, <2>3
  <2>5. history' = IF Len(all) > MaxHistory THEN Tail(all) ELSE all
    BY <1>3 DEF all
  <2> QED
    BY <1>1, <2>2, <2>3, <2>4, <2>5, MessagesAssumption
<1>7. inbox' \in [Workers -> Seq(Numbers)]
  <2>1. ASSUME NEW w \in Workers PROVE Append(inbox[w], n) \in Seq(Numbers)
    BY <1>1, <1>4
  <2> QED
    BY <1>1, <1>3, <2>1
<1>8. MessageTypeOK'
  BY <1>5, <1>6, <1>7 DEF MessageTypes, MessageTypeOK, MessageRecord
<1> QED
  BY <1>3, <1>5, <1>8 DEF MessageTypes

LEMMA MessageTypesBegin == MessageInit => MessageTypes
  BY MessagesAssumption DEF MessageInit, MessageTypes, MessageTypeOK

LEMMA SpeakTyped ==
  ASSUME MessageTypes, NEW w \in Workers,
         \/ Broadcast(w)
         \/ \E to \in Workers \cup Roles : Send(w, to)
         \/ \E role \in Roles : Ask(w, role)
         \/ \E n \in DOMAIN sent : Answer(w, n)
  PROVE  MessageTypes'
<1>1. ASSUME NEW k \in Kinds, NEW to \in Workers \cup Roles \cup {"all"}
      PROVE  Message(k, w, to) \in MessageRecord
  BY DEF Message, MessageRecord
<1> DEFINE Asks == [Numbers -> {"none", "waiting", "answered", "timedOut"}]
<1>2. ask \in Asks
  BY DEF MessageTypes, MessageTypeOK
<1>3. CASE Broadcast(w)
  BY <1>1, <1>2, <1>3, PublishTyped DEF Broadcast, Kinds
<1>4. ASSUME NEW to \in Workers \cup Roles, Send(w, to) PROVE MessageTypes'
  BY <1>1, <1>2, <1>4, PublishTyped DEF Send, Kinds
<1>5. ASSUME NEW role \in Roles, Ask(w, role) PROVE MessageTypes'
  <2>1. ask' \in Asks
    BY <1>2, <1>5 DEF Ask
  <2> QED
    BY <1>1, <1>5, <2>1, PublishTyped DEF Ask, Kinds
<1>6. ASSUME NEW n \in DOMAIN sent, Answer(w, n) PROVE MessageTypes'
  <2>1. ask' \in Asks
    BY <1>2, <1>6 DEF Answer
  <2> QED
    BY <1>1, <1>6, <2>1, PublishTyped DEF Answer, Kinds
<1> QED
  BY <1>3, <1>4, <1>5, <1>6

LEMMA ListenTyped ==
  ASSUME MessageTypes, NEW w \in Workers, Open(w) \/ Drain(w) \/ DisposeChannel(w)
  PROVE  MessageTypes'
<1>1. CASE Open(w)
  <2>1. Len(sent) \in 0 .. MaxMessages
    BY MessagesAssumption DEF MessageTypes, MessageTypeOK
  <2> QED
    BY <1>1, <2>1 DEF Open, MessageTypes, MessageTypeOK
<1>2. CASE Drain(w)
  <2>1. inbox[w] \in Seq(Numbers) /\ read[w] \in Seq(Numbers)
    BY DEF MessageTypes, MessageTypeOK
  <2>2. read[w] \o inbox[w] \in Seq(Numbers) /\ <<>> \in Seq(Numbers)
    BY <2>1
  <2> QED
    BY <1>2, <2>2 DEF Drain, MessageTypes, MessageTypeOK
<1>3. CASE DisposeChannel(w)
  <2>1. <<>> \in Seq(Numbers)
    OBVIOUS
  <2> QED
    BY <1>3, <2>1 DEF DisposeChannel, MessageTypes, MessageTypeOK
<1> QED
  BY <1>1, <1>2, <1>3

\* The bus remembers at most MaxHistory messages, whoever publishes them, and
\* all that is received, read or remembered was published (bus.ts:64-68,
\* communication.ts:33-43).
THEOREM MessagesTyped == MessageSpec => []MessageTypeOK
<1>1. MessageTypes /\ [MessageNext]_messageVars => MessageTypes'
  <2> SUFFICES ASSUME MessageTypes, [MessageNext]_messageVars PROVE MessageTypes'
      OBVIOUS
  <2>1. CASE UNCHANGED messageVars
    BY <2>1 DEF messageVars, MessageTypes, MessageTypeOK
  <2>2. ASSUME NEW n, AskTimesOut(n) PROVE MessageTypes'
    BY <2>2 DEF AskTimesOut, MessageTypes, MessageTypeOK
  <2> QED
    BY <2>1, <2>2, SpeakTyped, ListenTyped DEF MessageNext
<1>2. MessageTypes => MessageTypeOK
  BY DEF MessageTypes
<1> QED
  BY MessageTypesBegin, <1>1, <1>2, PTL DEF MessageSpec
=============================================================================
