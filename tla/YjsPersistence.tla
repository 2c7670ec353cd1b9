---------------------------- MODULE YjsPersistence ----------------------------
(***************************************************************************)
(* The shared document of one room (packages/collab-server/src/            *)
(* yjs-persistence.ts and yjs-route.ts), its SQLite copy and the clients   *)
(* that edit it.                                                           *)
(*                                                                         *)
(* A Yjs document is the set of the updates it has taken in; merging two   *)
(* documents is the union.  y-websocket, which calls bindState() when the  *)
(* first connection opens a document and writeState() when the last one    *)
(* closes, is external, and so are the sockets: what a connection did not  *)
(* deliver before it ends is lost, and offered again by the next one.      *)
(*                                                                         *)
(* A client here is one that reaches the route, /yjs with the room in the  *)
(* query.  The providers that the web page and collab-sync make ask for    *)
(* /yjs/<room> (use-yjs-doc.ts:50-58, ws-provider.ts:78-87), which the     *)
(* route does not take.                                                    *)
(*                                                                         *)
(* The rooms live in memory only.  After a restart the room must be        *)
(* adopted again before anyone can connect.                                *)
(***************************************************************************)
CONSTANTS Clients, Updates

VARIABLES server,     \* "down", "up", or "disposed": closing, its database closed
          room,       \* does the registry have the room?
          open,       \* is the document in the server's memory?
          ydoc,       \* the updates in that document
          flushTimer, \* is a flush pending?
          conns,      \* the clients whose connection is open
          local,      \* the updates in each client's own document
          made,       \* every update made so far
          db          \* the updates in the stored copy

documentVars == <<server, room, open, ydoc, flushTimer, conns, local, made, db>>

DocumentTypeOK ==
  /\ server \in {"down", "up", "disposed"} /\ room \in BOOLEAN
  /\ open \in BOOLEAN /\ flushTimer \in BOOLEAN
  /\ ydoc \subseteq made /\ db \subseteq made /\ made \subseteq Updates
  /\ conns \subseteq Clients /\ local \in [Clients -> SUBSET made]
  /\ conns # {} => open
  /\ open => server # "down"
  /\ flushTimer => open /\ server = "up"

DocumentInit ==
  /\ server = "down" /\ room = FALSE
  /\ open = FALSE /\ ydoc = {} /\ flushTimer = FALSE
  /\ conns = {} /\ local = [c \in Clients |-> {}]
  /\ made = {} /\ db = {}

-----------------------------------------------------------------------------
(* The server process.                                                     *)

Start ==
  /\ server = "down"
  /\ server' = "up"
  /\ UNCHANGED <<room, open, ydoc, flushTimer, conns, local, made, db>>

\* RoomRegistry.adopt() and destroy().  A room that is destroyed keeps its
\* document and its connections.
Adopt ==
  /\ server = "up" /\ ~room
  /\ room' = TRUE
  /\ UNCHANGED <<server, open, ydoc, flushTimer, conns, local, made, db>>

DestroyRoom ==
  /\ server # "down" /\ room
  /\ room' = FALSE
  /\ UNCHANGED <<server, open, ydoc, flushTimer, conns, local, made, db>>

\* Mistake: detach() forgets the timer it leaves behind.
DisposeKeepsTimer ==
  /\ server = "up"
  /\ server' = "disposed"
  /\ UNCHANGED <<room, open, ydoc, flushTimer, conns, local, made, db>>

\* dispose() of the route: every document is detached, which cancels its
\* pending flush, and the database is closed.  The sockets are still open.
Dispose ==
  /\ server = "up"
  /\ server' = "disposed"
  /\ flushTimer' = FALSE
  /\ UNCHANGED <<room, open, ydoc, conns, local, made, db>>

\* The process ends, after dispose() or without it (a crash).
Exit ==
  /\ server # "down"
  /\ server' = "down" /\ room' = FALSE
  /\ open' = FALSE /\ ydoc' = {} /\ flushTimer' = FALSE /\ conns' = {}
  /\ UNCHANGED <<local, made, db>>

\* Mistake: the new document starts empty; it is not loaded from the database.
BindStateEmpty == ydoc' = IF open THEN ydoc ELSE {}

\* bindState(): the stored copy is applied before the document is subscribed to,
\* so loading does not arm the timer.
BindState == ydoc' = IF open THEN ydoc ELSE db

\* A socket the route accepts.  With its database closed no document can be
\* opened, but one that is open can still be joined.
Connect(c) ==
  /\ c \notin conns
  /\ server # "down" /\ room
  /\ open \/ server = "up"
  /\ conns' = conns \cup {c}
  /\ open' = TRUE
  /\ BindState
  /\ UNCHANGED <<server, room, flushTimer, local, made, db>>

\* Mistake: an update that arrives is not followed by a flush.
ScheduleNoFlush == flushTimer' = flushTimer

\* Mistake: a flush is scheduled for the first change of the document alone.
ScheduleFirstFlush == flushTimer' = (server = "up" /\ db = {})

\* scheduleFlush(): (re)arms the timer of a document that is bound.
ScheduleFlush == flushTimer' = (server = "up")

\* An update of a client reaches the server's document.
Upload(c, u) ==
  /\ c \in conns /\ u \in local[c] \ ydoc
  /\ ydoc' = ydoc \cup {u}
  /\ ScheduleFlush
  /\ UNCHANGED <<server, room, open, conns, local, made, db>>

\* flushNow() replaces the stored copy by the whole document.
FlushNow == db' = IF server = "up" THEN ydoc ELSE db

FlushTimerFires ==
  /\ flushTimer
  /\ flushTimer' = FALSE
  /\ FlushNow
  /\ UNCHANGED <<server, room, open, ydoc, conns, local, made>>

\* closeConn() of the last connection: writeState() and the document is dropped.
\* With the database closed the write throws and the document goes unsaved.
LastOneLeaves ==
  /\ open' = FALSE /\ ydoc' = {} /\ flushTimer' = FALSE
  /\ FlushNow

Disconnect(c) ==
  /\ c \in conns
  /\ conns' = conns \ {c}
  /\ IF conns = {c} THEN LastOneLeaves ELSE UNCHANGED <<open, ydoc, flushTimer, db>>
  /\ UNCHANGED <<server, room, local, made>>

-----------------------------------------------------------------------------
(* The clients (use-yjs-doc.ts, ws-provider.ts).                           *)

\* An edit is applied to the client's own document, connected or not.
Edit(c, u) ==
  /\ u \notin made
  /\ made' = made \cup {u}
  /\ local' = [local EXCEPT ![c] = @ \cup {u}]
  /\ UNCHANGED <<server, room, open, ydoc, flushTimer, conns, db>>

Download(c, u) ==
  /\ c \in conns /\ u \in ydoc \ local[c]
  /\ local' = [local EXCEPT ![c] = @ \cup {u}]
  /\ UNCHANGED <<server, room, open, ydoc, flushTimer, conns, made, db>>

\* A client that is not connected is closed: its document goes with it.
Forget(c) ==
  /\ c \notin conns /\ local[c] # {}
  /\ local' = [local EXCEPT ![c] = {}]
  /\ UNCHANGED <<server, room, open, ydoc, flushTimer, conns, made, db>>

Process == Start \/ Adopt \/ DestroyRoom \/ Dispose \/ Exit

SocketSteps == \E c \in Clients : Connect(c) \/ Disconnect(c) \/ Forget(c)

Sync == \E c \in Clients, u \in Updates : Upload(c, u) \/ Download(c, u) \/ Edit(c, u)

DocumentNext == Process \/ SocketSteps \/ Sync \/ FlushTimerFires

DocumentSpec == DocumentInit /\ [][DocumentNext]_documentVars

\* An open socket delivers, and a timer that is not re-armed for ever fires: there
\* are finitely many updates, so the users pause.  Nobody has to connect,
\* and the process may stop at any time.
DocumentFairness ==
  /\ WF_documentVars(FlushTimerFires)
  /\ \A c \in Clients, u \in Updates :
       WF_documentVars(Upload(c, u)) /\ WF_documentVars(Download(c, u))

-----------------------------------------------------------------------------
(* Properties.                                                             *)

Serving == server = "up"

Document ==
  INSTANCE DurableDocument
    WITH Updates <- Updates, up <- Serving, saved <- db,
         live <- IF open /\ Serving THEN ydoc ELSE db

\* The stored copy takes over the whole document and nothing else ever changes it,
\* although each flush overwrites it: no connection that ends, document that
\* is dropped and opened again, or late timer sets it back.  Only the end of
\* the server takes back what was not stored (yjs-persistence.ts:11-14).
ImplementsDurableDocument == Document!Spec

\* An update that has reached an open document without being stored has a flush
\* pending: nothing stays unsaved until the next edit (yjs-persistence.ts:208-216).
UnsavedIsScheduled == Serving /\ open /\ ydoc # db => flushTimer

\* What a connected client has edited, or had edited before a crash of the server, is
\* stored and is with everyone who is connected, unless its connection ends first:
\* clients that come back restore what the server lost.
EditsArrive ==
  \A c, d \in Clients, u \in Updates :
    (u \in local[c] /\ {c, d} \subseteq conns)
      ~> ((u \in db /\ u \in local[d]) \/ ~({c, d} \subseteq conns) \/ ~Serving)
===============================================================================
