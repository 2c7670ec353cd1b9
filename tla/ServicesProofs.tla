--------------------------- MODULE ServicesProofs ---------------------------
(***************************************************************************)
(* Proofs about what the agents are served by: the stdio transport and the *)
(* registry of MCP servers, the durable queue, the adapters of the language*)
(* models, the keys of the desktop application, and the resolver of        *)
(* dependencies; each for any servers, tasks, calls, graphs and bounds.    *)
(* The parts share no state, so each section is on its own.                *)
(***************************************************************************)
EXTENDS StdioTransport, McpRegistry, DurableQueue, ChatAdapters, DesktopKeys,
        DependencyResolver, FiniteSetTheorems, SequenceTheorems, TLAPS

-----------------------------------------------------------------------------
(* The stdio transport: nobody who waits is without an entry, and a failed *)
(* start is never taken for a connection.                                  *)

TransportInv == TypeOK /\ WaitersArePending

LEMMA TransportBegins == Init => TransportInv
  BY DEF Init, TransportInv, TypeOK, TransportState, Settled, WaitersArePending

\* Everything that empties the map rejects those it held.
LEMMA RejectAllKeeps ==
  ASSUME TransportInv, RejectAllPending
  PROVE  /\ pending' \in SUBSET Requests
         /\ call' \in [Requests -> Settled \cup {"none", "waiting"}]
         /\ WaitersArePending'
  BY DEF TransportInv, TypeOK, RejectAllPending, WaitersArePending, Settled

\* Settling one request removes its entry and its waiter together.
LEMMA SettleKeeps ==
  ASSUME TransportInv, NEW r \in Requests, NEW s \in Settled, Settle(r, s)
  PROVE  TransportInv'
<1> USE DEF Settle, processVars
<1>1. TypeOK'
  BY DEF TransportInv, TypeOK, Settled
<1>2. WaitersArePending'
  BY DEF TransportInv, TypeOK, WaitersArePending, Settled
<1>3. QED
  BY <1>1, <1>2 DEF TransportInv

LEMMA ClientKeeps == TransportInv /\ Client => TransportInv'
<1> SUFFICES ASSUME TransportInv, Client PROVE TransportInv'
  OBVIOUS
<1>1. ASSUME NEW g \in Children, Start(g)
      PROVE  TransportInv'
  BY <1>1 DEF Start, Spawn, TransportInv, TypeOK, TransportState, WaitersArePending
<1>2. ASSUME NEW g \in Children, StartFails(g)
      PROVE  TransportInv'
  BY <1>2, RejectAllKeeps DEF StartFails, Spawn, TransportInv, TypeOK, TransportState
<1>3. ASSUME NEW r \in Requests, Send(r) \/ SendFails(r)
      PROVE  TransportInv'
  BY <1>3 DEF Send, SendFails, processVars, TransportInv, TypeOK, Settled, WaitersArePending
<1>4. CASE Close
  <2>1. /\ pending' \in SUBSET Requests
        /\ call' \in [Requests -> Settled \cup {"none", "waiting"}]
        /\ WaitersArePending'
    BY <1>4, RejectAllKeeps DEF Close
  <2>2. /\ closing' \in SUBSET Children
        /\ signalled' \in [Children -> BOOLEAN]
        /\ process' \in Children \cup {None}
        /\ state' \in TransportState
    BY <1>4 DEF Close, TransportInv, TypeOK, TransportState
  <2>3. QED
    BY <1>4, <2>1, <2>2 DEF Close, TransportInv, TypeOK
<1>5. QED
  BY <1>1, <1>2, <1>3, <1>4 DEF Client

LEMMA ServerKeeps == TransportInv /\ Server => TransportInv'
<1> SUFFICES ASSUME TransportInv, Server PROVE TransportInv'
  OBVIOUS
<1>1. ASSUME NEW r \in Requests, Answer(r)
      PROVE  TransportInv'
  BY <1>1, SettleKeeps DEF Answer, Settled
<1>2. ASSUME NEW r \in Requests, NEW g \in Children, ServerRequest(g, r)
      PROVE  TransportInv'
  BY <1>2, SettleKeeps DEF ServerRequest, Settled
<1>3. ASSUME NEW g \in Children, Exit(g)
      PROVE  TransportInv'
  BY <1>3, RejectAllKeeps DEF Exit, TransportInv, TypeOK, TransportState
<1>4. QED
  BY <1>1, <1>2, <1>3 DEF Server

LEMMA TimersKeep == TransportInv /\ Timers => TransportInv'
<1> SUFFICES ASSUME TransportInv, Timers PROVE TransportInv'
  OBVIOUS
<1>1. ASSUME NEW g \in Children, Started(g)
      PROVE  TransportInv'
  BY <1>1 DEF Started, processVars, TransportInv, TypeOK, TransportState, WaitersArePending
<1>2. ASSUME NEW g \in Children, CloseTimesOut(g)
      PROVE  TransportInv'
  <2>1. forced' \in SUBSET Children /\ signalled' \in [Children -> BOOLEAN]
    BY <1>2 DEF CloseTimesOut, TransportInv, TypeOK
  <2>2. QED
    BY <1>2, <2>1 DEF CloseTimesOut, TransportInv, TypeOK, TransportState, WaitersArePending
<1>3. ASSUME NEW r \in Requests, RequestTimesOut(r)
      PROVE  TransportInv'
  BY <1>3, SettleKeeps DEF RequestTimesOut, Settled
<1>4. QED
  BY <1>1, <1>2, <1>3 DEF Timers

LEMMA TransportKeeps == TransportInv /\ [Next]_vars => TransportInv'
<1> SUFFICES ASSUME TransportInv, [Next]_vars PROVE TransportInv'
  OBVIOUS
<1>1. CASE UNCHANGED vars
  BY <1>1 DEF vars, processVars, TransportInv, TypeOK, WaitersArePending
<1>2. QED
  BY <1>1, ClientKeeps, ServerKeeps, TimersKeep DEF Next

\* Type correctness of the transport.
THEOREM TypeCorrect == Spec => []TypeOK
<1>1. TransportInv => TypeOK
  BY DEF TransportInv
<1>2. QED
  BY <1>1, TransportBegins, TransportKeeps, PTL DEF Spec

\* Whatever exits, restarts, closes and late lines do, a caller that waits has
\* a timer that will end its wait.
THEOREM NobodyIsForgotten == Spec => []WaitersArePending
<1>1. TransportInv => WaitersArePending
  BY DEF TransportInv
<1>2. QED
  BY <1>1, TransportBegins, TransportKeeps, PTL DEF Spec

\* The error state is left only for "disconnected".
THEOREM ErrorIsNotConnection == Spec => FailedStartStaysFailed
<1>1. [Next]_vars => [state = "error" => state' \in {"error", "disconnected"}]_vars
  <2> SUFFICES ASSUME Next, state = "error"
               PROVE  state' \in {"error", "disconnected"}
    OBVIOUS
  <2>1. CASE Client
    BY <2>1 DEF Client, Start, StartFails, Spawn, Send, SendFails, Close
  <2>2. CASE Server
    BY <2>2 DEF Server, Answer, ServerRequest, Settle, Exit
  <2>3. CASE Timers
    BY <2>3 DEF Timers, Started, CloseTimesOut, RequestTimesOut, Settle
  <2>4. QED
    BY <2>1, <2>2, <2>3 DEF Next
<1>2. QED
  BY <1>1, PTL DEF Spec, FailedStartStaysFailed

-----------------------------------------------------------------------------
(* The registry of MCP servers.                                            *)

\* A state object belongs to one name, and its clients are of that name.
OneNameEach ==
  /\ \A n, m \in Names : servers[n] = servers[m] /\ servers[n] # 0 => n = m
  /\ \A c \in MCPClients, n \in Names :
       client[c].config # 0 /\ servers[n] = client[c].config => client[c].name = n

\* A client that is between its connection and its place under the name.
Excused(n) ==
  \/ \E c \in MCPClients : client[c].config = servers[n] /\ client[c].stage \in {"listing", "unlisted"}
  \/ \E k \in Closers : closings[k].name = n /\ closings[k].kind \in CloseKinds

\* ConnectedIsCallable also while a caller whose close is over has not gone on.
CallableUnlessClosing ==
  \A n \in Names : servers[n] # 0 /\ connected[servers[n]] /\ ~Excused(n) => Callable(n)

RegistryInv == RegistryTypeOK /\ OneNameEach /\ CallableUnlessClosing

LEMMA RegistryBegins == RegistryInit => RegistryInv
<1> SUFFICES ASSUME RegistryInit PROVE RegistryInv
    OBVIOUS
<1>1. RegistryTypeOK
  BY McpAssumption DEF RegistryInit, RegistryTypeOK, Unborn, NotClosing, Stages
<1>2. OneNameEach
  BY DEF RegistryInit, OneNameEach, Unborn
<1>3. CallableUnlessClosing
  BY DEF RegistryInit, CallableUnlessClosing
<1> QED
  BY <1>1, <1>2, <1>3 DEF RegistryInv

\* The client kept under a name is of that name, and neither connecting nor listing.
LEMMA KeptClient ==
  ASSUME RegistryInv, NEW n \in Names, clients[n] # 0
  PROVE  /\ clients[n] \in MCPClients /\ client[clients[n]].name = n
         /\ client[clients[n]].stage \in {"kept", "closed"}
  BY DEF RegistryInv, RegistryTypeOK

LEMMA AddServerKeeps ==
  ASSUME RegistryInv, NEW n \in Names, NEW s \in Configs, AddServer(n, s)
  PROVE  RegistryInv'
<1>1. RegistryTypeOK'
  BY DEF AddServer, RegistryInv, RegistryTypeOK
<1>2. OneNameEach'
  BY McpAssumption DEF AddServer, Used, RegistryInv, RegistryTypeOK, OneNameEach
<1>3. CallableUnlessClosing'
  <2> SUFFICES ASSUME NEW m \in Names, servers'[m] # 0, connected'[servers'[m]]
               PROVE  Excused(m)' \/ Callable(m)'
      BY DEF CallableUnlessClosing
  <2>1. m # n /\ servers'[m] = servers[m] /\ servers[m] # s
    BY DEF AddServer, Used, RegistryInv, RegistryTypeOK
  <2>2. servers[m] # 0 /\ connected[servers[m]]
    BY <2>1 DEF AddServer, RegistryInv, RegistryTypeOK
  <2> QED
    BY <2>1, <2>2 DEF AddServer, RegistryInv, CallableUnlessClosing, Excused, Callable
<1> QED
  BY <1>1, <1>2, <1>3 DEF RegistryInv

\* connectServer() up to its first await.
Connecting(n, c) ==
  /\ servers[n] # 0 /\ client[c] = Unborn
  /\ client' = [client EXCEPT ![c] = [stage |-> "connecting", name |-> n, config |-> servers[n]]]
  /\ UNCHANGED <<servers, connected, clients>>

LEMMA ConnectingKeeps ==
  ASSUME RegistryInv, NEW n \in Names, NEW c \in MCPClients, Connecting(n, c),
         closings' \in [Closers -> [kind : CloseKinds \cup Resumed \cup {"none"},
                                   name : Names \cup {NoServer}]],
         \A k \in Closers : closings[k].kind \in CloseKinds => closings'[k] = closings[k]
  PROVE  RegistryInv'
<1>1. /\ client' \in [MCPClients -> [stage : Stages, name : Names \cup {NoServer},
                                     config : Configs \cup {0}]]
      /\ client'[c].name = n /\ client'[c].config = servers[n]
      /\ \A d \in MCPClients \ {c} : client'[d] = client[d]
      /\ UNCHANGED <<servers, connected, clients>>
  BY DEF Connecting, RegistryInv, RegistryTypeOK, Stages
<1>2. \A m \in Names : clients[m] # c
  BY KeptClient, McpAssumption DEF Connecting, Unborn
<1>3. RegistryTypeOK'
  BY <1>1, <1>2 DEF RegistryInv, RegistryTypeOK
<1>4. OneNameEach'
  BY <1>1 DEF Connecting, RegistryInv, OneNameEach
<1>5. CallableUnlessClosing'
  <2> SUFFICES ASSUME NEW m \in Names, servers[m] # 0, connected[servers[m]]
               PROVE  Excused(m)' \/ Callable(m)'
      BY <1>1 DEF CallableUnlessClosing
  <2>1. CASE \E d \in MCPClients : client[d].config = servers[m]
                                  /\ client[d].stage \in {"listing", "unlisted"}
    <3>1. PICK d \in MCPClients : client[d].config = servers[m]
                                  /\ client[d].stage \in {"listing", "unlisted"}
      BY <2>1
    <3>2. d # c
      BY <3>1 DEF Connecting, Unborn
    <3> QED
      BY <1>1, <3>1, <3>2 DEF Excused
  <2>2. CASE \E k \in Closers : closings[k].name = m /\ closings[k].kind \in CloseKinds
    BY <2>2 DEF Excused
  <2>3. CASE Callable(m)
    BY <1>1, <1>2, <2>3, KeptClient DEF Callable
  <2> QED
    BY <2>1, <2>2, <2>3 DEF RegistryInv, CallableUnlessClosing, Excused
<1> QED
  BY <1>3, <1>4, <1>5 DEF RegistryInv

LEMMA ConnectKeeps ==
  ASSUME RegistryInv, NEW n \in Names, NEW c \in MCPClients, Connect(n, c)
  PROVE  RegistryInv'
<1>1. Connecting(n, c) /\ closings' = closings
  BY DEF Connect, IsNext, Connecting
<1> QED
  BY <1>1, ConnectingKeeps DEF RegistryInv, RegistryTypeOK

\* From here to its place under the name, or for ever if it fails to list, the
\* client excuses its server.
LEMMA ConnectedKeeps ==
  ASSUME RegistryInv, NEW c \in MCPClients, Connected(c)
  PROVE  RegistryInv'
<1>1. /\ client' \in [MCPClients -> [stage : Stages, name : Names \cup {NoServer},
                                     config : Configs \cup {0}]]
      /\ client'[c].name = client[c].name /\ client'[c].config = client[c].config
      /\ client'[c].stage = "listing"
      /\ \A d \in MCPClients \ {c} : client'[d] = client[d]
      /\ UNCHANGED <<servers, clients, closings>>
  BY DEF Connected, RegistryInv, RegistryTypeOK, Stages
<1>2. \A m \in Names : clients[m] # c
  BY KeptClient, McpAssumption DEF Connected
<1>3. RegistryTypeOK'
  <2>1. connected' \in [Configs -> BOOLEAN]
    BY DEF Connected, RegistryInv, RegistryTypeOK
  <2> QED
    BY <1>1, <1>2, <2>1 DEF RegistryInv, RegistryTypeOK
<1>4. OneNameEach'
  BY <1>1 DEF RegistryInv, OneNameEach
<1>5. CallableUnlessClosing'
  <2> SUFFICES ASSUME NEW m \in Names, servers[m] # 0, connected'[servers[m]]
               PROVE  Excused(m)' \/ Callable(m)'
      BY <1>1 DEF CallableUnlessClosing
  <2>1. CASE client[c].config = servers[m]
    BY <1>1, <2>1 DEF Excused
  <2>2. CASE client[c].config # servers[m]
    <3>1. connected[servers[m]]
      BY <2>2 DEF Connected, RegistryInv, RegistryTypeOK
    <3>2. Excused(m) \/ Callable(m)
      BY <3>1 DEF RegistryInv, CallableUnlessClosing
    <3>3. CASE Excused(m)
      BY <1>1, <2>2, <3>3 DEF Excused
    <3>4. CASE Callable(m)
      BY <1>1, <1>2, <3>4, KeptClient DEF Callable
    <3> QED
      BY <3>2, <3>3, <3>4
  <2> QED
    BY <2>1, <2>2
<1> QED
  BY <1>3, <1>4, <1>5 DEF RegistryInv

LEMMA ListedKeeps ==
  ASSUME RegistryInv, NEW c \in MCPClients, Listed(c)
  PROVE  RegistryInv'
<1>1. /\ client' \in [MCPClients -> [stage : Stages, name : Names \cup {NoServer},
                                     config : Configs \cup {0}]]
      /\ client'[c].name = client[c].name /\ client'[c].config = client[c].config
      /\ client'[c].stage = "kept"
      /\ \A d \in MCPClients \ {c} : client'[d] = client[d]
      /\ UNCHANGED <<servers, connected, closings>>
  BY DEF Listed, RegistryInv, RegistryTypeOK, Stages
<1>2. /\ clients' \in [Names -> MCPClients \cup {0}]
      /\ \A m \in Names : clients'[m] = IF m = client[c].name THEN c ELSE clients[m]
  BY DEF Listed, RegistryInv, RegistryTypeOK
<1>3. \A m \in Names : clients[m] # c
  BY KeptClient, McpAssumption DEF Listed
<1>4. RegistryTypeOK'
  BY <1>1, <1>2, <1>3, KeptClient DEF RegistryInv, RegistryTypeOK
<1>5. OneNameEach'
  BY <1>1 DEF RegistryInv, OneNameEach
<1>6. CallableUnlessClosing'
  <2> SUFFICES ASSUME NEW m \in Names, servers[m] # 0, connected[servers[m]]
               PROVE  Excused(m)' \/ Callable(m)'
      BY <1>1 DEF CallableUnlessClosing
  <2>1. CASE m = client[c].name
    BY <1>1, <1>2, <2>1, McpAssumption DEF Callable
  <2>2. CASE m # client[c].name
    <3>1. client[c].config # servers[m]
      BY <2>2 DEF RegistryInv, OneNameEach
    <3>2. CASE Excused(m)
      BY <1>1, <3>1, <3>2 DEF Excused
    <3>3. CASE Callable(m)
      BY <1>1, <1>2, <1>3, <2>2, <3>3, KeptClient DEF Callable
    <3> QED
      BY <3>2, <3>3 DEF RegistryInv, CallableUnlessClosing
  <2> QED
    BY <2>1, <2>2
<1> QED
  BY <1>4, <1>5, <1>6 DEF RegistryInv

LEMMA ConnectFailsKeeps ==
  ASSUME RegistryInv, NEW c \in MCPClients, ConnectFails(c)
  PROVE  RegistryInv'
<1> DEFINE new == IF client[c].stage = "listing" THEN [client[c] EXCEPT !.stage = "unlisted"]
                  ELSE [Unborn EXCEPT !.stage = "failed"]
<1>1. client' = [client EXCEPT ![c] = new] /\ UNCHANGED <<servers, connected, clients, closings>>
  BY DEF ConnectFails
<1>2. new \in [stage : Stages, name : Names \cup {NoServer}, config : Configs \cup {0}]
  BY DEF RegistryInv, RegistryTypeOK, Unborn, Stages
<1>3. /\ new.config # 0 => new.config = client[c].config /\ new.name = client[c].name
      /\ client[c].stage = "listing" => new.stage = "unlisted" /\ new.config = client[c].config
  BY DEF RegistryInv, RegistryTypeOK, Unborn
<1>4. client[c].stage \in {"connecting", "listing"}
  BY DEF ConnectFails
<1> HIDE DEF new
<1>5. /\ client' \in [MCPClients -> [stage : Stages, name : Names \cup {NoServer},
                                     config : Configs \cup {0}]]
      /\ client'[c] = new /\ \A d \in MCPClients \ {c} : client'[d] = client[d]
  BY <1>1, <1>2 DEF RegistryInv, RegistryTypeOK
<1>6. \A m \in Names : clients[m] # c
  BY <1>4, KeptClient, McpAssumption
<1>7. RegistryTypeOK'
  BY <1>1, <1>5, <1>6 DEF RegistryInv, RegistryTypeOK
<1>8. OneNameEach'
  BY <1>1, <1>3, <1>5 DEF RegistryInv, OneNameEach
<1>9. CallableUnlessClosing'
  <2> SUFFICES ASSUME NEW m \in Names, servers[m] # 0, connected[servers[m]]
               PROVE  Excused(m)' \/ Callable(m)'
      BY <1>1 DEF CallableUnlessClosing
  <2>1. CASE \E d \in MCPClients : client[d].config = servers[m]
                                  /\ client[d].stage \in {"listing", "unlisted"}
    <3>1. PICK d \in MCPClients : client[d].config = servers[m]
                                  /\ client[d].stage \in {"listing", "unlisted"}
      BY <2>1
    <3>2. client'[d].config = servers[m] /\ client'[d].stage \in {"listing", "unlisted"}
      BY <1>3, <1>4, <1>5, <3>1
    <3> QED
      BY <1>1, <3>2 DEF Excused
  <2>2. CASE \E k \in Closers : closings[k].name = m /\ closings[k].kind \in CloseKinds
    BY <1>1, <2>2 DEF Excused
  <2>3. CASE Callable(m)
    BY <1>1, <1>5, <1>6, <2>3, KeptClient DEF Callable
  <2> QED
    BY <2>1, <2>2, <2>3 DEF RegistryInv, CallableUnlessClosing, Excused
<1> QED
  BY <1>7, <1>8, <1>9 DEF RegistryInv

\* A server that goes, or is shown as not connected any more, takes its client
\* and the calls that closed it along; the other servers are as they were.
LEMMA GoneKeeps ==
  ASSUME RegistryInv, RegistryTypeOK', NEW n \in Names, client' = client,
         \A m \in Names : servers'[m] \in {servers[m], 0},
         \A s \in Configs : connected'[s] => connected[s],
         servers'[n] # 0 => ~connected'[servers'[n]],
         \A m \in Names \ {n} : clients'[m] = clients[m],
         \A k \in Closers : closings[k].kind \in CloseKinds /\ closings[k].name # n =>
            closings'[k] = closings[k]
  PROVE  RegistryInv'
<1>1. OneNameEach'
  BY DEF RegistryInv, OneNameEach
<1>2. CallableUnlessClosing'
  <2> SUFFICES ASSUME NEW m \in Names, servers'[m] # 0, connected'[servers'[m]]
               PROVE  Excused(m)' \/ Callable(m)'
      BY DEF CallableUnlessClosing
  <2>1. m # n /\ servers'[m] = servers[m] /\ servers[m] # 0 /\ connected[servers[m]]
    BY DEF RegistryInv, RegistryTypeOK
  <2>2. Excused(m) \/ Callable(m)
    BY <2>1 DEF RegistryInv, CallableUnlessClosing
  <2>3. CASE Excused(m)
    BY <2>1, <2>3 DEF Excused
  <2>4. CASE Callable(m)
    BY <2>1, <2>4 DEF Callable
  <2> QED
    BY <2>2, <2>3, <2>4
<1> QED
  BY <1>1, <1>2 DEF RegistryInv

LEMMA DisconnectedShown ==
  ASSUME RegistryInv, NEW n \in Names, Disconnected(n), servers' = servers
  PROVE  /\ connected' \in [Configs -> BOOLEAN]
         /\ \A m \in Names : servers'[m] \in {servers[m], 0}
         /\ \A s \in Configs : connected'[s] => connected[s]
         /\ servers'[n] # 0 => ~connected'[servers'[n]]
  BY DEF Disconnected, RegistryInv, RegistryTypeOK

LEMMA AtOnceKeeps ==
  ASSUME RegistryInv, NEW n \in Names,
         \/ DisconnectAtOnce(n) \/ RemoveAtOnce(n)
         \/ \E k \in Closers : RestartAtOnce(k, n)
  PROVE  RegistryInv'
<1>1. CASE DisconnectAtOnce(n)
  <2>1. RegistryTypeOK'
    BY <1>1 DEF DisconnectAtOnce, Disconnected, RegistryInv, RegistryTypeOK
  <2> QED
    BY <1>1, <2>1, DisconnectedShown, GoneKeeps DEF DisconnectAtOnce
<1>2. CASE RemoveAtOnce(n)
  <2>1. RegistryTypeOK'
    BY <1>2 DEF RemoveAtOnce, RegistryInv, RegistryTypeOK
  <2> QED
    BY <1>2, <2>1, GoneKeeps DEF RemoveAtOnce, RegistryInv, RegistryTypeOK
<1>3. ASSUME NEW k \in Closers, RestartAtOnce(k, n) PROVE RegistryInv'
  <2>1. RegistryTypeOK'
    BY <1>3 DEF RestartAtOnce, Disconnected, RegistryInv, RegistryTypeOK, Resumed
  <2>2. closings[k].kind \notin CloseKinds
    BY <1>3 DEF RestartAtOnce, NotClosing, CloseKinds
  <2> QED
    BY <1>3, <2>1, <2>2, DisconnectedShown, GoneKeeps DEF RestartAtOnce
<1> QED
  BY <1>1, <1>2, <1>3

LEMMA CloseOverKeeps ==
  ASSUME RegistryInv, NEW n \in Names, NEW k \in Closers,
         \/ Disconnects(k, n) \/ Removes(k, n)
         \/ DisconnectsFor(k, n, "restart", "reconnect") \/ DisconnectsFor(k, n, "all", "next")
  PROVE  RegistryInv'
<1>1. closings[k].name = n /\ clients' = [clients EXCEPT ![n] = 0] /\ client' = client
  BY DEF Disconnects, Removes, DisconnectsFor, Closes
<1>2. /\ closings' \in [Closers -> [kind : CloseKinds \cup Resumed \cup {"none"},
                                   name : Names \cup {NoServer}]]
      /\ \A l \in Closers \ {k} : closings'[l] = closings[l]
  BY DEF Disconnects, Removes, DisconnectsFor, RegistryInv, RegistryTypeOK, NotClosing, Resumed
<1>3. CASE Removes(k, n)
  <2>1. RegistryTypeOK'
    BY <1>1, <1>2, <1>3 DEF Removes, RegistryInv, RegistryTypeOK
  <2> QED
    BY <1>1, <1>2, <1>3, <2>1, GoneKeeps DEF Removes, RegistryInv, RegistryTypeOK
<1>4. CASE Disconnected(n) /\ servers' = servers
  <2>1. RegistryTypeOK'
    BY <1>1, <1>2, <1>4 DEF Disconnected, RegistryInv, RegistryTypeOK
  <2> QED
    BY <1>1, <1>2, <1>4, <2>1, DisconnectedShown, GoneKeeps DEF RegistryInv, RegistryTypeOK
<1> QED
  BY <1>3, <1>4 DEF Disconnects, DisconnectsFor

\* From the moment a client begins to close, the call that waits excuses its server.
LEMMA CloseBegins ==
  ASSUME RegistryInv, NEW n \in Names, NEW k \in Closers, NEW kind \in CloseKinds,
         clients[n] # 0, closings[k].kind \notin CloseKinds,
         closings' = [closings EXCEPT ![k] = [kind |-> kind, name |-> n]],
         client' = [client EXCEPT ![clients[n]].stage = "closed"],
         UNCHANGED <<servers, connected, clients>>
  PROVE  RegistryInv'
<1> DEFINE c == clients[n]
<1>1. c \in MCPClients /\ client[c].name = n /\ client[c].stage \in {"kept", "closed"}
  BY KeptClient
<1>2. /\ client' \in [MCPClients -> [stage : Stages, name : Names \cup {NoServer},
                                     config : Configs \cup {0}]]
      /\ client'[c].name = client[c].name /\ client'[c].config = client[c].config
      /\ client'[c].stage = "closed"
      /\ \A d \in MCPClients \ {c} : client'[d] = client[d]
  BY <1>1 DEF RegistryInv, RegistryTypeOK, Stages
<1>3. /\ closings' \in [Closers -> [kind : CloseKinds \cup Resumed \cup {"none"},
                                   name : Names \cup {NoServer}]]
      /\ closings'[k].kind \in CloseKinds /\ closings'[k].name = n
      /\ \A l \in Closers \ {k} : closings'[l] = closings[l]
  BY DEF RegistryInv, RegistryTypeOK
<1> HIDE DEF c
<1>4. RegistryTypeOK'
  BY <1>2, <1>3, KeptClient DEF RegistryInv, RegistryTypeOK
<1>5. OneNameEach'
  BY <1>2 DEF RegistryInv, OneNameEach
<1>6. CallableUnlessClosing'
  <2> SUFFICES ASSUME NEW m \in Names, servers[m] # 0, connected[servers[m]]
               PROVE  Excused(m)' \/ Callable(m)'
      BY DEF CallableUnlessClosing
  <2>1. CASE m = n
    BY <1>3, <2>1 DEF Excused
  <2>2. CASE m # n
    <3>1. Excused(m) \/ Callable(m)
      BY DEF RegistryInv, CallableUnlessClosing
    <3>2. CASE Excused(m)
      BY <1>1, <1>2, <1>3, <3>2 DEF Excused
    <3>3. CASE Callable(m)
      BY <1>1, <1>2, <2>2, <3>3, KeptClient DEF Callable
    <3> QED
      BY <3>1, <3>2, <3>3
  <2> QED
    BY <2>1, <2>2
<1> QED
  BY <1>4, <1>5, <1>6 DEF RegistryInv

LEMMA BeginCloseKeeps ==
  ASSUME RegistryInv, NEW n \in Names, NEW k \in Closers, NEW kind \in CloseKinds,
         BeginClose(k, kind, n)
  PROVE  RegistryInv'
<1>1. closings[k].kind \notin CloseKinds
  BY DEF BeginClose, NotClosing, CloseKinds
<1> QED
  BY <1>1, CloseBegins DEF BeginClose

\* A caller that goes on after its close excused nothing any more.
LEMMA ResumedKeeps ==
  ASSUME RegistryInv, UNCHANGED <<servers, connected, clients, client>>,
         closings' \in [Closers -> [kind : CloseKinds \cup Resumed \cup {"none"},
                                   name : Names \cup {NoServer}]],
         \A k \in Closers : closings[k].kind \in CloseKinds => closings'[k] = closings[k]
  PROVE  RegistryInv'
  BY DEF RegistryInv, RegistryTypeOK, OneNameEach, CallableUnlessClosing, Excused, Callable

LEMMA ReconnectsKeeps ==
  ASSUME RegistryInv, NEW n \in Names, NEW k \in Closers, NEW c \in MCPClients,
         Reconnects(k, n, c)
  PROVE  RegistryInv'
<1>1. closings[k].kind \notin CloseKinds
  BY DEF Reconnects, CloseKinds
<1>2. /\ closings' \in [Closers -> [kind : CloseKinds \cup Resumed \cup {"none"},
                                   name : Names \cup {NoServer}]]
      /\ \A l \in Closers : closings[l].kind \in CloseKinds => closings'[l] = closings[l]
  BY <1>1 DEF Reconnects, RegistryInv, RegistryTypeOK, NotClosing
<1>3. client' = client \/ Connecting(n, c)
  BY DEF Reconnects, Connecting, IsNext
<1>4. UNCHANGED <<servers, connected, clients>>
  BY DEF Reconnects
<1> QED
  BY <1>2, <1>3, <1>4, ConnectingKeeps, ResumedKeeps

LEMMA NextOfAllKeeps ==
  ASSUME RegistryInv, NEW k \in Closers, NextOfAll(k)
  PROVE  RegistryInv'
<1>1. closings[k].kind \notin CloseKinds /\ UNCHANGED <<servers, connected, clients>>
  BY DEF NextOfAll, CloseKinds
<1>2. CASE closings' = [closings EXCEPT ![k] = NotClosing] /\ client' = client
  <2>1. /\ closings' \in [Closers -> [kind : CloseKinds \cup Resumed \cup {"none"},
                                     name : Names \cup {NoServer}]]
        /\ \A l \in Closers : closings[l].kind \in CloseKinds => closings'[l] = closings[l]
    BY <1>1, <1>2 DEF RegistryInv, RegistryTypeOK, NotClosing
  <2> QED
    BY <1>1, <1>2, <2>1, ResumedKeeps
<1>3. ASSUME NEW m \in Names, clients[m] # 0,
             closings' = [closings EXCEPT ![k] = [kind |-> "all", name |-> m]],
             client' = [client EXCEPT ![clients[m]].stage = "closed"]
      PROVE  RegistryInv'
  <2>1. "all" \in CloseKinds
    BY DEF CloseKinds
  <2> QED
    BY <1>1, <1>3, <2>1, CloseBegins
<1> QED
  BY <1>2, <1>3 DEF NextOfAll

\* However connects, restarts and removals of several windows cross, a server
\* shown as connected can be called once nothing is under way for it, for any
\* servers and any number of calls (registry.ts:84-145).
THEOREM ConnectedServersAnswer == RegistrySpec => [](RegistryTypeOK /\ ConnectedIsCallable)
<1>1. RegistryInv /\ [RegistryNext]_registryVars => RegistryInv'
  <2> SUFFICES ASSUME RegistryInv, [RegistryNext]_registryVars PROVE RegistryInv'
      OBVIOUS
  <2>1. CASE UNCHANGED registryVars
    BY <2>1, ResumedKeeps DEF registryVars, RegistryInv, RegistryTypeOK
  <2> QED
    BY <2>1, AddServerKeeps, ConnectKeeps, ConnectedKeeps, ListedKeeps, ConnectFailsKeeps,
       AtOnceKeeps, CloseOverKeeps, BeginCloseKeeps, ReconnectsKeeps, NextOfAllKeeps
    DEF RegistryNext
<1>2. RegistryInv => ConnectedIsCallable
  <2> SUFFICES ASSUME RegistryInv, NEW n \in Names, servers[n] # 0, connected[servers[n]],
                      \A c \in MCPClients : client[c].config = servers[n] =>
                         client[c].stage \notin {"listing", "unlisted"},
                      \A k \in Closers : closings[k].name # n
               PROVE  Callable(n)
      BY DEF ConnectedIsCallable
  <2>1. ~Excused(n)
    BY DEF Excused
  <2> QED
    BY <2>1 DEF RegistryInv, CallableUnlessClosing
<1>3. RegistryInv => RegistryTypeOK
  BY DEF RegistryInv
<1> QED
  BY RegistryBegins, <1>1, <1>2, <1>3, PTL DEF RegistrySpec

-----------------------------------------------------------------------------
(* The queue in a table.                                                   *)

Begun == {"ready", "running", "completed", "failed"}

DependenciesDone(q) == \A t \in Tasks : q[t].status \in Begun => T!DepsCompleted(q, t)

\* The places are the order of arrival, and the clock agrees with them.
InOrder(q, time) ==
  /\ \A t \in Tasks : q[t].status = "absent" => q[t].place = 0
  /\ \A t \in T!Present(q) : q[t].place \in 1 .. Cardinality(T!Present(q)) /\ q[t].created <= time
  /\ \A t, u \in T!Present(q) : t # u => q[t].place # q[u].place
  /\ \A t, u \in T!Present(q) : q[t].place < q[u].place => q[t].created <= q[u].created

\* Of the tasks a pass has looked at, those that still wait cannot start.
PassIsThorough ==
  phase = "getting" =>
    \A t \in Rows("pending") \ left : t \in repeating \/ ~T!DepsCompleted(rows, t)

InTable(q, time) ==
  /\ q \in [Tasks -> T!TaskRecord] /\ time \in Nat
  /\ IsFiniteSet(T!Present(q)) /\ DependenciesDone(q) /\ InOrder(q, time)

\* A task that names a dependency twice is never readied.
RepeatsWait == \A t \in repeating : /\ t \in Tasks /\ rows[t].deps # {}
                                   /\ rows[t].status \in {"pending", "cancelled"}

DurableInv ==
  /\ InTable(rows, clock) /\ PassIsThorough /\ RepeatsWait
  /\ left \subseteq Rows("pending") /\ (phase \in {"down", "idle"} => left = {})

LEMMA InTableNext == InTable(rows, clock)' <=> InTable(rows', clock')
  BY DEF InTable, DependenciesDone, InOrder, T!Present, T!HasStatus, T!DepsCompleted

\* The work in the rows q, of which those of R name a dependency twice.
WorkIn(q, R) ==
  [t \in Tasks |->
     [state |-> IF q[t].status \in {"pending", "ready"} THEN "waiting" ELSE q[t].status,
      deps |-> q[t].deps \cup (R \cap {t}), priority |-> q[t].priority, arrival |-> q[t].place]]

LEMMA WorkNext == TableWork = WorkIn(rows, repeating) /\ TableWork' = WorkIn(rows', repeating')
  BY DEF TableWork, WorkIn

\* What a row says.
LEMMA RowTyped ==
  ASSUME NEW q \in [Tasks -> T!TaskRecord], NEW t \in Tasks
  PROVE  /\ q[t].status \in T!TaskStatus /\ q[t].deps \subseteq Tasks
         /\ q[t].priority \in Nat /\ q[t].created \in Nat /\ q[t].place \in Nat
  BY DEF T!TaskRecord

LEMMA NoRows ==
  /\ InTable(T!EmptyQueue, 0)
  /\ \A time \in Nat : InTable(T!EmptyQueue, time)
  /\ WorkIn(T!EmptyQueue, {}) = [t \in Tasks |-> Promise!Nothing]
  /\ \A t \in Tasks : T!EmptyQueue[t].status = "absent"
<1>1. T!Present(T!EmptyQueue) = {}
  BY DEF T!Present, T!HasStatus, T!EmptyQueue, T!NoTask
<1>2. T!EmptyQueue \in [Tasks -> T!TaskRecord] /\ \A t \in Tasks : T!EmptyQueue[t] = T!NoTask
  BY DEF T!EmptyQueue, T!NoTask, T!TaskRecord, T!TaskStatus
<1>3. DependenciesDone(T!EmptyQueue)
  BY <1>2 DEF DependenciesDone, Begun, T!NoTask
<1>4. \A time \in Nat : InOrder(T!EmptyQueue, time)
  BY <1>1, <1>2 DEF InOrder, T!NoTask
<1>5. WorkIn(T!EmptyQueue, {}) = [t \in Tasks |-> Promise!Nothing]
  BY DEF WorkIn, T!EmptyQueue, T!NoTask, Promise!Nothing
<1>6. \A time \in Nat : InTable(T!EmptyQueue, time)
  BY <1>1, <1>2, <1>3, <1>4, FS_EmptySet DEF InTable
<1> QED
  BY <1>2, <1>5, <1>6 DEF T!NoTask

SameColumns(q, r) ==
  \A u \in Tasks : /\ r[u].status = "absent" <=> q[u].status = "absent"
                  /\ r[u].priority = q[u].priority
                  /\ r[u].created = q[u].created /\ r[u].place = q[u].place

\* The order is in the columns that no UPDATE touches.
LEMMA OrderStays ==
  ASSUME NEW q, NEW r, NEW time, InOrder(q, time), T!Present(r) = T!Present(q),
         SameColumns(q, r)
  PROVE  InOrder(r, time)
<1>1. \A u \in T!Present(q) : u \in Tasks
  BY DEF T!Present
<1> QED
  BY <1>1 DEF InOrder, SameColumns

\* One UPDATE of a status.
LEMMA OneUpdate ==
  ASSUME NEW q, NEW time, InTable(q, time), NEW t \in Tasks,
         NEW s \in {"ready", "running", "completed", "failed", "cancelled"},
         q[t].status \notin {"absent", "completed"},
         s \in Begun => q[t].status \in Begun \/ T!DepsCompleted(q, t),
         NEW r, r = T!SetStatus(q, t, s), NEW R
  PROVE  /\ InTable(r, time)
         /\ \A u \in Tasks : /\ r[u].status = IF u = t THEN s ELSE q[u].status
                             /\ r[u].deps = q[u].deps
         /\ WorkIn(r, R) = [WorkIn(q, R) EXCEPT ![t].state = IF s = "ready" THEN "waiting" ELSE s]
<1>1. q \in [Tasks -> T!TaskRecord] /\ time \in Nat
  BY DEF InTable
<1>2. s \in T!TaskStatus
  BY DEF T!TaskStatus
<1>3. /\ r \in [Tasks -> T!TaskRecord]
      /\ \A u \in Tasks : /\ r[u].status = IF u = t THEN s ELSE q[u].status
                          /\ r[u].deps = q[u].deps /\ r[u].priority = q[u].priority
                          /\ r[u].created = q[u].created /\ r[u].place = q[u].place
  BY <1>1, <1>2 DEF T!SetStatus, T!TaskRecord
<1>4. T!Present(r) = T!Present(q)
  BY <1>3 DEF T!Present, T!HasStatus
<1>5. \A u \in Tasks : T!DepsCompleted(q, u) => T!DepsCompleted(r, u)
  <2>1. \A u \in Tasks : q[u].deps \subseteq Tasks
    BY <1>1, RowTyped
  <2> QED
    BY <1>3, <2>1 DEF T!DepsCompleted
<1>6. DependenciesDone(r)
  <2> SUFFICES ASSUME NEW u \in Tasks, r[u].status \in Begun PROVE T!DepsCompleted(q, u)
      BY <1>5 DEF DependenciesDone
  <2>1. q[u].status \in Begun => T!DepsCompleted(q, u)
    BY DEF InTable, DependenciesDone
  <2> QED
    BY <1>3, <2>1
<1>7. InOrder(r, time)
  <2>1. InOrder(q, time)
    BY DEF InTable
  <2>2. SameColumns(q, r)
    BY <1>3 DEF SameColumns
  <2> QED
    BY <1>4, <2>1, <2>2, OrderStays
<1>8. InTable(r, time)
  BY <1>1, <1>3, <1>4, <1>6, <1>7 DEF InTable
<1>9. WorkIn(r, R) = [WorkIn(q, R) EXCEPT ![t].state = IF s = "ready" THEN "waiting" ELSE s]
  <2> DEFINE status == IF s = "ready" THEN "waiting" ELSE s
  <2>1. WorkIn(r, R)[t] = [WorkIn(q, R)[t] EXCEPT !.state = status]
    <3>1. (IF r[t].status \in {"pending", "ready"} THEN "waiting" ELSE r[t].status) = status
      BY <1>3
    <3> HIDE DEF status
    <3>2. \E d, p, a, old :
            /\ WorkIn(r, R)[t] = [state |-> status, deps |-> d, priority |-> p, arrival |-> a]
            /\ WorkIn(q, R)[t] = [state |-> old, deps |-> d, priority |-> p, arrival |-> a]
      BY <1>3, <3>1 DEF WorkIn
    <3>3. PICK d, p, a, old :
            /\ WorkIn(r, R)[t] = [state |-> status, deps |-> d, priority |-> p, arrival |-> a]
            /\ WorkIn(q, R)[t] = [state |-> old, deps |-> d, priority |-> p, arrival |-> a]
      BY <3>2
    <3> DEFINE v == WorkIn(r, R)[t]
               w == WorkIn(q, R)[t]
    <3>4. /\ v = [state |-> status, deps |-> d, priority |-> p, arrival |-> a]
          /\ w = [state |-> old, deps |-> d, priority |-> p, arrival |-> a]
      BY <3>3
    <3> HIDE DEF v, w
    <3>5. v = [w EXCEPT !.state = status]
      BY <3>4
    <3> QED
      BY <3>5 DEF v, w
  <2>2. \A u \in Tasks \ {t} : WorkIn(r, R)[u] = WorkIn(q, R)[u]
    BY <1>3 DEF WorkIn
  <2>3. /\ WorkIn(r, R) = [u \in Tasks |-> WorkIn(r, R)[u]]
        /\ WorkIn(q, R) = [u \in Tasks |-> WorkIn(q, R)[u]]
    BY DEF WorkIn
  <2> HIDE DEF status
  <2>4. WorkIn(r, R) = [WorkIn(q, R) EXCEPT ![t].state = status]
    <3> DEFINE w == WorkIn(q, R)
               v == WorkIn(r, R)
    <3>1. /\ v = [u \in Tasks |-> v[u]] /\ w = [u \in Tasks |-> w[u]]
          /\ v[t] = [w[t] EXCEPT !.state = status] /\ \A u \in Tasks \ {t} : v[u] = w[u]
      BY <2>1, <2>2, <2>3
    <3> HIDE DEF v, w
    <3>2. v = [w EXCEPT ![t].state = status]
      BY <3>1
    <3> QED
      BY <3>2 DEF v, w
  <2> QED
    BY <2>4 DEF status
<1> QED
  BY <1>3, <1>8, <1>9

LEMMA RowsBegin == DurableInit => DurableInv /\ Promise!Init
<1> SUFFICES ASSUME DurableInit PROVE DurableInv /\ Promise!Init
    OBVIOUS
<1>1. rows = T!EmptyQueue /\ repeating = {} /\ clock = 0 /\ phase = "idle" /\ left = {}
  BY DEF DurableInit
<1>2. InTable(rows, clock) /\ TableWork = [t \in Tasks |-> Promise!Nothing]
  BY <1>1, NoRows, WorkNext
<1> QED
  BY <1>1, <1>2 DEF DurableInv, PassIsThorough, RepeatsWait, Promise!Init

LEMMA SameCardinality == \A S : T!Cardinality(S) = Cardinality(S)
  BY DEF T!Cardinality, Cardinality

\* INSERT: the place of a new row is after all others.
LEMMA InsertIsAdd ==
  ASSUME DurableInv, NEW t \in Tasks, NEW deps \in SUBSET Tasks, NEW p \in Priorities,
         Insert(t, deps, p)
  PROVE  DurableInv' /\ Promise!Next
<1> DEFINE present == T!Present(rows)
           n == Cardinality(present) + 1
           new == [status |-> IF deps = {} THEN "ready" ELSE "pending", deps |-> deps,
                   priority |-> p, created |-> clock', place |-> n]
<1>1. /\ rows \in [Tasks -> T!TaskRecord] /\ clock \in Nat /\ clock' \in Nat /\ clock <= clock'
      /\ rows[t].status = "absent" /\ IsFiniteSet(present)
      /\ DependenciesDone(rows) /\ InOrder(rows, clock)
      /\ phase = "idle" /\ phase' = phase /\ left' = left
      /\ repeating' = repeating \/ (deps # {} /\ repeating' = repeating \cup {t})
      /\ RepeatsWait
  BY DEF DurableInv, InTable, Insert
<1>2. t \notin present
  BY <1>1 DEF T!Present, T!HasStatus
<1>3. rows' = [rows EXCEPT ![t] = new]
  <2>1. rows' = T!Added(rows, t, deps, p, clock')
    BY DEF Insert
  <2>2. rows' = [rows EXCEPT ![t] =
                   [status |-> IF deps = {} THEN "ready" ELSE "pending", deps |-> deps,
                    priority |-> p, created |-> clock',
                    place |-> IF t \in T!Present(rows) THEN rows[t].place
                              ELSE Cardinality(T!Present(rows)) + 1]]
    BY <2>1, SameCardinality, Zenon DEF T!Added
  <2> QED
    BY <1>2, <2>2
<1>4. n \in Nat /\ n - 1 = Cardinality(present) /\ n > 0
  BY <1>1, FS_CardinalityType
<1>5. /\ new.deps = deps /\ new.priority = p /\ new.created = clock' /\ new.place = n
      /\ new.status = IF deps = {} THEN "ready" ELSE "pending"
  OBVIOUS
<1>6. new \in T!TaskRecord
  BY <1>1, <1>4, DurableAssumption DEF T!TaskRecord, T!TaskStatus
<1> HIDE DEF new
<1>7. /\ rows'[t] = new /\ \A u \in Tasks \ {t} : rows'[u] = rows[u]
      /\ rows' \in [Tasks -> T!TaskRecord]
  BY <1>1, <1>3, <1>6
<1>8. T!Present(rows') = present \cup {t}
  BY <1>5, <1>7 DEF T!Present, T!HasStatus
<1>9. IsFiniteSet(T!Present(rows')) /\ Cardinality(T!Present(rows')) = n
  BY <1>1, <1>2, <1>8, FS_AddElement
<1>10. \A u \in present : /\ u \in Tasks \ {t}
                          /\ rows[u].place \in 1 .. (n - 1) /\ rows[u].created \in Nat
                          /\ rows[u].created <= clock
  BY <1>1, <1>2, <1>4, RowTyped DEF InOrder, T!Present
<1>11. DependenciesDone(rows')
  <2> SUFFICES ASSUME NEW u \in Tasks, rows'[u].status \in Begun
               PROVE  T!DepsCompleted(rows', u)
      BY DEF DependenciesDone
  <2>1. CASE u = t
    BY <1>5, <1>7, <2>1 DEF Begun, T!DepsCompleted
  <2>2. CASE u # t
    <3>1. T!DepsCompleted(rows, u) /\ rows[u].deps \subseteq Tasks
      BY <1>1, <1>7, <2>2, RowTyped DEF DependenciesDone
    <3> QED
      BY <1>1, <1>7, <2>2, <3>1 DEF T!DepsCompleted
  <2> QED
    BY <2>1, <2>2
<1> HIDE DEF n, present
<1>12. InOrder(rows', clock')
  <2>1. \A u \in Tasks : rows'[u].status = "absent" => rows'[u].place = 0
    BY <1>1, <1>5, <1>7 DEF InOrder
  <2>2. \A u \in present \cup {t} : rows'[u].place \in 1 .. n /\ rows'[u].created <= clock'
    BY <1>1, <1>4, <1>5, <1>7, <1>10
  <2>3. \A u, v \in present \cup {t} : u # v => rows'[u].place # rows'[v].place
    <3>1. \A u, v \in present : u # v => rows[u].place # rows[v].place
      BY <1>1 DEF InOrder, present
    <3> QED
      BY <1>4, <1>5, <1>7, <1>10, <3>1
  <2>4. \A u, v \in present \cup {t} :
          rows'[u].place < rows'[v].place => rows'[u].created <= rows'[v].created
    <3>1. \A u, v \in present : rows[u].place < rows[v].place => rows[u].created <= rows[v].created
      BY <1>1 DEF InOrder, present
    <3> QED
      BY <1>1, <1>4, <1>5, <1>7, <1>10, <3>1
  <2> QED
    BY <1>8, <1>9, <2>1, <2>2, <2>3, <2>4 DEF InOrder
<1>13. DurableInv'
  <2>1. InTable(rows, clock)'
    BY <1>1, <1>7, <1>9, <1>11, <1>12, InTableNext DEF InTable
  <2>2. left' = {} /\ PassIsThorough'
    BY <1>1, <1>7 DEF DurableInv, PassIsThorough
  <2>3. RepeatsWait'
    <3> SUFFICES ASSUME NEW u \in repeating'
                 PROVE  /\ u \in Tasks /\ rows'[u].deps # {}
                        /\ rows'[u].status \in {"pending", "cancelled"}
        BY DEF RepeatsWait
    <3>1. CASE u \in repeating /\ u # t
      BY <1>1, <1>7, <3>1 DEF RepeatsWait
    <3>2. CASE u = t
      <4>1. deps # {}
        BY <1>1, <3>2 DEF RepeatsWait
      <4> QED
        BY <1>5, <1>7, <3>2, <4>1
    <3> QED
      BY <1>1, <3>1, <3>2
  <2> QED
    BY <2>1, <2>2, <2>3 DEF DurableInv
<1>14. TableWork'[t] = [state |-> "waiting", deps |-> deps \cup (repeating' \cap {t}),
                        priority |-> p, arrival |-> n]
  BY <1>5, <1>7 DEF TableWork
<1>15. TableWork' = [TableWork EXCEPT ![t] = TableWork'[t]]
  <2>1. \A u \in Tasks \ {t} : TableWork'[u] = TableWork[u]
    <3>1. \A u \in Tasks \ {t} : repeating' \cap {u} = repeating \cap {u}
      BY <1>1
    <3> QED
      BY <1>7, <3>1 DEF TableWork
  <2>2. TableWork' = [u \in Tasks |-> TableWork'[u]] /\ TableWork = [u \in Tasks |-> TableWork[u]]
    BY DEF TableWork
  <2> QED
    BY <2>1, <2>2, Zenon
<1>16. \A u \in Tasks : TableWork[u].arrival < n
  <2>1. \A u \in Tasks : rows[u].place < n
    BY <1>1, <1>4, <1>10 DEF InOrder, present, T!Present, T!HasStatus
  <2> QED
    BY <2>1 DEF TableWork
<1>17. TableWork[t].state = "absent"
  BY <1>1 DEF TableWork
<1>18. TableWork'[t] \in Promise!Added
  BY <1>4, <1>14 DEF Promise!Added
<1>19. Promise!Add(t)
  BY <1>14, <1>15, <1>16, <1>17, <1>18 DEF Promise!Add
<1> QED
  BY <1>13, <1>19 DEF Promise!Next

\* A step that leaves the rows alone keeps all that is said of them.
LEMMA SameRows ==
  ASSUME DurableInv, rows' = rows, repeating' = repeating, clock' = clock,
         left' \subseteq Rows("pending"),
         phase' \in {"down", "idle"} => left' = {},
         phase' = "getting" => left' = Rows("pending")
  PROVE  DurableInv' /\ TableWork' = TableWork
<1>1. InTable(rows, clock)'
  BY InTableNext DEF DurableInv
<1>2. Rows("pending")' = Rows("pending")
  BY DEF Rows
<1>3. RepeatsWait' /\ PassIsThorough'
  BY <1>2 DEF DurableInv, PassIsThorough, RepeatsWait, T!DepsCompleted
<1> QED
  BY <1>1, <1>2, <1>3, WorkNext DEF DurableInv

\* A task that is ready has its dependencies completed.
LEMMA ReadyIsReady ==
  ASSUME DurableInv, NEW t \in Tasks, rows[t].status \in Begun
  PROVE  T!DepsCompleted(rows, t)
  BY DEF DurableInv, InTable, DependenciesDone

\* One UPDATE outside of a pass ends the call or begins the pass of complete().
LEMMA UpdateKeeps ==
  ASSUME DurableInv, NEW t \in Tasks,
         NEW s \in {"running", "completed", "failed", "cancelled"},
         rows[t].status \notin {"absent", "completed"},
         s \in Begun => rows[t].status \in Begun,
         Update(t, s), repeating' = repeating, clock' = clock, phase' # "getting",
         IF phase' = "completing" THEN left' = Rows("pending") /\ rows[t].status = "running"
                                  ELSE left' = {}
  PROVE  DurableInv' /\ TableWork' = [TableWork EXCEPT ![t].state = s]
<1>1. /\ InTable(rows', clock) /\ TableWork' = [TableWork EXCEPT ![t].state = s]
      /\ \A u \in Tasks : /\ rows'[u].status = IF u = t THEN s ELSE rows[u].status
                          /\ rows'[u].deps = rows[u].deps
  <2>1. InTable(rows, clock) /\ rows' = T!SetStatus(rows, t, s)
    BY DEF DurableInv, Update, T!SetStatus
  <2>2. s \in Begun => rows[t].status \in Begun \/ T!DepsCompleted(rows, t)
    OBVIOUS
  <2>3. s \in {"ready", "running", "completed", "failed", "cancelled"} /\ s # "ready"
    OBVIOUS
  <2>4. /\ InTable(rows', clock)
        /\ \A u \in Tasks : /\ rows'[u].status = IF u = t THEN s ELSE rows[u].status
                            /\ rows'[u].deps = rows[u].deps
        /\ TableWork' = [TableWork EXCEPT ![t].state = IF s = "ready" THEN "waiting"
                                                                ELSE s]
    BY <2>1, <2>2, <2>3, OneUpdate, WorkNext
  <2> QED
    BY <2>3, <2>4
<1>2. left' \subseteq Rows("pending")'
  BY <1>1 DEF Rows
<1>3. RepeatsWait'
  BY <1>1 DEF DurableInv, RepeatsWait, Begun
<1> QED
  BY <1>1, <1>2, <1>3, InTableNext DEF DurableInv, PassIsThorough

LEMMA WorkRunning ==
  ASSUME DurableInv, NEW t \in Tasks
  PROVE  /\ rows[t].status = "running" => TableWork[t].state = "running"
         /\ rows[t].status \in {"pending", "ready", "running", "failed"} =>
              TableWork[t].state \in {"waiting", "running", "failed"}
  BY DEF TableWork

LEMMA EndIsEnd ==
  ASSUME DurableInv, NEW t \in Tasks, CompleteRow(t) \/ FailRow(t) \/ CancelRow(t)
  PROVE  DurableInv' /\ Promise!Next
<1>1. CASE CompleteRow(t)
  <2>1. DurableInv' /\ TableWork' = [TableWork EXCEPT ![t].state = "completed"]
    BY <1>1, UpdateKeeps DEF CompleteRow, Begun
  <2>2. Promise!End(t, "completed")
    BY <1>1, <2>1, WorkRunning DEF CompleteRow, Promise!End
  <2> QED
    BY <2>1, <2>2 DEF Promise!Next
<1>2. CASE FailRow(t)
  <2>1. left' = {}
    BY <1>2 DEF FailRow, DurableInv
  <2>2. DurableInv' /\ TableWork' = [TableWork EXCEPT ![t].state = "failed"]
    BY <1>2, <2>1, UpdateKeeps DEF FailRow, Begun
  <2>3. Promise!End(t, "failed")
    BY <1>2, <2>2, WorkRunning DEF FailRow, Promise!End
  <2> QED
    BY <2>2, <2>3 DEF Promise!Next
<1>3. CASE CancelRow(t)
  <2>1. left' = {}
    BY <1>3 DEF CancelRow, DurableInv
  <2>2. DurableInv' /\ TableWork' = [TableWork EXCEPT ![t].state = "cancelled"]
    BY <1>3, <2>1, UpdateKeeps DEF CancelRow, Begun
  <2>3. Promise!Cancel(t)
    BY <1>3, <2>2, WorkRunning DEF CancelRow, Promise!Cancel
  <2> QED
    BY <2>2, <2>3 DEF Promise!Next
<1> QED
  BY <1>1, <1>2, <1>3

\* An UPDATE of a pass is no work: what waited still waits.
LEMMA ReadyIsNoWork ==
  ASSUME DurableInv, NEW t \in Tasks, ReadyRow(t)
  PROVE  DurableInv' /\ TableWork' = TableWork
<1>1. t \in left /\ left' = left \ {t} /\ phase' = phase /\ clock' = clock
      /\ rows[t].status = "pending" /\ InTable(rows, clock)
      /\ repeating' = repeating /\ RepeatsWait
  BY DEF ReadyRow, DurableInv, Rows
<1>2. CASE T!DepsCompleted(rows, t) /\ t \notin repeating
  <2>1. rows' = T!SetStatus(rows, t, "ready")
    BY <1>2 DEF ReadyRow, Update, T!SetStatus
  <2>2. /\ InTable(rows', clock)
        /\ \A u \in Tasks : /\ rows'[u].status = IF u = t THEN "ready" ELSE rows[u].status
                            /\ rows'[u].deps = rows[u].deps
        /\ TableWork' = [TableWork EXCEPT ![t].state = IF "ready" = "ready" THEN "waiting"
                                                                ELSE "ready"]
    BY <1>1, <1>2, <2>1, OneUpdate, WorkNext
  <2>3. TableWork[t].state = "waiting"
    BY <1>1 DEF TableWork
  <2>4. TableWork' = TableWork
    <3>1. TableWork = [u \in Tasks |-> TableWork[u]] /\ TableWork[t] =
            [state |-> "waiting", deps |-> rows[t].deps \cup (repeating \cap {t}), priority |-> rows[t].priority,
             arrival |-> rows[t].place]
      BY <1>1 DEF TableWork
    <3> QED
      BY <2>2, <2>3, <3>1
  <2>5. left' \subseteq Rows("pending")'
    BY <1>1, <2>2 DEF DurableInv, Rows
  <2>6. \A u \in Tasks : rows[u].deps \subseteq Tasks
    BY <1>1, RowTyped DEF InTable
  <2>7. \A u \in Tasks : T!DepsCompleted(rows', u) => T!DepsCompleted(rows, u)
    BY <1>1, <2>2, <2>6 DEF T!DepsCompleted
  <2>8. PassIsThorough'
    <3> SUFFICES ASSUME phase' = "getting", NEW u \in Tasks, rows'[u].status = "pending", u \notin left'
                 PROVE  u \in repeating \/ ~T!DepsCompleted(rows', u)
        BY <1>1 DEF PassIsThorough, Rows, T!DepsCompleted
    <3>1. u \in Rows("pending") \ left
      BY <1>1, <2>2 DEF Rows
    <3> QED
      BY <1>1, <2>7, <3>1 DEF DurableInv, PassIsThorough
  <2>9. RepeatsWait'
    BY <1>1, <1>2, <2>2 DEF RepeatsWait
  <2> QED
    BY <1>1, <2>2, <2>4, <2>5, <2>8, <2>9, InTableNext DEF DurableInv
<1>3. CASE t \in repeating \/ ~T!DepsCompleted(rows, t)
  <2>1. rows' = rows
    BY <1>3 DEF ReadyRow
  <2>2. PassIsThorough'
    BY <1>1, <1>3, <2>1 DEF DurableInv, PassIsThorough, Rows, T!DepsCompleted
  <2>3. left' \subseteq Rows("pending")'
    BY <1>1, <2>1 DEF DurableInv, Rows
  <2>4. RepeatsWait' /\ TableWork' = TableWork
    BY <1>1, <2>1, WorkNext DEF RepeatsWait
  <2> QED
    BY <1>1, <2>1, <2>2, <2>3, <2>4, InTableNext DEF DurableInv
<1> QED
  BY <1>2, <1>3

\* After a whole pass what can start is ready, and the SELECT takes the first.
LEMMA StartsTheFirst ==
  ASSUME DurableInv, NEW t \in Tasks, StartRow(t)
  PROVE  DurableInv' /\ Promise!Next
<1>1. /\ phase = "getting" /\ left = {} /\ rows[t].status = "ready"
      /\ \A u \in Tasks \ {t} : rows[u].status = "ready" => T!Before(rows, t, u)
      /\ InTable(rows, clock) /\ rows \in [Tasks -> T!TaskRecord]
  BY DEF StartRow, T!IsNext, T!HasStatus, DurableInv, InTable
<1>2. DurableInv' /\ TableWork' = [TableWork EXCEPT ![t].state = "running"]
  BY <1>1, UpdateKeeps DEF StartRow, Begun
<1>3. \A u \in Tasks : Promise!CanStart(u) <=>
        /\ rows[u].status \in {"pending", "ready"} /\ u \notin repeating
        /\ T!DepsCompleted(rows, u)
  <2> SUFFICES ASSUME NEW u \in Tasks
               PROVE  Promise!CanStart(u) <=>
                        /\ rows[u].status \in {"pending", "ready"} /\ u \notin repeating
                        /\ T!DepsCompleted(rows, u)
      OBVIOUS
  <2>1. rows[u].deps \subseteq Tasks /\ rows[u].status \in T!TaskStatus
    BY <1>1, RowTyped
  <2>2. TableWork[u].state = "waiting" <=> rows[u].status \in {"pending", "ready"}
    BY <2>1 DEF TableWork, T!TaskStatus
  <2>3. \A d \in Tasks : TableWork[d].state = "completed" <=> rows[d].status = "completed"
    BY DEF TableWork
  <2>4. TableWork[u].deps = rows[u].deps \cup (repeating \cap {u})
    BY DEF TableWork
  <2>5. (\A d \in TableWork[u].deps : TableWork[d].state = "completed") <=>
          T!DepsCompleted(rows, u) /\ (u \in repeating => rows[u].status = "completed")
    BY <2>1, <2>3, <2>4 DEF T!DepsCompleted
  <2> QED
    BY <2>2, <2>5 DEF Promise!CanStart
<1>4. Promise!CanStart(t)
  <2>1. t \notin repeating
    BY <1>1 DEF DurableInv, RepeatsWait
  <2> QED
    BY <1>1, <1>3, <2>1, ReadyIsReady DEF Begun
<1>5. ASSUME NEW u \in Tasks \ {t}, Promise!CanStart(u)
      PROVE  Promise!Before(t, u)
  <2>1. rows[u].status = "ready"
    BY <1>1, <1>3, <1>5 DEF DurableInv, PassIsThorough, Rows
  <2>2. T!Before(rows, t, u) /\ t \in T!Present(rows) /\ u \in T!Present(rows)
    BY <1>1, <2>1 DEF T!Present, T!HasStatus
  <2>3. /\ rows[t].place \in Nat /\ rows[u].place \in Nat
        /\ rows[t].created \in Nat /\ rows[u].created \in Nat
    BY <1>1, RowTyped
  <2>4. rows[t].place # rows[u].place
        /\ (rows[u].place < rows[t].place => rows[u].created <= rows[t].created)
    BY <1>1, <2>2 DEF InTable, InOrder
  <2>5. \/ rows[t].priority < rows[u].priority
        \/ rows[t].priority = rows[u].priority /\ rows[t].place < rows[u].place
    BY <2>2, <2>3, <2>4 DEF T!Before
  <2>6. \A v \in Tasks : TableWork[v].priority = rows[v].priority
                         /\ TableWork[v].arrival = rows[v].place
    BY DEF TableWork
  <2> QED
    BY <2>5, <2>6 DEF Promise!Before
<1>6. Promise!Start(t)
  BY <1>2, <1>4, <1>5 DEF Promise!Start
<1> QED
  BY <1>2, <1>6 DEF Promise!Next

LEMMA DeleteIsClear == DurableInv /\ DeleteRows => DurableInv' /\ Promise!Next
<1> SUFFICES ASSUME DurableInv, DeleteRows PROVE DurableInv' /\ Promise!Next
    OBVIOUS
<1>1. /\ rows' = T!EmptyQueue /\ clock' = clock /\ phase' = "idle" /\ left' = left
      /\ phase = "idle" /\ clock \in Nat /\ repeating' = {}
  BY DEF DeleteRows, DurableInv, InTable
<1>2. InTable(rows, clock)'
  BY <1>1, NoRows, InTableNext
<1>3. Promise!Clear
  BY <1>1, NoRows, WorkNext DEF Promise!Clear
<1> QED
  BY <1>1, <1>2, <1>3 DEF Promise!Next, DurableInv, PassIsThorough, RepeatsWait

\* Every step of the table keeps its invariant and is a step of the promise or none.
LEMMA TableKeeps ==
  DurableInv /\ [DurableNext]_durableVars => DurableInv' /\ [Promise!Next]_TableWork
<1> SUFFICES ASSUME DurableInv, [DurableNext]_durableVars
             PROVE  DurableInv' /\ [Promise!Next]_TableWork
    OBVIOUS
<1>1. CASE \/ \E t \in Tasks :
                 \/ \E deps \in SUBSET Tasks, p \in Priorities : Insert(t, deps, p)
                 \/ CompleteRow(t) \/ StartRow(t) \/ FailRow(t) \/ CancelRow(t)
           \/ DeleteRows
  BY <1>1, InsertIsAdd, EndIsEnd, StartsTheFirst, DeleteIsClear
<1>2. ASSUME NEW t \in Tasks, ReadyRow(t)
      PROVE  DurableInv' /\ TableWork' = TableWork
  BY <1>2, ReadyIsNoWork
<1>3. CASE BeginGetNext \/ CallReturns \/ ProcessEnds \/ Reopen
  <2>1. /\ rows' = rows /\ repeating' = repeating /\ clock' = clock
        /\ left' \subseteq Rows("pending")
        /\ phase' \in {"down", "idle"} => left' = {}
        /\ phase' = "getting" => left' = Rows("pending")
    BY <1>3 DEF BeginGetNext, CallReturns, ProcessEnds, Reopen, DurableInv
  <2> QED
    BY <2>1, SameRows
<1>4. CASE UNCHANGED durableVars
  <2>1. DurableInv'
    BY <1>4, InTableNext DEF durableVars, DurableInv, PassIsThorough, RepeatsWait, Rows,
                             T!DepsCompleted
  <2>2. TableWork' = TableWork
    BY <1>4, WorkNext DEF durableVars
  <2> QED
    BY <2>1, <2>2
<1> QED
  BY <1>1, <1>2, <1>3, <1>4, SameRows DEF DurableNext

\* The table does what OrderedWork promises, for any tasks, any lists of dependencies
\* and any priorities, wherever the process ends between two statements and another
\* goes on; a task whose list names a dependency twice is work that never can start
\* (sqlite-queue.ts:84-94, 112-124, 183-204).
THEOREM TableIsOrderedWork == DurableSpec => ImplementsOrderedWork
  BY RowsBegin, TableKeeps, PTL DEF DurableSpec, ImplementsOrderedWork, Promise!Spec

\* The rows and the clock stay as declared, a pass only ever has pending rows to look
\* at, and none is left behind when no call is under way or the process is down
\* (sqlite-queue.ts:84-94, 183-204).
THEOREM TableTyped == DurableSpec => []DurableTypeOK
<1> DEFINE Phased == /\ clock \in 0 .. MaxTime
                     /\ phase \in {"down", "idle", "completing", "getting"}
<1>1. DurableInit => Phased
  BY DurableAssumption DEF DurableInit
<1>2. DurableInv /\ Phased /\ [DurableNext]_durableVars => Phased'
  <2> SUFFICES ASSUME DurableInv, Phased, [DurableNext]_durableVars PROVE Phased'
    OBVIOUS
  <2>1. ASSUME NEW t \in Tasks, NEW deps \in SUBSET Tasks, NEW p \in Priorities, Insert(t, deps, p)
        PROVE  Phased'
    BY <2>1, DurableAssumption DEF Insert
  <2>2. ASSUME NEW t \in Tasks,
               CompleteRow(t) \/ ReadyRow(t) \/ StartRow(t) \/ FailRow(t) \/ CancelRow(t)
        PROVE  Phased'
    BY <2>2 DEF CompleteRow, ReadyRow, StartRow, FailRow, CancelRow
  <2>3. CASE BeginGetNext \/ CallReturns \/ DeleteRows \/ ProcessEnds \/ Reopen
    BY <2>3 DEF BeginGetNext, CallReturns, DeleteRows, ProcessEnds, Reopen
  <2>4. CASE UNCHANGED durableVars
    BY <2>4 DEF durableVars
  <2> QED
    BY <2>1, <2>2, <2>3, <2>4 DEF DurableNext
<1>3. DurableInv /\ Phased => DurableTypeOK
  BY DEF DurableInv, InTable, RepeatsWait, DurableTypeOK
<1> QED
  BY RowsBegin, TableKeeps, <1>1, <1>2, <1>3, PTL DEF DurableSpec

-----------------------------------------------------------------------------
(* The adapters of the language models.                                    *)

SomeCall == [index : Nat, pieces : Seq(Nat)]

\* The calls with the one in a line that is not complete yet.
CallsSoFar == IF buffer = "call"
           THEN Append(toolCalls, [index |-> Len(toolCalls) + 1, pieces |-> <<Len(stream)>>])
           ELSE toolCalls

\* How each provider numbers its calls.
Numbered ==
  /\ buffer \in {"", "text", "call"} /\ (buffer # "" => provider = "ollama")
  /\ provider \in {"gemini", "ollama"} => \A k \in DOMAIN toolCalls : toolCalls[k].index = k
  /\ provider = "anthropic" =>
       /\ \A k \in DOMAIN toolCalls : toolCalls[k].index <= block.index
       /\ block.call => \E k \in DOMAIN toolCalls : toolCalls[k].index = block.index

AdapterInv ==
  /\ stream \in Seq(Nat) /\ toolCalls \in Seq(SomeCall) /\ block \in [index : Nat, call : BOOLEAN]
  /\ reply \in {"none", "done", "error"}
  /\ passed = IF reply = "done" THEN toolCalls ELSE <<>>
  /\ Numbered /\ AreTheCalls(CallsSoFar, stream)

\* What is appended to a sequence.
LEMMA OneMore ==
  ASSUME NEW S, NEW s \in Seq(S), NEW e \in S
  PROVE  /\ Append(s, e) \in Seq(S) /\ Len(s) \in Nat
         /\ DOMAIN s = 1 .. Len(s) /\ DOMAIN Append(s, e) = 1 .. Len(s) + 1
         /\ Len(Append(s, e)) = Len(s) + 1
         /\ \A i \in 1 .. Len(s) : Append(s, e)[i] = s[i] /\ s[i] \in S
         /\ Append(s, e)[Len(s) + 1] = e
  OBVIOUS

LEMMA MoreOf ==
  ASSUME NEW S, NEW s \in Seq(S), NEW e \in S
  PROVE  ToSet(Append(s, e)) = ToSet(s) \cup {e}
  BY OneMore DEF ToSet

\* The pieces of the other calls are where they were ...
LEMMA OthersPieces ==
  ASSUME NEW s \in Seq(Nat), NEW i \in Nat, NEW j \in Nat, i # j, NEW pieces,
         AreThePieces(pieces, j, s)
  PROVE  AreThePieces(pieces, j, Append(s, i))
<1>1. {p \in DOMAIN Append(s, i) : Append(s, i)[p] = j} = {p \in DOMAIN s : s[p] = j}
  BY OneMore
<1> QED
  BY <1>1 DEF AreThePieces

\* ... and those of this one go up to the new place.
LEMMA OnePiece ==
  ASSUME NEW s \in Seq(Nat), NEW i \in Nat, NEW pieces \in Seq(Nat), AreThePieces(pieces, i, s)
  PROVE  AreThePieces(Append(pieces, Len(s) + 1), i, Append(s, i))
<1> DEFINE n == Len(s) + 1
           all == Append(pieces, n)
<1>1. /\ DOMAIN s = 1 .. Len(s) /\ DOMAIN Append(s, i) = 1 .. n /\ Len(s) \in Nat
      /\ \A p \in 1 .. Len(s) : Append(s, i)[p] = s[p]
      /\ Append(s, i)[n] = i
  BY OneMore
<1>2. /\ DOMAIN pieces = 1 .. Len(pieces) /\ DOMAIN all = 1 .. Len(pieces) + 1 /\ Len(pieces) \in Nat
      /\ \A p \in 1 .. Len(pieces) : all[p] = pieces[p] /\ pieces[p] \in Nat
      /\ all[Len(pieces) + 1] = n
  BY <1>1, OneMore
<1>3. ToSet(all) = ToSet(pieces) \cup {n}
  BY <1>1, MoreOf
<1>4. ToSet(pieces) = {p \in DOMAIN s : s[p] = i}
      /\ \A a, b \in DOMAIN pieces : a < b => pieces[a] < pieces[b]
  BY DEF AreThePieces
<1>5. {p \in DOMAIN Append(s, i) : Append(s, i)[p] = i} = {p \in DOMAIN s : s[p] = i} \cup {n}
  BY <1>1
<1>6. \A a \in 1 .. Len(pieces) : pieces[a] < n
  <2>1. \A a \in 1 .. Len(pieces) : pieces[a] \in ToSet(pieces)
    BY <1>2 DEF ToSet
  <2> QED
    BY <1>1, <1>4, <2>1
<1>7. \A a, b \in DOMAIN all : a < b => all[a] < all[b]
  BY <1>1, <1>2, <1>4, <1>6
<1> HIDE DEF all
<1>8. AreThePieces(all, i, Append(s, i))
  BY <1>3, <1>4, <1>5, <1>7 DEF AreThePieces
<1> QED
  BY <1>8 DEF all

LEMMA TextIsNoPiece ==
  ASSUME NEW s \in Seq(Nat), NEW calls \in Seq(SomeCall), AreTheCalls(calls, s)
  PROVE  AreTheCalls(calls, Append(s, 0))
<1>1. ToSet(Append(s, 0)) \ {0} = ToSet(s) \ {0}
  BY MoreOf
<1>2. \A k \in DOMAIN calls : calls[k].index # 0 /\ calls[k].index \in Nat
  <2>1. \A k \in DOMAIN calls : calls[k] \in SomeCall
    OBVIOUS
  <2>2. {calls[k].index : k \in DOMAIN calls} = ToSet(s) \ {0}
    BY DEF AreTheCalls
  <2> QED
    BY <2>1, <2>2 DEF SomeCall
<1>3. \A k \in DOMAIN calls : AreThePieces(calls[k].pieces, calls[k].index, Append(s, 0))
  BY <1>2, OthersPieces DEF AreTheCalls
<1> QED
  BY <1>1, <1>3 DEF AreTheCalls

\* No call is without a piece, and its pieces are places of the stream.
LEMMA HasPieces ==
  ASSUME NEW s \in Seq(Nat), NEW calls \in Seq(SomeCall), AreTheCalls(calls, s),
         NEW k \in DOMAIN calls
  PROVE  /\ calls[k].pieces \in Seq(Nat) /\ calls[k].index \in Nat \ {0}
         /\ calls[k].pieces # <<>> /\ Head(calls[k].pieces) \in 1 .. Len(s)
<1>1. calls[k] \in SomeCall
  OBVIOUS
<1>2. calls[k].pieces \in Seq(Nat) /\ calls[k].index \in Nat
  BY <1>1 DEF SomeCall
<1>3. calls[k].index \in ToSet(s) \ {0}
  BY DEF AreTheCalls
<1>4. ToSet(calls[k].pieces) = {p \in DOMAIN s : s[p] = calls[k].index}
  BY DEF AreTheCalls, AreThePieces
<1>5. ToSet(calls[k].pieces) # {}
  BY <1>3, <1>4 DEF ToSet
<1>6. calls[k].pieces # <<>>
  BY <1>5 DEF ToSet
<1>7. Head(calls[k].pieces) \in ToSet(calls[k].pieces)
  BY <1>2, <1>6 DEF ToSet
<1> QED
  BY <1>2, <1>3, <1>4, <1>6, <1>7

LEMMA OneCall ==
  ASSUME NEW s \in Seq(Nat), NEW calls \in Seq(SomeCall), AreTheCalls(calls, s),
         NEW i \in Nat \ {0}, \A k \in DOMAIN calls : calls[k].index # i
  PROVE  AreTheCalls(Append(calls, [index |-> i, pieces |-> <<Len(s) + 1>>]), Append(s, i))
<1> DEFINE n == Len(s) + 1
           one == [index |-> i, pieces |-> <<n>>]
           all == Append(calls, one)
<1>1. n \in Nat /\ one \in SomeCall /\ one.index = i /\ one.pieces = <<n>> /\ Head(one.pieces) = n
  BY DEF SomeCall
<1> HIDE DEF one
<1>2. /\ DOMAIN calls = 1 .. Len(calls) /\ DOMAIN all = 1 .. Len(calls) + 1 /\ Len(calls) \in Nat
      /\ \A k \in 1 .. Len(calls) : all[k] = calls[k]
      /\ all[Len(calls) + 1] = one
  BY <1>1, OneMore
<1> HIDE DEF all
<1>3. {all[k].index : k \in DOMAIN all} = {calls[k].index : k \in DOMAIN calls} \cup {i}
  <2>1. DOMAIN all = DOMAIN calls \cup {Len(calls) + 1} /\ Len(calls) + 1 \notin DOMAIN calls
    BY <1>2
  <2>2. all[Len(calls) + 1].index = i /\ \A k \in DOMAIN calls : all[k].index = calls[k].index
    BY <1>1, <1>2
  <2> QED
    BY <2>1, <2>2
<1>4. ToSet(Append(s, i)) = ToSet(s) \cup {i}
  BY MoreOf
<1>5. {all[k].index : k \in DOMAIN all} = ToSet(Append(s, i)) \ {0}
  BY <1>3, <1>4 DEF AreTheCalls
<1>6. \A k \in DOMAIN calls : AreThePieces(calls[k].pieces, calls[k].index, Append(s, i))
  BY HasPieces, OthersPieces DEF AreTheCalls
<1>7. AreThePieces(<<n>>, i, Append(s, i))
  <2>1. i \notin ToSet(s)
    BY DEF AreTheCalls
  <2>2. AreThePieces(<<>>, i, s)
    BY <2>1 DEF AreThePieces, ToSet
  <2>3. Append(<<>>, n) = <<n>> /\ <<>> \in Seq(Nat)
    OBVIOUS
  <2> QED
    BY <2>2, <2>3, OnePiece
<1>8. \A k \in DOMAIN all : AreThePieces(all[k].pieces, all[k].index, Append(s, i))
  <2>1. \A k \in 1 .. Len(calls) : AreThePieces(all[k].pieces, all[k].index, Append(s, i))
    BY <1>2, <1>6
  <2>2. AreThePieces(all[Len(calls) + 1].pieces, all[Len(calls) + 1].index, Append(s, i))
    BY <1>1, <1>2, <1>7
  <2>3. \A k \in DOMAIN all : k \in 1 .. Len(calls) \/ k = Len(calls) + 1
    BY <1>2
  <2> QED
    BY <2>1, <2>2, <2>3
<1>9. \A k, l \in DOMAIN all : k < l => Head(all[k].pieces) < Head(all[l].pieces)
  <2>1. \A k \in DOMAIN calls : Head(calls[k].pieces) \in 1 .. Len(s)
    BY HasPieces
  <2>2. \A k, l \in DOMAIN calls : k < l => Head(calls[k].pieces) < Head(calls[l].pieces)
    BY DEF AreTheCalls
  <2>3. \A k \in 1 .. Len(calls) : Head(all[k].pieces) = Head(calls[k].pieces)
    BY <1>2
  <2>4. Head(all[Len(calls) + 1].pieces) = n
    BY <1>1, <1>2
  <2> SUFFICES ASSUME NEW k \in DOMAIN all, NEW l \in DOMAIN all, k < l
               PROVE  Head(all[k].pieces) < Head(all[l].pieces)
    OBVIOUS
  <2>5. k \in 1 .. Len(calls) /\ (l \in 1 .. Len(calls) \/ l = Len(calls) + 1)
    BY <1>2
  <2>6. Head(all[k].pieces) = Head(calls[k].pieces) /\ Head(calls[k].pieces) \in 1 .. Len(s)
    BY <1>2, <2>1, <2>3, <2>5
  <2>7. CASE l \in 1 .. Len(calls)
    <3>1. Head(all[l].pieces) = Head(calls[l].pieces)
      BY <2>3, <2>7
    <3>2. Head(calls[k].pieces) < Head(calls[l].pieces)
      BY <1>2, <2>2, <2>5, <2>7
    <3> QED
      BY <2>6, <3>1, <3>2
  <2>8. CASE l = Len(calls) + 1
    BY <2>4, <2>6, <2>8
  <2> QED
    BY <2>5, <2>7, <2>8
<1>10. AreTheCalls(all, Append(s, i))
  BY <1>5, <1>8, <1>9 DEF AreTheCalls
<1> QED
  BY <1>10 DEF all, one

\* calls after a further piece of call i.
WithPiece(calls, s, i) ==
  [k \in DOMAIN calls |->
    IF calls[k].index = i THEN [calls[k] EXCEPT !.pieces = Append(@, Len(s) + 1)] ELSE calls[k]]

LEMMA MorePieces ==
  ASSUME NEW s \in Seq(Nat), NEW calls \in Seq(SomeCall), AreTheCalls(calls, s),
         NEW i \in Nat \ {0}, \E k \in DOMAIN calls : calls[k].index = i
  PROVE  /\ WithPiece(calls, s, i) \in Seq(SomeCall)
         /\ DOMAIN WithPiece(calls, s, i) = DOMAIN calls
         /\ \A k \in DOMAIN calls : WithPiece(calls, s, i)[k].index = calls[k].index
         /\ AreTheCalls(WithPiece(calls, s, i), Append(s, i))
<1> DEFINE n == Len(s) + 1
           all == WithPiece(calls, s, i)
<1>1. n \in Nat /\ DOMAIN calls = 1 .. Len(calls) /\ Len(calls) \in Nat
  OBVIOUS
<1>2. DOMAIN all = DOMAIN calls
  BY DEF WithPiece
<1>3. ASSUME NEW k \in DOMAIN calls
      PROVE  /\ all[k] \in SomeCall /\ all[k].index = calls[k].index
             /\ all[k].pieces = IF calls[k].index = i THEN Append(calls[k].pieces, n)
                                                      ELSE calls[k].pieces
  <2>1. calls[k] \in SomeCall
    OBVIOUS
  <2>2. calls[k].pieces \in Seq(Nat) /\ Append(calls[k].pieces, n) \in Seq(Nat)
    BY <1>1, <2>1 DEF SomeCall
  <2>3. CASE calls[k].index = i
    BY <1>1, <2>1, <2>2, <2>3 DEF SomeCall, WithPiece
  <2>4. CASE calls[k].index # i
    BY <1>1, <2>1, <2>4 DEF WithPiece
  <2> QED
    BY <2>3, <2>4
<1>4. all \in Seq(SomeCall)
  <2>1. all = [k \in 1 .. Len(calls) |-> all[k]]
    BY <1>1 DEF WithPiece
  <2>2. all \in [1 .. Len(calls) -> SomeCall]
    BY <1>1, <1>3, <2>1
  <2> HIDE DEF all
  <2> QED
    BY <1>1, <2>2
<1> HIDE DEF all
<1>5. {all[k].index : k \in DOMAIN all} = {calls[k].index : k \in DOMAIN calls}
  BY <1>2, <1>3
<1>6. {all[k].index : k \in DOMAIN all} = ToSet(Append(s, i)) \ {0}
  <2>1. ToSet(Append(s, i)) = ToSet(s) \cup {i}
    BY MoreOf
  <2>2. {calls[k].index : k \in DOMAIN calls} = ToSet(s) \ {0}
    BY DEF AreTheCalls
  <2>3. i \in {calls[k].index : k \in DOMAIN calls}
    OBVIOUS
  <2> QED
    BY <1>5, <2>1, <2>2, <2>3
<1>7. ASSUME NEW k \in DOMAIN calls
      PROVE  AreThePieces(all[k].pieces, all[k].index, Append(s, i))
  <2>1. AreThePieces(calls[k].pieces, calls[k].index, s)
    BY DEF AreTheCalls
  <2>2. calls[k].pieces \in Seq(Nat) /\ calls[k].index \in Nat
    BY HasPieces
  <2>3. CASE calls[k].index = i
    BY <1>3, <2>1, <2>2, <2>3, OnePiece
  <2>4. CASE calls[k].index # i
    BY <1>3, <2>1, <2>2, <2>4, OthersPieces
  <2> QED
    BY <2>3, <2>4
<1>8. ASSUME NEW k \in DOMAIN calls
      PROVE  Head(all[k].pieces) = Head(calls[k].pieces)
  <2>1. calls[k].pieces \in Seq(Nat) /\ calls[k].pieces # <<>>
    BY HasPieces
  <2>2. Head(Append(calls[k].pieces, n)) = Head(calls[k].pieces)
    BY <1>1, <2>1
  <2> QED
    BY <1>3, <2>2
<1>9. \A k, l \in DOMAIN all : k < l => Head(all[k].pieces) < Head(all[l].pieces)
  BY <1>2, <1>8 DEF AreTheCalls
<1>10. AreTheCalls(all, Append(s, i))
  BY <1>2, <1>6, <1>7, <1>9 DEF AreTheCalls
<1> QED
  BY <1>2, <1>3, <1>4, <1>10 DEF all

\* calls after the first piece of call i, and after a piece that may be the first.
WithCall(calls, s, i) == Append(calls, [index |-> i, pieces |-> <<Len(s) + 1>>])

WithEither(calls, s, i) ==
  IF \A k \in DOMAIN calls : calls[k].index # i THEN WithCall(calls, s, i) ELSE WithPiece(calls, s, i)

LEMMA NewCall ==
  ASSUME NEW s \in Seq(Nat), NEW calls \in Seq(SomeCall), AreTheCalls(calls, s),
         NEW i \in Nat \ {0}, \A k \in DOMAIN calls : calls[k].index # i
  PROVE  /\ WithCall(calls, s, i) \in Seq(SomeCall)
         /\ AreTheCalls(WithCall(calls, s, i), Append(s, i))
         /\ DOMAIN calls = 1 .. Len(calls) /\ Len(calls) \in Nat
         /\ DOMAIN WithCall(calls, s, i) = 1 .. Len(calls) + 1
         /\ WithCall(calls, s, i)[Len(calls) + 1].index = i
         /\ \A k \in DOMAIN calls : WithCall(calls, s, i)[k] = calls[k]
<1> DEFINE n == Len(s) + 1
           one == [index |-> i, pieces |-> <<n>>]
<1>1. n \in Nat /\ one \in SomeCall /\ one.index = i
  BY DEF SomeCall
<1>2. AreTheCalls(Append(calls, one), Append(s, i))
  BY OneCall
<1> HIDE DEF one
<1>3. /\ Append(calls, one) \in Seq(SomeCall)
      /\ DOMAIN calls = 1 .. Len(calls) /\ Len(calls) \in Nat
      /\ DOMAIN Append(calls, one) = 1 .. Len(calls) + 1
      /\ Append(calls, one)[Len(calls) + 1] = one
      /\ \A k \in DOMAIN calls : Append(calls, one)[k] = calls[k]
  BY <1>1, OneMore
<1>4. WithCall(calls, s, i) = Append(calls, one)
  BY DEF WithCall, one
<1> QED
  BY <1>1, <1>2, <1>3, <1>4

LEMMA EitherPiece ==
  ASSUME NEW s \in Seq(Nat), NEW calls \in Seq(SomeCall), AreTheCalls(calls, s),
         NEW i \in Nat \ {0}
  PROVE  /\ WithEither(calls, s, i) \in Seq(SomeCall)
         /\ AreTheCalls(WithEither(calls, s, i), Append(s, i))
<1>1. CASE \A k \in DOMAIN calls : calls[k].index # i
  BY <1>1, NewCall DEF WithEither
<1>2. CASE \E k \in DOMAIN calls : calls[k].index = i
  <2>1. WithEither(calls, s, i) = WithPiece(calls, s, i)
    BY <1>2 DEF WithEither
  <2> QED
    BY <1>2, <2>1, MorePieces
<1> QED
  BY <1>1, <1>2

LEMMA AdapterBegins == AdapterInit => AdapterInv
<1> SUFFICES ASSUME AdapterInit PROVE AdapterInv
  OBVIOUS
<1>1. /\ stream = <<>> /\ toolCalls = <<>> /\ passed = <<>> /\ buffer = "" /\ reply = "none"
      /\ block = [index |-> 0, call |-> FALSE]
  BY DEF AdapterInit
<1>2. AreTheCalls(<<>>, <<>>)
  BY DEF AreTheCalls, ToSet
<1>3. CallsSoFar = <<>> /\ stream = <<>>
  BY <1>1 DEF CallsSoFar
<1>4. AreTheCalls(CallsSoFar, stream)
  BY <1>2, <1>3
<1>5. Numbered
  <2>1. toolCalls = <<>> /\ block = [index |-> 0, call |-> FALSE] /\ buffer = ""
    BY <1>1
  <2>2. DOMAIN toolCalls = {}
    <3>1. DOMAIN <<>> = {}
      OBVIOUS
    <3> QED
      BY <2>1, <3>1, Zenon
  <2>3. block.call = FALSE
    BY <2>1
  <2> QED
    BY <2>1, <2>2, <2>3 DEF Numbered
<1>6. stream \in Seq(Nat) /\ toolCalls \in Seq(SomeCall)
  <2>1. <<>> \in Seq(Nat) /\ <<>> \in Seq(SomeCall)
    OBVIOUS
  <2> QED
    BY <1>1, <2>1, Zenon
<1>7. [index |-> 0, call |-> FALSE] \in [index : Nat, call : BOOLEAN]
  OBVIOUS
<1>8. reply \in {"none", "done", "error"} /\ passed = IF reply = "done" THEN toolCalls ELSE <<>>
  BY <1>1
<1> QED
  BY <1>1, <1>4, <1>5, <1>6, <1>7, <1>8 DEF AdapterInv

LEMMA HasIndex ==
  ASSUME NEW calls \in Seq(SomeCall), NEW k \in DOMAIN calls
  PROVE  calls[k] \in SomeCall /\ calls[k].index \in Nat
<1>1. calls[k] \in SomeCall
  OBVIOUS
<1> QED
  BY <1>1 DEF SomeCall

LEMMA NextNumber ==
  ASSUME NEW i \in Nat, NEW j \in Nat, i <= j
  PROVE  i # j + 1 /\ i <= j + 1
  OBVIOUS

LEMMA AdapterKeeps == AdapterInv /\ [AdapterNext]_adapterVars => AdapterInv'
<1> SUFFICES ASSUME AdapterInv, [AdapterNext]_adapterVars PROVE AdapterInv'
  OBVIOUS
<1>1. /\ stream \in Seq(Nat) /\ toolCalls \in Seq(SomeCall) /\ block \in [index : Nat, call : BOOLEAN]
      /\ block.index \in Nat
  BY DEF AdapterInv
<1>2. /\ reply \in {"none", "done", "error"}
      /\ passed = IF reply = "done" THEN toolCalls ELSE <<>>
  BY DEF AdapterInv
<1>3. Numbered /\ AreTheCalls(CallsSoFar, stream)
  BY DEF AdapterInv
<1>4. buffer = "" => AreTheCalls(toolCalls, stream)
  BY <1>3 DEF CallsSoFar
<1>5. \A i \in Nat : Append(stream, i) \in Seq(Nat) /\ Len(Append(stream, i)) = Len(stream) + 1
  BY <1>1
<1>6. \A k \in DOMAIN toolCalls : toolCalls[k].index \in Nat /\ toolCalls[k] \in SomeCall
  BY <1>1, HasIndex
<1>7. DOMAIN toolCalls = 1 .. Len(toolCalls) /\ Len(toolCalls) \in Nat
  BY <1>1
\* What a step that hears something leaves to show.
<1>8. ASSUME NEW i \in Nat, Says(i), block' \in [index : Nat, call : BOOLEAN],
             toolCalls' \in Seq(SomeCall), Numbered',
             AreTheCalls(CallsSoFar', Append(stream, i))
      PROVE  AdapterInv'
  BY <1>2, <1>5, <1>8 DEF AdapterInv, Says
<1>9. ASSUME NEW i \in Indices, OpenAIPiece(i) PROVE AdapterInv'
  <2>1. /\ provider = "openai" /\ provider' = provider /\ Says(i) /\ buffer' = buffer /\ block' = block
        /\ toolCalls' = Accumulate(i)
    BY <1>9 DEF OpenAIPiece, Says
  <2>2. i \in Nat \ {0}
    BY AdapterAssumption DEF Indices
  <2>6. buffer = "" /\ Numbered'
    BY <1>3, <2>1 DEF Numbered
  <2>3. toolCalls' = WithEither(toolCalls, stream, i)
    BY <2>1 DEF Accumulate, New, WithEither, WithCall, WithPiece
  <2>4. toolCalls' \in Seq(SomeCall) /\ AreTheCalls(toolCalls', Append(stream, i))
    BY <1>1, <1>4, <2>2, <2>3, <2>6, EitherPiece
  <2>5. CallsSoFar' = toolCalls'
    BY <2>1, <2>6 DEF CallsSoFar
  <2> QED
    BY <1>1, <1>8, <2>1, <2>2, <2>4, <2>5, <2>6
<1>10. ASSUME BlockStart(TRUE) PROVE AdapterInv'
  <2> DEFINE i == block.index + 1
  <2>1. /\ provider = "anthropic" /\ provider' = provider /\ Says(i) /\ buffer' = buffer
        /\ block' = [index |-> i, call |-> TRUE] /\ toolCalls' = WithCall(toolCalls, stream, i)
    BY <1>10 DEF BlockStart, Says, New, WithCall
  <2>2. i \in Nat \ {0} /\ block' \in [index : Nat, call : BOOLEAN]
        /\ block'.index = i /\ block'.call = TRUE
    BY <1>1, <2>1
  <2>3. buffer = "" /\ \A k \in DOMAIN toolCalls : toolCalls[k].index <= block.index
    BY <1>3, <2>1 DEF Numbered
  <2>4. \A k \in DOMAIN toolCalls : toolCalls[k].index # i /\ toolCalls[k].index <= i
    <3> SUFFICES ASSUME NEW k \in DOMAIN toolCalls
                 PROVE  toolCalls[k].index # i /\ toolCalls[k].index <= i
      OBVIOUS
    <3> QED
      BY <1>1, <1>6, <2>3, NextNumber
  <2> HIDE DEF i
  <2>5. /\ toolCalls' \in Seq(SomeCall) /\ AreTheCalls(toolCalls', Append(stream, i))
        /\ DOMAIN toolCalls' = 1 .. Len(toolCalls) + 1
        /\ toolCalls'[Len(toolCalls) + 1].index = i
        /\ \A k \in DOMAIN toolCalls : toolCalls'[k] = toolCalls[k]
    <3>1. AreTheCalls(toolCalls, stream)
      BY <1>4, <2>3
    <3>2. \A k \in DOMAIN toolCalls : toolCalls[k].index # i
      BY <2>4
    <3>3. /\ WithCall(toolCalls, stream, i) \in Seq(SomeCall)
          /\ AreTheCalls(WithCall(toolCalls, stream, i), Append(stream, i))
          /\ DOMAIN WithCall(toolCalls, stream, i) = 1 .. Len(toolCalls) + 1
          /\ WithCall(toolCalls, stream, i)[Len(toolCalls) + 1].index = i
          /\ \A k \in DOMAIN toolCalls : WithCall(toolCalls, stream, i)[k] = toolCalls[k]
      BY <1>1, <2>2, <3>1, <3>2, NewCall
    <3> QED
      BY <2>1, <3>3
  <2>6. \A k \in DOMAIN toolCalls' : toolCalls'[k].index <= i
    <3>1. \A k \in DOMAIN toolCalls' : k \in DOMAIN toolCalls \/ k = Len(toolCalls) + 1
      BY <1>7, <2>5
    <3>2. i <= i
      BY <2>2
    <3> QED
      BY <2>4, <2>5, <3>1, <3>2
  <2>7. \E k \in DOMAIN toolCalls' : toolCalls'[k].index = i
    BY <1>7, <2>5
  <2>8. Numbered'
    BY <2>1, <2>2, <2>3, <2>6, <2>7 DEF Numbered
  <2>9. CallsSoFar' = toolCalls'
    BY <2>1, <2>3 DEF CallsSoFar
  <2> QED
    BY <1>8, <2>1, <2>2, <2>5, <2>8, <2>9
<1>11. ASSUME BlockStart(FALSE) PROVE AdapterInv'
  <2>1. /\ provider = "anthropic" /\ provider' = provider /\ Says(0) /\ buffer' = buffer
        /\ block' = [index |-> block.index + 1, call |-> FALSE] /\ toolCalls' = toolCalls
    BY <1>11 DEF BlockStart, Says
  <2>2. block' \in [index : Nat, call : BOOLEAN] /\ block'.index = block.index + 1 /\ block'.call = FALSE
    BY <1>1, <2>1
  <2>3. buffer = "" /\ \A k \in DOMAIN toolCalls : toolCalls[k].index <= block.index
    BY <1>3, <2>1 DEF Numbered
  <2>4. \A k \in DOMAIN toolCalls' : toolCalls'[k].index <= block'.index
    <3> SUFFICES ASSUME NEW k \in DOMAIN toolCalls
                 PROVE  toolCalls[k].index <= block'.index
      BY <2>1
    <3>1. toolCalls[k].index \in Nat /\ toolCalls[k].index <= block.index
      BY <1>6, <2>3
    <3>2. toolCalls[k].index <= block.index + 1
      BY <1>1, <3>1, NextNumber
    <3> QED
      BY <2>2, <3>2
  <2>5. Numbered'
    BY <2>1, <2>2, <2>3, <2>4 DEF Numbered
  <2>6. CallsSoFar' = toolCalls
    BY <2>1, <2>3 DEF CallsSoFar
  <2>7. AreTheCalls(CallsSoFar', Append(stream, 0))
    BY <1>1, <1>4, <2>3, <2>6, TextIsNoPiece
  <2> QED
    BY <1>1, <1>8, <2>1, <2>2, <2>5, <2>7
<1>12. ASSUME BlockDelta PROVE AdapterInv'
  <2> DEFINE i == block.index
  <2>1. /\ provider = "anthropic" /\ provider' = provider /\ Says(i) /\ buffer' = buffer
        /\ block' = block /\ block.call /\ toolCalls' = Accumulate(i)
    BY <1>12 DEF BlockDelta, Says
  <2>2. /\ buffer = "" /\ \A k \in DOMAIN toolCalls : toolCalls[k].index <= i
        /\ \E k \in DOMAIN toolCalls : toolCalls[k].index = i
    BY <1>3, <2>1 DEF Numbered
  <2>3. AreTheCalls(toolCalls, stream)
    BY <1>4, <2>2
  <2>4. i \in Nat \ {0}
    BY <1>1, <2>2, <2>3, HasPieces
  <2> HIDE DEF i
  <2>5. toolCalls' = WithPiece(toolCalls, stream, i)
    BY <2>1, <2>2 DEF Accumulate, WithPiece
  <2>6. /\ WithPiece(toolCalls, stream, i) \in Seq(SomeCall)
        /\ DOMAIN WithPiece(toolCalls, stream, i) = DOMAIN toolCalls
        /\ \A k \in DOMAIN toolCalls :
             WithPiece(toolCalls, stream, i)[k].index = toolCalls[k].index
        /\ AreTheCalls(WithPiece(toolCalls, stream, i), Append(stream, i))
    BY <1>1, <2>2, <2>3, <2>4, MorePieces
  <2>7. /\ toolCalls' \in Seq(SomeCall) /\ DOMAIN toolCalls' = DOMAIN toolCalls
        /\ \A k \in DOMAIN toolCalls : toolCalls'[k].index = toolCalls[k].index
        /\ AreTheCalls(toolCalls', Append(stream, i))
    BY <2>5, <2>6
  <2>8. Numbered'
    BY <2>1, <2>2, <2>7 DEF Numbered, i
  <2>9. CallsSoFar' = toolCalls'
    BY <2>1, <2>2 DEF CallsSoFar
  <2> QED
    BY <1>1, <1>8, <2>1, <2>4, <2>7, <2>8, <2>9
<1> DEFINE next == Len(toolCalls) + 1
<1>13. next \in Nat \ {0}
  BY <1>7
\* Gemini and Ollama number their calls by their place.
<1>14. ASSUME provider \in {"gemini", "ollama"}, buffer = ""
       PROVE  /\ WithCall(toolCalls, stream, next) \in Seq(SomeCall)
              /\ AreTheCalls(WithCall(toolCalls, stream, next), Append(stream, next))
              /\ \A k \in DOMAIN WithCall(toolCalls, stream, next) :
                   WithCall(toolCalls, stream, next)[k].index = k
  <2>1. \A k \in DOMAIN toolCalls : toolCalls[k].index = k
    BY <1>3, <1>14 DEF Numbered
  <2>2. \A k \in DOMAIN toolCalls : toolCalls[k].index # next
    BY <1>7, <2>1
  <2>3. AreTheCalls(toolCalls, stream)
    BY <1>4, <1>14
  <2> HIDE DEF next
  <2>4. /\ WithCall(toolCalls, stream, next) \in Seq(SomeCall)
        /\ AreTheCalls(WithCall(toolCalls, stream, next), Append(stream, next))
        /\ DOMAIN WithCall(toolCalls, stream, next) = 1 .. Len(toolCalls) + 1
        /\ WithCall(toolCalls, stream, next)[Len(toolCalls) + 1].index = next
        /\ \A k \in DOMAIN toolCalls : WithCall(toolCalls, stream, next)[k] = toolCalls[k]
    BY <1>1, <1>13, <2>2, <2>3, NewCall
  <2>5. \A k \in 1 .. Len(toolCalls) + 1 : k \in DOMAIN toolCalls \/ k = Len(toolCalls) + 1
    BY <1>7
  <2>6. next = Len(toolCalls) + 1
    BY DEF next
  <2> QED
    BY <2>1, <2>4, <2>5, <2>6
<1> HIDE DEF next
<1>15. ASSUME WholeCall PROVE AdapterInv'
  <2>1. /\ provider = "gemini" /\ provider' = provider /\ Says(next) /\ buffer' = buffer
        /\ block' = block /\ toolCalls' = WithCall(toolCalls, stream, next)
    BY <1>15 DEF WholeCall, Says, New, WithCall, next
  <2>2. buffer = ""
    BY <1>3, <2>1 DEF Numbered
  <2>3. Numbered'
    BY <1>14, <2>1, <2>2 DEF Numbered
  <2>4. CallsSoFar' = toolCalls'
    BY <2>1, <2>2 DEF CallsSoFar
  <2> QED
    BY <1>1, <1>8, <1>13, <1>14, <2>1, <2>2, <2>3, <2>4
<1>16. ASSUME HalfLine("call") PROVE AdapterInv'
  <2>1. /\ provider = "ollama" /\ provider' = provider /\ Says(next) /\ buffer = "" /\ buffer' = "call"
        /\ block' = block /\ toolCalls' = toolCalls /\ stream' = Append(stream, next)
    BY <1>16 DEF HalfLine, Says, next
  <2>2. Len(stream') = Len(stream) + 1
    BY <1>5, <1>13, <2>1
  <2>3. CallsSoFar' = WithCall(toolCalls, stream, next)
    BY <2>1, <2>2 DEF CallsSoFar, WithCall, next
  <2>4. Numbered'
    BY <1>3, <2>1 DEF Numbered
  <2> QED
    BY <1>1, <1>8, <1>13, <1>14, <2>1, <2>3, <2>4
<1>17. ASSUME HalfLine("text") PROVE AdapterInv'
  <2>1. /\ provider = "ollama" /\ provider' = provider /\ Says(0) /\ buffer = "" /\ buffer' = "text"
        /\ block' = block /\ toolCalls' = toolCalls
    BY <1>17 DEF HalfLine, Says
  <2>2. CallsSoFar' = toolCalls
    BY <2>1 DEF CallsSoFar
  <2>3. AreTheCalls(CallsSoFar', Append(stream, 0))
    BY <1>1, <1>4, <2>1, <2>2, TextIsNoPiece
  <2>4. Numbered'
    BY <1>3, <2>1 DEF Numbered
  <2> QED
    BY <1>1, <1>8, <2>1, <2>3, <2>4
<1>18. ASSUME RestOfLine PROVE AdapterInv'
  <2>1. /\ buffer # "" /\ buffer' = "" /\ provider' = provider /\ stream' = stream /\ block' = block
        /\ passed' = passed /\ reply = "none" /\ reply' = reply
        /\ toolCalls' = IF buffer = "text" THEN toolCalls
             ELSE Append(toolCalls, [index |-> next, pieces |-> <<Len(stream)>>])
    BY <1>18 DEF RestOfLine, next
  <2>2. provider = "ollama" /\ \A k \in DOMAIN toolCalls : toolCalls[k].index = k
    BY <1>3, <2>1 DEF Numbered
  <2>3. /\ toolCalls' \in Seq(SomeCall)
        /\ \A k \in DOMAIN toolCalls' : toolCalls'[k].index = k
    <3> DEFINE one == [index |-> next, pieces |-> <<Len(stream)>>]
    <3>1. one \in SomeCall /\ one.index = next
      <4>1. Len(stream) \in Nat
        BY <1>1
      <4> QED
        BY <1>13, <4>1 DEF SomeCall
    <3> HIDE DEF one
    <3>2. /\ Append(toolCalls, one) \in Seq(SomeCall)
          /\ DOMAIN Append(toolCalls, one) = 1 .. Len(toolCalls) + 1
          /\ \A k \in 1 .. Len(toolCalls) : Append(toolCalls, one)[k] = toolCalls[k]
          /\ Append(toolCalls, one)[Len(toolCalls) + 1] = one
      BY <1>1, <3>1, OneMore
    <3>3. \A k \in 1 .. Len(toolCalls) + 1 : k \in DOMAIN toolCalls \/ k = Len(toolCalls) + 1
      BY <1>7
    <3>4. \A k \in DOMAIN Append(toolCalls, one) : Append(toolCalls, one)[k].index = k
      BY <1>7, <2>2, <3>1, <3>2, <3>3 DEF next
    <3>5. toolCalls' = toolCalls \/ toolCalls' = Append(toolCalls, one)
      BY <2>1 DEF one
    <3> QED
      BY <1>1, <2>2, <3>2, <3>4, <3>5
  <2>4. CallsSoFar' = CallsSoFar
    <3>1. buffer \in {"text", "call"}
      BY <1>3, <2>1 DEF Numbered
    <3> QED
      BY <2>1, <3>1 DEF CallsSoFar, next
  <2>5. Numbered'
    BY <2>1, <2>2, <2>3 DEF Numbered
  <2> QED
    BY <1>1, <1>2, <1>3, <2>1, <2>3, <2>4, <2>5 DEF AdapterInv
<1>19. ASSUME StreamEnds \/ StreamFails PROVE AdapterInv'
  <2>1. /\ provider' = provider /\ stream' = stream /\ toolCalls' = toolCalls
        /\ block' = block /\ buffer' = buffer /\ reply = "none"
    BY <1>19 DEF StreamEnds, StreamFails
  <2>2. \/ reply' = "done" /\ passed' = toolCalls
        \/ reply' = "error" /\ passed' = passed
    BY <1>19 DEF StreamEnds, StreamFails
  <2>3. reply' \in {"none", "done", "error"} /\ passed' = IF reply' = "done" THEN toolCalls' ELSE <<>>
    BY <1>2, <2>1, <2>2
  <2>4. Numbered'
    BY <1>3, <2>1 DEF Numbered
  <2>5. CallsSoFar' = CallsSoFar
    BY <2>1 DEF CallsSoFar
  <2> QED
    BY <1>1, <1>3, <2>1, <2>3, <2>4, <2>5 DEF AdapterInv
<1>20. ASSUME UNCHANGED adapterVars PROVE AdapterInv'
  <2>1. /\ provider' = provider /\ stream' = stream /\ toolCalls' = toolCalls /\ passed' = passed
        /\ block' = block /\ buffer' = buffer /\ reply' = reply
    BY <1>20 DEF adapterVars
  <2>2. Numbered'
    BY <1>3, <2>1 DEF Numbered
  <2>3. CallsSoFar' = CallsSoFar
    BY <2>1 DEF CallsSoFar
  <2> QED
    BY <1>1, <1>2, <1>3, <2>1, <2>2, <2>3 DEF AdapterInv
<1>21. CASE \E one \in BOOLEAN : BlockStart(one)
  BY <1>10, <1>11, <1>21
<1>22. CASE \E i \in {"text", "call"} : HalfLine(i)
  BY <1>16, <1>17, <1>22
<1> QED
  BY <1>9, <1>12, <1>15, <1>18, <1>19, <1>20, <1>21, <1>22 DEF AdapterNext

\* Whatever the number of indices and the length of the stream: the loop gets every
\* call of a stream that ended, whole and in the order they began, and none of one
\* that failed (packages/llm/src/adapters).
THEOREM CallsArriveWhole == AdapterSpec => []CallsAreWhole
<1>1. AdapterInv => CallsAreWhole
  BY DEF AdapterInv, CallsAreWhole, CallsSoFar
<1> QED
  BY <1>1, AdapterBegins, AdapterKeeps, PTL DEF AdapterSpec

\* A block is numbered once it begins, and a line that is cut is the beginning of one
\* call more.
AdapterTypes ==
  /\ AdapterTypeOK
  /\ block.call => block.index # 0
  /\ buffer = "call" => Len(toolCalls) < MaxCalls
  /\ buffer # "" => stream # <<>> /\ provider = "ollama"

LEMMA NewTyped ==
  ASSUME NEW i \in Indices, toolCalls \in Seq(Partial), stream \in Seq({0} \cup Indices),
         Len(stream) < MaxPieces
  PROVE  /\ New(i) \in Seq(Partial) /\ Len(New(i)) = Len(toolCalls) + 1
         /\ Accumulate(i) \in Seq(Partial)
<1>1. PICK n \in 1 .. MaxPieces : n = Len(stream) + 1
  BY AdapterAssumption
<1>2. <<n>> \in Seq(1 .. MaxPieces)
  OBVIOUS
<1>3. [index |-> i, pieces |-> <<n>>] \in Partial
  BY <1>2, Zenon DEF Partial
<1>4. Append(toolCalls, [index |-> i, pieces |-> <<n>>]) \in Seq(Partial)
      /\ Len(Append(toolCalls, [index |-> i, pieces |-> <<n>>])) = Len(toolCalls) + 1
  BY <1>3
<1>5. New(i) = Append(toolCalls, [index |-> i, pieces |-> <<n>>])
  BY <1>1, Zenon DEF New
<1>6. ASSUME NEW c \in Partial PROVE [c EXCEPT !.pieces = Append(@, n)] \in Partial
  <2>1. c.pieces \in Seq(1 .. MaxPieces)
    BY DEF Partial
  <2>2. Append(c.pieces, n) \in Seq(1 .. MaxPieces)
    BY <2>1
  <2> QED
    BY <2>2 DEF Partial
<1>7. PICK size \in Nat : size = Len(toolCalls)
  OBVIOUS
<1>8. DOMAIN toolCalls = 1 .. size /\ \A k \in DOMAIN toolCalls : toolCalls[k] \in Partial
  BY <1>7
<1> DEFINE longer == [k \in DOMAIN toolCalls |->
                        IF toolCalls[k].index = i
                          THEN [toolCalls[k] EXCEPT !.pieces = Append(@, n)]
                          ELSE toolCalls[k]]
<1>9. longer \in [1 .. size -> Partial]
  BY <1>6, <1>8, Zenon
<1>10. Accumulate(i) = New(i) \/ Accumulate(i) = longer
  BY <1>1, Zenon DEF Accumulate
<1> HIDE DEF longer
<1>11. longer \in Seq(Partial)
  BY <1>9, IsASeq
<1>12. Accumulate(i) \in Seq(Partial)
  BY <1>4, <1>5, <1>10, <1>11, Zenon
<1> QED
  BY <1>4, <1>5, <1>12, Zenon

LEMMA AdapterTypesBegin == AdapterInit => AdapterTypes
<1> SUFFICES ASSUME AdapterInit PROVE AdapterTypes
  OBVIOUS
<1>1. /\ stream \in Seq({0} \cup Indices)
      /\ Len(stream) <= MaxPieces
      /\ toolCalls \in Seq(Partial)
      /\ passed \in Seq(Partial)
  <2>1. /\ stream = <<>>
        /\ toolCalls = <<>>
        /\ passed = <<>>
    BY DEF AdapterInit
  <2>2. /\ <<>> \in Seq({0} \cup Indices)
        /\ <<>> \in Seq(Partial)
        /\ Len(<<>>) = 0
    BY EmptySeq, Zenon
  <2> QED
    BY <2>1, <2>2, AdapterAssumption
<1>2. block \in [index : {0} \cup Indices, call : BOOLEAN] /\ ~block.call
  BY DEF AdapterInit
<1> QED
  BY <1>1, <1>2 DEF AdapterInit, AdapterTypes, AdapterTypeOK

\* What everything the provider says does to the stream.
LEMMA SaysTyped ==
  ASSUME AdapterTypes, NEW i \in {0} \cup Indices, Says(i)
  PROVE  /\ stream' \in Seq({0} \cup Indices) /\ Len(stream') <= MaxPieces /\ stream' # <<>>
         /\ Len(stream) < MaxPieces
         /\ provider' \in Providers /\ passed' \in Seq(Partial)
         /\ reply' \in {"none", "done", "error"}
<1>1. /\ stream \in Seq({0} \cup Indices)
      /\ stream' = Append(stream, i)
      /\ Len(stream) < MaxPieces
  BY DEF AdapterTypes, AdapterTypeOK, Says
<1>2. /\ Len(stream') = Len(stream) + 1
      /\ stream' \in Seq({0} \cup Indices)
      /\ Len(stream) \in Nat
  BY <1>1
<1>3. Len(stream') <= MaxPieces /\ stream' # <<>>
  BY <1>1, <1>2, AdapterAssumption
<1> QED
  BY <1>1, <1>2, <1>3 DEF Says, AdapterTypes, AdapterTypeOK

LEMMA PieceTyped ==
  ASSUME AdapterTypes, NEW i \in {0} \cup Indices, Says(i),
         toolCalls' \in {toolCalls} \cup {New(k) : k \in Indices} \cup {Accumulate(k) : k \in Indices}
  PROVE  toolCalls' \in Seq(Partial)
<1>1. /\ toolCalls \in Seq(Partial)
      /\ stream \in Seq({0} \cup Indices)
      /\ Len(stream) < MaxPieces
  BY DEF AdapterTypes, AdapterTypeOK, Says
<1> QED
  BY <1>1, NewTyped, Zenon

LEMMA AdapterTypesKeep == AdapterTypes /\ [AdapterNext]_adapterVars => AdapterTypes'
<1> SUFFICES ASSUME AdapterTypes, [AdapterNext]_adapterVars PROVE AdapterTypes'
  OBVIOUS
<1>1. /\ toolCalls \in Seq(Partial)
      /\ block \in [index : {0} \cup Indices, call : BOOLEAN]
      /\ buffer \in {"", "text", "call"}
      /\ block.call => block.index # 0
      /\ buffer = "call" => Len(toolCalls) < MaxCalls
      /\ buffer # "" => stream # <<>>
  BY DEF AdapterTypes, AdapterTypeOK
<1>11. Len(toolCalls) \in Nat /\ MaxCalls \in Nat \ {0} /\ block.index \in {0} \cup Indices
  <2>1. Len(toolCalls) \in Nat
    BY <1>1, LenProperties, Zenon
  <2>2. block.index \in {0} \cup Indices
    BY <1>1, Zenon
  <2> QED
    BY <2>1, <2>2, AdapterAssumption
<1>2. ASSUME NEW i \in {0} \cup Indices, Says(i), toolCalls' \in Seq(Partial),
             block' \in [index : {0} \cup Indices, call : BOOLEAN],
             buffer' \in {"", "text", "call"},
             block'.call => block'.index # 0,
             buffer' = "call" => Len(toolCalls') < MaxCalls,
             buffer' # "" => provider = "ollama"
      PROVE  AdapterTypes'
  <2>1. /\ stream' \in Seq({0} \cup Indices) /\ Len(stream') <= MaxPieces /\ stream' # <<>>
        /\ provider' \in Providers /\ passed' \in Seq(Partial)
        /\ reply' \in {"none", "done", "error"}
        /\ provider' = provider
    BY <1>2, SaysTyped, Zenon DEF Says
  <2>2. AdapterTypeOK'
    BY <1>2, <2>1, Zenon DEF AdapterTypeOK
  <2> QED
    BY <1>2, <2>1, <2>2, Zenon DEF AdapterTypes
<1>3. ASSUME NEW i \in Indices, OpenAIPiece(i) PROVE AdapterTypes'
  <2>1. /\ Says(i)
        /\ toolCalls' = Accumulate(i)
        /\ block' = block
        /\ buffer' = buffer
        /\ provider = "openai"
    BY <1>3 DEF OpenAIPiece
  <2>2. toolCalls' \in Seq(Partial)
    BY <2>1, PieceTyped
  <2>3. buffer = ""
    BY <2>1 DEF AdapterTypes
  <2> QED
    BY <1>1, <1>2, <2>1, <2>2, <2>3
<1>4. ASSUME NEW b \in BOOLEAN, BlockStart(b) PROVE AdapterTypes'
  <2> DEFINE i == block.index + 1
  <2>1. /\ provider = "anthropic"
        /\ i <= MaxCalls
        /\ block' = [index |-> i, call |-> b]
        /\ Says(IF b THEN i ELSE 0)
        /\ toolCalls' = IF b THEN New(i) ELSE toolCalls
        /\ buffer' = buffer
    BY <1>4 DEF BlockStart
  <2>2. i \in Indices /\ i # 0
    BY <1>11, <2>1 DEF Indices
  <2>3. buffer = ""
    BY <2>1 DEF AdapterTypes
  <2> HIDE DEF i
  <2>4. toolCalls' \in Seq(Partial)
    <3>1. CASE b
      BY <2>1, <2>2, <3>1, PieceTyped
    <3>2. CASE ~b
      BY <1>1, <2>1, <3>2
    <3> QED
      BY <3>1, <3>2
  <2> QED
    BY <1>2, <2>1, <2>2, <2>3, <2>4
<1>5. ASSUME BlockDelta PROVE AdapterTypes'
  <2> DEFINE i == block.index
  <2>1. /\ provider = "anthropic"
        /\ block.call
        /\ block' = block
        /\ Says(i)
        /\ toolCalls' = Accumulate(i)
        /\ buffer' = buffer
    BY <1>5 DEF BlockDelta
  <2>2. i \in Indices
    BY <1>1, <2>1
  <2>3. buffer = ""
    BY <2>1 DEF AdapterTypes
  <2> HIDE DEF i
  <2>4. toolCalls' \in Seq(Partial)
    BY <2>1, <2>2, PieceTyped
  <2> QED
    BY <1>1, <1>2, <2>1, <2>2, <2>3, <2>4
<1>6. ASSUME WholeCall PROVE AdapterTypes'
  <2> DEFINE i == Len(toolCalls) + 1
  <2>1. /\ provider = "gemini"
        /\ Len(toolCalls) < MaxCalls
        /\ block' = block
        /\ Says(i)
        /\ toolCalls' = New(i)
        /\ buffer' = buffer
    BY <1>6 DEF WholeCall
  <2>2. i \in Indices
    BY <1>11, <2>1 DEF Indices
  <2>3. buffer = ""
    BY <2>1 DEF AdapterTypes
  <2> HIDE DEF i
  <2>4. toolCalls' \in Seq(Partial)
    BY <2>1, <2>2, PieceTyped
  <2> QED
    BY <1>1, <1>2, <2>1, <2>2, <2>3, <2>4
<1>7. ASSUME NEW k \in {"text", "call"}, HalfLine(k) PROVE AdapterTypes'
  <2> DEFINE i == IF k = "call" THEN Len(toolCalls) + 1 ELSE 0
  <2>1. /\ provider = "ollama"
        /\ Len(toolCalls) < MaxCalls
        /\ block' = block
        /\ Says(i)
        /\ toolCalls' = toolCalls
        /\ buffer' = k
    BY <1>7 DEF HalfLine
  <2>2. i \in {0} \cup Indices
    BY <1>11, <2>1 DEF Indices
  <2> HIDE DEF i
  <2> QED
    BY <1>1, <1>2, <2>1, <2>2
<1>8. ASSUME RestOfLine PROVE AdapterTypes'
  <2>1. /\ buffer # ""
        /\ buffer' = ""
        /\ toolCalls' = IF buffer = "text" THEN toolCalls
                        ELSE Append(toolCalls, [index |-> Len(toolCalls) + 1,
                                                pieces |-> <<Len(stream)>>])
        /\ UNCHANGED <<provider, stream, block, passed, reply>>
    BY <1>8 DEF RestOfLine
  <2>2. /\ stream \in Seq({0} \cup Indices)
        /\ Len(stream) <= MaxPieces
        /\ stream # <<>>
    BY <2>1 DEF AdapterTypes, AdapterTypeOK
  <2>3. Len(stream) \in 1 .. MaxPieces
    BY <2>2, AdapterAssumption
  <2>4. toolCalls' \in Seq(Partial)
    <3>1. CASE buffer = "text"
      BY <1>1, <2>1, <3>1
    <3>2. CASE buffer = "call"
      <4>1. Len(toolCalls) + 1 \in Indices
        BY <1>11, <1>1, <3>2 DEF Indices
      <4>2. <<Len(stream)>> \in Seq(1 .. MaxPieces)
        BY <2>3
      <4>3. [index |-> Len(toolCalls) + 1, pieces |-> <<Len(stream)>>] \in Partial
        BY <4>1, <4>2, Zenon DEF Partial
      <4>4. toolCalls' = Append(toolCalls, [index |-> Len(toolCalls) + 1,
                                            pieces |-> <<Len(stream)>>])
        BY <2>1, <3>2
      <4> QED
        BY <1>1, <4>3, <4>4, AppendProperties, Zenon
    <3> QED
      BY <1>1, <2>1, <3>1, <3>2
  <2>5. AdapterTypeOK'
    BY <2>1, <2>4 DEF AdapterTypes, AdapterTypeOK
  <2> QED
    BY <1>1, <2>1, <2>5 DEF AdapterTypes
<1>9. ASSUME StreamEnds \/ StreamFails PROVE AdapterTypes'
  <2>1. UNCHANGED <<provider, stream, toolCalls, block, buffer>>
    BY <1>9 DEF StreamEnds, StreamFails
  <2>2. passed' \in {passed, toolCalls} /\ reply' \in {"done", "error"}
    BY <1>9 DEF StreamEnds, StreamFails
  <2> QED
    BY <2>1, <2>2 DEF AdapterTypes, AdapterTypeOK
<1>10. ASSUME UNCHANGED adapterVars PROVE AdapterTypes'
  BY <1>10 DEF adapterVars, AdapterTypes, AdapterTypeOK
<1> QED
  BY <1>3, <1>4, <1>5, <1>6, <1>7, <1>8, <1>9, <1>10 DEF AdapterNext

\* Whatever a provider streams and wherever a read cuts it: the state of an adapter
\* stays as declared, every piece it keeps is a place of the stream, and a line that
\* is not complete is only ever Ollama's (ollama.ts:186-243).
THEOREM AdaptersTyped == AdapterSpec => []AdapterTypeOK
<1>1. AdapterTypes => AdapterTypeOK
  BY DEF AdapterTypes
<1> QED
  BY AdapterTypesBegin, AdapterTypesKeep, <1>1, PTL DEF AdapterSpec

-----------------------------------------------------------------------------
(* The keys of the desktop application.                                    *)

Setting(p) == {c \in AreAbout(p) : keyCall[c].sets}

\* A call that removes a key never touches its file but to unlink it.
RemovingStages == {"idle", "unlink", "openList", "writeList"}
RemovingOnlyUnlinks == \A c \in KeyCalls : keyCall[c].sets \/ keyCall[c].at \in RemovingStages

\* While a removal counts as alone nobody sets its key, so that the file it
\* unlinked stays away.
LoneRemoval ==
  \A c \in KeyCalls :
    keyCall[c].at # "idle" /\ ~keyCall[c].sets /\ keyCall[c].alone =>
      /\ Setting(keyCall[c].about) = {}
      /\ keyCall[c].at # "unlink" => keyFile[keyCall[c].about] = "none"

\* A removed key has no file, nobody is about to write one, and it is not in use.
RemovedForGood ==
  \A p \in removed : keyFile[p] = "none" /\ Setting(p) = {} /\ p \notin inUse

KeyInv == KeyTypeOK /\ RemovingOnlyUnlinks /\ LoneRemoval /\ RemovedForGood

LEMMA NoCallTyped == NoKeyCall \in KeyCall /\ NoKeyCall.at = "idle"
<1>1. (CHOOSE p \in KeyProviders : TRUE) \in KeyProviders
  BY KeyAssumption
<1> QED
  BY <1>1 DEF NoKeyCall, KeyCall, AtWork

LEMMA KeysBegin == KeyInit => KeyInv
<1> SUFFICES ASSUME KeyInit PROVE KeyInv
    OBVIOUS
<1>1. KeyTypeOK
  BY NoCallTyped DEF KeyInit, KeyTypeOK, NoKeyCalls
<1> QED
  BY <1>1, NoCallTyped
  DEF KeyInit, KeyInv, NoKeyCalls, RemovingOnlyUnlinks, LoneRemoval, RemovedForGood, RemovingStages

\* A call stays where it is, ends, or goes on to its next stage, a removal only
\* after its file is gone.
Advances(d) ==
  keyCall'[d].at # "idle" =>
    /\ keyCall[d].at # "idle"
    /\ keyCall'[d].about = keyCall[d].about /\ keyCall'[d].sets = keyCall[d].sets
    /\ keyCall'[d].alone = keyCall[d].alone
    /\ keyCall'[d].at # keyCall[d].at /\ ~keyCall[d].sets =>
         /\ keyCall'[d].at \in {"openList", "writeList"}
         /\ keyCall[d].at = "unlink" => keyFile'[keyCall[d].about] = "none"

\* As long as no file of a key comes to be but by a call that sets the key, and
\* no key comes into use but from its file or by such a call, what was removed
\* stays removed.
LEMMA CallsAdvance ==
  ASSUME KeyInv, KeyTypeOK', \A d \in KeyCalls : Advances(d),
         \A p \in KeyProviders : keyFile[p] = "none" =>
            keyFile'[p] = "none" \/ Setting(p) # {},
         \A p \in removed' : p \in removed \/ (keyFile[p] = "none" /\ Setting(p) = {}),
         \A p \in removed' : p \in inUse' =>
            (p \in inUse /\ p \in removed) \/ keyFile[p] = "whole" \/ Setting(p) # {}
  PROVE  KeyInv'
<1>1. ASSUME NEW p \in KeyProviders PROVE Setting(p)' \subseteq Setting(p)
  BY DEF Setting, AreAbout, Advances
<1>2. RemovingOnlyUnlinks'
  BY DEF RemovingOnlyUnlinks, Advances, KeyInv, RemovingStages
<1>3. LoneRemoval'
  <2> SUFFICES ASSUME NEW c \in KeyCalls, keyCall'[c].at # "idle", ~keyCall'[c].sets,
                      keyCall'[c].alone
               PROVE  /\ Setting(keyCall[c].about)' = {}
                      /\ keyCall'[c].at # "unlink" => keyFile'[keyCall'[c].about] = "none"
      BY DEF LoneRemoval, Setting, AreAbout, Advances
  <2>1. /\ keyCall[c].at # "idle" /\ keyCall'[c].about = keyCall[c].about
        /\ ~keyCall[c].sets /\ keyCall[c].alone /\ keyCall[c].about \in KeyProviders
    BY DEF Advances, KeyInv, KeyTypeOK, KeyCall
  <2>2. Setting(keyCall[c].about) = {}
    BY <2>1 DEF KeyInv, LoneRemoval
  <2>3. keyCall'[c].at # "unlink" => keyFile'[keyCall[c].about] = "none"
    BY <2>1, <2>2 DEF KeyInv, LoneRemoval, Advances
  <2> QED
    BY <1>1, <2>1, <2>2, <2>3
<1>4. RemovedForGood'
  BY <1>1 DEF KeyInv, KeyTypeOK, RemovedForGood
<1> QED
  BY <1>2, <1>3, <1>4 DEF KeyInv

\* A call under way is typed and one that is not at "unlink" or the list sets its key.
LEMMA WritersSet ==
  ASSUME KeyInv, NEW c \in KeyCalls, keyCall[c].at \in {"open", "write", "orphan"}
  PROVE  keyCall[c].sets /\ keyCall[c].about \in KeyProviders /\ c \in Setting(keyCall[c].about)
  BY DEF KeyInv, KeyTypeOK, KeyCall, RemovingOnlyUnlinks, RemovingStages, Setting, AreAbout

LEMMA ApplicationKeeps ==
  ASSUME KeyInv, StartApplication \/ EndApplication
  PROVE  KeyInv'
<1>1. CASE StartApplication
  <2>1. KeyTypeOK' /\ \A d \in KeyCalls : Advances(d)
    BY <1>1 DEF StartApplication, diskVars, KeyInv, KeyTypeOK, Advances
  <2> QED
    BY <1>1, <2>1, CallsAdvance DEF StartApplication, diskVars
<1>2. CASE EndApplication
  <2>1. KeyTypeOK' /\ \A d \in KeyCalls : Advances(d)
    BY <1>2, NoCallTyped DEF EndApplication, diskVars, KeyInv, KeyTypeOK, NoKeyCalls, Advances
  <2> QED
    BY <1>2, <2>1, CallsAdvance DEF EndApplication, diskVars
<1> QED
  BY <1>1, <1>2

LEMMA OpensKeyFileKeeps ==
  ASSUME KeyInv, NEW c \in KeyCalls, OpensKeyFile(c)
  PROVE  KeyInv'
<1>1. c \in Setting(keyCall[c].about) /\ keyCall[c].sets
  BY WritersSet DEF OpensKeyFile, At
<1>2. keyCall' \in [KeyCalls -> KeyCall]
  BY DEF OpensKeyFile, Moves, KeyInv, KeyTypeOK, KeyCall, AtWork
<1>3. KeyTypeOK'
  BY <1>2 DEF OpensKeyFile, KeyInv, KeyTypeOK
<1>4. \A d \in KeyCalls : Advances(d)
  BY <1>1 DEF OpensKeyFile, At, Moves, KeyInv, KeyTypeOK, KeyCall, Advances
<1>5. \A p \in KeyProviders : keyFile[p] = "none" => keyFile'[p] = "none" \/ Setting(p) # {}
  BY <1>1 DEF OpensKeyFile, KeyInv, KeyTypeOK
<1> QED
  BY <1>3, <1>4, <1>5, CallsAdvance DEF OpensKeyFile

\* A call that goes on to write the list, as it is now.
LEMMA ListTyped ==
  ASSUME NEW kc \in KeyCall, NEW list \in SUBSET KeyProviders
  PROVE  [kc EXCEPT !.at = "openList", !.list = list] \in KeyCall
  BY DEF KeyCall, AtWork

LEMMA WritesKeyFileKeeps ==
  ASSUME KeyInv, NEW c \in KeyCalls, WritesKeyFile(c)
  PROVE  KeyInv'
<1>1. c \in Setting(keyCall[c].about) /\ keyCall[c].sets /\ keyCall[c].about \in KeyProviders
  BY WritersSet DEF WritesKeyFile, At
<1>2. keyCall' \in [KeyCalls -> KeyCall] /\ known' \subseteq KeyProviders
  <2>1. known' \subseteq KeyProviders
    BY <1>1 DEF WritesKeyFile, KeyInv, KeyTypeOK
  <2>2. keyCall \in [KeyCalls -> KeyCall]
    BY DEF KeyInv, KeyTypeOK
  <2>3. [keyCall[c] EXCEPT !.at = "openList", !.list = known'] \in KeyCall
    BY <2>1, <2>2, ListTyped
  <2>4. keyCall' = [keyCall EXCEPT ![c] = [keyCall[c] EXCEPT !.at = "openList", !.list = known']]
    BY <2>2 DEF WritesKeyFile, BeginsList
  <2> QED
    BY <2>1, <2>2, <2>3, <2>4
<1>3. /\ keyFile' \in [KeyProviders -> {"none", "torn", "whole"}]
      /\ \A p \in KeyProviders \ {keyCall[c].about} : keyFile'[p] = keyFile[p]
  BY DEF WritesKeyFile, Written, KeyInv, KeyTypeOK
<1>4. KeyTypeOK'
  BY <1>2, <1>3 DEF WritesKeyFile, KeyInv, KeyTypeOK
<1>5. \A d \in KeyCalls : Advances(d)
  BY <1>1 DEF WritesKeyFile, At, BeginsList, KeyInv, KeyTypeOK, KeyCall, Advances
<1> QED
  BY <1>1, <1>3, <1>4, <1>5, CallsAdvance DEF WritesKeyFile

LEMMA UnlinksKeyFileKeeps ==
  ASSUME KeyInv, NEW c \in KeyCalls, UnlinksKeyFile(c)
  PROVE  KeyInv'
<1> DEFINE p == keyCall[c].about
           orphans == {o \in AreAbout(p) : At(o, "write")}
           calls == [o \in KeyCalls |-> IF o \in orphans THEN [keyCall[o] EXCEPT !.at = "orphan"]
                                        ELSE keyCall[o]]
<1>1. /\ At(c, "unlink") /\ keyFile' = [keyFile EXCEPT ![p] = "none"]
      /\ known' = known \ {p} /\ keyCall' = [calls EXCEPT ![c] = [@ EXCEPT !.at = "openList", !.list = known']]
      /\ UNCHANGED <<listFile, inUse, running, removed>>
  BY DEF UnlinksKeyFile, BeginsList
<1>2. p \in KeyProviders
  BY DEF KeyInv, KeyTypeOK, KeyCall
<1>3. \A o \in orphans : keyCall[o].sets
  BY WritersSet DEF AreAbout, At
<1>4. c \notin orphans
  BY <1>1 DEF At
<1>5. keyCall'[c] = [keyCall[c] EXCEPT !.at = "openList", !.list = known']
  BY <1>1, <1>4
<1>6. \A d \in KeyCalls \ {c} : keyCall'[d] = calls[d]
  BY <1>1
<1>7. \A d \in KeyCalls : calls[d] \in KeyCall
  BY DEF KeyInv, KeyTypeOK, KeyCall, AtWork
<1>8. keyCall'[c] \in KeyCall
  <2>1. keyCall[c] \in KeyCall /\ known' \in SUBSET KeyProviders
    BY <1>1 DEF KeyInv, KeyTypeOK
  <2> QED
    BY <1>5, <2>1, ListTyped
<1>9. keyCall' \in [KeyCalls -> KeyCall]
  BY <1>1, <1>6, <1>7, <1>8
<1>10. KeyTypeOK'
  BY <1>1, <1>2, <1>9 DEF KeyInv, KeyTypeOK
<1>11. Advances(c)
  <2>1. keyCall[c] \in KeyCall /\ keyCall[c].at = "unlink"
    BY <1>1 DEF At, KeyInv, KeyTypeOK
  <2>2. /\ keyCall'[c].at = "openList" /\ keyCall'[c].about = keyCall[c].about
        /\ keyCall'[c].sets = keyCall[c].sets /\ keyCall'[c].alone = keyCall[c].alone
    BY <1>5, <2>1 DEF KeyCall
  <2>3. keyFile'[p] = "none"
    BY <1>1, <1>2 DEF KeyInv, KeyTypeOK
  <2> QED
    BY <2>1, <2>2, <2>3 DEF Advances
<1>12. \A d \in KeyCalls \ {c} : Advances(d)
  BY <1>3, <1>6 DEF Advances, AreAbout, At, KeyInv, KeyTypeOK, KeyCall
<1>13. \A q \in KeyProviders : keyFile[q] = "none" => keyFile'[q] = "none"
  BY <1>1 DEF KeyInv, KeyTypeOK
<1> QED
  BY <1>1, <1>10, <1>11, <1>12, <1>13, CallsAdvance

LEMMA OpensListKeeps ==
  ASSUME KeyInv, NEW c \in KeyCalls, OpensList(c)
  PROVE  KeyInv'
<1>1. keyCall' \in [KeyCalls -> KeyCall]
  BY DEF OpensList, Moves, KeyInv, KeyTypeOK, KeyCall, AtWork
<1>2. KeyTypeOK'
  BY <1>1 DEF OpensList, KeyInv, KeyTypeOK
<1>3. \A d \in KeyCalls : Advances(d)
  BY DEF OpensList, At, Moves, KeyInv, KeyTypeOK, KeyCall, Advances
<1> QED
  BY <1>2, <1>3, CallsAdvance DEF OpensList

LEMMA EndsKeeps ==
  ASSUME KeyInv, NEW c \in KeyCalls, Ends(c)
  PROVE  keyCall' \in [KeyCalls -> KeyCall] /\ \A d \in KeyCalls : Advances(d)
  BY NoCallTyped DEF Ends, KeyInv, KeyTypeOK, Advances

\* What was alone till its end has no file, and nobody sets it.
LEMMA WritesListKeeps ==
  ASSUME KeyInv, NEW c \in KeyCalls, WritesList(c)
  PROVE  KeyInv'
<1> DEFINE p == keyCall[c].about
<1>1. keyCall[c] \in KeyCall /\ p \in KeyProviders /\ keyCall[c].list \subseteq KeyProviders
  BY DEF KeyInv, KeyTypeOK, KeyCall
<1>2. Ends(c) /\ At(c, "writeList")
  BY DEF WritesList
<1>3. listFile' \subseteq KeyProviders /\ inUse' \subseteq KeyProviders /\ removed' \subseteq KeyProviders
  BY <1>1 DEF WritesList, Written, KeyInv, KeyTypeOK
<1>4. KeyTypeOK'
  BY <1>2, <1>3, EndsKeeps DEF WritesList, KeyInv, KeyTypeOK
<1>5. keyCall[c].alone /\ ~keyCall[c].sets => keyFile[p] = "none" /\ Setting(p) = {}
  BY <1>2 DEF At, KeyInv, LoneRemoval
<1>6. keyCall[c].sets => c \in Setting(p)
  BY <1>2 DEF At, Setting, AreAbout
<1>7. \A q \in removed' : q \in removed \/ (keyFile[q] = "none" /\ Setting(q) = {})
  BY <1>5 DEF WritesList
<1>8. \A q \in removed' : q \in inUse' => (q \in inUse /\ q \in removed) \/ Setting(q) # {}
  BY <1>6 DEF WritesList
<1>9. keyFile' = keyFile
  BY DEF WritesList
<1> QED
  BY <1>2, <1>4, <1>7, <1>8, <1>9, EndsKeeps, CallsAdvance

LEMMA KeyCallFailsKeeps ==
  ASSUME KeyInv, NEW c \in KeyCalls, KeyCallFails(c)
  PROVE  KeyInv'
<1>1. Ends(c) /\ UNCHANGED <<diskVars, known, inUse, running, removed>>
  BY DEF KeyCallFails
<1>2. KeyTypeOK' /\ \A d \in KeyCalls : Advances(d)
  BY <1>1, EndsKeeps DEF KeyInv, KeyTypeOK, diskVars
<1> QED
  BY <1>1, <1>2, CallsAdvance DEF diskVars

\* A call that begins counts as alone only if nobody sets its key, and one that
\* sets a key is seen by every removal of it under way.
LEMMA CallBegins ==
  ASSUME KeyInv, NEW c \in KeyCalls, NEW p \in KeyProviders, NEW sets \in BOOLEAN,
         NEW at \in {"open", "unlink"}, Begins(c, p, sets, at)
  PROVE  /\ keyCall' \in [KeyCalls -> KeyCall]
         /\ keyCall'[c].about = p /\ keyCall'[c].sets = sets /\ keyCall'[c].at = at
         /\ keyCall'[c].alone => Setting(p) = {}
         /\ \A d \in KeyCalls \ {c} :
              /\ keyCall'[d].about = keyCall[d].about /\ keyCall'[d].sets = keyCall[d].sets
              /\ keyCall'[d].at = keyCall[d].at
              /\ keyCall'[d].alone => keyCall[d].alone
              /\ keyCall'[d].alone /\ keyCall[d].at # "idle" => ~sets \/ keyCall[d].about # p
<1> DEFINE alone == \A o \in AreAbout(p) : ~keyCall[o].sets
           begun == [about |-> p, sets |-> sets, at |-> at, list |-> {}, alone |-> alone]
           seen(d) == IF sets /\ d \in AreAbout(p) THEN [keyCall[d] EXCEPT !.alone = FALSE]
                      ELSE keyCall[d]
<1>1. keyCall' = [d \in KeyCalls |-> IF d = c THEN begun ELSE seen(d)]
  BY Zenon DEF Begins
<1>2. alone \in BOOLEAN
  OBVIOUS
<1>3. begun \in KeyCall
  BY <1>2 DEF KeyCall, AtWork
<1>4. \A d \in KeyCalls : seen(d) \in KeyCall
  BY DEF KeyInv, KeyTypeOK, KeyCall, AtWork
<1>5. keyCall' \in [KeyCalls -> KeyCall]
  BY <1>1, <1>3, <1>4
<1>6. keyCall'[c] = begun
  BY <1>1
<1>7. alone => Setting(p) = {}
  BY DEF Setting
<1>8. \A d \in KeyCalls \ {c} : keyCall'[d] = seen(d)
  BY <1>1
<1>9. \A d \in KeyCalls : /\ seen(d).about = keyCall[d].about /\ seen(d).sets = keyCall[d].sets
                          /\ seen(d).at = keyCall[d].at
                          /\ seen(d).alone => keyCall[d].alone
                          /\ seen(d).alone /\ keyCall[d].at # "idle" => ~sets \/ keyCall[d].about # p
  BY DEF KeyInv, KeyTypeOK, KeyCall, AreAbout
<1> HIDE DEF begun, seen
<1>10. begun.about = p /\ begun.sets = sets /\ begun.at = at /\ begun.alone = alone
  BY DEF begun
<1> QED
  BY <1>5, <1>6, <1>7, <1>8, <1>9, <1>10

LEMMA BeginKeeps ==
  ASSUME KeyInv, NEW c \in KeyCalls, NEW p \in KeyProviders,
         SetApiKey(c, p) \/ RemoveApiKey(c, p)
  PROVE  KeyInv'
<1>1. CASE SetApiKey(c, p)
  <2>1. Begins(c, p, TRUE, "open") /\ removed' = removed \ {p}
        /\ UNCHANGED <<keyFile, listFile, known, inUse, running>>
    BY <1>1 DEF SetApiKey, diskVars
  <2>2. /\ keyCall' \in [KeyCalls -> KeyCall]
        /\ keyCall'[c].about = p /\ keyCall'[c].sets /\ keyCall'[c].at = "open"
        /\ \A d \in KeyCalls \ {c} :
              /\ keyCall'[d].about = keyCall[d].about /\ keyCall'[d].sets = keyCall[d].sets
              /\ keyCall'[d].at = keyCall[d].at
              /\ keyCall'[d].alone => keyCall[d].alone
              /\ keyCall'[d].alone /\ keyCall[d].at # "idle" => keyCall[d].about # p
    BY <2>1, CallBegins
  <2>3. \A q \in KeyProviders \ {p} : Setting(q)' = Setting(q)
    BY <2>1, <2>2 DEF Setting, AreAbout, Begins
  <2>4. KeyTypeOK'
    BY <2>1, <2>2 DEF KeyInv, KeyTypeOK
  <2>5. RemovingOnlyUnlinks'
    BY <2>2 DEF KeyInv, RemovingOnlyUnlinks
  <2>6. LoneRemoval'
    <3> SUFFICES ASSUME NEW d \in KeyCalls, keyCall'[d].at # "idle", ~keyCall'[d].sets,
                        keyCall'[d].alone
                 PROVE  /\ Setting(keyCall[d].about)' = {}
                        /\ keyCall'[d].at # "unlink" => keyFile'[keyCall'[d].about] = "none"
                        /\ keyCall'[d].about = keyCall[d].about
        BY DEF LoneRemoval, Setting, AreAbout
    <3>1. d # c /\ keyCall[d].about \in KeyProviders \ {p}
      BY <2>2 DEF KeyInv, KeyTypeOK, KeyCall
    <3> QED
      BY <2>1, <2>2, <2>3, <3>1 DEF KeyInv, LoneRemoval
  <2>7. RemovedForGood'
    BY <2>1, <2>3 DEF KeyInv, KeyTypeOK, RemovedForGood
  <2> QED
    BY <2>4, <2>5, <2>6, <2>7 DEF KeyInv
<1>2. CASE RemoveApiKey(c, p)
  <2>1. Begins(c, p, FALSE, "unlink") /\ UNCHANGED <<keyFile, listFile, known, inUse, running, removed>>
    BY <1>2 DEF RemoveApiKey, diskVars
  <2>2. /\ keyCall' \in [KeyCalls -> KeyCall]
        /\ keyCall'[c].about = p /\ ~keyCall'[c].sets /\ keyCall'[c].at = "unlink"
        /\ keyCall'[c].alone => Setting(p) = {}
        /\ \A d \in KeyCalls \ {c} :
              /\ keyCall'[d].about = keyCall[d].about /\ keyCall'[d].sets = keyCall[d].sets
              /\ keyCall'[d].at = keyCall[d].at
              /\ keyCall'[d].alone => keyCall[d].alone
    BY <2>1, CallBegins
  <2>3. \A q \in KeyProviders : Setting(q)' = Setting(q)
    BY <2>1, <2>2 DEF Setting, AreAbout, Begins
  <2>4. KeyTypeOK'
    BY <2>1, <2>2 DEF KeyInv, KeyTypeOK
  <2>5. RemovingOnlyUnlinks'
    BY <2>2 DEF KeyInv, RemovingOnlyUnlinks, RemovingStages
  <2>6. LoneRemoval'
    <3> SUFFICES ASSUME NEW d \in KeyCalls, keyCall'[d].at # "idle", ~keyCall'[d].sets,
                        keyCall'[d].alone
                 PROVE  /\ Setting(keyCall'[d].about) = {}
                        /\ keyCall'[d].about \in KeyProviders
                        /\ keyCall'[d].at # "unlink" => keyFile'[keyCall'[d].about] = "none"
        BY <2>3 DEF LoneRemoval, Setting, AreAbout
    <3> QED
      BY <2>1, <2>2 DEF KeyInv, KeyTypeOK, KeyCall, LoneRemoval
  <2>7. RemovedForGood'
    BY <2>1, <2>3 DEF KeyInv, KeyTypeOK, RemovedForGood
  <2> QED
    BY <2>4, <2>5, <2>6, <2>7 DEF KeyInv
<1> QED
  BY <1>1, <1>2

LEMMA KeysKeep == KeyInv /\ [KeyNext]_keyVars => KeyInv'
<1> SUFFICES ASSUME KeyInv, [KeyNext]_keyVars PROVE KeyInv'
    OBVIOUS
<1>1. CASE UNCHANGED keyVars
  <2>1. KeyTypeOK' /\ \A d \in KeyCalls : Advances(d)
    BY <1>1 DEF keyVars, KeyInv, KeyTypeOK, Advances
  <2> QED
    BY <1>1, <2>1, CallsAdvance DEF keyVars
<1> QED
  BY <1>1, ApplicationKeeps, BeginKeeps, OpensKeyFileKeeps, WritesKeyFileKeeps,
     UnlinksKeyFileKeeps, OpensListKeeps, WritesListKeeps, KeyCallFailsKeeps DEF KeyNext

\* A key whose removal was reported stays out of use, over any ends of the
\* application and any calls about other keys, for any number of calls at a time
\* (credentials.ts:140-148, index.ts:169-190).
THEOREM RemovedKeysStayGone == KeySpec => [](KeyTypeOK /\ RemovedIsGone)
<1>1. KeyInv => KeyTypeOK /\ RemovedIsGone
  BY DEF KeyInv, RemovedForGood, RemovedIsGone
<1> QED
  BY KeysBegin, KeysKeep, <1>1, PTL DEF KeySpec

-----------------------------------------------------------------------------
(* The dependency resolver.  What is known of the search: the calls of dfs()*)
(* under way, from the first to the last.                                  *)

Finished == visited \ InStack
Above(i) == IF i < Len(frames) THEN {frames[i + 1].node} ELSE {}

CallsVisit == InStack \subseteq visited
OneCallEach == \A i, j \in DOMAIN frames : frames[i].node = frames[j].node => i = j
NextIsThere ==
  \A i \in DOMAIN frames : frames[i].next <= Len(Dependencies(nodes, frames[i].node)) + 1
FollowedIsDone ==
  \A i \in DOMAIN frames : \A k \in 1 .. frames[i].next - 1 :
    Dependencies(nodes, frames[i].node)[k] \in Finished \cup Above(i)
CallsAreLinked ==
  \A i \in DOMAIN frames : i < Len(frames) =>
    /\ frames[i + 1].node \in Needs(nodes, frames[i].node)
    /\ parent[frames[i + 1].node] = frames[i].node
CallsReach ==
  \A i, j \in DOMAIN frames : i < j => frames[j].node \in Reached(nodes, frames[i].node)
FramesInv == /\ CallsVisit /\ OneCallEach /\ NextIsThere
             /\ FollowedIsDone /\ CallsAreLinked /\ CallsReach

\* What has been left needs only what has been left, is on no cycle, and has
\* been left in an order: any part of it holds a node that needs none of it.
FinishedInv ==
  /\ Closed(nodes, Finished)
  /\ \A n \in Finished : n \notin Reached(nodes, n)
  /\ \A R \in SUBSET Finished : R # {} => \E n \in R : Needs(nodes, n) \cap R = {}

\* The path is the calls from the last down to one above the cycle's first.
TraceInv ==
  step = "tracing" =>
    LET last == Len(frames)
        p == last - Len(path) + 2
    IN /\ Len(path) >= 2 /\ Len(path) - 1 <= last
       /\ \A k \in 2 .. Len(path) : path[k] = frames[last - k + 2].node
       /\ \E a \in 1 .. p : /\ path[1] = frames[a].node /\ path[1] \in Needs(nodes, Top.node)
                            /\ p = a => a = last

Sorting == {"queueing", "sorting", "telling", "returned"}

PhaseInv ==
  /\ step = "building" => root = 0 /\ visited = {} /\ frames = <<>>
  /\ step \notin Sorting => line = <<>> /\ taken = 0 /\ told = 0
  /\ step \in Sorting => frames = <<>> /\ root = Len(nodes)
  /\ step = "queueing" => taken = 0
  /\ step = "telling" => taken > 0
  /\ step = "returned" => taken = Len(line)
  /\ 1 .. root \subseteq visited

\* What node m has been told of, and which of its dependencies are open.
Passed(m) == {line[i] : i \in 1 .. (IF step = "telling" /\ m > told THEN taken - 1 ELSE taken)}
Open(m) == {k \in DOMAIN nodes[m] : nodes[m][k] \notin Passed(m)}

OnceInLine == \A i, j \in DOMAIN line : line[i] = line[j] => i = j
DegreesCount ==
  \A m \in DOMAIN nodes :
    /\ degree[m] = Cardinality(Open(m))
    /\ m \in ToSet(line) <=> Open(m) = {} /\ (step = "queueing" => m <= told)
NeedsComeFirst ==
  \A i \in DOMAIN line : Needs(nodes, line[i]) \subseteq {line[j] : j \in 1 .. i - 1}
SortInv == step \in Sorting => OnceInLine /\ DegreesCount /\ NeedsComeFirst

\* All that is known of resolve() but its outcome.
SearchInv == ResolverTypeOK /\ FramesInv /\ FinishedInv /\ TraceInv /\ PhaseInv /\ SortInv

LEMMA ListsAreSequences ==
  ASSUME NEW l \in Lists
  PROVE  l \in Seq(NodeNames) /\ Len(l) \in 0 .. MaxDependencies /\ DOMAIN l = 1 .. Len(l)
<1>1. PICK k \in 0 .. MaxDependencies : l \in [1 .. k -> NodeNames]
  BY DEF Lists
<1>2. k \in Nat /\ l \in Seq(NodeNames)
  BY <1>1, ResolverAssumption, IsASeq
<1> QED
  BY <1>1, <1>2

\* What a name depends on.
LEMMA DependenciesTyped ==
  ASSUME NEW graph \in Seq(Lists), NEW n
  PROVE  /\ Dependencies(graph, n) \in Seq(NodeNames)
         /\ Len(Dependencies(graph, n)) \in 0 .. MaxDependencies /\ Len(Dependencies(graph, n)) \in Nat
         /\ DOMAIN Dependencies(graph, n) = 1 .. Len(Dependencies(graph, n))
         /\ Needs(graph, n) \subseteq NodeNames
<1>1. /\ Dependencies(graph, n) \in Seq(NodeNames)
      /\ Len(Dependencies(graph, n)) \in 0 .. MaxDependencies
      /\ DOMAIN Dependencies(graph, n) = 1 .. Len(Dependencies(graph, n))
  <2>1. CASE n \in DOMAIN graph
    <3>1. graph[n] \in Lists
      BY <2>1
    <3> QED
      BY <2>1, <3>1, ListsAreSequences DEF Dependencies
  <2>2. CASE n \notin DOMAIN graph
    BY <2>2, ResolverAssumption DEF Dependencies
  <2> QED
    BY <2>1, <2>2
<1> QED
  BY <1>1, ResolverAssumption DEF Needs

LEMMA NodesAreNamed ==
  ASSUME ResolverTypeOK
  PROVE  /\ nodes \in Seq(Lists) /\ Len(nodes) \in Nat
         /\ DOMAIN nodes \subseteq NodeNames /\ DOMAIN nodes = 1 .. Len(nodes)
  BY ResolverAssumption DEF ResolverTypeOK, NodeNames

\* What is reached is what is needed and what that reaches, and no more than
\* any closed set that holds what is needed.
LEMMA ReachesNeeds ==
  ASSUME NEW graph \in Seq(Lists), NEW n
  PROVE  Needs(graph, n) \subseteq Reached(graph, n) /\ Reached(graph, n) \subseteq NodeNames
  BY DependenciesTyped DEF Reached

LEMMA ReachedIsClosed ==
  ASSUME NEW graph \in Seq(Lists), NEW n
  PROVE  Closed(graph, Reached(graph, n))
<1> SUFFICES ASSUME NEW l \in Reached(graph, n), NEW m \in Needs(graph, l)
             PROVE  m \in Reached(graph, n)
  BY DEF Closed
<1>1. m \in NodeNames
  BY DependenciesTyped
<1>2. ASSUME NEW S \in SUBSET NodeNames, Needs(graph, n) \subseteq S, Closed(graph, S) PROVE m \in S
  <2>1. l \in S
    BY <1>2 DEF Reached
  <2> QED
    BY <1>2, <2>1 DEF Closed
<1> QED
  BY <1>1, <1>2 DEF Reached

LEMMA ReachedIsLeast ==
  ASSUME NEW graph, NEW n, NEW S \in SUBSET NodeNames,
         Needs(graph, n) \subseteq S, Closed(graph, S)
  PROVE  Reached(graph, n) \subseteq S
  BY DEF Reached

LEMMA ReachesOn ==
  ASSUME NEW graph \in Seq(Lists), NEW n, NEW l \in Reached(graph, n)
  PROVE  Reached(graph, l) \subseteq Reached(graph, n)
<1>1. Reached(graph, n) \in SUBSET NodeNames /\ Closed(graph, Reached(graph, n))
  BY ReachesNeeds, ReachedIsClosed
<1>2. Needs(graph, l) \subseteq Reached(graph, n)
  BY <1>1 DEF Closed
<1> QED
  BY <1>1, <1>2, ReachedIsLeast

LEMMA FramesTyped ==
  ASSUME ResolverTypeOK
  PROVE  /\ DOMAIN frames = 1 .. Len(frames) /\ Len(frames) \in Nat
         /\ \A i \in DOMAIN frames : /\ frames[i] \in Frame /\ frames[i].node \in NodeNames
                                     /\ frames[i].next \in Nat \ {0}
<1>1. frames \in Seq(Frame)
  BY DEF ResolverTypeOK
<1>2. DOMAIN frames = 1 .. Len(frames) /\ Len(frames) \in Nat /\ \A i \in DOMAIN frames : frames[i] \in Frame
  BY <1>1
<1> QED
  BY <1>2, ResolverAssumption DEF Frame

LEMMA SameFinished ==
  ASSUME FinishedInv, nodes' = nodes, Finished' = Finished
  PROVE  FinishedInv'
  BY DEF FinishedInv

\* Where the search does not go on, what is known of it stays.
LEMMA SearchStays ==
  ASSUME FramesInv, FinishedInv, UNCHANGED <<nodes, visited, frames, parent>>
  PROVE  FramesInv' /\ FinishedInv'
<1>1. InStack' = InStack /\ Finished' = Finished /\ \A i : Above(i)' = Above(i)
  BY DEF InStack, Finished, Above
<1>2. CallsVisit' /\ OneCallEach' /\ NextIsThere'
  BY <1>1 DEF FramesInv, CallsVisit, OneCallEach, NextIsThere
<1>3. FollowedIsDone'
  BY <1>1 DEF FramesInv, FollowedIsDone
<1>4. CallsAreLinked' /\ CallsReach'
  BY DEF FramesInv, CallsAreLinked, CallsReach
<1>5. FinishedInv'
  BY <1>1, SameFinished
<1> QED
  BY <1>2, <1>3, <1>4, <1>5 DEF FramesInv

\* Before the sort there is nothing to say of it.
LEMMA NotSorting ==
  ASSUME step' \notin Sorting
  PROVE  SortInv'
  BY DEF SortInv

LEMMA NextRootKeeps ==
  ASSUME SearchInv, NextRoot
  PROVE  SearchInv'
<1>1. /\ step = "searching" /\ frames = <<>> /\ root < Len(nodes) /\ root' = root + 1
      /\ visited' = visited \cup {root + 1} /\ step' = step /\ nodes' = nodes
      /\ UNCHANGED <<parent, path, sortVars>>
      /\ frames' = IF root + 1 \in visited THEN <<>> ELSE <<Call(root + 1)>>
  BY DEF NextRoot
<1>2. ResolverTypeOK /\ root \in Nat /\ Len(nodes) \in Nat /\ root + 1 \in DOMAIN nodes /\ root + 1 \in NodeNames
  BY <1>1, NodesAreNamed DEF SearchInv, ResolverTypeOK
<1>3. Call(root + 1) \in Frame
  BY <1>2, ResolverAssumption DEF Call, Frame
<1>4. frames' \in Seq(Frame)
  BY <1>1, <1>3
<1>5. ResolverTypeOK'
  BY <1>1, <1>2, <1>4 DEF SearchInv, ResolverTypeOK, sortVars
<1>6. InStack = {} /\ Finished = visited
  BY <1>1 DEF InStack, Finished
<1>7. ASSUME root + 1 \in visited PROVE FramesInv' /\ Finished' = Finished
  <2>1. frames' = <<>> /\ DOMAIN frames' = {} /\ visited' = visited
    BY <1>1, <1>7
  <2>2. InStack' = {} /\ Finished' = Finished
    BY <1>6, <2>1 DEF InStack, Finished
  <2>3. CallsVisit' /\ OneCallEach' /\ NextIsThere'
    BY <2>1, <2>2 DEF CallsVisit, OneCallEach, NextIsThere
  <2>4. FollowedIsDone' /\ CallsAreLinked' /\ CallsReach'
    BY <2>1 DEF FollowedIsDone, CallsAreLinked, CallsReach
  <2> QED
    BY <2>2, <2>3, <2>4 DEF FramesInv
<1>8. ASSUME root + 1 \notin visited PROVE FramesInv' /\ Finished' = Finished
  <2>1. /\ frames' = <<Call(root + 1)>> /\ DOMAIN frames' = {1} /\ Len(frames') = 1
        /\ frames'[1].node = root + 1 /\ frames'[1].next = 1
    BY <1>1, <1>8 DEF Call
  <2>2. InStack' = {root + 1}
    BY <2>1 DEF InStack
  <2>3. Finished' = Finished
    BY <1>1, <1>6, <1>8, <2>2 DEF Finished
  <2>4. Len(Dependencies(nodes, frames'[1].node)) \in Nat
    BY <1>2, DependenciesTyped, NodesAreNamed
  <2>5. CallsVisit' /\ OneCallEach' /\ NextIsThere'
    BY <1>1, <2>1, <2>2, <2>4 DEF CallsVisit, OneCallEach, NextIsThere
  <2>6. FollowedIsDone'
    BY <2>1 DEF FollowedIsDone
  <2>7. CallsAreLinked' /\ CallsReach'
    BY <2>1 DEF CallsAreLinked, CallsReach
  <2> QED
    BY <2>3, <2>5, <2>6, <2>7 DEF FramesInv
<1>9. FramesInv' /\ Finished' = Finished
  BY <1>7, <1>8
<1>10. FinishedInv'
  BY <1>1, <1>9, SameFinished DEF SearchInv
<1>11. 1 .. root' \subseteq visited'
  BY <1>1, <1>2 DEF SearchInv, PhaseInv
<1>12. step' = "searching" /\ UNCHANGED <<line, taken, told>>
  BY <1>1 DEF sortVars
<1>13. PhaseInv' /\ TraceInv' /\ SortInv'
  BY <1>1, <1>11, <1>12 DEF SearchInv, PhaseInv, Sorting, TraceInv, SortInv
<1> QED
  BY <1>5, <1>9, <1>10, <1>13 DEF SearchInv

\* The call of dfs() that runs, gone on to its next dependency.
LEMMA OnwardIs ==
  ASSUME ResolverTypeOK, frames # <<>>, Top.next <= Len(Dependencies(nodes, Top.node))
  PROVE  /\ Onward \in Seq(Frame) /\ DOMAIN Onward = DOMAIN frames /\ Len(Onward) = Len(frames)
         /\ \A i \in DOMAIN frames :
              /\ Onward[i].node = frames[i].node
              /\ Onward[i].next = IF i = Len(frames) THEN frames[i].next + 1 ELSE frames[i].next
         /\ Len(frames) \in DOMAIN frames /\ Len(frames) \in Nat
         /\ Dependencies(nodes, Top.node)[Top.next] \in Needs(nodes, Top.node)
         /\ Dependencies(nodes, Top.node)[Top.next] \in NodeNames
<1> DEFINE last == Len(frames)
<1>1. /\ DOMAIN frames = 1 .. last /\ last \in Nat /\ last \in DOMAIN frames /\ frames \in Seq(Frame)
      /\ \A i \in DOMAIN frames : frames[i] \in Frame
  BY FramesTyped DEF ResolverTypeOK
<1>2. Top \in Frame /\ Top = frames[last]
  BY <1>1 DEF Top
<1>3. /\ Dependencies(nodes, Top.node) \in Seq(NodeNames) /\ Len(Dependencies(nodes, Top.node)) \in 0 .. MaxDependencies
      /\ DOMAIN Dependencies(nodes, Top.node) = 1 .. Len(Dependencies(nodes, Top.node))
  BY DependenciesTyped, NodesAreNamed
<1>4. /\ Top.next \in DOMAIN Dependencies(nodes, Top.node) /\ Top.next + 1 \in 1 .. MaxDependencies + 1
      /\ Top.next \in Nat
  BY <1>2, <1>3, ResolverAssumption DEF Frame
<1> DEFINE new == [Top EXCEPT !.next = @ + 1]
<1>5. new \in Frame /\ new.node = Top.node /\ new.next = Top.next + 1
  BY <1>2, <1>4 DEF Frame
<1>6. Onward = [frames EXCEPT ![last] = new]
  BY <1>2 DEF Onward
<1> HIDE DEF new, last
<1>7. /\ Onward \in Seq(Frame) /\ DOMAIN Onward = DOMAIN frames /\ Len(Onward) = last
      /\ \A i \in DOMAIN frames : Onward[i] = IF i = last THEN new ELSE frames[i]
  <2>1. /\ Onward \in Seq(Frame) /\ Len(Onward) = Len(frames)
        /\ \A i \in 1 .. Len(frames) : Onward[i] = IF i = last THEN new ELSE frames[i]
    BY <1>1, <1>5, <1>6, ExceptSeq DEF last
  <2> QED
    BY <1>1, <2>1, LenProperties DEF last
<1>8. \A i \in DOMAIN frames :
         /\ Onward[i].node = frames[i].node
         /\ Onward[i].next = IF i = last THEN frames[i].next + 1 ELSE frames[i].next
  BY <1>2, <1>5, <1>7
<1>9. Dependencies(nodes, Top.node)[Top.next] \in Needs(nodes, Top.node) /\ Dependencies(nodes, Top.node)[Top.next] \in NodeNames
  BY <1>3, <1>4 DEF Needs
<1> QED
  BY <1>1, <1>7, <1>8, <1>9 DEF last


Follows(d) ==
  /\ step = "searching" /\ frames # <<>> /\ Top.next <= Len(Dependencies(nodes, Top.node))
  /\ d = Dependencies(nodes, Top.node)[Top.next]
  /\ UNCHANGED <<nodes, root, sortVars>>

Visits(d) ==
  /\ Follows(d) /\ d \notin visited /\ visited' = visited \cup {d}
  /\ parent' = [parent EXCEPT ![d] = Top.node]
  /\ frames' = Append(Onward, Call(d)) /\ UNCHANGED <<step, path>>

\* A dependency that was not visited is visited next.
LEMMA VisitKeeps ==
  ASSUME SearchInv, NEW d, Visits(d)
  PROVE  SearchInv'
<1>21. /\ nodes' = nodes /\ UNCHANGED <<step, root, path, sortVars>> /\ step = "searching"
       /\ frames # <<>> /\ Top.next <= Len(Dependencies(nodes, Top.node)) /\ d \notin visited
       /\ d = Dependencies(nodes, Top.node)[Top.next] /\ visited' = visited \cup {d}
       /\ parent' = [parent EXCEPT ![d] = Top.node]
  BY DEF Visits, Follows
<1>25. nodes' = nodes /\ ResolverTypeOK /\ nodes \in Seq(Lists)
  BY <1>21, NodesAreNamed DEF SearchInv
<1>20. PICK last \in Nat : last = Len(frames)
  BY FramesTyped DEF SearchInv
<1>1. ResolverTypeOK /\ FramesInv /\ d \in NodeNames /\ d \in Needs(nodes, Top.node)
  BY <1>21, OnwardIs DEF SearchInv
<1>2. /\ DOMAIN frames = 1 .. last /\ last \in Nat /\ last \in 1 .. last
      /\ \A i \in 1 .. last : frames[i].node \in NodeNames /\ frames[i].next \in Nat \ {0}
      /\ Top = frames[last] /\ Top.node \in NodeNames
  BY <1>1, <1>20, <1>21, FramesTyped, OnwardIs DEF Top
<1>3. Call(d) \in Frame /\ Call(d).node = d /\ Call(d).next = 1
  BY <1>1, ResolverAssumption DEF Call, Frame
<1>4. /\ Onward \in Seq(Frame) /\ Len(Onward) = last
      /\ \A i \in 1 .. last : /\ Onward[i].node = frames[i].node
                              /\ Onward[i].next = IF i = last THEN frames[i].next + 1 ELSE frames[i].next
  BY <1>1, <1>2, <1>20, <1>21, OnwardIs
<1>5. /\ frames' \in Seq(Frame) /\ Len(frames') = last + 1 /\ DOMAIN frames' = 1 .. last + 1
      /\ \A i \in 1 .. last : frames'[i] = Onward[i]
      /\ frames'[last + 1] = Call(d)
  BY <1>2, <1>3, <1>4 DEF Visits
<1>6. \A i \in 1 .. last : frames'[i].node = frames[i].node
  BY <1>4, <1>5, Zenon
<1>7. \A i \in 1 .. last : i # last => frames'[i].next = frames[i].next
  BY <1>4, <1>5, Zenon
<1>8. frames'[last].node = frames[last].node /\ frames'[last].next = frames[last].next + 1
  BY <1>2, <1>4, <1>5, Zenon
<1>9. frames'[last + 1].node = d /\ frames'[last + 1].next = 1
  BY <1>3, <1>5, Zenon
<1>10. \A i \in 1 .. last + 1 : i \in 1 .. last \/ i = last + 1
  BY <1>2
<1>11. last + 1 \in 1 .. last + 1 /\ 1 .. last \subseteq 1 .. last + 1
  BY <1>2
<1>12. InStack' = InStack \cup {d} /\ (\A i \in 1 .. last : frames[i].node \in InStack)
  <2>1. InStack' = {frames'[i].node : i \in 1 .. last + 1} /\ InStack = {frames[i].node : i \in 1 .. last}
    BY <1>2, <1>5 DEF InStack
  <2> QED
    BY <1>6, <1>9, <1>10, <1>11, <2>1, Zenon
<1>13. Finished' = Finished /\ InStack \subseteq visited /\ d \notin InStack
  BY <1>1, <1>12, <1>21 DEF Finished, FramesInv, CallsVisit
<1>14. CallsVisit' /\ OneCallEach'
  <2>1. CallsVisit'
    BY <1>12, <1>13, <1>21 DEF CallsVisit
  <2>2. \A i, j \in 1 .. last : frames[i].node = frames[j].node => i = j
    BY <1>1, <1>2 DEF FramesInv, OneCallEach
  <2>3. \A i \in 1 .. last : frames'[i].node # d
    BY <1>6, <1>12, <1>13, Zenon
  <2>4. \A i, j \in 1 .. last + 1 : frames'[i].node = frames'[j].node => i = j
    BY <1>6, <1>9, <1>10, <2>2, <2>3, Zenon
  <2> QED
    BY <1>5, <2>1, <2>4 DEF OneCallEach
<1>15. NextIsThere'
  <2>1. \A i \in 1 .. last : frames[i].next <= Len(Dependencies(nodes, frames[i].node)) + 1
    BY <1>1, <1>2 DEF FramesInv, NextIsThere
  <2>2. \A n : Len(Dependencies(nodes, n)) \in Nat
    BY <1>1, DependenciesTyped, NodesAreNamed
  <2>3. ASSUME NEW i \in 1 .. last, i # last PROVE frames'[i].next <= Len(Dependencies(nodes, frames'[i].node)) + 1
    BY <1>6, <1>7, <2>1, <2>2, <2>3, Zenon
  <2>4. frames'[last].next <= Len(Dependencies(nodes, frames'[last].node)) + 1
    <3>1. frames[last].next \in Nat /\ Len(Dependencies(nodes, frames[last].node)) \in Nat
          /\ frames[last].next <= Len(Dependencies(nodes, frames[last].node))
      BY <1>2, <1>21, <2>2
    <3>2. frames[last].next + 1 <= Len(Dependencies(nodes, frames[last].node)) + 1
      BY <3>1
    <3> QED
      BY <1>8, <2>2, <3>2, Zenon
  <2>5. frames'[last + 1].next <= Len(Dependencies(nodes, frames'[last + 1].node)) + 1
    <3>1. 1 <= Len(Dependencies(nodes, d)) + 1
      BY <2>2
    <3> QED
      BY <1>9, <2>2, <3>1, Zenon
  <2> QED
    BY <1>5, <1>10, <1>25, <2>3, <2>4, <2>5, Zenon DEF NextIsThere
<1>16. FollowedIsDone'
  <2>2. ASSUME NEW i \in 1 .. last, NEW k \in 1 .. frames'[i].next - 1
        PROVE  Dependencies(nodes, frames'[i].node)[k] \in Finished' \cup Above(i)'
    <3>1. \A l \in 1 .. frames[i].next - 1 : Dependencies(nodes, frames[i].node)[l] \in Finished \cup Above(i)
      BY <1>1, <1>2 DEF FramesInv, FollowedIsDone
    <3>2. Dependencies(nodes, frames'[i].node) = Dependencies(nodes, frames[i].node)
      BY <1>6, Zenon
    <3>3. CASE i = last
      <4>1. Above(i) = {} /\ Above(i)' = {d}
        BY <1>2, <1>5, <1>9, <1>20, <3>3 DEF Above
      <4>2. frames[i].next \in Nat /\ k \in 1 .. frames[i].next + 1 - 1
        BY <1>2, <1>8, <3>3
      <4>3. k \in 1 .. frames[i].next - 1 \/ k = frames[i].next
        BY <4>2
      <4>4. Dependencies(nodes, frames[i].node)[frames[i].next] = d
        BY <1>2, <1>21, <3>3
      <4> QED
        BY <1>13, <3>1, <3>2, <4>1, <4>3, <4>4, Zenon
    <3>4. CASE i # last
      <4>1. i + 1 \in 1 .. last /\ i < last /\ i < last + 1
        BY <1>2, <3>4
      <4>2. Above(i) = {frames[i + 1].node} /\ Above(i)' = {frames'[i + 1].node}
        BY <1>5, <1>20, <4>1 DEF Above
      <4>3. Above(i)' = Above(i)
        BY <1>6, <4>1, <4>2, Zenon
      <4>4. k \in 1 .. frames[i].next - 1
        BY <1>7, <3>4, Zenon
      <4> QED
        BY <1>13, <3>1, <3>2, <4>3, <4>4, Zenon
    <3> QED
      BY <3>3, <3>4
  <2>3. 1 .. frames'[last + 1].next - 1 = {}
    BY <1>9
  <2>4. \A i \in 1 .. last + 1 : \A k \in 1 .. frames'[i].next - 1 :
          Dependencies(nodes, frames'[i].node)[k] \in Finished' \cup Above(i)'
    BY <1>10, <2>2, <2>3, Zenon
  <2> QED
    BY <1>5, <1>25, <2>4, Zenon DEF FollowedIsDone
<1>17. CallsAreLinked'
  <2>2. parent' \in [NodeNames -> NodeNames \cup {0}] /\ parent'[d] = frames[last].node
        /\ \A n \in NodeNames \ {d} : parent'[n] = parent[n]
    BY <1>1, <1>2, <1>21 DEF ResolverTypeOK
  <2>3. ASSUME NEW i \in 1 .. last
        PROVE  frames'[i + 1].node \in Needs(nodes, frames'[i].node) /\ parent'[frames'[i + 1].node] = frames'[i].node
    <3>1. CASE i = last
      BY <1>1, <1>2, <1>8, <1>9, <2>2, <3>1, Zenon
    <3>2. CASE i # last
      <4>1. i + 1 \in 1 .. last /\ i < last
        BY <1>2, <3>2
      <4>2. frames[i + 1].node \in Needs(nodes, frames[i].node) /\ parent[frames[i + 1].node] = frames[i].node
        BY <1>1, <1>2, <1>20, <4>1 DEF FramesInv, CallsAreLinked
      <4>3. frames[i + 1].node # d
        BY <1>12, <1>13, <4>1, Zenon
      <4>4. parent'[frames[i + 1].node] = frames[i].node
        BY <1>2, <2>2, <4>1, <4>2, <4>3
      <4> QED
        BY <1>6, <4>1, <4>2, <4>4, Zenon
    <3> QED
      BY <3>1, <3>2
  <2>4. \A i \in 1 .. last + 1 : i < last + 1 => i \in 1 .. last
    BY <1>2
  <2> QED
    BY <1>5, <1>25, <2>3, <2>4, Zenon DEF CallsAreLinked
<1>18. CallsReach'
  <2>2. \A i, j \in 1 .. last : i < j => frames[j].node \in Reached(nodes, frames[i].node)
    BY <1>1, <1>2 DEF FramesInv, CallsReach
  <2>3. d \in Reached(nodes, frames[last].node)
    BY <1>1, <1>2, <1>25, ReachesNeeds
  <2>4. ASSUME NEW i \in 1 .. last PROVE d \in Reached(nodes, frames[i].node)
    <3>1. i = last \/ i < last
      BY <1>2
    <3>2. i < last => Reached(nodes, frames[last].node) \subseteq Reached(nodes, frames[i].node)
      BY <1>1, <1>2, <1>25, <2>2, ReachesOn
    <3> QED
      BY <2>3, <3>1, <3>2, Zenon
  <2>5. ASSUME NEW i \in 1 .. last + 1, NEW j \in 1 .. last + 1, i < j
        PROVE  frames'[j].node \in Reached(nodes, frames'[i].node)
    <3>1. i \in 1 .. last
      BY <1>2, <2>5
    <3>2. CASE j \in 1 .. last
      BY <1>6, <2>2, <2>5, <3>1, <3>2, Zenon
    <3>3. CASE j = last + 1
      BY <1>6, <1>9, <2>4, <3>1, <3>3, Zenon
    <3> QED
      BY <1>10, <3>2, <3>3
  <2> QED
    BY <1>5, <1>25, <2>5 DEF CallsReach
<1>19. ResolverTypeOK'
  <2>1. visited' \subseteq NodeNames /\ parent' \in [NodeNames -> NodeNames \cup {0}] /\ frames' \in Seq(Frame)
    BY <1>1, <1>2, <1>5, <1>21 DEF ResolverTypeOK
  <2> QED
    BY <1>1, <1>21, <2>1 DEF ResolverTypeOK, sortVars, Visits
<1>22. FinishedInv'
  BY <1>13, <1>21, SameFinished DEF SearchInv
<1>23. 1 .. root' \subseteq visited'
  BY <1>21 DEF SearchInv, PhaseInv
<1>24. PhaseInv' /\ TraceInv' /\ SortInv'
  BY <1>21, <1>23 DEF SearchInv, PhaseInv, Sorting, TraceInv, SortInv, sortVars
<1> QED
  BY <1>14, <1>15, <1>16, <1>17, <1>18, <1>19, <1>22, <1>24 DEF SearchInv, FramesInv

Passes(d) ==
  /\ Follows(d) /\ d \in visited \ InStack
  /\ frames' = Onward /\ UNCHANGED <<step, visited, parent, path>>

ClosesCycle(d) ==
  /\ Follows(d) /\ d \in visited \cap InStack
  /\ step' = "tracing" /\ path' = <<d, Top.node>>
  /\ UNCHANGED <<visited, frames, parent>>

LEMMA FollowIs ==
  ASSUME Follow
  PROVE  \E d : Visits(d) \/ Passes(d) \/ ClosesCycle(d)
  BY DEF Follow, Follows, Visits, Passes, ClosesCycle

\* A dependency whose call has ended is passed over.
LEMMA PassKeeps ==
  ASSUME SearchInv, NEW d, Passes(d)
  PROVE  SearchInv'
<1>1. /\ nodes' = nodes /\ UNCHANGED <<step, root, visited, parent, path, sortVars>> /\ step = "searching"
      /\ frames # <<>> /\ Top.next <= Len(Dependencies(nodes, Top.node))
      /\ d = Dependencies(nodes, Top.node)[Top.next] /\ d \in visited \ InStack
  BY DEF Passes, Follows
<1>2. nodes' = nodes /\ ResolverTypeOK /\ FramesInv /\ nodes \in Seq(Lists)
  BY <1>1, NodesAreNamed DEF SearchInv
<1>3. PICK last \in Nat : last = Len(frames)
  BY <1>2, FramesTyped
<1>4. /\ DOMAIN frames = 1 .. last /\ last \in Nat /\ last \in 1 .. last
      /\ \A i \in 1 .. last : frames[i].node \in NodeNames /\ frames[i].next \in Nat \ {0}
      /\ Top = frames[last]
  BY <1>1, <1>2, <1>3, FramesTyped, OnwardIs DEF Top
<1>5. /\ Onward \in Seq(Frame) /\ Len(Onward) = last /\ DOMAIN Onward = 1 .. last
      /\ \A i \in 1 .. last : /\ Onward[i].node = frames[i].node
                              /\ Onward[i].next = IF i = last THEN frames[i].next + 1 ELSE frames[i].next
  BY <1>1, <1>2, <1>3, <1>4, OnwardIs
<1>6. frames' = Onward
  BY DEF Passes
<1>7. frames' \in Seq(Frame) /\ Len(frames') = last /\ DOMAIN frames' = 1 .. last
  BY <1>5, <1>6
<1>8. \A i \in 1 .. last : frames'[i].node = frames[i].node
  BY <1>5, <1>6, Zenon
<1>9. \A i \in 1 .. last : i # last => frames'[i].next = frames[i].next
  BY <1>5, <1>6, Zenon
<1>10. frames'[last].next = frames[last].next + 1
  BY <1>4, <1>5, <1>6, Zenon
<1>11. InStack' = InStack /\ Finished' = Finished
  <2>1. InStack' = {frames'[i].node : i \in 1 .. last} /\ InStack = {frames[i].node : i \in 1 .. last}
    BY <1>4, <1>7 DEF InStack
  <2>2. InStack' = InStack
    BY <1>8, <2>1, Zenon
  <2> QED
    BY <1>1, <2>2 DEF Finished
<1>12. CallsVisit' /\ OneCallEach'
  <2>1. CallsVisit'
    BY <1>1, <1>2, <1>11 DEF FramesInv, CallsVisit
  <2>2. \A i, j \in 1 .. last : frames[i].node = frames[j].node => i = j
    BY <1>2, <1>4 DEF FramesInv, OneCallEach
  <2> QED
    BY <1>7, <1>8, <2>1, <2>2, Zenon DEF OneCallEach
<1>13. NextIsThere'
  <2>1. \A i \in 1 .. last : frames[i].next <= Len(Dependencies(nodes, frames[i].node)) + 1
    BY <1>2, <1>4 DEF FramesInv, NextIsThere
  <2>2. ASSUME NEW i \in 1 .. last, i # last
        PROVE  frames'[i].next <= Len(Dependencies(nodes, frames'[i].node)) + 1
    BY <1>8, <1>9, <2>1, <2>2, Zenon
  <2>3. frames'[last].next <= Len(Dependencies(nodes, frames'[last].node)) + 1
    <3>1. frames[last].next \in Nat /\ Len(Dependencies(nodes, frames[last].node)) \in Nat
          /\ frames[last].next <= Len(Dependencies(nodes, frames[last].node))
      BY <1>1, <1>2, <1>4, DependenciesTyped
    <3>2. frames[last].next + 1 <= Len(Dependencies(nodes, frames[last].node)) + 1
      BY <3>1
    <3> QED
      BY <1>4, <1>8, <1>10, <3>2, Zenon
  <2> QED
    BY <1>2, <1>7, <2>2, <2>3, Zenon DEF NextIsThere
<1>14. FollowedIsDone'
  <2>1. ASSUME NEW i \in 1 .. last, NEW k \in 1 .. frames'[i].next - 1
        PROVE  Dependencies(nodes, frames'[i].node)[k] \in Finished' \cup Above(i)'
    <3>1. \A l \in 1 .. frames[i].next - 1 : Dependencies(nodes, frames[i].node)[l] \in Finished \cup Above(i)
      BY <1>2, <1>4 DEF FramesInv, FollowedIsDone
    <3>2. Dependencies(nodes, frames'[i].node) = Dependencies(nodes, frames[i].node)
      BY <1>8, Zenon
    <3>3. CASE i = last
      <4>1. Above(i) = {}
        BY <1>3, <1>4, <3>3 DEF Above
      <4>2. frames[i].next \in Nat /\ k \in 1 .. frames[i].next + 1 - 1
        BY <1>4, <1>10, <3>3
      <4>3. k \in 1 .. frames[i].next - 1 \/ k = frames[i].next
        BY <4>2
      <4>4. Dependencies(nodes, frames[i].node)[frames[i].next] = d /\ d \in Finished
        BY <1>1, <1>4, <3>3 DEF Finished
      <4> QED
        BY <1>11, <3>1, <3>2, <4>1, <4>3, <4>4, Zenon
    <3>4. CASE i # last
      <4>1. i + 1 \in 1 .. last /\ i < last
        BY <1>4, <3>4
      <4>2. Above(i) = {frames[i + 1].node} /\ Above(i)' = {frames'[i + 1].node}
        BY <1>3, <1>7, <4>1 DEF Above
      <4>3. Above(i)' = Above(i)
        BY <1>8, <4>1, <4>2, Zenon
      <4>4. k \in 1 .. frames[i].next - 1
        BY <1>9, <3>4, Zenon
      <4> QED
        BY <1>11, <3>1, <3>2, <4>3, <4>4, Zenon
    <3> QED
      BY <3>3, <3>4
  <2> QED
    BY <1>2, <1>7, <2>1, Zenon DEF FollowedIsDone
<1>15. CallsAreLinked' /\ CallsReach'
  <2>1. \A i \in 1 .. last : i < last =>
          /\ frames[i + 1].node \in Needs(nodes, frames[i].node)
          /\ parent[frames[i + 1].node] = frames[i].node
          /\ i + 1 \in 1 .. last
    BY <1>2, <1>3, <1>4 DEF FramesInv, CallsAreLinked
  <2>2. \A i \in 1 .. last : i < last =>
          /\ frames'[i + 1].node \in Needs(nodes, frames'[i].node)
          /\ parent'[frames'[i + 1].node] = frames'[i].node
    BY <1>1, <1>8, <2>1, Zenon
  <2>3. \A i, j \in 1 .. last : i < j => frames[j].node \in Reached(nodes, frames[i].node)
    BY <1>2, <1>4 DEF FramesInv, CallsReach
  <2>4. \A i, j \in 1 .. last : i < j => frames'[j].node \in Reached(nodes, frames'[i].node)
    BY <1>8, <2>3, Zenon
  <2> QED
    BY <1>2, <1>7, <2>2, <2>4, Zenon DEF CallsAreLinked, CallsReach
<1>16. ResolverTypeOK'
  BY <1>1, <1>2, <1>7 DEF ResolverTypeOK, sortVars
<1>17. FinishedInv'
  BY <1>2, <1>11, SameFinished DEF SearchInv
<1>18. PhaseInv' /\ TraceInv' /\ SortInv'
  BY <1>1 DEF SearchInv, PhaseInv, Sorting, TraceInv, SortInv, sortVars
<1> QED
  BY <1>12, <1>13, <1>14, <1>15, <1>16, <1>17, <1>18 DEF SearchInv, FramesInv

\* A dependency that is a call under way closes a cycle.
LEMMA CloseKeeps ==
  ASSUME SearchInv, NEW d, ClosesCycle(d)
  PROVE  SearchInv'
<1>1. /\ nodes' = nodes /\ UNCHANGED <<root, visited, parent, frames, sortVars>> /\ step = "searching"
      /\ frames # <<>> /\ Top.next <= Len(Dependencies(nodes, Top.node)) /\ step' = "tracing"
      /\ d = Dependencies(nodes, Top.node)[Top.next] /\ d \in InStack /\ path' = <<d, Top.node>>
  BY DEF ClosesCycle, Follows
<1>2. /\ ResolverTypeOK /\ d \in NodeNames /\ d \in Needs(nodes, Top.node)
      /\ Len(frames) \in Nat \ {0} /\ DOMAIN frames = 1 .. Len(frames) /\ Top.node \in NodeNames
  BY <1>1, OnwardIs, FramesTyped DEF SearchInv, Top
<1>3. PICK a \in 1 .. Len(frames) : d = frames[a].node
  BY <1>1, <1>2 DEF InStack
<1>4. path' \in Seq(NodeNames) /\ Len(path') = 2 /\ path'[1] = d /\ path'[2] = Top.node
  BY <1>1, <1>2
<1>5. ResolverTypeOK'
  BY <1>1, <1>2, <1>4 DEF ResolverTypeOK, sortVars
<1>6. TraceInv'
  <2>1. Len(frames') - Len(path') + 2 = Len(frames) /\ Len(frames) - 2 + 2 = Len(frames)
    BY <1>1, <1>2, <1>4
  <2>2. \A k \in 2 .. Len(path') : path'[k] = frames'[Len(frames') - k + 2].node
    BY <1>1, <1>2, <1>4 DEF Top
  <2>3. Len(path') >= 2 /\ Len(path') - 1 <= Len(frames')
    BY <1>1, <1>2, <1>4
  <2>4. path'[1] = frames'[a].node /\ path'[1] \in Needs(nodes', Top'.node)
    BY <1>1, <1>2, <1>3, <1>4 DEF Top
  <2> QED
    BY <1>1, <1>3, <2>1, <2>2, <2>3, <2>4 DEF TraceInv
<1>7. FramesInv' /\ FinishedInv'
  BY <1>1, SearchStays DEF SearchInv
<1>9. PhaseInv' /\ SortInv'
  BY <1>1 DEF SearchInv, PhaseInv, Sorting, SortInv, sortVars
<1> QED
  BY <1>5, <1>6, <1>7, <1>9 DEF SearchInv

\* A call that has followed all its dependencies ends: what it needs has been
\* finished before it, so it closes no cycle.
LEMMA LeaveKeeps ==
  ASSUME SearchInv, Leave
  PROVE  SearchInv'
<1>1. /\ nodes' = nodes /\ UNCHANGED <<step, root, visited, parent, path, sortVars>> /\ step = "searching"
      /\ frames # <<>> /\ Top.next > Len(Dependencies(nodes, Top.node))
  BY DEF Leave
<1>2. nodes' = nodes /\ ResolverTypeOK /\ FramesInv /\ FinishedInv /\ nodes \in Seq(Lists)
  BY <1>1, NodesAreNamed DEF SearchInv
<1>3. PICK last \in Nat : last = Len(frames)
  BY <1>2, FramesTyped
<1> DEFINE rest == last - 1
<1>4. /\ DOMAIN frames = 1 .. last /\ last \in Nat /\ last \in 1 .. last /\ frames \in Seq(Frame)
      /\ \A i \in 1 .. last : frames[i].node \in NodeNames /\ frames[i].next \in Nat \ {0}
      /\ Top = frames[last]
  <2>1. frames \in Seq(Frame)
    BY <1>2 DEF ResolverTypeOK
  <2>2. last # 0
    BY <1>1, <1>3, <2>1
  <2>3. DOMAIN frames = 1 .. last /\ last \in 1 .. last
    BY <1>2, <1>3, <2>2, FramesTyped
  <2>4. \A i \in 1 .. last : frames[i].node \in NodeNames /\ frames[i].next \in Nat \ {0}
    BY <1>2, <2>3, FramesTyped, Zenon
  <2> QED
    BY <1>3, <2>1, <2>3, <2>4 DEF Top
<1>5. rest \in Nat /\ rest < last /\ last = rest + 1 /\ last \notin 1 .. rest
      /\ \A i \in 1 .. last : i \in 1 .. rest \/ i = last
  BY <1>4
<1>6. 1 .. rest \subseteq 1 .. last
  BY <1>4
<1>7. frames' \in Seq(Frame) /\ Len(frames') = rest /\ DOMAIN frames' = 1 .. rest
      /\ \A i \in 1 .. rest : frames'[i] = frames[i]
  <2>1. frames' = SubSeq(frames, 1, last - 1)
    BY <1>3 DEF Leave
  <2> QED
    BY <1>3, <1>4, <1>5, <2>1
<1> HIDE DEF rest
<1> DEFINE n == frames[last].node
<1>8. InStack = InStack' \cup {n} /\ n \notin InStack'
  <2>1. InStack' = {frames'[i].node : i \in 1 .. rest} /\ InStack = {frames[i].node : i \in 1 .. last}
    BY <1>4, <1>7 DEF InStack
  <2>2. \A i \in 1 .. rest : frames[i].node # n
    BY <1>2, <1>4, <1>5, <1>6 DEF FramesInv, OneCallEach
  <2>3. InStack' = {frames[i].node : i \in 1 .. rest}
    BY <1>7, <2>1, Zenon
  <2> QED
    BY <1>4, <1>5, <1>6, <2>1, <2>2, <2>3, Zenon
<1>9. Finished' = Finished \cup {n} /\ n \notin Finished /\ n \in NodeNames /\ Finished \subseteq NodeNames
  BY <1>1, <1>2, <1>4, <1>8 DEF Finished, FramesInv, CallsVisit, ResolverTypeOK
<1>10. Needs(nodes, n) \subseteq Finished
  <2>1. \A k \in 1 .. frames[last].next - 1 : Dependencies(nodes, n)[k] \in Finished \cup Above(last)
    BY <1>2, <1>4 DEF FramesInv, FollowedIsDone
  <2>2. Above(last) = {}
    BY <1>3 DEF Above
  <2>3. \A k \in DOMAIN Dependencies(nodes, n) : k \in 1 .. frames[last].next - 1
    <3>1. Len(Dependencies(nodes, n)) \in Nat /\ DOMAIN Dependencies(nodes, n) = 1 .. Len(Dependencies(nodes, n))
      BY <1>2, DependenciesTyped
    <3>2. frames[last].next > Len(Dependencies(nodes, n)) /\ frames[last].next \in Nat
      BY <1>1, <1>4
    <3> QED
      BY <3>1, <3>2
  <2> QED
    BY <2>1, <2>2, <2>3, Zenon DEF Needs
<1>11. Reached(nodes, n) \subseteq Finished
  BY <1>2, <1>9, <1>10, ReachedIsLeast DEF FinishedInv
<1>12. FinishedInv'
  <2>1. Closed(nodes, Finished')
    BY <1>2, <1>9, <1>10 DEF FinishedInv, Closed
  <2>2. \A m \in Finished' : m \notin Reached(nodes, m)
    BY <1>2, <1>9, <1>11 DEF FinishedInv
  <2>3. ASSUME NEW R \in SUBSET Finished', R # {} PROVE \E m \in R : Needs(nodes, m) \cap R = {}
    <3>1. CASE R = {n}
      BY <1>9, <1>10, <3>1
    <3>2. CASE R # {n}
      <4> DEFINE S == R \ {n}
      <4>1. S \in SUBSET Finished /\ S # {}
        BY <1>9, <2>3, <3>2
      <4>2. PICK m \in S : Needs(nodes, m) \cap S = {}
        BY <1>2, <4>1 DEF FinishedInv
      <4>3. Needs(nodes, m) \subseteq Finished
        BY <1>2, <4>1, <4>2 DEF FinishedInv, Closed
      <4> QED
        BY <1>9, <4>2, <4>3
    <3> QED
      BY <3>1, <3>2
  <2> QED
    BY <1>2, <2>1, <2>2, <2>3 DEF FinishedInv
<1>13. CallsVisit' /\ OneCallEach' /\ NextIsThere'
  <2>1. CallsVisit'
    BY <1>1, <1>2, <1>8 DEF FramesInv, CallsVisit
  <2>2. \A i, j \in 1 .. last : frames[i].node = frames[j].node => i = j
    BY <1>2, <1>4 DEF FramesInv, OneCallEach
  <2>3. \A i \in 1 .. last : frames[i].next <= Len(Dependencies(nodes, frames[i].node)) + 1
    BY <1>2, <1>4 DEF FramesInv, NextIsThere
  <2>4. \A i, j \in 1 .. rest : frames'[i].node = frames'[j].node => i = j
    BY <1>6, <1>7, <2>2, Zenon
  <2>5. \A i \in 1 .. rest : frames'[i].next <= Len(Dependencies(nodes, frames'[i].node)) + 1
    BY <1>6, <1>7, <2>3, Zenon
  <2> QED
    BY <1>2, <1>7, <2>1, <2>4, <2>5, Zenon DEF OneCallEach, NextIsThere
<1>14. FollowedIsDone'
  <2>1. ASSUME NEW i \in 1 .. rest, NEW k \in 1 .. frames'[i].next - 1
        PROVE  Dependencies(nodes, frames'[i].node)[k] \in Finished' \cup Above(i)'
    <3>1. \A l \in 1 .. frames[i].next - 1 : Dependencies(nodes, frames[i].node)[l] \in Finished \cup Above(i)
      BY <1>2, <1>4, <1>6 DEF FramesInv, FollowedIsDone
    <3>2. frames'[i] = frames[i]
      BY <1>7
    <3>3. Dependencies(nodes, frames'[i].node)[k] \in Finished \cup Above(i)
      BY <3>1, <3>2, Zenon
    <3>4. i + 1 \in 1 .. last /\ i < last
      BY <1>5
    <3>5. Above(i) = {frames[i + 1].node}
      BY <1>3, <3>4 DEF Above
    <3>6. CASE i + 1 = last
      BY <1>9, <3>3, <3>5, <3>6
    <3>7. CASE i + 1 # last
      <4>1. i + 1 \in 1 .. rest /\ i < rest
        BY <1>5, <3>4, <3>7
      <4>2. Above(i)' = {frames'[i + 1].node}
        BY <1>7, <4>1 DEF Above
      <4> QED
        BY <1>7, <1>9, <3>3, <3>5, <4>1, <4>2, Zenon
    <3> QED
      BY <3>6, <3>7
  <2> QED
    BY <1>2, <1>7, <2>1, Zenon DEF FollowedIsDone
<1>15. CallsAreLinked' /\ CallsReach'
  <2>1. \A i \in 1 .. last : i < last =>
          /\ frames[i + 1].node \in Needs(nodes, frames[i].node)
          /\ parent[frames[i + 1].node] = frames[i].node
    BY <1>2, <1>3, <1>4 DEF FramesInv, CallsAreLinked
  <2>2. \A i \in 1 .. rest : i < rest => i \in 1 .. last /\ i < last /\ i + 1 \in 1 .. rest
    BY <1>5
  <2>3. \A i \in 1 .. rest : i < rest =>
          /\ frames'[i + 1].node \in Needs(nodes, frames'[i].node)
          /\ parent'[frames'[i + 1].node] = frames'[i].node
    BY <1>1, <1>7, <2>1, <2>2, Zenon
  <2>4. \A i, j \in 1 .. last : i < j => frames[j].node \in Reached(nodes, frames[i].node)
    BY <1>2, <1>4 DEF FramesInv, CallsReach
  <2>5. \A i, j \in 1 .. rest : i < j => frames'[j].node \in Reached(nodes, frames'[i].node)
    BY <1>6, <1>7, <2>4, Zenon
  <2> QED
    BY <1>2, <1>7, <2>3, <2>5, Zenon DEF CallsAreLinked, CallsReach
<1>16. ResolverTypeOK'
  BY <1>1, <1>2, <1>7 DEF ResolverTypeOK, sortVars
<1>17. PhaseInv' /\ TraceInv' /\ SortInv'
  BY <1>1 DEF SearchInv, PhaseInv, Sorting, TraceInv, SortInv, sortVars
<1> QED
  BY <1>12, <1>13, <1>14, <1>15, <1>16, <1>17 DEF SearchInv, FramesInv

\* The calls under way that the path has not named yet.
LEMMA PathIs ==
  ASSUME SearchInv, step = "tracing"
  PROVE  \E p, a \in 1 .. Len(frames) :
           /\ p = Len(frames) - Len(path) + 2 /\ a <= p /\ (p = a => a = Len(frames))
           /\ Len(path) \in Nat /\ Len(path) >= 2 /\ path \in Seq(NodeNames)
           /\ \A k \in 2 .. Len(path) : path[k] = frames[Len(frames) - k + 2].node
           /\ path[Len(path)] = frames[p].node
           /\ path[1] = frames[a].node /\ path[1] \in Needs(nodes, frames[Len(frames)].node)
           /\ path[1] \in NodeNames
           /\ \A i, j \in 1 .. Len(frames) : frames[i].node = frames[j].node => i = j
           /\ p > 1 => /\ frames[p].node \in Needs(nodes, frames[p - 1].node)
                       /\ parent[frames[p].node] = frames[p - 1].node /\ p - 1 \in 1 .. Len(frames)
                       /\ frames[p - 1].node \in NodeNames
<1>1. ResolverTypeOK /\ FramesInv /\ TraceInv
  BY DEF SearchInv
<1>2. /\ DOMAIN frames = 1 .. Len(frames) /\ Len(frames) \in Nat
      /\ \A i \in 1 .. Len(frames) : frames[i].node \in NodeNames
      /\ path \in Seq(NodeNames) /\ Len(path) \in Nat
  BY <1>1, FramesTyped DEF ResolverTypeOK
<1> DEFINE p == Len(frames) - Len(path) + 2
<1>3. Len(path) >= 2 /\ Len(path) - 1 <= Len(frames)
  BY <1>1 DEF TraceInv
<1>4. \A k \in 2 .. Len(path) : path[k] = frames[Len(frames) - k + 2].node
  BY <1>1 DEF TraceInv
<1>5. PICK a \in 1 .. p : /\ path[1] = frames[a].node /\ path[1] \in Needs(nodes, Top.node)
                          /\ p = a => a = Len(frames)
  BY <1>1 DEF TraceInv
<1>6. p \in 1 .. Len(frames) /\ a \in 1 .. Len(frames) /\ a <= p /\ Len(path) \in 2 .. Len(path)
  BY <1>2, <1>3
<1>7. path[Len(path)] = frames[p].node
  BY <1>4, <1>6
<1>8. p > 1 => /\ frames[p].node \in Needs(nodes, frames[p - 1].node)
               /\ parent[frames[p].node] = frames[p - 1].node /\ p - 1 \in 1 .. Len(frames)
  <2> HIDE DEF p
  <2> SUFFICES ASSUME p > 1
               PROVE  /\ frames[p].node \in Needs(nodes, frames[p - 1].node)
                      /\ parent[frames[p].node] = frames[p - 1].node /\ p - 1 \in 1 .. Len(frames)
    OBVIOUS
  <2>1. PICK b \in 1 .. Len(frames) : b = p - 1 /\ b + 1 = p /\ b < Len(frames)
    BY <1>2, <1>6
  <2>2. frames[b + 1].node \in Needs(nodes, frames[b].node) /\ parent[frames[b + 1].node] = frames[b].node
    BY <1>1, <1>2, <2>1 DEF FramesInv, CallsAreLinked
  <2> QED
    BY <2>1, <2>2
<1>9. \A i, j \in 1 .. Len(frames) : frames[i].node = frames[j].node => i = j
  BY <1>1, <1>2 DEF FramesInv, OneCallEach
<1>10. path[1] \in NodeNames
  BY <1>2, <1>5, <1>6
<1>11. path[1] \in Needs(nodes, frames[Len(frames)].node)
  BY <1>5 DEF Top
<1>12. p > 1 => frames[p - 1].node \in NodeNames
  BY <1>2, <1>8
<1>13. p = Len(frames) - Len(path) + 2
  OBVIOUS
<1>14. p = a => a = Len(frames)
  BY <1>5
<1>15. path[1] = frames[a].node
  BY <1>5
<1> HIDE DEF p
<1> QED
  BY <1>2, <1>3, <1>4, <1>6, <1>7, <1>8, <1>9, <1>10, <1>11, <1>12, <1>13, <1>14, <1>15, Zenon

\* A name that needs nothing reaches nothing.
LEMMA ReachesIsANode ==
  ASSUME NEW graph \in Seq(Lists), NEW n, Reached(graph, n) # {}
  PROVE  n \in DOMAIN graph
<1> SUFFICES ASSUME n \notin DOMAIN graph PROVE FALSE
  OBVIOUS
<1>1. Needs(graph, n) = {} /\ Closed(graph, {})
  BY DEF Needs, Dependencies, Closed
<1>2. Reached(graph, n) \subseteq {}
  BY <1>1, ReachedIsLeast
<1> QED
  BY <1>2

LEMMA LessIsItself ==
  ASSUME NEW k \in Nat, NEW n \in Nat, k < n
  PROVE  k % n = k
  OBVIOUS

\* One more call is named on the way back, or the cycle is complete.
LEMMA TraceKeeps ==
  ASSUME SearchInv, Trace
  PROVE  SearchInv' /\ OrderIsRight'
<1>1. step = "tracing" /\ UNCHANGED <<nodes, root, visited, frames, parent, told, degree, line, taken>>
  BY DEF Trace, searchVars, sortVars
<1> DEFINE last == Len(frames)
           size == Len(path)
<1>2. PICK p, a \in 1 .. last :
        /\ p = last - size + 2 /\ a <= p /\ (p = a => a = last)
        /\ size \in Nat /\ size >= 2 /\ path \in Seq(NodeNames)
        /\ \A k \in 2 .. size : path[k] = frames[last - k + 2].node
        /\ path[size] = frames[p].node
        /\ path[1] = frames[a].node /\ path[1] \in Needs(nodes, frames[last].node)
        /\ path[1] \in NodeNames
        /\ \A i, j \in 1 .. last : frames[i].node = frames[j].node => i = j
        /\ p > 1 => /\ frames[p].node \in Needs(nodes, frames[p - 1].node)
                    /\ parent[frames[p].node] = frames[p - 1].node /\ p - 1 \in 1 .. last
                    /\ frames[p - 1].node \in NodeNames
  BY <1>1, PathIs, Zenon
<1>3. /\ ResolverTypeOK /\ FramesInv /\ FinishedInv /\ PhaseInv /\ nodes \in Seq(Lists)
      /\ last \in Nat /\ DOMAIN frames = 1 .. last
  BY NodesAreNamed, FramesTyped DEF SearchInv
<1>4. FramesInv' /\ FinishedInv'
  BY <1>1, <1>3, SearchStays
<1>5. ASSUME path[size] # path[1], parent[path[size]] \notin {0, path[1]},
             step' = step, path' = Append(path, parent[path[size]])
      PROVE  SearchInv' /\ OrderIsRight'
  <2>1. p # a /\ a < p /\ p > 1
    BY <1>2, <1>5
  <2>2. PICK b \in 1 .. last : b = p - 1
    BY <1>2, <2>1
  <2>3. parent[path[size]] = frames[b].node /\ frames[b].node \in NodeNames /\ a <= b
    BY <1>2, <2>1, <2>2
  <2>4. a # b /\ a < b
    BY <1>2, <1>5, <2>2, <2>3
  <2>5. /\ path' \in Seq(NodeNames) /\ Len(path') = size + 1 /\ path'[size + 1] = frames[b].node
        /\ \A k \in 1 .. size : path'[k] = path[k]
    BY <1>2, <1>5, <2>3
  <2>6. last - (size + 1) + 2 = b
    BY <1>2, <2>2
  <2> HIDE DEF last, size
  <2>7. \A k \in 2 .. size + 1 : path'[k] = frames[last - k + 2].node
    <3>1. \A k \in 2 .. size + 1 : k = size + 1 \/ (k \in 2 .. size /\ k \in 1 .. size)
      BY <1>2
    <3> QED
      BY <1>2, <2>5, <2>6, <3>1
  <2>8. size + 1 >= 2 /\ size + 1 - 1 <= last
    BY <1>2, <1>3, <2>2
  <2>9. path'[1] = frames[a].node /\ path'[1] \in Needs(nodes, frames[last].node) /\ a \in 1 .. b
    BY <1>2, <2>4, <2>5
  <2>10. TraceInv'
    <3>1. Len(frames') = last /\ Len(path') = size + 1 /\ frames' = frames /\ nodes' = nodes
      BY <1>1, <2>5 DEF last
    <3>2. Len(frames') - Len(path') + 2 = b
      BY <2>6, <3>1, Zenon
    <3>3. Len(path') >= 2 /\ Len(path') - 1 <= Len(frames')
      <4>1. size + 1 >= 2 /\ (size + 1) - 1 <= last
        BY <1>2, <2>8
      <4>2. Len(path') = size + 1 /\ Len(frames') = last
        BY <3>1, Zenon
      <4> QED
        BY <4>1, <4>2
    <3>4. \A k \in 2 .. Len(path') : path'[k] = frames'[Len(frames') - k + 2].node
      BY <2>7, <3>1
    <3>5. path'[1] = frames'[a].node /\ path'[1] \in Needs(nodes', Top'.node) /\ (b = a => a = Len(frames'))
      BY <2>4, <2>9, <3>1 DEF Top
    <3> QED
      BY <2>9, <3>2, <3>3, <3>4, <3>5, Zenon DEF TraceInv
  <2>11. ResolverTypeOK'
    BY <1>1, <1>3, <1>5, <2>5 DEF ResolverTypeOK
  <2>12. PhaseInv' /\ SortInv' /\ OrderIsRight'
    BY <1>1, <1>3, <1>5 DEF PhaseInv, SortInv, Sorting, OrderIsRight
  <2> QED
    BY <1>4, <2>10, <2>11, <2>12 DEF SearchInv
<1>6. ASSUME path[size] = path[1] \/ parent[path[size]] \in {0, path[1]},
             step' = "threw", path' = Reverse(path)
      PROVE  SearchInv' /\ OrderIsRight'
  <2>1. /\ path' \in Seq(NodeNames) /\ Len(path') = size /\ DOMAIN path' = 1 .. size
        /\ \A k \in 1 .. size : path'[k] = path[size - k + 1]
    BY <1>2, <1>6 DEF Reverse
  <2> HIDE DEF last, size
  <2>2. p = a \/ (p > 1 /\ parent[frames[p].node] = path[1] /\ p - 1 = a)
    <3>1. CASE path[size] = path[1]
      BY <1>2, <3>1
    <3>2. CASE path[size] # path[1]
      <4>1. a # p /\ a < p /\ p > 1
        BY <1>2, <3>2
      <4>2. PICK b \in 1 .. last : b = p - 1
        BY <1>2, <4>1
      <4>3. parent[frames[p].node] = frames[b].node /\ frames[b].node \in NodeNames
        BY <1>2, <4>1, <4>2
      <4>4. frames[b].node # 0
        BY <4>3 DEF NodeNames
      <4>5. frames[b].node = frames[a].node
        BY <1>2, <1>6, <3>2, <4>3, <4>4
      <4> QED
        BY <1>2, <4>1, <4>2, <4>3, <4>5
    <3> QED
      BY <3>1, <3>2
  <2>3. path[size] \in Needs(nodes, path[1])
    <3>1. CASE p = a
      BY <1>2, <3>1
    <3>2. CASE p # a
      <4>1. p > 1 /\ p - 1 = a
        BY <2>2, <3>2
      <4> QED
        BY <1>2, <4>1
    <3> QED
      BY <3>1, <3>2
  <2>4. ASSUME NEW k \in 2 .. size, k # size PROVE path[k] \in Needs(nodes, path[k + 1])
    <3>1. PICK i \in 1 .. last : i = last - (k + 1) + 2 /\ i + 1 = last - k + 2 /\ i < last
      BY <1>2, <1>3, <2>4
    <3>2. k + 1 \in 2 .. size
      BY <1>2, <2>4
    <3>3. path[k] = frames[i + 1].node /\ path[k + 1] = frames[i].node
      BY <1>2, <2>4, <3>1, <3>2
    <3>4. frames[i + 1].node \in Needs(nodes, frames[i].node)
      BY <1>3, <3>1 DEF FramesInv, CallsAreLinked, last
    <3> QED
      BY <3>3, <3>4
  <2>5. path[1] \in Needs(nodes, path[2])
    <3>1. 2 \in 2 .. size /\ last - 2 + 2 = last
      BY <1>2, <1>3
    <3> QED
      BY <1>2, <3>1
  <2>6. ASSUME NEW k \in 1 .. size PROVE path'[(k % size) + 1] \in Needs(nodes, path'[k])
    <3>1. CASE k = size
      <4>1. k % size = 0 /\ size - 1 + 1 = size /\ size - size + 1 = 1
        BY <1>2, <3>1
      <4>2. path'[1] = path[size] /\ path'[size] = path[1]
        BY <1>2, <2>1, <4>1
      <4> QED
        BY <2>3, <3>1, <4>1, <4>2
    <3>2. CASE k # size
      <4>1. k % size = k /\ k + 1 \in 1 .. size
        <5>1. size \in Nat /\ k \in Nat /\ k < size /\ 0 < size /\ k + 1 \in 1 .. size
          BY <1>2, <3>2
        <5> QED
          BY <5>1, LessIsItself
      <4>2. PICK j \in 1 .. size : j = size - (k + 1) + 1 /\ j + 1 = size - k + 1 /\ j # size
        BY <1>2, <3>2
      <4>3. path'[k] = path[j + 1] /\ path'[k + 1] = path[j]
        BY <2>1, <4>1, <4>2
      <4>4. path[j] \in Needs(nodes, path[j + 1])
        <5>1. j = 1 \/ j \in 2 .. size
          BY <4>2
        <5> QED
          BY <2>4, <2>5, <4>2, <5>1
      <4> QED
        BY <4>1, <4>3, <4>4
    <3> QED
      BY <3>1, <3>2
  <2>7. path[1] \in Reached(nodes, path[1])
    <3>1. a = last \/ a < last
      BY <1>2, <1>3
    <3>2. Needs(nodes, path[1]) \subseteq Reached(nodes, path[1])
      BY <1>3, ReachesNeeds
    <3>3. CASE a = last
      BY <1>2, <3>2, <3>3
    <3>4. CASE a < last
      <4>1. last \in DOMAIN frames /\ a \in DOMAIN frames /\ a < last
        BY <1>2, <1>3, <3>4
      <4>2. frames[last].node \in Reached(nodes, frames[a].node) /\ path[1] = frames[a].node
        BY <1>2, <1>3, <4>1 DEF FramesInv, CallsReach
      <4>3. Closed(nodes, Reached(nodes, path[1]))
        BY <1>3, ReachedIsClosed
      <4>4. Needs(nodes, frames[last].node) \subseteq Reached(nodes, path[1])
        BY <4>2, <4>3, Zenon DEF Closed
      <4>5. path[1] \in Needs(nodes, frames[last].node)
        BY <1>2, Zenon
      <4> QED
        BY <4>4, <4>5, Zenon
    <3> QED
      BY <3>1, <3>3, <3>4
  <2>8. path[1] \in DOMAIN nodes
    BY <1>3, <2>7, ReachesIsANode
  <2>9. OrderIsRight'
    <3>1. path' # <<>> /\ Len(path') = size
      BY <1>2, <2>1
    <3>2. {n \in DOMAIN nodes : n \in Reached(nodes, n)} # {}
      BY <2>7, <2>8
    <3>3. \A k \in DOMAIN path' : path'[(k % Len(path')) + 1] \in Needs(nodes, path'[k])
      BY <2>1, <2>6
    <3>4. nodes' = nodes
      BY <1>1
    <3> QED
      BY <1>6, <3>1, <3>2, <3>3, <3>4 DEF OrderIsRight
  <2>10. ResolverTypeOK'
    BY <1>1, <1>3, <1>6, <2>1 DEF ResolverTypeOK
  <2>11. PhaseInv' /\ SortInv' /\ TraceInv'
    BY <1>1, <1>3, <1>6 DEF PhaseInv, SortInv, Sorting, TraceInv
  <2> QED
    BY <1>4, <2>9, <2>10, <2>11 DEF SearchInv
<1>7. \/ /\ path[size] # path[1] /\ parent[path[size]] \notin {0, path[1]}
         /\ step' = step /\ path' = Append(path, parent[path[size]])
      \/ /\ path[size] = path[1] \/ parent[path[size]] \in {0, path[1]}
         /\ step' = "threw" /\ path' = Reverse(path)
  BY DEF Trace
<1> QED
  BY <1>5, <1>6, <1>7

-----------------------------------------------------------------------------
\* Nodes are given before the search begins.
LEMMA AddNodeKeeps ==
  ASSUME SearchInv, NEW list \in Lists, AddNode(list)
  PROVE  SearchInv'
<1>1. /\ step = "building" /\ nodes' = Append(nodes, list) /\ Len(nodes) < MaxNodes
      /\ UNCHANGED <<step, root, visited, frames, parent, path, told, degree, line, taken>>
  BY DEF AddNode, searchVars, sortVars
<1>2. /\ ResolverTypeOK /\ FramesInv /\ PhaseInv /\ nodes \in Seq(Lists) /\ Len(nodes) \in Nat
  BY NodesAreNamed DEF SearchInv
<1>3. root = 0 /\ visited = {} /\ frames = <<>> /\ line = <<>> /\ taken = 0 /\ told = 0
  BY <1>1, <1>2 DEF PhaseInv, Sorting
<1>4. nodes' \in Seq(Lists) /\ Len(nodes') = Len(nodes) + 1
  BY <1>1, <1>2
<1>5. ResolverTypeOK'
  <2>1. Len(nodes') <= MaxNodes /\ root' \in 0 .. Len(nodes') /\ told' \in 0 .. Len(nodes')
    BY <1>1, <1>2, <1>3, <1>4, ResolverAssumption
  <2>2. line' \in Seq(1 .. Len(nodes')) /\ taken' \in 0 .. Len(line')
    BY <1>1, <1>3
  <2> QED
    BY <1>1, <1>2, <1>4, <2>1, <2>2 DEF ResolverTypeOK
<1>6. InStack' = {} /\ Finished' = {} /\ DOMAIN frames' = {}
  BY <1>1, <1>3 DEF InStack, Finished
<1>7. FramesInv'
  BY <1>1, <1>3, <1>6 DEF FramesInv, CallsVisit, OneCallEach, NextIsThere, FollowedIsDone, CallsAreLinked,
                          CallsReach
<1>8. FinishedInv'
  BY <1>6 DEF FinishedInv, Closed
<1>9. PhaseInv' /\ TraceInv' /\ SortInv'
  BY <1>1, <1>2, <1>3 DEF PhaseInv, TraceInv, SortInv, Sorting
<1> QED
  BY <1>5, <1>7, <1>8, <1>9 DEF SearchInv

LEMMA ResolveKeeps ==
  ASSUME SearchInv, Resolve
  PROVE  SearchInv'
<1>1. /\ step = "building" /\ step' = "searching"
      /\ UNCHANGED <<nodes, root, visited, frames, parent, path, told, degree, line, taken>>
  BY DEF Resolve, searchVars, sortVars
<1>2. ResolverTypeOK'
  BY <1>1 DEF SearchInv, ResolverTypeOK
<1>3. FramesInv' /\ FinishedInv'
  BY <1>1, SearchStays DEF SearchInv
<1>4. PhaseInv' /\ TraceInv' /\ SortInv'
  BY <1>1 DEF SearchInv, PhaseInv, TraceInv, SortInv, Sorting
<1> QED
  BY <1>2, <1>3, <1>4 DEF SearchInv

\* No cycle was found: each node has as many dependencies open as it has.
LEMMA BeginSortKeeps ==
  ASSUME SearchInv, BeginSort
  PROVE  SearchInv'
<1>1. /\ step = "searching" /\ step' = "queueing" /\ frames = <<>> /\ root = Len(nodes)
      /\ degree' = [n \in NodeNames |-> Len(Dependencies(nodes, n))]
      /\ UNCHANGED <<nodes, root, visited, frames, parent, path, told, line, taken>>
  BY DEF BeginSort, searchVars
<1>2. ResolverTypeOK /\ PhaseInv /\ nodes \in Seq(Lists) /\ DOMAIN nodes = 1 .. Len(nodes)
      /\ DOMAIN nodes \subseteq NodeNames
  BY NodesAreNamed DEF SearchInv
<1>3. line = <<>> /\ taken = 0 /\ told = 0
  BY <1>1, <1>2 DEF PhaseInv, Sorting
<1>4. degree' \in [NodeNames -> Nat]
  BY <1>1, <1>2, DependenciesTyped
<1>5. ResolverTypeOK'
  BY <1>1, <1>2, <1>4 DEF ResolverTypeOK
<1>6. ASSUME NEW m \in DOMAIN nodes
      PROVE  degree'[m] = Cardinality(Open(m)') /\ ~ m <= told' /\ m \notin ToSet(line')
  <2>1. nodes[m] \in Lists /\ Dependencies(nodes, m) = nodes[m]
    BY <1>2 DEF Dependencies
  <2>2. DOMAIN nodes[m] = 1 .. Len(nodes[m]) /\ Len(nodes[m]) \in Nat
    BY <2>1, ListsAreSequences, ResolverAssumption
  <2>3. Passed(m)' = {}
    BY <1>1, <1>3 DEF Passed
  <2>4. Open(m)' = 1 .. Len(nodes[m])
    BY <1>1, <2>2, <2>3 DEF Open
  <2>5. Cardinality(1 .. Len(nodes[m])) = Len(nodes[m])
    <3>1. 1 \in Int /\ Len(nodes[m]) \in Int
      BY <2>2
    <3>2. Cardinality(1 .. Len(nodes[m])) = IF 1 > Len(nodes[m]) THEN 0 ELSE Len(nodes[m]) - 1 + 1
      BY <3>1, FS_Interval
    <3> QED
      BY <2>2, <3>2
  <2>6. degree'[m] = Len(nodes[m])
    BY <1>1, <1>2, <2>1
  <2>7. ~ m <= told'
    BY <1>1, <1>2, <1>3
  <2>8. m \notin ToSet(line')
    BY <1>1, <1>3 DEF ToSet
  <2> QED
    BY <2>4, <2>5, <2>6, <2>7, <2>8
<1>7. DegreesCount'
  BY <1>1, <1>6 DEF DegreesCount
<1>8. OnceInLine' /\ NeedsComeFirst'
  BY <1>1, <1>3 DEF OnceInLine, NeedsComeFirst
<1>9. FramesInv' /\ FinishedInv'
  BY <1>1, SearchStays DEF SearchInv
<1>10. PhaseInv' /\ TraceInv' /\ SortInv'
  BY <1>1, <1>2, <1>3, <1>7, <1>8 DEF PhaseInv, TraceInv, SortInv, Sorting
<1> QED
  BY <1>5, <1>9, <1>10 DEF SearchInv

\* What the sort knows of a node and of the line.
LEMMA SortTyped ==
  ASSUME ResolverTypeOK
  PROVE  /\ DOMAIN line = 1 .. Len(line) /\ Len(line) \in Nat
         /\ \A i \in 1 .. Len(line) : line[i] \in DOMAIN nodes
         /\ taken \in Nat /\ taken <= Len(line) /\ told \in Nat /\ told <= Len(nodes)
         /\ DOMAIN nodes = 1 .. Len(nodes) /\ Len(nodes) \in Nat
         /\ \A m \in DOMAIN nodes : /\ Dependencies(nodes, m) = nodes[m] /\ DOMAIN nodes[m] = 1 .. Len(nodes[m])
                                    /\ Len(nodes[m]) \in Nat /\ m \in NodeNames /\ degree[m] \in Nat
                                    /\ IsFiniteSet(DOMAIN nodes[m]) /\ Open(m) \subseteq DOMAIN nodes[m]
                                    /\ IsFiniteSet(Open(m))
<1>1. /\ nodes \in Seq(Lists) /\ Len(nodes) \in Nat
      /\ DOMAIN nodes \subseteq NodeNames /\ DOMAIN nodes = 1 .. Len(nodes)
  BY NodesAreNamed
<1>2. /\ line \in Seq(1 .. Len(nodes)) /\ taken \in 0 .. Len(line) /\ told \in 0 .. Len(nodes)
      /\ degree \in [NodeNames -> Nat]
  BY DEF ResolverTypeOK
<1>3. /\ DOMAIN line = 1 .. Len(line) /\ Len(line) \in Nat
      /\ \A i \in 1 .. Len(line) : line[i] \in DOMAIN nodes
  BY <1>1, <1>2
<1>4. taken \in Nat /\ taken <= Len(line) /\ told \in Nat /\ told <= Len(nodes)
  BY <1>1, <1>2, <1>3
<1>5. ASSUME NEW m \in DOMAIN nodes
      PROVE  /\ Dependencies(nodes, m) = nodes[m] /\ DOMAIN nodes[m] = 1 .. Len(nodes[m])
             /\ Len(nodes[m]) \in Nat /\ m \in NodeNames /\ degree[m] \in Nat
             /\ IsFiniteSet(DOMAIN nodes[m]) /\ Open(m) \subseteq DOMAIN nodes[m] /\ IsFiniteSet(Open(m))
  <2>1. nodes[m] \in Lists
    BY <1>1
  <2>2. DOMAIN nodes[m] = 1 .. Len(nodes[m]) /\ Len(nodes[m]) \in Nat
    BY <2>1, ListsAreSequences, ResolverAssumption
  <2>3. IsFiniteSet(DOMAIN nodes[m])
    <3>1. 1 \in Int /\ Len(nodes[m]) \in Int
      BY <2>2
    <3>2. IsFiniteSet(1 .. Len(nodes[m]))
      BY <3>1, FS_Interval
    <3> QED
      BY <2>2, <3>2, Zenon
  <2>4. Open(m) \subseteq DOMAIN nodes[m]
    BY DEF Open
  <2>5. IsFiniteSet(Open(m))
    BY <2>3, <2>4, FS_Subset
  <2>6. Dependencies(nodes, m) = nodes[m]
    BY DEF Dependencies
  <2> QED
    BY <1>1, <1>2, <2>2, <2>3, <2>4, <2>5, <2>6
<1> QED
  BY <1>1, <1>3, <1>4, <1>5

\* A node of its own added to the end of the line.
LEMMA LineGrows ==
  ASSUME ResolverTypeOK, NEW m \in DOMAIN nodes, line' = Append(line, m)
  PROVE  /\ line' \in Seq(1 .. Len(nodes)) /\ Len(line') = Len(line) + 1 /\ DOMAIN line' = 1 .. Len(line) + 1
         /\ \A i \in 1 .. Len(line) : line'[i] = line[i]
         /\ line'[Len(line) + 1] = m
         /\ ToSet(line') = ToSet(line) \cup {m}
<1>1. line \in Seq(1 .. Len(nodes)) /\ m \in 1 .. Len(nodes)
  BY NodesAreNamed DEF ResolverTypeOK
<1>2. /\ line' \in Seq(1 .. Len(nodes)) /\ Len(line') = Len(line) + 1 /\ DOMAIN line' = 1 .. Len(line) + 1
      /\ \A i \in 1 .. Len(line) : line'[i] = line[i]
      /\ line'[Len(line) + 1] = m /\ DOMAIN line = 1 .. Len(line) /\ Len(line) \in Nat
  BY <1>1
<1>3. ToSet(line') = ToSet(line) \cup {m}
  <2>1. ToSet(line') = {line'[i] : i \in 1 .. Len(line) + 1} /\ ToSet(line) = {line[i] : i \in 1 .. Len(line)}
    BY <1>2 DEF ToSet
  <2>2. \A i \in 1 .. Len(line) + 1 : i \in 1 .. Len(line) \/ i = Len(line) + 1
    BY <1>2
  <2>3. 1 .. Len(line) \subseteq 1 .. Len(line) + 1 /\ Len(line) + 1 \in 1 .. Len(line) + 1
    BY <1>2
  <2> QED
    BY <1>2, <2>1, <2>2, <2>3, Zenon
<1> QED
  BY <1>2, <1>3

\* Adding a node that is not in the line, and needs only what is, keeps the
\* line once and in order.
LEMMA GrownInOrder ==
  ASSUME ResolverTypeOK, OnceInLine, NeedsComeFirst, nodes' = nodes,
         NEW m \in DOMAIN nodes, line' = Append(line, m),
         m \notin ToSet(line), Needs(nodes, m) \subseteq ToSet(line)
  PROVE  OnceInLine' /\ NeedsComeFirst'
<1>1. /\ DOMAIN line = 1 .. Len(line) /\ Len(line) \in Nat
      /\ ToSet(line) = {line[i] : i \in 1 .. Len(line)}
  BY SortTyped DEF ToSet
<1>2. /\ DOMAIN line' = 1 .. Len(line) + 1 /\ \A i \in 1 .. Len(line) : line'[i] = line[i]
      /\ line'[Len(line) + 1] = m
  BY LineGrows
<1>3. \A i \in 1 .. Len(line) + 1 : i \in 1 .. Len(line) \/ i = Len(line) + 1
  BY <1>1
<1>4. \A i \in 1 .. Len(line) : line[i] # m
  BY <1>1
<1>5. \A i, j \in 1 .. Len(line) : line[i] = line[j] => i = j
  BY <1>1 DEF OnceInLine
<1>6. OnceInLine'
  <2>1. \A i, j \in 1 .. Len(line) + 1 : line'[i] = line'[j] => i = j
    BY <1>2, <1>3, <1>4, <1>5, Zenon
  <2> QED
    BY <1>2, <2>1, Zenon DEF OnceInLine
<1>7. ASSUME NEW i \in 1 .. Len(line) PROVE Needs(nodes, line'[i]) \subseteq {line'[j] : j \in 1 .. i - 1}
  <2>1. Needs(nodes, line[i]) \subseteq {line[j] : j \in 1 .. i - 1}
    BY <1>1 DEF NeedsComeFirst
  <2>2. 1 .. i - 1 \subseteq 1 .. Len(line)
    BY <1>1
  <2>3. {line'[j] : j \in 1 .. i - 1} = {line[j] : j \in 1 .. i - 1}
    BY <1>2, <2>2, Zenon
  <2> QED
    BY <1>2, <2>1, <2>3, Zenon
<1>8. Needs(nodes, line'[Len(line) + 1]) \subseteq {line'[j] : j \in 1 .. (Len(line) + 1) - 1}
  <2>1. (Len(line) + 1) - 1 = Len(line)
    BY <1>1
  <2>2. {line'[j] : j \in 1 .. Len(line)} = ToSet(line)
    BY <1>1, <1>2, Zenon
  <2> QED
    BY <1>2, <2>1, <2>2, Zenon
<1>9. \A i \in 1 .. Len(line) + 1 : Needs(nodes, line'[i]) \subseteq {line'[j] : j \in 1 .. i - 1}
  BY <1>3, <1>7, <1>8, Zenon
<1> QED
  BY <1>2, <1>6, <1>9, Zenon DEF NeedsComeFirst

\* In the state of the sort: what is passed is in the line.
LEMMA PassedInLine ==
  ASSUME ResolverTypeOK, NEW m
  PROVE  Passed(m) \subseteq ToSet(line)
  BY SortTyped DEF Passed, ToSet

\* A node whose dependencies are all passed needs only what is in the line.
LEMMA NothingOpen ==
  ASSUME ResolverTypeOK, NEW m \in DOMAIN nodes, Open(m) = {}
  PROVE  Needs(nodes, m) \subseteq Passed(m)
  BY SortTyped DEF Open, Needs

LEMMA NextOfBound ==
  ASSUME NEW a \in Nat, NEW b \in Nat, a < b
  PROVE  a + 1 \in 1 .. b /\ a + 1 \in 0 .. b
  OBVIOUS

LEMMA LessOrSame ==
  ASSUME NEW a \in Nat, NEW b \in Nat, a <= b
  PROVE  (a < b /\ a # b) \/ a = b
  OBVIOUS

LEMMA QueueKeeps ==
  ASSUME SearchInv, Queue
  PROVE  SearchInv'
<1>1. /\ step = "queueing" /\ UNCHANGED <<nodes, root, visited, frames, parent, path, degree, taken>>
  BY DEF Queue, searchVars
<1>2. /\ ResolverTypeOK /\ PhaseInv /\ OnceInLine /\ DegreesCount /\ NeedsComeFirst
      /\ frames = <<>> /\ root = Len(nodes) /\ taken = 0
  BY <1>1 DEF SearchInv, SortInv, PhaseInv, Sorting
<1>3. /\ told \in Nat /\ told <= Len(nodes) /\ Len(nodes) \in Nat /\ DOMAIN nodes = 1 .. Len(nodes)
      /\ Len(line) \in Nat
  BY <1>2, SortTyped
<1>4. FramesInv' /\ FinishedInv'
  BY <1>1, SearchStays DEF SearchInv
<1>5. ASSUME step' \in {"queueing", "sorting"} PROVE \A m \in DOMAIN nodes : Open(m)' = Open(m)
  BY <1>1, <1>2, <1>5 DEF Open, Passed
<1>6. ASSUME told = Len(nodes), step' = "sorting", UNCHANGED <<told, line>>
      PROVE  SearchInv'
  <2>1. ResolverTypeOK'
    BY <1>1, <1>2, <1>6 DEF ResolverTypeOK
  <2>2. OnceInLine' /\ NeedsComeFirst'
    BY <1>1, <1>2, <1>6 DEF OnceInLine, NeedsComeFirst
  <2>3. DegreesCount'
    <3>1. \A m \in DOMAIN nodes : m <= told
      BY <1>3, <1>6
    <3>2. \A m \in DOMAIN nodes : degree[m] = Cardinality(Open(m)) /\ (m \in ToSet(line) <=> Open(m) = {})
      BY <1>1, <1>2, <3>1 DEF DegreesCount
    <3> QED
      BY <1>1, <1>5, <1>6, <3>2 DEF DegreesCount
  <2>4. PhaseInv' /\ TraceInv' /\ SortInv'
    BY <1>1, <1>2, <1>6, <2>2, <2>3 DEF PhaseInv, TraceInv, SortInv, Sorting
  <2> QED
    BY <1>4, <2>1, <2>4 DEF SearchInv
<1>7. ASSUME told < Len(nodes), step' = step, told' = told + 1,
             line' = IF degree[told + 1] = 0 THEN Append(line, told + 1) ELSE line
      PROVE  SearchInv'
  <2>0. told < Len(nodes) /\ told' = told + 1
    BY <1>7, Zenon
  <2>1. told + 1 \in DOMAIN nodes /\ told + 1 \in 0 .. Len(nodes)
    BY <1>3, <2>0, NextOfBound
  <2>2. \A m \in DOMAIN nodes :
          /\ degree[m] = Cardinality(Open(m)) /\ IsFiniteSet(Open(m)) /\ Open(m)' = Open(m)
          /\ m \in ToSet(line) <=> Open(m) = {} /\ m <= told
    BY <1>1, <1>2, <1>5, <1>7, SortTyped DEF DegreesCount
  <2>3. told + 1 \notin ToSet(line)
    BY <1>3, <2>1, <2>2
  <2>4. degree[told + 1] = 0 <=> Open(told + 1) = {}
    BY <2>1, <2>2, FS_EmptySet
  <2>5. \A m \in DOMAIN nodes : m <= told + 1 <=> (m <= told \/ m = told + 1)
    BY <1>3
  <2>6. ASSUME degree[told + 1] = 0
        PROVE  /\ line' \in Seq(1 .. Len(nodes)) /\ taken' \in 0 .. Len(line')
               /\ ToSet(line') = ToSet(line) \cup {told + 1} /\ OnceInLine' /\ NeedsComeFirst'
    <3>1. line' = Append(line, told + 1)
      BY <1>7, <2>6
    <3>2. /\ line' \in Seq(1 .. Len(nodes)) /\ Len(line') = Len(line) + 1
          /\ ToSet(line') = ToSet(line) \cup {told + 1}
      BY <1>2, <2>1, <3>1, LineGrows
    <3>3. Needs(nodes, told + 1) \subseteq ToSet(line)
      BY <1>2, <2>1, <2>4, <2>6, NothingOpen, PassedInLine
    <3>4. OnceInLine' /\ NeedsComeFirst'
      BY <1>1, <1>2, <2>1, <2>3, <3>1, <3>3, GrownInOrder
    <3>5. taken' \in 0 .. Len(line')
      BY <1>1, <1>2, <1>3, <3>2
    <3> QED
      BY <3>2, <3>4, <3>5
  <2>7. ASSUME degree[told + 1] # 0
        PROVE  /\ line' \in Seq(1 .. Len(nodes)) /\ taken' \in 0 .. Len(line')
               /\ ToSet(line') = ToSet(line) /\ OnceInLine' /\ NeedsComeFirst'
    <3>1. line' = line
      BY <1>7, <2>7
    <3> QED
      BY <1>1, <1>2, <3>1 DEF ResolverTypeOK, OnceInLine, NeedsComeFirst
  <2>8. OnceInLine' /\ NeedsComeFirst' /\ line' \in Seq(1 .. Len(nodes)) /\ taken' \in 0 .. Len(line')
    BY <2>6, <2>7
  <2>9. \A m \in DOMAIN nodes : m \in ToSet(line') <=> Open(m) = {} /\ m <= told + 1
    BY <2>2, <2>3, <2>4, <2>5, <2>6, <2>7
  <2>10. DegreesCount'
    BY <1>1, <1>7, <2>2, <2>9 DEF DegreesCount
  <2>11. ResolverTypeOK'
    <3>1. told' \in 0 .. Len(nodes)
      BY <2>0, <2>1
    <3> QED
      BY <1>1, <1>2, <1>7, <2>8, <3>1 DEF ResolverTypeOK
  <2>12. PhaseInv' /\ TraceInv' /\ SortInv'
    BY <1>1, <1>2, <1>7, <2>8, <2>10 DEF PhaseInv, TraceInv, SortInv, Sorting
  <2> QED
    BY <1>4, <2>11, <2>12 DEF SearchInv
<1>8. (told < Len(nodes) /\ told # Len(nodes)) \/ told = Len(nodes)
  BY <1>3, LessOrSame
<1> QED
  BY <1>6, <1>7, <1>8 DEF Queue

LEMMA TakeKeeps ==
  ASSUME SearchInv, Take
  PROVE  SearchInv'
<1>1. /\ step = "sorting" /\ taken < Len(line) /\ taken' = taken + 1 /\ told' = 0 /\ step' = "telling"
      /\ UNCHANGED <<nodes, root, visited, frames, parent, path, degree, line>>
  BY DEF Take, searchVars
<1>2. /\ ResolverTypeOK /\ PhaseInv /\ OnceInLine /\ DegreesCount /\ NeedsComeFirst
      /\ frames = <<>> /\ root = Len(nodes)
  BY <1>1 DEF SearchInv, SortInv, PhaseInv, Sorting
<1>3. taken \in Nat /\ DOMAIN nodes = 1 .. Len(nodes) /\ Len(nodes) \in Nat /\ Len(line) \in Nat
  BY <1>2, SortTyped
<1>4. ASSUME NEW m \in DOMAIN nodes PROVE Open(m)' = Open(m)
  <2>1. m > told' /\ taken' - 1 = taken
    BY <1>1, <1>3
  <2>2. Passed(m)' = Passed(m)
    BY <1>1, <2>1 DEF Passed
  <2> QED
    BY <1>1, <2>2 DEF Open
<1>5. ResolverTypeOK'
  BY <1>1, <1>2, <1>3 DEF ResolverTypeOK
<1>6. OnceInLine' /\ NeedsComeFirst' /\ DegreesCount'
  BY <1>1, <1>2, <1>4 DEF OnceInLine, NeedsComeFirst, DegreesCount
<1>7. FramesInv' /\ FinishedInv'
  BY <1>1, SearchStays DEF SearchInv
<1>8. PhaseInv' /\ TraceInv' /\ SortInv'
  BY <1>1, <1>2, <1>3, <1>6 DEF PhaseInv, TraceInv, SortInv, Sorting
<1> QED
  BY <1>5, <1>7, <1>8 DEF SearchInv

\* The entries a node asks for one name with.
LEMMA TimesCounts ==
  ASSUME NEW Whole, IsFiniteSet(Whole), NEW Part \in SUBSET Whole
  PROVE  /\ Cardinality(Whole \ Part) = Cardinality(Whole) - Cardinality(Part) /\ Cardinality(Whole \ Part) \in Nat
         /\ Cardinality(Whole) \in Nat /\ Cardinality(Part) \in Nat
         /\ Cardinality(Whole \ Part) = 0 <=> Whole \ Part = {}
         /\ Cardinality(Whole \ Part) = Cardinality(Whole) <=> Part = {}
<1>1. IsFiniteSet(Part) /\ IsFiniteSet(Whole \ Part) /\ Whole \cap Part = Part
  BY FS_Subset, FS_Difference
<1>2. Cardinality(Whole \ Part) = Cardinality(Whole) - Cardinality(Whole \cap Part)
  BY <1>1, FS_Difference
<1>3. Cardinality(Whole) \in Nat /\ Cardinality(Part) \in Nat /\ Cardinality(Whole \ Part) \in Nat
  BY <1>1, FS_CardinalityType
<1>4. (Cardinality(Whole \ Part) = 0 <=> Whole \ Part = {}) /\ (Cardinality(Part) = 0 <=> Part = {})
  BY <1>1, FS_EmptySet
<1>5. Cardinality(Whole \ Part) = Cardinality(Whole) - Cardinality(Part)
  BY <1>1, <1>2
<1>6. Cardinality(Whole \ Part) = Cardinality(Whole) <=> Cardinality(Part) = 0
  BY <1>3, <1>5
<1> QED
  BY <1>3, <1>4, <1>5, <1>6, Zenon

\* The dependencies that are open once m is told of the node just taken.
LEMMA ToldIs ==
  ASSUME SearchInv, step = "telling", told < Len(nodes)
  PROVE  LET m == told + 1
             asked == {k \in DOMAIN nodes[m] : nodes[m][k] = line[taken]}
         IN /\ m \in DOMAIN nodes /\ taken \in 1 .. Len(line)
            /\ asked \subseteq Open(m)
            /\ Times(nodes[m], line[taken]) = Cardinality(asked)
            /\ Open(m) \ asked = {k \in DOMAIN nodes[m] : nodes[m][k] \notin {line[i] : i \in 1 .. taken}}
<1> DEFINE m == told + 1
           asked == {k \in DOMAIN nodes[m] : nodes[m][k] = line[taken]}
<1>1. ResolverTypeOK /\ PhaseInv /\ OnceInLine
  BY DEF SearchInv, SortInv, Sorting
<1>2. /\ told \in Nat /\ told <= Len(nodes) /\ Len(nodes) \in Nat /\ DOMAIN nodes = 1 .. Len(nodes)
      /\ taken \in Nat /\ taken <= Len(line) /\ Len(line) \in Nat /\ DOMAIN line = 1 .. Len(line)
  BY <1>1, SortTyped
<1>3. m \in DOMAIN nodes /\ taken \in 1 .. Len(line) /\ m > told
  <2>1. m \in DOMAIN nodes
    BY <1>2, NextOfBound
  <2>2. taken > 0
    BY <1>1 DEF PhaseInv
  <2> QED
    BY <1>2, <2>1, <2>2
<1>4. Open(m) = {k \in DOMAIN nodes[m] : nodes[m][k] \notin {line[i] : i \in 1 .. taken - 1}}
  BY <1>3 DEF Open, Passed
<1>5. line[taken] \notin {line[i] : i \in 1 .. taken - 1}
  <2>1. ASSUME NEW i \in 1 .. taken - 1 PROVE line[i] # line[taken]
    <3>1. i \in 1 .. Len(line) /\ i # taken
      <4> HIDE DEF m, asked
      <4> QED
        BY <1>2
    <3> QED
      BY <1>1, <1>2, <1>3, <3>1 DEF OnceInLine
  <2> QED
    BY <2>1
<1>6. {line[i] : i \in 1 .. taken} = {line[i] : i \in 1 .. taken - 1} \cup {line[taken]}
  <2>1. \A i : i \in 1 .. taken <=> (i \in 1 .. taken - 1 \/ i = taken)
    <3> HIDE DEF m, asked
    <3>1. taken \in Nat /\ taken >= 1
      BY <1>2, <1>3
    <3> QED
      BY <3>1
  <2> QED
    BY <2>1, Zenon
<1>7. asked \subseteq Open(m)
  BY <1>4, <1>5
<1>8. Open(m) \ asked = {k \in DOMAIN nodes[m] : nodes[m][k] \notin {line[i] : i \in 1 .. taken}}
  BY <1>4, <1>6
<1>9. Times(nodes[m], line[taken]) = Cardinality(asked)
  BY DEF Times
<1> QED
  BY <1>3, <1>7, <1>8, <1>9

LEMMA TellKeeps ==
  ASSUME SearchInv, Tell
  PROVE  SearchInv'
<1>1. step = "telling" /\ UNCHANGED <<nodes, root, visited, frames, parent, path, taken>>
  BY DEF Tell, searchVars
<1>2. /\ ResolverTypeOK /\ PhaseInv /\ OnceInLine /\ DegreesCount /\ NeedsComeFirst
      /\ frames = <<>> /\ root = Len(nodes) /\ taken > 0
  BY <1>1 DEF SearchInv, SortInv, PhaseInv, Sorting
<1>3. /\ told \in Nat /\ told <= Len(nodes) /\ Len(nodes) \in Nat /\ DOMAIN nodes = 1 .. Len(nodes)
      /\ taken \in Nat /\ taken <= Len(line) /\ Len(line) \in Nat
  BY <1>2, SortTyped
<1>4. FramesInv' /\ FinishedInv'
  BY <1>1, SearchStays DEF SearchInv
<1>5. \A m \in DOMAIN nodes :
        /\ degree[m] = Cardinality(Open(m)) /\ IsFiniteSet(Open(m))
        /\ m \in ToSet(line) <=> Open(m) = {}
  BY <1>1, <1>2, SortTyped DEF DegreesCount
<1>6. ASSUME told = Len(nodes), step' = "sorting", UNCHANGED <<told, degree, line>>
      PROVE  SearchInv'
  <2>1. ASSUME NEW m \in DOMAIN nodes PROVE Open(m)' = Open(m)
    <3>1. ~ m > told
      BY <1>3, <1>6
    <3>2. Passed(m)' = Passed(m)
      BY <1>1, <1>6, <3>1 DEF Passed
    <3> QED
      BY <1>1, <3>2 DEF Open
  <2>2. ResolverTypeOK'
    BY <1>1, <1>2, <1>6 DEF ResolverTypeOK
  <2>3. OnceInLine' /\ NeedsComeFirst' /\ DegreesCount'
    BY <1>1, <1>2, <1>5, <1>6, <2>1 DEF OnceInLine, NeedsComeFirst, DegreesCount
  <2>4. PhaseInv' /\ TraceInv' /\ SortInv'
    BY <1>1, <1>2, <1>6, <2>3 DEF PhaseInv, TraceInv, SortInv, Sorting
  <2> QED
    BY <1>4, <2>2, <2>4 DEF SearchInv
<1> DEFINE m == told + 1
           asked == {k \in DOMAIN nodes[m] : nodes[m][k] = line[taken]}
           still == degree[m] - Times(nodes[m], line[taken])
<1>7. ASSUME told < Len(nodes), step' = step, told' = m, degree' = [degree EXCEPT ![m] = still],
             line' = IF still = 0 /\ still # degree[m] THEN Append(line, m) ELSE line
      PROVE  SearchInv'
  <2>1. /\ m \in DOMAIN nodes /\ taken \in 1 .. Len(line) /\ asked \subseteq Open(m)
        /\ Times(nodes[m], line[taken]) = Cardinality(asked)
        /\ Open(m) \ asked = {k \in DOMAIN nodes[m] : nodes[m][k] \notin {line[i] : i \in 1 .. taken}}
    BY <1>1, <1>7, ToldIs
  <2>2. degree[m] = Cardinality(Open(m)) /\ IsFiniteSet(Open(m)) /\ (m \in ToSet(line) <=> Open(m) = {})
    BY <1>5, <2>1
  <2>3. /\ still = Cardinality(Open(m) \ asked) /\ still \in Nat
        /\ still = 0 <=> Open(m) \ asked = {}
        /\ still = degree[m] <=> asked = {}
    <3>1. still = Cardinality(Open(m)) - Cardinality(asked)
      BY <2>1, <2>2, Zenon
    <3> HIDE DEF still, asked, m
    <3>2. /\ Cardinality(Open(m) \ asked) = Cardinality(Open(m)) - Cardinality(asked)
          /\ Cardinality(Open(m) \ asked) \in Nat
          /\ Cardinality(Open(m) \ asked) = 0 <=> Open(m) \ asked = {}
          /\ Cardinality(Open(m) \ asked) = Cardinality(Open(m)) <=> asked = {}
      BY <2>1, <2>2, TimesCounts
    <3> QED
      BY <2>2, <3>1, <3>2, Zenon
  <2>4. told' = told + 1 /\ told' \in 0 .. Len(nodes)
    <3>1. told < Len(nodes) /\ told' = told + 1
      BY <1>7, Zenon
    <3> QED
      BY <1>3, <3>1, NextOfBound
  <2>5. degree \in [NodeNames -> Nat] /\ m \in NodeNames
    BY <1>2, <2>1, SortTyped DEF ResolverTypeOK
  <2> HIDE DEF still
  <2>6. /\ degree' \in [NodeNames -> Nat] /\ degree'[m] = still
        /\ \A n \in NodeNames : n # m => degree'[n] = degree[n]
    BY <1>7, <2>3, <2>5
  <2>7. \A n \in DOMAIN nodes : n > told' <=> (n > told /\ n # m)
    BY <1>3, <2>4
  <2>8. ASSUME still = 0 /\ still # degree[m]
        PROVE  /\ line' \in Seq(1 .. Len(nodes)) /\ taken' \in 0 .. Len(line')
               /\ ToSet(line') = ToSet(line) \cup {m} /\ OnceInLine' /\ NeedsComeFirst'
               /\ \A i \in 1 .. taken : line'[i] = line[i]
    <3>1. line' = Append(line, m)
      BY <1>7, <2>8
    <3>2. m \notin ToSet(line)
      BY <2>2, <2>3, <2>8, FS_EmptySet
    <3>3. /\ line' \in Seq(1 .. Len(nodes)) /\ Len(line') = Len(line) + 1
          /\ ToSet(line') = ToSet(line) \cup {m} /\ \A i \in 1 .. Len(line) : line'[i] = line[i]
      BY <1>2, <2>1, <3>1, LineGrows
    <3>4. Needs(nodes, m) \subseteq ToSet(line)
      <4>1. \A k \in DOMAIN nodes[m] : nodes[m][k] \in {line[i] : i \in 1 .. taken}
        BY <2>1, <2>3, <2>8
      <4>2. \A i \in 1 .. taken : i \in DOMAIN line
        BY <1>2, <1>3, SortTyped
      <4> QED
        BY <2>1, <4>1, <4>2 DEF Needs, Dependencies, ToSet
    <3>5. OnceInLine' /\ NeedsComeFirst'
      BY <1>1, <1>2, <2>1, <3>1, <3>2, <3>4, GrownInOrder
    <3>6. taken' \in 0 .. Len(line') /\ \A i \in 1 .. taken : i \in 1 .. Len(line)
      BY <1>1, <1>3, <3>3
    <3> QED
      BY <3>3, <3>5, <3>6
  <2>9. ASSUME ~ (still = 0 /\ still # degree[m])
        PROVE  /\ line' \in Seq(1 .. Len(nodes)) /\ taken' \in 0 .. Len(line')
               /\ ToSet(line') = ToSet(line) /\ OnceInLine' /\ NeedsComeFirst'
               /\ \A i \in 1 .. taken : line'[i] = line[i]
    <3>1. line' = line
      BY <1>7, <2>9
    <3> QED
      BY <1>1, <1>2, <3>1 DEF ResolverTypeOK, OnceInLine, NeedsComeFirst
  <2>10. /\ line' \in Seq(1 .. Len(nodes)) /\ taken' \in 0 .. Len(line') /\ OnceInLine' /\ NeedsComeFirst'
         /\ \A i \in 1 .. taken : line'[i] = line[i]
    BY <2>8, <2>9
  <2>11. ASSUME NEW n \in DOMAIN nodes
         PROVE  degree'[n] = Cardinality(Open(n)') /\ (n \in ToSet(line') <=> Open(n)' = {})
    <3>1. CASE n = m
      <4>1. ~ n > told' /\ 1 .. taken' = 1 .. taken
        BY <1>1, <2>7, <3>1
      <4>2. Passed(n)' = {line'[i] : i \in 1 .. taken}
        BY <4>1 DEF Passed
      <4>3. Passed(n)' = {line[i] : i \in 1 .. taken}
        BY <2>10, <4>2, Zenon
      <4>4. Open(n)' = Open(m) \ asked
        BY <1>1, <2>1, <3>1, <4>3 DEF Open
      <4>5. n \in ToSet(line') <=> still = 0
        <5>1. Open(m) = {} => Open(m) \ asked = {}
          OBVIOUS
        <5> HIDE DEF asked
        <5>2. still = 0 /\ still = degree[m] => Open(m) = {}
          BY <2>2, <2>3
        <5> QED
          BY <2>2, <2>3, <2>8, <2>9, <3>1, <5>1, <5>2
      <4> QED
        BY <2>3, <2>6, <3>1, <4>4, <4>5
    <3>2. CASE n # m
      <4>1. (n > told' <=> n > told) /\ n \in NodeNames
        BY <1>2, <2>7, <3>2, SortTyped
      <4>2. Passed(n)' = {line'[i] : i \in 1 .. (IF n > told THEN taken - 1 ELSE taken)}
        BY <1>1, <1>7, <4>1 DEF Passed
      <4>3. 1 .. (IF n > told THEN taken - 1 ELSE taken) \subseteq 1 .. taken
        BY <1>3
      <4>4. Passed(n)' = {line[i] : i \in 1 .. (IF n > told THEN taken - 1 ELSE taken)}
        BY <2>10, <4>2, <4>3, Zenon
      <4>5. Passed(n)' = Passed(n)
        BY <1>1, <4>4 DEF Passed
      <4>6. Open(n)' = Open(n)
        BY <1>1, <4>5 DEF Open
      <4>7. n \in ToSet(line') <=> n \in ToSet(line)
        BY <2>8, <2>9, <3>2
      <4> QED
        BY <1>5, <2>6, <3>2, <4>1, <4>6, <4>7
    <3> QED
      BY <3>1, <3>2
  <2>12. DegreesCount'
    BY <1>1, <1>7, <2>11 DEF DegreesCount
  <2>13. ResolverTypeOK'
    BY <1>1, <1>2, <1>7, <2>4, <2>6, <2>10 DEF ResolverTypeOK
  <2>14. PhaseInv' /\ TraceInv' /\ SortInv'
    BY <1>1, <1>2, <1>7, <2>10, <2>12 DEF PhaseInv, TraceInv, SortInv, Sorting
  <2> QED
    BY <1>4, <2>13, <2>14 DEF SearchInv
<1>8. (told < Len(nodes) /\ told # Len(nodes)) \/ told = Len(nodes)
  BY <1>3, LessOrSame
<1> QED
  BY <1>6, <1>7, <1>8 DEF Tell

-----------------------------------------------------------------------------
\* Once the line is taken to its end, it holds every node that needs known
\* nodes only, each once and after what it needs.
LEMMA ReturnIsRight ==
  ASSUME SearchInv, Return
  PROVE  SearchInv' /\ OrderIsRight'
<1>1. /\ step = "sorting" /\ taken = Len(line) /\ step' = "returned"
      /\ UNCHANGED <<nodes, root, visited, frames, parent, path, told, degree, line, taken>>
  BY DEF Return, searchVars, sortVars
<1>2. /\ ResolverTypeOK /\ FinishedInv /\ PhaseInv /\ OnceInLine /\ DegreesCount /\ NeedsComeFirst
      /\ frames = <<>> /\ root = Len(nodes) /\ nodes \in Seq(Lists)
  BY <1>1, NodesAreNamed DEF SearchInv, SortInv, PhaseInv, Sorting
<1>3. /\ DOMAIN nodes = 1 .. Len(nodes) /\ DOMAIN line = 1 .. Len(line) /\ Len(line) \in Nat
      /\ \A i \in 1 .. Len(line) : line[i] \in DOMAIN nodes
      /\ DOMAIN nodes \subseteq NodeNames
  BY <1>2, SortTyped, NodesAreNamed
<1> DEFINE L == ToSet(line)
           whole == {n \in DOMAIN nodes : Reached(nodes, n) \subseteq DOMAIN nodes}
<1>4. L = {line[i] : i \in 1 .. Len(line)} /\ L \subseteq DOMAIN nodes
  BY <1>3 DEF ToSet
<1>5. DOMAIN nodes \subseteq Finished
  BY <1>2, <1>3 DEF Finished, InStack, PhaseInv
<1>6. {n \in DOMAIN nodes : n \in Reached(nodes, n)} = {}
  BY <1>2, <1>5 DEF FinishedInv
<1>7. ASSUME NEW k \in 1 .. Len(line)
      PROVE  Reached(nodes, line[k]) \subseteq {line[j] : j \in 1 .. k - 1}
  <2> DEFINE S == {line[j] : j \in 1 .. k - 1}
  <2>1. \A j \in 1 .. k - 1 : j \in 1 .. Len(line) /\ 1 .. j - 1 \subseteq 1 .. k - 1
    BY <1>3
  <2>2. \A j \in 1 .. Len(line) : Needs(nodes, line[j]) \subseteq {line[h] : h \in 1 .. j - 1}
    BY <1>2, <1>3 DEF NeedsComeFirst
  <2>3. S \in SUBSET NodeNames
    BY <1>3, <2>1
  <2>4. Closed(nodes, S)
    <3>1. ASSUME NEW j \in 1 .. k - 1 PROVE Needs(nodes, line[j]) \subseteq S
      BY <2>1, <2>2
    <3> QED
      BY <3>1 DEF Closed
  <2>5. Needs(nodes, line[k]) \subseteq S
    BY <2>2
  <2> HIDE DEF S
  <2>6. Reached(nodes, line[k]) \subseteq S
    BY <2>3, <2>4, <2>5, ReachedIsLeast
  <2> QED
    BY <2>6 DEF S
<1>8. L \subseteq whole
  <2>1. ASSUME NEW k \in 1 .. Len(line) PROVE Reached(nodes, line[k]) \subseteq DOMAIN nodes
    <3>1. \A j \in 1 .. k - 1 : j \in 1 .. Len(line)
      BY <1>3
    <3> QED
      BY <1>3, <1>7, <3>1
  <2> QED
    BY <1>3, <1>4, <2>1
<1>9. whole \subseteq L
  <2> DEFINE R == whole \ L
  <2> SUFFICES ASSUME R # {} PROVE FALSE
    OBVIOUS
  <2>1. R \in SUBSET Finished
    BY <1>5
  <2>2. PICK n \in R : Needs(nodes, n) \cap R = {}
    BY <1>2, <2>1 DEF FinishedInv
  <2>3. n \in DOMAIN nodes /\ Reached(nodes, n) \subseteq DOMAIN nodes /\ n \notin L
    OBVIOUS
  <2>4. ASSUME NEW l \in Needs(nodes, n) PROVE l \in L
    <3>1. l \in Reached(nodes, n)
      BY <1>2, ReachesNeeds
    <3>2. Reached(nodes, l) \subseteq DOMAIN nodes /\ l \in DOMAIN nodes
      BY <1>2, <2>3, <3>1, ReachesOn
    <3> QED
      BY <2>2, <3>2
  <2>5. Passed(n) = L
    BY <1>1, <1>4 DEF Passed
  <2>6. Open(n) = {}
    <3>1. \A k \in DOMAIN nodes[n] : nodes[n][k] \in Needs(nodes, n)
      BY <2>3 DEF Needs, Dependencies
    <3> QED
      BY <2>4, <2>5, <3>1 DEF Open
  <2> QED
    BY <1>1, <1>2, <2>3, <2>6 DEF DegreesCount
<1>10. ASSUME NEW k \in 1 .. Len(line), NEW l \in 1 .. Len(line),
              line[l] \in {line[k]} \cup Reached(nodes, line[k])
       PROVE  l <= k
  <2>1. \A i, j \in 1 .. Len(line) : line[i] = line[j] => i = j
    BY <1>2, <1>3 DEF OnceInLine
  <2>2. \A j \in 1 .. k - 1 : j \in 1 .. Len(line) /\ j <= k
    BY <1>3
  <2>3. CASE line[l] = line[k]
    BY <2>1, <2>3
  <2>4. CASE line[l] \in Reached(nodes, line[k])
    <3>1. PICK j \in 1 .. k - 1 : line[l] = line[j]
      BY <1>7, <2>4
    <3> QED
      BY <2>1, <2>2, <3>1
  <2> QED
    BY <1>10, <2>3, <2>4
<1>11. OrderIsRight'
  BY <1>1, <1>3, <1>6, <1>8, <1>9, <1>10 DEF OrderIsRight
<1>12. ResolverTypeOK'
  BY <1>1, <1>2 DEF ResolverTypeOK
<1>13. \A m \in DOMAIN nodes : Open(m)' = Open(m)
  BY <1>1 DEF Open, Passed
<1>14. OnceInLine' /\ NeedsComeFirst' /\ DegreesCount'
  BY <1>1, <1>2, <1>13 DEF OnceInLine, NeedsComeFirst, DegreesCount
<1>15. FramesInv' /\ FinishedInv'
  BY <1>1, SearchStays DEF SearchInv
<1>16. PhaseInv' /\ TraceInv' /\ SortInv'
  BY <1>1, <1>2, <1>14 DEF PhaseInv, TraceInv, SortInv, Sorting
<1> QED
  BY <1>11, <1>12, <1>15, <1>16 DEF SearchInv

LEMMA ResolverStarts ==
  ASSUME ResolverInit
  PROVE  SearchInv /\ OrderIsRight
<1>1. /\ nodes = <<>> /\ step = "building" /\ root = 0 /\ visited = {} /\ frames = <<>> /\ path = <<>>
      /\ parent = [n \in NodeNames |-> 0] /\ told = 0 /\ degree = [n \in NodeNames |-> 0]
      /\ line = <<>> /\ taken = 0
  BY DEF ResolverInit
<1>2. ResolverTypeOK
  BY <1>1, ResolverAssumption DEF ResolverTypeOK
<1>3. InStack = {} /\ Finished = {} /\ DOMAIN frames = {}
  BY <1>1 DEF InStack, Finished
<1>4. FramesInv
  BY <1>3 DEF FramesInv, CallsVisit, OneCallEach, NextIsThere, FollowedIsDone, CallsAreLinked, CallsReach
<1>5. FinishedInv
  BY <1>3 DEF FinishedInv, Closed
<1>6. PhaseInv /\ TraceInv /\ SortInv /\ OrderIsRight
  BY <1>1 DEF PhaseInv, TraceInv, SortInv, Sorting, OrderIsRight
<1> QED
  BY <1>2, <1>4, <1>5, <1>6 DEF SearchInv

\* Every step of the resolver keeps what is known of it.
LEMMA ResolverKeeps ==
  ASSUME SearchInv /\ OrderIsRight, [ResolverNext]_resolverVars
  PROVE  (SearchInv /\ OrderIsRight)'
<1>1. ASSUME NEW list \in Lists, AddNode(list) PROVE SearchInv' /\ step' = "building"
  BY <1>1, AddNodeKeeps DEF AddNode
<1>2. ASSUME Resolve PROVE SearchInv' /\ step' = "searching"
  BY <1>2, ResolveKeeps DEF Resolve
<1>3. ASSUME NextRoot PROVE SearchInv' /\ step' = "searching"
  BY <1>3, NextRootKeeps DEF NextRoot
<1>4. ASSUME Follow PROVE SearchInv' /\ step' \in {"searching", "tracing"}
  <2>1. PICK d : Visits(d) \/ Passes(d) \/ ClosesCycle(d)
    BY <1>4, FollowIs
  <2>2. SearchInv'
    BY <2>1, VisitKeeps, PassKeeps, CloseKeeps
  <2>3. step' \in {"searching", "tracing"}
    BY <1>4 DEF Follow
  <2> QED
    BY <2>2, <2>3
<1>5. ASSUME Leave PROVE SearchInv' /\ step' = "searching"
  BY <1>5, LeaveKeeps DEF Leave
<1>6. ASSUME BeginSort PROVE SearchInv' /\ step' = "queueing"
  BY <1>6, BeginSortKeeps DEF BeginSort
<1>7. ASSUME Queue PROVE SearchInv' /\ step' \in {"queueing", "sorting"}
  BY <1>7, QueueKeeps DEF Queue
<1>8. ASSUME Take PROVE SearchInv' /\ step' = "telling"
  BY <1>8, TakeKeeps DEF Take
<1>9. ASSUME Tell PROVE SearchInv' /\ step' \in {"telling", "sorting"}
  BY <1>9, TellKeeps DEF Tell
<1>10. ASSUME UNCHANGED resolverVars PROVE SearchInv' /\ OrderIsRight'
  <2>1. UNCHANGED <<nodes, step, root, visited, frames, parent, path, told, degree, line, taken>>
    BY <1>10 DEF resolverVars, searchVars, sortVars
  <2>2. ResolverTypeOK' /\ OrderIsRight'
    BY <2>1 DEF SearchInv, ResolverTypeOK, OrderIsRight
  <2>3. FramesInv' /\ FinishedInv'
    BY <2>1, SearchStays DEF SearchInv
  <2>4. PhaseInv' /\ TraceInv'
    BY <2>1 DEF SearchInv, PhaseInv, TraceInv, Top
  <2>5. \A m : Open(m)' = Open(m)
    BY <2>1 DEF Open, Passed
  <2>6. SortInv'
    BY <2>1, <2>5 DEF SearchInv, SortInv, OnceInLine, DegreesCount, NeedsComeFirst
  <2> QED
    BY <2>2, <2>3, <2>4, <2>6 DEF SearchInv
<1>11. step' \notin {"threw", "returned"} => OrderIsRight'
  BY DEF OrderIsRight
<1> QED
  BY <1>1, <1>2, <1>3, <1>4, <1>5, <1>6, <1>7, <1>8, <1>9, <1>10, <1>11, TraceKeeps, ReturnIsRight
  DEF ResolverNext

\* However many nodes there are and whatever they need: a cycle is reported
\* exactly when there is one, the path named is one, and otherwise the order
\* holds each node that needs known nodes only, once and after what it needs
\* (dependency-resolver.ts:19-82, 121-158).
THEOREM OrderIsAlwaysRight == ResolverSpec => [](ResolverTypeOK /\ OrderIsRight)
<1>1. ResolverInit => SearchInv /\ OrderIsRight
  BY ResolverStarts
<1>2. (SearchInv /\ OrderIsRight) /\ [ResolverNext]_resolverVars => (SearchInv /\ OrderIsRight)'
  BY ResolverKeeps
<1>3. SearchInv /\ OrderIsRight => ResolverTypeOK /\ OrderIsRight
  BY DEF SearchInv
<1> QED
  BY <1>1, <1>2, <1>3, PTL DEF ResolverSpec

-----------------------------------------------------------------------------
(* resolve() ends: each of its rounds leaves less to do.                   *)

\* What is left, the most significant first: the phases, and in the search the
\* names not visited, the roots, the calls under way and what the last of
\* them has to follow.
ToGo ==
  CASE step = "searching" ->
         <<4, Cardinality(NodeNames \ visited), Len(nodes) - root, Len(frames),
           IF frames = <<>> THEN 0 ELSE Len(Dependencies(nodes, Top.node)) + 1 - Top.next>>
    [] step = "tracing"   -> <<3, Len(frames) + 1 - Len(path), 0, 0, 0>>
    [] step = "queueing"  -> <<2, Len(nodes) - told, 0, 0, 0>>
    [] step = "telling"   -> <<1, Len(nodes) - taken, 1, Len(nodes) - told, 0>>
    [] step = "sorting"   -> <<1, Len(nodes) - taken, 0, 0, 0>>
    [] OTHER              -> <<0, 0, 0, 0, 0>>

\* Tuples of numbers, and their lexicographic order.
Five == Nat \X Nat \X Nat \X Nat \X Nat
Below(a, b) == \E c \in 1 .. 5 : a[c] < b[c] /\ \A e \in 1 .. c - 1 : a[e] = b[e]

LEMMA BelowAt ==
  ASSUME NEW a \in Five, NEW b \in Five
  PROVE  /\ a[1] < b[1] => Below(a, b)
         /\ a[1] = b[1] /\ a[2] < b[2] => Below(a, b)
         /\ a[1] = b[1] /\ a[2] = b[2] /\ a[3] < b[3] => Below(a, b)
         /\ a[1] = b[1] /\ a[2] = b[2] /\ a[3] = b[3] /\ a[4] < b[4] => Below(a, b)
         /\ a[1] = b[1] /\ a[2] = b[2] /\ a[3] = b[3] /\ a[4] = b[4] /\ a[5] < b[5] => Below(a, b)
  BY SMT DEF Five, Below

LEMMA UpToHas ==
  ASSUME NEW n \in Nat
  PROVE  IsFiniteSet(1 .. n) /\ Cardinality(1 .. n) = n
<1>1. 1 \in Int /\ n \in Int
  OBVIOUS
<1>2. IsFiniteSet(1 .. n) /\ Cardinality(1 .. n) = IF 1 > n THEN 0 ELSE n - 1 + 1
  BY <1>1, FS_Interval, Zenon
<1> QED
  BY <1>2

LEMMA LineFits ==
  ASSUME SearchInv, step \in Sorting
  PROVE  Len(line) <= Len(nodes)
<1>1. ResolverTypeOK /\ OnceInLine
  BY DEF SearchInv, SortInv
<1>2. /\ DOMAIN line = 1 .. Len(line) /\ Len(line) \in Nat /\ Len(nodes) \in Nat
      /\ \A i \in 1 .. Len(line) : line[i] \in 1 .. Len(nodes)
  BY <1>1, SortTyped
<1>3. line \in [1 .. Len(line) -> 1 .. Len(nodes)]
  BY <1>1, <1>2 DEF ResolverTypeOK
<1>4. line \in Injection(1 .. Len(line), 1 .. Len(nodes))
  BY <1>1, <1>2, <1>3 DEF OnceInLine, Injection, IsInjective
<1>5. /\ IsFiniteSet(1 .. Len(line)) /\ Cardinality(1 .. Len(line)) = Len(line)
      /\ IsFiniteSet(1 .. Len(nodes)) /\ Cardinality(1 .. Len(nodes)) = Len(nodes)
  BY <1>2, UpToHas
<1>6. Cardinality(1 .. Len(line)) <= Cardinality(1 .. Len(nodes))
  BY <1>4, <1>5, FS_Injection, Zenon
<1> QED
  BY <1>5, <1>6

\* The names not visited are fewer than before once one more was visited.
LEMMA NotVisited ==
  /\ \A S : IsFiniteSet(NodeNames \ S) /\ Cardinality(NodeNames \ S) \in Nat
  /\ \A S : \A d \in NodeNames \ S :
       Cardinality(NodeNames \ (S \cup {d})) < Cardinality(NodeNames \ S)
<1>1. IsFiniteSet(NodeNames)
  BY ResolverAssumption, FS_Interval DEF NodeNames
<1>2. ASSUME NEW S PROVE IsFiniteSet(NodeNames \ S) /\ Cardinality(NodeNames \ S) \in Nat
  <2>1. NodeNames \ S \in SUBSET NodeNames
    OBVIOUS
  <2> QED
    BY <1>1, <2>1, FS_Subset, FS_CardinalityType
<1>3. ASSUME NEW S, NEW d \in NodeNames \ S
      PROVE  Cardinality(NodeNames \ (S \cup {d})) < Cardinality(NodeNames \ S)
  <2>1. NodeNames \ (S \cup {d}) = (NodeNames \ S) \ {d}
    OBVIOUS
  <2>2. Cardinality((NodeNames \ S) \ {d}) = Cardinality(NodeNames \ S) - 1
    BY <1>2, FS_RemoveElement
  <2> QED
    BY <1>2, <2>1, <2>2
<1> QED
  BY <1>2, <1>3

LEMMA ToGoTyped ==
  ASSUME SearchInv
  PROVE  ToGo \in Five
<1>1. /\ ResolverTypeOK /\ FramesInv /\ TraceInv /\ PhaseInv
      /\ step \in {"building", "searching", "tracing", "threw",
                   "queueing", "sorting", "telling", "returned"}
  BY DEF SearchInv, ResolverTypeOK
<1>2. /\ Len(nodes) \in Nat /\ Len(frames) \in Nat /\ Len(path) \in Nat
      /\ root \in Nat /\ root <= Len(nodes) /\ told \in Nat /\ told <= Len(nodes)
      /\ taken \in Nat /\ taken <= Len(line) /\ Len(line) \in Nat
  BY <1>1, FramesTyped, SortTyped DEF ResolverTypeOK
<1>3. CASE step = "searching"
  <2>1. Cardinality(NodeNames \ visited) \in Nat
    BY NotVisited, Zenon
  <2>2. frames # <<>> => Len(Dependencies(nodes, Top.node)) + 1 - Top.next \in Nat
    <3> SUFFICES ASSUME frames # <<>>
                 PROVE  Len(Dependencies(nodes, Top.node)) + 1 - Top.next \in Nat
      OBVIOUS
    <3>1. Len(frames) \in DOMAIN frames /\ Top = frames[Len(frames)]
      BY <1>1, FramesTyped DEF ResolverTypeOK, Top
    <3>2. Top.next \in Nat /\ Top.next <= Len(Dependencies(nodes, Top.node)) + 1
      BY <1>1, <3>1, FramesTyped DEF FramesInv, NextIsThere
    <3>3. Len(Dependencies(nodes, Top.node)) \in Nat
      BY <1>1, DependenciesTyped, NodesAreNamed
    <3> QED
      BY <3>2, <3>3
  <2> QED
    BY <1>2, <1>3, <2>1, <2>2 DEF ToGo, Five
<1>4. CASE step = "tracing"
  <2>1. Len(path) - 1 <= Len(frames)
    BY <1>1, <1>4 DEF TraceInv
  <2> QED
    BY <1>2, <1>4, <2>1 DEF ToGo, Five
<1>5. CASE step = "queueing"
  BY <1>2, <1>5 DEF ToGo, Five
<1>6. CASE step \in {"sorting", "telling"}
  <2>1. Len(line) <= Len(nodes)
    BY <1>6, LineFits DEF Sorting
  <2> QED
    BY <1>2, <1>6, <2>1 DEF ToGo, Five
<1>7. CASE step \in {"building", "threw", "returned"}
  BY <1>7 DEF ToGo, Five
<1> QED
  BY <1>1, <1>3, <1>4, <1>5, <1>6, <1>7

LEMMA NextRootCounts ==
  ASSUME SearchInv, NextRoot, ToGo \in Five, ToGo' \in Five
  PROVE  Below(ToGo', ToGo)
<1>1. /\ step = "searching" /\ step' = "searching" /\ root' = root + 1 /\ nodes' = nodes
      /\ visited' = visited \cup {root + 1} /\ root < Len(nodes)
  BY DEF NextRoot
<1>2. /\ ToGo[1] = 4 /\ ToGo[2] = Cardinality(NodeNames \ visited) /\ ToGo[3] = Len(nodes) - root
      /\ ToGo'[1] = 4 /\ ToGo'[2] = Cardinality(NodeNames \ visited')
      /\ ToGo'[3] = Len(nodes) - root'
  BY <1>1 DEF ToGo
<1>3. root \in Nat /\ Len(nodes) \in Nat /\ root + 1 \in NodeNames
  BY <1>1, NodesAreNamed DEF SearchInv, ResolverTypeOK
<1>4. CASE root + 1 \in visited
  <2>1. visited' = visited
    BY <1>1, <1>4
  <2>2. ToGo'[2] = ToGo[2]
    BY <1>2, <2>1
  <2>3. Len(nodes) - (root + 1) < Len(nodes) - root
    BY <1>3
  <2>4. ToGo'[3] < ToGo[3]
    BY <1>1, <1>2, <2>3, Zenon
  <2> QED
    BY <1>2, <2>2, <2>4, BelowAt
<1>5. CASE root + 1 \notin visited
  <2>1. ToGo'[2] < ToGo[2]
    BY <1>1, <1>2, <1>3, <1>5, NotVisited
  <2> QED
    BY <1>2, <2>1, BelowAt
<1> QED
  BY <1>4, <1>5

LEMMA FollowCounts ==
  ASSUME SearchInv, Follow, ToGo \in Five, ToGo' \in Five
  PROVE  Below(ToGo', ToGo)
<1>1. PICK d : Visits(d) \/ Passes(d) \/ ClosesCycle(d)
  BY FollowIs
<1>2. /\ step = "searching" /\ frames # <<>> /\ Top.next <= Len(Dependencies(nodes, Top.node))
      /\ d = Dependencies(nodes, Top.node)[Top.next] /\ nodes' = nodes /\ root' = root
  BY <1>1 DEF Visits, Passes, ClosesCycle, Follows
<1>3. /\ ToGo[1] = 4 /\ ToGo[2] = Cardinality(NodeNames \ visited)
      /\ ToGo[3] = Len(nodes) - root /\ ToGo[4] = Len(frames)
      /\ ToGo[5] = Len(Dependencies(nodes, Top.node)) + 1 - Top.next
  BY <1>2 DEF ToGo
<1>4. /\ d \in NodeNames /\ Len(Onward) = Len(frames) /\ Len(frames) \in DOMAIN frames
      /\ Onward[Len(frames)].node = Top.node /\ Onward[Len(frames)].next = Top.next + 1
  BY <1>2, OnwardIs DEF SearchInv, Top
<1>5. Top.next \in Nat /\ Len(Dependencies(nodes, Top.node)) \in Nat
  BY <1>4, FramesTyped, DependenciesTyped, NodesAreNamed DEF SearchInv, Top
<1>6. CASE Visits(d)
  <2>1. step' = "searching" /\ visited' = visited \cup {d} /\ d \notin visited
    BY <1>2, <1>6 DEF Visits
  <2>2. ToGo'[1] = 4 /\ ToGo'[2] = Cardinality(NodeNames \ visited')
    BY <2>1 DEF ToGo
  <2>3. ToGo'[2] < ToGo[2]
    BY <1>3, <1>4, <2>1, <2>2, NotVisited
  <2> QED
    BY <1>3, <2>2, <2>3, BelowAt
<1>7. CASE Passes(d)
  <2>1. step' = "searching" /\ visited' = visited /\ frames' = Onward
    BY <1>2, <1>7 DEF Passes
  <2>2. frames' # <<>> /\ Len(frames') = Len(frames) /\ Top'.node = Top.node /\ Top'.next = Top.next + 1
    BY <1>4, <2>1, FramesTyped DEF Top, SearchInv
  <2>3. /\ ToGo'[1] = 4 /\ ToGo'[2] = Cardinality(NodeNames \ visited')
        /\ ToGo'[3] = Len(nodes') - root' /\ ToGo'[4] = Len(frames')
        /\ ToGo'[5] = Len(Dependencies(nodes', Top'.node)) + 1 - Top'.next
    BY <2>1, <2>2 DEF ToGo
  <2>4. ToGo'[2] = ToGo[2] /\ ToGo'[3] = ToGo[3] /\ ToGo'[4] = ToGo[4]
    BY <1>2, <1>3, <2>1, <2>2, <2>3
  <2>5. ToGo'[5] < ToGo[5]
    BY <1>2, <1>3, <1>5, <2>2, <2>3
  <2> QED
    BY <1>3, <2>3, <2>4, <2>5, BelowAt
<1>8. CASE ClosesCycle(d)
  <2>1. ToGo'[1] = 3
    BY <1>8 DEF ClosesCycle, ToGo
  <2> QED
    BY <1>3, <2>1, BelowAt
<1> QED
  BY <1>1, <1>6, <1>7, <1>8

LEMMA LeaveCounts ==
  ASSUME SearchInv, Leave, ToGo \in Five, ToGo' \in Five
  PROVE  Below(ToGo', ToGo)
<1>1. /\ step = "searching" /\ step' = "searching" /\ frames # <<>> /\ UNCHANGED <<nodes, root, visited>>
      /\ frames' = SubSeq(frames, 1, Len(frames) - 1)
  BY DEF Leave
<1>2. /\ ToGo[1] = 4 /\ ToGo[2] = Cardinality(NodeNames \ visited)
      /\ ToGo[3] = Len(nodes) - root /\ ToGo[4] = Len(frames)
      /\ ToGo'[1] = 4 /\ ToGo'[2] = Cardinality(NodeNames \ visited')
      /\ ToGo'[3] = Len(nodes') - root' /\ ToGo'[4] = Len(frames')
  BY <1>1 DEF ToGo
<1>3. frames \in Seq(Frame) /\ Len(frames) \in Nat \ {0}
  BY <1>1 DEF SearchInv, ResolverTypeOK
<1>4. PICK n \in Nat \ {0} : n = Len(frames)
  BY <1>3
<1>5. n - 1 \in Int /\ 1 \in Int /\ \A i \in 1 .. n - 1 : frames[i] \in Frame
  BY <1>3, <1>4
<1>6. Len(SubSeq(frames, 1, n - 1)) = IF 1 <= n - 1 THEN n - 1 - 1 + 1 ELSE 0
  BY <1>5, SubSeqProperties
<1>7. Len(SubSeq(frames, 1, n - 1)) = n - 1
  BY <1>6
<1>8. Len(frames') = Len(frames) - 1
  BY <1>1, <1>4, <1>7, Zenon
<1>9. ToGo'[2] = ToGo[2] /\ ToGo'[3] = ToGo[3]
  BY <1>1, <1>2
<1>10. ToGo'[4] < ToGo[4]
  BY <1>2, <1>3, <1>8
<1> QED
  BY <1>2, <1>9, <1>10, BelowAt

LEMMA TraceCounts ==
  ASSUME SearchInv, Trace, ToGo \in Five, ToGo' \in Five
  PROVE  Below(ToGo', ToGo)
<1>1. ToGo[1] = 3 /\ ToGo[2] = Len(frames) + 1 - Len(path)
  BY DEF Trace, ToGo
<1>2. CASE step' = "threw"
  <2>1. ToGo'[1] = 0
    BY <1>2 DEF ToGo
  <2> QED
    BY <1>1, <2>1, BelowAt
<1>3. ASSUME step' = step, path' = Append(path, parent[path[Len(path)]])
      PROVE  Below(ToGo', ToGo)
  <2>1. step' = "tracing" /\ frames' = frames
    BY <1>3 DEF Trace, searchVars
  <2>2. ToGo'[1] = 3 /\ ToGo'[2] = Len(frames) + 1 - Len(path')
    BY <2>1 DEF ToGo
  <2>3. path \in Seq(NodeNames) /\ Len(path) \in Nat /\ Len(frames) \in Nat
    BY FramesTyped DEF SearchInv, ResolverTypeOK
  <2>4. Len(path') = Len(path) + 1
    BY <1>3, <2>3
  <2>5. ToGo'[2] < ToGo[2]
    BY <1>1, <2>2, <2>3, <2>4
  <2> QED
    BY <1>1, <2>2, <2>5, BelowAt
<1> QED
  BY <1>2, <1>3 DEF Trace

LEMMA SortCounts ==
  ASSUME SearchInv, BeginSort \/ Queue \/ Take \/ Tell \/ Return, ToGo \in Five, ToGo' \in Five
  PROVE  Below(ToGo', ToGo)
<1>1. /\ Len(nodes) \in Nat /\ told \in Nat /\ told <= Len(nodes) /\ taken \in Nat
      /\ taken <= Len(line) /\ Len(line) \in Nat
  BY SortTyped DEF SearchInv
<1>2. nodes' = nodes
  BY DEF BeginSort, Queue, Take, Tell, Return
<1>3. CASE BeginSort
  <2>1. ToGo[1] = 4 /\ ToGo'[1] = 2
    BY <1>3 DEF BeginSort, ToGo
  <2> QED
    BY <2>1, BelowAt
<1>4. CASE Queue
  <2>1. ToGo[1] = 2 /\ ToGo[2] = Len(nodes) - told
    BY <1>4 DEF Queue, ToGo
  <2>2. CASE told = Len(nodes)
    <3>1. ToGo'[1] = 1
      BY <1>4, <2>2 DEF Queue, ToGo
    <3> QED
      BY <2>1, <3>1, BelowAt
  <2>3. CASE told # Len(nodes)
    <3>1. told' = told + 1 /\ step' = "queueing"
      BY <1>4, <2>3 DEF Queue
    <3>2. ToGo'[1] = 2 /\ ToGo'[2] = Len(nodes) - told'
      BY <1>2, <3>1 DEF ToGo
    <3>3. ToGo'[2] < ToGo[2]
      BY <1>1, <2>1, <3>1, <3>2
    <3> QED
      BY <2>1, <3>2, <3>3, BelowAt
  <2> QED
    BY <2>2, <2>3
<1>5. CASE Take
  <2>1. step = "sorting" /\ step' = "telling" /\ taken' = taken + 1
    BY <1>5 DEF Take
  <2>2. /\ ToGo[1] = 1 /\ ToGo[2] = Len(nodes) - taken
        /\ ToGo'[1] = 1 /\ ToGo'[2] = Len(nodes) - taken'
    BY <1>2, <2>1 DEF ToGo
  <2>3. ToGo'[2] < ToGo[2]
    BY <1>1, <2>1, <2>2
  <2> QED
    BY <2>2, <2>3, BelowAt
<1>6. CASE Tell
  <2>1. step = "telling" /\ taken' = taken
    BY <1>6 DEF Tell
  <2>2. ToGo[1] = 1 /\ ToGo[2] = Len(nodes) - taken /\ ToGo[3] = 1 /\ ToGo[4] = Len(nodes) - told
    BY <2>1 DEF ToGo
  <2>3. CASE told = Len(nodes)
    <3>1. step' = "sorting"
      BY <1>6, <2>3 DEF Tell
    <3>2. ToGo'[1] = 1 /\ ToGo'[2] = Len(nodes) - taken' /\ ToGo'[3] = 0
      BY <1>2, <3>1 DEF ToGo
    <3>3. ToGo'[2] = ToGo[2] /\ ToGo'[3] < ToGo[3]
      BY <2>1, <2>2, <3>2
    <3> QED
      BY <2>2, <3>2, <3>3, BelowAt
  <2>4. CASE told # Len(nodes)
    <3>1. step' = "telling" /\ told' = told + 1
      BY <1>6, <2>1, <2>4 DEF Tell
    <3>2. /\ ToGo'[1] = 1 /\ ToGo'[2] = Len(nodes) - taken' /\ ToGo'[3] = 1
          /\ ToGo'[4] = Len(nodes) - told'
      BY <1>2, <3>1 DEF ToGo
    <3>3. ToGo'[2] = ToGo[2] /\ ToGo'[3] = ToGo[3]
      BY <2>1, <2>2, <3>2
    <3>4. ToGo'[4] < ToGo[4]
      BY <1>1, <2>2, <3>1, <3>2
    <3> QED
      BY <2>2, <3>2, <3>3, <3>4, BelowAt
  <2> QED
    BY <2>3, <2>4
<1>7. CASE Return
  <2>1. ToGo[1] = 1 /\ ToGo'[1] = 0
    BY <1>7 DEF Return, ToGo
  <2> QED
    BY <2>1, BelowAt
<1> QED
  BY <1>3, <1>4, <1>5, <1>6, <1>7

\* What is left is counted by natural numbers, and less after each step.
CountsDown == ToGo \in Five /\ ToGo' \in Five /\ Below(ToGo', ToGo)

LEMMA ResolverCounts ==
  ASSUME SearchInv, ResolverNext, step # "building", ToGo \in Five, ToGo' \in Five
  PROVE  CountsDown
<1>1. \/ NextRoot \/ Follow \/ Leave \/ Trace
      \/ BeginSort \/ Queue \/ Take \/ Tell \/ Return
  BY DEF ResolverNext, AddNode, Resolve
<1> QED
  BY <1>1, NextRootCounts, FollowCounts, LeaveCounts, TraceCounts, SortCounts DEF CountsDown

\* Once called, resolve() comes to an end, in an order or in a throw, whatever
\* the nodes depend on: no step leaves as much to do as there was before, and
\* the tuples of numbers hold no infinite descent (dependency-resolver.ts).
THEOREM ResolveComesToAnEnd == ResolverSpec => [][step # "building" => CountsDown]_resolverVars
<1>1. SearchInv => ToGo \in Five
  BY ToGoTyped
<1>2. SearchInv' => (ToGo \in Five)'
  BY <1>1, PTL
<1>3. ResolverInit => SearchInv /\ OrderIsRight
  BY ResolverStarts
<1>4. (SearchInv /\ OrderIsRight) /\ [ResolverNext]_resolverVars => (SearchInv /\ OrderIsRight)'
  BY ResolverKeeps
<1>5. SearchInv /\ SearchInv' /\ [ResolverNext]_resolverVars =>
        [step # "building" => CountsDown]_resolverVars
  BY <1>1, <1>2, ResolverCounts
<1> QED
  BY <1>3, <1>4, <1>5, PTL DEF ResolverSpec
=============================================================================
