----------------------------- MODULE McpRegistry ------------------------------
(***************************************************************************)
(* The registry of MCP servers (packages/mcp/src/registry.ts) and its      *)
(* clients (client.ts) as the desktop's service uses them                  *)
(* (apps/desktop/src/main/services/mcp.ts): every window may connect,      *)
(* restart or remove a server while another call waits for it.             *)
(*                                                                         *)
(* A step is a call up to the await it stops at, or what it does after it. *)
(* connectServer() marks the server connected before it lists what the     *)
(* server offers and keeps the client only after; what is listed is left   *)
(* out.  What a transport does is StdioTransport's subject: here a connect *)
(* may fail at each await, and closing always ends.                        *)
(***************************************************************************)
EXTENDS Naturals

CONSTANTS Names, NoServer,
          Configs, MCPClients,   \* the state and client objects, in order of creation
          Closers               \* calls that wait for a client to close

ASSUME McpAssumption ==
  /\ Configs \subseteq Nat \ {0} /\ MCPClients \subseteq Nat \ {0}
  /\ NoServer \notin Names

VARIABLES servers,    \* Names -> the state object of that name, or 0
          connected,  \* Configs -> state.connected
          clients,    \* Names -> the client kept under that name, or 0
          client,     \* MCPClients -> how far it is, its name and its state object
          closings    \* Closers -> what waits for a client to close, and its name

registryVars == <<servers, connected, clients, client, closings>>

Stages == {"unborn", "connecting", "listing", "kept", "closed", "failed", "unlisted"}
CloseKinds == {"disconnect", "remove", "restart", "all"}
Resumed == {"reconnect", "next"}   \* the close is over, the caller goes on

Unborn == [stage |-> "unborn", name |-> NoServer, config |-> 0]
NotClosing == [kind |-> "none", name |-> NoServer]

RegistryTypeOK ==
  /\ servers \in [Names -> Configs \cup {0}]
  /\ connected \in [Configs -> BOOLEAN]
  /\ clients \in [Names -> MCPClients \cup {0}]
  /\ client \in [MCPClients -> [stage : Stages, name : Names \cup {NoServer},
                             config : Configs \cup {0}]]
  /\ closings \in [Closers -> [kind : CloseKinds \cup Resumed \cup {"none"},
                           name : Names \cup {NoServer}]]
  /\ \A n \in Names : clients[n] # 0 =>
       client[clients[n]].name = n /\ client[clients[n]].stage \in {"kept", "closed"}

RegistryInit ==
  /\ servers = [n \in Names |-> 0]
  /\ connected = [s \in Configs |-> FALSE]
  /\ clients = [n \in Names |-> 0]
  /\ client = [c \in MCPClients |-> Unborn]
  /\ closings = [k \in Closers |-> NotClosing]

-----------------------------------------------------------------------------
(* Adding and connecting.                                                  *)

Used(s) == (\E n \in Names : servers[n] = s) \/ (\E c \in MCPClients : client[c].config = s)

\* addServerConfig(): a state object that nothing holds on to is as good as new.
AddServer(n, s) ==
  /\ servers[n] = 0 /\ ~Used(s) /\ \A r \in Configs : r < s => Used(r)
  /\ servers' = [servers EXCEPT ![n] = s]
  /\ connected' = [connected EXCEPT ![s] = FALSE]
  /\ UNCHANGED <<clients, client, closings>>

IsNext(c) == client[c] = Unborn /\ \A d \in MCPClients : d < c => client[d] # Unborn

\* connectServer() up to its first await, by itself or within connectAll().
Connect(n, c) ==
  /\ servers[n] # 0 /\ ~connected[servers[n]] /\ IsNext(c)
  /\ client' = [client EXCEPT ![c] = [stage |-> "connecting", name |-> n,
                                      config |-> servers[n]]]
  /\ UNCHANGED <<servers, connected, clients, closings>>

\* client.connect() is back: the state object is the one found at the start.
Connected(c) ==
  /\ client[c].stage = "connecting"
  /\ connected' = [connected EXCEPT ![client[c].config] = TRUE]
  /\ client' = [client EXCEPT ![c].stage = "listing"]
  /\ UNCHANGED <<servers, clients, closings>>

Listed(c) ==
  /\ client[c].stage = "listing"
  /\ clients' = [clients EXCEPT ![client[c].name] = c]
  /\ client' = [client EXCEPT ![c].stage = "kept"]
  /\ UNCHANGED <<servers, connected, closings>>

\* Nothing is taken back: a client that failed to list leaves its server
\* connected, and its transport open.
ConnectFails(c) ==
  /\ client[c].stage \in {"connecting", "listing"}
  /\ client' = [client EXCEPT ![c] =
       IF @.stage = "listing" THEN [@ EXCEPT !.stage = "unlisted"]
       ELSE [Unborn EXCEPT !.stage = "failed"]]
  /\ UNCHANGED <<servers, connected, clients, closings>>

-----------------------------------------------------------------------------
(* Disconnecting.                                                          *)

\* What disconnectServer() does to the state object, whichever it is by now.
Disconnected(n) ==
  connected' = [s \in Configs |-> connected[s] /\ s # servers[n]]

\* client.disconnect() up to its await: from there no tool can be called.
BeginClose(k, kind, n) ==
  /\ clients[n] # 0 /\ closings[k] = NotClosing
  /\ closings' = [closings EXCEPT ![k] = [kind |-> kind, name |-> n]]
  /\ client' = [client EXCEPT ![clients[n]].stage = "closed"]
  /\ UNCHANGED <<servers, connected, clients>>

\* Without a client there is nothing to wait for.
DisconnectAtOnce(n) ==
  /\ clients[n] = 0 /\ servers[n] # 0
  /\ Disconnected(n)
  /\ UNCHANGED <<servers, clients, client, closings>>

RemoveAtOnce(n) ==
  /\ clients[n] = 0 /\ servers[n] # 0
  /\ servers' = [servers EXCEPT ![n] = 0]
  /\ UNCHANGED <<connected, clients, client, closings>>

RestartAtOnce(k, n) ==
  /\ clients[n] = 0 /\ servers[n] # 0 /\ closings[k] = NotClosing
  /\ Disconnected(n)
  /\ closings' = [closings EXCEPT ![k] = [kind |-> "reconnect", name |-> n]]
  /\ UNCHANGED <<servers, clients, client>>

\* The client under the name goes, which may be a later one than was closed.
Closes(k, kind, n) ==
  /\ closings[k] = [kind |-> kind, name |-> n]
  /\ clients' = [clients EXCEPT ![n] = 0]

\* Mistake: the state object is left as it is.
DisconnectsQuietly(k, n) ==
  /\ Closes(k, "disconnect", n)
  /\ closings' = [closings EXCEPT ![k] = NotClosing]
  /\ UNCHANGED <<servers, connected, client>>

Disconnects(k, n) ==
  /\ Closes(k, "disconnect", n)
  /\ Disconnected(n)
  /\ closings' = [closings EXCEPT ![k] = NotClosing]
  /\ UNCHANGED <<servers, client>>

Removes(k, n) ==
  /\ Closes(k, "remove", n)
  /\ servers' = [servers EXCEPT ![n] = 0]
  /\ closings' = [closings EXCEPT ![k] = NotClosing]
  /\ UNCHANGED <<connected, client>>

\* disconnectServer() for restartServer() or disconnectAll(), which go on later.
DisconnectsFor(k, n, kind, next) ==
  /\ Closes(k, kind, n)
  /\ Disconnected(n)
  /\ closings' = [closings EXCEPT ![k].kind = next]
  /\ UNCHANGED <<servers, client>>

\* restartServer() connects, if the server is still there and nobody else did.
Reconnects(k, n, c) ==
  /\ closings[k] = [kind |-> "reconnect", name |-> n]
  /\ closings' = [closings EXCEPT ![k] = NotClosing]
  /\ IF servers[n] = 0 \/ connected[servers[n]]
       THEN UNCHANGED client
       ELSE IsNext(c) /\ client' = [client EXCEPT ![c] =
              [stage |-> "connecting", name |-> n, config |-> servers[n]]]
  /\ UNCHANGED <<servers, connected, clients>>

\* disconnectAll(): as long as there are clients, those that came meanwhile too.
NextOfAll(k) ==
  /\ closings[k].kind = "next"
  /\ IF \A m \in Names : clients[m] = 0
       THEN closings' = [closings EXCEPT ![k] = NotClosing] /\ UNCHANGED client
       ELSE \E m \in Names :
              /\ clients[m] # 0
              /\ closings' = [closings EXCEPT ![k] = [kind |-> "all", name |-> m]]
              /\ client' = [client EXCEPT ![clients[m]].stage = "closed"]
  /\ UNCHANGED <<servers, connected, clients>>

RegistryNext ==
  \/ \E n \in Names :
       \/ \E s \in Configs : AddServer(n, s)
       \/ DisconnectAtOnce(n) \/ RemoveAtOnce(n)
       \/ \E c \in MCPClients : Connect(n, c)
       \/ \E k \in Closers :
            \/ \E kind \in CloseKinds : BeginClose(k, kind, n)
            \/ Disconnects(k, n) \/ Removes(k, n) \/ RestartAtOnce(k, n)
            \/ DisconnectsFor(k, n, "restart", "reconnect")
            \/ DisconnectsFor(k, n, "all", "next")
            \/ \E c \in MCPClients : Reconnects(k, n, c)
  \/ \E c \in MCPClients : Connected(c) \/ Listed(c) \/ ConnectFails(c)
  \/ \E k \in Closers : NextOfAll(k)

RegistrySpec == RegistryInit /\ [][RegistryNext]_registryVars

-----------------------------------------------------------------------------
(* Properties.                                                             *)

\* callTool() finds a client under the name, and it is initialised.
Callable(n) == clients[n] # 0 /\ client[clients[n]].stage = "kept"

\* However connects, restarts and removals cross, a server shown as connected
\* can be called once nothing is under way for it, unless its listing failed
\* (registry.ts:84-145).
ConnectedIsCallable ==
  \A n \in Names :
    (/\ servers[n] # 0 /\ connected[servers[n]]
     /\ \A c \in MCPClients : client[c].config = servers[n] =>
          client[c].stage \notin {"listing", "unlisted"}
     /\ \A k \in Closers : closings[k].name # n)
    => Callable(n)
===============================================================================
