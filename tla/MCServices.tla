------------------------------ MODULE MCServices ------------------------------
(***************************************************************************)
(* Ten parts that share no state and do not call each other.  A behaviour *)
(* is one of any of them, the others as they began: side by side they      *)
(* would only multiply.                                                    *)
(***************************************************************************)
EXTENDS ZoneManager, AgentRegistry, DurableQueue, WorkerMessages, McpRegistry,
        ChatAdapters, DependencyResolver, RoomPage, Presence, DesktopKeys, TLC

VARIABLE service

vars == <<zoneVars, agentVars, durableVars, messageVars, registryVars, adapterVars,
          resolverVars, pageVars, presenceVars, keyVars, service>>

Init ==
  /\ ZoneInit /\ AgentInit /\ DurableInit /\ MessageInit /\ RegistryInit
  /\ AdapterInit /\ ResolverInit /\ PageInit /\ PresenceInit
  /\ KeyInit
  /\ service \in {"zones", "agents", "queue", "messages", "mcp", "models", "resolver",
                  "page", "presence", "keys"}
  /\ service # "models" => provider = "openai"
  /\ service # "presence" => kind = "human"

\* A step of the service called name.
Step(name, Action) ==
  /\ service = name /\ UNCHANGED service /\ Action
  /\ name # "zones" => UNCHANGED zoneVars
  /\ name # "agents" => UNCHANGED agentVars
  /\ name # "queue" => UNCHANGED durableVars
  /\ name # "messages" => UNCHANGED messageVars
  /\ name # "mcp" => UNCHANGED registryVars
  /\ name # "models" => UNCHANGED adapterVars
  /\ name # "resolver" => UNCHANGED resolverVars
  /\ name # "page" => UNCHANGED pageVars
  /\ name # "presence" => UNCHANGED presenceVars
  /\ name # "keys" => UNCHANGED keyVars

Next ==
  \/ Step("zones", ZoneNext) \/ Step("agents", AgentNext) \/ Step("queue", DurableNext)
  \/ Step("messages", MessageNext) \/ Step("mcp", RegistryNext)
  \/ Step("models", AdapterNext) \/ Step("resolver", ResolverNext)
  \/ Step("page", PageNext) \/ Step("presence", PresenceNext)
  \/ Step("keys", KeyNext)

Spec == Init /\ [][Next]_vars

TypeOK ==
  /\ ZoneTypeOK /\ AgentTypeOK /\ DurableTypeOK /\ MessageTypeOK /\ RegistryTypeOK
  /\ AdapterTypeOK /\ ResolverTypeOK /\ PageTypeOK /\ PresenceTypeOK
  /\ KeyTypeOK

\* Regions one inside another, side by side, and across.
TheRegions == {[start |-> 1, end |-> 3], [start |-> 2, end |-> 5], [start |-> 3, end |-> 4]}

TheRoles == [w \in Workers |-> IF w = CHOOSE v \in Workers : TRUE THEN "backend" ELSE "frontend"]

Symmetric == Permutations(Tasks)
===============================================================================
