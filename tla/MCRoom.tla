-------------------------------- MODULE MCRoom --------------------------------
(***************************************************************************)
(* The two parts of a room, its permission stack and its shared document,  *)
(* which do not call each other.  A behaviour is one of either, the other  *)
(* as it began; there the other's fairness asks for nothing, since no      *)
(* timer is armed and no socket open.                                      *)
(***************************************************************************)
EXTENDS MCPermissionGateway, YjsPersistence

VARIABLE part

roomVars == <<part, vars, documentVars>>

RoomInit == Init /\ DocumentInit /\ part \in {"permissions", "document"}

RoomNext ==
  /\ UNCHANGED part
  /\ \/ part = "permissions" /\ Next /\ UNCHANGED documentVars
     \/ part = "document" /\ DocumentNext /\ UNCHANGED vars

RoomSpec == RoomInit /\ [][RoomNext]_roomVars /\ Fairness /\ DocumentFairness
===============================================================================
