---------------------------- MODULE MCSupervisor ----------------------------
(***************************************************************************)
(* Instances of Supervisor: the supervisor, the hibernation module and a   *)
(* client.                                                                 *)
(***************************************************************************)
EXTENDS Supervisor

CONSTANT r1

MCPriority == [t \in Task |-> t]
MCCallees == [t \in Task |-> 0..(t - 1)]
NoOverlap == [r \in Region |-> {}]
ClientMemory == [r \in Region |-> {2}]
=============================================================================
