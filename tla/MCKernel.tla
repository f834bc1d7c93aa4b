------------------------------ MODULE MCKernel ------------------------------
(***************************************************************************)
(* Instances of Kernel: the supervisor, a server and its client.           *)
(***************************************************************************)
EXTENDS Kernel

CONSTANTS r1, r2

\* Sends go from less important tasks to more important ones.
MCPriority == [t \in Task |-> t]
MCCallees == [t \in Task |-> 0..(t - 1)]
MCChain == [t \in Task |-> IF t = 0 THEN {} ELSE {t - 1}]

ClientMemory == [r \in Region |-> {2}]
SharedMemory == [r \in Region |-> IF r = r1 THEN {1, 2} ELSE {2}]
=============================================================================
