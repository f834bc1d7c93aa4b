------------------------------ MODULE MCArena ------------------------------
(* A small arena for two clients, the second of higher priority. *)
EXTENDS Arena, TLC

CONSTANTS low, high

MCTask == {low, high}
MCPriority == (low :> 0) @@ (high :> 1)
=============================================================================
