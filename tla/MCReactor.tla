----------------------------- MODULE MCReactor -----------------------------
(***************************************************************************)
(* Two subscribers, one of both groups and one of the second group only,   *)
(* and a sender that subscribes to nothing.                                *)
(***************************************************************************)
EXTENDS Reactor, TLC

CONSTANTS a, b, s, g1, g2

MCSubscribers == (g1 :> {a}) @@ (g2 :> {a, b})
MCSenders == (g1 :> {s}) @@ (g2 :> {s})
MCRange == (g1 :> {0, 1}) @@ (g2 :> {0})
=============================================================================
