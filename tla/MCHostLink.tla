----------------------------- MODULE MCHostLink -----------------------------
(***************************************************************************)
(* Two calls, one of which may find the other's request in its way.        *)
(***************************************************************************)
EXTENDS HostLink

MCCall == {0, 1}
=============================================================================
