----------------------------- MODULE MCTransfer -----------------------------
(***************************************************************************)
(* A call that moves three handles.                                        *)
(***************************************************************************)
EXTENDS Transfer
=============================================================================
