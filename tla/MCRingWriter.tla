---------------------------- MODULE MCRingWriter ----------------------------
(* A partition of two sectors of two pages each. *)
EXTENDS RingWriter
=============================================================================
