--------------------------- MODULE MCFlashUpdate ---------------------------
(***************************************************************************)
(* Partitions of two chunks: an image fills one or leaves room at its end. *)
(***************************************************************************)
EXTENDS FlashUpdate
=============================================================================
