--------------------------- MODULE MCTinyRISCV64 ---------------------------
(* Instances of TinyRISCV64 for TLC. *)
EXTENDS TinyRISCV64
=============================================================================
