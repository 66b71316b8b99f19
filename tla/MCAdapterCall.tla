--------------------------- MODULE MCAdapterCall ---------------------------
(* Instances of AdapterCall for TLC. *)
EXTENDS AdapterCall
CONSTANT k1
=============================================================================
