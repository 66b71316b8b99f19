-------------------------- MODULE MCRuntimeConfig --------------------------
(***************************************************************************)
(* Two loading threads and two writing processes.                          *)
(***************************************************************************)
EXTENDS RuntimeConfig

CONSTANTS l1, l2, w1, w2

=============================================================================
