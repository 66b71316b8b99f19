--------------------------- MODULE MCMarkerStore ---------------------------
(***************************************************************************)
(* A store of two markers, three keys, a life of two seconds: a full store *)
(* and a second overflow while the first one's circuit is open.            *)
(***************************************************************************)
EXTENDS MarkerStore, TLC

CONSTANTS k1, k2, k3

MCKey == {k1, k2, k3}

Symmetry == Permutations(MCKey)

=============================================================================
