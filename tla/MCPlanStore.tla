---------------------------- MODULE MCPlanStore ----------------------------
(***************************************************************************)
(* A store of two plans, three keys, two calls that are analysed at once.  *)
(***************************************************************************)
EXTENDS PlanStore, TLC

CONSTANTS k1, k2, k3, c1, w1, w2

MCKey     == {k1, k2, k3}
MCCall    == {c1}
MCCreator == {w1, w2}
\* No timeout, half a second, and one above the ceiling of one second.
MCTimeout == {0, 1, 4}

Symmetry == Permutations(MCKey) \cup Permutations(MCCreator)

=============================================================================
