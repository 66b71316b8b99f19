-------------------------- MODULE MCReferenceCall --------------------------
(***************************************************************************)
(* Small instances of ReferenceCall.                                       *)
(***************************************************************************)
EXTENDS ReferenceCall, TLC

CONSTANTS k1, k2, w1, w2, a1, a2

MCCall == [args : Args, config : Version]

\* Two calls that are under way take the same path: it bounds the run.
OnePath ==
    \A v, w \in Worker : call[v] # NoCall /\ call[w] # NoCall => call[v].host = call[w].host

Symmetry == Permutations(Key) \cup Permutations(Creator) \cup Permutations(Args)

=============================================================================
