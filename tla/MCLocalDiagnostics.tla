------------------------- MODULE MCLocalDiagnostics -------------------------
(* A small instance of LocalDiagnostics: one notice is too long for the     *)
(* ledger, one takes the room of two.                                       *)
EXTENDS LocalDiagnostics, TLC

CONSTANTS n1, n2, n3, n4, p, q, none, aws, slack

MCWeight == n1 :> 1 @@ n2 :> 1 @@ n3 :> 3 @@ n4 :> 4

MCScan == {<<p, {aws, slack}>>, <<p, {aws}>>, <<q, {aws}>>, <<none, {slack}>>}

=============================================================================
