---------------------------- MODULE MCProcedural ----------------------------
(***************************************************************************)
(* Instances of Procedural for TLC.  Pipeline threads are interchangeable. *)
(***************************************************************************)
EXTENDS Procedural, TLC

CONSTANTS tone, persona, w1, w2

TwoDirectives == {tone, persona}
OneDirective == {tone}
TwoIngesters == {w1, w2}
OneIngester == {w1}
Interchangeable == Permutations(TwoIngesters)
=============================================================================
