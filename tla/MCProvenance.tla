---------------------------- MODULE MCProvenance ----------------------------
(***************************************************************************)
(* Instances of Provenance for TLC: the two backends of the configuration, *)
(* two models of one of them, and a model of another dimension.            *)
(***************************************************************************)
EXTENDS Provenance

ThreeOfADim ==
  {[backend |-> "hashing", model |-> "hashing", dim |-> 2],
   [backend |-> "fastembed", model |-> "base", dim |-> 2],
   [backend |-> "fastembed", model |-> "other", dim |-> 2]}

FourEmbedders ==
  ThreeOfADim \cup {[backend |-> "fastembed", model |-> "small", dim |-> 1]}
=============================================================================
