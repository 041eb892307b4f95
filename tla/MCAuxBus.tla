------------------------------ MODULE MCAuxBus ------------------------------
(***************************************************************************)
(* Instances of AuxBus for TLC.  Host threads are interchangeable.         *)
(***************************************************************************)
EXTENDS AuxBus, TLC

CONSTANTS h1, h2

TwoHosts == {h1, h2}
HostSymmetry == Permutations(TwoHosts)
=============================================================================
