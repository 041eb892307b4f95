----------------------------- MODULE MCContext ------------------------------
(***************************************************************************)
(* Instances of Context for TLC.                                           *)
(***************************************************************************)
EXTENDS Context

CONSTANTS w1

OneIngester == {w1}
=============================================================================
