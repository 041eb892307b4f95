---------------------------- MODULE MCDiaryCrash ----------------------------
(***************************************************************************)
(* Instances of DiaryCrash for TLC.                                        *)
(***************************************************************************)
EXTENDS DiaryCrash

CONSTANTS w1, w2

OneIngester == {w1}
TwoIngesters == {w1, w2}
=============================================================================
