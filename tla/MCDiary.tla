------------------------------ MODULE MCDiary -------------------------------
(***************************************************************************)
(* Instances of Diary for TLC.                                             *)
(***************************************************************************)
EXTENDS Diary

CONSTANTS w1, w2

OneIngester == {w1}
=============================================================================
