------------------------------ MODULE Archive -------------------------------
(***************************************************************************)
(* What the diary promises of its sessions: they are opened one after the  *)
(* other, each closed before the next, and folded into the persistent      *)
(* summary in batches of one size, oldest first, each once and only when   *)
(* closed.                                                                 *)
(***************************************************************************)
EXTENDS Integers, FiniteSets

CONSTANTS BatchSize

VARIABLES
  opened,   (* how many sessions there are                                 *)
  closed,   (* those that are closed                                       *)
  folded    (* those the persistent summary has taken in                   *)

archiveVars == <<opened, closed, folded>>

ArchiveInit == opened = 0 /\ closed = {} /\ folded = {}

OpenNext ==
  /\ opened' = opened + 1
  /\ closed' = 1..opened
  /\ UNCHANGED folded

CloseNewest ==
  /\ closed' = 1..opened
  /\ UNCHANGED <<opened, folded>>

NextBatch == (Cardinality(folded) + 1)..(Cardinality(folded) + BatchSize)

FoldNext ==
  /\ NextBatch \subseteq closed
  /\ folded' = folded \cup NextBatch
  /\ UNCHANGED <<opened, closed>>

ArchiveNext == OpenNext \/ CloseNewest \/ FoldNext

ArchiveSpec == ArchiveInit /\ [][ArchiveNext]_archiveVars
=============================================================================
