------------------------------- MODULE Mailbox ------------------------------
(***************************************************************************)
(* What the auxiliary bus promises a job kind, without its table: for each *)
(* key there is one slot, a newer job replaces the waiting one, and only a *)
(* job that is in its slot can be taken, which empties the slot.  A job is *)
(* therefore taken at most once, and never after a newer one replaced it.  *)
(***************************************************************************)
EXTENDS Integers

CONSTANT Keys

VARIABLES
  posted,  (* jobs posted so far; a job is its number                      *)
  slot,    (* the waiting job of each key, 0 when there is none            *)
  taken    (* jobs whose answer has been applied                           *)

mailVars == <<posted, slot, taken>>

MailInit ==
  /\ posted = 0
  /\ slot = [k \in Keys |-> 0]
  /\ taken = {}

Post(k) ==
  /\ posted' = posted + 1
  /\ slot' = [slot EXCEPT ![k] = posted + 1]
  /\ UNCHANGED taken

Take(k) ==
  /\ slot[k] # 0
  /\ taken' = taken \cup {slot[k]}
  /\ slot' = [slot EXCEPT ![k] = 0]
  /\ UNCHANGED posted

MailNext == \E k \in Keys : Post(k) \/ Take(k)

MailSpec == MailInit /\ [][MailNext]_mailVars
=============================================================================
