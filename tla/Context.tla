------------------------------ MODULE Context -------------------------------
(***************************************************************************)
(* An assemble beside the diary: core/context.py and diary/provider.py.    *)
(*                                                                         *)
(* ContextAssembler.assemble reads the recent dialogue, the current        *)
(* session's summary, the summaries of the previous sessions and the       *)
(* persistent summary one after the other, on the caller's thread and      *)
(* without db.lock.  Pipeline threads and drains go on between two reads,  *)
(* and since the reads share the writers' connection a read can also see   *)
(* an operation that has done only some of its commits.                    *)
(*                                                                         *)
(* The host is diligent: the outbox is empty before every tick, and runs   *)
(* end with close().                                                       *)
(***************************************************************************)
EXTENDS DiaryCrash

CONSTANTS RecentRows   (* episodic_recent_turns: rows of recent dialogue   *)

ASSUME RecentRowsAssumption == RecentRows \in Nat

VARIABLES asm   (* the assemble under way                                  *)

contextVars == <<vars, asm>>

(***************************************************************************)
(* The reads.                                                              *)
(***************************************************************************)
\* Bugs to check against: the summaries are read before the dialogue; the
\* current session's summary is read last.
DialogueLast == <<"current", "previous", "persistent", "recent">>

ReadOrder == <<"recent", "current", "previous", "persistent">>

\* A bug to check against: ids are counted from zero.
RecentFromZero(t) == (Len(t) - RecentRows)..Len(t)

\* _recent_dialogue: the newest rows, of whatever session.
RecentDialogue(t) == NewestK(DOMAIN t, RecentRows)

Summaries(d, which) == UNION {d.sessions[i].summary : i \in which}

\* previous_finalized_sessions: all qualify while sid has no row.
PreviousFinalized(d, sid) ==
  NewestK({i \in DOMAIN d.sessions :
             /\ d.sessions[i].finalized /\ d.sessions[i].summary # {}
             /\ \A current \in SeqOf(d, sid) : i < current},
          InjectSessions)

\* What a section of the context tells its reader of, read from tables d.
Section(name, d, t, sid) ==
  CASE name = "recent" -> RecentDialogue(t)
    [] name = "current" -> Summaries(d, SeqOf(d, sid))
    [] name = "previous" -> Summaries(d, PreviousFinalized(d, sid))
    [] name = "persistent" -> d.persistent.summary

\* The tables a reader without the lock may meet: between two operations, or
\* between two commits of one that could be under way.
Visible ==
  {db}
  \cup (UNION {TickCommits(db, turns, run) :
                 w \in {v \in Ingesters : ingest[v] = "assistant"}})
  \cup (UNION {IF db.jobs[j].kind = "session" THEN ApplySessionCommits(db, j)
               ELSE ApplySummaryCommits(db, j) : j \in Pending(db.jobs)})

(***************************************************************************)
(* The assemble: how many sections it has read, the turns they tell of,    *)
(* and, for the property below, the turns it owes its reader.              *)
(***************************************************************************)
NoAssemble == [read |-> 0, shown |-> {}, owed |-> {}]

ContextTypeOK ==
  asm \in [read: 0..Len(ReadOrder), shown: SUBSET DOMAIN turns,
           owed: SUBSET DOMAIN turns]

\* The turns of the current session, and of the closed ones.
Remembered ==
  {n \in DOMAIN turns :
     \/ turns[n].session = run
     \/ \E i \in SeqOf(db, turns[n].session) : db.sessions[i].finalized}

AssembleBegin ==
  /\ asm.read \in {0, Len(ReadOrder)}
  /\ \E d \in Visible :
       asm' = [read |-> 1, shown |-> Section(ReadOrder[1], d, turns, run),
               owed |-> IF Pending(db.jobs) = {} THEN Remembered ELSE {}]
  /\ UNCHANGED vars

AssembleRead ==
  /\ asm.read \in 1..(Len(ReadOrder) - 1)
  /\ \E d \in Visible :
       asm' = [asm EXCEPT !.read = @ + 1,
                 !.shown = @ \cup Section(ReadOrder[asm.read + 1], d, turns, run)]
  /\ UNCHANGED vars

\* The end of a run is the end of its assembles.
ContextNext ==
  \/ DiligentNext /\ asm' = IF run' = run THEN asm ELSE NoAssemble
  \/ AssembleBegin
  \/ AssembleRead

ContextSpec ==
  Init /\ asm = NoAssemble /\ [][ContextNext]_contextVars

(***************************************************************************)
(* Properties.                                                             *)
(***************************************************************************)

\* No turn falls between the sections: an assemble that began with an empty
\* outbox tells its reader of every turn of a closed session and of the
\* current one that existed when it began, although ticks and answers move the
\* turns from one section to the next while it reads.  This takes room for
\* SessionsPerSummary - 1 injected sessions, and for the rows of UpdateEvery
\* interactions in the recent dialogue.
ContextIsComplete ==
  /\ asm.read = Len(ReadOrder)
  /\ InjectSessions >= SessionsPerSummary - 1
  /\ RecentRows >= RowsPerTurn * UpdateEvery
  => asm.owed \subseteq asm.shown
=============================================================================
