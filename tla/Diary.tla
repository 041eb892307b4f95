------------------------------- MODULE Diary --------------------------------
(***************************************************************************)
(* The hierarchical diary: layers/diary/scheduler.py and store.py over the *)
(* job table of core/auxbus/bus.py and the turns of layers/episodic.       *)
(*                                                                         *)
(* Nexus never calls a language model.  Each ingested interaction ticks    *)
(* the scheduler, which leaves jobs in an outbox; the host answers a job   *)
(* when it likes and submits the text.  The host here is the ideal         *)
(* summariser: its text reflects exactly the turns that reach it through   *)
(* the job, so whatever is missing from a summary was lost by the diary.   *)
(* A summary is therefore the set of turn ids it reflects.                 *)
(*                                                                         *)
(* A session is one process run, identified by run.  A session row is      *)
(* identified by its seq, which store.py hands out as max(seq) + 1: its    *)
(* position in db.sessions.                                                *)
(***************************************************************************)
EXTENDS JobTable, FiniteSetsExt

CONSTANTS
  UpdateEvery,         (* N: interactions between rolling session jobs     *)
  DiaryWindow,         (* turns re-sent in each session job                *)
  SessionsPerSummary,  (* sessions folded into the summary at a time       *)
  InjectSessions,      (* K: previous sessions an assembled context shows  *)
  Ingesters,           (* pipeline threads that may run at once            *)
  MaxTurns,            (* bound: rows of episodic_turns                    *)
  MaxLacking,          (* bound: sessions that lack rows of their turns    *)
  MaxRuns              (* bound: process runs                              *)

ASSUME DiaryConfigAssumption ==
  /\ UpdateEvery \in Nat \ {0}
  /\ DiaryWindow \in Nat \ {0}
  /\ SessionsPerSummary \in Nat \ {0}
  /\ InjectSessions \in 0..6
ASSUME BoundsAssumption ==
  MaxTurns \in Nat /\ MaxLacking \in Nat /\ MaxRuns \in Nat \ {0}

VARIABLES
  turns,   (* episodic_turns; the position is the AUTOINCREMENT id         *)
  ingest,  (* how far each pipeline thread got with its interaction        *)
  run,     (* the live process run: its session_id                         *)
  db       (* diary_sessions, persistent_summary and summarization_jobs    *)

vars == <<turns, ingest, run, db>>

RowsPerTurn == 2
SummaryTarget == 0   \* the code's "1"; session targets are seqs, from 1

\* A pipeline thread's episodic consolidator has logged nothing yet, the user's
\* row, or both; or it raised, and the interaction goes on without the rest.
Stages == {"idle", "user", "assistant", "failed"}

Turn == [session: Nat, role: {"user", "assistant"}]
TurnIds == SUBSET Nat
Session == [sid: Nat, summary: TurnIds, covered: Nat, count: Nat,
            finalized: BOOLEAN, folded: BOOLEAN]
Persistent == [summary: TurnIds, count: Nat, first: Nat, last: Nat]
\* items: the turns, or the sessions, the job is about; input: the turns its
\* prior_summary and items let a summariser know of; advance: advance_to.
Body == [items: SUBSET Nat, input: TurnIds, advance: Nat]

TypeOK ==
  /\ turns \in Seq(Turn)
  /\ ingest \in [Ingesters -> Stages]
  /\ run \in Nat
  /\ db \in [sessions: Seq(Session), persistent: Persistent,
             jobs: Seq(Job({"session", "summary"}, Nat, Body))]

(***************************************************************************)
(* store.py: reads.                                                        *)
(***************************************************************************)
\* max_seq_session, 0 when there is no row.
LastSeq(d) == Len(d.sessions)

\* get_session: the rows of a session id (at most one).
SeqOf(d, sid) == {i \in DOMAIN d.sessions : d.sessions[i].sid = sid}

\* A bug to check against: sessions that are still open are among them.
Unfolded(d) == {i \in DOMAIN d.sessions : ~d.sessions[i].folded}

FinalizedUnfolded(d) ==
  {i \in DOMAIN d.sessions : d.sessions[i].finalized /\ ~d.sessions[i].folded}

\* The k smallest members of S.
Oldest(S, k) == {i \in S : Cardinality({j \in S : j < i}) < k}

NewestK(S, k) == {i \in S : Cardinality({j \in S : i < j}) < k}

(***************************************************************************)
(* store.py: writes, each one commit.                                      *)
(***************************************************************************)
NewSession(sid) ==
  [sid |-> sid, summary |-> {}, covered |-> 0, count |-> 0,
   finalized |-> FALSE, folded |-> FALSE]

UpsertSession(d, sid) ==
  IF SeqOf(d, sid) # {} THEN d
  ELSE [d EXCEPT !.sessions = Append(@, NewSession(sid))]

\* A bug to check against: the count goes the wrong way.
BumpDown(d, i) == [d EXCEPT !.sessions[i].count = @ - 1]

BumpInteraction(d, i) == [d EXCEPT !.sessions[i].count = @ + 1]

FinalizeSession(d, i) == [d EXCEPT !.sessions[i].finalized = TRUE]

SetSessionSummary(d, i, text, through) ==
  [d EXCEPT !.sessions[i].summary = text, !.sessions[i].covered = through]

\* A bug to check against: only the oldest session of the batch is marked.
MarkFirstFolded(d, batch) ==
  [d EXCEPT !.sessions =
     [i \in DOMAIN @ |-> IF i = Min(batch) THEN [@[i] EXCEPT !.folded = TRUE]
                         ELSE @[i]]]

MarkFolded(d, batch) ==
  [d EXCEPT !.sessions =
     [i \in DOMAIN @ |-> IF i \in batch THEN [@[i] EXCEPT !.folded = TRUE]
                         ELSE @[i]]]

\* Returns early when nothing is folded; first_session is set once.
UpsertSummary(d, text, batch) ==
  IF batch = {} THEN d
  ELSE [d EXCEPT !.persistent =
          [summary |-> text,
           count |-> @.count + Cardinality(batch),
           first |-> IF @.count = 0 THEN Min(batch) ELSE @.first,
           last |-> Max(batch)]]

(***************************************************************************)
(* scheduler.py.                                                           *)
(***************************************************************************)
OwnTurns(t, sid) == {n \in DOMAIN t : t[n].session = sid}

\* _recent_turns: from whichever is older, the first turn after the last
\* applied job or DiaryWindow turns back, up to the newest; a leading
\* assistant row is dropped (B7).
\* A bug to check against: only the last DiaryWindow turns are sent.
FloorOnly(covered, floor) == floor

Lower(covered, floor) == IF covered + 1 < floor THEN covered + 1 ELSE floor

RecentTurns(t, sid, covered) ==
  LET own == OwnTurns(t, sid)
      floor == Max(own) - DiaryWindow * RowsPerTurn + 1
      window == {n \in own : n >= Lower(covered, floor)}
  IN IF own = {} THEN {}
     ELSE IF t[Min(window)].role = "assistant" THEN window \ {Min(window)}
     ELSE window

\* A bug to check against: force is not honoured.
SkippedThoughForced(row, window, force) ==
  window = {} \/ Max(window) = row.covered

\* Nothing to send, or nothing new since the last applied job: the empty-tick
\* guard, which rollover and finalize override.
Skipped(row, window, force) ==
  window = {} \/ (~force /\ Max(window) = row.covered)

\* A bug to check against: the prior summary is not sent along.
WindowOnlyBody(row, window) ==
  [items |-> window, input |-> window, advance |-> Max(window)]

SessionBody(row, window) ==
  [items |-> window, input |-> row.summary \cup window, advance |-> Max(window)]

\* _enqueue_session.
EnqueueSession(d, t, i, force) ==
  LET row == d.sessions[i]
      window == RecentTurns(t, row.sid, row.covered)
  IN IF Skipped(row, window, force) THEN d
     ELSE [d EXCEPT !.jobs =
             EnqueueJob(@, "session", i, SessionBody(row, window))]

\* A bug to check against: the batch is every closed session.
FoldEverything(d) == FinalizedUnfolded(d)

FoldBatch(d) == Oldest(FinalizedUnfolded(d), SessionsPerSummary)

FoldDue(d) == Cardinality(FinalizedUnfolded(d)) >= SessionsPerSummary

\* A bug to check against: the summary is not part of what is extended.
FoldInputBatchOnly(d) == UNION {d.sessions[i].summary : i \in FoldBatch(d)}

\* What a fold job tells a summariser: the persistent summary and the batch's
\* session summaries, both as they are when the job is enqueued.
FoldInput(d) ==
  d.persistent.summary \cup UNION {d.sessions[i].summary : i \in FoldBatch(d)}

\* _enqueue_summary, and the check for a full batch its callers make.
EnqueueSummary(d) ==
  IF PendingOne(d.jobs, "summary", SummaryTarget) # {} \/ ~FoldDue(d) THEN d
  ELSE [d EXCEPT !.jobs = EnqueueJob(@, "summary", SummaryTarget,
          [items |-> FoldBatch(d), input |-> FoldInput(d), advance |-> 0])]

\* Bugs to check against: the last session gets its job but stays open; it is
\* closed but gets no job.
RolloverUnfinished(d, t, sid) ==
  LET last == LastSeq(d) IN
  IF last = 0 \/ d.sessions[last].sid = sid \/ d.sessions[last].finalized
  THEN d
  ELSE EnqueueSession(d, t, last, TRUE)

RolloverSilent(d, t, sid) ==
  LET last == LastSeq(d) IN
  IF last = 0 \/ d.sessions[last].sid = sid \/ d.sessions[last].finalized
  THEN d
  ELSE FinalizeSession(d, last)

\* on_interaction, step 1: a new session id closes the last session.
Rollover(d, t, sid) ==
  LET last == LastSeq(d) IN
  IF last = 0 \/ d.sessions[last].sid = sid \/ d.sessions[last].finalized
  THEN d
  ELSE EnqueueSession(FinalizeSession(d, last), t, last, TRUE)

\* Step 2: the current session's row, and its interaction counted.
CountInteraction(d, sid) ==
  LET e == UpsertSession(d, sid)
  IN BumpInteraction(e, CHOOSE i \in SeqOf(e, sid) : TRUE)

\* Step 3: every UpdateEvery interactions, a rolling job.
Cadence(d, t, sid) ==
  LET i == CHOOSE n \in SeqOf(d, sid) : TRUE IN
  IF d.sessions[i].count % UpdateEvery = 0 THEN EnqueueSession(d, t, i, FALSE)
  ELSE d

\* on_interaction: the whole tick, under db.lock; step 4 is the fold trigger.
OnInteraction(d, t, sid) ==
  EnqueueSummary(Cadence(CountInteraction(Rollover(d, t, sid), sid), t, sid))

\* Bugs to check against: an applied answer does not look at the fold trigger.
ApplySessionQuietly(d, j) ==
  LET job == d.jobs[j]
      e == SetSessionSummary(d, job.target, job.body.input, job.body.advance)
  IN [e EXCEPT !.jobs = MarkDone(@, j)]

ApplySummaryQuietly(d, j) ==
  LET job == d.jobs[j]
      e == MarkFolded(UpsertSummary(d, job.body.input, job.body.items),
                      job.body.items)
  IN [e EXCEPT !.jobs = MarkDone(@, j)]

\* _apply_session and _apply_summary, with the text of the ideal summariser.
ApplySession(d, j) ==
  LET job == d.jobs[j]
      e == SetSessionSummary(d, job.target, job.body.input, job.body.advance)
  IN EnqueueSummary([e EXCEPT !.jobs = MarkDone(@, j)])

ApplySummary(d, j) ==
  LET job == d.jobs[j]
      e == MarkFolded(UpsertSummary(d, job.body.input, job.body.items),
                      job.body.items)
  IN EnqueueSummary([e EXCEPT !.jobs = MarkDone(@, j)])

\* A bug to check against: the fold trigger is looked at while the closed
\* session's last job still waits.
FinalizeLastAndFold(d, t) ==
  LET last == LastSeq(d) IN
  IF last = 0 THEN d
  ELSE EnqueueSummary(EnqueueSession(FinalizeSession(d, last), t, last, TRUE))

\* finalize: closes the newest session, whichever run it belongs to, and
\* forces its job even if it was closed before.
FinalizeLast(d, t) ==
  LET last == LastSeq(d) IN
  IF last = 0 THEN d
  ELSE EnqueueSession(FinalizeSession(d, last), t, last, TRUE)

(***************************************************************************)
(* The process.  A pipeline thread logs the user row, then the assistant   *)
(* row (two transactions, episodic.log_interaction), then ticks the diary, *)
(* which it does too when the logging raised: each consolidator's errors   *)
(* are its own (writer._run_consolidators).                                *)
(***************************************************************************)
Init ==
  /\ turns = << >>
  /\ ingest = [w \in Ingesters |-> "idle"]
  /\ run = 1
  /\ db = [sessions |-> << >>,
           persistent |-> [summary |-> {}, count |-> 0, first |-> 0, last |-> 0],
           jobs |-> << >>]

LogTurn(w, role) ==
  /\ turns' = Append(turns, [session |-> run, role |-> role])
  /\ ingest' = [ingest EXCEPT ![w] = role]
  /\ UNCHANGED <<run, db>>

LogUser(w) == ingest[w] = "idle" /\ Len(turns) + 1 < MaxTurns /\ LogTurn(w, "user")

LogAssistant(w) ==
  ingest[w] = "user" /\ Len(turns) < MaxTurns /\ LogTurn(w, "assistant")

\* The bound MaxLacking: that many sessions may have fewer rows than their
\* interactions would have logged.
RoomToFail ==
  Cardinality({i \in DOMAIN db.sessions :
                 Cardinality(OwnTurns(turns, db.sessions[i].sid))
                   < RowsPerTurn * db.sessions[i].count}) < MaxLacking

\* log_turn raises, for the first row or for the second.
EpisodicFails(w) ==
  /\ ingest[w] \in {"idle", "user"}
  /\ RoomToFail
  /\ ingest' = [ingest EXCEPT ![w] = "failed"]
  /\ UNCHANGED <<turns, run, db>>

Tick(w) ==
  /\ ingest[w] \in {"assistant", "failed"}
  /\ db' = OnInteraction(db, turns, run)
  /\ ingest' = [ingest EXCEPT ![w] = "idle"]
  /\ UNCHANGED <<turns, run>>

\* The host submits an answer for any job it was ever handed.  An answer to a
\* job that is no longer pending changes nothing.
Submit(j) ==
  /\ j \in DOMAIN db.jobs
  /\ db' = IF j \notin Pending(db.jobs) THEN db
           ELSE IF db.jobs[j].kind = "session" THEN ApplySession(db, j)
           ELSE ApplySummary(db, j)
  /\ UNCHANGED <<turns, ingest, run>>

\* close(), which joins the pipeline threads first, and the next run's open.
Reopen ==
  /\ run < MaxRuns
  /\ \A w \in Ingesters : ingest[w] = "idle"
  /\ db' = FinalizeLast(db, turns)
  /\ run' = run + 1
  /\ UNCHANGED <<turns, ingest>>

\* The process dies, but not inside a scheduler operation, and the next run
\* opens.  DiaryCrash adds the deaths between an operation's commits.
Crash ==
  /\ run < MaxRuns
  /\ ingest' = [w \in Ingesters |-> "idle"]
  /\ run' = run + 1
  /\ UNCHANGED <<turns, db>>

Next ==
  \/ \E w \in Ingesters :
       LogUser(w) \/ LogAssistant(w) \/ EpisodicFails(w) \/ Tick(w)
  \/ \E j \in DOMAIN db.jobs : Submit(j)
  \/ Reopen
  \/ Crash

Spec == Init /\ [][Next]_vars

\* Runs that log what they tick and always end with close(), and a host that
\* answers when it likes.
ClosingNext ==
  \/ \E w \in Ingesters : LogUser(w) \/ LogAssistant(w) \/ Tick(w)
  \/ \E j \in DOMAIN db.jobs : Submit(j)
  \/ Reopen

LaggingSpec == Init /\ [][ClosingNext]_vars

\* A host that empties the outbox before every tick: only a tick counts an
\* interaction.
DiligentNext ==
  /\ ClosingNext
  /\ (\E w \in Ingesters : ingest[w] = "assistant" /\ ingest'[w] = "idle")
       => Pending(db.jobs) = {}

(***************************************************************************)
(* Properties.                                                             *)
(***************************************************************************)

\* Every session but the newest is closed, so a run that died without close()
\* is closed by the first tick of the next run that ingests.
OnlyNewestIsOpen ==
  \A i \in DOMAIN db.sessions : i < LastSeq(db) => db.sessions[i].finalized

\* The persistent summary's session_count counts exactly the folded sessions,
\* and these are the oldest: no session is folded twice, skipped, or folded
\* before an older one, whatever the order of answers.
FoldedPrefix ==
  \A i \in DOMAIN db.sessions :
    db.sessions[i].folded <=> i <= db.persistent.count

\* The sessions named by a waiting fold job are closed and are exactly the
\* next SessionsPerSummary to fold.
FoldBatchIsNext ==
  \A j \in PendingOne(db.jobs, "summary", SummaryTarget) :
    /\ db.jobs[j].body.items =
         (db.persistent.count + 1)..(db.persistent.count + SessionsPerSummary)
    /\ \A i \in db.jobs[j].body.items :
         i \in DOMAIN db.sessions /\ db.sessions[i].finalized

\* covered_through is a high-water mark and no answer, however late, makes a
\* session summary forget a turn it reflected.
SessionsOnlyGrow ==
  [][\A i \in DOMAIN db.sessions :
       /\ db.sessions[i].covered <= db'.sessions[i].covered
       /\ db.sessions[i].summary \subseteq db'.sessions[i].summary]_vars

\* No fold makes the persistent summary forget what it reflected.
PersistentOnlyGrows ==
  [][db.persistent.summary \subseteq db'.persistent.summary]_vars

\* Completeness of the overlapping window: every turn of a session up to its
\* covered_through is reflected in its summary.
CoveredIsSummarized ==
  \A i \in DOMAIN db.sessions : \A n \in OwnTurns(turns, db.sessions[i].sid) :
    n <= db.sessions[i].covered => n \in db.sessions[i].summary

\* Once the outbox is empty every turn of a closed session is reflected in its
\* summary: neither close() nor a rollover strands the tail of a session.
DrainedSessionIsComplete ==
  Pending(db.jobs) = {} =>
    \A i \in DOMAIN db.sessions :
      db.sessions[i].finalized =>
        OwnTurns(turns, db.sessions[i].sid) \subseteq db.sessions[i].summary

\* Once the outbox is empty no full batch is left unfolded, also when close()
\* completed it, which does not look at the fold trigger: its forced job's
\* answer does.  Only a session without a turn gets no job, so a batch that
\* such a session completed is left to the next tick.
DrainedBatchIsFolded ==
  Pending(db.jobs) = {} /\ FoldDue(db) =>
    OwnTurns(turns, db.sessions[LastSeq(db)].sid) = {}

\* Once the outbox is empty the diary has caught up: what a folded session's
\* summary reflects, the persistent summary reflects.
DrainedFoldLosesNothing ==
  Pending(db.jobs) = {} =>
    \A i \in DOMAIN db.sessions :
      db.sessions[i].folded =>
        db.sessions[i].summary \subseteq db.persistent.summary

Sessions == INSTANCE Archive WITH
  BatchSize <- SessionsPerSummary,
  opened <- LastSeq(db),
  closed <- {i \in DOMAIN db.sessions : db.sessions[i].finalized},
  folded <- {i \in DOMAIN db.sessions : db.sessions[i].folded}

\* Seen through that mapping, every step of the diary is one of Archive: ticks
\* open and close sessions in order, and answers, whatever their order, fold
\* only the next batch, whole.
ImplementsArchive == Sessions!ArchiveSpec
=============================================================================
