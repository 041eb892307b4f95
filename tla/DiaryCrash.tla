----------------------------- MODULE DiaryCrash -----------------------------
(***************************************************************************)
(* Diary with its transactions made visible.  Every write of store.py and  *)
(* bus.py commits on its own, so a scheduler operation is a series of      *)
(* commits; db.lock hides them from the other threads, but a process that  *)
(* dies inside an operation leaves the tables as its last commit did.      *)
(* Each operator below gives the tables such a death can leave behind.     *)
(***************************************************************************)
EXTENDS Diary

TickCommits(d, t, sid) ==
  LET last == LastSeq(d)
      rolled == Rollover(d, t, sid)
      counted == CountInteraction(rolled, sid)
  IN (IF rolled = d THEN {} ELSE {FinalizeSession(d, last)})
     \cup {rolled, UpsertSession(rolled, sid), counted, Cadence(counted, t, sid)}

ApplySessionCommits(d, j) ==
  LET job == d.jobs[j]
      e == SetSessionSummary(d, job.target, job.body.input, job.body.advance)
  IN {e, [e EXCEPT !.jobs = MarkDone(@, j)]}

\* A bug to check against: the sessions are marked newest first.
ApplySummaryCommitsBackwards(d, j) ==
  LET batch == d.jobs[j].body.items
      e == UpsertSummary(d, d.jobs[j].body.input, batch)
  IN {e} \cup {MarkFolded(e, {i \in batch : i >= n}) : n \in batch}

\* upsert_summary, mark_folded for each session of the batch in order,
\* mark_done.
ApplySummaryCommits(d, j) ==
  LET batch == d.jobs[j].body.items
      e == UpsertSummary(d, d.jobs[j].body.input, batch)
      folded == MarkFolded(e, batch)
  IN {e} \cup {MarkFolded(e, {i \in batch : i <= n}) : n \in batch}
     \cup {[folded EXCEPT !.jobs = MarkDone(@, j)]}

FinalizeCommits(d) ==
  IF LastSeq(d) = 0 THEN {d} ELSE {FinalizeSession(d, LastSeq(d))}

Die(tables) ==
  /\ run < MaxRuns
  /\ db' \in tables
  /\ ingest' = [w \in Ingesters |-> "idle"]
  /\ run' = run + 1
  /\ UNCHANGED turns

DieInTick(w) ==
  ingest[w] \in {"assistant", "failed"} /\ Die(TickCommits(db, turns, run))

DieInSubmit(j) ==
  /\ j \in Pending(db.jobs)
  /\ Die(IF db.jobs[j].kind = "session" THEN ApplySessionCommits(db, j)
         ELSE ApplySummaryCommits(db, j))

DieInClose ==
  /\ \A w \in Ingesters : ingest[w] = "idle"
  /\ Die(FinalizeCommits(db))

CrashNext ==
  \/ Next
  \/ \E w \in Ingesters : DieInTick(w)
  \/ \E j \in DOMAIN db.jobs : DieInSubmit(j)
  \/ DieInClose

CrashSpec == Init /\ [][CrashNext]_vars

(***************************************************************************)
(* Fairness: a host that keeps draining answers, for every (kind, target), *)
(* the job waiting there.  Nothing is assumed of the application: it may   *)
(* stop ingesting, and die as long as the bound on runs allows.            *)
(***************************************************************************)
Answer(kind, target) ==
  \E j \in PendingOne(db.jobs, kind, target) : Submit(j)

HostDrains ==
  /\ WF_vars(Answer("summary", SummaryTarget))
  /\ \A i \in 1..MaxRuns : WF_vars(Answer("session", i))

CrashFairSpec == CrashSpec /\ HostDrains

Folded == {i \in DOMAIN db.sessions : db.sessions[i].folded}

\* Sessions are folded oldest first, whatever commit a run dies after, and the
\* summary never counts fewer sessions than are marked.
CrashFoldedPrefix ==
  /\ \A i, j \in DOMAIN db.sessions : i < j /\ j \in Folded => i \in Folded
  /\ Cardinality(Folded) <= db.persistent.count

\* A fold that is waiting again after a crash names exactly the sessions it
\* named before: the next ones to fold, less those already marked.
CrashFoldBatchIsNext ==
  \A j \in PendingOne(db.jobs, "summary", SummaryTarget) :
    /\ Cardinality(db.jobs[j].body.items) = SessionsPerSummary
    /\ db.jobs[j].body.items \ Folded
         = Oldest(FinalizedUnfolded(db),
                  Cardinality(db.jobs[j].body.items \ Folded))

\* Whatever tables the deaths of earlier runs left, a run that lives on does
\* not keep a full batch of closed sessions once any job waits, its own tick's
\* or one of an earlier run: the host's answers alone lead to the fold, and to
\* the next one.  (With nothing waiting, which a death after mark_done and
\* before the fold's enqueue or the close of a session without turns can leave,
\* the batch is left to the next tick.)
FullBatchFolds ==
  \A r \in 1..MaxRuns :
    (run = r /\ FoldDue(db) /\ Pending(db.jobs) # {})
      ~> (run # r \/ ~FoldDue(db))

\* session_count is the number of sessions folded so far: a drain loop that is
\* run again after a crash ends with the right count.
DrainedCountIsExact ==
  Pending(db.jobs) = {} => db.persistent.count = Cardinality(Folded)
=============================================================================
