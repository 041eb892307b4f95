-------------------------- MODULE DiaryCrashProofs --------------------------
(***************************************************************************)
(* Proofs about the diary whose transactions are visible: what survives a  *)
(* process that dies after any commit of any operation.                    *)
(*                                                                         *)
(* The invariant is that of DiaryProofs with its two equalities loosened.  *)
(* The folded sessions are still the oldest, but the summary may count     *)
(* more of them than are marked, because it is written first and written   *)
(* again when the job is answered a second time; and a fold that waits     *)
(* again may be about a batch of which the first sessions are marked.      *)
(*                                                                         *)
(* The second half proves that an assemble which reads between those       *)
(* commits leaves out no turn (Context), when nothing dies and every       *)
(* interaction is logged.                                                  *)
(***************************************************************************)
EXTENDS Context, DiaryProofs

CrashOk(d, t) == \E f \in 0..d.persistent.count : Good(d, t, 0, f)

CrashInv ==
  /\ turns \in Seq(Turn)
  /\ ingest \in [Ingesters -> Stages]
  /\ run \in Nat
  /\ CrashOk(db, turns)

(***************************************************************************)
(* The tables each operation can leave behind.                             *)
(***************************************************************************)

\* What a death among the commits of a tick, of an answered session job or
\* of close() leaves: good tables, with the sessions folded that were.
Survives(d, t, f, e) ==
  /\ Good(e, t, 0, f)
  /\ Grows(d, e)
  /\ e.persistent = d.persistent

\* The summary has a count.
LEMMA CountIsNat ==
  ASSUME NEW d \in DbType
  PROVE  d.persistent.count \in Nat
  BY DbFields DEF Persistent

\* Tables survive in themselves.
LEMMA SurvivesSame ==
  ASSUME NEW t, NEW d, NEW f, Good(d, t, 0, f)
  PROVE  Survives(d, t, f, d)
<1>1. d \in DbType
  BY DEF Good
<1> QED
  BY <1>1, GrowsSame DEF Survives

\* Surviving twice is surviving.
LEMMA SurvivesTwice ==
  ASSUME NEW t, NEW d, NEW f, NEW e, NEW g, Good(d, t, 0, f),
         Survives(d, t, f, e), Survives(e, t, f, g)
  PROVE  Survives(d, t, f, g)
<1>1. d \in DbType /\ e \in DbType /\ g \in DbType
  BY DEF Good, Survives
<1> QED
  BY <1>1, GrowsTransitive DEF Survives

\* finalize_session survives.
LEMMA FinalizeSurvives ==
  ASSUME NEW t, NEW d, NEW f, Good(d, t, 0, f), NEW i \in DOMAIN d.sessions
  PROVE  Survives(d, t, f, FinalizeSession(d, i))
<1> DEFINE e == FinalizeSession(d, i)
<1>1. CountsOrCloses(d, e)
  BY FinalizeGood
<1> HIDE DEF e
<1>2. Good(e, t, 0, f) /\ Grows(d, e)
  BY <1>1, CountsOrClosesGood
<1>3. e.persistent = d.persistent
  BY <1>1 DEF CountsOrCloses
<1>4. Survives(d, t, f, e)
  BY <1>2, <1>3 DEF Survives
<1> QED
  BY <1>4 DEF e

\* on_interaction: the row closed, its forced job, the new row, its count,
\* the rolling job.
LEMMA TickCommitsSurvive ==
  ASSUME NEW t \in Seq(Turn), NEW d, NEW f, Good(d, t, 0, f),
         NEW sid \in Nat, NEW e \in TickCommits(d, t, sid)
  PROVE  Survives(d, t, f, e)
<1> DEFINE last == LastSeq(d)
           rolled == Rollover(d, t, sid)
           opened == UpsertSession(rolled, sid)
           counted == CountInteraction(rolled, sid)
           rolling == Cadence(counted, t, sid)
<1>1. \/ rolled # d /\ e = FinalizeSession(d, last)
      \/ e = rolled \/ e = opened \/ e = counted \/ e = rolling
  BY DEF TickCommits
<1>2. /\ Good(rolled, t, 0, f) /\ Grows(d, rolled)
      /\ rolled.persistent = d.persistent
      /\ MayOpen(rolled, sid)
  BY RolloverGood
<1>3. rolled # d => last \in DOMAIN d.sessions
  <2>1. rolled # d => last # 0
    BY DEF Rollover
  <2>2. last = Len(d.sessions) /\ Len(d.sessions) \in Nat
        /\ DOMAIN d.sessions = 1..Len(d.sessions)
    BY DbFields DEF Good, LastSeq
  <2> QED
    BY <2>1, <2>2
<1>4. Survives(d, t, f, rolled)
  BY <1>2 DEF Survives
<1> HIDE DEF rolled, last
<1>5. Survives(d, t, f, opened)
  <2>1. Good(opened, t, 0, f) /\ Grows(rolled, opened)
        /\ opened.persistent = rolled.persistent
    BY <1>2, UpsertGood
  <2> HIDE DEF opened
  <2>2. Survives(rolled, t, f, opened)
    BY <2>1 DEF Survives
  <2> QED
    BY <1>4, <2>2, SurvivesTwice
<1> HIDE DEF opened
<1>6. /\ Good(counted, t, 0, f) /\ Grows(rolled, counted)
      /\ counted.persistent = rolled.persistent
      /\ SeqOf(counted, sid) # {}
  BY <1>2, CountGood
<1> HIDE DEF counted
<1>7. Survives(d, t, f, counted)
  <2>1. Survives(rolled, t, f, counted)
    BY <1>6 DEF Survives
  <2> QED
    BY <1>4, <2>1, SurvivesTwice
<1>8. Survives(d, t, f, rolling)
  <2>1. Good(rolling, t, 0, f) /\ rolling.sessions = counted.sessions
        /\ rolling.persistent = counted.persistent
    BY <1>6, CadenceGood
  <2> HIDE DEF rolling
  <2>2. counted \in DbType
    BY <1>6 DEF Good
  <2>3. Survives(counted, t, f, rolling)
    BY <2>1, <2>2, GrowsSame DEF Survives
  <2> QED
    BY <1>7, <2>3, SurvivesTwice
<1> HIDE DEF rolling
<1>9. CASE rolled # d /\ e = FinalizeSession(d, last)
  BY <1>3, <1>9, FinalizeSurvives
<1> QED
  BY <1>1, <1>4, <1>5, <1>7, <1>8, <1>9

\* _apply_session: the summary, the job.
LEMMA ApplySessionCommitsSurvive ==
  ASSUME NEW t, NEW d, NEW f, Good(d, t, 0, f),
         NEW j \in Pending(d.jobs), d.jobs[j].kind = "session",
         NEW e \in ApplySessionCommits(d, j)
  PROVE  Survives(d, t, f, e)
<1> DEFINE s == SetSessionSummary(d, d.jobs[j].target, d.jobs[j].body.input,
                                  d.jobs[j].body.advance)
           m == Answered(s, j)
<1>1. e = s \/ e = m
  BY DEF ApplySessionCommits, Answered
<1>2. /\ Good(s, t, 0, f) /\ Grows(d, s)
      /\ s.persistent = d.persistent /\ s.jobs = d.jobs
  BY SetSummaryGood
<1> HIDE DEF s
<1>3. j \in DOMAIN s.jobs
  BY <1>2 DEF Pending
<1>4. Good(m, t, 0, f) /\ m.sessions = s.sessions
      /\ m.persistent = s.persistent
  BY <1>2, <1>3, AnsweredGood
<1> HIDE DEF m
<1>5. s \in DbType
  BY <1>2 DEF Good
<1>6. Survives(d, t, f, s)
  BY <1>2 DEF Survives
<1>7. Survives(s, t, f, m)
  BY <1>4, <1>5, GrowsSame DEF Survives
<1>8. Survives(d, t, f, m)
  BY <1>6, <1>7, SurvivesTwice
<1> QED
  BY <1>1, <1>6, <1>8

\* finalize: the row closed.
LEMMA FinalizeCommitsSurvive ==
  ASSUME NEW t, NEW d, NEW f, Good(d, t, 0, f), NEW e \in FinalizeCommits(d)
  PROVE  Survives(d, t, f, e)
<1>1. LastSeq(d) = Len(d.sessions) /\ Len(d.sessions) \in Nat
      /\ DOMAIN d.sessions = 1..Len(d.sessions)
  BY DbFields DEF Good, LastSeq
<1>2. CASE LastSeq(d) = 0
  BY <1>2, SurvivesSame DEF FinalizeCommits
<1>3. CASE LastSeq(d) # 0
  <2>1. LastSeq(d) \in DOMAIN d.sessions
    BY <1>1, <1>3
  <2>2. e = FinalizeSession(d, LastSeq(d))
    BY <1>3 DEF FinalizeCommits
  <2> QED
    BY <2>1, <2>2, FinalizeSurvives
<1> QED
  BY <1>2, <1>3

\* A batch of which fewer sessions are folded than the summary counts.
LEMMA CrashOkIntro ==
  ASSUME NEW e, NEW t, NEW f, NEW lo \in Nat, Good(e, t, lo, f),
         f <= e.persistent.count
  PROVE  CrashOk(e, t)
<1>1. e \in DbType /\ e.persistent.count \in Nat /\ f \in Nat
  BY CountIsNat DEF Good, FoldedUpTo
<1>2. BatchNear(e, 0, f)
  <2>1. lo..f \subseteq 0..f
    BY <1>1
  <2>2. BatchNear(e, lo, f)
    BY DEF Good
  <2> QED
    BY <2>1, <2>2 DEF BatchNear
<1>3. Good(e, t, 0, f)
  BY <1>2 DEF Good
<1>4. f \in 0..e.persistent.count
  BY <1>1
<1> QED
  BY <1>3, <1>4 DEF CrashOk

\* _apply_summary: the summary, which now counts the whole batch, each mark,
\* the job.  The count is never behind the marks.
LEMMA ApplySummaryCommitsSurvive ==
  ASSUME NEW t \in Seq(Turn), NEW d, CrashOk(d, t),
         NEW j \in Pending(d.jobs), d.jobs[j].kind = "summary",
         NEW e \in ApplySummaryCommits(d, j)
  PROVE  CrashOk(e, t) /\ Grows(d, e)
<1>1. PICK f \in 0..d.persistent.count : Good(d, t, 0, f)
  BY DEF CrashOk
<1>2. PICK a \in 0..f :
        /\ a \in Nat /\ f \in Nat
        /\ f <= a + SessionsPerSummary
        /\ d.jobs[j].body.items = (a + 1)..(a + SessionsPerSummary)
  BY <1>1, WaitingBatch
<1> DEFINE items == d.jobs[j].body.items
           n == a + SessionsPerSummary
           u == UpsertSummary(d, d.jobs[j].body.input, items)
           Marked(k) == MarkFolded(u, UpTo(items, k))
           m == Answered(Marked(n), j)
<1>3. /\ SessionsPerSummary \in Nat /\ SessionsPerSummary > 0 /\ n \in Nat
      /\ d \in DbType /\ d.persistent.count \in Nat
  BY <1>1, <1>2, DiaryConfigAssumption, CountIsNat DEF Good
<1>4. n \in items /\ UpTo(items, n) = items
      /\ \A k \in items : k \in Nat /\ k <= n
  BY <1>2, <1>3 DEF UpTo
<1>5. e = u \/ (\E k \in items : e = Marked(k)) \/ e = m
  <2>1. MarkFolded(u, items) = Marked(n)
    BY <1>4
  <2> QED
    BY <2>1 DEF ApplySummaryCommits, Answered, UpTo
<1>6. /\ Good(u, t, 0, f) /\ Grows(d, u)
      /\ u.sessions = d.sessions /\ u.jobs = d.jobs
      /\ u.persistent.count = d.persistent.count + SessionsPerSummary
  <2>1. 0 \in Nat
    OBVIOUS
  <2> QED
    BY <1>1, <2>1, UpsertSummaryGood
<1> HIDE DEF u, items
<1>7. ASSUME NEW k \in items
      PROVE  /\ Good(Marked(k), t, 0, FoldedAfter(f, k))
             /\ Grows(d, Marked(k))
             /\ Marked(k).persistent = u.persistent
             /\ Marked(k).jobs = u.jobs
  <2> DEFINE x == MarkFolded(u, UpTo(u.jobs[j].body.items, k))
  <2>1. /\ j \in Pending(u.jobs) /\ u.jobs[j].kind = "summary"
        /\ k \in u.jobs[j].body.items
    BY <1>6 DEF items
  <2>2. x = Marked(k)
    BY <1>6 DEF items
  <2>3. /\ Good(x, t, 0, FoldedAfter(f, k)) /\ Grows(u, x)
        /\ x.persistent = u.persistent /\ x.jobs = u.jobs
    <3>1. Good(u, t, 0, f) /\ 0 \in Nat
      BY <1>6
    <3> QED
      BY <2>1, <3>1, MarkFoldedGood, ZenonT(30)
  <2> HIDE DEF x
  <2>4. d \in DbType /\ u \in DbType /\ x \in DbType
    BY <1>1, <1>6, <2>3 DEF Good
  <2>5. Grows(d, x)
    BY <1>6, <2>3, <2>4, GrowsTransitive
  <2> QED
    BY <2>2, <2>3, <2>5
<1>8. ASSUME NEW k \in items
      PROVE  FoldedAfter(f, k) <= u.persistent.count
  <2>1. k \in Nat /\ k <= n
    BY <1>4
  <2>2. n <= u.persistent.count
    BY <1>2, <1>3, <1>6
  <2>3. f <= u.persistent.count
    BY <1>3, <1>6
  <2>4. u.persistent.count \in Nat
    BY <1>3, <1>6
  <2> HIDE DEF n
  <2> QED
    BY <1>2, <1>3, <2>1, <2>2, <2>3, <2>4 DEF FoldedAfter
<1> HIDE DEF Marked
<1>9. CASE e = u
  <2>1. f <= u.persistent.count
    BY <1>3, <1>6
  <2>2. 0 \in Nat
    OBVIOUS
  <2>3. CrashOk(u, t)
    BY <1>6, <2>1, <2>2, CrashOkIntro
  <2> QED
    BY <1>6, <1>9, <2>3
<1>10. ASSUME NEW k \in items
       PROVE  CrashOk(Marked(k), t) /\ Grows(d, Marked(k))
  <2>1. Good(Marked(k), t, 0, FoldedAfter(f, k))
        /\ FoldedAfter(f, k) <= Marked(k).persistent.count /\ 0 \in Nat
    BY <1>7, <1>8
  <2> QED
    BY <1>7, <2>1, CrashOkIntro
<1>11. CASE e = m
  <2>1. /\ Good(Marked(n), t, 0, FoldedAfter(f, n)) /\ 0 \in Nat
        /\ j \in DOMAIN Marked(n).jobs
    BY <1>4, <1>6, <1>7 DEF Pending
  <2>2. /\ Good(m, t, 0, FoldedAfter(f, n))
        /\ m.sessions = Marked(n).sessions
        /\ m.persistent = Marked(n).persistent
    BY <2>1, AnsweredGood
  <2> HIDE DEF m
  <2>3. FoldedAfter(f, n) <= m.persistent.count
    BY <1>4, <1>7, <1>8, <2>2
  <2>4. CrashOk(m, t)
    BY <2>1, <2>2, <2>3, CrashOkIntro
  <2>5. Marked(n) \in DbType /\ m \in DbType
    BY <2>1, <2>2 DEF Good
  <2>6. Grows(Marked(n), m)
    BY <2>2, <2>5, GrowsSame
  <2>7. Grows(d, m)
    BY <1>3, <1>4, <1>10, <2>5, <2>6, GrowsTransitive
  <2> QED
    BY <1>11, <2>4, <2>7
<1> QED
  BY <1>5, <1>9, <1>10, <1>11

(***************************************************************************)
(* The specification keeps it.                                             *)
(***************************************************************************)

\* Surviving tables are good ones: the count is the same.
LEMMA SurvivorIsOk ==
  ASSUME NEW d, NEW t, NEW e, NEW f \in 0..d.persistent.count,
         Survives(d, t, f, e)
  PROVE  CrashOk(e, t) /\ Grows(d, e)
  BY DEF Survives, CrashOk

\* Nothing has happened yet.
LEMMA CrashInvInitially ==
  ASSUME Init PROVE CrashInv
<1>1. Inv
  BY InvInitially
<1>2. db.persistent.count = 0
  BY DEF Init
<1>3. CrashOk(db, turns)
  BY <1>1, <1>2 DEF Inv, CrashOk
<1> QED
  BY <1>1, <1>3 DEF Inv, CrashInv

\* A death during a submit, of a session job or of a fold.
LEMMA DieInSubmitStep ==
  ASSUME CrashInv, NEW j \in DOMAIN db.jobs, DieInSubmit(j)
  PROVE  CrashOk(db', turns) /\ Grows(db, db')
<1>1. j \in Pending(db.jobs)
  BY DEF DieInSubmit
<1>2. CASE db.jobs[j].kind = "session"
  <2>1. PICK e : e \in ApplySessionCommits(db, j) /\ db' = e
    BY <1>2 DEF DieInSubmit, Die
  <2>2. PICK f \in 0..db.persistent.count : Good(db, turns, 0, f)
    BY DEF CrashInv, CrashOk
  <2>3. Survives(db, turns, f, e)
    BY <1>1, <1>2, <2>1, <2>2, ApplySessionCommitsSurvive
  <2>4. CrashOk(e, turns) /\ Grows(db, e)
    BY <2>3, SurvivorIsOk
  <2> QED
    BY <2>1, <2>4
<1>3. CASE db.jobs[j].kind = "summary"
  <2>1. PICK e : e \in ApplySummaryCommits(db, j) /\ db' = e
    BY <1>3 DEF DieInSubmit, Die
  <2>2. CrashOk(e, turns) /\ Grows(db, e)
    BY <1>1, <1>3, <2>1, ApplySummaryCommitsSurvive DEF CrashInv
  <2> QED
    BY <2>1, <2>2
<1>4. db.jobs[j].kind \in {"session", "summary"}
  BY DbFields DEF CrashInv, CrashOk, Good
<1> QED
  BY <1>2, <1>3, <1>4

\* An answer that lands whole.
LEMMA CrashSubmitStep ==
  ASSUME CrashInv, NEW j \in DOMAIN db.jobs, Submit(j)
  PROVE  CrashOk(db', turns) /\ Grows(db, db')
<1>1. PICK f \in 0..db.persistent.count : Good(db, turns, 0, f)
  BY DEF CrashInv, CrashOk
<1>2. /\ db \in DbType /\ db.persistent.count \in Nat /\ f \in Nat
      /\ 0 \in Nat /\ 0 <= f
  BY <1>1, CountIsNat DEF Good
<1>3. CASE j \notin Pending(db.jobs)
  <2>1. db' = db
    BY <1>3 DEF Submit
  <2> QED
    BY <1>2, <2>1, GrowsSame DEF CrashInv
<1>4. CASE j \in Pending(db.jobs) /\ db.jobs[j].kind = "session"
  <2> DEFINE e == ApplySession(db, j)
  <2>1. Good(e, turns, 0, f) /\ Grows(db, e) /\ e.persistent = db.persistent
    BY <1>1, <1>2, <1>4, ApplySessionGood DEF CrashInv
  <2>2. db' = e
    BY <1>4 DEF Submit
  <2> HIDE DEF e
  <2>3. Survives(db, turns, f, e)
    BY <2>1 DEF Survives
  <2>4. CrashOk(e, turns) /\ Grows(db, e)
    BY <2>3, SurvivorIsOk
  <2> QED
    BY <2>2, <2>4
<1>5. CASE j \in Pending(db.jobs) /\ db.jobs[j].kind = "summary"
  <2> DEFINE e == ApplySummary(db, j)
  <2>1. PICK a \in 0..f :
          /\ a \in Nat
          /\ f <= a + SessionsPerSummary
          /\ db.jobs[j].body.items = (a + 1)..(a + SessionsPerSummary)
    BY <1>1, <1>2, <1>5, WaitingBatch
  <2> DEFINE n == a + SessionsPerSummary
  <2>2. /\ Good(e, turns, n, n) /\ Grows(db, e)
        /\ e.persistent.count = db.persistent.count + SessionsPerSummary
    BY <1>1, <1>2, <1>5, <2>1, ApplySummaryGood, SMTT(30) DEF CrashInv
  <2>3. db' = e
    BY <1>5 DEF Submit
  <2> HIDE DEF e
  <2>4. n \in Nat /\ n <= e.persistent.count
    BY <1>2, <2>1, <2>2, DiaryConfigAssumption
  <2> HIDE DEF n
  <2>5. CrashOk(e, turns)
    BY <2>2, <2>4, CrashOkIntro
  <2> QED
    BY <2>2, <2>3, <2>5
<1>6. db.jobs[j].kind \in {"session", "summary"}
  BY <1>2, DbFields
<1> QED
  BY <1>3, <1>4, <1>5, <1>6

\* Every step, and every death inside one.
LEMMA CrashInvStep ==
  ASSUME CrashInv, [CrashNext]_vars
  PROVE  CrashInv' /\ Grows(db, db')
<1>1. PICK f \in 0..db.persistent.count : Good(db, turns, 0, f)
  BY DEF CrashInv, CrashOk
<1>2. /\ turns \in Seq(Turn) /\ run \in Nat /\ CrashOk(db, turns)
      /\ ingest \in [Ingesters -> Stages]
  BY DEF CrashInv
<1>3. /\ db \in DbType /\ db.persistent.count \in Nat /\ f \in Nat
      /\ 0 \in Nat /\ 0 <= f
  BY <1>1, CountIsNat DEF Good
<1>4. Grows(db, db)
  BY <1>3, GrowsSame
<1>5. ASSUME NEW w \in Ingesters, NEW role \in {"user", "assistant"},
             LogTurn(w, role)
      PROVE  CrashInv' /\ Grows(db, db')
  <2>1. /\ turns' = Append(turns, [session |-> run, role |-> role])
        /\ db' = db /\ run' = run
        /\ ingest' = [ingest EXCEPT ![w] = role]
    BY <1>5 DEF LogTurn
  <2>2. [session |-> run, role |-> role] \in Turn
    BY <1>2 DEF Turn
  <2>3. Good(db, turns', 0, f)
    BY <1>1, <1>2, <2>1, <2>2, LogKeepsGood
  <2>4. turns' \in Seq(Turn)
    BY <1>2, <2>1, <2>2
  <2>5. CrashOk(db', turns')
    BY <2>1, <2>3 DEF CrashOk
  <2>6. ingest' \in [Ingesters -> Stages] /\ run' \in Nat
    BY <1>2, <2>1 DEF Stages
  <2> QED
    BY <1>4, <2>1, <2>4, <2>5, <2>6 DEF CrashInv
<1>6. ASSUME CrashOk(db', turns), Grows(db, db'), turns' = turns,
             ingest' \in [Ingesters -> Stages],
             run' \in {run, run + 1}
      PROVE  CrashInv' /\ Grows(db, db')
  <2>1. CrashOk(db', turns') /\ turns' \in Seq(Turn) /\ run' \in Nat
    BY <1>2, <1>6
  <2> QED
    BY <1>6, <2>1 DEF CrashInv
<1>7. ASSUME NEW w \in Ingesters, Tick(w)
      PROVE  CrashInv' /\ Grows(db, db')
  <2> DEFINE e == OnInteraction(db, turns, run)
  <2>1. /\ db' = e /\ ingest' = [ingest EXCEPT ![w] = "idle"]
        /\ turns' = turns /\ run' = run
    BY <1>7 DEF Tick
  <2>2. Good(e, turns, 0, f) /\ Grows(db, e) /\ e.persistent = db.persistent
    BY <1>1, <1>2, <1>3, TickGood
  <2> HIDE DEF e
  <2>3. Survives(db, turns, f, e)
    BY <2>2 DEF Survives
  <2>4. CrashOk(e, turns) /\ Grows(db, e)
    BY <2>3, SurvivorIsOk
  <2>5. ingest' \in [Ingesters -> Stages]
    BY <1>2, <2>1 DEF Stages
  <2> QED
    BY <1>6, <2>1, <2>4, <2>5
<1>8. ASSUME NEW j \in DOMAIN db.jobs, Submit(j)
      PROVE  CrashInv' /\ Grows(db, db')
  <2>1. turns' = turns /\ ingest' = ingest /\ run' = run
    BY <1>8 DEF Submit
  <2>2. CrashOk(db', turns) /\ Grows(db, db')
    BY <1>8, CrashSubmitStep
  <2> QED
    BY <1>2, <1>6, <2>1, <2>2
<1>9. ASSUME Reopen
      PROVE  CrashInv' /\ Grows(db, db')
  <2> DEFINE e == FinalizeLast(db, turns)
  <2>1. db' = e /\ run' = run + 1 /\ turns' = turns /\ ingest' = ingest
    BY <1>9 DEF Reopen
  <2>2. Good(e, turns, 0, f) /\ Grows(db, e) /\ e.persistent = db.persistent
    BY <1>1, <1>2, <1>3, CloseGood
  <2> HIDE DEF e
  <2>3. Survives(db, turns, f, e)
    BY <2>2 DEF Survives
  <2>4. CrashOk(e, turns) /\ Grows(db, e)
    BY <2>3, SurvivorIsOk
  <2> QED
    BY <1>2, <1>6, <2>1, <2>4
<1>10. ASSUME Crash
       PROVE  CrashInv' /\ Grows(db, db')
  <2>1. /\ ingest' \in [Ingesters -> Stages]
        /\ run' = run + 1 /\ turns' = turns /\ db' = db
    BY <1>10 DEF Crash, Stages
  <2> QED
    BY <1>2, <1>4, <1>6, <2>1
<1>11. ASSUME NEW tables, Die(tables),
              \A e \in tables : Survives(db, turns, f, e)
       PROVE  CrashInv' /\ Grows(db, db')
  <2>1. /\ db' \in tables /\ turns' = turns /\ run' = run + 1
        /\ ingest' \in [Ingesters -> Stages]
    BY <1>11 DEF Die, Stages
  <2>2. PICK e : e \in tables /\ db' = e
    BY <2>1
  <2>3. Survives(db, turns, f, e)
    BY <1>11, <2>2
  <2>4. CrashOk(e, turns) /\ Grows(db, e)
    BY <2>3, SurvivorIsOk
  <2> QED
    BY <1>6, <2>1, <2>2, <2>4
<1>12. ASSUME NEW w \in Ingesters, DieInTick(w)
       PROVE  CrashInv' /\ Grows(db, db')
  <2> DEFINE tables == TickCommits(db, turns, run)
  <2>1. \A e \in tables : Survives(db, turns, f, e)
    BY <1>1, <1>2, TickCommitsSurvive
  <2>2. Die(tables)
    BY <1>12 DEF DieInTick
  <2> HIDE DEF tables
  <2> QED
    BY <1>11, <2>1, <2>2
<1>13. ASSUME NEW j \in DOMAIN db.jobs, DieInSubmit(j)
       PROVE  CrashInv' /\ Grows(db, db')
  <2>1. /\ ingest' \in [Ingesters -> Stages]
        /\ run' = run + 1 /\ turns' = turns
    BY <1>13 DEF DieInSubmit, Die, Stages
  <2>2. CrashOk(db', turns) /\ Grows(db, db')
    BY <1>13, DieInSubmitStep
  <2> QED
    BY <1>6, <2>1, <2>2
<1>14. ASSUME DieInClose
       PROVE  CrashInv' /\ Grows(db, db')
  <2> DEFINE tables == FinalizeCommits(db)
  <2>1. \A e \in tables : Survives(db, turns, f, e)
    BY <1>1, FinalizeCommitsSurvive
  <2>2. Die(tables)
    BY <1>14 DEF DieInClose
  <2> HIDE DEF tables
  <2> QED
    BY <1>11, <2>1, <2>2
<1>15. ASSUME NEW w \in Ingesters, EpisodicFails(w)
       PROVE  CrashInv' /\ Grows(db, db')
  <2>1. /\ ingest' \in [Ingesters -> Stages]
        /\ run' = run /\ turns' = turns /\ db' = db
    BY <1>2, <1>15 DEF EpisodicFails, Stages
  <2> QED
    BY <1>2, <1>4, <1>6, <2>1
<1>16. CASE UNCHANGED vars
  <2>1. turns' = turns /\ ingest' = ingest /\ run' = run /\ db' = db
    BY <1>16 DEF vars
  <2> QED
    BY <1>2, <1>4, <1>6, <2>1
<1> QED
  BY <1>5, <1>7, <1>8, <1>9, <1>10, <1>12, <1>13, <1>14, <1>15, <1>16
     DEF CrashNext, Next, LogUser, LogAssistant

\* The strengthened invariant holds, whatever commit a run dies after.
THEOREM CrashInvariance == CrashSpec => []CrashInv
<1>1. Init => CrashInv
  BY CrashInvInitially
<1>2. CrashInv /\ [CrashNext]_vars => CrashInv'
  BY CrashInvStep
<1> QED
  BY <1>1, <1>2, PTL DEF CrashSpec

(***************************************************************************)
(* The theorems.                                                           *)
(***************************************************************************)

\* Half an operation leaves tables of the right type.
THEOREM CrashTypeCorrect == CrashSpec => []TypeOK
<1>1. CrashInv => TypeOK
  BY DEF CrashInv, CrashOk, Good, DbType, Jobs, TypeOK
<1> QED
  BY <1>1, CrashInvariance, PTL

\* Every session but the newest is closed, also when a run dies between the
\* commit that closes one and the commit that opens the next.
THEOREM CrashOlderAreClosed == CrashSpec => []OnlyNewestIsOpen
<1>1. CrashInv => OnlyNewestIsOpen
  BY DEF CrashInv, CrashOk, Good, ClosedInOrder, OnlyNewestIsOpen
<1> QED
  BY <1>1, CrashInvariance, PTL

\* The marks: those of the f oldest sessions.
LEMMA FoldedAreFirst ==
  ASSUME NEW f, Good(db, turns, 0, f)
  PROVE  /\ f \in Nat /\ Folded = 1..f /\ Cardinality(Folded) = f
<1>1. /\ f \in Nat /\ f <= Len(db.sessions)
      /\ DOMAIN db.sessions = 1..Len(db.sessions)
      /\ Len(db.sessions) \in Nat
  BY DbFields DEF Good, FoldedUpTo
<1>2. \A i \in DOMAIN db.sessions : db.sessions[i].folded <=> i <= f
  BY DEF Good, FoldedUpTo
<1>3. Folded = 1..f
  BY <1>1, <1>2 DEF Folded
<1>4. Cardinality(1..f) = f
  <2>1. 0 \in Nat /\ 0 + 1 = 1 /\ 0 + f = f
    BY <1>1
  <2>2. Cardinality((0 + 1)..(0 + f)) = f
    BY <1>1, <2>1, IntervalSize
  <2> QED
    BY <2>1, <2>2
<1> QED
  BY <1>1, <1>3, <1>4

\* A fold that dies among its marks leaves the oldest sessions marked, and a
\* summary that counts at least as many.
THEOREM CrashFoldsInOrder == CrashSpec => []CrashFoldedPrefix
<1>1. ASSUME CrashInv PROVE CrashFoldedPrefix
  <2>1. PICK f \in 0..db.persistent.count : Good(db, turns, 0, f)
    BY <1>1 DEF CrashInv, CrashOk
  <2>2. f \in Nat /\ Folded = 1..f /\ Cardinality(Folded) = f
    BY <2>1, FoldedAreFirst
  <2>3. db.persistent.count \in Nat /\ DOMAIN db.sessions \subseteq Nat
    BY <2>1, CountIsNat, DbFields DEF Good
  <2>4. \A i, j \in DOMAIN db.sessions : i < j /\ j \in 1..f => i \in 1..f
    <3>1. DOMAIN db.sessions = 1..Len(db.sessions)
      BY <2>1, DbFields DEF Good
    <3> QED
      BY <2>2, <3>1
  <2>5. Cardinality(Folded) <= db.persistent.count
    BY <2>1, <2>2, <2>3
  <2> QED
    BY <2>2, <2>4, <2>5 DEF CrashFoldedPrefix
<1>2. CrashInv => CrashFoldedPrefix
  BY <1>1
<1> QED
  BY <1>2, CrashInvariance, PTL

\* A fold that waits again after a death is about the batch it was about,
\* whole and closed, and the unmarked rest of it is what comes next.
THEOREM CrashWaitingFoldIsNext == CrashSpec => []CrashFoldBatchIsNext
<1>1. ASSUME CrashInv PROVE CrashFoldBatchIsNext
  <2> DEFINE k == SessionsPerSummary
  <2> SUFFICES ASSUME NEW j \in PendingOne(db.jobs, "summary", SummaryTarget)
               PROVE  LET items == db.jobs[j].body.items
                          rest == items \ Folded
                      IN /\ Cardinality(items) = SessionsPerSummary
                         /\ rest = Oldest(FinalizedUnfolded(db),
                                          Cardinality(rest))
    BY DEF CrashFoldBatchIsNext
  <2>1. PICK f \in 0..db.persistent.count : Good(db, turns, 0, f)
    BY <1>1 DEF CrashInv, CrashOk
  <2>2. j \in Pending(db.jobs) /\ db.jobs[j].kind = "summary"
    BY DEF PendingOne
  <2> DEFINE items == db.jobs[j].body.items
             rest == items \ Folded
  <2>3. PICK a \in 0..f :
          /\ a \in Nat /\ f \in Nat
          /\ f <= a + k
          /\ a + k \in DOMAIN db.sessions
          /\ db.sessions[a + k].finalized
          /\ items = (a + 1)..(a + k)
          /\ Cardinality(items) = k
    <3>1. 0 \in Nat
      OBVIOUS
    <3> QED
      BY <2>1, <2>2, <3>1, WaitingBatch
  <2>4. Folded = 1..f
    BY <2>1, FoldedAreFirst
  <2>5. /\ k \in Nat /\ db \in DbType
        /\ DOMAIN db.sessions = 1..Len(db.sessions)
        /\ Len(db.sessions) \in Nat
    BY <2>1, DbFields, DiaryConfigAssumption DEF Good
  <2> HIDE DEF k, items
  <2> DEFINE r == a + k - f
  <2>6. r \in Nat /\ f + r = a + k
    BY <2>3, <2>5
  <2>7. rest = (f + 1)..(f + r)
    <3>1. rest = ((a + 1)..(a + k)) \ (1..f)
      BY <2>3, <2>4
    <3>2. \A i : i \in ((a + 1)..(a + k)) \ (1..f) <=> i \in (f + 1)..(a + k)
      BY <2>3, <2>5
    <3> QED
      BY <2>6, <3>1, <3>2
  <2> HIDE DEF r
  <2>8. Cardinality((f + 1)..(f + r)) = r
    BY <2>3, <2>6, IntervalSize
  <2>9. PICK m \in f..Len(db.sessions) :
          /\ FinalizedUnfolded(db) = (f + 1)..m
          /\ \A i \in 1..m : db.sessions[i].finalized
    BY <2>1, <2>5, UnfoldedIsInterval DEF Good
  <2>10. f + r <= m
    <3>1. CASE r = 0
      BY <2>3, <2>9, <3>1
    <3>2. CASE r # 0
      <4>1. ~db.sessions[a + k].folded
        BY <2>1, <2>3, <2>5, <2>6, <3>2 DEF Good, FoldedUpTo
      <4>2. a + k \in FinalizedUnfolded(db)
        BY <2>3, <4>1 DEF FinalizedUnfolded
      <4> QED
        BY <2>3, <2>5, <2>6, <2>9, <4>2
    <3> QED
      BY <3>1, <3>2
  <2>11. Oldest((f + 1)..m, r) = (f + 1)..(f + r)
    <3>1. m \in Nat
      BY <2>3, <2>5, <2>9
    <3> QED
      BY <2>3, <2>6, <2>10, <3>1, OldestOfInterval
  <2> QED
    BY <2>3, <2>7, <2>8, <2>9, <2>11 DEF items, k
<1>2. CrashInv => CrashFoldBatchIsNext
  BY <1>1
<1> QED
  BY <1>2, CrashInvariance, PTL

\* Half an operation takes nothing back from a session's summary either.
THEOREM CrashSessionsNeverShrink == CrashSpec => SessionsOnlyGrow
<1> DEFINE Step == \A i \in DOMAIN db.sessions :
                     /\ db.sessions[i].covered <= db'.sessions[i].covered
                     /\ db.sessions[i].summary \subseteq db'.sessions[i].summary
<1>1. CrashInv /\ [CrashNext]_vars => [Step]_vars
  BY CrashInvStep DEF Grows
<1> QED
  BY <1>1, CrashInvariance, PTL DEF CrashSpec, SessionsOnlyGrow

\* Nor from the persistent summary: the text of a fold that is written twice
\* is the same text.
THEOREM CrashPersistentNeverShrinks == CrashSpec => PersistentOnlyGrows
<1>1. CrashInv /\ [CrashNext]_vars
        => [db.persistent.summary \subseteq db'.persistent.summary]_vars
  BY CrashInvStep DEF Grows
<1> QED
  BY <1>1, CrashInvariance, PTL DEF CrashSpec, PersistentOnlyGrows

(***************************************************************************)
(* An assemble beside the diary: Context.                                  *)
(*                                                                         *)
(* What a section of a context can be read from.  Every turn id that a     *)
(* summary, or a job that waits, mentions is the id of a logged turn.      *)
(***************************************************************************)
KnownIn(d, t) ==
  /\ \A i \in DOMAIN d.sessions : d.sessions[i].summary \subseteq DOMAIN t
  /\ d.persistent.summary \subseteq DOMAIN t
  /\ \A j \in Pending(d.jobs) : d.jobs[j].body.input \subseteq DOMAIN t

\* From tables d to tables e at most a job of session i starts to wait, whose
\* answer reflects the session's summary and turns of the session.
Asks(d, e, t, i) ==
  /\ e.sessions = d.sessions
  /\ e.persistent = d.persistent
  /\ \A k \in Pending(e.jobs) :
       \/ k \in Pending(d.jobs) /\ e.jobs[k] = d.jobs[k]
       \/ /\ e.jobs[k].kind = "session"
          /\ e.jobs[k].target = i
          /\ e.jobs[k].body.input \subseteq
               d.sessions[i].summary \cup OwnTurns(t, d.sessions[i].sid)

\* _enqueue_session.
LEMMA EnqueueSessionAsks ==
  ASSUME NEW t \in Seq(Turn), NEW d, NEW lo, NEW f, Good(d, t, lo, f),
         NEW i \in DOMAIN d.sessions, NEW force \in BOOLEAN
  PROVE  Asks(d, EnqueueSession(d, t, i, force), t, i)
<1> DEFINE e == EnqueueSession(d, t, i, force)
           row == d.sessions[i]
           own == OwnTurns(t, row.sid)
           window == RecentTurns(t, row.sid, row.covered)
           body == SessionBody(row, window)
           new == EnqueueJob(d.jobs, "session", i, body)
<1>1. /\ d \in DbType /\ row \in Session /\ i \in Nat
      /\ row.sid \in Nat /\ row.covered \in Nat /\ d.jobs \in Seq(Jobs)
  BY DbFields DEF Good
<1>2. /\ e.sessions = d.sessions
      /\ e.persistent = d.persistent
      /\ \/ e.jobs = d.jobs
         \/ /\ window # {}
            /\ body \in Body
            /\ e.jobs = new
  BY <1>1, EnqueueSessionShape
<1>3. window \in SUBSET own
  <2> HIDE DEF row
  <2> QED
    BY <1>1, WindowReachesNewest
<1>4. body.input \subseteq row.summary \cup own
  BY <1>3 DEF SessionBody
<1> HIDE DEF e, body, window
<1>5. CASE e.jobs = d.jobs
  BY <1>2, <1>5 DEF Asks, e
<1>6. CASE body \in Body /\ e.jobs = new
  <2>1. EnqueueEffect(d.jobs, new, "session", i, body)
    BY <1>1, <1>6, EnqueueWaiting DEF Jobs
  <2>2. /\ NewJob("session", i, body).kind = "session"
        /\ NewJob("session", i, body).target = i
        /\ NewJob("session", i, body).body = body
    BY DEF NewJob
  <2> HIDE DEF new
  <2>3. \A k \in Pending(new) :
          \/ k \in Pending(d.jobs) /\ new[k] = d.jobs[k]
          \/ /\ new[k].kind = "session" /\ new[k].target = i
             /\ new[k].body.input \subseteq row.summary \cup own
    BY <1>4, <2>1, <2>2 DEF EnqueueEffect
  <2> QED
    BY <1>2, <1>6, <2>3 DEF Asks, e
<1> QED
  BY <1>2, <1>5, <1>6

\* What is asked about a session is known.
LEMMA AsksKnown ==
  ASSUME NEW d, NEW e, NEW t, NEW i \in DOMAIN d.sessions,
         Asks(d, e, t, i), KnownIn(d, t)
  PROVE  KnownIn(e, t)
<1>1. OwnTurns(t, d.sessions[i].sid) \subseteq DOMAIN t
  BY DEF OwnTurns
<1>2. d.sessions[i].summary \subseteq DOMAIN t
  BY DEF KnownIn
<1>3. \A k \in Pending(e.jobs) : e.jobs[k].body.input \subseteq DOMAIN t
  BY <1>1, <1>2 DEF Asks, KnownIn
<1> QED
  BY <1>3 DEF Asks, KnownIn

\* Counting and closing change no text, nor does opening a row.
LEMMA CountsOrClosesKnown ==
  ASSUME NEW d, NEW e, NEW t, d \in DbType, CountsOrCloses(d, e), KnownIn(d, t)
  PROVE  KnownIn(e, t)
<1>1. DOMAIN e.sessions = DOMAIN d.sessions
  BY DbFields DEF CountsOrCloses
<1> QED
  BY <1>1 DEF CountsOrCloses, KnownIn

\* upsert_session.
LEMMA UpsertKnown ==
  ASSUME NEW t, NEW d, NEW lo, NEW f, Good(d, t, lo, f), NEW r \in Nat,
         KnownIn(d, t)
  PROVE  KnownIn(UpsertSession(d, r), t)
<1> DEFINE e == UpsertSession(d, r)
<1>1. /\ Keeps(d, e, r, 0) /\ e.jobs = d.jobs
      /\ e.persistent = d.persistent
  BY UpsertKeeps
<1> HIDE DEF e
<1>2. \A i \in DOMAIN e.sessions : e.sessions[i].summary \subseteq DOMAIN t
  BY <1>1 DEF Keeps, KnownIn
<1>3. KnownIn(e, t)
  BY <1>1, <1>2 DEF KnownIn
<1> QED
  BY <1>3 DEF e

\* A fold starts to wait: it is told of summaries.
LEMMA FoldsIfDueKnown ==
  ASSUME NEW d, NEW e \in DbType, NEW t, FoldsIfDue(d, e), KnownIn(d, t)
  PROVE  KnownIn(e, t)
<1>1. FoldInput(d) \subseteq DOMAIN t
  <2>1. FoldBatch(d) \subseteq DOMAIN d.sessions
    BY DEF FoldBatch, Oldest, FinalizedUnfolded
  <2> QED
    BY <2>1 DEF FoldInput, KnownIn
<1>2. ASSUME NEW k \in Pending(e.jobs)
      PROVE  e.jobs[k].body.input \subseteq DOMAIN t
  <2>1. CASE e.jobs[k].kind = "summary"
    BY <1>1, <2>1 DEF FoldsIfDue, FoldBody, KnownIn
  <2>2. CASE k \in SessionJobs(e)
    <3>1. k \in SessionJobs(d) /\ e.jobs[k] = d.jobs[k]
      BY <2>2 DEF FoldsIfDue
    <3> QED
      BY <3>1 DEF SessionJobs, KnownIn
  <2>3. e.jobs[k].kind \in {"session", "summary"}
    BY DbFields DEF Pending
  <2> QED
    BY <2>1, <2>2, <2>3 DEF SessionJobs
<1> QED
  BY <1>2 DEF FoldsIfDue, KnownIn

\* The answer to a job is known.
LEMMA SessionAnsweredKnown ==
  ASSUME NEW d, NEW e, NEW t, NEW j \in SessionJobs(d),
         SessionAnswered(d, e, j), Pending(e.jobs) \subseteq Pending(d.jobs),
         KnownIn(d, t)
  PROVE  KnownIn(e, t)
<1>1. d.jobs[j].body.input \subseteq DOMAIN t
  BY DEF SessionJobs, KnownIn
<1>2. \A i \in DOMAIN e.sessions : e.sessions[i].summary \subseteq DOMAIN t
  BY <1>1 DEF SessionAnswered, KnownIn
<1>3. e.persistent.summary \subseteq DOMAIN t
  BY DEF SessionAnswered, KnownIn
<1>4. \A k \in Pending(e.jobs) : e.jobs[k].body.input \subseteq DOMAIN t
  BY DEF SessionAnswered, KnownIn
<1> QED
  BY <1>2, <1>3, <1>4 DEF KnownIn

\* upsert_summary and mark_folded.
LEMMA UpsertSummaryKnown ==
  ASSUME NEW d \in DbType, NEW text, NEW batch, NEW t,
         text \subseteq DOMAIN t, KnownIn(d, t)
  PROVE  KnownIn(UpsertSummary(d, text, batch), t)
<1> DEFINE e == UpsertSummary(d, text, batch)
<1>1. CASE batch = {}
  BY <1>1 DEF UpsertSummary
<1>2. CASE batch # {}
  <2>1. /\ e.sessions = d.sessions /\ e.jobs = d.jobs
        /\ e.persistent.summary = text
    BY <1>2 DEF UpsertSummary, DbType
  <2> HIDE DEF e
  <2>2. KnownIn(e, t)
    BY <2>1 DEF KnownIn
  <2> QED
    BY <2>2 DEF e
<1> QED
  BY <1>1, <1>2

\* Marking turns no unknown job or row into being.
LEMMA MarkedOnlyKnown ==
  ASSUME NEW d, NEW e, NEW batch, NEW t, MarkedOnly(d, e, batch),
         KnownIn(d, t)
  PROVE  KnownIn(e, t)
  BY DEF MarkedOnly, KnownIn

\* mark_done.
LEMMA AnsweredKnown ==
  ASSUME NEW t, NEW d \in DbType, NEW j \in DOMAIN d.jobs, KnownIn(d, t)
  PROVE  KnownIn(Answered(d, j), t)
<1> DEFINE e == Answered(d, j)
<1>1. /\ e.sessions = d.sessions /\ e.persistent = d.persistent
      /\ e.jobs = MarkDone(d.jobs, j)
  BY DEF Answered, DbType
<1> HIDE DEF e
<1>2. d.jobs \in Seq(Jobs)
  BY DbFields
<1>3. AnswerEffect(d.jobs, e.jobs, j)
  BY <1>1, <1>2, MarkDoneWaiting DEF Jobs
<1>4. \A k \in Pending(e.jobs) : k \in Pending(d.jobs) /\ e.jobs[k] = d.jobs[k]
  BY <1>3 DEF AnswerEffect
<1>5. KnownIn(e, t)
  BY <1>1, <1>4 DEF KnownIn
<1> QED
  BY <1>5 DEF e

\* _enqueue_summary.
LEMMA EnqueueSummaryKnown ==
  ASSUME NEW t \in Seq(Turn), NEW d, NEW lo \in Nat, NEW f,
         Good(d, t, lo, f), lo <= f, KnownIn(d, t)
  PROVE  KnownIn(EnqueueSummary(d), t)
<1>1. FoldsIfDue(d, EnqueueSummary(d))
  BY EnqueueSummaryEffect
<1>2. EnqueueSummary(d) \in DbType
  BY EnqueueSummaryGood DEF Good
<1> QED
  BY <1>1, <1>2, FoldsIfDueKnown

\* on_interaction and the commits inside it.
LEMMA TickKnown ==
  ASSUME NEW t \in Seq(Turn), NEW d, NEW f, Good(d, t, 0, f), KnownIn(d, t),
         NEW sid \in Nat
  PROVE  /\ \A e \in TickCommits(d, t, sid) : KnownIn(e, t)
         /\ KnownIn(OnInteraction(d, t, sid), t)
<1> DEFINE last == LastSeq(d)
           closed == FinalizeSession(d, last)
           rolled == Rollover(d, t, sid)
           opened == UpsertSession(rolled, sid)
           counted == CountInteraction(rolled, sid)
           rolling == Cadence(counted, t, sid)
           i == CHOOSE n \in SeqOf(opened, sid) : TRUE
           k == CHOOSE n \in SeqOf(counted, sid) : TRUE
<1>1. /\ d \in DbType /\ last = Len(d.sessions) /\ Len(d.sessions) \in Nat
      /\ DOMAIN d.sessions = 1..Len(d.sessions) /\ 0 \in Nat /\ f \in Nat
      /\ 0 <= f
  BY DbFields DEF Good, LastSeq, FoldedUpTo
<1>2. Good(rolled, t, 0, f) /\ MayOpen(rolled, sid)
  BY RolloverGood
<1>3. (rolled # d => KnownIn(closed, t)) /\ KnownIn(rolled, t)
  <2>1. CASE last = 0 \/ d.sessions[last].sid = sid \/ d.sessions[last].finalized
    BY <2>1 DEF Rollover
  <2>2. CASE ~(last = 0 \/ d.sessions[last].sid = sid \/ d.sessions[last].finalized)
    <3>1. rolled = EnqueueSession(closed, t, last, TRUE)
      BY <2>2 DEF Rollover
    <3>2. last \in DOMAIN d.sessions
      BY <1>1, <2>2
    <3> HIDE DEF last
    <3>3. CountsOrCloses(d, closed)
      BY <1>1, <3>2, FinalizeGood
    <3> HIDE DEF closed, rolled
    <3>4. Good(closed, t, 0, f)
      BY <1>1, <3>3, CountsOrClosesGood
    <3>5. KnownIn(closed, t)
      BY <1>1, <3>3, CountsOrClosesKnown
    <3>6. last \in DOMAIN closed.sessions
      BY <3>2, <3>3, DbFields, <1>1 DEF CountsOrCloses
    <3>7. Asks(closed, EnqueueSession(closed, t, last, TRUE), t, last)
      BY <3>4, <3>6, EnqueueSessionAsks
    <3>8. KnownIn(rolled, t)
      BY <3>1, <3>5, <3>6, <3>7, AsksKnown
    <3> QED
      BY <3>5, <3>8
  <2> QED
    BY <2>1, <2>2
<1> HIDE DEF rolled
<1>4. Good(opened, t, 0, f) /\ SeqOf(opened, sid) # {}
  BY <1>1, <1>2, UpsertGood
<1>5. KnownIn(opened, t)
  BY <1>2, <1>3, UpsertKnown
<1>6. counted = BumpInteraction(opened, i)
  BY DEF CountInteraction
<1> HIDE DEF opened, counted
<1>7. i \in DOMAIN opened.sessions
  BY <1>4 DEF SeqOf
<1> HIDE DEF i
<1>8. CountsOrCloses(opened, counted)
  <2>1. CountsOrCloses(opened, BumpInteraction(opened, i))
    BY <1>1, <1>4, <1>7, BumpGood
  <2> QED
    BY <1>6, <2>1
<1>9. Good(counted, t, 0, f) /\ KnownIn(counted, t)
  BY <1>1, <1>4, <1>5, <1>8, CountsOrClosesGood, CountsOrClosesKnown DEF Good
<1>10. SeqOf(counted, sid) # {}
  BY <1>1, <1>2, CountGood DEF counted
<1>11. Good(rolling, t, 0, f) /\ KnownIn(rolling, t)
  <2>1. Good(rolling, t, 0, f)
    BY <1>1, <1>9, <1>10, CadenceGood
  <2>2. k \in DOMAIN counted.sessions
    BY <1>10 DEF SeqOf
  <2>3. rolling = IF counted.sessions[k].count % UpdateEvery = 0
                  THEN EnqueueSession(counted, t, k, FALSE) ELSE counted
    BY DEF Cadence
  <2> HIDE DEF rolling, k
  <2>4. KnownIn(EnqueueSession(counted, t, k, FALSE), t)
    <3>1. Asks(counted, EnqueueSession(counted, t, k, FALSE), t, k)
      BY <1>9, <2>2, EnqueueSessionAsks
    <3> QED
      BY <1>9, <2>2, <3>1, AsksKnown
  <2> QED
    BY <1>9, <2>1, <2>3, <2>4
<1> HIDE DEF rolling
<1>12. KnownIn(OnInteraction(d, t, sid), t)
  <2>1. KnownIn(EnqueueSummary(rolling), t)
    BY <1>1, <1>11, EnqueueSummaryKnown
  <2> QED
    BY <2>1 DEF OnInteraction, rolling, counted, rolled
<1>13. ASSUME NEW e \in TickCommits(d, t, sid) PROVE KnownIn(e, t)
  <2>1. \/ rolled # d /\ e = closed
        \/ e = rolled \/ e = opened \/ e = counted \/ e = rolling
    BY DEF TickCommits, rolled, opened, counted, rolling
  <2> QED
    BY <1>3, <1>5, <1>9, <1>11, <2>1
<1> QED
  BY <1>12, <1>13

\* _apply_session and the commits inside it.
LEMMA ApplySessionKnown ==
  ASSUME NEW t \in Seq(Turn), NEW d, NEW f, Good(d, t, 0, f), KnownIn(d, t),
         NEW j \in SessionJobs(d)
  PROVE  /\ \A e \in ApplySessionCommits(d, j) : KnownIn(e, t)
         /\ KnownIn(ApplySession(d, j), t)
<1> DEFINE s == SetSessionSummary(d, d.jobs[j].target, d.jobs[j].body.input,
                                  d.jobs[j].body.advance)
           m == Answered(s, j)
<1>1. \A e \in ApplySessionCommits(d, j) : e = s \/ e = m
  BY DEF ApplySessionCommits, Answered
<1>2. ApplySession(d, j) = EnqueueSummary(m)
  BY DEF ApplySession, Answered
<1>3. 0 \in Nat /\ f \in Nat /\ 0 <= f
  BY DEF Good, FoldedUpTo
<1>4. SessionAnswered(d, s, j) /\ s.jobs = d.jobs
  BY SetSummaryEffect
<1>5. /\ SessionAnswered(d, m, j)
      /\ Pending(m.jobs) = Pending(d.jobs) \ {j}
      /\ Good(m, t, 0, f)
  BY <1>3, SessionAnsweredEffect
<1> HIDE DEF s, m
<1>6. KnownIn(s, t) /\ KnownIn(m, t)
  BY <1>4, <1>5, SessionAnsweredKnown
<1>7. KnownIn(EnqueueSummary(m), t)
  BY <1>3, <1>5, <1>6, EnqueueSummaryKnown
<1> QED
  BY <1>1, <1>2, <1>6, <1>7

\* _apply_summary and the commits inside it.
LEMMA ApplySummaryKnown ==
  ASSUME NEW t \in Seq(Turn), NEW d, NEW f, Good(d, t, 0, f), KnownIn(d, t),
         NEW j \in Pending(d.jobs), d.jobs[j].kind = "summary"
  PROVE  /\ \A e \in ApplySummaryCommits(d, j) : KnownIn(e, t)
         /\ KnownIn(ApplySummary(d, j), t)
<1> DEFINE batch == d.jobs[j].body.items
           text == d.jobs[j].body.input
           u == UpsertSummary(d, text, batch)
           folded == MarkFolded(u, batch)
<1>1. \A e \in ApplySummaryCommits(d, j) :
        e = u \/ (\E S : e = MarkFolded(u, S)) \/ e = Answered(folded, j)
  BY DEF ApplySummaryCommits, Answered
<1>2. 0 \in Nat /\ f \in Nat /\ 0 <= f /\ d \in DbType
  BY DEF Good, FoldedUpTo
<1>3. text \subseteq DOMAIN t
  BY DEF KnownIn
<1>4. KnownIn(u, t)
  BY <1>2, <1>3, UpsertSummaryKnown
<1>5. Good(u, t, 0, f) /\ u.jobs = d.jobs
  BY <1>2, UpsertSummaryGood
<1>6. u \in DbType
  BY <1>5 DEF Good
<1> HIDE DEF u, text
<1>7. ASSUME NEW S
      PROVE  /\ MarkFolded(u, S) \in DbType
             /\ MarkFolded(u, S).jobs = d.jobs
             /\ KnownIn(MarkFolded(u, S), t)
  <2> DEFINE e == MarkFolded(u, S)
  <2>1. e \in DbType /\ MarkedOnly(u, e, S)
    BY <1>6, MarkFoldedEffect
  <2> HIDE DEF e
  <2>2. KnownIn(e, t)
    BY <1>4, <2>1, MarkedOnlyKnown
  <2>3. e.jobs = d.jobs
    BY <1>5, <2>1 DEF MarkedOnly
  <2> QED
    BY <2>1, <2>2, <2>3 DEF e
<1>8. KnownIn(Answered(folded, j), t)
  <2>1. folded \in DbType /\ folded.jobs = d.jobs /\ KnownIn(folded, t)
    BY <1>7
  <2> HIDE DEF folded
  <2>2. j \in DOMAIN folded.jobs
    BY <2>1 DEF Pending
  <2> QED
    BY <2>1, <2>2, AnsweredKnown
<1>9. KnownIn(ApplySummary(d, j), t)
  <2>1. PICK m : /\ FoldAnswered(d, m, j)
                 /\ ApplySummary(d, j) = EnqueueSummary(m)
                 /\ \E g : Good(m, t, 0, g)
    BY <1>2, FoldAnsweredEffect
  <2>2. PICK g : Good(m, t, 0, g)
    BY <2>1
  <2>3. KnownIn(m, t)
    <3>1. m.persistent.summary \subseteq DOMAIN t
      BY <2>1 DEF FoldAnswered, KnownIn
    <3>2. \A i \in DOMAIN m.sessions : m.sessions[i].summary \subseteq DOMAIN t
      BY <2>1 DEF FoldAnswered, KnownIn
    <3>3. \A k \in Pending(m.jobs) : m.jobs[k].body.input \subseteq DOMAIN t
      BY <2>1 DEF FoldAnswered, KnownIn
    <3> QED
      BY <3>1, <3>2, <3>3 DEF KnownIn
  <2>4. g \in Nat /\ 0 <= g
    BY <2>2 DEF Good, FoldedUpTo
  <2>5. KnownIn(EnqueueSummary(m), t)
    BY <1>2, <2>2, <2>3, <2>4, EnqueueSummaryKnown
  <2> QED
    BY <2>1, <2>5
<1> QED
  BY <1>1, <1>4, <1>7, <1>8, <1>9

\* finalize.
LEMMA CloseKnown ==
  ASSUME NEW t \in Seq(Turn), NEW d, NEW f, Good(d, t, 0, f), KnownIn(d, t)
  PROVE  KnownIn(FinalizeLast(d, t), t)
<1> DEFINE last == LastSeq(d)
           closed == FinalizeSession(d, last)
<1>1. /\ d \in DbType /\ last = Len(d.sessions) /\ Len(d.sessions) \in Nat
      /\ DOMAIN d.sessions = 1..Len(d.sessions) /\ 0 \in Nat
  BY DbFields DEF Good, LastSeq
<1>2. CASE last = 0
  BY <1>2 DEF FinalizeLast
<1>3. CASE last # 0
  <2>1. FinalizeLast(d, t) = EnqueueSession(closed, t, last, TRUE)
    BY <1>3 DEF FinalizeLast
  <2>2. last \in DOMAIN d.sessions
    BY <1>1, <1>3
  <2> HIDE DEF last
  <2>3. CountsOrCloses(d, closed)
    BY <1>1, <2>2, FinalizeGood
  <2> HIDE DEF closed
  <2>4. Good(closed, t, 0, f) /\ KnownIn(closed, t)
    BY <1>1, <2>3, CountsOrClosesGood, CountsOrClosesKnown
  <2>5. last \in DOMAIN closed.sessions
    BY <1>1, <2>2, <2>3, DbFields DEF CountsOrCloses
  <2>6. Asks(closed, EnqueueSession(closed, t, last, TRUE), t, last)
    BY <2>4, <2>5, EnqueueSessionAsks
  <2> QED
    BY <2>1, <2>4, <2>5, <2>6, AsksKnown
<1> QED
  BY <1>2, <1>3

\* Where no run dies inside an operation, the weaker invariant holds too.
LEMMA GoodFromZero ==
  ASSUME NEW d, NEW t, NEW lo \in Nat, NEW f, Good(d, t, lo, f)
  PROVE  Good(d, t, 0, f)
<1>1. f \in Nat
  BY DEF Good, FoldedUpTo
<1>2. lo..f \subseteq 0..f
  BY <1>1
<1>3. BatchNear(d, 0, f)
  BY <1>2 DEF Good, BatchNear
<1> QED
  BY <1>3 DEF Good

KnownInv == KnownIn(db, turns)

\* What the invariant of Spec says of the tables.
LEMMA TablesAreGood ==
  ASSUME Inv
  PROVE  /\ db.persistent.count \in Nat
         /\ Good(db, turns, db.persistent.count, db.persistent.count)
         /\ Good(db, turns, 0, db.persistent.count)
         /\ db \in DbType /\ turns \in Seq(Turn) /\ run \in Nat
<1>1. db \in DbType
  BY DEF Inv, Good
<1>2. db.persistent.count \in Nat
  BY <1>1, CountIsNat
<1> QED
  BY <1>1, <1>2, GoodFromZero DEF Inv

\* A reader without the lock meets only known turns.
LEMMA VisibleKnown ==
  ASSUME Inv, KnownInv, NEW d \in Visible
  PROVE  KnownIn(d, turns)
<1> DEFINE c == db.persistent.count
<1>1. Good(db, turns, 0, c) /\ turns \in Seq(Turn) /\ run \in Nat
      /\ KnownIn(db, turns) /\ db \in DbType
  BY TablesAreGood DEF KnownInv
<1> HIDE DEF c
<1>2. CASE d = db
  BY <1>1, <1>2
<1>3. CASE d \in TickCommits(db, turns, run)
  BY <1>1, <1>3, TickKnown
<1>4. ASSUME NEW j \in Pending(db.jobs),
             d \in (IF db.jobs[j].kind = "session" THEN ApplySessionCommits(db, j)
                    ELSE ApplySummaryCommits(db, j))
      PROVE  KnownIn(d, turns)
  <2>1. db.jobs[j].kind \in {"session", "summary"}
    BY <1>1, DbFields DEF Pending
  <2>2. CASE db.jobs[j].kind = "session"
    <3>1. j \in SessionJobs(db) /\ d \in ApplySessionCommits(db, j)
      BY <1>4, <2>2 DEF SessionJobs
    <3> QED
      BY <1>1, <3>1, ApplySessionKnown
  <2>3. CASE db.jobs[j].kind = "summary"
    <3>1. d \in ApplySummaryCommits(db, j)
      BY <1>4, <2>3
    <3> QED
      BY <1>1, <2>3, <3>1, ApplySummaryKnown
  <2> QED
    BY <2>1, <2>2, <2>3
<1> QED
  BY <1>2, <1>3, <1>4 DEF Visible

\* Every step keeps it.
LEMMA KnownStep ==
  ASSUME Inv, KnownInv, [Next]_vars
  PROVE  KnownInv'
<1> DEFINE c == db.persistent.count
<1>1. Good(db, turns, 0, c) /\ turns \in Seq(Turn) /\ run \in Nat
      /\ KnownIn(db, turns) /\ db \in DbType
  BY TablesAreGood DEF KnownInv
<1> HIDE DEF c
<1>2. ASSUME NEW w \in Ingesters, NEW role, LogTurn(w, role)
      PROVE  KnownInv'
  <2>1. DOMAIN turns \subseteq DOMAIN turns' /\ db' = db
    BY <1>1, <1>2 DEF LogTurn
  <2> QED
    BY <1>1, <2>1 DEF KnownInv, KnownIn
<1>3. ASSUME NEW w \in Ingesters, Tick(w)
      PROVE  KnownInv'
  <2>1. KnownIn(OnInteraction(db, turns, run), turns)
    BY <1>1, TickKnown
  <2> QED
    BY <1>3, <2>1 DEF Tick, KnownInv
<1>4. ASSUME NEW j \in DOMAIN db.jobs, Submit(j)
      PROVE  KnownInv'
  <2>1. db.jobs[j].kind \in {"session", "summary"}
    BY <1>1, DbFields
  <2>2. CASE j \notin Pending(db.jobs)
    BY <1>1, <1>4, <2>2 DEF Submit, KnownInv
  <2>3. CASE j \in SessionJobs(db)
    <3>1. KnownIn(ApplySession(db, j), turns)
      BY <1>1, <2>3, ApplySessionKnown
    <3> QED
      BY <1>4, <2>3, <3>1 DEF Submit, KnownInv, SessionJobs
  <2>4. CASE j \in Pending(db.jobs) /\ db.jobs[j].kind = "summary"
    <3>1. KnownIn(ApplySummary(db, j), turns)
      BY <1>1, <2>4, ApplySummaryKnown
    <3> QED
      BY <1>4, <2>4, <3>1 DEF Submit, KnownInv
  <2> QED
    BY <2>1, <2>2, <2>3, <2>4 DEF SessionJobs
<1>5. CASE Reopen
  <2>1. KnownIn(FinalizeLast(db, turns), turns)
    BY <1>1, CloseKnown
  <2> QED
    BY <1>5, <2>1 DEF Reopen, KnownInv
<1>6. CASE Crash
  BY <1>1, <1>6 DEF Crash, KnownInv
<1>7. ASSUME NEW w \in Ingesters, EpisodicFails(w)
      PROVE  KnownInv'
  BY <1>1, <1>7 DEF EpisodicFails, KnownInv
<1>8. CASE UNCHANGED vars
  BY <1>1, <1>8 DEF vars, KnownInv
<1> QED
  BY <1>2, <1>3, <1>4, <1>5, <1>6, <1>7, <1>8 DEF Next, LogUser, LogAssistant

\* A step beside which an assemble goes on is one of the diary.
LEMMA ContextStepIsDiaryStep ==
  ASSUME [ContextNext]_contextVars
  PROVE  [Next]_vars
<1>1. DiligentNext => Next
  BY DEF DiligentNext, ClosingNext, Next
<1> QED
  BY <1>1 DEF ContextNext, AssembleBegin, AssembleRead, contextVars, vars

\* The invariant of Spec holds beside an assemble too.
THEOREM ContextInvariance == ContextSpec => [](Inv /\ KnownInv)
<1>1. Init => Inv /\ KnownInv
  <2> SUFFICES ASSUME Init PROVE Inv /\ KnownInv
    OBVIOUS
  <2>1. /\ DOMAIN db.sessions = {} /\ DOMAIN db.jobs = {}
        /\ db.persistent.summary = {}
    BY DEF Init
  <2> QED
    BY <2>1, InvInitially DEF KnownInv, KnownIn, Pending
<1>2. Inv /\ KnownInv /\ [ContextNext]_contextVars => (Inv /\ KnownInv)'
  BY ContextStepIsDiaryStep, InvStep, KnownStep
<1> QED
  BY <1>1, <1>2, PTL DEF ContextSpec

\* The four sections.
LEMMA FourSections ==
  /\ Len(ReadOrder) = 4
  /\ ReadOrder[1] = "recent"
  /\ ReadOrder[2] = "current"
  /\ ReadOrder[3] = "previous"
  /\ ReadOrder[4] = "persistent"
  BY DEF ReadOrder

\* A section tells only of turns that were logged.
LEMMA SectionKnown ==
  ASSUME NEW d, NEW t, KnownIn(d, t), NEW sid, NEW k \in 1..4
  PROVE  Section(ReadOrder[k], d, t, sid) \subseteq DOMAIN t
<1>1. RecentDialogue(t) \subseteq DOMAIN t
  BY DEF RecentDialogue, NewestK
<1>2. \A which \in SUBSET DOMAIN d.sessions : Summaries(d, which) \subseteq DOMAIN t
  BY DEF Summaries, KnownIn
<1>3. SeqOf(d, sid) \in SUBSET DOMAIN d.sessions
  BY DEF SeqOf
<1>4. PreviousFinalized(d, sid) \in SUBSET DOMAIN d.sessions
  BY DEF PreviousFinalized, NewestK
<1>5. d.persistent.summary \subseteq DOMAIN t
  BY DEF KnownIn
<1>6. k = 1 \/ k = 2 \/ k = 3 \/ k = 4
  OBVIOUS
<1>7. /\ Section("recent", d, t, sid) = RecentDialogue(t)
      /\ Section("current", d, t, sid) = Summaries(d, SeqOf(d, sid))
      /\ Section("previous", d, t, sid) = Summaries(d, PreviousFinalized(d, sid))
      /\ Section("persistent", d, t, sid) = d.persistent.summary
  BY DEF Section
<1> QED
  BY <1>1, <1>2, <1>3, <1>4, <1>5, <1>6, <1>7, FourSections

\* The log only grows.
LEMMA LogGrows ==
  ASSUME Inv, [Next]_vars
  PROVE  DOMAIN turns \subseteq DOMAIN turns'
<1>1. turns \in Seq(Turn)
  BY DEF Inv
<1>2. ASSUME NEW w, NEW role, LogTurn(w, role)
      PROVE  DOMAIN turns \subseteq DOMAIN turns'
  BY <1>1, <1>2 DEF LogTurn
<1>3. turns' = turns \/ (\E w, role : LogTurn(w, role))
  BY DEF Next, LogUser, LogAssistant, EpisodicFails, Tick, Submit, Reopen,
         Crash, vars
<1> QED
  BY <1>2, <1>3

\* Every step of ContextSpec keeps the types of the assemble.
LEMMA ContextTypeStep ==
  ASSUME Inv, KnownInv, ContextTypeOK, [ContextNext]_contextVars
  PROVE  ContextTypeOK'
<1>1. /\ asm.read \in 0..4 /\ asm.shown \subseteq DOMAIN turns
      /\ asm.owed \subseteq DOMAIN turns
      /\ asm = [read |-> asm.read, shown |-> asm.shown, owed |-> asm.owed]
  BY FourSections DEF ContextTypeOK
<1>2. DOMAIN turns \subseteq DOMAIN turns'
  BY ContextStepIsDiaryStep, LogGrows
<1> SUFFICES \E read \in 0..4, shown \in SUBSET DOMAIN turns,
                owed \in SUBSET DOMAIN turns :
               asm' = [read |-> read, shown |-> shown, owed |-> owed]
  BY <1>2, FourSections DEF ContextTypeOK
<1>3. CASE asm' = asm
  BY <1>1, <1>3
<1>4. CASE asm' = NoAssemble
  <2>1. 0 \in 0..4 /\ {} \in SUBSET DOMAIN turns
    OBVIOUS
  <2>2. asm' = [read |-> 0, shown |-> {}, owed |-> {}]
    BY <1>4 DEF NoAssemble
  <2> QED
    BY <2>1, <2>2
<1>5. ASSUME NEW d \in Visible, NEW k \in 1..4
      PROVE  Section(ReadOrder[k], d, turns, run) \subseteq DOMAIN turns
  <2>1. KnownIn(d, turns)
    BY VisibleKnown
  <2> QED
    BY <2>1, SectionKnown
<1>6. CASE AssembleBegin
  <2>1. PICK d \in Visible :
          asm' = [read |-> 1, shown |-> Section(ReadOrder[1], d, turns, run),
                  owed |-> IF Pending(db.jobs) = {} THEN Remembered ELSE {}]
    BY <1>6 DEF AssembleBegin
  <2>2. Remembered \subseteq DOMAIN turns
    BY DEF Remembered
  <2> DEFINE shown == Section(ReadOrder[1], d, turns, run)
             owed == IF Pending(db.jobs) = {} THEN Remembered ELSE {}
  <2>3. 1 \in 0..4 /\ shown \in SUBSET DOMAIN turns /\ owed \in SUBSET DOMAIN turns
    BY <1>5, <2>2
  <2>4. asm' = [read |-> 1, shown |-> shown, owed |-> owed]
    BY <2>1
  <2> HIDE DEF shown, owed
  <2> QED
    BY <2>3, <2>4
<1>7. CASE AssembleRead
  <2>1. PICK d \in Visible :
          asm' = [asm EXCEPT !.read = @ + 1,
                    !.shown = @ \cup Section(ReadOrder[asm.read + 1], d,
                                             turns, run)]
    BY <1>7 DEF AssembleRead
  <2>2. asm.read \in 1..3
    BY <1>7, FourSections DEF AssembleRead
  <2> DEFINE shown == asm.shown \cup Section(ReadOrder[asm.read + 1], d, turns, run)
  <2>3. asm.read + 1 \in 0..4 /\ asm.read + 1 \in 1..4
    BY <2>2
  <2>4. shown \in SUBSET DOMAIN turns
    BY <1>1, <1>5, <2>3
  <2>5. asm' = [read |-> asm.read + 1, shown |-> shown, owed |-> asm.owed]
    BY <1>1, <2>1
  <2> HIDE DEF shown
  <2> QED
    BY <1>1, <2>3, <2>4, <2>5
<1> QED
  BY <1>3, <1>4, <1>6, <1>7 DEF ContextNext, contextVars

\* An assemble tells only of turns that were logged, and owes no others.
THEOREM ContextTypeCorrect == ContextSpec => []ContextTypeOK
<1>1. Init /\ asm = NoAssemble => ContextTypeOK
  BY FourSections DEF NoAssemble, ContextTypeOK
<1>2. Inv /\ KnownInv /\ ContextTypeOK /\ [ContextNext]_contextVars
        => ContextTypeOK'
  BY ContextTypeStep
<1> QED
  BY <1>1, <1>2, ContextInvariance, PTL DEF ContextSpec

(***************************************************************************)
(* One pipeline thread and a diligent host: what the outbox says of the    *)
(* sessions.                                                               *)
(***************************************************************************)

\* Every session but the live run's is closed and none is without turns; a
\* session job that waits is the newest session's; while that is open no fold
\* is due or waits.
Quiet(d, t, r) ==
  /\ \A i \in DOMAIN d.sessions :
       /\ d.sessions[i].sid # r => d.sessions[i].finalized
       /\ OwnTurns(t, d.sessions[i].sid) # {}
  /\ \A j \in SessionJobs(d) : d.jobs[j].target = LastSeq(d)
  /\ LastSeq(d) # 0 /\ ~d.sessions[LastSeq(d)].finalized =>
       ~FoldDue(d) /\ ~FoldWaits(d)

\* And an empty outbox means that no fold is due.
Calm(d, t, r) ==
  /\ Quiet(d, t, r)
  /\ Pending(d.jobs) = {} => ~FoldDue(d)

\* _enqueue_session leaves no turn of the session unaccounted for, and with
\* force it leaves a job.
LEMMA EnqueueSessionAccounts ==
  ASSUME NEW t \in Seq(Turn), NEW r \in Nat, NEW d, NEW lo, NEW f,
         Good(d, t, lo, f), NEW i \in DOMAIN d.sessions,
         NEW force \in BOOLEAN, NEW x, Whole(d, t, r, x)
  PROVE  LET e == EnqueueSession(d, t, i, force)
         IN /\ Accounted(e, t, i)
            /\ force /\ OwnTurns(t, d.sessions[i].sid) # {} => Pending(e.jobs) # {}
<1> DEFINE e == EnqueueSession(d, t, i, force)
           row == d.sessions[i]
           own == OwnTurns(t, row.sid)
           window == RecentTurns(t, row.sid, row.covered)
           body == SessionBody(row, window)
           new == EnqueueJob(d.jobs, "session", i, body)
<1>1. /\ d \in DbType /\ row \in Session /\ i \in Nat
      /\ row.sid \in Nat /\ row.covered \in Nat /\ d.jobs \in Seq(Jobs)
  BY DbFields DEF Good
<1>2. TurnsPaired(t, r) /\ RowWhole(row, t, r)
  BY DEF Whole
<1>3. row.covered = 0 \/ row.covered \in own
  BY DEF Good, CoveredIsOwn
<1>4. /\ \A n \in own : n > row.covered => n \in window
      /\ own # {} => window # {}
  <2> HIDE DEF row
  <2> QED
    BY <1>1, <1>2, <1>3, WindowMissesNothingNew DEF RowWhole
<1>5. /\ window \in SUBSET own
      /\ window # {} => \A n \in own : n <= Max(window)
  <2> HIDE DEF row
  <2> QED
    BY <1>1, WindowReachesNewest
<1>6. own \in SUBSET Nat
  BY DEF OwnTurns
<1>7. e = IF Skipped(row, window, force) THEN d ELSE [d EXCEPT !.jobs = new]
  BY DEF EnqueueSession
<1>8. /\ e \in DbType /\ e.sessions = d.sessions
      /\ \/ e.jobs = d.jobs
         \/ body \in Body /\ e.jobs = new
  BY <1>1, EnqueueSessionShape
<1>9. CASE Skipped(row, window, force)
  <2>1. e = d
    BY <1>7, <1>9
  <2>2. \A n \in own : n <= row.covered
    <3>1. CASE window = {}
      BY <1>1, <1>4, <1>6, <3>1
    <3>2. CASE window # {} /\ Max(window) = row.covered
      BY <1>5, <3>2
    <3> QED
      BY <1>9, <3>1, <3>2 DEF Skipped
  <2>3. force => own = {}
    BY <1>4, <1>9 DEF Skipped
  <2> HIDE DEF window, body, new, e
  <2>4. Accounted(e, t, i)
    BY <2>1, <2>2 DEF Accounted
  <2> QED
    BY <2>3, <2>4 DEF e
<1>10. CASE ~Skipped(row, window, force)
  <2>1. window # {} /\ e.jobs = new
    <3>1. e = [d EXCEPT !.jobs = new]
      BY <1>7, <1>10
    <3> HIDE DEF e, new
    <3> QED
      BY <1>1, <1>10, <3>1 DEF Skipped, DbType
  <2>2. body.advance = Max(window)
    BY DEF SessionBody
  <2>3. body \in Body
    <3>1. row.summary \in SUBSET Nat
      BY <1>1 DEF Session, TurnIds
    <3>2. Max(window) \in Nat
      <4>1. window \in SUBSET DOMAIN t
        BY <1>5 DEF OwnTurns
      <4> HIDE DEF window
      <4> QED
        BY <2>1, <4>1, NewestTurn
    <3> HIDE DEF row, window, own
    <3> QED
      BY <1>5, <1>6, <3>1, <3>2 DEF SessionBody, Body, TurnIds
  <2> HIDE DEF body
  <2>4. EnqueueLeaves(d.jobs, new, "session", i, body)
    BY <1>1, <2>3, EnqueueLeavesWaiting DEF Jobs
  <2>5. /\ NewJob("session", i, body).kind = "session"
        /\ NewJob("session", i, body).target = i
        /\ NewJob("session", i, body).body = body
    BY DEF NewJob
  <2>6. PICK k \in Pending(new) : new[k] = NewJob("session", i, body)
    BY <2>4 DEF EnqueueLeaves
  <2> HIDE DEF new, e
  <2>7. k \in SessionJobs(e) /\ k \in Pending(e.jobs)
    BY <2>1, <2>5, <2>6 DEF SessionJobs
  <2>8. \A n \in own : n <= e.jobs[k].body.advance
    BY <1>5, <2>1, <2>2, <2>5, <2>6
  <2>9. Accounted(e, t, i)
    BY <1>8, <2>1, <2>5, <2>6, <2>7, <2>8 DEF Accounted
  <2> QED
    BY <2>7, <2>9 DEF e
<1> QED
  BY <1>9, <1>10

\* The live run's session is the newest and open.
LEMMA RunRow ==
  ASSUME NEW d, NEW t, NEW lo, NEW f, NEW r \in Nat,
         Good(d, t, lo, f), Whole(d, t, r, 0),
         NEW i \in DOMAIN d.sessions, d.sessions[i].sid = r
  PROVE  i = LastSeq(d) /\ ~d.sessions[i].finalized
<1>1. /\ LastSeq(d) = Len(d.sessions) /\ Len(d.sessions) \in Nat
      /\ DOMAIN d.sessions = 1..Len(d.sessions)
  BY DbFields DEF Good, LastSeq
<1>2. i # 0 /\ i \in Nat /\ i <= LastSeq(d)
  BY <1>1
<1>3. ~d.sessions[i].finalized
  <2>1. d.sessions[i].finalized => d.sessions[i].sid < r
    BY <1>2 DEF Whole, ClosedWhole
  <2> QED
    BY <2>1
<1>4. ~(i < LastSeq(d))
  BY <1>3 DEF Good, ClosedInOrder
<1> QED
  BY <1>1, <1>2, <1>3, <1>4

\* So no session is left to close when it is counted.
LEMMA NoRollover ==
  ASSUME NEW d \in DbType, NEW t, NEW r, Quiet(d, t, r)
  PROVE  Rollover(d, t, r) = d
<1>1. /\ LastSeq(d) = Len(d.sessions) /\ Len(d.sessions) \in Nat
      /\ DOMAIN d.sessions = 1..Len(d.sessions)
  BY DbFields DEF LastSeq
<1>2. \/ LastSeq(d) = 0
      \/ d.sessions[LastSeq(d)].sid = r
      \/ d.sessions[LastSeq(d)].finalized
  <2>1. LastSeq(d) # 0 => LastSeq(d) \in DOMAIN d.sessions
    BY <1>1
  <2> QED
    BY <2>1 DEF Quiet
<1> QED
  BY <1>2 DEF Rollover

\* bump_interaction counts one interaction.
LEMMA BumpCounts ==
  ASSUME NEW d \in DbType, NEW i \in DOMAIN d.sessions
  PROVE  BumpInteraction(d, i).sessions[i].count = d.sessions[i].count + 1
<1> DEFINE e == BumpInteraction(d, i)
           row == [d.sessions[i] EXCEPT !.count = @ + 1]
<1>1. d.sessions[i] \in Session /\ d.sessions[i].count \in Nat
  BY DbFields
<1>2. e = [d EXCEPT !.sessions = [@ EXCEPT ![i] = row]]
  BY DEF BumpInteraction
<1>3. row \in Session /\ row.count = d.sessions[i].count + 1
  BY <1>1 DEF Session
<1> HIDE DEF row, e
<1>4. e.sessions[i] = row
  BY <1>2, <1>3, ReplaceRow
<1> QED
  BY <1>3, <1>4 DEF e

\* Tables e are d, of which sessions were counted and one may have been
\* opened for run r; jobs apart.
OpensRow(d, e, r) ==
  /\ e.persistent = d.persistent
  /\ \A i \in DOMAIN d.sessions :
       /\ i \in DOMAIN e.sessions
       /\ e.sessions[i].sid = d.sessions[i].sid
       /\ e.sessions[i].summary = d.sessions[i].summary
       /\ e.sessions[i].covered = d.sessions[i].covered
       /\ e.sessions[i].finalized = d.sessions[i].finalized
       /\ e.sessions[i].folded = d.sessions[i].folded
  /\ \A i \in DOMAIN e.sessions : i \notin DOMAIN d.sessions =>
       /\ e.sessions[i].sid = r
       /\ e.sessions[i].summary = {}
       /\ ~e.sessions[i].finalized
       /\ ~e.sessions[i].folded

\* Run r has a session.
HasRow(d, u, r) ==
  /\ OpensRow(d, u, r)
  /\ u.jobs = d.jobs
  /\ SeqOf(u, r) # {}
  /\ SeqOf(d, r) # {} => u = d
  /\ SeqOf(d, r) = {} => u.sessions[LastSeq(u)].count = 0

\* Run r's interaction is counted.
CountsRow(d, c, r) ==
  /\ OpensRow(d, c, r)
  /\ c.jobs = d.jobs
  /\ LastSeq(c) \in DOMAIN c.sessions
  /\ SeqOf(c, r) = {LastSeq(c)}
  /\ SeqOf(d, r) = {} => c.sessions[LastSeq(c)].count = 1
  /\ SeqOf(d, r) # {} =>
       /\ LastSeq(c) = LastSeq(d)
       /\ c.sessions[LastSeq(c)].count = d.sessions[LastSeq(d)].count + 1

\* It makes no fold due.
LEMMA OpensRowFolds ==
  ASSUME NEW d, NEW e, NEW r, OpensRow(d, e, r)
  PROVE  FoldDue(e) <=> FoldDue(d)
<1>1. FinalizedUnfolded(e) = FinalizedUnfolded(d)
  BY DEF OpensRow, FinalizedUnfolded
<1> QED
  BY <1>1 DEF FoldDue

\* upsert_session.
LEMMA UpsertOpens ==
  ASSUME NEW t \in Seq(Turn), NEW d, NEW lo \in Nat, NEW f, NEW r \in Nat,
         Good(d, t, lo, f), Whole(d, t, r, 0), Quiet(d, t, r),
         NEW u, u = UpsertSession(d, r)
  PROVE  HasRow(d, u, r) /\ Good(u, t, lo, f) /\ Whole(u, t, r, 0)
<1>1. d \in DbType /\ Rollover(d, t, r) = d
  BY NoRollover DEF Good
<1>2. MayOpen(d, r)
  BY <1>1, RolloverGood
<1>3. Good(u, t, lo, f) /\ SeqOf(u, r) # {}
  BY <1>2, UpsertGood
<1>4. /\ Keeps(d, u, r, 0)
      /\ u.jobs = d.jobs
      /\ u.persistent = d.persistent
      /\ \A i \in DOMAIN d.sessions : u.sessions[i] = d.sessions[i]
      /\ SeqOf(d, r) # {} => u = d
      /\ SeqOf(d, r) = {} =>
           /\ LastSeq(u) = LastSeq(d) + 1
           /\ u.sessions[LastSeq(u)] = NewSession(r)
  BY UpsertKeeps
<1>5. Whole(u, t, r, 0)
  BY <1>4, KeepsWhole
<1>6. /\ LastSeq(d) = Len(d.sessions) /\ Len(d.sessions) \in Nat
      /\ DOMAIN d.sessions = 1..Len(d.sessions)
      /\ LastSeq(u) = Len(u.sessions) /\ Len(u.sessions) \in Nat
      /\ DOMAIN u.sessions = 1..Len(u.sessions)
  BY <1>1, <1>3, DbFields DEF Good, LastSeq
<1>7. /\ NewSession(r).sid = r /\ NewSession(r).summary = {}
      /\ ~NewSession(r).finalized /\ ~NewSession(r).folded
      /\ NewSession(r).count = 0
  BY DEF NewSession
<1>8. ASSUME NEW i \in DOMAIN u.sessions, i \notin DOMAIN d.sessions
      PROVE  u.sessions[i] = NewSession(r)
  <2>1. SeqOf(d, r) = {}
    BY <1>4, <1>8
  <2>2. i = LastSeq(u)
    BY <1>4, <1>6, <1>8, <2>1
  <2> QED
    BY <1>4, <2>1, <2>2
<1>9. \A i \in DOMAIN d.sessions : i \in DOMAIN u.sessions
  BY <1>4 DEF Keeps
<1>10. OpensRow(d, u, r)
  BY <1>4, <1>7, <1>8, <1>9 DEF OpensRow
<1> QED
  BY <1>3, <1>4, <1>5, <1>7, <1>10 DEF HasRow

\* Step 2 of on_interaction.
LEMMA CountCounts ==
  ASSUME NEW t \in Seq(Turn), NEW d, NEW lo \in Nat, NEW f, NEW r \in Nat,
         Good(d, t, lo, f), Whole(d, t, r, 0), Quiet(d, t, r)
  PROVE  LET c == CountInteraction(d, r)
         IN CountsRow(d, c, r) /\ Good(c, t, lo, f) /\ Whole(c, t, r, 0)
<1> DEFINE u == UpsertSession(d, r)
<1>0. HasRow(d, u, r) /\ Good(u, t, lo, f) /\ Whole(u, t, r, 0)
  BY UpsertOpens
<1>1. /\ OpensRow(d, u, r)
      /\ u.jobs = d.jobs
      /\ SeqOf(u, r) # {}
      /\ Good(u, t, lo, f) /\ Whole(u, t, r, 0)
      /\ SeqOf(d, r) # {} => u = d
      /\ SeqOf(d, r) = {} => u.sessions[LastSeq(u)].count = 0
  BY <1>0 DEF HasRow
<1> DEFINE i == CHOOSE n \in SeqOf(u, r) : TRUE
           c == BumpInteraction(u, i)
<1>2. CountInteraction(d, r) = c
  BY DEF CountInteraction
<1> HIDE DEF u
<1>3. i \in SeqOf(u, r) /\ i \in DOMAIN u.sessions /\ u.sessions[i].sid = r
  BY <1>1 DEF SeqOf
<1>4. u \in DbType
  BY <1>1 DEF Good
<1> HIDE DEF i
<1>5. i = LastSeq(u)
  BY <1>1, <1>3, RunRow
<1>6. /\ CountsOrCloses(u, c)
      /\ \A n \in DOMAIN u.sessions :
           c.sessions[n].finalized = u.sessions[n].finalized
      /\ c.sessions[i].count = u.sessions[i].count + 1
  BY <1>1, <1>3, <1>4, BumpGood, BumpCounts
<1> HIDE DEF c
<1>7. Good(c, t, lo, f) /\ Keeps(u, c, r, 0)
  BY <1>1, <1>6, CountsOrClosesGood, CountsOrClosesKeeps
<1>8. Whole(c, t, r, 0)
  BY <1>1, <1>7, KeepsWhole
<1>9. DOMAIN c.sessions = DOMAIN u.sessions /\ LastSeq(c) = LastSeq(u)
  <2>1. c \in DbType
    BY <1>7 DEF Good
  <2> QED
    BY <1>4, <1>6, <2>1, DbFields DEF CountsOrCloses, LastSeq
<1>10. OpensRow(d, c, r)
  <2>1. c.persistent = d.persistent
    BY <1>1, <1>6 DEF CountsOrCloses, OpensRow
  <2>2. ASSUME NEW n \in DOMAIN u.sessions
        PROVE  /\ c.sessions[n].sid = u.sessions[n].sid
               /\ c.sessions[n].summary = u.sessions[n].summary
               /\ c.sessions[n].covered = u.sessions[n].covered
               /\ c.sessions[n].finalized = u.sessions[n].finalized
               /\ c.sessions[n].folded = u.sessions[n].folded
    BY <1>6 DEF CountsOrCloses
  <2>3. \A n \in DOMAIN d.sessions :
          /\ n \in DOMAIN c.sessions
          /\ c.sessions[n].sid = d.sessions[n].sid
          /\ c.sessions[n].summary = d.sessions[n].summary
          /\ c.sessions[n].covered = d.sessions[n].covered
          /\ c.sessions[n].finalized = d.sessions[n].finalized
          /\ c.sessions[n].folded = d.sessions[n].folded
    BY <1>1, <1>9, <2>2 DEF OpensRow
  <2>4. \A n \in DOMAIN c.sessions : n \notin DOMAIN d.sessions =>
          /\ c.sessions[n].sid = r
          /\ c.sessions[n].summary = {}
          /\ ~c.sessions[n].finalized
          /\ ~c.sessions[n].folded
    BY <1>1, <1>9, <2>2 DEF OpensRow
  <2> QED
    BY <2>1, <2>3, <2>4 DEF OpensRow
<1>11. SeqOf(c, r) = {LastSeq(c)} /\ LastSeq(c) \in DOMAIN c.sessions
  <2>1. \A n \in SeqOf(c, r) : n = LastSeq(c)
    BY <1>7, <1>8, RunRow DEF SeqOf
  <2>2. i \in SeqOf(c, r)
    BY <1>3, <1>6, <1>9 DEF SeqOf, CountsOrCloses
  <2> QED
    BY <1>3, <1>5, <1>9, <2>1, <2>2
<1>12. SeqOf(d, r) = {} => c.sessions[LastSeq(c)].count = 1
  BY <1>1, <1>5, <1>6, <1>9
<1>13. SeqOf(d, r) # {} =>
         /\ LastSeq(c) = LastSeq(d)
         /\ c.sessions[LastSeq(c)].count = d.sessions[LastSeq(d)].count + 1
  BY <1>1, <1>5, <1>6, <1>9
<1>14. c.jobs = d.jobs
  BY <1>1, <1>6 DEF CountsOrCloses
<1>15. CountsRow(d, c, r)
  BY <1>10, <1>11, <1>12, <1>13, <1>14 DEF CountsRow
<1> QED
  BY <1>2, <1>7, <1>8, <1>15

\* Every commit of a tick.
LEMMA TickCommitsOpen ==
  ASSUME NEW t \in Seq(Turn), NEW d, NEW lo \in Nat, NEW f, NEW r \in Nat,
         Good(d, t, lo, f), Whole(d, t, r, 0), Quiet(d, t, r),
         NEW e \in TickCommits(d, t, r)
  PROVE  OpensRow(d, e, r)
<1> DEFINE c == CountInteraction(d, r)
           k == Cadence(c, t, r)
<1>1. Rollover(d, t, r) = d
  BY NoRollover DEF Good
<1>2. e = d \/ e = UpsertSession(d, r) \/ e = c \/ e = k
  BY <1>1 DEF TickCommits
<1>3. OpensRow(d, d, r)
  BY DEF OpensRow
<1>4. OpensRow(d, UpsertSession(d, r), r)
  BY UpsertOpens DEF HasRow
<1>5. CountsRow(d, c, r) /\ Good(c, t, lo, f)
  BY CountCounts
<1> HIDE DEF c
<1>6. OpensRow(d, k, r)
  <2>0. LastSeq(c) \in SeqOf(c, r)
    BY <1>5 DEF CountsRow
  <2>1. k.sessions = c.sessions /\ k.persistent = c.persistent
    BY <1>5, <2>0, CadenceGood
  <2> HIDE DEF k
  <2> QED
    BY <1>5, <2>1 DEF CountsRow, OpensRow
<1> QED
  BY <1>2, <1>3, <1>4, <1>5, <1>6 DEF CountsRow

\* The same rows are as many rows.
LEMMA SameRows ==
  ASSUME NEW d \in DbType, NEW e \in DbType, DOMAIN e.sessions = DOMAIN d.sessions
  PROVE  LastSeq(e) = LastSeq(d)
<1> DEFINE a == Len(d.sessions)
           b == Len(e.sessions)
<1>1. a \in Nat /\ b \in Nat /\ 1..a = 1..b
  BY DbFields
<1> HIDE DEF a, b
<1>2. ~(a < b)
  <2> SUFFICES ASSUME a < b PROVE FALSE
    OBVIOUS
  <2>1. b \in 1..b /\ b \notin 1..a
    BY <1>1
  <2> QED
    BY <1>1, <2>1
<1>3. ~(b < a)
  <2> SUFFICES ASSUME b < a PROVE FALSE
    OBVIOUS
  <2>1. a \in 1..a /\ a \notin 1..b
    BY <1>1
  <2> QED
    BY <1>1, <2>1
<1>4. a = b
  BY <1>1, <1>2, <1>3
<1> QED
  BY <1>4 DEF a, b, LastSeq

\* What a diligent host's tick does: the interaction is counted, and every
\* UpdateEvery-th a job of its session waits.
TickEffect(d, c, e, t, r) ==
  /\ CountsRow(d, c, r)
  /\ Asks(c, e, t, LastSeq(c))
  /\ c.sessions[LastSeq(c)].count % UpdateEvery = 0 =>
       Accounted(e, t, LastSeq(c))

\* A tick of a calm diary, when the interaction just logged is the newest.
\* The tables it leaves are those of TickEffect.
LEMMA CalmTick ==
  ASSUME NEW t \in Seq(Turn), NEW d, NEW lo \in Nat, NEW f, NEW r \in Nat,
         Good(d, t, lo, f), Whole(d, t, r, 0), Calm(d, t, r),
         Pending(d.jobs) = {}
  PROVE  TickEffect(d, CountInteraction(d, r), OnInteraction(d, t, r), t, r)
<1> DEFINE c == CountInteraction(d, r)
           k == Cadence(c, t, r)
           i == CHOOSE n \in SeqOf(c, r) : TRUE
<1>1. Rollover(d, t, r) = d
  BY NoRollover DEF Good, Calm
<1>2. CountsRow(d, c, r) /\ Good(c, t, lo, f) /\ Whole(c, t, r, 0)
  BY CountCounts DEF Calm
<1>3. OnInteraction(d, t, r) = EnqueueSummary(k)
  BY <1>1 DEF OnInteraction
<1> HIDE DEF c
<1>4. i = LastSeq(c) /\ LastSeq(c) \in DOMAIN c.sessions
      /\ SeqOf(c, r) # {}
  BY <1>2 DEF CountsRow
<1>5. k = IF c.sessions[i].count % UpdateEvery = 0
          THEN EnqueueSession(c, t, i, FALSE) ELSE c
  BY DEF Cadence
<1>6. /\ Good(k, t, lo, f)
      /\ k.sessions = c.sessions /\ k.persistent = c.persistent
  BY <1>2, <1>4, CadenceGood
<1> HIDE DEF k, i
<1>7. EnqueueSummary(k) = k
  <2>1. ~FoldDue(c)
    BY <1>2, OpensRowFolds DEF CountsRow, Calm
  <2>2. ~FoldDue(k)
    BY <1>6, <2>1 DEF FoldDue, FinalizedUnfolded
  <2> QED
    BY <2>2 DEF EnqueueSummary
<1>8. CASE c.sessions[i].count % UpdateEvery = 0
  <2>1. k = EnqueueSession(c, t, i, FALSE)
    BY <1>5, <1>8
  <2>2. Asks(c, k, t, i)
    BY <1>2, <1>4, <2>1, EnqueueSessionAsks
  <2>3. Accounted(k, t, i)
    BY <1>2, <1>4, <2>1, EnqueueSessionAccounts
  <2> QED
    BY <1>2, <1>3, <1>4, <1>7, <2>2, <2>3 DEF TickEffect, c
<1>9. CASE ~(c.sessions[i].count % UpdateEvery = 0)
  <2>1. k = c
    BY <1>5, <1>9
  <2>2. Asks(c, c, t, i)
    BY DEF Asks
  <2> QED
    BY <1>2, <1>3, <1>4, <1>7, <1>9, <2>1, <2>2 DEF TickEffect, c
<1> QED
  BY <1>8, <1>9

\* The tick leaves it calm.
LEMMA TickCalm ==
  ASSUME NEW t, NEW d, NEW c, NEW e, NEW r, Calm(d, t, r),
         Pending(d.jobs) = {}, TickEffect(d, c, e, t, r), OwnTurns(t, r) # {}
  PROVE  Calm(e, t, r)
<1>1. /\ OpensRow(d, c, r) /\ c.jobs = d.jobs /\ SeqOf(c, r) = {LastSeq(c)}
      /\ Asks(c, e, t, LastSeq(c))
  BY DEF TickEffect, CountsRow
<1>2. e.sessions = c.sessions /\ LastSeq(e) = LastSeq(c)
  BY <1>1 DEF Asks, LastSeq
<1>3. \A i \in DOMAIN e.sessions :
        /\ e.sessions[i].sid # r => e.sessions[i].finalized
        /\ OwnTurns(t, e.sessions[i].sid) # {}
  BY <1>1, <1>2 DEF OpensRow, Calm, Quiet
<1>4. \A k \in Pending(e.jobs) :
        e.jobs[k].kind = "session" /\ e.jobs[k].target = LastSeq(e)
  BY <1>1, <1>2 DEF Asks
<1>5. ~FoldDue(e) /\ ~FoldWaits(e)
  <2>1. ~FoldDue(c)
    BY <1>1, OpensRowFolds DEF Calm
  <2>2. ~FoldDue(e)
    BY <1>2, <2>1 DEF FoldDue, FinalizedUnfolded
  <2> QED
    BY <1>4, <2>2 DEF FoldWaits
<1> QED
  BY <1>3, <1>4, <1>5 DEF Calm, Quiet, SessionJobs

\* The fold trigger at the end of an answer settles the outbox.
LEMMA SettlesCalm ==
  ASSUME NEW t, NEW r, NEW m, NEW e, Quiet(m, t, r), FoldsIfDue(m, e)
  PROVE  Calm(e, t, r)
<1>1. /\ e.sessions = m.sessions /\ LastSeq(e) = LastSeq(m)
      /\ SessionJobs(e) = SessionJobs(m)
      /\ \A j \in SessionJobs(m) : e.jobs[j] = m.jobs[j]
      /\ FoldDue(m) => FoldWaits(e)
      /\ ~FoldDue(m) => e = m
  BY DEF FoldsIfDue, LastSeq
<1>2. FoldDue(e) <=> FoldDue(m)
  BY <1>1 DEF FoldDue, FinalizedUnfolded
<1>3. Quiet(e, t, r)
  BY <1>1, <1>2 DEF Quiet
<1>4. Pending(e.jobs) = {} => ~FoldDue(e)
  BY <1>1, <1>2 DEF FoldWaits
<1> QED
  BY <1>3, <1>4 DEF Calm

\* An answered session job.
LEMMA SessionAnsweredQuiet ==
  ASSUME NEW t, NEW r, NEW d \in DbType, NEW m \in DbType,
         Quiet(d, t, r), NEW j, SessionAnswered(d, m, j),
         Pending(m.jobs) \subseteq Pending(d.jobs)
  PROVE  Quiet(m, t, r)
<1>1. /\ DOMAIN m.sessions = DOMAIN d.sessions
      /\ \A n \in DOMAIN d.sessions :
           /\ m.sessions[n].sid = d.sessions[n].sid
           /\ m.sessions[n].finalized = d.sessions[n].finalized
           /\ m.sessions[n].folded = d.sessions[n].folded
      /\ \A k \in Pending(m.jobs) : k \in Pending(d.jobs) /\ m.jobs[k] = d.jobs[k]
  BY DEF SessionAnswered
<1>2. LastSeq(m) = LastSeq(d)
  BY <1>1, SameRows
<1>3. FoldDue(m) <=> FoldDue(d)
  <2>1. FinalizedUnfolded(m) = FinalizedUnfolded(d)
    BY <1>1 DEF FinalizedUnfolded
  <2> QED
    BY <2>1 DEF FoldDue
<1>4. FoldWaits(m) => FoldWaits(d)
  BY <1>1 DEF FoldWaits
<1>5. \A k \in SessionJobs(m) : m.jobs[k].target = LastSeq(m)
  BY <1>1, <1>2 DEF SessionJobs, Quiet
<1>6. LastSeq(m) # 0 => LastSeq(m) \in DOMAIN d.sessions
  BY <1>2, DbFields DEF LastSeq
<1> QED
  BY <1>1, <1>2, <1>3, <1>4, <1>5, <1>6 DEF Quiet

\* An answered fold: the newest session is closed.
LEMMA FoldAnsweredQuiet ==
  ASSUME NEW t, NEW r, NEW d \in DbType, NEW m \in DbType,
         Quiet(d, t, r), NEW j \in Pending(d.jobs), d.jobs[j].kind = "summary",
         FoldAnswered(d, m, j)
  PROVE  Quiet(m, t, r)
<1>1. /\ DOMAIN m.sessions = DOMAIN d.sessions
      /\ \A n \in DOMAIN d.sessions :
           /\ m.sessions[n].sid = d.sessions[n].sid
           /\ m.sessions[n].finalized = d.sessions[n].finalized
      /\ \A k \in Pending(m.jobs) : k \in Pending(d.jobs) /\ m.jobs[k] = d.jobs[k]
  BY DEF FoldAnswered
<1>2. LastSeq(m) = LastSeq(d)
  BY <1>1, SameRows
<1>3. FoldWaits(d)
  BY DEF FoldWaits
<1>4. LastSeq(d) # 0 => d.sessions[LastSeq(d)].finalized
  BY <1>3 DEF Quiet
<1>5. \A k \in SessionJobs(m) : m.jobs[k].target = LastSeq(m)
  BY <1>1, <1>2 DEF SessionJobs, Quiet
<1>6. LastSeq(m) # 0 => LastSeq(m) \in DOMAIN d.sessions
  BY <1>2, DbFields DEF LastSeq
<1> QED
  BY <1>1, <1>2, <1>4, <1>5, <1>6 DEF Quiet

\* A turn is logged.
LEMMA LogCalm ==
  ASSUME NEW t \in Seq(Turn), NEW x \in Turn, NEW d, NEW r, Calm(d, t, r)
  PROVE  Calm(d, Append(t, x), r)
<1>1. \A i \in DOMAIN d.sessions : OwnTurns(Append(t, x), d.sessions[i].sid) # {}
  <2> TAKE i \in DOMAIN d.sessions
  <2>1. OwnTurns(t, d.sessions[i].sid) # {}
    BY DEF Calm, Quiet
  <2> QED
    BY <2>1, TurnsOnlyGrow
<1> QED
  BY <1>1 DEF Calm, Quiet

\* close(): the newest session is closed too, and its last job waits.
LEMMA CloseCalm ==
  ASSUME NEW t \in Seq(Turn), NEW d, NEW lo \in Nat, NEW f, NEW r \in Nat,
         Good(d, t, lo, f), Whole(d, t, r, 0), Calm(d, t, r), NEW q
  PROVE  Calm(FinalizeLast(d, t), t, q)
<1> DEFINE last == LastSeq(d)
           closed == FinalizeSession(d, last)
<1>1. /\ d \in DbType /\ last = Len(d.sessions) /\ Len(d.sessions) \in Nat
      /\ DOMAIN d.sessions = 1..Len(d.sessions)
  BY DbFields DEF Good, LastSeq
<1>2. CASE last = 0
  <2>1. FinalizeLast(d, t) = d
    BY <1>2 DEF FinalizeLast
  <2>2. DOMAIN d.sessions = {}
    BY <1>1, <1>2
  <2> QED
    BY <1>2, <2>1, <2>2 DEF Calm, Quiet
<1>3. CASE last # 0
  <2> DEFINE e == EnqueueSession(closed, t, last, TRUE)
  <2>1. FinalizeLast(d, t) = e
    BY <1>3 DEF FinalizeLast
  <2>2. last \in DOMAIN d.sessions
    BY <1>1, <1>3
  <2> HIDE DEF last
  <2>3. CountsOrCloses(d, closed) /\ ClosesOnly(d, closed, last)
    BY <2>2, FinalizeGood
  <2>4. Good(closed, t, lo, f)
    BY <2>3, CountsOrClosesGood
  <2> HIDE DEF closed
  <2>5. Keeps(d, closed, r, last)
    BY <2>3, CountsOrClosesKeeps DEF ClosesOnly
  <2>6. Whole(closed, t, r, last)
    BY <2>5, KeepsWhole
  <2>7. DOMAIN closed.sessions = DOMAIN d.sessions /\ LastSeq(closed) = last
    <3>1. closed \in DbType
      BY <2>4 DEF Good
    <3> QED
      BY <1>1, <2>3, <3>1, DbFields DEF CountsOrCloses, LastSeq
  <2>8. \A n \in DOMAIN d.sessions :
          closed.sessions[n].finalized /\ closed.sessions[n].sid = d.sessions[n].sid
    <3> TAKE n \in DOMAIN d.sessions
    <3>1. n # last => d.sessions[n].finalized
      BY <1>1, <2>2 DEF Good, ClosedInOrder, last
    <3> QED
      BY <2>3, <3>1 DEF ClosesOnly, CountsOrCloses
  <2>9. Asks(closed, e, t, last)
    BY <2>2, <2>4, <2>7, EnqueueSessionAsks
  <2>10. Pending(e.jobs) # {}
    <3>1. OwnTurns(t, closed.sessions[last].sid) # {}
      BY <2>2, <2>8 DEF Calm, Quiet
    <3> QED
      BY <2>2, <2>4, <2>6, <2>7, <3>1, EnqueueSessionAccounts
  <2> HIDE DEF e
  <2>11. e.sessions = closed.sessions /\ LastSeq(e) = last
    BY <2>7, <2>9 DEF Asks, LastSeq
  <2>12. \A k \in SessionJobs(e) : e.jobs[k].target = LastSeq(e)
    <3> TAKE k \in SessionJobs(e)
    <3>1. CASE k \in Pending(closed.jobs) /\ e.jobs[k] = closed.jobs[k]
      <4>1. k \in SessionJobs(d) /\ e.jobs[k] = d.jobs[k]
        BY <2>3, <3>1 DEF SessionJobs, CountsOrCloses
      <4> QED
        BY <2>11, <4>1 DEF Calm, Quiet, last
    <3>2. CASE e.jobs[k].target = last
      BY <2>11, <3>2
    <3> QED
      BY <2>9, <3>1, <3>2 DEF Asks, SessionJobs
  <2>13. \A n \in DOMAIN e.sessions :
           e.sessions[n].finalized /\ OwnTurns(t, e.sessions[n].sid) # {}
    BY <2>7, <2>8, <2>11 DEF Calm, Quiet
  <2>14. e.sessions[LastSeq(e)].finalized
    BY <2>2, <2>7, <2>11, <2>13
  <2> QED
    BY <2>1, <2>10, <2>12, <2>13, <2>14 DEF Calm, Quiet
<1> QED
  BY <1>2, <1>3

(***************************************************************************)
(* What the persistent summary, and the writer of a fold that waits, are   *)
(* told of.                                                                *)
(***************************************************************************)

\* Session i's summary leaves out none of its turns.
Complete(d, t, i) ==
  OwnTurns(t, d.sessions[i].sid) \subseteq d.sessions[i].summary

\* A folded session is part of the persistent summary as it is; the job of a
\* waiting fold is told of its sessions as they are; a waiting session job
\* knows of nothing but its session; and nothing can be added to the newest
\* session any more once it is folded or a fold waits.
Told(d, t) ==
  /\ \A i \in DOMAIN d.sessions :
       d.sessions[i].folded => d.sessions[i].summary \subseteq d.persistent.summary
  /\ \A j \in Pending(d.jobs) : d.jobs[j].kind = "summary" =>
       \A i \in d.jobs[j].body.items :
         d.sessions[i].summary \subseteq d.jobs[j].body.input
  /\ \A j \in SessionJobs(d) :
       d.jobs[j].body.input \subseteq
         d.sessions[d.jobs[j].target].summary
           \cup OwnTurns(t, d.sessions[d.jobs[j].target].sid)
  /\ LastSeq(d) # 0 /\ (d.sessions[LastSeq(d)].folded \/ FoldWaits(d)) =>
       Complete(d, t, LastSeq(d))

\* The sessions of a waiting fold exist.
LEMMA WaitingItem ==
  ASSUME NEW t, NEW d, NEW lo \in Nat, NEW f, Good(d, t, lo, f),
         NEW j \in Pending(d.jobs), d.jobs[j].kind = "summary",
         NEW i \in d.jobs[j].body.items
  PROVE  i \in DOMAIN d.sessions
<1>1. PICK a \in lo..f :
        /\ a + SessionsPerSummary \in DOMAIN d.sessions
        /\ d.jobs[j].body.items = (a + 1)..(a + SessionsPerSummary)
  BY DEF Good, BatchNear
<1>2. /\ Len(d.sessions) \in Nat /\ DOMAIN d.sessions = 1..Len(d.sessions)
      /\ a \in Nat
  BY <1>1, DbFields DEF Good
<1> QED
  BY <1>1, <1>2, DiaryConfigAssumption

\* A session asked about.
LEMMA AsksTold ==
  ASSUME NEW d, NEW e, NEW t, NEW i, Asks(d, e, t, i), Told(d, t)
  PROVE  Told(e, t)
<1>1. e.sessions = d.sessions /\ LastSeq(e) = LastSeq(d)
      /\ e.persistent = d.persistent
  BY DEF Asks, LastSeq
<1>2. \A j \in Pending(e.jobs) : e.jobs[j].kind = "summary" =>
        j \in Pending(d.jobs) /\ e.jobs[j] = d.jobs[j]
  BY DEF Asks
<1>3. FoldWaits(e) => FoldWaits(d)
  BY <1>2 DEF FoldWaits
<1>4. \A j \in SessionJobs(e) :
        e.jobs[j].body.input \subseteq
          e.sessions[e.jobs[j].target].summary
            \cup OwnTurns(t, e.sessions[e.jobs[j].target].sid)
  <2> TAKE j \in SessionJobs(e)
  <2>1. CASE j \in SessionJobs(d) /\ e.jobs[j] = d.jobs[j]
    BY <1>1, <2>1 DEF Told
  <2>2. CASE /\ e.jobs[j].target = i
             /\ e.jobs[j].body.input \subseteq
                  d.sessions[i].summary \cup OwnTurns(t, d.sessions[i].sid)
    BY <1>1, <2>2
  <2> QED
    BY <2>1, <2>2 DEF Asks, SessionJobs
<1> QED
  BY <1>1, <1>2, <1>3, <1>4 DEF Told, Complete

\* The interaction of a run counted: its session is open.
LEMMA CountsRowTold ==
  ASSUME NEW t, NEW d, NEW c, NEW lo, NEW f, NEW r \in Nat,
         Pending(d.jobs) = {}, Told(d, t), CountsRow(d, c, r),
         Good(c, t, lo, f), Whole(c, t, r, 0)
  PROVE  Told(c, t)
<1>1. Pending(c.jobs) = {} /\ OpensRow(d, c, r) /\ LastSeq(c) \in DOMAIN c.sessions
      /\ LastSeq(c) \in SeqOf(c, r)
  BY DEF CountsRow
<1>2. c.sessions[LastSeq(c)].sid = r
  BY <1>1 DEF SeqOf
<1>3. ~c.sessions[LastSeq(c)].finalized
  BY <1>1, <1>2, RunRow
<1>4. ~c.sessions[LastSeq(c)].folded
  BY <1>1, <1>3 DEF Good, FoldedUpTo
<1>5. \A i \in DOMAIN c.sessions :
        c.sessions[i].folded => c.sessions[i].summary \subseteq c.persistent.summary
  BY <1>1 DEF OpensRow, Told
<1> QED
  BY <1>1, <1>4, <1>5 DEF Told, FoldWaits, SessionJobs

\* The newest session closed.
LEMMA ClosesTold ==
  ASSUME NEW t, NEW d, NEW lo \in Nat, NEW f, Good(d, t, lo, f), NEW e,
         CountsOrCloses(d, e), Told(d, t)
  PROVE  Told(e, t)
<1>1. /\ DOMAIN e.sessions = DOMAIN d.sessions /\ LastSeq(e) = LastSeq(d)
      /\ LastSeq(d) # 0 => LastSeq(d) \in DOMAIN d.sessions
  BY DbFields DEF CountsOrCloses, LastSeq, Good
<1>2. /\ e.jobs = d.jobs /\ e.persistent = d.persistent
      /\ \A n \in DOMAIN d.sessions :
           /\ e.sessions[n].sid = d.sessions[n].sid
           /\ e.sessions[n].summary = d.sessions[n].summary
           /\ e.sessions[n].folded = d.sessions[n].folded
  BY DEF CountsOrCloses
<1>3. \A i \in DOMAIN e.sessions :
        e.sessions[i].folded => e.sessions[i].summary \subseteq e.persistent.summary
  BY <1>1, <1>2 DEF Told
<1>4. \A j \in Pending(e.jobs) : e.jobs[j].kind = "summary" =>
        \A i \in e.jobs[j].body.items :
          e.sessions[i].summary \subseteq e.jobs[j].body.input
  <2> SUFFICES ASSUME NEW j \in Pending(d.jobs), d.jobs[j].kind = "summary",
                      NEW i \in d.jobs[j].body.items
               PROVE  e.sessions[i].summary \subseteq d.jobs[j].body.input
    BY <1>2
  <2>1. i \in DOMAIN d.sessions
    BY WaitingItem
  <2> QED
    BY <1>2, <2>1 DEF Told
<1>5. \A j \in SessionJobs(e) :
        e.jobs[j].body.input \subseteq
          e.sessions[e.jobs[j].target].summary
            \cup OwnTurns(t, e.sessions[e.jobs[j].target].sid)
  <2> SUFFICES ASSUME NEW j \in SessionJobs(d)
               PROVE  d.jobs[j].body.input \subseteq
                        e.sessions[d.jobs[j].target].summary
                          \cup OwnTurns(t, e.sessions[d.jobs[j].target].sid)
    BY <1>2 DEF SessionJobs
  <2>1. d.jobs[j].target \in DOMAIN d.sessions
    BY SessionJobTarget
  <2> QED
    BY <1>2, <2>1 DEF Told
<1>6. LastSeq(e) # 0 /\ (e.sessions[LastSeq(e)].folded \/ FoldWaits(e)) =>
        Complete(e, t, LastSeq(e))
  <2> SUFFICES ASSUME LastSeq(d) # 0, d.sessions[LastSeq(d)].folded \/ FoldWaits(d)
               PROVE  Complete(e, t, LastSeq(d))
    BY <1>1, <1>2 DEF FoldWaits
  <2>1. Complete(d, t, LastSeq(d))
    BY DEF Told
  <2> QED
    BY <1>1, <1>2, <2>1 DEF Complete
<1> QED
  BY <1>3, <1>4, <1>5, <1>6 DEF Told

\* A fold that is due starts to wait, when the newest session is complete.
LEMMA FoldsIfDueTold ==
  ASSUME NEW t, NEW m, NEW e, FoldsIfDue(m, e), Told(m, t),
         LastSeq(m) # 0 /\ FoldDue(m) => Complete(m, t, LastSeq(m))
  PROVE  Told(e, t)
<1>1. /\ e.sessions = m.sessions /\ LastSeq(e) = LastSeq(m)
      /\ e.persistent = m.persistent
      /\ SessionJobs(e) = SessionJobs(m)
      /\ \A j \in SessionJobs(m) : e.jobs[j] = m.jobs[j]
      /\ ~FoldDue(m) => e = m
  BY DEF FoldsIfDue, LastSeq
<1>2. \A i \in FoldBatch(m) : m.sessions[i].summary \subseteq FoldInput(m)
  BY DEF FoldInput
<1>3. FoldBody(m).items = FoldBatch(m) /\ FoldBody(m).input = FoldInput(m)
  BY DEF FoldBody
<1>4. \A j \in Pending(e.jobs) : e.jobs[j].kind = "summary" =>
        \A i \in e.jobs[j].body.items :
          e.sessions[i].summary \subseteq e.jobs[j].body.input
  <2> SUFFICES ASSUME NEW j \in Pending(e.jobs), e.jobs[j].kind = "summary"
               PROVE  \A i \in e.jobs[j].body.items :
                        m.sessions[i].summary \subseteq e.jobs[j].body.input
    BY <1>1
  <2>1. CASE j \in Pending(m.jobs) /\ e.jobs[j] = m.jobs[j]
    BY <2>1 DEF Told
  <2>2. CASE e.jobs[j].body = FoldBody(m)
    BY <1>2, <1>3, <2>2
  <2> QED
    BY <2>1, <2>2 DEF FoldsIfDue
<1>5. LastSeq(e) # 0 /\ (e.sessions[LastSeq(e)].folded \/ FoldWaits(e)) =>
        Complete(e, t, LastSeq(e))
  <2>1. CASE FoldDue(m)
    BY <1>1, <2>1 DEF Complete
  <2>2. CASE ~FoldDue(m)
    BY <1>1, <2>2 DEF Told
  <2> QED
    BY <2>1, <2>2
<1>6. \A j \in SessionJobs(e) :
        e.jobs[j].body.input \subseteq
          e.sessions[e.jobs[j].target].summary
            \cup OwnTurns(t, e.sessions[e.jobs[j].target].sid)
  BY <1>1 DEF Told
<1>7. \A i \in DOMAIN e.sessions :
        e.sessions[i].folded => e.sessions[i].summary \subseteq e.persistent.summary
  BY <1>1 DEF Told
<1> QED
  BY <1>4, <1>5, <1>6, <1>7 DEF Told

\* Once no job of it waits, a closed session is complete.
LEMMA ClosedIsComplete ==
  ASSUME NEW t, NEW r, NEW d, NEW lo, NEW f, Good(d, t, lo, f),
         Whole(d, t, r, 0), NEW i \in DOMAIN d.sessions,
         d.sessions[i].finalized, \A j \in SessionJobs(d) : d.jobs[j].target # i
  PROVE  Complete(d, t, i)
<1>1. i # 0
  BY DbFields DEF Good
<1>2. Accounted(d, t, i) /\ RowWhole(d.sessions[i], t, r)
  BY <1>1 DEF Whole, ClosedWhole
<1>3. \A n \in OwnTurns(t, d.sessions[i].sid) : n <= d.sessions[i].covered
  BY <1>2 DEF Accounted
<1> QED
  BY <1>2, <1>3 DEF RowWhole, Reflects, Complete

\* An answered session job.  If its session is folded, or named by a fold that
\* waits, the answer adds nothing.
LEMMA SessionAnsweredTold ==
  ASSUME NEW t, NEW r, NEW d, NEW lo \in Nat, NEW f, Good(d, t, lo, f),
         Quiet(d, t, r), Told(d, t), NEW j \in SessionJobs(d),
         NEW m \in DbType, SessionAnswered(d, m, j),
         Pending(m.jobs) = Pending(d.jobs) \ {j}
  PROVE  Told(m, t) /\ SessionJobs(m) = {}
<1> DEFINE i == d.jobs[j].target
           text == d.jobs[j].body.input
           own == OwnTurns(t, d.sessions[i].sid)
<1>1. /\ i \in DOMAIN d.sessions /\ j \in Pending(d.jobs)
      /\ d.jobs[j].kind = "session"
  BY SessionJobTarget
<1>2. i = LastSeq(d)
  BY DEF Quiet
<1>3. /\ d.sessions[i].summary \subseteq text
      /\ text \subseteq d.sessions[i].summary \cup own
  BY <1>1 DEF Good, SessionJobsAhead, Told
<1>4. /\ m.persistent = d.persistent
      /\ DOMAIN m.sessions = DOMAIN d.sessions
      /\ \A n \in DOMAIN d.sessions :
           /\ m.sessions[n].sid = d.sessions[n].sid
           /\ m.sessions[n].folded = d.sessions[n].folded
           /\ n # i => m.sessions[n].summary = d.sessions[n].summary
      /\ m.sessions[i].summary = text
      /\ \A k \in Pending(m.jobs) : m.jobs[k] = d.jobs[k]
  BY <1>1 DEF SessionAnswered
<1>5. LastSeq(m) = LastSeq(d)
  <2>1. d \in DbType
    BY DEF Good
  <2> QED
    BY <1>4, <2>1, SameRows
<1>6. SessionJobs(m) = {}
  <2> SUFFICES ASSUME NEW k \in SessionJobs(m) PROVE FALSE
    OBVIOUS
  <2>1. k \in Pending(d.jobs) /\ k # j /\ d.jobs[k].kind = "session"
    BY <1>4 DEF SessionJobs
  <2>2. d.jobs[k].target = d.jobs[j].target
    BY <1>1, <1>2, <2>1 DEF Quiet, SessionJobs
  <2> QED
    BY <1>1, <2>1, <2>2, OneWaits
<1> HIDE DEF i, text
<1>7. ASSUME d.sessions[i].folded \/ FoldWaits(d)
      PROVE  text \subseteq d.sessions[i].summary /\ own \subseteq text
  <2>1. LastSeq(d) # 0
    BY <1>1, <1>2, DbFields DEF Good
  <2>2. own \subseteq d.sessions[i].summary
    BY <1>2, <1>7, <2>1 DEF Told, Complete
  <2> QED
    BY <1>3, <2>2
<1>8. \A n \in DOMAIN m.sessions :
        m.sessions[n].folded => m.sessions[n].summary \subseteq m.persistent.summary
  <2> SUFFICES ASSUME NEW n \in DOMAIN d.sessions, d.sessions[n].folded
               PROVE  m.sessions[n].summary \subseteq d.persistent.summary
    BY <1>4
  <2>1. d.sessions[n].summary \subseteq d.persistent.summary
    BY DEF Told
  <2> QED
    BY <1>4, <1>7, <2>1
<1>9. \A k \in Pending(m.jobs) : m.jobs[k].kind = "summary" =>
        \A n \in m.jobs[k].body.items :
          m.sessions[n].summary \subseteq m.jobs[k].body.input
  <2> SUFFICES ASSUME NEW k \in Pending(d.jobs), d.jobs[k].kind = "summary",
                      NEW n \in d.jobs[k].body.items
               PROVE  m.sessions[n].summary \subseteq d.jobs[k].body.input
    BY <1>4
  <2>1. n \in DOMAIN d.sessions
    BY WaitingItem
  <2>2. d.sessions[n].summary \subseteq d.jobs[k].body.input
    BY DEF Told
  <2>3. FoldWaits(d)
    BY DEF FoldWaits
  <2> QED
    BY <1>4, <1>7, <2>1, <2>2, <2>3
<1>10. LastSeq(m) # 0 /\ (m.sessions[LastSeq(m)].folded \/ FoldWaits(m)) =>
         Complete(m, t, LastSeq(m))
  <2>1. FoldWaits(m) => FoldWaits(d)
    BY <1>4 DEF FoldWaits
  <2> QED
    BY <1>1, <1>2, <1>4, <1>5, <1>7, <2>1 DEF Complete
<1> QED
  BY <1>6, <1>8, <1>9, <1>10 DEF Told

\* An answered fold.
LEMMA FoldAnsweredTold ==
  ASSUME NEW t, NEW d, NEW lo \in Nat, NEW f, Good(d, t, lo, f), Told(d, t),
         NEW j \in Pending(d.jobs), d.jobs[j].kind = "summary",
         NEW m \in DbType, FoldAnswered(d, m, j)
  PROVE  Told(m, t) /\ (LastSeq(m) # 0 => Complete(m, t, LastSeq(m)))
<1> DEFINE items == d.jobs[j].body.items
           text == d.jobs[j].body.input
<1>1. /\ m.persistent.summary = text
      /\ DOMAIN m.sessions = DOMAIN d.sessions
      /\ \A n \in DOMAIN d.sessions :
           /\ m.sessions[n].sid = d.sessions[n].sid
           /\ m.sessions[n].summary = d.sessions[n].summary
           /\ m.sessions[n].folded = IF n \in items THEN TRUE
                                     ELSE d.sessions[n].folded
      /\ \A k \in Pending(m.jobs) : k \in Pending(d.jobs) /\ k # j
                                    /\ m.jobs[k] = d.jobs[k]
  BY DEF FoldAnswered
<1>2. LastSeq(m) = LastSeq(d) /\ (LastSeq(d) # 0 => LastSeq(d) \in DOMAIN d.sessions)
  <2>1. d \in DbType
    BY DEF Good
  <2> QED
    BY <1>1, <2>1, SameRows, DbFields DEF LastSeq
<1>3. /\ d.persistent.summary \subseteq text
      /\ \A n \in items : d.sessions[n].summary \subseteq text
  BY DEF Good, SummaryJobsAhead, Told
<1> HIDE DEF items, text
<1>4. \A n \in DOMAIN m.sessions :
        m.sessions[n].folded => m.sessions[n].summary \subseteq m.persistent.summary
  <2> TAKE n \in DOMAIN m.sessions
  <2>1. d.sessions[n].folded => d.sessions[n].summary \subseteq d.persistent.summary
    BY <1>1 DEF Told
  <2> QED
    BY <1>1, <1>3, <2>1
<1>5. \A k \in Pending(m.jobs) : m.jobs[k].kind # "summary"
  <2> SUFFICES ASSUME NEW k \in Pending(m.jobs), m.jobs[k].kind = "summary"
               PROVE  FALSE
    OBVIOUS
  <2>1. k \in Pending(d.jobs) /\ k # j /\ d.jobs[k].kind = "summary"
    BY <1>1
  <2> QED
    BY <2>1, OneWaits
<1>6. \A k \in SessionJobs(m) :
        m.jobs[k].body.input \subseteq
          m.sessions[m.jobs[k].target].summary
            \cup OwnTurns(t, m.sessions[m.jobs[k].target].sid)
  <2> TAKE k \in SessionJobs(m)
  <2>1. k \in SessionJobs(d) /\ m.jobs[k] = d.jobs[k]
    BY <1>1 DEF SessionJobs
  <2>2. d.jobs[k].target \in DOMAIN d.sessions
    BY <2>1, SessionJobTarget
  <2> QED
    BY <1>1, <2>1, <2>2 DEF Told
<1>7. LastSeq(m) # 0 => Complete(m, t, LastSeq(m))
  <2>1. FoldWaits(d)
    BY DEF FoldWaits
  <2> QED
    BY <1>1, <1>2, <2>1 DEF Told, Complete
<1> QED
  BY <1>4, <1>5, <1>6, <1>7 DEF Told

\* A turn logged for the live run is no closed session's.
LEMMA OtherTurns ==
  ASSUME NEW t \in Seq(Turn), NEW x \in Turn, NEW s, s # x.session
  PROVE  OwnTurns(Append(t, x), s) = OwnTurns(t, s)
<1>1. /\ Len(t) \in Nat /\ DOMAIN t = 1..Len(t)
      /\ DOMAIN Append(t, x) = 1..(Len(t) + 1)
      /\ \A n \in DOMAIN t : Append(t, x)[n] = t[n]
      /\ Append(t, x)[Len(t) + 1] = x
  OBVIOUS
<1>2. \A n \in DOMAIN Append(t, x) : n \in DOMAIN t \/ n = Len(t) + 1
  BY <1>1
<1>3. DOMAIN t \subseteq DOMAIN Append(t, x)
  BY <1>1
<1> QED
  BY <1>1, <1>2, <1>3 DEF OwnTurns

\* So it changes nothing about what was told of.
LEMMA LogTold ==
  ASSUME NEW t \in Seq(Turn), NEW x \in Turn, NEW d, NEW lo, NEW f,
         Good(d, t, lo, f), Whole(d, t, x.session, 0),
         Quiet(d, t, x.session), Told(d, t)
  PROVE  Told(d, Append(t, x))
<1> DEFINE u == Append(t, x)
<1>1. \A s : OwnTurns(t, s) \subseteq OwnTurns(u, s)
  BY TurnsOnlyGrow
<1>2. \A s : s # x.session => OwnTurns(u, s) = OwnTurns(t, s)
  BY OtherTurns
<1>3. x.session \in Nat
  BY DEF Turn
<1> HIDE DEF u
<1>4. \A j \in SessionJobs(d) :
        d.jobs[j].body.input \subseteq
          d.sessions[d.jobs[j].target].summary
            \cup OwnTurns(u, d.sessions[d.jobs[j].target].sid)
  <2> TAKE j \in SessionJobs(d)
  <2>1. d.jobs[j].body.input \subseteq
          d.sessions[d.jobs[j].target].summary
            \cup OwnTurns(t, d.sessions[d.jobs[j].target].sid)
    BY DEF Told
  <2> QED
    BY <1>1, <2>1
<1>5. ASSUME LastSeq(d) # 0, d.sessions[LastSeq(d)].folded \/ FoldWaits(d)
      PROVE  Complete(d, u, LastSeq(d))
  <2>1. LastSeq(d) \in DOMAIN d.sessions
    BY <1>5, DbFields DEF Good, LastSeq
  <2>2. d.sessions[LastSeq(d)].finalized
    BY <1>5, <2>1 DEF Good, FoldedUpTo, Quiet
  <2>3. d.sessions[LastSeq(d)].sid < x.session
    BY <1>5, <2>1, <2>2 DEF Whole, ClosedWhole
  <2>4. d.sessions[LastSeq(d)].sid \in Nat
    BY <2>1, DbFields DEF Good
  <2>5. d.sessions[LastSeq(d)].sid # x.session
    BY <1>3, <2>3, <2>4
  <2>6. Complete(d, t, LastSeq(d))
    BY <1>5 DEF Told
  <2> QED
    BY <1>2, <2>5, <2>6 DEF Complete
<1>6. Told(d, u)
  BY <1>4, <1>5 DEF Told
<1> QED
  BY <1>6 DEF u

\* A diligent host's tick.
LEMMA TickTold ==
  ASSUME NEW t \in Seq(Turn), NEW d, NEW lo \in Nat, NEW f, NEW r \in Nat,
         Good(d, t, lo, f), Whole(d, t, r, 0), Calm(d, t, r), Told(d, t),
         Pending(d.jobs) = {}
  PROVE  Told(OnInteraction(d, t, r), t)
<1> DEFINE c == CountInteraction(d, r)
           e == OnInteraction(d, t, r)
<1>1. TickEffect(d, c, e, t, r)
  BY CalmTick
<1>2. CountsRow(d, c, r) /\ Good(c, t, lo, f) /\ Whole(c, t, r, 0)
  BY CountCounts DEF Calm
<1>3. Asks(c, e, t, LastSeq(c))
  BY <1>1 DEF TickEffect
<1> HIDE DEF c, e
<1>4. Told(c, t)
  BY <1>2, CountsRowTold
<1>5. Told(e, t)
  BY <1>3, <1>4, AsksTold
<1> QED
  BY <1>5 DEF e

\* The tables between the answer to job j and the fold trigger.
LEMMA AnswerThenTrigger ==
  ASSUME NEW t \in Seq(Turn), NEW d, NEW lo \in Nat, NEW f,
         Good(d, t, lo, f), NEW j \in SessionJobs(d)
  PROVE  \E m \in DbType :
           /\ SessionAnswered(d, m, j)
           /\ Pending(m.jobs) = Pending(d.jobs) \ {j}
           /\ Good(m, t, lo, f)
           /\ FoldsIfDue(m, ApplySession(d, j))
<1> DEFINE s == SetSessionSummary(d, d.jobs[j].target, d.jobs[j].body.input,
                                  d.jobs[j].body.advance)
           m == Answered(s, j)
<1>1. ApplySession(d, j) = EnqueueSummary(m)
  BY DEF ApplySession, Answered
<1>2. /\ SessionAnswered(d, m, j)
      /\ Pending(m.jobs) = Pending(d.jobs) \ {j}
      /\ Good(m, t, lo, f)
  BY SessionAnsweredEffect
<1> HIDE DEF m
<1>3. FoldsIfDue(m, EnqueueSummary(m))
  BY <1>2, EnqueueSummaryEffect
<1>4. m \in DbType
  BY <1>2 DEF Good
<1> QED
  BY <1>1, <1>2, <1>3, <1>4

\* _apply_session: whatever it makes due has a complete newest session.
LEMMA ApplySessionTold ==
  ASSUME NEW t \in Seq(Turn), NEW d, NEW lo \in Nat, NEW f, NEW r \in Nat,
         Good(d, t, lo, f), Whole(d, t, r, 0), Calm(d, t, r), Told(d, t),
         NEW j \in SessionJobs(d)
  PROVE  Calm(ApplySession(d, j), t, r) /\ Told(ApplySession(d, j), t)
<1>1. PICK m \in DbType :
           /\ SessionAnswered(d, m, j)
           /\ Pending(m.jobs) = Pending(d.jobs) \ {j}
           /\ Good(m, t, lo, f)
           /\ FoldsIfDue(m, ApplySession(d, j))
  BY AnswerThenTrigger
<1>2. d \in DbType /\ Quiet(d, t, r)
  BY DEF Good, Calm
<1>3. Pending(m.jobs) \subseteq Pending(d.jobs)
  BY <1>1
<1>4. Quiet(m, t, r)
  BY <1>1, <1>2, <1>3, SessionAnsweredQuiet
<1>5. Told(m, t) /\ SessionJobs(m) = {}
  BY <1>1, <1>2, SessionAnsweredTold
<1>6. Whole(m, t, r, 0)
  BY <1>1, SessionAnsweredWhole
<1>7. ASSUME LastSeq(m) # 0, FoldDue(m)
      PROVE  Complete(m, t, LastSeq(m))
  <2>1. LastSeq(m) \in DOMAIN m.sessions /\ m.sessions[LastSeq(m)].finalized
    BY <1>4, <1>7, DbFields DEF Quiet, LastSeq
  <2> QED
    BY <1>1, <1>5, <1>6, <2>1, ClosedIsComplete
<1>8. Told(ApplySession(d, j), t)
  BY <1>1, <1>5, <1>7, FoldsIfDueTold
<1>9. Calm(ApplySession(d, j), t, r)
  BY <1>1, <1>4, SettlesCalm
<1> QED
  BY <1>8, <1>9

\* _apply_summary.
LEMMA ApplySummaryTold ==
  ASSUME NEW t \in Seq(Turn), NEW d, NEW lo \in Nat, NEW f, NEW r \in Nat,
         Good(d, t, lo, f), Calm(d, t, r), Told(d, t),
         NEW j \in Pending(d.jobs), d.jobs[j].kind = "summary"
  PROVE  Calm(ApplySummary(d, j), t, r) /\ Told(ApplySummary(d, j), t)
<1>1. PICK m : /\ FoldAnswered(d, m, j)
               /\ ApplySummary(d, j) = EnqueueSummary(m)
               /\ \E g : Good(m, t, lo, g)
  BY FoldAnsweredEffect
<1>2. PICK g : Good(m, t, lo, g)
  BY <1>1
<1>3. d \in DbType /\ m \in DbType /\ Quiet(d, t, r)
  BY <1>2 DEF Good, Calm
<1>4. Quiet(m, t, r)
  BY <1>1, <1>3, FoldAnsweredQuiet
<1>5. Told(m, t) /\ (LastSeq(m) # 0 => Complete(m, t, LastSeq(m)))
  BY <1>1, <1>3, FoldAnsweredTold
<1>6. FoldsIfDue(m, EnqueueSummary(m))
  BY <1>2, EnqueueSummaryEffect
<1>7. Told(EnqueueSummary(m), t)
  BY <1>5, <1>6, FoldsIfDueTold
<1>8. Calm(EnqueueSummary(m), t, r)
  BY <1>4, <1>6, SettlesCalm
<1> QED
  BY <1>1, <1>7, <1>8

\* finalize.
LEMMA CloseTold ==
  ASSUME NEW t \in Seq(Turn), NEW d, NEW lo \in Nat, NEW f,
         Good(d, t, lo, f), Told(d, t)
  PROVE  Told(FinalizeLast(d, t), t)
<1> DEFINE last == LastSeq(d)
           closed == FinalizeSession(d, last)
<1>1. /\ d \in DbType /\ last = Len(d.sessions) /\ Len(d.sessions) \in Nat
      /\ DOMAIN d.sessions = 1..Len(d.sessions)
  BY DbFields DEF Good, LastSeq
<1>2. CASE last = 0
  BY <1>2 DEF FinalizeLast
<1>3. CASE last # 0
  <2> DEFINE e == EnqueueSession(closed, t, last, TRUE)
  <2>1. FinalizeLast(d, t) = e
    BY <1>3 DEF FinalizeLast
  <2>2. last \in DOMAIN d.sessions
    BY <1>1, <1>3
  <2> HIDE DEF last
  <2>3. CountsOrCloses(d, closed)
    BY <2>2, FinalizeGood
  <2>4. Good(closed, t, lo, f)
    BY <2>3, CountsOrClosesGood
  <2> HIDE DEF closed
  <2>5. Told(closed, t)
    BY <2>3, ClosesTold
  <2>6. last \in DOMAIN closed.sessions
    BY <1>1, <2>2, <2>3, DbFields DEF CountsOrCloses
  <2>7. Asks(closed, e, t, last)
    BY <2>4, <2>6, EnqueueSessionAsks
  <2> HIDE DEF e
  <2>8. Told(e, t)
    BY <2>5, <2>7, AsksTold
  <2> QED
    BY <2>1, <2>8
<1> QED
  BY <1>2, <1>3

\* A diligent host's threads log what they tick.
NoneFailed == \A w \in Ingesters : ingest[w] # "failed"

SteadyInv == Calm(db, turns, run) /\ Told(db, turns) /\ NoneFailed

\* An assemble takes no part in the diary, and beside it the host is diligent.
LEMMA ContextStepIsDiligent ==
  ASSUME [ContextNext]_contextVars
  PROVE  DiligentNext \/ UNCHANGED vars
<1>1. CASE UNCHANGED contextVars
  BY <1>1 DEF contextVars
<1>2. CASE ContextNext
  BY <1>2 DEF ContextNext, AssembleBegin, AssembleRead
<1> QED
  BY <1>1, <1>2

\* Nothing is remembered yet.
LEMMA SteadyInitially ==
  ASSUME Init PROVE SteadyInv
<1>1. /\ DOMAIN db.sessions = {} /\ DOMAIN db.jobs = {} /\ LastSeq(db) = 0
  BY DEF Init, LastSeq
<1>2. Pending(db.jobs) = {} /\ SessionJobs(db) = {}
  BY <1>1 DEF Pending, SessionJobs
<1>3. ~FoldDue(db)
  <2>1. FinalizedUnfolded(db) = {}
    BY <1>1 DEF FinalizedUnfolded
  <2>2. Cardinality({}) = 0
    BY FS_EmptySet
  <2> QED
    BY <2>1, <2>2, DiaryConfigAssumption DEF FoldDue
<1>4. NoneFailed
  BY DEF Init, NoneFailed
<1> QED
  BY <1>1, <1>2, <1>3, <1>4 DEF SteadyInv, Calm, Quiet, Told

\* Nor does a step of theirs fail.
LEMMA NoneFails ==
  ASSUME ingest \in [Ingesters -> Stages], NoneFailed,
         DiligentNext \/ UNCHANGED vars
  PROVE  NoneFailed'
<1>1. ASSUME NEW w \in Ingesters, NEW stage \in Stages \ {"failed"},
             ingest' = [ingest EXCEPT ![w] = stage]
      PROVE  NoneFailed'
  BY <1>1 DEF NoneFailed
<1>2. CASE ingest' = ingest
  BY <1>2 DEF NoneFailed
<1>3. {"idle", "user", "assistant"} \subseteq Stages \ {"failed"}
  BY DEF Stages
<1> QED
  BY <1>1, <1>2, <1>3
     DEF DiligentNext, ClosingNext, LogUser, LogAssistant, LogTurn, Tick,
         Submit, Reopen, vars

\* Such a thread ticks after both rows, with nothing waiting.
LEMMA DiligentTick ==
  ASSUME ingest \in [Ingesters -> Stages], NoneFailed, DiligentNext,
         NEW w \in Ingesters, Tick(w)
  PROVE  /\ ingest[w] = "assistant" /\ ingest' = [ingest EXCEPT ![w] = "idle"]
         /\ ingest'[w] = "idle" /\ Pending(db.jobs) = {}
         /\ db' = OnInteraction(db, turns, run)
         /\ turns' = turns /\ run' = run
<1>1. /\ ingest[w] = "assistant" /\ ingest' = [ingest EXCEPT ![w] = "idle"]
      /\ db' = OnInteraction(db, turns, run) /\ turns' = turns /\ run' = run
  BY DEF Tick, NoneFailed
<1>2. ingest'[w] = "idle"
  BY <1>1
<1> QED
  BY <1>1, <1>2 DEF DiligentNext

\* Every step of a diligent host keeps it.
LEMMA SteadyStep ==
  ASSUME Inv, WholeInv, SteadyInv, OneThread, DiligentNext \/ UNCHANGED vars
  PROVE  SteadyInv'
<1> DEFINE c == db.persistent.count
<1>1. /\ Good(db, turns, c, c) /\ turns \in Seq(Turn) /\ run \in Nat
      /\ db \in DbType /\ c \in Nat
      /\ Whole(db, turns, run, 0)
      /\ Calm(db, turns, run) /\ Quiet(db, turns, run) /\ Told(db, turns)
      /\ ingest \in [Ingesters -> Stages] /\ NoneFailed
  BY TablesAreGood DEF WholeInv, SteadyInv, Calm, Inv
<1> HIDE DEF c
<1>2. NoneFailed'
  BY <1>1, NoneFails
<1>3. ASSUME NEW w \in Ingesters, NEW role \in {"user", "assistant"},
             LogTurn(w, role)
      PROVE  SteadyInv'
  <2> DEFINE x == [session |-> run, role |-> role]
  <2>1. turns' = Append(turns, x) /\ db' = db /\ run' = run
    BY <1>3 DEF LogTurn
  <2>2. x \in Turn /\ x.session = run
    BY <1>1 DEF Turn
  <2> HIDE DEF x
  <2>3. Calm(db, Append(turns, x), run)
    BY <1>1, <2>2, LogCalm
  <2>4. Told(db, Append(turns, x))
    <3>1. Whole(db, turns, x.session, 0) /\ Quiet(db, turns, x.session)
      BY <1>1, <2>2
    <3> QED
      BY <1>1, <2>2, <3>1, LogTold
  <2> QED
    BY <1>2, <2>1, <2>3, <2>4 DEF SteadyInv
<1>4. ASSUME NEW w \in Ingesters, Tick(w), DiligentNext
      PROVE  SteadyInv'
  <2>1. /\ db' = OnInteraction(db, turns, run)
        /\ turns' = turns /\ run' = run
        /\ ingest[w] = "assistant" /\ Pending(db.jobs) = {}
    BY <1>1, <1>4, DiligentTick
  <2>2. OwnTurns(turns, run) # {}
    <3>1. Len(turns) # 0 /\ turns[Len(turns)] = [session |-> run, role |-> "assistant"]
      BY <2>1 DEF WholeInv, Midway
    <3>2. Len(turns) \in DOMAIN turns
      BY <1>1, <3>1
    <3>3. Len(turns) \in OwnTurns(turns, run)
      BY <3>1, <3>2 DEF OwnTurns
    <3> QED
      BY <3>3
  <2>3. Told(OnInteraction(db, turns, run), turns)
    BY <1>1, <2>1, TickTold
  <2>4. TickEffect(db, CountInteraction(db, run), OnInteraction(db, turns, run),
                   turns, run)
    BY <1>1, <2>1, CalmTick
  <2>5. Calm(OnInteraction(db, turns, run), turns, run)
    BY <1>1, <2>1, <2>2, <2>4, TickCalm
  <2> QED
    BY <1>2, <2>1, <2>3, <2>5 DEF SteadyInv
<1>5. ASSUME NEW j \in DOMAIN db.jobs, Submit(j)
      PROVE  SteadyInv'
  <2>1. /\ turns' = turns /\ run' = run
        /\ db' = IF j \notin Pending(db.jobs) THEN db
                 ELSE IF db.jobs[j].kind = "session" THEN ApplySession(db, j)
                 ELSE ApplySummary(db, j)
    BY <1>5 DEF Submit
  <2>2. db.jobs[j].kind \in {"session", "summary"}
    BY <1>1, DbFields
  <2>3. CASE j \notin Pending(db.jobs)
    BY <1>1, <1>2, <2>1, <2>3 DEF SteadyInv
  <2>4. CASE j \in SessionJobs(db)
    <3>1. /\ Calm(ApplySession(db, j), turns, run)
          /\ Told(ApplySession(db, j), turns)
      BY <1>1, <2>4, ApplySessionTold
    <3> QED
      BY <1>2, <2>1, <2>4, <3>1 DEF SteadyInv, SessionJobs
  <2>5. CASE j \in Pending(db.jobs) /\ db.jobs[j].kind = "summary"
    <3>1. /\ Calm(ApplySummary(db, j), turns, run)
          /\ Told(ApplySummary(db, j), turns)
      BY <1>1, <2>5, ApplySummaryTold
    <3> QED
      BY <1>2, <2>1, <2>5, <3>1 DEF SteadyInv
  <2> QED
    BY <2>2, <2>3, <2>4, <2>5 DEF SessionJobs
<1>6. ASSUME Reopen
      PROVE  SteadyInv'
  <2>1. db' = FinalizeLast(db, turns) /\ run' = run + 1 /\ turns' = turns
    BY <1>6 DEF Reopen
  <2>2. Calm(FinalizeLast(db, turns), turns, run + 1)
    BY <1>1, CloseCalm
  <2>3. Told(FinalizeLast(db, turns), turns)
    BY <1>1, CloseTold
  <2> QED
    BY <1>2, <2>1, <2>2, <2>3 DEF SteadyInv
<1>7. CASE UNCHANGED vars
  BY <1>7, <1>2 DEF vars, SteadyInv
<1> QED
  BY <1>3, <1>4, <1>5, <1>6, <1>7
     DEF DiligentNext, ClosingNext, LogUser, LogAssistant

\* With one pipeline thread and a diligent host the invariants hold beside an
\* assemble.
THEOREM SteadyInvariance ==
  OneThread => (ContextSpec => [](Inv /\ KnownInv /\ WholeInv /\ SteadyInv))
<1> SUFFICES ASSUME OneThread
             PROVE  ContextSpec => [](Inv /\ KnownInv /\ WholeInv /\ SteadyInv)
  OBVIOUS
<1>1. Init => WholeInv /\ SteadyInv
  BY WholeInitially, SteadyInitially
<1>2. Inv /\ WholeInv /\ SteadyInv /\ [ContextNext]_contextVars
        => WholeInv' /\ SteadyInv'
  <2> SUFFICES ASSUME Inv, WholeInv, SteadyInv, [ContextNext]_contextVars
               PROVE  WholeInv' /\ SteadyInv'
    OBVIOUS
  <2>1. [Next]_vars
    BY ContextStepIsDiaryStep
  <2>2. DiligentNext \/ UNCHANGED vars
    BY ContextStepIsDiligent
  <2> QED
    BY <2>1, <2>2, WholeStep, SteadyStep
<1> QED
  BY <1>1, <1>2, ContextInvariance, PTL DEF ContextSpec

\* A host that drains before every tick and closes its runs loses nothing to
\* a fold: what a folded session's summary reflects, the persistent summary
\* reflects, even before the outbox is empty.
THEOREM DrainedFoldsLoseNothing ==
  OneThread => (ContextSpec => []DrainedFoldLosesNothing)
<1> SUFFICES ASSUME OneThread PROVE ContextSpec => []DrainedFoldLosesNothing
  OBVIOUS
<1>1. SteadyInv => DrainedFoldLosesNothing
  BY DEF SteadyInv, Told, DrainedFoldLosesNothing
<1> QED
  BY <1>1, SteadyInvariance, PTL

(***************************************************************************)
(* The recent dialogue.                                                    *)
(***************************************************************************)

\* Division with remainder.
LEMMA OneRemainder ==
  ASSUME NEW u \in Nat, NEW q \in Nat, NEW p \in Nat, NEW a \in 0..(u - 1),
         NEW b \in 0..(u - 1), u * q + a = u * p + b
  PROVE  a = b
<1>1. CASE q = p
  BY <1>1
<1>2. CASE q < p
  <2>1. u * p >= u * (q + 1)
    BY <1>2
  <2>2. u * (q + 1) = u * q + u
    OBVIOUS
  <2> QED
    BY <2>1, <2>2
<1>3. CASE p < q
  <2>1. u * q >= u * (p + 1)
    BY <1>3
  <2>2. u * (p + 1) = u * p + u
    OBVIOUS
  <2> QED
    BY <2>1, <2>2
<1> QED
  BY <1>1, <1>2, <1>3

\* A count that goes up by one is a multiple again, or one further from the
\* last multiple.
LEMMA NextInCycle ==
  ASSUME NEW c \in Nat, NEW u \in Nat \ {0}
  PROVE  /\ c % u \in 0..(u - 1) /\ 0 % u = 0
         /\ (c + 1) % u = 0 \/ (c + 1) % u = (c % u) + 1
<1> DEFINE q == c \div u
           a == c % u
           p == (c + 1) \div u
           b == (c + 1) % u
<1>1. /\ q \in Nat /\ a \in 0..(u - 1) /\ c = u * q + a
      /\ p \in Nat /\ b \in 0..(u - 1) /\ c + 1 = u * p + b
  OBVIOUS
<1>2. 0 % u = 0
  OBVIOUS
<1> HIDE DEF q, a, p, b
<1>3. CASE a + 1 < u
  <2>1. a + 1 \in 0..(u - 1) /\ u * q + (a + 1) = u * p + b
    BY <1>1, <1>3
  <2>2. b = a + 1
    BY <1>1, <2>1, OneRemainder
  <2> QED
    BY <1>1, <1>2, <2>2 DEF a, b
<1>4. CASE a + 1 = u
  <2>1. u * (q + 1) = u * q + u
    BY <1>1
  <2>2. 0 \in 0..(u - 1) /\ u * (q + 1) + 0 = u * p + b /\ q + 1 \in Nat
    BY <1>1, <1>4, <2>1
  <2>3. b = 0
    BY <1>1, <2>2, OneRemainder
  <2> QED
    BY <1>1, <1>2, <2>3 DEF a, b
<1> QED
  BY <1>1, <1>3, <1>4

\* The rows logged for run r since its last rolling job came due, those of the
\* interaction under way apart.
Behind(d, r) ==
  IF SeqOf(d, r) = {} THEN 0
  ELSE RowsPerTurn * (d.sessions[LastSeq(d)].count % UpdateEvery)

\* Turn n of run r is covered, or will be by the answer that waits.
Sent(d, r, n) ==
  \/ \E i \in SeqOf(d, r) : n <= d.sessions[i].covered
  \/ \E j \in SessionJobs(d) :
       d.jobs[j].target \in SeqOf(d, r) /\ n <= d.jobs[j].body.advance

\* Every turn of run r that is not is among those rows, and the last p.
Near(d, t, r, p) ==
  \A n \in OwnTurns(t, r) : n > Len(t) - Behind(d, r) - p \/ Sent(d, r, n)

\* Those rows are fewer than those of UpdateEvery interactions.
LEMMA BehindRange ==
  ASSUME NEW d \in DbType, NEW r
  PROVE  /\ Behind(d, r) \in Nat
         /\ Behind(d, r) + RowsPerTurn <= RowsPerTurn * UpdateEvery
<1>1. UpdateEvery \in Nat \ {0}
  BY DiaryConfigAssumption
<1>2. CASE SeqOf(d, r) = {}
  BY <1>1, <1>2 DEF Behind, RowsPerTurn
<1>3. CASE SeqOf(d, r) # {}
  <2>1. DOMAIN d.sessions # {}
    BY <1>3 DEF SeqOf
  <2>2. LastSeq(d) \in DOMAIN d.sessions
    BY <2>1, DbFields DEF LastSeq
  <2> DEFINE c == d.sessions[LastSeq(d)].count
  <2>3. c \in Nat
    BY <2>2, DbFields
  <2> HIDE DEF c
  <2>4. c % UpdateEvery \in 0..(UpdateEvery - 1)
    BY <1>1, <2>3, NextInCycle
  <2>5. Behind(d, r) = 2 * (c % UpdateEvery)
    BY <1>3 DEF Behind, RowsPerTurn, c
  <2> QED
    BY <1>1, <2>4, <2>5 DEF RowsPerTurn
<1> QED
  BY <1>2, <1>3

\* A row is logged.
LEMMA LogNear ==
  ASSUME NEW t \in Seq(Turn), NEW x \in Turn, NEW d \in DbType, NEW r,
         NEW p \in Nat, Near(d, t, r, p)
  PROVE  Near(d, Append(t, x), r, p + 1)
<1> DEFINE u == Append(t, x)
<1>1. /\ Len(t) \in Nat /\ DOMAIN t = 1..Len(t)
      /\ Len(u) = Len(t) + 1 /\ DOMAIN u = 1..(Len(t) + 1)
      /\ \A n \in DOMAIN t : u[n] = t[n]
  OBVIOUS
<1> HIDE DEF u
<1>2. Behind(d, r) \in Nat
  BY BehindRange
<1>3. ASSUME NEW n \in OwnTurns(u, r)
      PROVE  n > Len(u) - Behind(d, r) - (p + 1) \/ Sent(d, r, n)
  <2>1. n \in Nat /\ n \in DOMAIN u
    BY <1>1 DEF OwnTurns
  <2>2. CASE n = Len(t) + 1
    BY <1>1, <1>2, <2>1, <2>2
  <2>3. CASE n # Len(t) + 1
    <3>1. n \in OwnTurns(t, r)
      BY <1>1, <2>1, <2>3 DEF OwnTurns
    <3>2. n > Len(t) - Behind(d, r) - p \/ Sent(d, r, n)
      BY <3>1 DEF Near
    <3> QED
      BY <1>1, <1>2, <2>1, <3>2
  <2> QED
    BY <2>2, <2>3
<1>4. Near(d, u, r, p + 1)
  BY <1>3 DEF Near
<1> QED
  BY <1>4 DEF u

\* A diligent host's tick.
LEMMA TickNear ==
  ASSUME NEW t \in Seq(Turn), NEW d \in DbType, NEW c \in DbType, NEW e,
         NEW r \in Nat, Near(d, t, r, RowsPerTurn), Pending(d.jobs) = {},
         TickEffect(d, c, e, t, r)
  PROVE  Near(e, t, r, 0)
<1> DEFINE i == LastSeq(c)
<1>1. /\ OpensRow(d, c, r) /\ SeqOf(c, r) = {i} /\ i \in DOMAIN c.sessions
      /\ SeqOf(d, r) = {} => c.sessions[i].count = 1
      /\ SeqOf(d, r) # {} =>
           /\ LastSeq(c) = LastSeq(d)
           /\ c.sessions[i].count = d.sessions[LastSeq(d)].count + 1
  BY DEF TickEffect, CountsRow
<1>2. /\ e.sessions = c.sessions /\ LastSeq(e) = i /\ SeqOf(e, r) = {i}
      /\ Asks(c, e, t, i)
  BY <1>1 DEF TickEffect, Asks, LastSeq, SeqOf
<1>3. c.sessions[i].sid = r
  BY <1>1 DEF SeqOf
<1>4. c.sessions[i].count % UpdateEvery = 0 => Accounted(e, t, i)
  BY DEF TickEffect
<1> HIDE DEF i
<1>5. CASE c.sessions[i].count % UpdateEvery = 0
  <2>1. \A n \in OwnTurns(t, r) : Sent(e, r, n)
    BY <1>2, <1>3, <1>4, <1>5 DEF Accounted, Sent
  <2> QED
    BY <2>1 DEF Near
<1>6. CASE c.sessions[i].count % UpdateEvery # 0
  <2>1. UpdateEvery \in Nat \ {0}
    BY DiaryConfigAssumption
  <2>2. Behind(e, r) = 2 * (c.sessions[i].count % UpdateEvery)
    BY <1>2 DEF Behind, RowsPerTurn
  <2>3. Behind(e, r) = Behind(d, r) + 2
    <3>1. CASE SeqOf(d, r) = {}
      <4>1. Behind(d, r) = 0 /\ c.sessions[i].count = 0 + 1
        BY <1>1, <3>1 DEF Behind
      <4>2. (0 + 1) % UpdateEvery = 0 \/ (0 + 1) % UpdateEvery = 0 + 1
        BY <2>1, NextInCycle
      <4> QED
        BY <1>6, <2>2, <4>1, <4>2
    <3>2. CASE SeqOf(d, r) # {}
      <4> DEFINE k == d.sessions[LastSeq(d)].count
      <4>1. DOMAIN d.sessions # {}
        BY <3>2 DEF SeqOf
      <4>2. LastSeq(d) \in DOMAIN d.sessions
        BY <4>1, DbFields DEF LastSeq
      <4>3. k \in Nat
        BY <4>2, DbFields
      <4>4. Behind(d, r) = 2 * (k % UpdateEvery)
        BY <3>2 DEF Behind, RowsPerTurn
      <4>5. c.sessions[i].count = k + 1
        BY <1>1, <3>2
      <4> HIDE DEF k
      <4>6. /\ k % UpdateEvery \in 0..(UpdateEvery - 1)
            /\ (k + 1) % UpdateEvery = 0
               \/ (k + 1) % UpdateEvery = (k % UpdateEvery) + 1
        BY <2>1, <4>3, NextInCycle
      <4>7. c.sessions[i].count % UpdateEvery = (k % UpdateEvery) + 1
        BY <1>6, <4>5, <4>6
      <4> QED
        BY <2>1, <2>2, <4>4, <4>6, <4>7
    <3> QED
      BY <3>1, <3>2
  <2>4. \A n : Sent(d, r, n) => Sent(e, r, n)
    <3> SUFFICES ASSUME NEW n, Sent(d, r, n) PROVE Sent(e, r, n)
      OBVIOUS
    <3>1. PICK k \in SeqOf(d, r) : n <= d.sessions[k].covered
      BY DEF Sent, SessionJobs
    <3>2. k \in DOMAIN d.sessions /\ d.sessions[k].sid = r
      BY DEF SeqOf
    <3>3. /\ k \in DOMAIN c.sessions /\ c.sessions[k].sid = r
          /\ c.sessions[k].covered = d.sessions[k].covered
      BY <1>1, <3>2 DEF OpensRow
    <3>4. k \in SeqOf(e, r) /\ n <= e.sessions[k].covered
      BY <1>2, <3>1, <3>3 DEF SeqOf
    <3> QED
      BY <3>4 DEF Sent
  <2>5. Behind(d, r) \in Nat /\ Len(t) \in Nat
    BY BehindRange
  <2>6. ASSUME NEW n \in OwnTurns(t, r)
        PROVE  n > Len(t) - Behind(e, r) - 0 \/ Sent(e, r, n)
    <3>1. n > Len(t) - Behind(d, r) - 2 \/ Sent(d, r, n)
      BY DEF Near, RowsPerTurn
    <3>2. n \in Nat
      BY DEF OwnTurns
    <3> QED
      BY <2>3, <2>4, <2>5, <3>1, <3>2
  <2> QED
    BY <2>6 DEF Near
<1> QED
  BY <1>5, <1>6

\* An answered session job: what it was sent is covered.
LEMMA SessionAnsweredNear ==
  ASSUME NEW t \in Seq(Turn), NEW d, NEW lo, NEW f, Good(d, t, lo, f), NEW r, NEW p,
         Near(d, t, r, p), NEW j \in SessionJobs(d), NEW m \in DbType,
         SessionAnswered(d, m, j), Pending(m.jobs) = Pending(d.jobs) \ {j}
  PROVE  Near(m, t, r, p)
<1> DEFINE i == d.jobs[j].target
           through == d.jobs[j].body.advance
<1>1. /\ i \in DOMAIN d.sessions /\ through \in Nat /\ j \in Pending(d.jobs)
      /\ d.jobs[j].kind = "session" /\ d \in DbType
  BY SessionJobTarget DEF Good
<1>2. d.sessions[i].covered <= through
  BY <1>1 DEF Good, SessionJobsAhead
<1>3. /\ DOMAIN m.sessions = DOMAIN d.sessions
      /\ \A n \in DOMAIN d.sessions :
           /\ m.sessions[n].sid = d.sessions[n].sid
           /\ m.sessions[n].count = d.sessions[n].count
           /\ n # i => m.sessions[n].covered = d.sessions[n].covered
      /\ m.sessions[i].covered = through
      /\ \A k \in Pending(m.jobs) : m.jobs[k] = d.jobs[k]
  BY <1>1 DEF SessionAnswered
<1> HIDE DEF i, through
<1>4. LastSeq(m) = LastSeq(d) /\ SeqOf(m, r) = SeqOf(d, r)
  BY <1>1, <1>3, SameRows DEF SeqOf
<1>5. Behind(m, r) = Behind(d, r)
  <2>1. SeqOf(d, r) # {} => LastSeq(d) \in DOMAIN d.sessions
    <3>1. SeqOf(d, r) # {} => DOMAIN d.sessions # {}
      BY DEF SeqOf
    <3> QED
      BY <1>1, <3>1, DbFields DEF LastSeq
  <2> QED
    BY <1>3, <1>4, <2>1 DEF Behind
<1>6. ASSUME NEW n \in OwnTurns(t, r), Sent(d, r, n)
      PROVE  Sent(m, r, n)
  <2>1. n \in Nat
    BY DEF OwnTurns
  <2>2. ASSUME NEW k \in SeqOf(d, r), n <= d.sessions[k].covered
        PROVE  Sent(m, r, n)
    <3>1. k \in DOMAIN d.sessions
      BY DEF SeqOf
    <3>2. d.sessions[k].covered \in Nat
      BY <1>1, <3>1, DbFields
    <3>3. n <= m.sessions[k].covered
      BY <1>1, <1>2, <1>3, <2>1, <2>2, <3>1, <3>2
    <3> QED
      BY <1>4, <3>3 DEF Sent
  <2>3. ASSUME NEW k \in SessionJobs(d), d.jobs[k].target \in SeqOf(d, r),
               n <= d.jobs[k].body.advance
        PROVE  Sent(m, r, n)
    <3>1. CASE k = j
      BY <1>3, <1>4, <2>3, <3>1 DEF Sent, i, through
    <3>2. CASE k # j
      <4>1. k \in SessionJobs(m) /\ m.jobs[k] = d.jobs[k]
        BY <1>3, <3>2 DEF SessionJobs
      <4> QED
        BY <1>4, <2>3, <4>1 DEF Sent
    <3> QED
      BY <3>1, <3>2
  <2> QED
    BY <1>6, <2>2, <2>3 DEF Sent
<1> QED
  BY <1>5, <1>6 DEF Near

\* The fold trigger sends nothing and covers nothing, nor does an answered
\* fold.
LEMMA FoldsIfDueNear ==
  ASSUME NEW t, NEW m, NEW e, NEW r, NEW p, Near(m, t, r, p), FoldsIfDue(m, e)
  PROVE  Near(e, t, r, p)
<1>1. /\ e.sessions = m.sessions /\ LastSeq(e) = LastSeq(m)
      /\ SeqOf(e, r) = SeqOf(m, r)
      /\ SessionJobs(e) = SessionJobs(m)
      /\ \A j \in SessionJobs(m) : e.jobs[j] = m.jobs[j]
  BY DEF FoldsIfDue, LastSeq, SeqOf
<1>2. Behind(e, r) = Behind(m, r)
  BY <1>1 DEF Behind
<1>3. \A n : Sent(m, r, n) => Sent(e, r, n)
  BY <1>1 DEF Sent
<1> QED
  BY <1>2, <1>3 DEF Near

\* mark_folded and upsert_summary.
LEMMA FoldAnsweredNear ==
  ASSUME NEW t, NEW d \in DbType, NEW r, NEW p, Near(d, t, r, p),
         NEW j \in Pending(d.jobs), d.jobs[j].kind = "summary",
         NEW m \in DbType, FoldAnswered(d, m, j)
  PROVE  Near(m, t, r, p)
<1>1. /\ DOMAIN m.sessions = DOMAIN d.sessions
      /\ \A n \in DOMAIN d.sessions :
           /\ m.sessions[n].sid = d.sessions[n].sid
           /\ m.sessions[n].count = d.sessions[n].count
           /\ m.sessions[n].covered = d.sessions[n].covered
      /\ \A k \in Pending(m.jobs) : m.jobs[k] = d.jobs[k]
      /\ Pending(m.jobs) = Pending(d.jobs) \ {j}
  BY DEF FoldAnswered
<1>2. LastSeq(m) = LastSeq(d) /\ SeqOf(m, r) = SeqOf(d, r)
  BY <1>1, SameRows DEF SeqOf
<1>3. Behind(m, r) = Behind(d, r)
  <2>1. SeqOf(d, r) # {} => LastSeq(d) \in DOMAIN d.sessions
    <3>1. SeqOf(d, r) # {} => DOMAIN d.sessions # {}
      BY DEF SeqOf
    <3> QED
      BY <3>1, DbFields DEF LastSeq
  <2> QED
    BY <1>1, <1>2, <2>1 DEF Behind
<1>4. \A k \in SessionJobs(d) : k \in SessionJobs(m) /\ m.jobs[k] = d.jobs[k]
  BY <1>1 DEF SessionJobs
<1>5. \A n : Sent(d, r, n) => Sent(m, r, n)
  <2> SUFFICES ASSUME NEW n, Sent(d, r, n) PROVE Sent(m, r, n)
    OBVIOUS
  <2>1. ASSUME NEW k \in SeqOf(d, r), n <= d.sessions[k].covered
        PROVE  Sent(m, r, n)
    BY <1>1, <1>2, <2>1 DEF Sent, SeqOf
  <2>2. ASSUME NEW k \in SessionJobs(d), d.jobs[k].target \in SeqOf(d, r),
               n <= d.jobs[k].body.advance
        PROVE  Sent(m, r, n)
    BY <1>2, <1>4, <2>2 DEF Sent
  <2> QED
    BY <2>1, <2>2 DEF Sent
<1> QED
  BY <1>3, <1>5 DEF Near

\* How many rows of the interaction under way are logged.
InProgress ==
  IF \E w \in Ingesters : ingest[w] = "assistant" THEN RowsPerTurn
  ELSE IF \E w \in Ingesters : ingest[w] = "user" THEN 1
  ELSE 0

NearInv == Near(db, turns, run, InProgress)

\* Nothing is logged yet.
LEMMA NearInitially ==
  ASSUME Init PROVE NearInv
<1>1. OwnTurns(turns, run) = {}
  BY DEF Init, OwnTurns
<1> QED
  BY <1>1 DEF NearInv, Near

\* Every step of a diligent host keeps it.
LEMMA NearStep ==
  ASSUME Inv, WholeInv, SteadyInv, NearInv, OneThread,
         DiligentNext \/ UNCHANGED vars
  PROVE  NearInv'
<1> DEFINE c == db.persistent.count
<1>1. /\ Good(db, turns, c, c) /\ turns \in Seq(Turn) /\ run \in Nat
      /\ db \in DbType /\ c \in Nat
      /\ Whole(db, turns, run, 0)
      /\ Calm(db, turns, run) /\ Quiet(db, turns, run)
      /\ ingest \in [Ingesters -> Stages]
      /\ Near(db, turns, run, InProgress) /\ NoneFailed
  BY TablesAreGood DEF WholeInv, SteadyInv, Calm, Inv, NearInv
<1> HIDE DEF c
<1>2. ASSUME NEW w \in Ingesters, NEW role \in {"user", "assistant"},
             LogTurn(w, role),
             ingest[w] = IF role = "user" THEN "idle" ELSE "user"
      PROVE  NearInv'
  <2> DEFINE x == [session |-> run, role |-> role]
  <2>1. /\ turns' = Append(turns, x) /\ db' = db /\ run' = run
        /\ ingest' = [ingest EXCEPT ![w] = role]
    BY <1>2 DEF LogTurn
  <2>2. x \in Turn
    BY <1>1 DEF Turn
  <2> HIDE DEF x
  <2>3. \A v \in Ingesters : v = w
    BY DEF OneThread
  <2>4. ingest'[w] = role
    BY <1>1, <2>1
  <2>5. InProgress \in Nat /\ InProgress' = InProgress + 1
    BY <1>2, <2>3, <2>4 DEF InProgress, RowsPerTurn
  <2>6. Near(db, Append(turns, x), run, InProgress + 1)
    BY <1>1, <2>2, <2>5, LogNear
  <2> QED
    BY <2>1, <2>5, <2>6 DEF NearInv
<1>3. ASSUME NEW w \in Ingesters, Tick(w), DiligentNext
      PROVE  NearInv'
  <2> DEFINE d == CountInteraction(db, run)
             e == OnInteraction(db, turns, run)
  <2>1. /\ db' = e /\ turns' = turns /\ run' = run
        /\ ingest[w] = "assistant" /\ ingest'[w] = "idle"
        /\ Pending(db.jobs) = {}
    BY <1>1, <1>3, DiligentTick
  <2>2. \A v \in Ingesters : v = w
    BY DEF OneThread
  <2>3. TickEffect(db, d, e, turns, run)
    BY <1>1, <2>1, CalmTick
  <2>4. d \in DbType
    BY <1>1, CountCounts DEF Good
  <2>5. InProgress = RowsPerTurn /\ InProgress' = 0
    BY <2>1, <2>2 DEF InProgress
  <2> HIDE DEF d, e
  <2>6. Near(e, turns, run, 0)
    BY <1>1, <2>1, <2>3, <2>4, <2>5, TickNear
  <2> QED
    BY <2>1, <2>5, <2>6 DEF NearInv
<1>4. ASSUME NEW j \in DOMAIN db.jobs, Submit(j)
      PROVE  NearInv'
  <2>1. /\ turns' = turns /\ run' = run /\ ingest' = ingest
        /\ db' = IF j \notin Pending(db.jobs) THEN db
                 ELSE IF db.jobs[j].kind = "session" THEN ApplySession(db, j)
                 ELSE ApplySummary(db, j)
    BY <1>4 DEF Submit
  <2>2. db.jobs[j].kind \in {"session", "summary"} /\ InProgress' = InProgress
    BY <1>1, <2>1, DbFields DEF InProgress
  <2>3. CASE j \notin Pending(db.jobs)
    BY <1>1, <2>1, <2>2, <2>3 DEF NearInv
  <2>4. CASE j \in SessionJobs(db)
    <3>1. PICK m \in DbType :
            /\ SessionAnswered(db, m, j)
            /\ Pending(m.jobs) = Pending(db.jobs) \ {j}
            /\ FoldsIfDue(m, ApplySession(db, j))
      BY <1>1, <2>4, AnswerThenTrigger
    <3>2. Near(m, turns, run, InProgress)
      BY <1>1, <2>4, <3>1, SessionAnsweredNear
    <3>3. Near(ApplySession(db, j), turns, run, InProgress)
      BY <3>1, <3>2, FoldsIfDueNear
    <3> QED
      BY <2>1, <2>2, <2>4, <3>3 DEF NearInv, SessionJobs
  <2>5. CASE j \in Pending(db.jobs) /\ db.jobs[j].kind = "summary"
    <3>1. PICK m : /\ FoldAnswered(db, m, j)
                   /\ ApplySummary(db, j) = EnqueueSummary(m)
                   /\ \E g : Good(m, turns, c, g)
      BY <1>1, <2>5, FoldAnsweredEffect
    <3>2. PICK g : Good(m, turns, c, g)
      BY <3>1
    <3>3. m \in DbType /\ FoldsIfDue(m, EnqueueSummary(m))
      BY <3>2, EnqueueSummaryEffect DEF Good
    <3>4. Near(m, turns, run, InProgress)
      BY <1>1, <2>5, <3>1, <3>3, FoldAnsweredNear
    <3>5. Near(EnqueueSummary(m), turns, run, InProgress)
      BY <3>3, <3>4, FoldsIfDueNear
    <3> QED
      BY <2>1, <2>2, <2>5, <3>1, <3>5 DEF NearInv
  <2> QED
    BY <2>2, <2>3, <2>4, <2>5 DEF SessionJobs
<1>5. ASSUME Reopen
      PROVE  NearInv'
  <2>1. run' = run + 1 /\ turns' = turns
    BY <1>5 DEF Reopen
  <2>2. OwnTurns(turns, run + 1) = {}
    <3> SUFFICES ASSUME NEW n \in DOMAIN turns PROVE turns[n].session # run + 1
      BY DEF OwnTurns
    <3>1. turns[n].session <= run /\ turns[n].session \in Nat
      BY <1>1, TurnSession DEF Whole, TurnsPaired
    <3> QED
      BY <1>1, <3>1
  <2>3. Near(db', turns, run + 1, InProgress')
    BY <2>2 DEF Near
  <2> QED
    BY <2>1, <2>3 DEF NearInv
<1>6. CASE UNCHANGED vars
  <2>1. InProgress' = InProgress
    BY <1>6 DEF vars, InProgress
  <2> QED
    BY <1>1, <1>6, <2>1 DEF vars, NearInv
<1> QED
  BY <1>2, <1>3, <1>4, <1>5, <1>6
     DEF DiligentNext, ClosingNext, LogUser, LogAssistant

(***************************************************************************)
(* What an assemble can count on between two reads.                        *)
(***************************************************************************)

\* From tables d to tables e no session is closed and nothing is forgotten.
Continues(d, e) ==
  /\ Grows(d, e)
  /\ \A i \in DOMAIN d.sessions :
       /\ e.sessions[i].sid = d.sessions[i].sid
       /\ e.sessions[i].finalized <=> d.sessions[i].finalized
  /\ \A i \in DOMAIN e.sessions :
       i \notin DOMAIN d.sessions => ~e.sessions[i].finalized

\* A session opened or counted.
LEMMA OpensRowContinues ==
  ASSUME NEW d \in DbType, NEW e, NEW r, OpensRow(d, e, r)
  PROVE  Continues(d, e)
<1>1. \A i \in DOMAIN d.sessions : d.sessions[i].covered \in Nat
  BY DbFields
<1>2. Grows(d, e)
  BY <1>1 DEF OpensRow, Grows
<1> QED
  BY <1>2 DEF OpensRow, Continues

\* An answered session job, before and after mark_done.
LEMMA SessionAnsweredContinues ==
  ASSUME NEW t, NEW d, NEW lo, NEW f, Good(d, t, lo, f),
         NEW j \in SessionJobs(d), NEW e, SessionAnswered(d, e, j)
  PROVE  Continues(d, e)
<1> DEFINE i == d.jobs[j].target
           body == d.jobs[j].body
<1>1. /\ i \in DOMAIN d.sessions /\ j \in Pending(d.jobs)
      /\ d.jobs[j].kind = "session" /\ d \in DbType
  BY SessionJobTarget DEF Good
<1>2. /\ d.sessions[i].covered <= body.advance
      /\ d.sessions[i].summary \subseteq body.input
  BY <1>1 DEF Good, SessionJobsAhead
<1>3. /\ e.persistent = d.persistent
      /\ DOMAIN e.sessions = DOMAIN d.sessions
      /\ \A n \in DOMAIN d.sessions :
           /\ e.sessions[n].sid = d.sessions[n].sid
           /\ e.sessions[n].finalized = d.sessions[n].finalized
           /\ e.sessions[n].summary = IF n = i THEN body.input
                                      ELSE d.sessions[n].summary
           /\ e.sessions[n].covered = IF n = i THEN body.advance
                                      ELSE d.sessions[n].covered
  BY DEF SessionAnswered
<1> HIDE DEF i, body
<1>4. \A n \in DOMAIN d.sessions : d.sessions[n].covered \in Nat
  BY <1>1, DbFields
<1>5. Grows(d, e)
  BY <1>2, <1>3, <1>4 DEF Grows
<1> QED
  BY <1>3, <1>5 DEF Continues

\* An answered fold.
LEMMA FoldAnsweredContinues ==
  ASSUME NEW t, NEW d, NEW lo, NEW f, Good(d, t, lo, f),
         NEW j \in Pending(d.jobs), d.jobs[j].kind = "summary",
         NEW e, FoldAnswered(d, e, j)
  PROVE  Continues(d, e)
<1>1. d \in DbType /\ d.persistent.summary \subseteq d.jobs[j].body.input
  BY DEF Good, SummaryJobsAhead
<1>2. \A n \in DOMAIN d.sessions : d.sessions[n].covered \in Nat
  BY <1>1, DbFields
<1>3. /\ d.persistent.summary \subseteq e.persistent.summary
      /\ DOMAIN e.sessions = DOMAIN d.sessions
      /\ \A n \in DOMAIN d.sessions :
           /\ e.sessions[n].sid = d.sessions[n].sid
           /\ e.sessions[n].finalized = d.sessions[n].finalized
           /\ e.sessions[n].summary = d.sessions[n].summary
           /\ e.sessions[n].covered = d.sessions[n].covered
  BY <1>1 DEF FoldAnswered
<1>4. Grows(d, e)
  BY <1>2, <1>3 DEF Grows
<1> QED
  BY <1>3, <1>4 DEF Continues

\* Sessions marked.
LEMMA MarkedContinues ==
  ASSUME NEW d \in DbType, NEW u \in DbType, Continues(d, u),
         u.sessions = d.sessions, NEW batch, NEW e, MarkedOnly(u, e, batch)
  PROVE  Continues(d, e)
<1>1. \A n \in DOMAIN d.sessions : d.sessions[n].covered \in Nat
  BY DbFields
<1>2. Grows(d, e)
  BY <1>1 DEF MarkedOnly, Continues, Grows
<1> QED
  BY <1>2 DEF MarkedOnly, Continues

\* The same sessions and summary.
LEMMA ContinuesSame ==
  ASSUME NEW d, NEW e, NEW g, Continues(d, e),
         g.sessions = e.sessions, g.persistent = e.persistent
  PROVE  Continues(d, g)
<1>1. Grows(d, g)
  BY DEF Continues, Grows
<1> QED
  BY <1>1 DEF Continues

\* The commits of a tick.
LEMMA TickCommitsContinue ==
  ASSUME NEW t \in Seq(Turn), NEW d, NEW lo \in Nat, NEW f, NEW r \in Nat,
         Good(d, t, lo, f), Whole(d, t, r, 0), Quiet(d, t, r),
         NEW e \in TickCommits(d, t, r)
  PROVE  Continues(d, e)
<1>1. OpensRow(d, e, r)
  BY TickCommitsOpen
<1>2. d \in DbType
  BY DEF Good
<1> QED
  BY <1>1, <1>2, OpensRowContinues

\* Of an answered session job.
LEMMA ApplySessionCommitsContinue ==
  ASSUME NEW t \in Seq(Turn), NEW d, NEW lo \in Nat, NEW f,
         Good(d, t, lo, f), NEW j \in SessionJobs(d),
         NEW e \in ApplySessionCommits(d, j)
  PROVE  Continues(d, e)
<1> DEFINE s == SetSessionSummary(d, d.jobs[j].target, d.jobs[j].body.input,
                                  d.jobs[j].body.advance)
           m == Answered(s, j)
<1>1. e = s \/ e = m
  BY DEF ApplySessionCommits, Answered
<1>2. SessionAnswered(d, s, j)
  BY SetSummaryEffect
<1>3. SessionAnswered(d, m, j)
  BY SessionAnsweredEffect
<1> HIDE DEF s, m
<1> QED
  BY <1>1, <1>2, <1>3, SessionAnsweredContinues

\* Of an answered fold.
LEMMA ApplySummaryCommitsContinue ==
  ASSUME NEW t \in Seq(Turn), NEW d, NEW lo \in Nat, NEW f,
         Good(d, t, lo, f), NEW j \in Pending(d.jobs),
         d.jobs[j].kind = "summary", NEW e \in ApplySummaryCommits(d, j)
  PROVE  Continues(d, e)
<1> DEFINE batch == d.jobs[j].body.items
           text == d.jobs[j].body.input
           u == UpsertSummary(d, text, batch)
           folded == MarkFolded(u, batch)
<1>1. e = u \/ (\E S : e = MarkFolded(u, S)) \/ e = Answered(folded, j)
  BY DEF ApplySummaryCommits, Answered
<1>2. /\ Good(u, t, lo, f) /\ Grows(d, u)
      /\ u.sessions = d.sessions /\ u.jobs = d.jobs
  BY UpsertSummaryGood
<1> HIDE DEF u
<1>3. Continues(d, u)
  BY <1>2 DEF Continues
<1>4. d \in DbType /\ u \in DbType
  BY <1>2 DEF Good
<1>5. ASSUME NEW S
      PROVE  Continues(d, MarkFolded(u, S)) /\ MarkFolded(u, S) \in DbType
             /\ MarkFolded(u, S).jobs = d.jobs
  <2> DEFINE g == MarkFolded(u, S)
  <2>1. g \in DbType /\ MarkedOnly(u, g, S)
    BY <1>4, MarkFoldedEffect
  <2> HIDE DEF g
  <2>2. Continues(d, g)
    BY <1>2, <1>3, <1>4, <2>1, MarkedContinues
  <2>3. g.jobs = d.jobs
    BY <1>2, <2>1 DEF MarkedOnly
  <2> QED
    BY <2>1, <2>2, <2>3 DEF g
<1>6. Continues(d, Answered(folded, j))
  <2>1. folded \in DbType /\ Continues(d, folded)
    BY <1>5
  <2> HIDE DEF folded
  <2>2. /\ Answered(folded, j).sessions = folded.sessions
        /\ Answered(folded, j).persistent = folded.persistent
    BY <2>1 DEF Answered, DbType
  <2> QED
    BY <2>1, <2>2, ContinuesSame
<1> QED
  BY <1>1, <1>3, <1>5, <1>6

\* Any tables a reader without the lock may meet.
LEMMA VisibleContinues ==
  ASSUME Inv, WholeInv, SteadyInv, NEW d \in Visible
  PROVE  Continues(db, d) /\ d \in DbType /\ ClosedInOrder(d)
<1> DEFINE c == db.persistent.count
<1>1. /\ Good(db, turns, 0, c) /\ turns \in Seq(Turn) /\ run \in Nat
      /\ db \in DbType /\ c \in Nat
      /\ Whole(db, turns, run, 0) /\ Quiet(db, turns, run)
  BY TablesAreGood DEF WholeInv, SteadyInv, Calm
<1>2. CrashOk(db, turns)
  BY <1>1 DEF CrashOk
<1> HIDE DEF c
<1>3. CASE d = db
  <2>1. Grows(db, db)
    BY <1>1, GrowsSame
  <2> QED
    BY <1>1, <1>3, <2>1 DEF Continues, Good
<1>4. CASE d \in TickCommits(db, turns, run)
  <2>1. Continues(db, d)
    BY <1>1, <1>4, TickCommitsContinue
  <2>2. Good(d, turns, 0, c)
    BY <1>1, <1>4, TickCommitsSurvive DEF Survives
  <2> QED
    BY <2>1, <2>2 DEF Good
<1>5. ASSUME NEW j \in Pending(db.jobs),
             d \in (IF db.jobs[j].kind = "session" THEN ApplySessionCommits(db, j)
                    ELSE ApplySummaryCommits(db, j))
      PROVE  Continues(db, d) /\ d \in DbType /\ ClosedInOrder(d)
  <2>1. db.jobs[j].kind \in {"session", "summary"}
    BY <1>1, DbFields DEF Pending
  <2>2. CASE db.jobs[j].kind = "session"
    <3>1. j \in SessionJobs(db) /\ d \in ApplySessionCommits(db, j)
      BY <1>5, <2>2 DEF SessionJobs
    <3>2. Continues(db, d)
      BY <1>1, <3>1, ApplySessionCommitsContinue
    <3>3. Good(d, turns, 0, c)
      BY <1>1, <2>2, <3>1, ApplySessionCommitsSurvive DEF Survives
    <3> QED
      BY <3>2, <3>3 DEF Good
  <2>3. CASE db.jobs[j].kind = "summary"
    <3>1. d \in ApplySummaryCommits(db, j)
      BY <1>5, <2>3
    <3>2. Continues(db, d)
      BY <1>1, <2>3, <3>1, ApplySummaryCommitsContinue
    <3>3. CrashOk(d, turns)
      BY <1>1, <1>2, <2>3, <3>1, ApplySummaryCommitsSurvive
    <3> QED
      BY <3>2, <3>3 DEF CrashOk, Good
  <2> QED
    BY <2>1, <2>2, <2>3
<1> QED
  BY <1>3, <1>4, <1>5 DEF Visible

\* Any step within a run.
LEMMA StepContinues ==
  ASSUME Inv, WholeInv, SteadyInv, DiligentNext \/ UNCHANGED vars, run' = run
  PROVE  Continues(db, db')
<1> DEFINE c == db.persistent.count
<1>1. /\ Good(db, turns, c, c) /\ turns \in Seq(Turn) /\ run \in Nat
      /\ db \in DbType /\ c \in Nat
      /\ Whole(db, turns, run, 0) /\ Calm(db, turns, run)
      /\ ingest \in [Ingesters -> Stages] /\ NoneFailed
  BY TablesAreGood DEF WholeInv, SteadyInv, Inv
<1> HIDE DEF c
<1>2. Continues(db, db)
  BY <1>1, GrowsSame DEF Continues
<1>3. ASSUME NEW w \in Ingesters, Tick(w), DiligentNext
      PROVE  Continues(db, db')
  <2> DEFINE d == CountInteraction(db, run)
             e == OnInteraction(db, turns, run)
  <2>1. db' = e /\ Pending(db.jobs) = {}
    BY <1>1, <1>3, DiligentTick
  <2>2. TickEffect(db, d, e, turns, run)
    BY <1>1, <2>1, CalmTick
  <2> HIDE DEF d, e
  <2>3. OpensRow(db, e, run)
    BY <2>2 DEF TickEffect, CountsRow, Asks, OpensRow
  <2> QED
    BY <1>1, <2>1, <2>3, OpensRowContinues
<1>4. ASSUME NEW j \in DOMAIN db.jobs, Submit(j)
      PROVE  Continues(db, db')
  <2>1. db' = IF j \notin Pending(db.jobs) THEN db
              ELSE IF db.jobs[j].kind = "session" THEN ApplySession(db, j)
              ELSE ApplySummary(db, j)
    BY <1>4 DEF Submit
  <2>2. db.jobs[j].kind \in {"session", "summary"}
    BY <1>1, DbFields
  <2>3. CASE j \notin Pending(db.jobs)
    BY <1>2, <2>1, <2>3
  <2>4. CASE j \in SessionJobs(db)
    <3>1. PICK m \in DbType : SessionAnswered(db, m, j)
                              /\ FoldsIfDue(m, ApplySession(db, j))
      BY <1>1, <2>4, AnswerThenTrigger
    <3>2. Continues(db, m)
      BY <1>1, <2>4, <3>1, SessionAnsweredContinues
    <3>3. Continues(db, ApplySession(db, j))
      BY <3>1, <3>2, ContinuesSame DEF FoldsIfDue
    <3> QED
      BY <2>1, <2>4, <3>3 DEF SessionJobs
  <2>5. CASE j \in Pending(db.jobs) /\ db.jobs[j].kind = "summary"
    <3>1. PICK m : /\ FoldAnswered(db, m, j)
                   /\ ApplySummary(db, j) = EnqueueSummary(m)
                   /\ \E g : Good(m, turns, c, g)
      BY <1>1, <2>5, FoldAnsweredEffect
    <3>2. PICK g : Good(m, turns, c, g)
      BY <3>1
    <3>3. FoldsIfDue(m, EnqueueSummary(m))
      BY <3>2, EnqueueSummaryEffect
    <3>4. Continues(db, m)
      BY <1>1, <2>5, <3>1, FoldAnsweredContinues
    <3>5. Continues(db, EnqueueSummary(m))
      BY <3>3, <3>4, ContinuesSame DEF FoldsIfDue
    <3> QED
      BY <2>1, <2>5, <3>1, <3>5
  <2> QED
    BY <2>2, <2>3, <2>4, <2>5 DEF SessionJobs
<1>5. run' # run + 1
  BY <1>1
<1>6. ASSUME \/ \E w \in Ingesters : LogUser(w) \/ LogAssistant(w)
             \/ UNCHANGED vars
      PROVE  Continues(db, db')
  <2>1. db' = db
    BY <1>6 DEF LogUser, LogAssistant, LogTurn, vars
  <2> QED
    BY <1>2, <2>1
<1> QED
  BY <1>3, <1>4, <1>5, <1>6 DEF DiligentNext, ClosingNext, Reopen

(***************************************************************************)
(* What an assemble still tells of.                                        *)
(***************************************************************************)

\* The room ContextIsComplete asks for.
Room ==
  /\ InjectSessions >= SessionsPerSummary - 1
  /\ RecentRows >= RowsPerTurn * UpdateEvery

\* The closed sessions after session i.
Later(d, i) == {j \in DOMAIN d.sessions : i < j /\ d.sessions[j].finalized}

\* A section that is read after the first k, from tables d, tells of turn n.
ToCome(d, k, r, n) ==
  \/ k <= 1 /\ \E i \in SeqOf(d, r) : n \in d.sessions[i].summary
  \/ /\ k <= 2
     /\ \E i \in DOMAIN d.sessions :
          /\ d.sessions[i].finalized
          /\ n \in d.sessions[i].summary
          /\ Cardinality(Later(d, i)) < InjectSessions
  \/ k <= 3 /\ n \in d.persistent.summary

ComingInv ==
  \A n \in asm.owed : n \in asm.shown \/ ToCome(db, asm.read, run, n)

\* Finitely many.
LEMMA LaterIsFinite ==
  ASSUME NEW d \in DbType, NEW i
  PROVE  IsFiniteSet(Later(d, i)) /\ Cardinality(Later(d, i)) \in Nat
<1>1. /\ Len(d.sessions) \in Nat /\ DOMAIN d.sessions = 1..Len(d.sessions)
  BY DbFields
<1>2. IsFiniteSet(1..Len(d.sessions))
  BY <1>1, FS_Interval
<1>3. Later(d, i) \subseteq 1..Len(d.sessions)
  BY <1>1 DEF Later
<1> QED
  BY <1>2, <1>3, FS_Subset, FS_CardinalityType

\* It still comes when the tables go on.
LEMMA ContinuesToCome ==
  ASSUME NEW d, NEW e, Continues(d, e), NEW k, NEW r, NEW n,
         ToCome(d, k, r, n)
  PROVE  ToCome(e, k, r, n)
<1>1. \A i \in DOMAIN d.sessions :
        /\ i \in DOMAIN e.sessions
        /\ e.sessions[i].sid = d.sessions[i].sid
        /\ e.sessions[i].finalized <=> d.sessions[i].finalized
        /\ d.sessions[i].summary \subseteq e.sessions[i].summary
  BY DEF Continues, Grows
<1>2. \A i : Later(e, i) = Later(d, i)
  BY <1>1 DEF Continues, Later
<1>3. d.persistent.summary \subseteq e.persistent.summary
  BY DEF Continues, Grows
<1>4. CASE k <= 1 /\ \E i \in SeqOf(d, r) : n \in d.sessions[i].summary
  BY <1>1, <1>4 DEF ToCome, SeqOf
<1>5. CASE /\ k <= 2
           /\ \E i \in DOMAIN d.sessions :
                /\ d.sessions[i].finalized
                /\ n \in d.sessions[i].summary
                /\ Cardinality(Later(d, i)) < InjectSessions
  BY <1>1, <1>2, <1>5 DEF ToCome
<1>6. CASE k <= 3 /\ n \in d.persistent.summary
  BY <1>3, <1>6 DEF ToCome
<1> QED
  BY <1>4, <1>5, <1>6 DEF ToCome

\* A member with few above it is among the newest.
LEMMA AmongNewest ==
  ASSUME NEW S, NEW i \in S, NEW L, IsFiniteSet(L), NEW k \in Nat,
         {j \in S : i < j} \subseteq L, Cardinality(L) < k
  PROVE  i \in NewestK(S, k)
<1> DEFINE above == {j \in S : i < j}
<1>1. IsFiniteSet(above) /\ Cardinality(above) <= Cardinality(L)
  BY FS_Subset
<1>2. Cardinality(above) \in Nat /\ Cardinality(L) \in Nat
  BY <1>1, FS_CardinalityType
<1>3. Cardinality(above) < k
  BY <1>1, <1>2
<1> QED
  BY <1>3 DEF NewestK

\* A closed session with fewer than InjectSessions after it is one of those
\* the third section shows.
LEMMA ReachShown ==
  ASSUME NEW e \in DbType, ClosedInOrder(e), NEW r,
         \A m \in SeqOf(e, r) : ~e.sessions[m].finalized,
         NEW i \in DOMAIN e.sessions, e.sessions[i].finalized,
         e.sessions[i].summary # {}, Cardinality(Later(e, i)) < InjectSessions
  PROVE  i \in PreviousFinalized(e, r)
<1> DEFINE S == {m \in DOMAIN e.sessions :
                   /\ e.sessions[m].finalized /\ e.sessions[m].summary # {}
                   /\ \A current \in SeqOf(e, r) : m < current}
<1>1. /\ LastSeq(e) = Len(e.sessions) /\ Len(e.sessions) \in Nat
      /\ DOMAIN e.sessions = 1..Len(e.sessions)
  BY DbFields DEF LastSeq
<1>2. ASSUME NEW current \in SeqOf(e, r)
      PROVE  i < current
  <2>1. current \in DOMAIN e.sessions /\ ~e.sessions[current].finalized
    BY DEF SeqOf
  <2>2. ~(current < LastSeq(e)) /\ current # i
    BY <2>1 DEF ClosedInOrder
  <2> QED
    BY <1>1, <2>1, <2>2
<1>3. i \in S
  BY <1>2
<1>4. {m \in S : i < m} \subseteq Later(e, i)
  BY DEF Later
<1>5. InjectSessions \in Nat
  BY DiaryConfigAssumption
<1> HIDE DEF S
<1>6. i \in NewestK(S, InjectSessions)
  BY <1>3, <1>4, <1>5, LaterIsFinite, AmongNewest
<1> QED
  BY <1>6 DEF PreviousFinalized, S

\* The next section read tells of it, or it still comes.
LEMMA ReadTells ==
  ASSUME NEW t, NEW d, NEW lo, NEW f, NEW r \in Nat, Good(d, t, lo, f),
         Whole(d, t, r, 0), NEW e \in DbType, ClosedInOrder(e),
         Continues(d, e), NEW k \in 1..3, NEW n, ToCome(d, k, r, n)
  PROVE  n \in Section(ReadOrder[k + 1], e, t, r) \/ ToCome(d, k + 1, r, n)
<1>1. \A i \in DOMAIN d.sessions :
        /\ i \in DOMAIN e.sessions
        /\ e.sessions[i].sid = d.sessions[i].sid
        /\ e.sessions[i].finalized <=> d.sessions[i].finalized
        /\ d.sessions[i].summary \subseteq e.sessions[i].summary
  BY DEF Continues, Grows
<1>2. \A i : Later(e, i) = Later(d, i)
  BY <1>1 DEF Continues, Later
<1>3. ASSUME NEW m \in SeqOf(e, r)
      PROVE  ~e.sessions[m].finalized
  <2>1. m \in DOMAIN e.sessions /\ e.sessions[m].sid = r
    BY DEF SeqOf
  <2>2. CASE m \in DOMAIN d.sessions
    <3>1. d.sessions[m].sid = r
      BY <1>1, <2>1, <2>2
    <3>2. ~d.sessions[m].finalized
      BY <2>2, <3>1, RunRow
    <3> QED
      BY <1>1, <2>2, <3>2
  <2>3. CASE m \notin DOMAIN d.sessions
    BY <2>1, <2>3 DEF Continues
  <2> QED
    BY <2>2, <2>3
<1>4. CASE k <= 1 /\ \E i \in SeqOf(d, r) : n \in d.sessions[i].summary
  <2>1. PICK i \in SeqOf(d, r) : n \in d.sessions[i].summary
    BY <1>4
  <2>2. i \in SeqOf(e, r) /\ n \in e.sessions[i].summary
    BY <1>1, <2>1 DEF SeqOf
  <2>3. n \in Summaries(e, SeqOf(e, r))
    BY <2>2 DEF Summaries
  <2>4. k + 1 = 2
    BY <1>4
  <2> QED
    BY <2>3, <2>4, FourSections DEF Section
<1>5. CASE /\ k <= 2
           /\ \E i \in DOMAIN d.sessions :
                /\ d.sessions[i].finalized
                /\ n \in d.sessions[i].summary
                /\ Cardinality(Later(d, i)) < InjectSessions
  <2>1. CASE k = 1
    BY <1>5, <2>1 DEF ToCome
  <2>2. CASE k = 2
    <3>1. PICK i \in DOMAIN d.sessions :
            /\ d.sessions[i].finalized
            /\ n \in d.sessions[i].summary
            /\ Cardinality(Later(d, i)) < InjectSessions
      BY <1>5
    <3>2. /\ i \in DOMAIN e.sessions /\ e.sessions[i].finalized
          /\ n \in e.sessions[i].summary
          /\ Cardinality(Later(e, i)) < InjectSessions
      BY <1>1, <1>2, <3>1
    <3>3. i \in PreviousFinalized(e, r)
      BY <1>3, <3>2, ReachShown
    <3>4. n \in Summaries(e, PreviousFinalized(e, r))
      BY <3>2, <3>3 DEF Summaries
    <3>5. k + 1 = 3
      BY <2>2
    <3> QED
      BY <3>4, <3>5, FourSections DEF Section
  <2> QED
    BY <1>5, <2>1, <2>2
<1>6. CASE k <= 3 /\ n \in d.persistent.summary
  <2>1. CASE k <= 2
    BY <1>6, <2>1 DEF ToCome
  <2>2. CASE k = 3
    <3>1. n \in e.persistent.summary /\ k + 1 = 4
      BY <1>6, <2>2 DEF Continues, Grows
    <3> QED
      BY <3>1, FourSections DEF Section
  <2> QED
    BY <2>1, <2>2
<1> QED
  BY <1>4, <1>5, <1>6 DEF ToCome

\* A row near the end of the log is part of the recent dialogue.
LEMMA RecentReach ==
  ASSUME NEW t \in Seq(Turn), NEW n \in DOMAIN t, Len(t) - n < RecentRows
  PROVE  n \in RecentDialogue(t)
<1> DEFINE k == Len(t) - n
           L == (n + 1)..(n + k)
<1>1. /\ n \in Nat /\ k \in Nat /\ DOMAIN t = 1..Len(t) /\ Len(t) \in Nat
      /\ n + k = Len(t)
  OBVIOUS
<1>2. RecentRows \in Nat /\ k < RecentRows
  BY RecentRowsAssumption
<1> HIDE DEF k
<1>3. {j \in DOMAIN t : n < j} \subseteq L
  BY <1>1
<1>4. IsFiniteSet(L) /\ Cardinality(L) = k
  BY <1>1, IntervalSize
<1> HIDE DEF L
<1>5. n \in NewestK(DOMAIN t, RecentRows)
  BY <1>2, <1>3, <1>4, AmongNewest
<1> QED
  BY <1>5 DEF RecentDialogue

\* With an empty outbox every turn an assemble owes is near the end of the
\* log, or some section tells of it.
LEMMA BeginTells ==
  ASSUME Inv, WholeInv, SteadyInv, NearInv, Room, Pending(db.jobs) = {},
         NEW n \in Remembered
  PROVE  n \in RecentDialogue(turns) \/ ToCome(db, 1, run, n)
<1> DEFINE f == db.persistent.count
<1>1. /\ Good(db, turns, f, f) /\ turns \in Seq(Turn) /\ run \in Nat
      /\ db \in DbType /\ f \in Nat
      /\ Whole(db, turns, run, 0) /\ Calm(db, turns, run) /\ Told(db, turns)
      /\ Near(db, turns, run, InProgress)
  BY TablesAreGood DEF WholeInv, SteadyInv, NearInv
<1>2. n \in DOMAIN turns /\ n \in Nat /\ n \in OwnTurns(turns, turns[n].session)
  BY <1>1 DEF Remembered, OwnTurns
<1>3. SessionJobs(db) = {}
  BY DEF SessionJobs
<1>4. CASE turns[n].session = run
  <2>1. n > Len(turns) - Behind(db, run) - InProgress \/ Sent(db, run, n)
    BY <1>1, <1>2, <1>4 DEF Near
  <2>2. CASE n > Len(turns) - Behind(db, run) - InProgress
    <3>1. InProgress \in 0..RowsPerTurn /\ RowsPerTurn \in Nat
      BY DEF InProgress, RowsPerTurn
    <3>2. /\ Behind(db, run) \in Nat
          /\ Behind(db, run) + RowsPerTurn <= RowsPerTurn * UpdateEvery
      BY <1>1, BehindRange
    <3>3. /\ RecentRows \in Nat /\ UpdateEvery \in Nat
          /\ RecentRows >= RowsPerTurn * UpdateEvery
      BY RecentRowsAssumption, DiaryConfigAssumption DEF Room
    <3>4. RowsPerTurn * UpdateEvery \in Nat
      BY <3>1, <3>3
    <3> DEFINE a == RowsPerTurn * UpdateEvery
               b == Behind(db, run)
               p == InProgress
    <3>5. Len(turns) \in Nat
      BY <1>1
    <3> HIDE DEF a, b, p
    <3>6. /\ p \in 0..RowsPerTurn /\ b \in Nat /\ b + RowsPerTurn <= a
          /\ a \in Nat /\ RecentRows >= a /\ n > Len(turns) - b - p
      BY <2>2, <3>1, <3>2, <3>3, <3>4 DEF a, b, p
    <3>7. Len(turns) - n < RecentRows
      BY <1>2, <3>1, <3>3, <3>5, <3>6
    <3> QED
      BY <1>1, <1>2, <3>7, RecentReach
  <2>3. CASE Sent(db, run, n)
    <3>1. PICK i \in SeqOf(db, run) : n <= db.sessions[i].covered
      BY <1>3, <2>3 DEF Sent
    <3>2. i \in DOMAIN db.sessions /\ db.sessions[i].sid = run
      BY DEF SeqOf
    <3>3. n \in db.sessions[i].summary
      BY <1>1, <1>2, <1>4, <3>1, <3>2 DEF Whole, RowWhole, Reflects
    <3> QED
      BY <3>1, <3>3 DEF ToCome
  <2> QED
    BY <2>1, <2>2, <2>3
<1>5. CASE \E i \in SeqOf(db, turns[n].session) : db.sessions[i].finalized
  <2>1. PICK i \in SeqOf(db, turns[n].session) : db.sessions[i].finalized
    BY <1>5
  <2>2. i \in DOMAIN db.sessions /\ db.sessions[i].sid = turns[n].session
    BY DEF SeqOf
  <2>3. n \in db.sessions[i].summary
    <3>1. Complete(db, turns, i)
      BY <1>1, <1>3, <2>1, <2>2, ClosedIsComplete
    <3> QED
      BY <1>2, <2>2, <3>1 DEF Complete
  <2>4. CASE db.sessions[i].folded
    <3>1. n \in db.persistent.summary
      BY <1>1, <2>2, <2>3, <2>4 DEF Told
    <3> QED
      BY <3>1 DEF ToCome
  <2>5. CASE ~db.sessions[i].folded
    <3> DEFINE U == FinalizedUnfolded(db)
               L == Later(db, i)
    <3>1. i \in U
      BY <2>1, <2>2, <2>5 DEF FinalizedUnfolded
    <3>2. L \subseteq U /\ i \notin L
      <4>1. /\ i \in Nat /\ ~(i <= f)
            /\ \A j \in DOMAIN db.sessions : j \in Nat
                 /\ (db.sessions[j].folded => j <= f)
        BY <1>1, <2>2, <2>5, DbFields DEF Good, FoldedUpTo
      <4> QED
        BY <1>1, <4>1 DEF Later, FinalizedUnfolded
    <3>3. IsFiniteSet(U)
      <4>1. DOMAIN db.sessions = 1..Len(db.sessions) /\ Len(db.sessions) \in Nat
        BY <1>1, DbFields
      <4>2. IsFiniteSet(1..Len(db.sessions))
        BY <4>1, FS_Interval
      <4>3. U \subseteq 1..Len(db.sessions)
        BY <4>1 DEF FinalizedUnfolded
      <4> QED
        BY <4>2, <4>3, FS_Subset
    <3>4. Cardinality(U) < SessionsPerSummary
      <4>1. ~FoldDue(db)
        BY <1>1 DEF Calm
      <4>2. Cardinality(U) \in Nat /\ SessionsPerSummary \in Nat
        BY <3>3, FS_CardinalityType, DiaryConfigAssumption
      <4> QED
        BY <4>1, <4>2 DEF FoldDue
    <3> HIDE DEF U, L
    <3>5. /\ IsFiniteSet(U \ {i}) /\ Cardinality(U \ {i}) = Cardinality(U) - 1
      BY <3>1, <3>3, FS_RemoveElement
    <3>6. Cardinality(L) <= Cardinality(U \ {i}) /\ IsFiniteSet(L)
      <4>1. L \subseteq U \ {i}
        BY <3>2
      <4> QED
        BY <3>5, <4>1, FS_Subset
    <3>7. /\ Cardinality(L) \in Nat /\ Cardinality(U) \in Nat
          /\ InjectSessions \in Nat /\ SessionsPerSummary \in Nat
      BY <3>3, <3>6, FS_CardinalityType, DiaryConfigAssumption
    <3>8. Cardinality(L) < InjectSessions
      BY <3>4, <3>5, <3>6, <3>7 DEF Room
    <3> QED
      BY <2>1, <2>2, <2>3, <3>8 DEF ToCome, L
  <2> QED
    BY <2>4, <2>5
<1> QED
  BY <1>4, <1>5 DEF Remembered

\* Beside an assemble every step keeps what it still has to tell.
LEMMA ComingStep ==
  ASSUME Inv, WholeInv, SteadyInv, NearInv, Room, ContextTypeOK, ComingInv,
         [ContextNext]_contextVars
  PROVE  ComingInv'
<1> DEFINE f == db.persistent.count
<1>1. /\ Good(db, turns, f, f) /\ turns \in Seq(Turn) /\ run \in Nat
      /\ Whole(db, turns, run, 0)
  BY TablesAreGood DEF WholeInv
<1> HIDE DEF f
<1>2. ASSUME DiligentNext \/ UNCHANGED vars, run' = run, asm' = asm
      PROVE  ComingInv'
  <2>1. Continues(db, db')
    BY <1>2, StepContinues
  <2>2. \A n : ToCome(db, asm.read, run, n) => ToCome(db', asm.read, run, n)
    BY <2>1, ContinuesToCome
  <2> QED
    BY <1>2, <2>2 DEF ComingInv
<1>3. ASSUME asm' = NoAssemble
      PROVE  ComingInv'
  <2>1. asm'.owed = {}
    BY <1>3 DEF NoAssemble
  <2> QED
    BY <2>1 DEF ComingInv
<1>4. CASE AssembleBegin
  <2>1. PICK d \in Visible :
          asm' = [read |-> 1, shown |-> Section(ReadOrder[1], d, turns, run),
                  owed |-> IF Pending(db.jobs) = {} THEN Remembered ELSE {}]
    BY <1>4 DEF AssembleBegin
  <2>2. Section(ReadOrder[1], d, turns, run) = RecentDialogue(turns)
    BY FourSections DEF Section
  <2>3. /\ asm'.read = 1 /\ asm'.shown = RecentDialogue(turns)
        /\ asm'.owed = IF Pending(db.jobs) = {} THEN Remembered ELSE {}
    BY <2>1, <2>2
  <2>4. db' = db /\ run' = run
    BY <1>4 DEF AssembleBegin, vars
  <2>5. \A n \in asm'.owed : n \in asm'.shown \/ ToCome(db, 1, run, n)
    BY <2>3, BeginTells
  <2> QED
    BY <2>3, <2>4, <2>5 DEF ComingInv
<1>5. CASE AssembleRead
  <2> DEFINE k == asm.read
  <2>1. k \in 1..3
    BY <1>5, FourSections DEF AssembleRead
  <2>2. PICK d \in Visible :
          asm' = [asm EXCEPT !.read = @ + 1,
                    !.shown = @ \cup Section(ReadOrder[asm.read + 1], d,
                                             turns, run)]
    BY <1>5 DEF AssembleRead
  <2>3. /\ asm'.read = k + 1 /\ asm'.owed = asm.owed
        /\ asm'.shown = asm.shown \cup Section(ReadOrder[k + 1], d, turns, run)
    BY <2>2 DEF ContextTypeOK
  <2>4. db' = db /\ run' = run
    BY <1>5 DEF AssembleRead, vars
  <2>5. Continues(db, d) /\ d \in DbType /\ ClosedInOrder(d)
    BY VisibleContinues
  <2> HIDE DEF k
  <2>6. \A n : ToCome(db, k, run, n) =>
          \/ n \in Section(ReadOrder[k + 1], d, turns, run)
          \/ ToCome(db, k + 1, run, n)
    BY <1>1, <2>1, <2>5, ReadTells
  <2>7. \A n \in asm.owed : n \in asm.shown \/ ToCome(db, k, run, n)
    BY DEF ComingInv, k
  <2>8. \A n \in asm'.owed : n \in asm'.shown \/ ToCome(db, k + 1, run, n)
    BY <2>3, <2>6, <2>7
  <2> QED
    BY <2>3, <2>4, <2>8 DEF ComingInv
<1>6. CASE DiligentNext /\ asm' = IF run' = run THEN asm ELSE NoAssemble
  BY <1>2, <1>3, <1>6
<1>7. CASE UNCHANGED contextVars
  BY <1>2, <1>7 DEF contextVars, vars
<1> QED
  BY <1>4, <1>5, <1>6, <1>7 DEF ContextNext

\* Everything that was owed and is not shown yet comes with a section that is
\* still to be read, for every room that is large enough.
THEOREM ComingInvariance ==
  OneThread /\ Room => (ContextSpec => [](NearInv /\ ComingInv))
<1> SUFFICES ASSUME OneThread, Room
             PROVE  ContextSpec => [](NearInv /\ ComingInv)
  OBVIOUS
<1>1. Init => NearInv
  BY NearInitially
<1>2. asm = NoAssemble => ComingInv
  BY DEF NoAssemble, ComingInv
<1>3. Inv /\ WholeInv /\ SteadyInv /\ ContextTypeOK /\ NearInv /\ ComingInv
        /\ [ContextNext]_contextVars => NearInv' /\ ComingInv'
  <2> SUFFICES ASSUME Inv, WholeInv, SteadyInv, ContextTypeOK, NearInv,
                      ComingInv, [ContextNext]_contextVars
               PROVE  NearInv' /\ ComingInv'
    OBVIOUS
  <2>1. DiligentNext \/ UNCHANGED vars
    BY ContextStepIsDiligent
  <2> QED
    BY <2>1, NearStep, ComingStep
<1> QED
  BY <1>1, <1>2, <1>3, SteadyInvariance, ContextTypeCorrect, PTL DEF ContextSpec

\* No turn falls between the sections of a context, whatever the cadence, the
\* window and the batch size.
THEOREM ContextsAreComplete ==
  OneThread => (ContextSpec => []ContextIsComplete)
<1> SUFFICES ASSUME OneThread PROVE ContextSpec => []ContextIsComplete
  OBVIOUS
<1>1. CASE Room
  <2>1. ComingInv => ContextIsComplete
    BY FourSections DEF ComingInv, ToCome, ContextIsComplete
  <2> QED
    BY <1>1, <2>1, ComingInvariance, PTL
<1>2. CASE ~Room
  <2>1. ContextIsComplete
    BY <1>2 DEF Room, ContextIsComplete
  <2> QED
    BY <2>1, PTL
<1> QED
  BY <1>1, <1>2
=============================================================================
