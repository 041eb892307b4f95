---------------------------- MODULE DiaryProofs -----------------------------
(***************************************************************************)
(* Proofs about the diary, for every cadence, window, batch size, number   *)
(* of pipeline threads and length of run.                                  *)
(*                                                                         *)
(* The first part says what each operator of Diary does to the tables; the *)
(* second states the inductive invariant and proves that the operators     *)
(* keep it; the third proves the theorems of Spec.  The last adds a second *)
(* invariant, that no turn is lost to the overlapping window.              *)
(***************************************************************************)
EXTENDS Diary, JobTableProofs, FiniteSetTheorems

Jobs == Job({"session", "summary"}, Nat, Body)

DbType == [sessions: Seq(Session), persistent: Persistent, jobs: Seq(Jobs)]

\* The types of the rows.
LEMMA DbFields ==
  ASSUME NEW d \in DbType
  PROVE  /\ d.sessions \in Seq(Session)
         /\ d.jobs \in Seq(Jobs)
         /\ d.persistent \in Persistent
         /\ Len(d.sessions) \in Nat
         /\ DOMAIN d.sessions = 1..Len(d.sessions)
         /\ \A i \in DOMAIN d.sessions :
              /\ d.sessions[i] \in Session
              /\ d.sessions[i].sid \in Nat
              /\ d.sessions[i].summary \in SUBSET Nat
              /\ d.sessions[i].covered \in Nat
              /\ d.sessions[i].count \in Nat
         /\ \A j \in DOMAIN d.jobs :
              /\ j \in Nat
              /\ d.jobs[j] \in Jobs
              /\ d.jobs[j].kind \in {"session", "summary"}
              /\ d.jobs[j].target \in Nat
              /\ d.jobs[j].body \in Body
         /\ d = [sessions |-> d.sessions, persistent |-> d.persistent,
                 jobs |-> d.jobs]
<1>1. /\ d.sessions \in Seq(Session)
      /\ d.jobs \in Seq(Jobs)
      /\ d.persistent \in Persistent
      /\ d = [sessions |-> d.sessions, persistent |-> d.persistent,
              jobs |-> d.jobs]
  BY DEF DbType
<1>2. \A i \in DOMAIN d.sessions : d.sessions[i] \in Session
  BY <1>1
<1>3. \A j \in DOMAIN d.jobs : d.jobs[j] \in Jobs /\ j \in Nat
  BY <1>1
<1>4. \A i \in DOMAIN d.sessions :
        /\ d.sessions[i].sid \in Nat
        /\ d.sessions[i].summary \in SUBSET Nat
        /\ d.sessions[i].covered \in Nat
        /\ d.sessions[i].count \in Nat
  BY <1>2 DEF Session, TurnIds
<1>5. \A j \in DOMAIN d.jobs :
        /\ d.jobs[j].kind \in {"session", "summary"}
        /\ d.jobs[j].target \in Nat
        /\ d.jobs[j].body \in Body
  BY <1>3 DEF Jobs, Job
<1>6. Len(d.sessions) \in Nat /\ DOMAIN d.sessions = 1..Len(d.sessions)
  BY <1>1
<1> QED
  BY <1>1, <1>2, <1>3, <1>4, <1>5, <1>6

(***************************************************************************)
(* What the operators do.                                                  *)
(***************************************************************************)

\* A non-empty set of turn ids has a largest member.
LEMMA NewestTurn ==
  ASSUME NEW t \in Seq(Turn), NEW S \in SUBSET DOMAIN t, S # {}
  PROVE  /\ Max(S) \in S
         /\ Max(S) \in Nat
         /\ \A n \in S : n <= Max(S)
<1>1. Len(t) \in Nat /\ S \in SUBSET (0..Len(t))
  OBVIOUS
<1>2. Max(S) \in S /\ \A n \in S : Max(S) >= n
  BY <1>1, MaxProperty
<1> QED
  BY <1>1, <1>2

\* A non-empty window of _recent_turns ends with the session's newest turn:
\* neither the lower bound nor the dropped leading row can cost the tail.
LEMMA WindowReachesNewest ==
  ASSUME NEW t \in Seq(Turn), NEW sid, NEW covered \in Nat
  PROVE  LET own == OwnTurns(t, sid)
             window == RecentTurns(t, sid, covered)
         IN /\ window \in SUBSET own
            /\ window # {} => /\ Max(window) \in own
                              /\ Max(window) = Max(own)
                              /\ \A n \in own : n <= Max(window)
<1> DEFINE own == OwnTurns(t, sid)
           window == RecentTurns(t, sid, covered)
           floor == Max(own) - DiaryWindow * RowsPerTurn + 1
           wide == {n \in own : n >= Lower(covered, floor)}
<1>1. own \in SUBSET DOMAIN t
  BY DEF OwnTurns
<1>2. window = IF own = {} THEN {}
               ELSE IF t[Min(wide)].role = "assistant" THEN wide \ {Min(wide)}
               ELSE wide
  BY DEF RecentTurns
<1>3. window \in SUBSET own
  <2> HIDE DEF own, window, floor
  <2> QED
    BY <1>2
<1>4. ASSUME window # {}
      PROVE  /\ Max(window) \in own /\ Max(window) = Max(own)
             /\ \A n \in own : n <= Max(window)
  <2>1. own # {}
    BY <1>3, <1>4
  <2>2. Max(own) \in own /\ Max(own) \in Nat /\ \A n \in own : n <= Max(own)
    <3> HIDE DEF own
    <3> QED
      BY <1>1, <2>1, NewestTurn
  <2>3. Max(window) \in window /\ \A n \in window : n <= Max(window)
    <3>1. window \in SUBSET DOMAIN t
      BY <1>1, <1>3
    <3> HIDE DEF window
    <3> QED
      BY <3>1, <1>4, NewestTurn
  <2>4. \A n \in own : n \in Nat
    BY <1>1
  <2> HIDE DEF window, own
  <2>5. Max(own) \in wide
    <3>1. floor \in Int /\ floor <= Max(own)
      BY <2>2, DiaryConfigAssumption DEF RowsPerTurn
    <3>2. Lower(covered, floor) <= Max(own)
      <4> HIDE DEF floor
      <4> QED
        BY <2>2, <3>1 DEF Lower
    <3> HIDE DEF floor
    <3> QED
      BY <2>2, <3>2
  <2>6. Max(own) \in window
    <3>1. CASE window = wide
      BY <2>5, <3>1
    <3>2. CASE window = wide \ {Min(wide)}
      <4>1. PICK n \in wide : n # Min(wide)
        BY <1>4, <3>2
      <4>2. wide \in SUBSET Nat /\ wide # {}
        BY <2>4, <2>5
      <4>3. Min(wide) <= n /\ Min(wide) \in wide
        <5> HIDE DEF wide
        <5> QED
          BY <4>1, <4>2, MinProperty
      <4>4. n <= Max(own)
        BY <2>2, <4>1
      <4>5. Min(wide) # Max(own)
        <5>1. n \in Nat /\ Min(wide) \in Nat
          BY <4>1, <4>2, <4>3
        <5> QED
          BY <2>2, <4>1, <4>3, <4>4, <5>1
      <4> QED
        BY <2>5, <3>2, <4>5
    <3> QED
      BY <1>2, <2>1, <3>1, <3>2
  <2>7. Max(window) = Max(own)
    BY <1>3, <2>2, <2>3, <2>4, <2>6
  <2> QED
    BY <2>2, <2>7
<1> QED
  BY <1>3, <1>4

\* _enqueue_session touches only the job table, and there only by an enqueue
\* of a job for the session it was asked about.
LEMMA EnqueueSessionShape ==
  ASSUME NEW d \in DbType, NEW t \in Seq(Turn), NEW i \in DOMAIN d.sessions,
         NEW force \in BOOLEAN
  PROVE  LET e == EnqueueSession(d, t, i, force)
             row == d.sessions[i]
             window == RecentTurns(t, row.sid, row.covered)
         IN /\ e \in DbType
            /\ e.sessions = d.sessions
            /\ e.persistent = d.persistent
            /\ \/ e.jobs = d.jobs
               \/ /\ window # {}
                  /\ SessionBody(row, window) \in Body
                  /\ e.jobs = EnqueueJob(d.jobs, "session", i,
                                         SessionBody(row, window))
<1> DEFINE e == EnqueueSession(d, t, i, force)
           row == d.sessions[i]
           window == RecentTurns(t, row.sid, row.covered)
           body == SessionBody(row, window)
           new == EnqueueJob(d.jobs, "session", i, body)
<1>1. /\ d.sessions \in Seq(Session) /\ d.persistent \in Persistent
      /\ d.jobs \in Seq(Jobs)
      /\ d = [sessions |-> d.sessions, persistent |-> d.persistent,
              jobs |-> d.jobs]
  BY DEF DbType
<1>2. row \in Session /\ i \in Nat
  BY <1>1
<1>3. e = IF Skipped(row, window, force) THEN d ELSE [d EXCEPT !.jobs = new]
  BY DEF EnqueueSession
<1>4. CASE Skipped(row, window, force)
  BY <1>3, <1>4
<1>5. CASE ~Skipped(row, window, force)
  <2>1. window # {}
    BY <1>5 DEF Skipped
  <2>2. row.covered \in Nat /\ row.summary \in SUBSET Nat
    BY <1>2 DEF Session, TurnIds
  <2>3. /\ window \in SUBSET OwnTurns(t, row.sid)
        /\ Max(window) \in OwnTurns(t, row.sid)
    <3> HIDE DEF row
    <3> QED
      BY <2>1, <2>2, WindowReachesNewest DEF row
  <2>4. OwnTurns(t, row.sid) \in SUBSET Nat
    BY DEF OwnTurns
  <2>5. body \in Body
    <3> HIDE DEF row, window
    <3> QED
      BY <2>2, <2>3, <2>4 DEF SessionBody, Body, TurnIds
  <2> HIDE DEF body
  <2>6. new \in Seq(Jobs)
    BY <1>1, <1>2, <2>5, EnqueueShape DEF Jobs
  <2> HIDE DEF new, e, window
  <2>7. e = [d EXCEPT !.jobs = new]
    BY <1>3, <1>5
  <2>8. /\ e.sessions = d.sessions /\ e.persistent = d.persistent
        /\ e.jobs = new /\ e \in DbType
    BY <1>1, <2>6, <2>7 DEF DbType
  <2> QED
    BY <2>1, <2>5, <2>8 DEF e, new, body, window
<1> QED
  BY <1>4, <1>5

\* The first k of an interval of sessions.
LEMMA OldestOfInterval ==
  ASSUME NEW a \in Nat, NEW m \in Nat, NEW k \in Nat, a + k <= m
  PROVE  Oldest((a + 1)..m, k) = (a + 1)..(a + k)
<1> DEFINE S == (a + 1)..m
<1>1. \A i \in S : {j \in S : j < i} = (a + 1)..(i - 1)
  OBVIOUS
<1>2. \A i \in S : Cardinality((a + 1)..(i - 1)) = i - 1 - a
  <2>1. TAKE i \in S
  <2>2. a + 1 \in Int /\ i - 1 \in Int
    BY <2>1
  <2>3. Cardinality((a + 1)..(i - 1))
          = IF a + 1 > i - 1 THEN 0 ELSE (i - 1) - (a + 1) + 1
    BY <2>2, FS_Interval
  <2> QED
    BY <2>1, <2>3
<1>3. \A i \in S : Cardinality({j \in S : j < i}) = i - 1 - a
  BY <1>1, <1>2
<1>4. Oldest(S, k) = {i \in S : i - 1 - a < k}
  BY <1>3 DEF Oldest
<1>5. \A i : (i \in S /\ i - 1 - a < k) <=> i \in (a + 1)..(a + k)
  OBVIOUS
<1> QED
  BY <1>4, <1>5

\* How many sessions an interval has.
LEMMA IntervalSize ==
  ASSUME NEW a \in Nat, NEW k \in Nat
  PROVE  /\ IsFiniteSet((a + 1)..(a + k))
         /\ Cardinality((a + 1)..(a + k)) = k
<1>1. a + 1 \in Int /\ a + k \in Int
  OBVIOUS
<1>2. /\ IsFiniteSet((a + 1)..(a + k))
      /\ Cardinality((a + 1)..(a + k))
           = IF a + 1 > a + k THEN 0 ELSE (a + k) - (a + 1) + 1
  BY <1>1, FS_Interval
<1> QED
  BY <1>2

(***************************************************************************)
(* The inductive invariant, of the tables and the turns.                   *)
(***************************************************************************)

\* SessionsPerSummary sessions in a row.
IsBatch(items) == \E a \in Nat : items = (a + 1)..(a + SessionsPerSummary)

\* Every job, answered or not, is about a session that exists, or about the
\* summary and a batch of sessions.
JobsWellFormed(d) ==
  \A j \in DOMAIN d.jobs :
    /\ d.jobs[j].kind = "session" => d.jobs[j].target \in DOMAIN d.sessions
    /\ d.jobs[j].kind = "summary" =>
         d.jobs[j].target = SummaryTarget /\ IsBatch(d.jobs[j].body.items)

ClosedInOrder(d) ==
  \A i \in DOMAIN d.sessions : i < LastSeq(d) => d.sessions[i].finalized

\* The folded sessions are the f oldest, and closed.
FoldedUpTo(d, f) ==
  /\ f \in 0..Len(d.sessions)
  /\ \A i \in DOMAIN d.sessions :
       /\ d.sessions[i].folded <=> i <= f
       /\ i <= f => d.sessions[i].finalized

\* A waiting fold is about a batch of closed sessions that starts after a
\* folded one, not before lo, and that is at most partly folded.  Where no
\* run dies inside an operation lo is f: it is the next batch.
BatchNear(d, lo, f) ==
  \A j \in Pending(d.jobs) : d.jobs[j].kind = "summary" =>
    \E a \in lo..f :
      /\ f <= a + SessionsPerSummary
      /\ a + SessionsPerSummary \in DOMAIN d.sessions
      /\ d.sessions[a + SessionsPerSummary].finalized
      /\ d.jobs[j].body.items = (a + 1)..(a + SessionsPerSummary)

\* covered_through is the id of a turn of the session.
CoveredIsOwn(d, t) ==
  \A i \in DOMAIN d.sessions :
    \/ d.sessions[i].covered = 0
    \/ d.sessions[i].covered \in OwnTurns(t, d.sessions[i].sid)

\* The answer to a waiting session job reflects at least what the session's
\* summary reflects now and advances to a turn of the session.
SessionJobsAhead(d, t) ==
  \A j \in Pending(d.jobs) : d.jobs[j].kind = "session" =>
    LET row == d.sessions[d.jobs[j].target]
        body == d.jobs[j].body
    IN /\ body.advance \in OwnTurns(t, row.sid)
       /\ row.covered <= body.advance
       /\ row.summary \subseteq body.input

\* And the answer to a waiting fold at least what the persistent summary does.
SummaryJobsAhead(d) ==
  \A j \in Pending(d.jobs) : d.jobs[j].kind = "summary" =>
    d.persistent.summary \subseteq d.jobs[j].body.input

Good(d, t, lo, f) ==
  /\ d \in DbType
  /\ NewestOnly(d.jobs)
  /\ JobsWellFormed(d)
  /\ ClosedInOrder(d)
  /\ FoldedUpTo(d, f)
  /\ BatchNear(d, lo, f)
  /\ CoveredIsOwn(d, t)
  /\ SessionJobsAhead(d, t)
  /\ SummaryJobsAhead(d)

\* What no operation takes back, from tables d to tables e.
Grows(d, e) ==
  /\ \A i \in DOMAIN d.sessions :
       /\ i \in DOMAIN e.sessions
       /\ d.sessions[i].covered <= e.sessions[i].covered
       /\ d.sessions[i].summary \subseteq e.sessions[i].summary
  /\ d.persistent.summary \subseteq e.persistent.summary

\* What two operations in a row keep, they keep together.
LEMMA GrowsTransitive ==
  ASSUME NEW d \in DbType, NEW e \in DbType, NEW g \in DbType,
         Grows(d, e), Grows(e, g)
  PROVE  Grows(d, g)
<1>1. \A i \in DOMAIN d.sessions :
        d.sessions[i].covered \in Nat
  BY DbFields
<1>2. \A i \in DOMAIN e.sessions :
        e.sessions[i].covered \in Nat
  BY DbFields
<1>3. \A i \in DOMAIN g.sessions :
        g.sessions[i].covered \in Nat
  BY DbFields
<1>4. \A i \in DOMAIN d.sessions :
        /\ i \in DOMAIN g.sessions
        /\ d.sessions[i].covered <= g.sessions[i].covered
        /\ d.sessions[i].summary \subseteq g.sessions[i].summary
  <2>1. TAKE i \in DOMAIN d.sessions
  <2>2. /\ i \in DOMAIN e.sessions
        /\ d.sessions[i].covered <= e.sessions[i].covered
        /\ d.sessions[i].summary \subseteq e.sessions[i].summary
    BY DEF Grows
  <2>3. /\ i \in DOMAIN g.sessions
        /\ e.sessions[i].covered <= g.sessions[i].covered
        /\ e.sessions[i].summary \subseteq g.sessions[i].summary
    BY <2>2 DEF Grows
  <2> QED
    BY <1>1, <1>2, <1>3, <2>2, <2>3
<1> QED
  BY <1>4 DEF Grows

\* Tables with the same sessions and summary have lost nothing.
LEMMA GrowsSame ==
  ASSUME NEW d \in DbType, NEW e,
         e.sessions = d.sessions, e.persistent = d.persistent
  PROVE  Grows(d, e)
<1>1. \A i \in DOMAIN d.sessions : d.sessions[i].covered \in Nat
  BY DbFields
<1> QED
  BY <1>1 DEF Grows

(***************************************************************************)
(* The operators keep it.                                                  *)
(***************************************************************************)

\* Logging a turn leaves every earlier turn with its session.
LEMMA TurnsOnlyGrow ==
  ASSUME NEW t \in Seq(Turn), NEW x \in Turn, NEW sid
  PROVE  OwnTurns(t, sid) \subseteq OwnTurns(Append(t, x), sid)
  BY DEF OwnTurns

\* log_turn commits a turn first: what is summarized of the log so far stays so.
LEMMA LogKeepsGood ==
  ASSUME NEW t \in Seq(Turn), NEW x \in Turn, NEW d, NEW lo, NEW f,
         Good(d, t, lo, f)
  PROVE  Good(d, Append(t, x), lo, f)
<1>1. CoveredIsOwn(d, Append(t, x))
  BY TurnsOnlyGrow DEF Good, CoveredIsOwn
<1>2. SessionJobsAhead(d, Append(t, x))
  BY TurnsOnlyGrow DEF Good, SessionJobsAhead
<1> QED
  BY <1>1, <1>2 DEF Good

\* _enqueue_session.
LEMMA EnqueueSessionGood ==
  ASSUME NEW t \in Seq(Turn), NEW d, NEW lo, NEW f, Good(d, t, lo, f),
         NEW i \in DOMAIN d.sessions, NEW force \in BOOLEAN
  PROVE  LET e == EnqueueSession(d, t, i, force)
         IN /\ Good(e, t, lo, f)
            /\ e.sessions = d.sessions
            /\ e.persistent = d.persistent
<1> DEFINE e == EnqueueSession(d, t, i, force)
           row == d.sessions[i]
           window == RecentTurns(t, row.sid, row.covered)
           body == SessionBody(row, window)
<1>1. d \in DbType
  BY DEF Good
<1>2. /\ e \in DbType /\ e.sessions = d.sessions
      /\ e.persistent = d.persistent
      /\ \/ e.jobs = d.jobs
         \/ /\ window # {} /\ body \in Body
            /\ e.jobs = EnqueueJob(d.jobs, "session", i, body)
  BY <1>1, EnqueueSessionShape
<1>3. d.jobs \in Seq(Jobs) /\ i \in Nat /\ row \in Session
  BY <1>1 DEF DbType
<1>4. ASSUME e.jobs = d.jobs
      PROVE  Good(e, t, lo, f)
  <2> HIDE DEF e
  <2>1. e = d
    BY <1>1, <1>2, <1>4 DEF DbType
  <2> QED
    BY <2>1
<1>5. ASSUME window # {}, body \in Body,
             e.jobs = EnqueueJob(d.jobs, "session", i, body)
      PROVE  Good(e, t, lo, f)
  <2> DEFINE new == EnqueueJob(d.jobs, "session", i, body)
  <2>1. NewestOnly(new)
    BY <1>3, <1>5, EnqueueKeepsNewest, ZenonT(30) DEF Good, Jobs
  <2> HIDE DEF body
  <2>2. EnqueueEffect(d.jobs, new, "session", i, body)
    BY <1>3, <1>5, EnqueueWaiting DEF Jobs
  <2>3. /\ NewJob("session", i, body).kind = "session"
        /\ NewJob("session", i, body).target = i
        /\ NewJob("session", i, body).body = body
    BY DEF NewJob
  <2>4. /\ body.advance \in OwnTurns(t, row.sid)
        /\ row.covered <= body.advance
        /\ row.summary \subseteq body.input
    <3>1. row.covered \in Nat
      BY <1>3 DEF Session
    <3>2. /\ Max(window) \in OwnTurns(t, row.sid)
          /\ \A n \in OwnTurns(t, row.sid) : n <= Max(window)
      <4> HIDE DEF row
      <4> QED
        BY <1>5, <3>1, WindowReachesNewest DEF row
    <3>3. Max(window) \in Nat
      BY <3>2 DEF OwnTurns
    <3>4. row.covered = 0 \/ row.covered \in OwnTurns(t, row.sid)
      BY DEF Good, CoveredIsOwn
    <3>5. body.advance = Max(window) /\ body.input = row.summary \cup window
      BY DEF SessionBody, body
    <3> HIDE DEF row, body, window
    <3> QED
      BY <3>1, <3>2, <3>3, <3>4, <3>5
  <2> HIDE DEF new, body, window, e, row
  <2>5. e.jobs = new
    BY <1>5 DEF new
  <2>6. JobsWellFormed(e)
    BY <1>2, <2>2, <2>3, <2>5 DEF Good, JobsWellFormed, EnqueueEffect
  <2>7. ClosedInOrder(e) /\ FoldedUpTo(e, f) /\ CoveredIsOwn(e, t)
    BY <1>2 DEF Good, ClosedInOrder, FoldedUpTo, CoveredIsOwn, LastSeq
  <2>8. BatchNear(e, lo, f)
    BY <1>2, <2>2, <2>3, <2>5 DEF Good, BatchNear, EnqueueEffect
  <2>9. SummaryJobsAhead(e)
    BY <1>2, <2>2, <2>3, <2>5 DEF Good, SummaryJobsAhead, EnqueueEffect
  <2>10. SessionJobsAhead(e, t)
    BY <1>2, <2>2, <2>3, <2>4, <2>5 DEF Good, SessionJobsAhead,
                                                EnqueueEffect, row
  <2> QED
    BY <1>2, <2>1, <2>5, <2>6, <2>7, <2>8, <2>9, <2>10 DEF Good
<1> QED
  BY <1>2, <1>4, <1>5

\* The sessions that are closed and not folded are consecutive, and start
\* after the folded ones.
LEMMA UnfoldedIsInterval ==
  ASSUME NEW d \in DbType, NEW f, ClosedInOrder(d), FoldedUpTo(d, f)
  PROVE  \E m \in f..Len(d.sessions) :
           /\ FinalizedUnfolded(d) = (f + 1)..m
           /\ \A i \in 1..m : d.sessions[i].finalized
<1> DEFINE n == Len(d.sessions)
<1>1. n \in Nat /\ DOMAIN d.sessions = 1..n /\ f \in 0..n
  BY DbFields DEF FoldedUpTo
<1>2. \A i \in 1..n : d.sessions[i].folded <=> i <= f
  BY <1>1 DEF FoldedUpTo
<1>3. \A i \in 1..n : (i < n \/ i <= f) => d.sessions[i].finalized
  BY <1>1 DEF FoldedUpTo, ClosedInOrder, LastSeq
<1>4. FinalizedUnfolded(d)
        = {i \in 1..n : d.sessions[i].finalized /\ ~d.sessions[i].folded}
  BY <1>1 DEF FinalizedUnfolded
<1> HIDE DEF n
<1>5. CASE n = 0 \/ d.sessions[n].finalized
  <2>1. \A i \in 1..n : d.sessions[i].finalized
    BY <1>1, <1>3, <1>5
  <2>2. FinalizedUnfolded(d) = (f + 1)..n
    BY <1>1, <1>2, <1>4, <2>1
  <2>3. n \in f..n
    BY <1>1
  <2> QED
    BY <2>1, <2>2, <2>3 DEF n
<1>6. CASE n # 0 /\ ~d.sessions[n].finalized
  <2>1. f < n /\ n - 1 \in Nat /\ n - 1 \in f..n
    BY <1>1, <1>3, <1>6
  <2>2. \A i \in 1..(n - 1) : d.sessions[i].finalized
    BY <1>1, <1>3, <2>1
  <2>3. \A i : i \in FinalizedUnfolded(d) <=> i \in (f + 1)..(n - 1)
    BY <1>1, <1>2, <1>4, <1>6, <2>1, <2>2
  <2>4. FinalizedUnfolded(d) = (f + 1)..(n - 1)
    BY <2>3
  <2> QED
    BY <2>1, <2>2, <2>4 DEF n
<1> QED
  BY <1>5, <1>6

\* When the fold trigger fires, the batch is the next SessionsPerSummary
\* sessions, and they are closed.
LEMMA DueBatchIsNext ==
  ASSUME NEW d \in DbType, NEW f, ClosedInOrder(d), FoldedUpTo(d, f),
         FoldDue(d)
  PROVE  /\ f \in Nat
         /\ FoldBatch(d) = (f + 1)..(f + SessionsPerSummary)
         /\ f + SessionsPerSummary \in DOMAIN d.sessions
         /\ d.sessions[f + SessionsPerSummary].finalized
<1> DEFINE k == SessionsPerSummary
<1>1. Len(d.sessions) \in Nat /\ DOMAIN d.sessions = 1..Len(d.sessions)
  BY DbFields
<1>2. PICK m \in f..Len(d.sessions) :
        /\ FinalizedUnfolded(d) = (f + 1)..m
        /\ \A i \in 1..m : d.sessions[i].finalized
  BY UnfoldedIsInterval
<1>3. f \in Nat /\ m \in Nat /\ f <= m /\ m <= Len(d.sessions)
  BY <1>1, <1>2 DEF FoldedUpTo
<1>4. k \in Nat /\ k > 0
  BY DiaryConfigAssumption
<1>5. Cardinality((f + 1)..m) = m - f
  <2>1. m - f \in Nat /\ f + (m - f) = m
    BY <1>3
  <2>2. Cardinality((f + 1)..(f + (m - f))) = m - f
    BY <1>3, <2>1, IntervalSize
  <2> QED
    BY <2>1, <2>2
<1>6. f + k <= m
  BY <1>2, <1>3, <1>4, <1>5 DEF FoldDue
<1>7. FoldBatch(d) = (f + 1)..(f + k)
  BY <1>2, <1>3, <1>4, <1>6, OldestOfInterval DEF FoldBatch
<1>8. f + k \in 1..m
  BY <1>3, <1>4, <1>6
<1> QED
  BY <1>1, <1>2, <1>3, <1>7, <1>8

\* _enqueue_summary: a fold of the next batch, if it is due and none waits.
LEMMA EnqueueSummaryGood ==
  ASSUME NEW t \in Seq(Turn), NEW d, NEW lo \in Nat, NEW f,
         Good(d, t, lo, f), lo <= f
  PROVE  LET e == EnqueueSummary(d)
         IN /\ Good(e, t, lo, f)
            /\ e.sessions = d.sessions
            /\ e.persistent = d.persistent
<1> DEFINE e == EnqueueSummary(d)
           body == [items |-> FoldBatch(d), input |-> FoldInput(d),
                    advance |-> 0]
           new == EnqueueJob(d.jobs, "summary", SummaryTarget, body)
<1>1. /\ d \in DbType /\ ClosedInOrder(d) /\ FoldedUpTo(d, f)
      /\ NewestOnly(d.jobs)
  BY DEF Good
<1>2. CASE PendingOne(d.jobs, "summary", SummaryTarget) # {} \/ ~FoldDue(d)
  <2>1. e = d
    BY <1>2 DEF EnqueueSummary
  <2> HIDE DEF e
  <2>2. Good(e, t, lo, f) /\ e.sessions = d.sessions /\ e.persistent = d.persistent
    BY <2>1
  <2> QED
    BY <2>2 DEF e
<1>3. CASE PendingOne(d.jobs, "summary", SummaryTarget) = {} /\ FoldDue(d)
  <2>1. e = [d EXCEPT !.jobs = new]
    BY <1>3 DEF EnqueueSummary
  <2>2. /\ f \in Nat
        /\ FoldBatch(d) = (f + 1)..(f + SessionsPerSummary)
        /\ f + SessionsPerSummary \in DOMAIN d.sessions
        /\ d.sessions[f + SessionsPerSummary].finalized
    BY <1>1, <1>3, DueBatchIsNext
  <2>3. d.jobs \in Seq(Jobs) /\ d.persistent \in Persistent
    BY <1>1, DbFields
  <2>4. FoldBatch(d) \subseteq DOMAIN d.sessions
    <3>1. SessionsPerSummary \in Nat
      BY DiaryConfigAssumption
    <3> QED
      BY <1>1, <2>2, <3>1, DbFields
  <2>5. body \in Body
    <3>1. d.persistent.summary \in SUBSET Nat
      BY <2>3 DEF Persistent, TurnIds
    <3>2. \A i \in FoldBatch(d) : d.sessions[i].summary \in SUBSET Nat
      BY <1>1, <2>4, DbFields
    <3>3. FoldInput(d) \in SUBSET Nat
      BY <3>1, <3>2 DEF FoldInput
    <3>4. FoldBatch(d) \in SUBSET Nat
      BY <2>2
    <3> QED
      BY <3>3, <3>4 DEF Body, TurnIds
  <2>6. /\ body.items = (f + 1)..(f + SessionsPerSummary)
        /\ d.persistent.summary \subseteq body.input
    BY <2>2 DEF FoldInput
  <2> HIDE DEF body
  <2>7. SummaryTarget \in Nat
    BY DEF SummaryTarget
  <2>8. new \in Seq(Jobs)
    BY <2>3, <2>5, <2>7, EnqueueShape DEF Jobs
  <2>9. NewestOnly(new)
    BY <1>1, <2>3, <2>5, <2>7, EnqueueKeepsNewest DEF Jobs
  <2>10. EnqueueEffect(d.jobs, new, "summary", SummaryTarget, body)
    BY <2>3, <2>5, <2>7, EnqueueWaiting DEF Jobs
  <2>11. /\ NewJob("summary", SummaryTarget, body).kind = "summary"
         /\ NewJob("summary", SummaryTarget, body).target = SummaryTarget
         /\ NewJob("summary", SummaryTarget, body).body = body
    BY DEF NewJob
  <2> HIDE DEF new, e
  <2>12. /\ e.sessions = d.sessions /\ e.persistent = d.persistent
         /\ e.jobs = new /\ e \in DbType
    BY <1>1, <2>1, <2>8 DEF DbType
  <2>13. JobsWellFormed(e)
    <3>1. IsBatch(body.items)
      BY <2>2, <2>6 DEF IsBatch
    <3> QED
      BY <2>10, <2>11, <2>12, <3>1 DEF Good, JobsWellFormed, EnqueueEffect
  <2>14. ClosedInOrder(e) /\ FoldedUpTo(e, f) /\ CoveredIsOwn(e, t)
    BY <2>12 DEF Good, ClosedInOrder, FoldedUpTo, CoveredIsOwn, LastSeq
  <2>15. BatchNear(e, lo, f)
    <3> SUFFICES ASSUME NEW j \in Pending(new), new[j].kind = "summary"
                 PROVE  \E a \in lo..f :
                          /\ f <= a + SessionsPerSummary
                          /\ a + SessionsPerSummary \in DOMAIN d.sessions
                          /\ d.sessions[a + SessionsPerSummary].finalized
                          /\ new[j].body.items = (a + 1)..(a + SessionsPerSummary)
      BY <2>12 DEF BatchNear
    <3>1. CASE new[j] = NewJob("summary", SummaryTarget, body)
      <4>1. f \in lo..f /\ f <= f + SessionsPerSummary
        BY <2>2, DiaryConfigAssumption
      <4> QED
        BY <2>2, <2>6, <2>11, <3>1, <4>1
    <3>2. CASE j \in Pending(d.jobs) /\ new[j] = d.jobs[j]
      BY <3>2 DEF Good, BatchNear
    <3> QED
      BY <2>10, <3>1, <3>2 DEF EnqueueEffect
  <2>16. SummaryJobsAhead(e)
    BY <2>6, <2>10, <2>11, <2>12 DEF Good, SummaryJobsAhead, EnqueueEffect
  <2>17. SessionJobsAhead(e, t)
    BY <2>10, <2>11, <2>12 DEF Good, SessionJobsAhead, EnqueueEffect
  <2>18. Good(e, t, lo, f)
    BY <2>9, <2>12, <2>13, <2>14, <2>15, <2>16, <2>17 DEF Good
  <2> QED
    BY <2>12, <2>18 DEF e
<1> QED
  BY <1>2, <1>3

\* Tables e differ from d at most in sessions that are counted or closed.
CountsOrCloses(d, e) ==
  /\ e \in DbType
  /\ e.jobs = d.jobs
  /\ e.persistent = d.persistent
  /\ Len(e.sessions) = Len(d.sessions)
  /\ \A n \in DOMAIN d.sessions :
       /\ e.sessions[n].sid = d.sessions[n].sid
       /\ e.sessions[n].summary = d.sessions[n].summary
       /\ e.sessions[n].covered = d.sessions[n].covered
       /\ e.sessions[n].folded = d.sessions[n].folded
       /\ d.sessions[n].finalized => e.sessions[n].finalized

\* Counting interactions and closing sessions leave the pyramid as it is.
LEMMA CountsOrClosesGood ==
  ASSUME NEW t, NEW d, NEW e, NEW lo \in Nat, NEW f,
         Good(d, t, lo, f), CountsOrCloses(d, e)
  PROVE  Good(e, t, lo, f) /\ Grows(d, e)
<1>1. /\ d \in DbType /\ e \in DbType
      /\ e.persistent = d.persistent /\ e.jobs = d.jobs
  BY DEF Good, CountsOrCloses
<1>2. /\ Len(e.sessions) = Len(d.sessions)
      /\ DOMAIN e.sessions = DOMAIN d.sessions
  BY <1>1, DbFields DEF CountsOrCloses
<1>3. \A n \in DOMAIN d.sessions :
           /\ e.sessions[n].sid = d.sessions[n].sid
           /\ e.sessions[n].summary = d.sessions[n].summary
           /\ e.sessions[n].covered = d.sessions[n].covered
           /\ e.sessions[n].folded = d.sessions[n].folded
           /\ d.sessions[n].finalized => e.sessions[n].finalized
  BY DEF CountsOrCloses
<1>4. JobsWellFormed(e) /\ ClosedInOrder(e)
  BY <1>1, <1>2, <1>3 DEF Good, JobsWellFormed, ClosedInOrder, LastSeq
<1>5. FoldedUpTo(e, f)
  BY <1>2, <1>3 DEF Good, FoldedUpTo
<1>6. BatchNear(e, lo, f)
  BY <1>1, <1>2, <1>3 DEF Good, BatchNear
<1>7. CoveredIsOwn(e, t)
  BY <1>2, <1>3 DEF Good, CoveredIsOwn
<1>8. SessionJobsAhead(e, t)
  <2>1. \A j \in Pending(d.jobs) : d.jobs[j].kind = "session" =>
          d.jobs[j].target \in DOMAIN d.sessions
    BY DEF Good, JobsWellFormed, Pending
  <2> QED
    BY <1>1, <1>3, <2>1 DEF Good, SessionJobsAhead
<1>9. SummaryJobsAhead(e)
  BY <1>1 DEF Good, SummaryJobsAhead
<1>10. Good(e, t, lo, f)
  BY <1>1, <1>4, <1>5, <1>6, <1>7, <1>8, <1>9 DEF Good
<1>11. Grows(d, e)
  <2>1. \A n \in DOMAIN d.sessions : d.sessions[n].covered \in Nat
    BY <1>1, DbFields
  <2> QED
    BY <1>1, <1>2, <1>3, <2>1 DEF Grows
<1> QED
  BY <1>10, <1>11

\* A row replaced by one of the same session.
LEMMA ReplaceRow ==
  ASSUME NEW d \in DbType, NEW i \in DOMAIN d.sessions, NEW row \in Session
  PROVE  LET e == [d EXCEPT !.sessions = [@ EXCEPT ![i] = row]]
         IN /\ e \in DbType
            /\ e.jobs = d.jobs
            /\ e.persistent = d.persistent
            /\ Len(e.sessions) = Len(d.sessions)
            /\ e.sessions[i] = row
            /\ \A n \in DOMAIN d.sessions \ {i} :
                 e.sessions[n] = d.sessions[n]
<1> DEFINE e == [d EXCEPT !.sessions = [@ EXCEPT ![i] = row]]
           rows == [d.sessions EXCEPT ![i] = row]
<1>1. rows \in Seq(Session) /\ Len(rows) = Len(d.sessions)
  BY DbFields
<1>2. rows[i] = row /\ \A n \in DOMAIN d.sessions \ {i} : rows[n] = d.sessions[n]
  OBVIOUS
<1> HIDE DEF rows
<1>3. e = [d EXCEPT !.sessions = rows]
  BY DEF rows
<1> HIDE DEF e
<1>4. /\ e \in DbType /\ e.sessions = rows
      /\ e.jobs = d.jobs /\ e.persistent = d.persistent
  BY <1>1, <1>3 DEF DbType
<1> QED
  BY <1>1, <1>2, <1>4 DEF e

\* Session i is closed, and no other.
ClosesOnly(d, e, i) ==
  /\ e.sessions[i].finalized
  /\ \A n \in DOMAIN d.sessions \ {i} :
       e.sessions[n].finalized = d.sessions[n].finalized

\* finalize_session.
LEMMA FinalizeGood ==
  ASSUME NEW t, NEW d, NEW lo \in Nat, NEW f,
         Good(d, t, lo, f), NEW i \in DOMAIN d.sessions
  PROVE  LET e == FinalizeSession(d, i)
         IN CountsOrCloses(d, e) /\ ClosesOnly(d, e, i)
<1> DEFINE e == FinalizeSession(d, i)
           row == [d.sessions[i] EXCEPT !.finalized = TRUE]
<1>1. d \in DbType /\ d.sessions[i] \in Session
  BY DbFields DEF Good
<1>2. /\ row \in Session /\ row.finalized = TRUE
      /\ row.sid = d.sessions[i].sid /\ row.summary = d.sessions[i].summary
      /\ row.covered = d.sessions[i].covered
      /\ row.folded = d.sessions[i].folded
  BY <1>1 DEF Session
<1>3. e = [d EXCEPT !.sessions = [@ EXCEPT ![i] = row]]
  BY DEF FinalizeSession
<1> HIDE DEF row, e
<1>4. /\ e \in DbType /\ e.jobs = d.jobs /\ e.persistent = d.persistent
      /\ Len(e.sessions) = Len(d.sessions) /\ e.sessions[i] = row
      /\ \A n \in DOMAIN d.sessions \ {i} : e.sessions[n] = d.sessions[n]
  BY <1>1, <1>2, <1>3, ReplaceRow
<1> QED
  BY <1>2, <1>4 DEF CountsOrCloses, ClosesOnly, e

\* bump_interaction.
LEMMA BumpGood ==
  ASSUME NEW t, NEW d, NEW lo \in Nat, NEW f,
         Good(d, t, lo, f), NEW i \in DOMAIN d.sessions
  PROVE  LET e == BumpInteraction(d, i)
         IN /\ CountsOrCloses(d, e)
            /\ \A n \in DOMAIN d.sessions :
                 e.sessions[n].finalized = d.sessions[n].finalized
<1> DEFINE e == BumpInteraction(d, i)
           c == d.sessions[i].count + 1
           row == [d.sessions[i] EXCEPT !.count = c]
<1>1. d \in DbType /\ d.sessions[i] \in Session /\ c \in Nat
  BY DbFields DEF Good
<1>2. e = [d EXCEPT !.sessions = [@ EXCEPT ![i] = row]]
  BY DEF BumpInteraction
<1> HIDE DEF c
<1>3. /\ row \in Session /\ row.finalized = d.sessions[i].finalized
      /\ row.sid = d.sessions[i].sid /\ row.summary = d.sessions[i].summary
      /\ row.covered = d.sessions[i].covered
      /\ row.folded = d.sessions[i].folded
  BY <1>1 DEF Session
<1> HIDE DEF row, e
<1>4. /\ e \in DbType /\ e.jobs = d.jobs /\ e.persistent = d.persistent
      /\ Len(e.sessions) = Len(d.sessions) /\ e.sessions[i] = row
      /\ \A n \in DOMAIN d.sessions \ {i} : e.sessions[n] = d.sessions[n]
  BY <1>1, <1>2, <1>3, ReplaceRow
<1> QED
  BY <1>3, <1>4 DEF CountsOrCloses, e

\* How one operation may change which sessions there are and which of them
\* are closed: not at all, by closing the newest, or by opening one behind
\* sessions that are all closed.
SameOpen(d, e) ==
  /\ Len(e.sessions) = Len(d.sessions)
  /\ \A n \in DOMAIN d.sessions :
       e.sessions[n].finalized = d.sessions[n].finalized

AllClosed(d, e) ==
  /\ Len(e.sessions) = Len(d.sessions)
  /\ \A n \in DOMAIN d.sessions : e.sessions[n].finalized

OneOpened(d, e) ==
  /\ Len(e.sessions) = Len(d.sessions) + 1
  /\ \A n \in DOMAIN d.sessions : e.sessions[n].finalized
  /\ ~e.sessions[Len(d.sessions) + 1].finalized

OpensInOrder(d, e) == SameOpen(d, e) \/ AllClosed(d, e) \/ OneOpened(d, e)

\* Where the next session may be opened.
MayOpen(d, sid) ==
  \/ SeqOf(d, sid) # {}
  \/ LastSeq(d) = 0
  \/ d.sessions[LastSeq(d)].finalized

\* on_interaction, step 1.
LEMMA RolloverGood ==
  ASSUME NEW t \in Seq(Turn), NEW d, NEW lo \in Nat, NEW f,
         Good(d, t, lo, f), NEW sid \in Nat
  PROVE  LET e == Rollover(d, t, sid)
         IN /\ Good(e, t, lo, f) /\ Grows(d, e)
            /\ e.persistent = d.persistent
            /\ SameOpen(d, e) \/ AllClosed(d, e)
            /\ MayOpen(e, sid)
<1> DEFINE e == Rollover(d, t, sid)
           last == LastSeq(d)
           closed == FinalizeSession(d, last)
<1>1. /\ d \in DbType /\ Len(d.sessions) \in Nat
      /\ DOMAIN d.sessions = 1..Len(d.sessions) /\ last = Len(d.sessions)
  BY DbFields DEF Good, LastSeq
<1>2. CASE last = 0 \/ d.sessions[last].sid = sid \/ d.sessions[last].finalized
  <2>1. e = d
    BY <1>2 DEF Rollover
  <2>2. MayOpen(d, sid)
    BY <1>1, <1>2 DEF MayOpen, SeqOf
  <2>3. Grows(d, d) /\ SameOpen(d, d)
    BY <1>1, GrowsSame DEF SameOpen
  <2> QED
    BY <2>1, <2>2, <2>3
<1>3. CASE ~(last = 0 \/ d.sessions[last].sid = sid \/ d.sessions[last].finalized)
  <2>0. last \in DOMAIN d.sessions
    BY <1>1, <1>3
  <2>1. e = EnqueueSession(closed, t, last, TRUE)
    BY <1>3 DEF Rollover
  <2> HIDE DEF last, e
  <2>2. CountsOrCloses(d, closed) /\ ClosesOnly(d, closed, last)
    BY <2>0, FinalizeGood
  <2>3. Good(closed, t, lo, f) /\ Grows(d, closed)
    BY <2>2, CountsOrClosesGood
  <2> HIDE DEF closed
  <2>4. /\ closed \in DbType /\ Len(closed.sessions) = Len(d.sessions)
        /\ closed.persistent = d.persistent
        /\ DOMAIN closed.sessions = DOMAIN d.sessions
    BY <1>1, <2>2, DbFields DEF CountsOrCloses
  <2>5. Good(e, t, lo, f) /\ e.sessions = closed.sessions
        /\ e.persistent = closed.persistent
    <3>1. last \in DOMAIN closed.sessions /\ TRUE \in BOOLEAN
      BY <2>0, <2>4
    <3>2. LET x == EnqueueSession(closed, t, last, TRUE)
          IN /\ Good(x, t, lo, f)
             /\ x.sessions = closed.sessions
             /\ x.persistent = closed.persistent
      BY <2>3, <3>1, EnqueueSessionGood
    <3> QED
      BY <2>1, <3>2
  <2>6. Grows(closed, e)
    BY <2>4, <2>5, GrowsSame
  <2>7. Grows(d, e)
    BY <1>1, <2>3, <2>4, <2>5, <2>6, GrowsTransitive DEF Good
  <2>8. AllClosed(d, e)
    BY <1>1, <2>2, <2>4, <2>5
       DEF AllClosed, Good, ClosedInOrder, ClosesOnly, CountsOrCloses, last
  <2>9. MayOpen(e, sid)
    BY <1>1, <2>0, <2>4, <2>5, <2>8 DEF AllClosed, MayOpen, LastSeq
  <2> QED
    BY <2>4, <2>5, <2>7, <2>8, <2>9 DEF e
<1> QED
  BY <1>2, <1>3

\* upsert_session.
LEMMA UpsertGood ==
  ASSUME NEW t \in Seq(Turn), NEW d, NEW lo \in Nat, NEW f,
         Good(d, t, lo, f), NEW sid \in Nat, MayOpen(d, sid)
  PROVE  LET e == UpsertSession(d, sid)
         IN /\ Good(e, t, lo, f) /\ Grows(d, e)
            /\ e.persistent = d.persistent
            /\ e = d \/ OneOpened(d, e)
            /\ SeqOf(e, sid) # {}
<1> DEFINE e == UpsertSession(d, sid)
           rows == Append(d.sessions, NewSession(sid))
           n == Len(d.sessions)
<1>1. /\ d \in DbType /\ n \in Nat /\ DOMAIN d.sessions = 1..n
      /\ d.sessions \in Seq(Session) /\ LastSeq(d) = n
      /\ \A i \in DOMAIN d.sessions : d.sessions[i].covered \in Nat
  BY DbFields DEF Good, LastSeq
<1>2. CASE SeqOf(d, sid) # {}
  <2>1. e = d
    BY <1>2 DEF UpsertSession
  <2>2. Grows(d, d)
    BY <1>1, GrowsSame
  <2> QED
    BY <1>2, <2>1, <2>2
<1>3. CASE SeqOf(d, sid) = {}
  <2>1. e = [d EXCEPT !.sessions = rows]
    BY <1>3 DEF UpsertSession
  <2>2. NewSession(sid) \in Session
    BY DEF NewSession, Session, TurnIds
  <2>3. rows \in Seq(Session) /\ Len(rows) = n + 1
        /\ rows[n + 1] = NewSession(sid)
        /\ \A i \in 1..n : rows[i] = d.sessions[i]
    BY <1>1, <2>2
  <2>4. /\ NewSession(sid).sid = sid /\ NewSession(sid).covered = 0
        /\ NewSession(sid).finalized = FALSE /\ NewSession(sid).folded = FALSE
    BY DEF NewSession
  <2> HIDE DEF e, rows
  <2>5. /\ e \in DbType /\ e.sessions = rows
        /\ e.jobs = d.jobs /\ e.persistent = d.persistent
    BY <1>1, <2>1, <2>3 DEF DbType
  <2>6. \A i \in 1..n : d.sessions[i].finalized
    BY <1>1, <1>3 DEF Good, ClosedInOrder, MayOpen
  <2> HIDE DEF n
  <2>7. DOMAIN e.sessions = 1..(n + 1) /\ LastSeq(e) = n + 1
    BY <2>3, <2>5, DbFields DEF LastSeq
  <2>8. JobsWellFormed(e)
    BY <1>1, <2>5, <2>7 DEF Good, JobsWellFormed
  <2>9. ClosedInOrder(e)
    BY <1>1, <2>3, <2>5, <2>6, <2>7 DEF ClosedInOrder
  <2>10. FoldedUpTo(e, f)
    <3>1. f \in 0..n
      BY <1>1 DEF Good, FoldedUpTo, n
    <3>2. ASSUME NEW i \in 1..n
          PROVE  /\ d.sessions[i].folded <=> i <= f
                 /\ i <= f => d.sessions[i].finalized
      BY <1>1 DEF Good, FoldedUpTo, n
    <3>3. /\ e.sessions[n + 1].folded = FALSE /\ n \in Nat
          /\ \A i \in 1..n : e.sessions[i] = d.sessions[i]
      BY <1>1, <2>3, <2>4, <2>5
    <3>4. \A i \in 1..(n + 1) : i \in 1..n \/ i = n + 1
      BY <3>3
    <3>5. ~(n + 1 <= f) /\ f \in 0..(n + 1)
      BY <3>1, <3>3
    <3>6. Len(e.sessions) = n + 1 /\ DOMAIN e.sessions = 1..(n + 1)
      BY <2>3, <2>5, <2>7
    <3>7. \A i \in 1..(n + 1) :
            /\ e.sessions[i].folded <=> i <= f
            /\ i <= f => e.sessions[i].finalized
      BY <3>2, <3>3, <3>4, <3>5
    <3> QED
      BY <3>5, <3>6, <3>7 DEF FoldedUpTo
  <2>11. BatchNear(e, lo, f)
    BY <1>1, <2>3, <2>5, <2>7 DEF Good, BatchNear
  <2>12. CoveredIsOwn(e, t)
    BY <1>1, <2>3, <2>4, <2>5, <2>7 DEF Good, CoveredIsOwn
  <2>13. SessionJobsAhead(e, t)
    <3>1. \A j \in Pending(d.jobs) : d.jobs[j].kind = "session" =>
            d.jobs[j].target \in 1..n
      BY <1>1 DEF Good, JobsWellFormed, Pending
    <3> QED
      BY <2>3, <2>5, <3>1 DEF Good, SessionJobsAhead
  <2>14. SummaryJobsAhead(e)
    BY <2>5 DEF Good, SummaryJobsAhead
  <2>15. Good(e, t, lo, f)
    BY <2>5, <2>8, <2>9, <2>10, <2>11, <2>12, <2>13, <2>14 DEF Good
  <2>16. Grows(d, e)
    BY <1>1, <2>3, <2>5, <2>7 DEF Grows
  <2>17. OneOpened(d, e)
    BY <1>1, <2>3, <2>4, <2>5, <2>6 DEF OneOpened, n
  <2>18. n + 1 \in SeqOf(e, sid)
    BY <1>1, <2>3, <2>4, <2>5, <2>7 DEF SeqOf
  <2> QED
    BY <2>5, <2>15, <2>16, <2>17, <2>18 DEF e
<1> QED
  BY <1>2, <1>3

\* Step 2.
LEMMA CountGood ==
  ASSUME NEW t \in Seq(Turn), NEW d, NEW lo \in Nat, NEW f,
         Good(d, t, lo, f), NEW sid \in Nat, MayOpen(d, sid)
  PROVE  LET e == CountInteraction(d, sid)
         IN /\ Good(e, t, lo, f) /\ Grows(d, e)
            /\ e.persistent = d.persistent
            /\ SameOpen(d, e) \/ OneOpened(d, e)
            /\ SeqOf(e, sid) # {}
<1> DEFINE u == UpsertSession(d, sid)
           i == CHOOSE n \in SeqOf(u, sid) : TRUE
           e == BumpInteraction(u, i)
<1>1. /\ Good(u, t, lo, f) /\ Grows(d, u)
      /\ u.persistent = d.persistent
      /\ u = d \/ OneOpened(d, u)
      /\ SeqOf(u, sid) # {}
  BY UpsertGood
<1>2. CountInteraction(d, sid) = e
  BY DEF CountInteraction
<1> HIDE DEF u
<1>3. i \in SeqOf(u, sid)
  BY <1>1
<1>4. i \in DOMAIN u.sessions /\ u.sessions[i].sid = sid
  BY <1>3 DEF SeqOf
<1> HIDE DEF i
<1>5. /\ CountsOrCloses(u, e)
      /\ \A n \in DOMAIN u.sessions :
           e.sessions[n].finalized = u.sessions[n].finalized
  BY <1>1, <1>4, BumpGood
<1>6. Good(e, t, lo, f) /\ Grows(u, e)
  BY <1>1, <1>5, CountsOrClosesGood
<1> HIDE DEF e
<1>7. d \in DbType /\ u \in DbType /\ e \in DbType
  BY <1>1, <1>6 DEF Good
<1>8. Grows(d, e)
  BY <1>1, <1>6, <1>7, GrowsTransitive
<1>9. DOMAIN e.sessions = DOMAIN u.sessions /\ Len(e.sessions) = Len(u.sessions)
  BY <1>5, <1>7, DbFields DEF CountsOrCloses
<1>10. i \in SeqOf(e, sid)
  BY <1>4, <1>5, <1>9 DEF SeqOf, CountsOrCloses
<1>11. SameOpen(d, e) \/ OneOpened(d, e)
  <2>1. CASE u = d
    BY <1>5, <1>9, <2>1 DEF SameOpen
  <2>2. CASE OneOpened(d, u)
    <3>1. /\ DOMAIN u.sessions = 1..(Len(d.sessions) + 1)
          /\ DOMAIN d.sessions = 1..Len(d.sessions) /\ Len(d.sessions) \in Nat
      BY <1>7, <2>2, DbFields DEF OneOpened
    <3>2. \A n \in 1..(Len(d.sessions) + 1) :
            e.sessions[n].finalized = u.sessions[n].finalized
      BY <1>5, <3>1
    <3>3. Len(d.sessions) + 1 \in 1..(Len(d.sessions) + 1)
      BY <3>1
    <3>4. ~u.sessions[Len(d.sessions) + 1].finalized
      BY <2>2 DEF OneOpened
    <3>5. ~e.sessions[Len(d.sessions) + 1].finalized
      BY <3>2, <3>3, <3>4
    <3>6. \A n \in DOMAIN d.sessions : e.sessions[n].finalized
      <4>1. TAKE n \in DOMAIN d.sessions
      <4>2. u.sessions[n].finalized
        BY <2>2, <4>1 DEF OneOpened
      <4>3. e.sessions[n].finalized = u.sessions[n].finalized
        BY <3>1, <3>2, <4>1
      <4> QED
        BY <4>2, <4>3
    <3> QED
      BY <1>9, <2>2, <3>5, <3>6 DEF OneOpened
  <2> QED
    BY <1>1, <2>1, <2>2
<1>12. e.persistent = d.persistent
  BY <1>1, <1>5 DEF CountsOrCloses
<1> QED
  BY <1>2, <1>6, <1>8, <1>10, <1>11, <1>12

\* Step 3.
LEMMA CadenceGood ==
  ASSUME NEW t \in Seq(Turn), NEW d, NEW lo \in Nat, NEW f,
         Good(d, t, lo, f), NEW sid, SeqOf(d, sid) # {}
  PROVE  LET e == Cadence(d, t, sid)
         IN /\ Good(e, t, lo, f)
            /\ e.sessions = d.sessions /\ e.persistent = d.persistent
<1> DEFINE i == CHOOSE n \in SeqOf(d, sid) : TRUE
           e == Cadence(d, t, sid)
<1>1. i \in SeqOf(d, sid)
  OBVIOUS
<1>2. i \in DOMAIN d.sessions
  BY <1>1 DEF SeqOf
<1>3. e = IF d.sessions[i].count % UpdateEvery = 0
          THEN EnqueueSession(d, t, i, FALSE) ELSE d
  BY DEF Cadence
<1> HIDE DEF e, i
<1>4. CASE e = EnqueueSession(d, t, i, FALSE)
  <2>1. /\ Good(e, t, lo, f)
        /\ e.sessions = d.sessions /\ e.persistent = d.persistent
    BY <1>2, <1>4, EnqueueSessionGood
  <2> QED
    BY <2>1 DEF e
<1>5. CASE e = d
  BY <1>5 DEF e
<1> QED
  BY <1>3, <1>4, <1>5

\* The whole tick.
LEMMA TickGood ==
  ASSUME NEW t \in Seq(Turn), NEW d, NEW lo \in Nat, NEW f,
         Good(d, t, lo, f), lo <= f, NEW sid \in Nat
  PROVE  LET e == OnInteraction(d, t, sid)
         IN /\ Good(e, t, lo, f) /\ Grows(d, e)
            /\ e.persistent = d.persistent
            /\ OpensInOrder(d, e)
<1> DEFINE r == Rollover(d, t, sid)
           c == CountInteraction(r, sid)
           k == Cadence(c, t, sid)
           e == EnqueueSummary(k)
<1>0. OnInteraction(d, t, sid) = e
  BY DEF OnInteraction
<1>1. /\ Good(r, t, lo, f) /\ Grows(d, r) /\ r.persistent = d.persistent
      /\ SameOpen(d, r) \/ AllClosed(d, r)
      /\ MayOpen(r, sid)
  BY RolloverGood
<1> HIDE DEF r
<1>2. /\ Good(c, t, lo, f) /\ Grows(r, c) /\ c.persistent = r.persistent
      /\ SameOpen(r, c) \/ OneOpened(r, c)
      /\ SeqOf(c, sid) # {}
  BY <1>1, CountGood
<1> HIDE DEF c
<1>3. /\ Good(k, t, lo, f)
      /\ k.sessions = c.sessions /\ k.persistent = c.persistent
  BY <1>2, CadenceGood
<1> HIDE DEF k
<1>4. /\ Good(e, t, lo, f)
      /\ e.sessions = k.sessions /\ e.persistent = k.persistent
  BY <1>3, EnqueueSummaryGood
<1> HIDE DEF e
<1>5. d \in DbType /\ r \in DbType /\ c \in DbType /\ e \in DbType
  BY <1>1, <1>2, <1>4 DEF Good
<1>6. Grows(c, e)
  BY <1>3, <1>4, <1>5, GrowsSame
<1>7. Grows(d, e)
  <2>1. Grows(d, c)
    BY <1>1, <1>2, <1>5, GrowsTransitive
  <2> QED
    BY <1>5, <1>6, <2>1, GrowsTransitive
<1>8. OpensInOrder(d, e)
  <2>1. e.sessions = c.sessions
    BY <1>3, <1>4
  <2>2. /\ DOMAIN d.sessions = 1..Len(d.sessions)
        /\ DOMAIN r.sessions = 1..Len(r.sessions)
    BY <1>5, DbFields
  <2>3. CASE SameOpen(d, r)
    BY <1>2, <2>1, <2>2, <2>3 DEF OpensInOrder, SameOpen, OneOpened
  <2>4. CASE AllClosed(d, r)
    BY <1>2, <2>1, <2>2, <2>4 DEF OpensInOrder, SameOpen, OneOpened, AllClosed
  <2> QED
    BY <1>1, <2>3, <2>4
<1> QED
  BY <1>0, <1>1, <1>2, <1>3, <1>4, <1>7, <1>8

\* At most one job waits for the summary, and one for each session.
LEMMA OneWaits ==
  ASSUME NEW t, NEW d, NEW lo, NEW f, Good(d, t, lo, f),
         NEW j \in Pending(d.jobs), NEW k \in Pending(d.jobs),
         d.jobs[j].kind = d.jobs[k].kind,
         \/ d.jobs[j].kind = "summary"
         \/ d.jobs[j].target = d.jobs[k].target
  PROVE  j = k
<1>1. /\ j \in DOMAIN d.jobs /\ k \in DOMAIN d.jobs
      /\ d.jobs[j].status = "pending" /\ d.jobs[k].status = "pending"
  BY DEF Pending
<1>2. j \in Nat /\ k \in Nat
  BY <1>1, DbFields DEF Good
<1>3. d.jobs[j].target = d.jobs[k].target
  BY <1>1 DEF Good, JobsWellFormed
<1> QED
  BY <1>1, <1>2, <1>3 DEF Good, NewestOnly

\* The tables with job j done.
Answered(d, j) == [d EXCEPT !.jobs = MarkDone(@, j)]

\* mark_done.
LEMMA AnsweredGood ==
  ASSUME NEW t, NEW d, NEW lo \in Nat, NEW f,
         Good(d, t, lo, f), NEW j \in DOMAIN d.jobs
  PROVE  LET e == Answered(d, j)
         IN /\ Good(e, t, lo, f)
            /\ e.sessions = d.sessions
            /\ e.persistent = d.persistent
            /\ e.jobs = MarkDone(d.jobs, j)
<1> DEFINE e == Answered(d, j)
           new == MarkDone(d.jobs, j)
<1>1. d \in DbType /\ d.jobs \in Seq(Jobs) /\ NewestOnly(d.jobs)
  BY DbFields DEF Good
<1>2. new \in Seq(Jobs)
  BY <1>1, MarkDoneShape DEF Jobs
<1>3. NewestOnly(new)
  BY <1>1, MarkDoneKeepsNewest DEF Jobs
<1>4. AnswerEffect(d.jobs, new, j)
  BY <1>1, MarkDoneWaiting DEF Jobs
<1>5. e = [d EXCEPT !.jobs = new]
  BY DEF Answered
<1> HIDE DEF new, e
<1>6. /\ e \in DbType /\ e.sessions = d.sessions
      /\ e.persistent = d.persistent /\ e.jobs = new
  BY <1>1, <1>2, <1>5 DEF DbType
<1>7. JobsWellFormed(e)
  BY <1>4, <1>6 DEF Good, JobsWellFormed, AnswerEffect
<1>8. ClosedInOrder(e) /\ FoldedUpTo(e, f) /\ CoveredIsOwn(e, t)
  BY <1>6 DEF Good, ClosedInOrder, FoldedUpTo, CoveredIsOwn, LastSeq
<1>9. \A k \in Pending(new) : k \in Pending(d.jobs) /\ new[k] = d.jobs[k]
  BY <1>4 DEF AnswerEffect
<1>10. BatchNear(e, lo, f)
  BY <1>6, <1>9 DEF Good, BatchNear
<1>11. SessionJobsAhead(e, t)
  BY <1>6, <1>9 DEF Good, SessionJobsAhead
<1>12. SummaryJobsAhead(e)
  BY <1>6, <1>9 DEF Good, SummaryJobsAhead
<1>13. Good(e, t, lo, f)
  BY <1>3, <1>6, <1>7, <1>8, <1>10, <1>11, <1>12 DEF Good
<1> QED
  BY <1>6, <1>13 DEF e, new

\* set_session_summary, for the session of a waiting job.
LEMMA SetSummaryGood ==
  ASSUME NEW t, NEW d, NEW lo \in Nat, NEW f, Good(d, t, lo, f),
         NEW j \in Pending(d.jobs), d.jobs[j].kind = "session"
  PROVE  LET job == d.jobs[j]
             e == SetSessionSummary(d, job.target, job.body.input,
                                    job.body.advance)
         IN /\ Good(e, t, lo, f) /\ Grows(d, e)
            /\ SameOpen(d, e)
            /\ e.persistent = d.persistent
            /\ e.jobs = d.jobs
<1> DEFINE job == d.jobs[j]
           i == job.target
           text == job.body.input
           through == job.body.advance
           e == SetSessionSummary(d, i, text, through)
           row == [d.sessions[i] EXCEPT !.summary = text, !.covered = through]
<1>1. /\ d \in DbType /\ j \in DOMAIN d.jobs
      /\ \A n \in DOMAIN d.sessions :
           d.sessions[n] \in Session /\ d.sessions[n].covered \in Nat
  BY DbFields DEF Good, Pending
<1>2. i \in DOMAIN d.sessions
  BY <1>1 DEF Good, JobsWellFormed
<1>3. text \in SUBSET Nat /\ through \in Nat
  <2>1. job.body \in Body
    BY <1>1, DbFields
  <2> QED
    BY <2>1 DEF Body, TurnIds
<1>4. /\ through \in OwnTurns(t, d.sessions[i].sid)
      /\ d.sessions[i].covered <= through
      /\ d.sessions[i].summary \subseteq text
  BY DEF Good, SessionJobsAhead
<1>5. e = [d EXCEPT !.sessions = [@ EXCEPT ![i] = row]]
  BY DEF SetSessionSummary
<1> HIDE DEF i, text, through
<1>6. /\ row \in Session /\ row.sid = d.sessions[i].sid
      /\ row.summary = text /\ row.covered = through
      /\ row.finalized = d.sessions[i].finalized
      /\ row.folded = d.sessions[i].folded
  BY <1>1, <1>2, <1>3 DEF Session, TurnIds
<1> HIDE DEF row, e
<1>7. /\ e \in DbType /\ e.jobs = d.jobs /\ e.persistent = d.persistent
      /\ Len(e.sessions) = Len(d.sessions) /\ e.sessions[i] = row
      /\ \A n \in DOMAIN d.sessions \ {i} : e.sessions[n] = d.sessions[n]
  BY <1>1, <1>2, <1>5, <1>6, ReplaceRow
<1>8. DOMAIN e.sessions = DOMAIN d.sessions
  BY <1>1, <1>7, DbFields
<1>9. \A n \in DOMAIN d.sessions :
        /\ e.sessions[n].sid = d.sessions[n].sid
        /\ e.sessions[n].finalized = d.sessions[n].finalized
        /\ e.sessions[n].folded = d.sessions[n].folded
  BY <1>6, <1>7
<1>10. JobsWellFormed(e)
  BY <1>7, <1>8 DEF Good, JobsWellFormed
<1>11. ClosedInOrder(e)
  BY <1>7, <1>8, <1>9 DEF Good, ClosedInOrder, LastSeq
<1>12. FoldedUpTo(e, f)
  BY <1>7, <1>8, <1>9 DEF Good, FoldedUpTo
<1>13. BatchNear(e, lo, f)
  BY <1>7, <1>8, <1>9 DEF Good, BatchNear
<1>14. CoveredIsOwn(e, t)
  <2>1. \A n \in DOMAIN d.sessions :
          e.sessions[n].covered = IF n = i THEN through
                                  ELSE d.sessions[n].covered
    BY <1>6, <1>7
  <2> QED
    BY <1>2, <1>4, <1>8, <1>9, <2>1 DEF Good, CoveredIsOwn
<1>15. SessionJobsAhead(e, t)
  <2> SUFFICES ASSUME NEW k \in Pending(d.jobs), d.jobs[k].kind = "session"
               PROVE  LET r == e.sessions[d.jobs[k].target]
                          body == d.jobs[k].body
                      IN /\ body.advance \in OwnTurns(t, r.sid)
                         /\ r.covered <= body.advance
                         /\ r.summary \subseteq body.input
    BY <1>7 DEF SessionJobsAhead
  <2>1. d.jobs[k].target \in DOMAIN d.sessions
    BY DEF Good, JobsWellFormed, Pending
  <2>2. CASE d.jobs[k].target = i
    <3>1. k = j
      BY <2>2, OneWaits DEF i
    <3>2. /\ d.jobs[k].body.advance = through
          /\ d.jobs[k].body.input = text
      BY <3>1 DEF text, through
    <3>3. /\ e.sessions[i].sid = d.sessions[i].sid
          /\ e.sessions[i].covered = through
          /\ e.sessions[i].summary = text
      BY <1>6, <1>7
    <3>4. through <= through /\ text \subseteq text
      BY <1>3
    <3> QED
      BY <1>4, <2>2, <3>2, <3>3, <3>4
  <2>3. CASE d.jobs[k].target # i
    BY <1>7, <2>1, <2>3 DEF Good, SessionJobsAhead
  <2> QED
    BY <2>2, <2>3
<1>16. SummaryJobsAhead(e)
  BY <1>7 DEF Good, SummaryJobsAhead
<1>17. Good(e, t, lo, f)
  BY <1>7, <1>10, <1>11, <1>12, <1>13, <1>14, <1>15, <1>16 DEF Good
<1>18. Grows(d, e)
  <2>1. \A n \in DOMAIN d.sessions :
          /\ d.sessions[n].covered <= e.sessions[n].covered
          /\ d.sessions[n].summary \subseteq e.sessions[n].summary
    BY <1>1, <1>4, <1>6, <1>7
  <2> QED
    BY <1>7, <1>8, <2>1 DEF Grows
<1>19. SameOpen(d, e)
  BY <1>7, <1>9 DEF SameOpen
<1> QED
  BY <1>7, <1>17, <1>18, <1>19 DEF e, i, text, through

\* _apply_session: the summary, the job, the fold trigger.
LEMMA ApplySessionGood ==
  ASSUME NEW t \in Seq(Turn), NEW d, NEW lo \in Nat, NEW f,
         Good(d, t, lo, f), lo <= f,
         NEW j \in Pending(d.jobs), d.jobs[j].kind = "session"
  PROVE  LET e == ApplySession(d, j)
         IN /\ Good(e, t, lo, f) /\ Grows(d, e)
            /\ SameOpen(d, e)
            /\ e.persistent = d.persistent
<1> DEFINE job == d.jobs[j]
           s == SetSessionSummary(d, job.target, job.body.input,
                                  job.body.advance)
           m == Answered(s, j)
           e == EnqueueSummary(m)
<1>0. ApplySession(d, j) = e
  BY DEF ApplySession, Answered
<1>1. /\ Good(s, t, lo, f) /\ Grows(d, s) /\ SameOpen(d, s)
      /\ s.persistent = d.persistent /\ s.jobs = d.jobs
  BY SetSummaryGood
<1> HIDE DEF s
<1>2. j \in DOMAIN s.jobs
  BY <1>1 DEF Pending
<1>3. /\ Good(m, t, lo, f)
      /\ m.sessions = s.sessions /\ m.persistent = s.persistent
  BY <1>1, <1>2, AnsweredGood
<1> HIDE DEF m
<1>4. /\ Good(e, t, lo, f)
      /\ e.sessions = m.sessions /\ e.persistent = m.persistent
  BY <1>3, EnqueueSummaryGood
<1> HIDE DEF e
<1>5. d \in DbType /\ s \in DbType /\ e \in DbType
  BY <1>1, <1>4 DEF Good
<1>6. Grows(s, e)
  BY <1>3, <1>4, <1>5, GrowsSame
<1>7. Grows(d, e)
  BY <1>1, <1>5, <1>6, GrowsTransitive
<1>8. SameOpen(d, e) /\ e.persistent = d.persistent
  BY <1>1, <1>3, <1>4 DEF SameOpen
<1> QED
  BY <1>0, <1>4, <1>7, <1>8

\* A batch of a waiting fold, and where it lies.
LEMMA WaitingBatch ==
  ASSUME NEW t, NEW d, NEW lo \in Nat, NEW f, Good(d, t, lo, f),
         NEW j \in Pending(d.jobs), d.jobs[j].kind = "summary"
  PROVE  \E a \in lo..f :
           LET items == d.jobs[j].body.items IN
           /\ a \in Nat /\ f \in Nat
           /\ f <= a + SessionsPerSummary
           /\ a + SessionsPerSummary \in DOMAIN d.sessions
           /\ d.sessions[a + SessionsPerSummary].finalized
           /\ items = (a + 1)..(a + SessionsPerSummary)
           /\ items # {}
           /\ Cardinality(items) = SessionsPerSummary
           /\ Min(items) \in Nat /\ Max(items) \in Nat
<1> DEFINE items == d.jobs[j].body.items
           k == SessionsPerSummary
<1>1. PICK a \in lo..f :
        /\ f <= a + k
        /\ a + k \in DOMAIN d.sessions
        /\ d.sessions[a + k].finalized
        /\ items = (a + 1)..(a + k)
  BY DEF Good, BatchNear
<1>2. f \in Nat /\ a \in Nat /\ k \in Nat /\ k > 0
  BY <1>1, DiaryConfigAssumption DEF Good, FoldedUpTo
<1> HIDE DEF items, k
<1>3. items \in SUBSET Nat /\ a + 1 \in items /\ a + k \in Nat
      /\ items \in SUBSET (0..(a + k))
  BY <1>1, <1>2
<1>4. Cardinality(items) = k
  BY <1>1, <1>2, IntervalSize
<1>5. Min(items) \in items /\ Max(items) \in items
  BY <1>3, MinProperty, MaxProperty
<1>6. Min(items) \in Nat /\ Max(items) \in Nat
  BY <1>3, <1>5
<1>7. items # {}
  BY <1>3
<1> QED
  BY <1>1, <1>2, <1>4, <1>6, <1>7 DEF items, k

\* upsert_summary, with the answer to a waiting fold.
LEMMA UpsertSummaryGood ==
  ASSUME NEW t, NEW d, NEW lo \in Nat, NEW f, Good(d, t, lo, f),
         NEW j \in Pending(d.jobs), d.jobs[j].kind = "summary"
  PROVE  LET body == d.jobs[j].body
             e == UpsertSummary(d, body.input, body.items)
         IN /\ Good(e, t, lo, f) /\ Grows(d, e)
            /\ e.sessions = d.sessions
            /\ e.jobs = d.jobs
            /\ e.persistent.count = d.persistent.count + SessionsPerSummary
<1> DEFINE items == d.jobs[j].body.items
           text == d.jobs[j].body.input
           e == UpsertSummary(d, text, items)
           first == IF d.persistent.count = 0 THEN Min(items)
                    ELSE d.persistent.first
           p == [summary |-> text,
                 count |-> d.persistent.count + Cardinality(items),
                 first |-> first,
                 last |-> Max(items)]
<1>1. /\ d \in DbType /\ d.persistent \in Persistent
      /\ d.persistent.count \in Nat /\ d.persistent.first \in Nat
      /\ d.persistent.summary \in SUBSET Nat
      /\ d.jobs[j].body \in Body
  <2>1. d \in DbType /\ d.persistent \in Persistent /\ d.jobs[j].body \in Body
    BY DbFields DEF Good, Pending
  <2> QED
    BY <2>1 DEF Persistent, TurnIds
<1>2. /\ items # {} /\ Cardinality(items) = SessionsPerSummary
      /\ Min(items) \in Nat /\ Max(items) \in Nat
  BY WaitingBatch
<1>3. SessionsPerSummary \in Nat
  BY DiaryConfigAssumption
<1>4. text \in SUBSET Nat
  BY <1>1 DEF Body, TurnIds
<1>5. e = [d EXCEPT !.persistent = p]
  BY <1>2 DEF UpsertSummary
<1> HIDE DEF text, items
<1>6. first \in Nat
  BY <1>1, <1>2
<1> HIDE DEF first
<1>7. /\ p \in Persistent /\ p.summary = text
      /\ p.count = d.persistent.count + SessionsPerSummary
  BY <1>1, <1>2, <1>3, <1>4, <1>6 DEF Persistent, TurnIds
<1> HIDE DEF p, e
<1>8. /\ e \in DbType /\ e.persistent = p
      /\ e.sessions = d.sessions /\ e.jobs = d.jobs
  BY <1>1, <1>5, <1>7 DEF DbType
<1>9. JobsWellFormed(e) /\ ClosedInOrder(e) /\ FoldedUpTo(e, f)
      /\ CoveredIsOwn(e, t)
  BY <1>8 DEF Good, JobsWellFormed, ClosedInOrder, FoldedUpTo, CoveredIsOwn,
              LastSeq
<1>10. BatchNear(e, lo, f) /\ SessionJobsAhead(e, t)
  BY <1>8 DEF Good, BatchNear, SessionJobsAhead
<1>11. SummaryJobsAhead(e)
  <2> SUFFICES ASSUME NEW k \in Pending(d.jobs), d.jobs[k].kind = "summary"
               PROVE  text \subseteq d.jobs[k].body.input
    BY <1>7, <1>8 DEF SummaryJobsAhead
  <2>1. k = j
    BY OneWaits
  <2> QED
    BY <2>1 DEF text
<1>12. Good(e, t, lo, f)
  BY <1>8, <1>9, <1>10, <1>11 DEF Good
<1>13. d.persistent.summary \subseteq text
  BY DEF Good, SummaryJobsAhead, text
<1>14. Grows(d, e)
  <2>1. \A n \in DOMAIN d.sessions : d.sessions[n].covered \in Nat
    BY <1>1, DbFields
  <2> QED
    BY <1>7, <1>8, <1>13, <2>1 DEF Grows
<1> QED
  BY <1>7, <1>8, <1>12, <1>14 DEF e, text, items

UpTo(items, n) == {i \in items : i <= n}

\* How far the fold has got once the n-th session is marked.
FoldedAfter(f, n) == IF n > f THEN n ELSE f

\* mark_folded, for the sessions of a waiting fold up to the n-th: a prefix
\* of the sessions is folded before it and after it.
LEMMA MarkFoldedGood ==
  ASSUME NEW t, NEW d, NEW lo \in Nat, NEW f, Good(d, t, lo, f),
         NEW j \in Pending(d.jobs), d.jobs[j].kind = "summary",
         NEW n \in d.jobs[j].body.items
  PROVE  LET e == MarkFolded(d, UpTo(d.jobs[j].body.items, n))
         IN /\ Good(e, t, lo, FoldedAfter(f, n)) /\ Grows(d, e)
            /\ SameOpen(d, e)
            /\ e.persistent = d.persistent
            /\ e.jobs = d.jobs
<1> DEFINE items == d.jobs[j].body.items
           batch == UpTo(items, n)
           e == MarkFolded(d, batch)
           g == FoldedAfter(f, n)
           rows == [i \in DOMAIN d.sessions |->
                      IF i \in batch
                      THEN [d.sessions[i] EXCEPT !.folded = TRUE]
                      ELSE d.sessions[i]]
           k == SessionsPerSummary
<1>1. /\ d \in DbType /\ d.sessions \in Seq(Session)
      /\ Len(d.sessions) \in Nat
      /\ DOMAIN d.sessions = 1..Len(d.sessions)
      /\ \A i \in DOMAIN d.sessions : d.sessions[i] \in Session
      /\ \A i \in DOMAIN d.sessions : d.sessions[i].covered \in Nat
  BY DbFields DEF Good
<1>2. PICK a \in lo..f :
        /\ f <= a + k
        /\ a + k \in DOMAIN d.sessions
        /\ d.sessions[a + k].finalized
        /\ items = (a + 1)..(a + k)
  BY DEF Good, BatchNear
<1>3. k \in Nat /\ k > 0 /\ f \in Nat /\ a \in Nat
  BY <1>2, DiaryConfigAssumption DEF Good, FoldedUpTo
<1>4. n \in (a + 1)..(a + k)
  BY <1>2
<1>5. e = [d EXCEPT !.sessions = rows]
  BY DEF MarkFolded
<1> HIDE DEF k, items
<1>6. batch = (a + 1)..n
  BY <1>2, <1>3, <1>4 DEF UpTo
<1> HIDE DEF batch
<1>7. \A i \in DOMAIN d.sessions :
        /\ rows[i] \in Session
        /\ rows[i].sid = d.sessions[i].sid
        /\ rows[i].summary = d.sessions[i].summary
        /\ rows[i].covered = d.sessions[i].covered
        /\ rows[i].finalized = d.sessions[i].finalized
        /\ rows[i].folded = IF i \in batch THEN TRUE ELSE d.sessions[i].folded
  BY <1>1 DEF Session
<1>8. rows \in [1..Len(d.sessions) -> Session]
  BY <1>1, <1>7
<1> HIDE DEF rows
<1>9. rows \in Seq(Session) /\ Len(rows) = Len(d.sessions)
  BY <1>1, <1>8
<1> HIDE DEF e
<1>10. /\ e \in DbType /\ e.sessions = rows
       /\ e.persistent = d.persistent /\ e.jobs = d.jobs
  BY <1>1, <1>5, <1>9 DEF DbType
<1>11. DOMAIN rows = DOMAIN d.sessions
  BY <1>1, <1>8
<1>12. /\ DOMAIN e.sessions = DOMAIN d.sessions
       /\ \A i \in DOMAIN d.sessions :
            /\ e.sessions[i].sid = d.sessions[i].sid
            /\ e.sessions[i].summary = d.sessions[i].summary
            /\ e.sessions[i].covered = d.sessions[i].covered
  BY <1>7, <1>10, <1>11
<1>13. g \in Nat /\ f <= g /\ g <= a + k /\ g \in 0..Len(d.sessions) /\ a \in lo..g
  BY <1>1, <1>2, <1>3, <1>4 DEF FoldedAfter
<1>14. FoldedUpTo(e, g)
  <2>1. \A i \in DOMAIN d.sessions : i <= a + k => d.sessions[i].finalized
    BY <1>1, <1>2, <1>3 DEF Good, ClosedInOrder, LastSeq
  <2>2. \A i \in DOMAIN d.sessions : d.sessions[i].folded = (i <= f)
    <3>1. \A i \in DOMAIN d.sessions : d.sessions[i].folded \in BOOLEAN
      BY <1>1 DEF Session
    <3>2. \A i \in DOMAIN d.sessions : d.sessions[i].folded <=> i <= f
      BY DEF Good, FoldedUpTo
    <3> QED
      BY <3>1, <3>2
  <2>3. \A i \in DOMAIN d.sessions : i \in batch \/ i <= f <=> i <= g
    BY <1>1, <1>2, <1>3, <1>4, <1>6 DEF FoldedAfter
  <2>4. \A i \in DOMAIN d.sessions : rows[i].folded <=> i <= g
    BY <1>7, <2>2, <2>3
  <2>5. \A i \in DOMAIN d.sessions : i <= g => rows[i].finalized
    <3>1. TAKE i \in DOMAIN d.sessions
    <3>2. HAVE i <= g
    <3>3. i <= a + k
      BY <1>1, <1>2, <1>3, <1>13, <3>1, <3>2
    <3> QED
      BY <1>7, <2>1, <3>1, <3>3
  <2> HIDE DEF g
  <2> QED
    BY <1>9, <1>10, <1>11, <1>13, <2>4, <2>5 DEF FoldedUpTo
<1> HIDE DEF g
<1>15. JobsWellFormed(e)
  BY <1>10, <1>11 DEF Good, JobsWellFormed
<1>16. ClosedInOrder(e)
  BY <1>7, <1>9, <1>10, <1>11 DEF Good, ClosedInOrder, LastSeq
<1>17. BatchNear(e, lo, g)
  <2> SUFFICES ASSUME NEW q \in Pending(d.jobs), d.jobs[q].kind = "summary"
               PROVE  \E b \in lo..g :
                        /\ g <= b + k
                        /\ b + k \in DOMAIN rows
                        /\ rows[b + k].finalized
                        /\ d.jobs[q].body.items = (b + 1)..(b + k)
    BY <1>10 DEF BatchNear, k
  <2>1. q = j
    BY OneWaits
  <2> QED
    BY <1>2, <1>7, <1>11, <1>13, <2>1 DEF items
<1>18. CoveredIsOwn(e, t)
  BY <1>7, <1>10, <1>11 DEF Good, CoveredIsOwn
<1>19. SessionJobsAhead(e, t)
  <2>1. \A q \in Pending(d.jobs) : d.jobs[q].kind = "session" =>
          d.jobs[q].target \in DOMAIN d.sessions
    BY DEF Good, JobsWellFormed, Pending
  <2> QED
    BY <1>10, <1>12, <2>1, SMTT(30) DEF Good, SessionJobsAhead
<1>20. SummaryJobsAhead(e)
  BY <1>10 DEF Good, SummaryJobsAhead
<1>21. Good(e, t, lo, g)
  BY <1>10, <1>14, <1>15, <1>16, <1>17, <1>18, <1>19, <1>20 DEF Good
<1>22. Grows(d, e)
  BY <1>1, <1>10, <1>12 DEF Grows
<1>23. SameOpen(d, e)
  BY <1>7, <1>9, <1>10 DEF SameOpen
<1> QED
  BY <1>10, <1>21, <1>22, <1>23 DEF e, batch, items, g

\* _apply_summary: the summary, the marks, the job, the fold trigger.
LEMMA ApplySummaryGood ==
  ASSUME NEW t \in Seq(Turn), NEW d, NEW lo \in Nat, NEW f,
         Good(d, t, lo, f),
         NEW j \in Pending(d.jobs), d.jobs[j].kind = "summary",
         NEW a \in lo..f, f <= a + SessionsPerSummary,
         d.jobs[j].body.items = (a + 1)..(a + SessionsPerSummary)
  PROVE  LET e == ApplySummary(d, j)
             n == a + SessionsPerSummary
         IN /\ Good(e, t, n, n) /\ Grows(d, e)
            /\ SameOpen(d, e)
            /\ e.persistent.count = d.persistent.count + SessionsPerSummary
<1> DEFINE items == d.jobs[j].body.items
           n == a + SessionsPerSummary
           u == UpsertSummary(d, d.jobs[j].body.input, items)
           b == UpTo(items, n)
           s == MarkFolded(u, b)
           m == Answered(s, j)
           e == EnqueueSummary(m)
<1>1. SessionsPerSummary \in Nat /\ SessionsPerSummary > 0
      /\ f \in Nat /\ a \in Nat /\ n \in Nat
  BY DiaryConfigAssumption DEF Good, FoldedUpTo
<1>2. n \in items /\ b = items
  BY <1>1 DEF UpTo
<1>3. ApplySummary(d, j) = e
  BY <1>2 DEF ApplySummary, Answered
<1>4. /\ Good(u, t, lo, f) /\ Grows(d, u)
      /\ u.sessions = d.sessions /\ u.jobs = d.jobs
      /\ u.persistent.count = d.persistent.count + SessionsPerSummary
  BY UpsertSummaryGood
<1> HIDE DEF u, n, items
<1>5. /\ Good(s, t, lo, FoldedAfter(f, n)) /\ Grows(u, s)
      /\ SameOpen(u, s)
      /\ s.persistent = u.persistent /\ s.jobs = u.jobs
  <2> DEFINE x == MarkFolded(u, UpTo(u.jobs[j].body.items, n))
  <2>1. /\ j \in Pending(u.jobs) /\ u.jobs[j].kind = "summary"
        /\ n \in u.jobs[j].body.items
    BY <1>2, <1>4 DEF items
  <2>2. x = s
    BY <1>4 DEF items
  <2>3. /\ Good(x, t, lo, FoldedAfter(f, n)) /\ Grows(u, x)
        /\ SameOpen(u, x)
        /\ x.persistent = u.persistent /\ x.jobs = u.jobs
    <3>1. Good(u, t, lo, f)
      BY <1>4
    <3> QED
      BY <2>1, <3>1, MarkFoldedGood, ZenonT(30)
  <2> HIDE DEF x, s
  <2> QED
    BY <2>2, <2>3
<1>6. FoldedAfter(f, n) = n
  BY <1>1 DEF n, FoldedAfter
<1> HIDE DEF s
<1>7. j \in DOMAIN s.jobs
  BY <1>4, <1>5 DEF Pending
<1>8. /\ Good(m, t, lo, n)
      /\ m.sessions = s.sessions /\ m.persistent = s.persistent
      /\ m.jobs = MarkDone(s.jobs, j)
  <2>1. Good(s, t, lo, n)
    BY <1>5, <1>6
  <2> QED
    BY <1>7, <2>1, AnsweredGood, SMTT(30)
<1> HIDE DEF m
<1>9. Good(m, t, n, n)
  <2>1. s.jobs \in Seq(Jobs) /\ NewestOnly(s.jobs)
    BY <1>5, DbFields DEF Good
  <2>2. AnswerEffect(s.jobs, m.jobs, j)
    BY <1>7, <1>8, <2>1, MarkDoneWaiting DEF Jobs
  <2>3. ASSUME NEW k \in Pending(m.jobs), m.jobs[k].kind = "summary"
        PROVE  FALSE
    <3>1. /\ k \in Pending(s.jobs) /\ k # j /\ s.jobs[k].kind = "summary"
          /\ j \in Pending(s.jobs) /\ s.jobs[j].kind = "summary"
      BY <1>4, <1>5, <2>2, <2>3 DEF AnswerEffect
    <3> QED
      BY <1>5, <3>1, OneWaits
  <2>4. BatchNear(m, n, n)
    BY <2>3 DEF BatchNear
  <2> QED
    BY <1>8, <2>4 DEF Good
<1>10. /\ Good(e, t, n, n)
       /\ e.sessions = m.sessions /\ e.persistent = m.persistent
  BY <1>1, <1>9, EnqueueSummaryGood
<1> HIDE DEF e
<1>11. d \in DbType /\ u \in DbType /\ s \in DbType /\ e \in DbType
  BY <1>4, <1>5, <1>10 DEF Good
<1>12. Grows(d, e)
  <2>1. Grows(d, s)
    BY <1>4, <1>5, <1>11, GrowsTransitive
  <2>2. Grows(s, e)
    BY <1>8, <1>10, <1>11, GrowsSame
  <2> QED
    BY <1>11, <2>1, <2>2, GrowsTransitive
<1>13. SameOpen(d, e)
  BY <1>4, <1>5, <1>8, <1>10 DEF SameOpen
<1>14. e.persistent.count = d.persistent.count + SessionsPerSummary
  BY <1>4, <1>5, <1>8, <1>10
<1> QED
  BY <1>3, <1>10, <1>12, <1>13, <1>14 DEF n

\* finalize: the newest session closed, and its job.
LEMMA CloseGood ==
  ASSUME NEW t \in Seq(Turn), NEW d, NEW lo \in Nat, NEW f,
         Good(d, t, lo, f)
  PROVE  LET e == FinalizeLast(d, t)
         IN /\ Good(e, t, lo, f) /\ Grows(d, e)
            /\ e.persistent = d.persistent
            /\ SameOpen(d, e) \/ AllClosed(d, e)
<1> DEFINE e == FinalizeLast(d, t)
           last == LastSeq(d)
           closed == FinalizeSession(d, last)
<1>1. /\ d \in DbType /\ Len(d.sessions) \in Nat
      /\ DOMAIN d.sessions = 1..Len(d.sessions) /\ last = Len(d.sessions)
  BY DbFields DEF Good, LastSeq
<1>2. CASE last = 0
  <2>1. e = d
    BY <1>2 DEF FinalizeLast
  <2>2. Grows(d, d) /\ SameOpen(d, d)
    BY <1>1, GrowsSame DEF SameOpen
  <2> QED
    BY <2>1, <2>2
<1>3. CASE last # 0
  <2>0. last \in DOMAIN d.sessions
    BY <1>1, <1>3
  <2>1. e = EnqueueSession(closed, t, last, TRUE)
    BY <1>3 DEF FinalizeLast
  <2> HIDE DEF last, e
  <2>2. CountsOrCloses(d, closed) /\ ClosesOnly(d, closed, last)
    BY <2>0, FinalizeGood
  <2>3. Good(closed, t, lo, f) /\ Grows(d, closed)
    BY <2>2, CountsOrClosesGood
  <2> HIDE DEF closed
  <2>4. /\ closed \in DbType /\ Len(closed.sessions) = Len(d.sessions)
        /\ closed.persistent = d.persistent
        /\ DOMAIN closed.sessions = DOMAIN d.sessions
    BY <1>1, <2>2, DbFields DEF CountsOrCloses
  <2>5. Good(e, t, lo, f) /\ e.sessions = closed.sessions
        /\ e.persistent = closed.persistent
    <3>1. last \in DOMAIN closed.sessions /\ TRUE \in BOOLEAN
      BY <2>0, <2>4
    <3>2. LET x == EnqueueSession(closed, t, last, TRUE)
          IN /\ Good(x, t, lo, f)
             /\ x.sessions = closed.sessions
             /\ x.persistent = closed.persistent
      BY <2>3, <3>1, EnqueueSessionGood
    <3> QED
      BY <2>1, <3>2
  <2>6. Grows(closed, e)
    BY <2>4, <2>5, GrowsSame
  <2>7. Grows(d, e)
    BY <1>1, <2>3, <2>4, <2>5, <2>6, GrowsTransitive DEF Good
  <2>8. AllClosed(d, e)
    BY <1>1, <2>2, <2>4, <2>5
       DEF AllClosed, Good, ClosedInOrder, ClosesOnly, CountsOrCloses, last
  <2> QED
    BY <2>4, <2>5, <2>7, <2>8 DEF e
<1> QED
  BY <1>2, <1>3

(***************************************************************************)
(* The specification keeps it.                                             *)
(***************************************************************************)

\* As many sessions are folded as the summary counts, and a waiting fold is
\* about the next batch.
Inv ==
  /\ turns \in Seq(Turn)
  /\ ingest \in [Ingesters -> Stages]
  /\ run \in Nat
  /\ Good(db, turns, db.persistent.count, db.persistent.count)

\* What one step does to the tables.
FoldsNext ==
  /\ SameOpen(db, db')
  /\ db'.persistent.count = db.persistent.count + SessionsPerSummary
  /\ \A i \in (db.persistent.count + 1)
               ..(db.persistent.count + SessionsPerSummary) :
       i \in DOMAIN db.sessions /\ db.sessions[i].finalized

TablesStep ==
  /\ Grows(db, db')
  /\ \/ /\ OpensInOrder(db, db')
        /\ db'.persistent.count = db.persistent.count
     \/ FoldsNext

\* An empty database, and no process.
LEMMA InvInitially ==
  ASSUME Init PROVE Inv
<1>1. /\ db.sessions = << >> /\ db.jobs = << >>
      /\ db.persistent = [summary |-> {}, count |-> 0, first |-> 0, last |-> 0]
      /\ db = [sessions |-> db.sessions, persistent |-> db.persistent,
               jobs |-> db.jobs]
  BY DEF Init
<1>2. db \in DbType
  <2>1. db.persistent \in Persistent
    BY <1>1 DEF Persistent, TurnIds
  <2>2. db.sessions \in Seq(Session) /\ db.jobs \in Seq(Jobs)
    BY <1>1
  <2> QED
    BY <1>1, <2>1, <2>2 DEF DbType
<1>3. db.persistent.count = 0 /\ DOMAIN db.sessions = {} /\ DOMAIN db.jobs = {}
      /\ Len(db.sessions) = 0
  BY <1>1
<1>4. NewestOnly(db.jobs) /\ JobsWellFormed(db) /\ ClosedInOrder(db)
      /\ FoldedUpTo(db, 0)
  BY <1>3 DEF NewestOnly, JobsWellFormed, ClosedInOrder, FoldedUpTo
<1>5. Pending(db.jobs) = {}
  BY <1>3 DEF Pending
<1>6. BatchNear(db, 0, 0) /\ CoveredIsOwn(db, turns)
      /\ SessionJobsAhead(db, turns) /\ SummaryJobsAhead(db)
  BY <1>3, <1>5 DEF BatchNear, CoveredIsOwn, SessionJobsAhead, SummaryJobsAhead
<1>7. turns \in Seq(Turn) /\ run \in Nat
      /\ ingest \in [Ingesters -> Stages]
  BY DEF Init, Stages
<1> QED
  BY <1>2, <1>3, <1>4, <1>6, <1>7 DEF Inv, Good

\* An answer.
LEMMA SubmitStep ==
  ASSUME Inv, NEW j \in DOMAIN db.jobs, Submit(j)
  PROVE  Inv' /\ TablesStep
<1> DEFINE c == db.persistent.count
<1>1. /\ Good(db, turns, c, c) /\ turns \in Seq(Turn) /\ turns' = turns
      /\ ingest' = ingest /\ run' = run
      /\ ingest \in [Ingesters -> Stages]
      /\ run \in Nat
  BY DEF Inv, Submit
<1>2. db \in DbType /\ c \in Nat
  <2>1. db \in DbType /\ db.persistent \in Persistent
    BY <1>1, DbFields DEF Good
  <2> QED
    BY <2>1 DEF Persistent
<1> HIDE DEF c
<1>3. CASE j \notin Pending(db.jobs)
  <2>1. db' = db
    BY <1>3 DEF Submit
  <2>2. Grows(db, db') /\ SameOpen(db, db')
    BY <1>2, <2>1, GrowsSame DEF SameOpen
  <2> QED
    BY <1>1, <2>1, <2>2 DEF Inv, TablesStep, OpensInOrder, c
<1>4. CASE j \in Pending(db.jobs) /\ db.jobs[j].kind = "session"
  <2>1. db' = ApplySession(db, j)
    BY <1>4 DEF Submit
  <2>2. /\ Good(db', turns, c, c) /\ Grows(db, db') /\ SameOpen(db, db')
        /\ db'.persistent = db.persistent
    <3> DEFINE e == ApplySession(db, j)
    <3>1. c <= c
      BY <1>2
    <3>2. /\ Good(e, turns, c, c) /\ Grows(db, e) /\ SameOpen(db, e)
          /\ e.persistent = db.persistent
      BY <1>1, <1>2, <1>4, <3>1, ApplySessionGood
    <3> QED
      BY <2>1, <3>2
  <2> QED
    BY <1>1, <2>2 DEF Inv, TablesStep, OpensInOrder, c
<1>5. CASE j \in Pending(db.jobs) /\ db.jobs[j].kind # "session"
  <2>1. db' = ApplySummary(db, j)
    BY <1>5 DEF Submit
  <2>2. db.jobs[j].kind = "summary"
    BY <1>2, <1>5, DbFields
  <2>3. PICK a \in c..c :
          /\ c <= a + SessionsPerSummary
          /\ a + SessionsPerSummary \in DOMAIN db.sessions
          /\ db.sessions[a + SessionsPerSummary].finalized
          /\ db.jobs[j].body.items = (a + 1)..(a + SessionsPerSummary)
    BY <1>1, <1>5, <2>2 DEF Good, BatchNear
  <2>4. a = c
    BY <1>2, <2>3
  <2> DEFINE n == c + SessionsPerSummary
  <2>5. /\ Good(db', turns, n, n) /\ Grows(db, db') /\ SameOpen(db, db')
        /\ db'.persistent.count = db.persistent.count + SessionsPerSummary
    <3> DEFINE e == ApplySummary(db, j)
               k == a + SessionsPerSummary
    <3>1. Good(db, turns, c, c) /\ c \in Nat /\ turns \in Seq(Turn)
          /\ j \in Pending(db.jobs) /\ db.jobs[j].kind = "summary"
          /\ a \in c..c /\ c <= a + SessionsPerSummary
          /\ db.jobs[j].body.items = (a + 1)..(a + SessionsPerSummary)
      BY <1>1, <1>2, <1>5, <2>2, <2>3
    <3>2. /\ Good(e, turns, k, k) /\ Grows(db, e) /\ SameOpen(db, e)
          /\ e.persistent.count = db.persistent.count + SessionsPerSummary
      BY <3>1, ApplySummaryGood
    <3> HIDE DEF e
    <3>3. k = n
      BY <2>4
    <3> QED
      BY <2>1, <3>2, <3>3 DEF e
  <2>6. \A i \in (c + 1)..n : i \in DOMAIN db.sessions /\ db.sessions[i].finalized
    <3>1. n \in DOMAIN db.sessions /\ db.sessions[n].finalized
      BY <2>3, <2>4
    <3>2. SessionsPerSummary \in Nat /\ Len(db.sessions) \in Nat
          /\ DOMAIN db.sessions = 1..Len(db.sessions)
      BY <1>2, DbFields, DiaryConfigAssumption
    <3>3. \A i \in (c + 1)..n : i \in DOMAIN db.sessions
                                /\ (i = n \/ i < Len(db.sessions))
      BY <1>2, <3>1, <3>2
    <3> HIDE DEF n
    <3> QED
      BY <1>1, <3>1, <3>3 DEF Good, ClosedInOrder, LastSeq
  <2>7. FoldsNext
    BY <2>5, <2>6 DEF FoldsNext, c
  <2>8. Good(db', turns', db'.persistent.count, db'.persistent.count)
    BY <1>1, <2>5 DEF c
  <2> QED
    BY <1>1, <2>5, <2>7, <2>8 DEF Inv, TablesStep
<1> QED
  BY <1>3, <1>4, <1>5

\* Every other action leaves the summary's count.
LEMMA TablesOrTurnsStep ==
  ASSUME Inv,
         turns' \in Seq(Turn), run' \in Nat,
         ingest' \in [Ingesters -> Stages],
         Good(db', turns', db.persistent.count, db.persistent.count),
         Grows(db, db'), OpensInOrder(db, db'),
         db'.persistent = db.persistent
  PROVE  Inv' /\ TablesStep
<1>1. db'.persistent.count = db.persistent.count
  OBVIOUS
<1>2. Inv'
  BY <1>1 DEF Inv
<1> QED
  BY <1>1, <1>2 DEF TablesStep

\* Every step of the threads, the host and the runs preserves the invariant.
LEMMA InvStep ==
  ASSUME Inv, [Next]_vars
  PROVE  Inv' /\ TablesStep
<1> DEFINE c == db.persistent.count
<1>1. /\ Good(db, turns, c, c) /\ turns \in Seq(Turn) /\ run \in Nat
      /\ ingest \in [Ingesters -> Stages]
  BY DEF Inv
<1>2. db \in DbType /\ c \in Nat
  <2>1. db \in DbType /\ db.persistent \in Persistent
    BY <1>1, DbFields DEF Good
  <2> QED
    BY <2>1 DEF Persistent
<1> HIDE DEF c
<1>3. Grows(db, db) /\ OpensInOrder(db, db)
  BY <1>2, GrowsSame DEF OpensInOrder, SameOpen
<1>4. ASSUME NEW w \in Ingesters, NEW role \in {"user", "assistant"},
             LogTurn(w, role)
      PROVE  Inv' /\ TablesStep
  <2>1. /\ turns' = Append(turns, [session |-> run, role |-> role])
        /\ db' = db /\ run' = run
        /\ ingest' = [ingest EXCEPT ![w] = role]
    BY <1>4 DEF LogTurn
  <2>2. [session |-> run, role |-> role] \in Turn
    BY <1>1 DEF Turn
  <2>3. Good(db', turns', c, c)
    BY <1>1, <2>1, <2>2, LogKeepsGood
  <2>4. turns' \in Seq(Turn)
    BY <1>1, <2>1, <2>2
  <2>5. ingest' \in [Ingesters -> Stages] /\ run' \in Nat
    BY <1>1, <2>1 DEF Stages
  <2>6. /\ Grows(db, db') /\ OpensInOrder(db, db')
        /\ db'.persistent = db.persistent
    BY <1>3, <2>1
  <2> QED
    BY <2>3, <2>4, <2>5, <2>6, TablesOrTurnsStep DEF c
<1>5. ASSUME NEW w \in Ingesters, Tick(w)
      PROVE  Inv' /\ TablesStep
  <2>1. /\ db' = OnInteraction(db, turns, run)
        /\ ingest' = [ingest EXCEPT ![w] = "idle"]
        /\ turns' = turns /\ run' = run
    BY <1>5 DEF Tick
  <2>2. /\ Good(db', turns, c, c) /\ Grows(db, db')
        /\ db'.persistent = db.persistent /\ OpensInOrder(db, db')
    <3> DEFINE e == OnInteraction(db, turns, run)
    <3>1. c <= c
      BY <1>2
    <3>2. /\ Good(e, turns, c, c) /\ Grows(db, e)
          /\ e.persistent = db.persistent /\ OpensInOrder(db, e)
      BY <1>1, <1>2, <3>1, TickGood
    <3> QED
      BY <2>1, <3>2
  <2>3. /\ ingest' \in [Ingesters -> Stages]
        /\ run' \in Nat /\ turns' \in Seq(Turn)
        /\ Good(db', turns', c, c)
    BY <1>1, <2>1, <2>2 DEF Stages
  <2> QED
    BY <2>2, <2>3, TablesOrTurnsStep DEF c
<1>6. ASSUME Reopen
      PROVE  Inv' /\ TablesStep
  <2>1. /\ db' = FinalizeLast(db, turns) /\ run' = run + 1
        /\ turns' = turns /\ ingest' = ingest
    BY <1>6 DEF Reopen
  <2>2. /\ Good(db', turns, c, c) /\ Grows(db, db')
        /\ db'.persistent = db.persistent
        /\ SameOpen(db, db') \/ AllClosed(db, db')
    BY <1>1, <1>2, <2>1, CloseGood
  <2>3. OpensInOrder(db, db')
    BY <2>2 DEF OpensInOrder
  <2>4. /\ ingest' \in [Ingesters -> Stages]
        /\ run' \in Nat /\ turns' \in Seq(Turn)
        /\ Good(db', turns', c, c)
    BY <1>1, <2>1, <2>2
  <2> QED
    BY <2>2, <2>3, <2>4, TablesOrTurnsStep DEF c
<1>7. ASSUME Crash
      PROVE  Inv' /\ TablesStep
  <2>1. /\ ingest' = [w \in Ingesters |-> "idle"] /\ run' = run + 1
        /\ turns' = turns /\ db' = db
    BY <1>7 DEF Crash
  <2>2. /\ ingest' \in [Ingesters -> Stages]
        /\ run' \in Nat /\ turns' \in Seq(Turn)
        /\ Good(db', turns', c, c)
        /\ Grows(db, db') /\ OpensInOrder(db, db')
        /\ db'.persistent = db.persistent
    BY <1>1, <1>3, <2>1 DEF Stages
  <2> QED
    BY <2>2, TablesOrTurnsStep DEF c
<1>8. ASSUME NEW w \in Ingesters, EpisodicFails(w)
      PROVE  Inv' /\ TablesStep
  <2>1. /\ turns' = turns /\ run' = run /\ db' = db
        /\ ingest' = [ingest EXCEPT ![w] = "failed"]
    BY <1>8 DEF EpisodicFails
  <2>2. /\ ingest' \in [Ingesters -> Stages]
        /\ run' \in Nat /\ turns' \in Seq(Turn)
        /\ Good(db', turns', c, c)
        /\ Grows(db, db') /\ OpensInOrder(db, db')
        /\ db'.persistent = db.persistent
    BY <1>1, <1>3, <2>1 DEF Stages
  <2> QED
    BY <2>2, TablesOrTurnsStep DEF c
<1>9. CASE UNCHANGED vars
  <2>1. turns' = turns /\ ingest' = ingest /\ run' = run /\ db' = db
    BY <1>9 DEF vars
  <2> QED
    BY <1>1, <1>3, <2>1, TablesOrTurnsStep DEF c
<1> QED
  BY <1>4, <1>5, <1>6, <1>7, <1>8, <1>9, SubmitStep
     DEF Next, LogUser, LogAssistant

\* The invariant holds of every behaviour.
THEOREM Invariance == Spec => []Inv
<1>1. Init => Inv
  BY InvInitially
<1>2. Inv /\ [Next]_vars => Inv'
  BY InvStep
<1> QED
  BY <1>1, <1>2, PTL DEF Spec

(***************************************************************************)
(* The theorems.                                                           *)
(***************************************************************************)

\* The tables, the turns and the threads keep their types.
THEOREM TypeCorrect == Spec => []TypeOK
<1>1. Inv => TypeOK
  BY DEF Inv, Good, DbType, Jobs, TypeOK
<1> QED
  BY <1>1, Invariance, PTL

\* Every session but the newest is closed, also after a run that died.
THEOREM OlderAreClosed == Spec => []OnlyNewestIsOpen
<1>1. Inv => OnlyNewestIsOpen
  BY DEF Inv, Good, ClosedInOrder, OnlyNewestIsOpen
<1> QED
  BY <1>1, Invariance, PTL

\* The folded sessions are the oldest ones, as many as the summary counts.
THEOREM FoldsInOrder == Spec => []FoldedPrefix
<1>1. Inv => FoldedPrefix
  BY DEF Inv, Good, FoldedUpTo, FoldedPrefix
<1> QED
  BY <1>1, Invariance, PTL

\* A waiting fold is about the next batch, whole and closed.
THEOREM WaitingFoldIsNext == Spec => []FoldBatchIsNext
<1>1. ASSUME Inv PROVE FoldBatchIsNext
  <2> DEFINE c == db.persistent.count
             k == SessionsPerSummary
  <2> SUFFICES ASSUME NEW j \in PendingOne(db.jobs, "summary", SummaryTarget)
               PROVE  /\ db.jobs[j].body.items = (c + 1)..(c + k)
                      /\ \A i \in db.jobs[j].body.items :
                           /\ i \in DOMAIN db.sessions
                           /\ db.sessions[i].finalized
    BY DEF FoldBatchIsNext
  <2>1. Good(db, turns, c, c)
    BY <1>1 DEF Inv
  <2>2. /\ db \in DbType /\ c \in Nat /\ k \in Nat
        /\ Len(db.sessions) \in Nat
        /\ DOMAIN db.sessions = 1..Len(db.sessions)
    <3>1. db \in DbType /\ c \in 0..Len(db.sessions)
      BY <2>1 DEF Good, FoldedUpTo
    <3> QED
      BY <3>1, DbFields, DiaryConfigAssumption
  <2> HIDE DEF c, k
  <2>3. PICK a \in c..c :
          /\ a + k \in DOMAIN db.sessions
          /\ db.sessions[a + k].finalized
          /\ db.jobs[j].body.items = (a + 1)..(a + k)
    BY <2>1 DEF Good, BatchNear, PendingOne, k
  <2>4. a = c
    BY <2>2, <2>3
  <2>5. \A i \in (c + 1)..(c + k) : i \in DOMAIN db.sessions
                                    /\ (i = c + k \/ i < Len(db.sessions))
    BY <2>2, <2>3, <2>4
  <2>6. \A i \in (c + 1)..(c + k) : db.sessions[i].finalized
    BY <2>1, <2>3, <2>4, <2>5 DEF Good, ClosedInOrder, LastSeq
  <2> QED
    BY <2>3, <2>4, <2>5, <2>6
<1>2. Inv => FoldBatchIsNext
  BY <1>1
<1> QED
  BY <1>2, Invariance, PTL

\* No step takes back what a session summary reflects or how far it goes,
\* whatever the order in which answers arrive.
THEOREM SessionsNeverShrink == Spec => SessionsOnlyGrow
<1> DEFINE Step == \A i \in DOMAIN db.sessions :
                     /\ db.sessions[i].covered <= db'.sessions[i].covered
                     /\ db.sessions[i].summary \subseteq db'.sessions[i].summary
<1>1. Inv /\ [Next]_vars => [Step]_vars
  BY InvStep DEF TablesStep, Grows
<1> QED
  BY <1>1, Invariance, PTL DEF Spec, SessionsOnlyGrow

\* Nor what the persistent summary reflects: a fold is told of all of it, and
\* no other fold can land between.
THEOREM PersistentNeverShrinks == Spec => PersistentOnlyGrows
<1>1. Inv /\ [Next]_vars
        => [db.persistent.summary \subseteq db'.persistent.summary]_vars
  BY InvStep DEF TablesStep, Grows
<1> QED
  BY <1>1, Invariance, PTL DEF Spec, PersistentOnlyGrows

(***************************************************************************)
(* The diary implements Archive.                                           *)
(***************************************************************************)

Closed == {i \in DOMAIN db.sessions : db.sessions[i].finalized}

FoldedSet == {i \in DOMAIN db.sessions : db.sessions[i].folded}

\* What the mapping of a state shows.
LEMMA MappedState ==
  ASSUME Inv
  PROVE  /\ db.persistent.count \in Nat
         /\ db.persistent.count <= LastSeq(db)
         /\ LastSeq(db) \in Nat
         /\ DOMAIN db.sessions = 1..LastSeq(db)
         /\ FoldedSet = 1..db.persistent.count
         /\ Cardinality(FoldedSet) = db.persistent.count
<1> DEFINE c == db.persistent.count
<1>1. db \in DbType /\ FoldedUpTo(db, c)
  BY DEF Inv, Good
<1>2. /\ LastSeq(db) \in Nat /\ DOMAIN db.sessions = 1..LastSeq(db)
      /\ c \in 0..LastSeq(db)
  BY <1>1, DbFields DEF FoldedUpTo, LastSeq
<1> HIDE DEF c
<1>3. FoldedSet = 1..c
  BY <1>1, <1>2 DEF FoldedSet, FoldedUpTo
<1>4. Cardinality(1..c) = c
  <2>1. 1 \in Int /\ c \in Int
    BY <1>2
  <2>2. Cardinality(1..c) = IF 1 > c THEN 0 ELSE c - 1 + 1
    BY <2>1, FS_Interval
  <2> QED
    BY <1>2, <2>2
<1> QED
  BY <1>2, <1>3, <1>4 DEF c

\* Seen as sessions that open, close and fold, the diary takes only the steps
\* that Archive allows.
THEOREM Implements == Spec => ImplementsArchive
<1>1. Init => Sessions!ArchiveInit
  <2> SUFFICES ASSUME Init PROVE Sessions!ArchiveInit
    OBVIOUS
  <2>1. Len(db.sessions) = 0 /\ DOMAIN db.sessions = {}
    BY DEF Init
  <2> QED
    BY <2>1 DEF Sessions!ArchiveInit, LastSeq
<1>2. Inv /\ [Next]_vars => [Sessions!ArchiveNext]_(Sessions!archiveVars)
  <2> SUFFICES ASSUME Inv, [Next]_vars
               PROVE  Sessions!ArchiveNext \/ UNCHANGED Sessions!archiveVars
    OBVIOUS
  <2> DEFINE c == db.persistent.count
             n == LastSeq(db)
             k == SessionsPerSummary
  <2>0. Inv' /\ TablesStep
    BY InvStep
  <2>1. /\ c \in Nat /\ c <= n /\ n \in Nat
        /\ DOMAIN db.sessions = 1..n
        /\ FoldedSet = 1..c /\ Cardinality(FoldedSet) = c
    BY MappedState
  <2>2. /\ c' \in Nat /\ n' \in Nat
        /\ DOMAIN db'.sessions = 1..n'
        /\ FoldedSet' = 1..c'
    <3>1. (/\ db.persistent.count \in Nat
           /\ LastSeq(db) \in Nat
           /\ DOMAIN db.sessions = 1..LastSeq(db)
           /\ FoldedSet = 1..db.persistent.count)'
      BY <2>0, MappedState, PTL
    <3> QED
      BY <3>1
  <2>3. n' = Len(db'.sessions) /\ n = Len(db.sessions)
    BY DEF LastSeq
  <2>4. CASE SameOpen(db, db') /\ c' = c
    <3>1. n' = n /\ Closed' = Closed /\ FoldedSet' = FoldedSet
      BY <2>1, <2>2, <2>3, <2>4 DEF SameOpen, Closed
    <3> QED
      BY <3>1 DEF Sessions!archiveVars, Closed, FoldedSet
  <2>5. CASE AllClosed(db, db') /\ c' = c
    <3>1. n' = n /\ Closed' = 1..n /\ FoldedSet' = FoldedSet
      BY <2>1, <2>2, <2>3, <2>5 DEF AllClosed, Closed
    <3>2. Sessions!CloseNewest
      BY <3>1 DEF Sessions!CloseNewest, Closed, FoldedSet
    <3> QED
      BY <3>2 DEF Sessions!ArchiveNext
  <2>6. CASE OneOpened(db, db') /\ c' = c
    <3>1. n' = n + 1 /\ FoldedSet' = FoldedSet
      BY <2>1, <2>2, <2>3, <2>6 DEF OneOpened
    <3>2. /\ \A i \in 1..n : db'.sessions[i].finalized
          /\ ~db'.sessions[n + 1].finalized
      BY <2>1, <2>3, <2>6 DEF OneOpened
    <3>3. \A i : i \in Closed' <=> i \in 1..n
      <4>1. Closed' = {i \in 1..(n + 1) : db'.sessions[i].finalized}
        BY <2>2, <3>1 DEF Closed
      <4>2. \A i \in 1..(n + 1) : i \in 1..n \/ i = n + 1
        BY <2>1
      <4>3. \A i \in 1..n : i \in 1..(n + 1)
        BY <2>1
      <4> QED
        BY <3>2, <4>1, <4>2, <4>3
    <3>4. Closed' = 1..n
      BY <3>3
    <3>5. Sessions!OpenNext
      BY <3>1, <3>4 DEF Sessions!OpenNext, Closed, FoldedSet
    <3> QED
      BY <3>5 DEF Sessions!ArchiveNext
  <2>7. CASE FoldsNext
    <3>1. n' = n /\ Closed' = Closed
      BY <2>1, <2>2, <2>3, <2>7 DEF FoldsNext, SameOpen, Closed
    <3>2. c' = c + k /\ k \in Nat
      BY <2>7, DiaryConfigAssumption DEF FoldsNext
    <3>3. FoldedSet' = FoldedSet \cup ((c + 1)..(c + k))
      <4> HIDE DEF c, k
      <4> QED
        BY <2>1, <2>2, <3>2
    <3>4. (c + 1)..(c + k) \subseteq Closed
      BY <2>7 DEF FoldsNext, Closed
    <3>5. Sessions!NextBatch = (c + 1)..(c + k)
      <4>1. Sessions!Cardinality(FoldedSet) = Cardinality(FoldedSet)
        BY DEF Sessions!Cardinality, Cardinality, Sessions!IsFiniteSet, IsFiniteSet
      <4> QED
        BY <2>1, <4>1 DEF Sessions!NextBatch, FoldedSet
    <3>6. Sessions!FoldNext
      BY <3>1, <3>3, <3>4, <3>5 DEF Sessions!FoldNext, Closed, FoldedSet
    <3> QED
      BY <3>6 DEF Sessions!ArchiveNext
  <2> QED
    BY <2>0, <2>4, <2>5, <2>6, <2>7 DEF TablesStep, OpensInOrder
<1> QED
  BY <1>1, <1>2, Invariance, PTL DEF Spec, ImplementsArchive, Sessions!ArchiveSpec

(***************************************************************************)
(* No turn is lost: the second invariant, layered on the first.            *)
(*                                                                         *)
(* A job advances a session's covered_through to the newest turn logged,   *)
(* and the next window starts after it, so nothing is lost only if no      *)
(* later window drops a turn that was not sent yet.  A window drops its    *)
(* leading row if that is the assistant's, which it may when the user's    *)
(* row before it was the last one covered.  So covered_through must never  *)
(* stop between the two rows of an interaction, and for that one thing is  *)
(* needed of the application: one pipeline thread at a time.  With two,    *)
(* one thread's tick may come between the rows of the other's.  It may     *)
(* stop at a user's row whose answer failed to be logged, or whose run     *)
(* died: no answer to it can be logged any more.                           *)
(***************************************************************************)
OneThread == \A v, w \in Ingesters : v = w

\* covered_through may stop at turn c: no answer to turn c is logged behind it.
EndsWhole(t, c) ==
  c \in DOMAIN t /\ (c + 1 \in DOMAIN t => t[c + 1].role = "user")

\* An assistant's row comes right after the user's row it answers.
TurnsPaired(t, r) ==
  \A n \in DOMAIN t :
    /\ t[n].session <= r
    /\ t[n].role = "assistant" =>
         /\ n - 1 \in DOMAIN t
         /\ t[n - 1].session = t[n].session
         /\ t[n - 1].role = "user"

\* A summary, or what its writer is told of, leaves out no turn up to c.
Reflects(t, sid, c, text) == \A n \in OwnTurns(t, sid) : n <= c => n \in text

RowWhole(row, t, r) ==
  /\ row.sid <= r
  /\ row.covered = 0 \/ EndsWhole(t, row.covered)
  /\ Reflects(t, row.sid, row.covered, row.summary)

JobWhole(body, sid, t) ==
  /\ EndsWhole(t, body.advance)
  /\ Reflects(t, sid, body.advance, body.input)

SessionJobs(d) == {j \in Pending(d.jobs) : d.jobs[j].kind = "session"}

\* Every turn of session i is covered, or will be by the answer that waits.
Accounted(d, t, i) ==
  \A n \in OwnTurns(t, d.sessions[i].sid) :
    \/ n <= d.sessions[i].covered
    \/ \E j \in SessionJobs(d) :
         d.jobs[j].target = i /\ n <= d.jobs[j].body.advance

\* A closed session belongs to an earlier run and is accounted for.  Between
\* the commit that closes session x and the one that enqueues its last job, x
\* is excepted; there is no session 0.
ClosedWhole(d, t, r, x) ==
  \A i \in DOMAIN d.sessions \ {x} :
    d.sessions[i].finalized => d.sessions[i].sid < r /\ Accounted(d, t, i)

Whole(d, t, r, x) ==
  /\ TurnsPaired(t, r)
  /\ \A i \in DOMAIN d.sessions : RowWhole(d.sessions[i], t, r)
  /\ \A j \in SessionJobs(d) :
       JobWhole(d.jobs[j].body, d.sessions[d.jobs[j].target].sid, t)
  /\ ClosedWhole(d, t, r, x)

\* No summary ends at turn n, nor does one that is waited for.
Unsent(d, n) ==
  /\ \A i \in DOMAIN d.sessions : d.sessions[i].covered # n
  /\ \A j \in SessionJobs(d) : d.jobs[j].body.advance # n

\* The rows a session's window can miss are those already covered, and a
\* session with turns never has an empty window.
LEMMA WindowMissesNothingNew ==
  ASSUME NEW t \in Seq(Turn), NEW r \in Nat, TurnsPaired(t, r),
         NEW sid \in Nat, NEW c \in Nat,
         c = 0 \/ (c \in OwnTurns(t, sid) /\ EndsWhole(t, c))
  PROVE  LET own == OwnTurns(t, sid)
             window == RecentTurns(t, sid, c)
         IN /\ \A n \in own : n > c => n \in window
            /\ own # {} => window # {}
<1> DEFINE own == OwnTurns(t, sid)
           window == RecentTurns(t, sid, c)
           floor == Max(own) - DiaryWindow * RowsPerTurn + 1
           low == Lower(c, floor)
           wide == {n \in own : n >= low}
<1> SUFFICES ASSUME own # {}
             PROVE  window # {} /\ \A n \in own : n > c => n \in window
  OBVIOUS
<1>1. own \in SUBSET DOMAIN t /\ DOMAIN t \in SUBSET Nat
      /\ \A n \in DOMAIN t : n >= 1
  BY DEF OwnTurns
<1>2. window = IF t[Min(wide)].role = "assistant" THEN wide \ {Min(wide)}
               ELSE wide
  BY DEF RecentTurns
<1>3. Max(own) \in own /\ Max(own) \in Nat /\ \A n \in own : n <= Max(own)
  <2> HIDE DEF own
  <2> QED
    BY <1>1, NewestTurn
<1>4. floor \in Int /\ floor < Max(own)
  BY <1>3, DiaryConfigAssumption DEF RowsPerTurn
<1> HIDE DEF floor
<1>5. low \in Int /\ low <= c + 1 /\ low < Max(own)
  BY <1>3, <1>4 DEF Lower
<1>6. wide \in SUBSET Nat /\ Max(own) \in wide
  BY <1>1, <1>3, <1>5
<1>7. Min(wide) \in wide /\ Min(wide) \in Nat
  <2> HIDE DEF wide
  <2> QED
    BY <1>6, MinProperty
<1> DEFINE m == Min(wide)
<1>8. m \in own /\ m \in Nat
  BY <1>7
<1>9. \A n \in wide : m <= n
  <2> HIDE DEF wide
  <2> QED
    BY <1>6, MinProperty
<1> HIDE DEF m, low
<1>10. ASSUME t[m].role = "assistant"
       PROVE  /\ m - 1 \in own /\ m - 1 < low
              /\ t[m - 1].role = "user"
  <2>1. m \in DOMAIN t /\ t[m].session = sid
    BY <1>8 DEF OwnTurns
  <2>2. /\ m - 1 \in DOMAIN t
        /\ t[m - 1].session = t[m].session
        /\ t[m - 1].role = "user"
    BY <1>10, <2>1 DEF TurnsPaired
  <2>3. m - 1 \in own
    BY <2>1, <2>2 DEF OwnTurns
  <2>4. m - 1 \notin wide
    BY <1>8, <1>9
  <2>5. m - 1 \in Nat
    BY <1>1, <2>2
  <2> QED
    BY <1>5, <2>2, <2>3, <2>4, <2>5
<1>11. ASSUME t[m].role = "assistant"
       PROVE  m <= c /\ m # Max(own)
  <2>1. m - 1 \in own /\ m - 1 < low /\ t[m - 1].role = "user"
    BY <1>10, <1>11
  <2>2. m - 1 \in Nat /\ m - 1 >= 1
    BY <1>1, <2>1
  <2>3. m - 1 <= c
    BY <1>5, <1>8, <2>1
  <2>4. m # Max(own)
    <3>1. floor <= Max(own) - 1
      BY <1>3, <1>4
    <3>2. low <= Max(own) - 1
      BY <1>3, <1>4, <3>1 DEF low, Lower
    <3> QED
      BY <1>3, <1>5, <1>8, <2>1, <3>2
  <2>5. m - 1 # c
    <3> SUFFICES ASSUME m - 1 = c PROVE FALSE
      OBVIOUS
    <3>1. c # 0 /\ c + 1 = m
      BY <1>8, <2>2
    <3>2. EndsWhole(t, c) /\ m \in DOMAIN t
      BY <1>1, <1>8, <3>1
    <3> QED
      BY <1>11, <3>1, <3>2 DEF EndsWhole
  <2> QED
    BY <1>8, <2>2, <2>3, <2>4, <2>5
<1>12. \A n \in own : n > c => n \in wide
  BY <1>1, <1>5
<1> HIDE DEF own, window, wide
<1>13. \A n \in own : n > c => n \in window
  <2>1. \A n \in own : n \in Nat
    BY <1>1
  <2> QED
    BY <1>2, <1>8, <1>11, <1>12, <2>1 DEF m
<1>14. Max(own) \in window
  BY <1>2, <1>6, <1>11 DEF m
<1> QED
  BY <1>13, <1>14

\* What _enqueue_session sends of session i is whole, and reaches the newest
\* turn; with force, session i is accounted for afterwards.
LEMMA EnqueueSessionWhole ==
  ASSUME NEW t \in Seq(Turn), NEW r \in Nat, NEW d, NEW lo, NEW f,
         Good(d, t, lo, f), NEW i \in DOMAIN d.sessions,
         NEW force \in BOOLEAN, NEW x, Whole(d, t, r, x),
         x = 0 \/ (x = i /\ force /\ d.sessions[i].sid < r)
  PROVE  Whole(EnqueueSession(d, t, i, force), t, r, 0)
<1> DEFINE e == EnqueueSession(d, t, i, force)
           row == d.sessions[i]
           own == OwnTurns(t, row.sid)
           window == RecentTurns(t, row.sid, row.covered)
           body == SessionBody(row, window)
           new == EnqueueJob(d.jobs, "session", i, body)
<1>1. /\ d \in DbType /\ row \in Session /\ i \in Nat /\ i # 0
      /\ row.sid \in Nat /\ row.covered \in Nat /\ d.jobs \in Seq(Jobs)
      /\ DOMAIN d.sessions = 1..Len(d.sessions)
  BY DbFields DEF Good
<1>2. /\ TurnsPaired(t, r) /\ RowWhole(row, t, r)
      /\ ClosedWhole(d, t, r, x)
  BY DEF Whole
<1>3. row.covered = 0 \/ row.covered \in own
  BY DEF Good, CoveredIsOwn
<1>4. /\ \A n \in own : n > row.covered => n \in window
      /\ own # {} => window # {}
  <2> HIDE DEF row
  <2> QED
    BY <1>1, <1>2, <1>3, WindowMissesNothingNew DEF RowWhole
<1>5. /\ window \in SUBSET own
      /\ window # {} => /\ Max(window) \in own /\ Max(window) = Max(own)
                        /\ \A n \in own : n <= Max(window)
  <2> HIDE DEF row
  <2> QED
    BY <1>1, WindowReachesNewest
<1>6. own \in SUBSET Nat /\ \A n \in own : n \in DOMAIN t /\ t[n].session = row.sid
  BY DEF OwnTurns
<1>7. e = IF Skipped(row, window, force) THEN d ELSE [d EXCEPT !.jobs = new]
  BY DEF EnqueueSession
<1>8. ASSUME window = {} \/ (~force /\ Max(window) = row.covered)
      PROVE  Accounted(d, t, i)
  <2> HIDE DEF window
  <2>1. \A n \in own : n <= row.covered
    BY <1>4, <1>5, <1>8
  <2> QED
    BY <2>1 DEF Accounted
<1>9. CASE Skipped(row, window, force)
  <2>1. e = d
    BY <1>7, <1>9
  <2>2. x # 0 => Accounted(d, t, i)
    BY <1>8, <1>9 DEF Skipped
  <2>3. ClosedWhole(d, t, r, 0)
    BY <1>1, <1>2, <2>2 DEF ClosedWhole
  <2> QED
    BY <2>1, <2>3 DEF Whole
<1>10. CASE ~Skipped(row, window, force)
  <2>1. window # {} /\ e = [d EXCEPT !.jobs = new]
    BY <1>7, <1>10 DEF Skipped
  <2>2. /\ body.advance = Max(window)
        /\ body.input = row.summary \cup window
    BY DEF SessionBody
  <2>3. body \in Body
    <3>1. row.summary \in SUBSET Nat
      BY <1>1 DEF Session, TurnIds
    <3> HIDE DEF row, window, own
    <3> QED
      BY <1>5, <1>6, <2>1, <3>1 DEF SessionBody, Body, TurnIds
  <2> HIDE DEF body
  <2>4. EnqueueEffect(d.jobs, new, "session", i, body)
    BY <1>1, <2>3, EnqueueWaiting DEF Jobs
  <2>5. /\ NewJob("session", i, body).kind = "session"
        /\ NewJob("session", i, body).target = i
        /\ NewJob("session", i, body).body = body
    BY DEF NewJob
  <2>6. EnqueueLeaves(d.jobs, new, "session", i, body)
    BY <1>1, <2>3, EnqueueLeavesWaiting DEF Jobs
  <2>7. PICK k \in Pending(new) : /\ new[k].kind = "session"
                                  /\ new[k].target = i
                                  /\ new[k].body = body
    BY <2>5, <2>6 DEF EnqueueLeaves
  <2> HIDE DEF new
  <2>8. e.sessions = d.sessions /\ e.jobs = new
    BY <1>1, <2>1 DEF DbType
  <2> HIDE DEF e
  <2>9. JobWhole(body, row.sid, t)
    <3>1. EndsWhole(t, body.advance)
      <4>1. body.advance = Max(own) /\ body.advance \in own
            /\ own # {} /\ \A n \in own : n <= body.advance
        <5> HIDE DEF own, window
        <5> QED
          BY <1>5, <2>1, <2>2
      <4> DEFINE c == body.advance
      <4>2. /\ c \in DOMAIN t /\ c \in Nat /\ t[c].session = row.sid
            /\ \A n \in own : n <= c
        BY <1>6, <4>1
      <4> HIDE DEF c
      <4> DEFINE m == c + 1
      <4>3. SUFFICES ASSUME m \in DOMAIN t, t[m].role # "user"
                     PROVE  FALSE
        BY <4>2 DEF EndsWhole, c
      <4>4. m - 1 = c /\ ~(m <= c)
        BY <4>2
      <4> HIDE DEF m
      <4>5. t[m].role = "assistant"
        <5>1. t[m] \in Turn
          BY <4>3
        <5> QED
          BY <4>3, <5>1 DEF Turn
      <4>6. t[c].session = t[m].session
        BY <1>2, <4>3, <4>4, <4>5 DEF TurnsPaired
      <4>7. m \in own
        BY <4>2, <4>3, <4>6 DEF OwnTurns
      <4> QED
        BY <4>2, <4>4, <4>7
    <3>2. Reflects(t, row.sid, body.advance, body.input)
      <4>1. \A n \in own : n > row.covered => n \in body.input
        BY <1>4, <2>2
      <4>2. \A n \in own : n <= row.covered => n \in body.input
        BY <1>2, <2>2 DEF RowWhole, Reflects
      <4>3. \A n \in own : n > row.covered \/ n <= row.covered
        BY <1>1, <1>6
      <4> QED
        BY <4>1, <4>2, <4>3 DEF Reflects
    <3> QED
      BY <3>1, <3>2 DEF JobWhole
  <2>10. /\ \A j \in SessionJobs(e) : new[j].target = i => new[j].body = body
         /\ \A j \in SessionJobs(e) : new[j].target # i =>
              j \in SessionJobs(d) /\ new[j] = d.jobs[j]
    BY <2>4, <2>5, <2>8 DEF EnqueueEffect, SessionJobs
  <2>11. \A j \in SessionJobs(e) :
           JobWhole(e.jobs[j].body, e.sessions[e.jobs[j].target].sid, t)
    <3> TAKE j \in SessionJobs(e)
    <3>1. CASE new[j].target = i
      BY <2>8, <2>9, <2>10, <3>1
    <3>2. CASE new[j].target # i
      BY <2>8, <2>10, <3>2 DEF Whole
    <3> QED
      BY <3>1, <3>2
  <2>12. Accounted(e, t, i)
    <3>1. k \in SessionJobs(e)
      BY <2>7, <2>8 DEF SessionJobs
    <3>2. \A n \in own : n <= body.advance
      BY <1>5, <2>1, <2>2
    <3> QED
      BY <2>7, <2>8, <3>1, <3>2 DEF Accounted
  <2>13. ASSUME NEW m \in DOMAIN d.sessions, m # i, Accounted(d, t, m)
         PROVE  Accounted(e, t, m)
    <3>1. ASSUME NEW j \in SessionJobs(d), d.jobs[j].target = m
          PROVE  /\ j \in SessionJobs(e) /\ e.jobs[j].target = m
                 /\ e.jobs[j].body = d.jobs[j].body
      <4>1. j \in Pending(d.jobs) /\ d.jobs[j].kind = "session"
        BY DEF SessionJobs
      <4>2. j \notin PendingOne(d.jobs, "session", i)
        BY <2>13, <3>1 DEF PendingOne
      <4>3. j \in Pending(new) /\ new[j] = d.jobs[j]
        BY <2>6, <4>1, <4>2 DEF EnqueueLeaves
      <4> QED
        BY <2>8, <3>1, <4>1, <4>3 DEF SessionJobs
    <3> QED
      BY <2>8, <2>13, <3>1 DEF Accounted
  <2>14. ClosedWhole(e, t, r, 0)
    <3> SUFFICES ASSUME NEW m \in DOMAIN d.sessions, d.sessions[m].finalized
                 PROVE  d.sessions[m].sid < r /\ Accounted(e, t, m)
      BY <2>8 DEF ClosedWhole
    <3>1. CASE m = i
      BY <1>1, <1>2, <2>12, <3>1 DEF ClosedWhole
    <3>2. CASE m # i
      <4>1. m # x
        BY <1>1, <3>2
      <4> QED
        BY <1>2, <2>13, <3>2, <4>1 DEF ClosedWhole
    <3> QED
      BY <3>1, <3>2
  <2> QED
    BY <2>8, <2>11, <2>14 DEF Whole, e
<1> QED
  BY <1>9, <1>10

\* Tables e are d but for rows opened empty for run r, counts, marks, other
\* kinds of jobs, and session x, which may be closed.
Keeps(d, e, r, x) ==
  /\ \A i \in DOMAIN d.sessions :
       /\ i \in DOMAIN e.sessions
       /\ e.sessions[i].sid = d.sessions[i].sid
       /\ e.sessions[i].summary = d.sessions[i].summary
       /\ e.sessions[i].covered = d.sessions[i].covered
       /\ i # x /\ e.sessions[i].finalized => d.sessions[i].finalized
  /\ \A i \in DOMAIN e.sessions : i \notin DOMAIN d.sessions =>
       /\ e.sessions[i].sid = r
       /\ e.sessions[i].summary = {}
       /\ e.sessions[i].covered = 0
       /\ ~e.sessions[i].finalized
  /\ SessionJobs(e) = SessionJobs(d)
  /\ \A j \in SessionJobs(d) : /\ e.jobs[j].target = d.jobs[j].target
                               /\ e.jobs[j].body = d.jobs[j].body

\* A session job is about a session that exists.
LEMMA SessionJobTarget ==
  ASSUME NEW d, NEW t, NEW lo, NEW f, Good(d, t, lo, f),
         NEW j \in SessionJobs(d)
  PROVE  /\ j \in Pending(d.jobs) /\ j \in DOMAIN d.jobs
         /\ d.jobs[j].kind = "session"
         /\ d.jobs[j].target \in DOMAIN d.sessions
         /\ d.jobs[j].body.advance \in Nat
         /\ d.jobs[j].body \in Body
<1>1. j \in Pending(d.jobs) /\ j \in DOMAIN d.jobs /\ d.jobs[j].kind = "session"
  BY DEF SessionJobs, Pending
<1>2. d.jobs[j].body \in Body
  BY <1>1, DbFields DEF Good
<1> QED
  BY <1>1, <1>2 DEF Good, JobsWellFormed, Body

\* What is whole stays so.
LEMMA KeepsWhole ==
  ASSUME NEW t \in Seq(Turn), NEW r \in Nat, NEW d, NEW lo, NEW f,
         Good(d, t, lo, f), Whole(d, t, r, 0), NEW e, NEW x,
         Keeps(d, e, r, x)
  PROVE  Whole(e, t, r, x)
<1>1. \A i \in DOMAIN e.sessions : RowWhole(e.sessions[i], t, r)
  <2> TAKE i \in DOMAIN e.sessions
  <2>1. CASE i \in DOMAIN d.sessions
    <3>1. RowWhole(d.sessions[i], t, r)
      BY <2>1 DEF Whole
    <3> QED
      BY <2>1, <3>1 DEF Keeps, RowWhole
  <2>2. CASE i \notin DOMAIN d.sessions
    <3>1. e.sessions[i].sid = r /\ e.sessions[i].covered = 0
      BY <2>2 DEF Keeps
    <3>2. \A n \in DOMAIN t : ~(n <= 0)
      OBVIOUS
    <3> QED
      BY <3>1, <3>2 DEF RowWhole, Reflects, OwnTurns
  <2> QED
    BY <2>1, <2>2
<1>2. \A j \in SessionJobs(e) :
        JobWhole(e.jobs[j].body, e.sessions[e.jobs[j].target].sid, t)
  <2> TAKE j \in SessionJobs(e)
  <2>1. j \in SessionJobs(d) /\ d.jobs[j].target \in DOMAIN d.sessions
    BY SessionJobTarget DEF Keeps
  <2> QED
    BY <2>1 DEF Whole, Keeps
<1>3. ASSUME NEW i \in DOMAIN d.sessions, Accounted(d, t, i)
      PROVE  Accounted(e, t, i)
  BY <1>3 DEF Accounted, Keeps
<1>4. ClosedWhole(e, t, r, x)
  <2> SUFFICES ASSUME NEW i \in DOMAIN e.sessions \ {x},
                      e.sessions[i].finalized
               PROVE  e.sessions[i].sid < r /\ Accounted(e, t, i)
    BY DEF ClosedWhole
  <2>1. i \in DOMAIN d.sessions /\ d.sessions[i].finalized
        /\ e.sessions[i].sid = d.sessions[i].sid
    BY DEF Keeps
  <2>2. i # 0
    BY <2>1, DbFields DEF Good
  <2> QED
    BY <1>3, <2>1, <2>2 DEF Whole, ClosedWhole
<1> QED
  BY <1>1, <1>2, <1>4 DEF Whole

\* And what ends nowhere near turn n neither.
LEMMA KeepsUnsent ==
  ASSUME NEW d, NEW e, NEW r, NEW x, Keeps(d, e, r, x),
         NEW n \in Nat \ {0}, Unsent(d, n)
  PROVE  Unsent(e, n)
<1>1. \A i \in DOMAIN e.sessions : e.sessions[i].covered # n
  BY DEF Keeps, Unsent
<1>2. \A j \in SessionJobs(e) : e.jobs[j].body.advance # n
  BY DEF Keeps, Unsent
<1> QED
  BY <1>1, <1>2 DEF Unsent

\* Rows that are counted or closed.
LEMMA CountsOrClosesKeeps ==
  ASSUME NEW t, NEW d, NEW lo, NEW f, Good(d, t, lo, f), NEW e, NEW r, NEW x,
         CountsOrCloses(d, e),
         \A n \in DOMAIN d.sessions \ {x} :
           e.sessions[n].finalized = d.sessions[n].finalized
  PROVE  Keeps(d, e, r, x)
<1>1. DOMAIN e.sessions = DOMAIN d.sessions
  BY DbFields DEF Good, CountsOrCloses
<1>2. SessionJobs(e) = SessionJobs(d) /\ e.jobs = d.jobs
  BY DEF CountsOrCloses, SessionJobs
<1> QED
  BY <1>1, <1>2 DEF CountsOrCloses, Keeps

\* upsert_session: the row is there, or is opened empty behind the others.
LEMMA UpsertKeeps ==
  ASSUME NEW t, NEW d, NEW lo, NEW f, Good(d, t, lo, f), NEW r \in Nat
  PROVE  LET e == UpsertSession(d, r)
         IN /\ Keeps(d, e, r, 0)
            /\ e.jobs = d.jobs
            /\ e.persistent = d.persistent
            /\ \A i \in DOMAIN d.sessions : e.sessions[i] = d.sessions[i]
            /\ SeqOf(d, r) # {} => e = d
            /\ SeqOf(d, r) = {} =>
                 /\ LastSeq(e) = LastSeq(d) + 1
                 /\ e.sessions[LastSeq(e)] = NewSession(r)
<1> DEFINE e == UpsertSession(d, r)
           n == Len(d.sessions)
           rows == Append(d.sessions, NewSession(r))
<1>1. /\ d \in DbType /\ d.sessions \in Seq(Session)
      /\ n \in Nat /\ DOMAIN d.sessions = 1..n
  BY DbFields DEF Good
<1>2. CASE SeqOf(d, r) # {}
  <2>1. e = d
    BY <1>2 DEF UpsertSession
  <2>2. Keeps(d, d, r, 0)
    BY DEF Keeps
  <2> QED
    BY <1>2, <2>1, <2>2
<1>3. CASE SeqOf(d, r) = {}
  <2>1. e = [d EXCEPT !.sessions = rows]
    BY <1>3 DEF UpsertSession
  <2>2. NewSession(r) \in Session
    BY DEF NewSession, Session, TurnIds
  <2>3. /\ Len(rows) = n + 1 /\ DOMAIN rows = 1..(n + 1)
        /\ rows[n + 1] = NewSession(r)
        /\ \A i \in 1..n : rows[i] = d.sessions[i]
    BY <1>1, <2>2
  <2> HIDE DEF e, rows
  <2>4. /\ e.sessions = rows /\ e.jobs = d.jobs /\ e.persistent = d.persistent
    BY <1>1, <2>1 DEF DbType
  <2>5. /\ NewSession(r).sid = r /\ NewSession(r).covered = 0
        /\ NewSession(r).summary = {} /\ NewSession(r).finalized = FALSE
    BY DEF NewSession
  <2>6. \A i \in 1..(n + 1) : i \in 1..n \/ i = n + 1
    BY <1>1
  <2>7. 1..n \subseteq 1..(n + 1)
    BY <1>1
  <2>8. SessionJobs(e) = SessionJobs(d)
    BY <2>4 DEF SessionJobs
  <2> HIDE DEF n
  <2>9. Keeps(d, e, r, 0)
    BY <1>1, <2>3, <2>4, <2>5, <2>6, <2>7, <2>8 DEF Keeps
  <2> QED
    BY <1>1, <1>3, <2>3, <2>4, <2>9 DEF LastSeq, n, e
<1> QED
  BY <1>2, <1>3
FoldBody(d) ==
  [items |-> FoldBatch(d), input |-> FoldInput(d), advance |-> 0]

FoldWaits(d) == \E j \in Pending(d.jobs) : d.jobs[j].kind = "summary"

\* From tables d to tables e at most a fold that is due starts to wait.
FoldsIfDue(d, e) ==
  /\ e.sessions = d.sessions
  /\ e.persistent = d.persistent
  /\ SessionJobs(e) = SessionJobs(d)
  /\ \A j \in SessionJobs(d) : e.jobs[j] = d.jobs[j]
  /\ \A j \in Pending(e.jobs) : e.jobs[j].kind = "summary" =>
       \/ j \in Pending(d.jobs) /\ e.jobs[j] = d.jobs[j]
       \/ /\ FoldDue(d) /\ ~FoldWaits(d)
          /\ e.jobs[j].body = FoldBody(d)
  /\ FoldDue(d) => FoldWaits(e)
  /\ ~FoldDue(d) => e = d

\* _enqueue_summary.
LEMMA EnqueueSummaryEffect ==
  ASSUME NEW t, NEW d, NEW lo, NEW f, Good(d, t, lo, f)
  PROVE  FoldsIfDue(d, EnqueueSummary(d))
<1> DEFINE e == EnqueueSummary(d)
           body == FoldBody(d)
           new == EnqueueJob(d.jobs, "summary", SummaryTarget, body)
<1>1. /\ d \in DbType /\ ClosedInOrder(d) /\ FoldedUpTo(d, f)
      /\ d.jobs \in Seq(Jobs) /\ SummaryTarget \in Nat
  BY DbFields DEF Good, SummaryTarget
<1>2. e = IF PendingOne(d.jobs, "summary", SummaryTarget) # {} \/ ~FoldDue(d)
          THEN d ELSE [d EXCEPT !.jobs = new]
  BY DEF EnqueueSummary, FoldBody
<1>3. PendingOne(d.jobs, "summary", SummaryTarget) # {} <=> FoldWaits(d)
  <2>1. \A j \in Pending(d.jobs) : d.jobs[j].kind = "summary" =>
          d.jobs[j].target = SummaryTarget
    BY DEF Good, JobsWellFormed, Pending
  <2> QED
    BY <2>1 DEF PendingOne, FoldWaits
<1>4. CASE FoldWaits(d) \/ ~FoldDue(d)
  <2>1. e = d
    BY <1>2, <1>3, <1>4
  <2>2. FoldsIfDue(d, d)
    BY <1>4 DEF FoldsIfDue
  <2> QED
    BY <2>1, <2>2
<1>5. CASE ~FoldWaits(d) /\ FoldDue(d)
  <2>1. e = [d EXCEPT !.jobs = new]
    BY <1>2, <1>3, <1>5
  <2>2. body \in Body
    <3>1. /\ f \in Nat
          /\ FoldBatch(d) = (f + 1)..(f + SessionsPerSummary)
          /\ f + SessionsPerSummary \in DOMAIN d.sessions
      BY <1>1, <1>5, DueBatchIsNext
    <3>2. FoldBatch(d) \subseteq DOMAIN d.sessions
      BY <1>1, <3>1, DbFields, DiaryConfigAssumption
    <3>3. d.persistent.summary \in SUBSET Nat
      <4>1. d.persistent \in Persistent
        BY <1>1, DbFields
      <4> QED
        BY <4>1 DEF Persistent, TurnIds
    <3>4. \A i \in FoldBatch(d) : d.sessions[i].summary \in SUBSET Nat
      BY <1>1, <3>2, DbFields
    <3>5. FoldInput(d) \in SUBSET Nat
      BY <3>3, <3>4 DEF FoldInput
    <3>6. FoldBatch(d) \in SUBSET Nat
      BY <3>1
    <3> QED
      BY <3>5, <3>6 DEF FoldBody, Body, TurnIds
  <2> HIDE DEF body
  <2>3. EnqueueEffect(d.jobs, new, "summary", SummaryTarget, body)
    BY <1>1, <2>2, EnqueueWaiting DEF Jobs
  <2>4. EnqueueLeaves(d.jobs, new, "summary", SummaryTarget, body)
    BY <1>1, <2>2, EnqueueLeavesWaiting DEF Jobs
  <2>5. /\ NewJob("summary", SummaryTarget, body).kind = "summary"
        /\ NewJob("summary", SummaryTarget, body).target = SummaryTarget
        /\ NewJob("summary", SummaryTarget, body).body = body
    BY DEF NewJob
  <2> HIDE DEF new, e
  <2>6. e.sessions = d.sessions /\ e.persistent = d.persistent /\ e.jobs = new
    BY <1>1, <2>1 DEF DbType
  <2>7. \A j \in SessionJobs(d) :
          j \in Pending(d.jobs) \ PendingOne(d.jobs, "summary", SummaryTarget)
    BY DEF SessionJobs, PendingOne
  <2>8. SessionJobs(e) = SessionJobs(d)
    <3>1. \A j \in SessionJobs(d) : j \in SessionJobs(e)
      BY <2>4, <2>6, <2>7 DEF EnqueueLeaves, SessionJobs
    <3>2. \A j \in SessionJobs(e) : j \in SessionJobs(d)
      BY <2>3, <2>5, <2>6 DEF EnqueueEffect, SessionJobs
    <3> QED
      BY <3>1, <3>2
  <2>9. \A j \in SessionJobs(d) : e.jobs[j] = d.jobs[j]
    BY <2>4, <2>6, <2>7 DEF EnqueueLeaves
  <2>10. \A j \in Pending(e.jobs) : e.jobs[j].kind = "summary" =>
           \/ j \in Pending(d.jobs) /\ e.jobs[j] = d.jobs[j]
           \/ e.jobs[j].body = body
    BY <2>3, <2>5, <2>6 DEF EnqueueEffect
  <2>11. FoldWaits(e)
    BY <2>4, <2>5, <2>6 DEF EnqueueLeaves, FoldWaits
  <2> QED
    BY <1>5, <2>6, <2>8, <2>9, <2>10, <2>11 DEF FoldsIfDue, e, body
<1> QED
  BY <1>4, <1>5

\* It touches no row and no session job.
LEMMA FoldsIfDueKeeps ==
  ASSUME NEW d, NEW e, NEW r, FoldsIfDue(d, e)
  PROVE  Keeps(d, e, r, 0)
  BY DEF FoldsIfDue, Keeps

\* The effect on the tables of an answered session job, up to its last commit.
SessionAnswered(d, e, j) ==
  LET i == d.jobs[j].target
      body == d.jobs[j].body
  IN /\ e.persistent = d.persistent
     /\ DOMAIN e.sessions = DOMAIN d.sessions
     /\ \A n \in DOMAIN d.sessions :
          /\ e.sessions[n].sid = d.sessions[n].sid
          /\ e.sessions[n].count = d.sessions[n].count
          /\ e.sessions[n].finalized = d.sessions[n].finalized
          /\ e.sessions[n].folded = d.sessions[n].folded
          /\ e.sessions[n].summary = IF n = i THEN body.input
                                     ELSE d.sessions[n].summary
          /\ e.sessions[n].covered = IF n = i THEN body.advance
                                     ELSE d.sessions[n].covered
     /\ \A k \in Pending(e.jobs) : e.jobs[k] = d.jobs[k]

\* set_session_summary.
LEMMA SetSummaryEffect ==
  ASSUME NEW t, NEW d, NEW lo, NEW f, Good(d, t, lo, f),
         NEW j \in SessionJobs(d)
  PROVE  LET job == d.jobs[j]
             e == SetSessionSummary(d, job.target, job.body.input,
                                    job.body.advance)
         IN SessionAnswered(d, e, j) /\ e.jobs = d.jobs
<1> DEFINE i == d.jobs[j].target
           text == d.jobs[j].body.input
           through == d.jobs[j].body.advance
           e == SetSessionSummary(d, i, text, through)
           row == [d.sessions[i] EXCEPT !.summary = text, !.covered = through]
<1>1. /\ d \in DbType /\ i \in DOMAIN d.sessions
      /\ d.sessions[i] \in Session /\ d.jobs[j].body \in Body
  BY SessionJobTarget, DbFields DEF Good
<1>2. text \in SUBSET Nat /\ through \in Nat
  BY <1>1 DEF Body, TurnIds
<1>3. e = [d EXCEPT !.sessions = [@ EXCEPT ![i] = row]]
  BY DEF SetSessionSummary
<1> HIDE DEF i, text, through
<1>4. /\ row \in Session /\ row.sid = d.sessions[i].sid
      /\ row.summary = text /\ row.covered = through
      /\ row.count = d.sessions[i].count
      /\ row.finalized = d.sessions[i].finalized
      /\ row.folded = d.sessions[i].folded
  BY <1>1, <1>2 DEF Session, TurnIds
<1> HIDE DEF row, e
<1>5. /\ e \in DbType /\ e.jobs = d.jobs /\ e.persistent = d.persistent
      /\ Len(e.sessions) = Len(d.sessions) /\ e.sessions[i] = row
      /\ \A n \in DOMAIN d.sessions \ {i} : e.sessions[n] = d.sessions[n]
  BY <1>1, <1>3, <1>4, ReplaceRow
<1>6. DOMAIN e.sessions = DOMAIN d.sessions
  BY <1>1, <1>5, DbFields
<1>7. \A n \in DOMAIN d.sessions :
          /\ e.sessions[n].sid = d.sessions[n].sid
          /\ e.sessions[n].count = d.sessions[n].count
          /\ e.sessions[n].finalized = d.sessions[n].finalized
          /\ e.sessions[n].folded = d.sessions[n].folded
          /\ e.sessions[n].summary = IF n = i THEN text
                                     ELSE d.sessions[n].summary
          /\ e.sessions[n].covered = IF n = i THEN through
                                     ELSE d.sessions[n].covered
  BY <1>4, <1>5
<1> QED
  BY <1>5, <1>6, <1>7 DEF SessionAnswered, e, i, text, through

\* And mark_done: the job waits no more.
LEMMA SessionAnsweredEffect ==
  ASSUME NEW t, NEW d, NEW lo \in Nat, NEW f, Good(d, t, lo, f),
         NEW j \in SessionJobs(d)
  PROVE  LET job == d.jobs[j]
             s == SetSessionSummary(d, job.target, job.body.input,
                                    job.body.advance)
             e == Answered(s, j)
         IN /\ SessionAnswered(d, e, j)
            /\ Pending(e.jobs) = Pending(d.jobs) \ {j}
            /\ Good(e, t, lo, f)
<1> DEFINE s == SetSessionSummary(d, d.jobs[j].target, d.jobs[j].body.input,
                                  d.jobs[j].body.advance)
           e == Answered(s, j)
<1>1. SessionAnswered(d, s, j) /\ s.jobs = d.jobs
  BY SetSummaryEffect
<1>2. Good(s, t, lo, f)
  BY SessionJobTarget, SetSummaryGood
<1> HIDE DEF s
<1>3. j \in DOMAIN s.jobs
  BY <1>1, SessionJobTarget
<1>4. /\ Good(e, t, lo, f) /\ e.sessions = s.sessions
      /\ e.persistent = s.persistent /\ e.jobs = MarkDone(s.jobs, j)
  BY <1>2, <1>3, AnsweredGood
<1> HIDE DEF e
<1>5. AnswerEffect(s.jobs, e.jobs, j)
  BY <1>2, <1>3, <1>4, DbFields, MarkDoneWaiting DEF Good, Jobs
<1>6. Pending(e.jobs) = Pending(d.jobs) \ {j}
      /\ \A k \in Pending(e.jobs) : e.jobs[k] = d.jobs[k]
  BY <1>1, <1>5 DEF AnswerEffect
<1>7. SessionAnswered(d, e, j)
  BY <1>1, <1>4, <1>6 DEF SessionAnswered
<1> QED
  BY <1>4, <1>6, <1>7 DEF e, s

\* An answered session job leaves what is whole whole: its session is now
\* covered as far as the job went.
LEMMA SessionAnsweredWhole ==
  ASSUME NEW t \in Seq(Turn), NEW r \in Nat, NEW d, NEW lo, NEW f,
         Good(d, t, lo, f), Whole(d, t, r, 0),
         NEW j \in SessionJobs(d), NEW e, SessionAnswered(d, e, j),
         Pending(e.jobs) = Pending(d.jobs) \ {j}
  PROVE  Whole(e, t, r, 0)
<1> DEFINE i == d.jobs[j].target
           body == d.jobs[j].body
<1>1. /\ i \in DOMAIN d.sessions /\ body.advance \in Nat
      /\ j \in Pending(d.jobs)
  BY SessionJobTarget
<1>2. /\ DOMAIN e.sessions = DOMAIN d.sessions
      /\ \A n \in DOMAIN d.sessions :
           /\ e.sessions[n].sid = d.sessions[n].sid
           /\ e.sessions[n].finalized = d.sessions[n].finalized
           /\ n # i => /\ e.sessions[n].summary = d.sessions[n].summary
                       /\ e.sessions[n].covered = d.sessions[n].covered
      /\ e.sessions[i].summary = body.input
      /\ e.sessions[i].covered = body.advance
  BY <1>1 DEF SessionAnswered
<1>3. /\ SessionJobs(e) = SessionJobs(d) \ {j}
      /\ \A k \in SessionJobs(e) : e.jobs[k] = d.jobs[k]
  BY DEF SessionJobs, SessionAnswered
<1>4. JobWhole(body, d.sessions[i].sid, t)
  BY DEF Whole
<1>5. d.sessions[i].covered <= body.advance
  BY <1>1 DEF Good, SessionJobsAhead, SessionJobs
<1>6. \A k \in SessionJobs(d) : d.jobs[k].target = i => k = j
  BY <1>1, OneWaits DEF SessionJobs
<1> HIDE DEF i, body
<1>7. \A n \in DOMAIN e.sessions : RowWhole(e.sessions[n], t, r)
  <2> TAKE n \in DOMAIN e.sessions
  <2>1. RowWhole(d.sessions[n], t, r)
    BY <1>2 DEF Whole
  <2>2. CASE n = i
    BY <1>2, <1>4, <2>1, <2>2 DEF RowWhole, JobWhole
  <2>3. CASE n # i
    BY <1>2, <2>1, <2>3 DEF RowWhole
  <2> QED
    BY <2>2, <2>3
<1>8. \A k \in SessionJobs(e) :
        JobWhole(e.jobs[k].body, e.sessions[e.jobs[k].target].sid, t)
  <2> TAKE k \in SessionJobs(e)
  <2>1. /\ k \in SessionJobs(d) /\ d.jobs[k].target \in DOMAIN d.sessions
        /\ e.jobs[k] = d.jobs[k]
    BY <1>3, SessionJobTarget
  <2> QED
    BY <1>2, <2>1 DEF Whole
<1>9. ASSUME NEW n \in DOMAIN d.sessions, Accounted(d, t, n)
      PROVE  Accounted(e, t, n)
  <2>1. d.sessions[n].covered \in Nat
    BY DbFields DEF Good
  <2>2. CASE n = i
    <3> SUFFICES ASSUME NEW m \in OwnTurns(t, d.sessions[i].sid)
                 PROVE  m <= body.advance
      BY <1>2, <2>2 DEF Accounted
    <3>1. m \in Nat
      BY DEF OwnTurns
    <3>2. CASE m <= d.sessions[i].covered
      BY <1>1, <1>5, <2>1, <2>2, <3>1, <3>2 DEF body
    <3>3. CASE \E k \in SessionJobs(d) :
                 d.jobs[k].target = i /\ m <= d.jobs[k].body.advance
      BY <1>6, <3>3 DEF body
    <3> QED
      BY <1>9, <2>2, <3>2, <3>3 DEF Accounted
  <2>3. CASE n # i
    <3>1. \A k \in SessionJobs(d) : d.jobs[k].target = n =>
            k \in SessionJobs(e) /\ e.jobs[k] = d.jobs[k]
      BY <1>3, <2>3 DEF i
    <3> QED
      BY <1>2, <1>9, <2>3, <3>1 DEF Accounted
  <2> QED
    BY <2>2, <2>3
<1>10. ClosedWhole(e, t, r, 0)
  BY <1>2, <1>9 DEF Whole, ClosedWhole
<1> QED
  BY <1>7, <1>8, <1>10 DEF Whole

\* A turn belongs to a run.
LEMMA TurnSession ==
  ASSUME NEW t \in Seq(Turn), NEW n \in DOMAIN t
  PROVE  t[n].session \in Nat
<1>1. t[n] \in Turn
  OBVIOUS
<1> QED
  BY <1>1 DEF Turn

\* A turn is logged for the live run, an assistant's right after its user's.
LEMMA LogWhole ==
  ASSUME NEW t \in Seq(Turn), NEW r \in Nat, NEW d, NEW lo, NEW f,
         Good(d, t, lo, f), Whole(d, t, r, 0),
         NEW role \in {"user", "assistant"},
         role = "assistant" =>
           /\ Len(t) # 0 /\ t[Len(t)] = [session |-> r, role |-> "user"]
           /\ Unsent(d, Len(t))
  PROVE  Whole(d, Append(t, [session |-> r, role |-> role]), r, 0)
<1> DEFINE x == [session |-> r, role |-> role]
           u == Append(t, x)
           new == Len(t) + 1
<1>1. /\ Len(t) \in Nat /\ DOMAIN t = 1..Len(t) /\ DOMAIN u = 1..new
      /\ u[new] = x /\ \A n \in DOMAIN t : u[n] = t[n]
  BY DEF Turn
<1>2. x.session = r /\ x.role = role
  OBVIOUS
<1> HIDE DEF x, u
<1>3. \A n \in DOMAIN u : n \in DOMAIN t \/ n = new
  BY <1>1
<1>4. \A n \in DOMAIN t : n \in DOMAIN u /\ n < new /\ n \in Nat
  BY <1>1
<1>5. \A sid : \A n \in OwnTurns(u, sid) :
        n \in OwnTurns(t, sid) \/ (n = new /\ sid = r)
  BY <1>1, <1>2, <1>3 DEF OwnTurns
<1>6. TurnsPaired(u, r)
  <2> SUFFICES ASSUME NEW n \in DOMAIN u
               PROVE  /\ u[n].session <= r
                      /\ u[n].role = "assistant" =>
                           /\ n - 1 \in DOMAIN u
                           /\ u[n - 1].session = u[n].session
                           /\ u[n - 1].role = "user"
    BY DEF TurnsPaired
  <2>1. CASE n \in DOMAIN t
    BY <1>1, <1>4, <2>1 DEF Whole, TurnsPaired
  <2>2. CASE n = new
    <3>1. n - 1 = Len(t)
      BY <1>1, <2>2
    <3>2. ASSUME role = "assistant"
          PROVE  /\ n - 1 \in DOMAIN u
                 /\ u[n - 1] = [session |-> r, role |-> "user"]
      <4>1. Len(t) \in DOMAIN t
        BY <1>1, <3>2
      <4> QED
        BY <1>1, <1>4, <3>1, <3>2, <4>1
    <3> QED
      BY <1>1, <1>2, <2>2, <3>2
  <2> QED
    BY <1>3, <2>1, <2>2
<1>7. ASSUME NEW c, EndsWhole(t, c), role = "assistant" => c # Len(t)
      PROVE  EndsWhole(u, c)
  <2>1. c \in DOMAIN t /\ c \in DOMAIN u /\ c \in Nat
    BY <1>4, <1>7 DEF EndsWhole
  <2>2. CASE c + 1 \in DOMAIN t
    BY <1>1, <1>7, <2>1, <2>2 DEF EndsWhole
  <2>3. CASE c + 1 = new
    BY <1>1, <1>2, <1>7, <2>1, <2>3 DEF EndsWhole
  <2> QED
    BY <1>3, <2>1, <2>2, <2>3 DEF EndsWhole
<1>8. ASSUME NEW c, c = 0 \/ c \in DOMAIN t, NEW sid, NEW text,
             Reflects(t, sid, c, text)
      PROVE  Reflects(u, sid, c, text)
  <2>1. ~(new <= c)
    BY <1>1, <1>4, <1>8
  <2> QED
    BY <1>5, <1>8, <2>1 DEF Reflects
<1>9. \A i \in DOMAIN d.sessions : RowWhole(d.sessions[i], u, r)
  <2> TAKE i \in DOMAIN d.sessions
  <2>1. RowWhole(d.sessions[i], t, r)
    BY DEF Whole
  <2>2. d.sessions[i].covered = 0 \/ d.sessions[i].covered \in DOMAIN t
    BY <2>1 DEF RowWhole, EndsWhole
  <2>3. role = "assistant" => d.sessions[i].covered # Len(t)
    BY DEF Unsent
  <2> QED
    BY <1>7, <1>8, <2>1, <2>2, <2>3 DEF RowWhole
<1>10. \A j \in SessionJobs(d) :
         JobWhole(d.jobs[j].body, d.sessions[d.jobs[j].target].sid, u)
  <2> TAKE j \in SessionJobs(d)
  <2>1. JobWhole(d.jobs[j].body, d.sessions[d.jobs[j].target].sid, t)
    BY DEF Whole
  <2>2. d.jobs[j].body.advance \in DOMAIN t
    BY <2>1 DEF JobWhole, EndsWhole
  <2>3. role = "assistant" => d.jobs[j].body.advance # Len(t)
    BY DEF Unsent
  <2> QED
    BY <1>7, <1>8, <2>1, <2>2, <2>3 DEF JobWhole
<1>11. ClosedWhole(d, u, r, 0)
  <2> SUFFICES ASSUME NEW i \in DOMAIN d.sessions \ {0},
                      d.sessions[i].finalized
               PROVE  d.sessions[i].sid < r /\ Accounted(d, u, i)
    BY DEF ClosedWhole
  <2>1. d.sessions[i].sid < r /\ Accounted(d, t, i)
    BY DEF Whole, ClosedWhole
  <2>2. d.sessions[i].sid \in Nat
    BY DbFields DEF Good
  <2>3. \A n \in OwnTurns(u, d.sessions[i].sid) :
          n \in OwnTurns(t, d.sessions[i].sid)
    BY <1>5, <2>1, <2>2
  <2> QED
    BY <2>1, <2>3 DEF Accounted
<1> QED
  BY <1>6, <1>9, <1>10, <1>11 DEF Whole, u, x

\* A run ends: its turns are now those of an earlier run.
LEMMA NextRunWhole ==
  ASSUME NEW t \in Seq(Turn), NEW r \in Nat, NEW d, NEW x, d \in DbType,
         Whole(d, t, r, x)
  PROVE  Whole(d, t, r + 1, x)
<1>1. \A n \in DOMAIN t : t[n].session \in Nat
  BY TurnSession
<1>2. \A i \in DOMAIN d.sessions : d.sessions[i].sid \in Nat
  BY DbFields
<1>3. \A s \in Nat : (s <= r => s <= r + 1) /\ (s < r => s < r + 1)
  OBVIOUS
<1>4. TurnsPaired(t, r + 1)
  BY <1>1, <1>3 DEF Whole, TurnsPaired
<1>5. \A i \in DOMAIN d.sessions : RowWhole(d.sessions[i], t, r + 1)
  BY <1>2, <1>3 DEF Whole, RowWhole
<1>6. \A j \in SessionJobs(d) :
        JobWhole(d.jobs[j].body, d.sessions[d.jobs[j].target].sid, t)
  BY DEF Whole
<1>7. ClosedWhole(d, t, r + 1, x)
  BY <1>2, <1>3 DEF Whole, ClosedWhole
<1> QED
  BY <1>4, <1>5, <1>6, <1>7 DEF Whole

\* The commits of a tick, whatever of its interaction was logged.
LEMMA TickWhole ==
  ASSUME NEW t \in Seq(Turn), NEW r \in Nat, NEW d, NEW lo \in Nat, NEW f,
         Good(d, t, lo, f), lo <= f, Whole(d, t, r, 0)
  PROVE  Whole(OnInteraction(d, t, r), t, r, 0)
<1> DEFINE last == LastSeq(d)
           closed == FinalizeSession(d, last)
           rolled == Rollover(d, t, r)
           opened == UpsertSession(rolled, r)
           i == CHOOSE n \in SeqOf(opened, r) : TRUE
           counted == BumpInteraction(opened, i)
           rolling == Cadence(counted, t, r)
<1>0. OnInteraction(d, t, r) = EnqueueSummary(rolling)
  BY DEF OnInteraction, CountInteraction
<1>1. /\ d \in DbType /\ last = Len(d.sessions) /\ Len(d.sessions) \in Nat
      /\ DOMAIN d.sessions = 1..Len(d.sessions)
  BY DbFields DEF Good, LastSeq
<1>2. Good(rolled, t, lo, f) /\ MayOpen(rolled, r)
  BY RolloverGood
<1>3. Whole(rolled, t, r, 0)
  <2>1. CASE last = 0 \/ d.sessions[last].sid = r \/ d.sessions[last].finalized
    <3>1. rolled = d
      BY <2>1 DEF Rollover
    <3> QED
      BY <3>1
  <2>2. CASE ~(last = 0 \/ d.sessions[last].sid = r \/ d.sessions[last].finalized)
    <3>1. rolled = EnqueueSession(closed, t, last, TRUE)
      BY <2>2 DEF Rollover
    <3>2. last \in DOMAIN d.sessions
      BY <1>1, <2>2
    <3> HIDE DEF last, rolled
    <3>3. CountsOrCloses(d, closed) /\ ClosesOnly(d, closed, last)
      BY <3>2, FinalizeGood
    <3>4. Good(closed, t, lo, f)
      BY <3>3, CountsOrClosesGood
    <3> HIDE DEF closed
    <3>5. Keeps(d, closed, r, last)
      BY <3>3, CountsOrClosesKeeps DEF ClosesOnly
    <3>6. Whole(closed, t, r, last)
      BY <3>5, KeepsWhole
    <3>7. /\ last \in DOMAIN closed.sessions
          /\ closed.sessions[last].sid = d.sessions[last].sid
      BY <3>2, <3>5 DEF Keeps
    <3>8. d.sessions[last].sid < r
      <4>1. d.sessions[last].sid <= r /\ d.sessions[last].sid \in Nat
        BY <1>1, <3>2, DbFields DEF Whole, RowWhole
      <4> QED
        BY <2>2, <4>1
    <3>9. Whole(EnqueueSession(closed, t, last, TRUE), t, r, 0)
      BY <3>4, <3>6, <3>7, <3>8, EnqueueSessionWhole
    <3> QED
      BY <3>1, <3>9
  <2> QED
    BY <2>1, <2>2
<1> HIDE DEF rolled, last
<1>4. /\ Good(opened, t, lo, f) /\ SeqOf(opened, r) # {}
      /\ Keeps(rolled, opened, r, 0)
  BY <1>2, UpsertGood, UpsertKeeps
<1> HIDE DEF opened
<1>5. Whole(opened, t, r, 0)
  BY <1>2, <1>3, <1>4, KeepsWhole
<1>6. i \in SeqOf(opened, r) /\ i \in DOMAIN opened.sessions
  BY <1>4 DEF SeqOf
<1> HIDE DEF i
<1>7. /\ CountsOrCloses(opened, counted)
      /\ \A n \in DOMAIN opened.sessions :
           counted.sessions[n].finalized = opened.sessions[n].finalized
  BY <1>4, <1>6, BumpGood
<1> HIDE DEF counted
<1>8. Good(counted, t, lo, f) /\ Keeps(opened, counted, r, 0)
  BY <1>4, <1>7, CountsOrClosesGood, CountsOrClosesKeeps
<1>9. Whole(counted, t, r, 0)
  BY <1>4, <1>5, <1>8, KeepsWhole
<1>10. SeqOf(counted, r) # {}
  BY <1>6, <1>8 DEF SeqOf, Keeps
<1>11. Whole(rolling, t, r, 0) /\ Good(rolling, t, lo, f)
  <2> DEFINE k == CHOOSE n \in SeqOf(counted, r) : TRUE
  <2>1. /\ k \in DOMAIN counted.sessions
        /\ counted.sessions[k].sid = r
    BY <1>10 DEF SeqOf
  <2>2. rolling = IF counted.sessions[k].count % UpdateEvery = 0
                  THEN EnqueueSession(counted, t, k, FALSE) ELSE counted
    BY DEF Cadence
  <2>3. Good(rolling, t, lo, f)
    BY <1>8, <1>10, CadenceGood
  <2> HIDE DEF k, rolling
  <2>4. Whole(EnqueueSession(counted, t, k, FALSE), t, r, 0)
    BY <1>8, <1>9, <2>1, EnqueueSessionWhole
  <2> QED
    BY <1>9, <2>2, <2>3, <2>4
<1> HIDE DEF rolling
<1>12. Whole(EnqueueSummary(rolling), t, r, 0)
  <2>1. Keeps(rolling, EnqueueSummary(rolling), r, 0)
    BY <1>11, EnqueueSummaryEffect, FoldsIfDueKeeps
  <2> QED
    BY <1>11, <2>1, KeepsWhole
<1> QED
  BY <1>0, <1>12

\* close(): the newest session closed and its last job.
LEMMA CloseWhole ==
  ASSUME NEW t \in Seq(Turn), NEW r \in Nat, NEW d, NEW lo \in Nat, NEW f,
         Good(d, t, lo, f), Whole(d, t, r, 0)
  PROVE  Whole(FinalizeLast(d, t), t, r + 1, 0)
<1> DEFINE last == LastSeq(d)
           closed == FinalizeSession(d, last)
<1>1. /\ d \in DbType /\ last = Len(d.sessions) /\ Len(d.sessions) \in Nat
      /\ DOMAIN d.sessions = 1..Len(d.sessions)
  BY DbFields DEF Good, LastSeq
<1>2. Whole(d, t, r + 1, 0) /\ r + 1 \in Nat
  BY <1>1, NextRunWhole
<1>3. CASE last = 0
  BY <1>2, <1>3 DEF FinalizeLast
<1>4. CASE last # 0
  <2>1. FinalizeLast(d, t) = EnqueueSession(closed, t, last, TRUE)
    BY <1>4 DEF FinalizeLast
  <2>2. last \in DOMAIN d.sessions
    BY <1>1, <1>4
  <2> HIDE DEF last
  <2>3. CountsOrCloses(d, closed) /\ ClosesOnly(d, closed, last)
    BY <2>2, FinalizeGood
  <2>4. Good(closed, t, lo, f)
    BY <2>3, CountsOrClosesGood
  <2> HIDE DEF closed
  <2>5. Keeps(d, closed, r + 1, last)
    BY <2>3, CountsOrClosesKeeps DEF ClosesOnly
  <2>6. Whole(closed, t, r + 1, last)
    BY <1>2, <2>5, KeepsWhole
  <2>7. /\ last \in DOMAIN closed.sessions
        /\ closed.sessions[last].sid < r + 1
    <3>1. d.sessions[last].sid <= r /\ d.sessions[last].sid \in Nat
      BY <1>1, <2>2, DbFields DEF Whole, RowWhole
    <3> QED
      BY <2>2, <2>5, <3>1 DEF Keeps
  <2>8. Whole(EnqueueSession(closed, t, last, TRUE), t, r + 1, 0)
    BY <1>2, <2>4, <2>6, <2>7, EnqueueSessionWhole
  <2> QED
    BY <2>1, <2>8
<1> QED
  BY <1>3, <1>4

\* _apply_session and _apply_summary.
LEMMA ApplySessionWhole ==
  ASSUME NEW t \in Seq(Turn), NEW r \in Nat, NEW d, NEW lo \in Nat, NEW f,
         Good(d, t, lo, f), Whole(d, t, r, 0), NEW j \in SessionJobs(d)
  PROVE  /\ Whole(ApplySession(d, j), t, r, 0)
         /\ \A n \in Nat \ {0} :
              Unsent(d, n) => Unsent(ApplySession(d, j), n)
<1> DEFINE s == SetSessionSummary(d, d.jobs[j].target, d.jobs[j].body.input,
                                  d.jobs[j].body.advance)
           m == Answered(s, j)
<1>1. ApplySession(d, j) = EnqueueSummary(m)
  BY DEF ApplySession, Answered
<1>2. /\ SessionAnswered(d, m, j)
      /\ Pending(m.jobs) = Pending(d.jobs) \ {j}
      /\ Good(m, t, lo, f)
  BY SessionAnsweredEffect
<1> HIDE DEF m
<1>3. Whole(m, t, r, 0)
  BY <1>2, SessionAnsweredWhole
<1>4. Keeps(m, EnqueueSummary(m), r, 0)
  BY <1>2, EnqueueSummaryEffect, FoldsIfDueKeeps
<1>5. \A n \in Nat \ {0} : Unsent(d, n) => Unsent(m, n)
  BY <1>2 DEF Unsent, SessionAnswered, SessionJobs
<1> QED
  BY <1>1, <1>2, <1>3, <1>4, <1>5, KeepsWhole, KeepsUnsent

\* mark_folded, whatever the sessions.
MarkedOnly(d, e, batch) ==
  /\ e.jobs = d.jobs
  /\ e.persistent = d.persistent
  /\ DOMAIN e.sessions = DOMAIN d.sessions
  /\ \A n \in DOMAIN d.sessions :
       /\ e.sessions[n].sid = d.sessions[n].sid
       /\ e.sessions[n].summary = d.sessions[n].summary
       /\ e.sessions[n].covered = d.sessions[n].covered
       /\ e.sessions[n].count = d.sessions[n].count
       /\ e.sessions[n].finalized = d.sessions[n].finalized
       /\ e.sessions[n].folded = IF n \in batch THEN TRUE
                                 ELSE d.sessions[n].folded

\* mark_folded sets the flag of the batch and changes nothing else.
LEMMA MarkFoldedEffect ==
  ASSUME NEW d \in DbType, NEW batch
  PROVE  /\ MarkFolded(d, batch) \in DbType
         /\ MarkedOnly(d, MarkFolded(d, batch), batch)
<1> DEFINE e == MarkFolded(d, batch)
           rows == [i \in DOMAIN d.sessions |->
                      IF i \in batch
                      THEN [d.sessions[i] EXCEPT !.folded = TRUE]
                      ELSE d.sessions[i]]
<1>1. /\ Len(d.sessions) \in Nat
      /\ DOMAIN d.sessions = 1..Len(d.sessions)
      /\ \A i \in DOMAIN d.sessions : d.sessions[i] \in Session
  BY DbFields
<1>2. e = [d EXCEPT !.sessions = rows]
  BY DEF MarkFolded
<1>3. \A i \in DOMAIN d.sessions :
        /\ rows[i] \in Session
        /\ rows[i].sid = d.sessions[i].sid
        /\ rows[i].summary = d.sessions[i].summary
        /\ rows[i].covered = d.sessions[i].covered
        /\ rows[i].count = d.sessions[i].count
        /\ rows[i].finalized = d.sessions[i].finalized
        /\ rows[i].folded = IF i \in batch THEN TRUE ELSE d.sessions[i].folded
  BY <1>1 DEF Session
<1>4. rows \in [1..Len(d.sessions) -> Session] /\ DOMAIN rows = DOMAIN d.sessions
  BY <1>1, <1>3
<1> HIDE DEF rows
<1>5. rows \in Seq(Session)
  BY <1>1, <1>4
<1> HIDE DEF e
<1>6. /\ e \in DbType /\ e.sessions = rows
      /\ e.persistent = d.persistent /\ e.jobs = d.jobs
  BY <1>2, <1>5 DEF DbType
<1> QED
  BY <1>3, <1>4, <1>6 DEF MarkedOnly, e

\* The effect on the tables of an answered fold, up to its last commit.
FoldAnswered(d, e, j) ==
  LET body == d.jobs[j].body
  IN /\ e.persistent.summary = body.input
     /\ DOMAIN e.sessions = DOMAIN d.sessions
     /\ \A n \in DOMAIN d.sessions :
          /\ e.sessions[n].sid = d.sessions[n].sid
          /\ e.sessions[n].summary = d.sessions[n].summary
          /\ e.sessions[n].covered = d.sessions[n].covered
          /\ e.sessions[n].count = d.sessions[n].count
          /\ e.sessions[n].finalized = d.sessions[n].finalized
          /\ e.sessions[n].folded = IF n \in body.items THEN TRUE
                                    ELSE d.sessions[n].folded
     /\ \A k \in Pending(e.jobs) : e.jobs[k] = d.jobs[k]
     /\ Pending(e.jobs) = Pending(d.jobs) \ {j}

\* upsert_summary, mark_folded for the batch, mark_done.
LEMMA FoldAnsweredEffect ==
  ASSUME NEW t \in Seq(Turn), NEW d, NEW lo \in Nat, NEW f,
         Good(d, t, lo, f), NEW j \in Pending(d.jobs),
         d.jobs[j].kind = "summary"
  PROVE  \E m : /\ FoldAnswered(d, m, j)
                /\ ApplySummary(d, j) = EnqueueSummary(m)
                /\ \E g : Good(m, t, lo, g)
<1> DEFINE items == d.jobs[j].body.items
           text == d.jobs[j].body.input
           u == UpsertSummary(d, text, items)
           s == MarkFolded(u, items)
           m == Answered(s, j)
<1>1. ApplySummary(d, j) = EnqueueSummary(m)
  BY DEF ApplySummary, Answered
<1>2. PICK a \in lo..f :
           /\ a \in Nat /\ f \in Nat
           /\ items = (a + 1)..(a + SessionsPerSummary)
           /\ items # {}
           /\ Min(items) \in Nat /\ Max(items) \in Nat
  BY WaitingBatch
<1>3. /\ Good(u, t, lo, f) /\ u.sessions = d.sessions /\ u.jobs = d.jobs
      /\ u \in DbType
  BY UpsertSummaryGood DEF Good
<1>4. u.persistent.summary = text
  BY <1>2, DbFields DEF UpsertSummary, Good
<1> DEFINE n == a + SessionsPerSummary
<1>5. n \in items /\ UpTo(items, n) = items
  BY <1>2, DiaryConfigAssumption DEF UpTo
<1> HIDE DEF u, items, text, n
<1>6. MarkedOnly(u, s, items)
  BY <1>3, MarkFoldedEffect
<1>7. Good(s, t, lo, FoldedAfter(f, n))
  <2> DEFINE x == MarkFolded(u, UpTo(u.jobs[j].body.items, n))
  <2>1. /\ j \in Pending(u.jobs) /\ u.jobs[j].kind = "summary"
        /\ n \in u.jobs[j].body.items
    BY <1>3, <1>5 DEF items
  <2>2. x = s
    BY <1>3, <1>5 DEF items
  <2>3. Good(x, t, lo, FoldedAfter(f, n))
    BY <1>3, <2>1, MarkFoldedGood, ZenonT(30)
  <2> QED
    BY <2>2, <2>3
<1> HIDE DEF s
<1>8. j \in DOMAIN s.jobs
  BY <1>3, <1>6 DEF Pending, MarkedOnly
<1>9. /\ Good(m, t, lo, FoldedAfter(f, n)) /\ m.sessions = s.sessions
      /\ m.persistent = s.persistent /\ m.jobs = MarkDone(s.jobs, j)
  BY <1>7, <1>8, AnsweredGood
<1> HIDE DEF m
<1>10. AnswerEffect(s.jobs, m.jobs, j)
  BY <1>7, <1>8, <1>9, DbFields, MarkDoneWaiting DEF Good, Jobs
<1>11. /\ Pending(m.jobs) = Pending(d.jobs) \ {j}
       /\ \A k \in Pending(m.jobs) : m.jobs[k] = d.jobs[k]
  BY <1>3, <1>6, <1>10 DEF AnswerEffect, MarkedOnly
<1>12. m.persistent.summary = text
  BY <1>4, <1>6, <1>9 DEF MarkedOnly
<1>13. /\ DOMAIN m.sessions = DOMAIN d.sessions
       /\ \A i \in DOMAIN d.sessions :
            /\ m.sessions[i].sid = d.sessions[i].sid
            /\ m.sessions[i].summary = d.sessions[i].summary
            /\ m.sessions[i].covered = d.sessions[i].covered
            /\ m.sessions[i].count = d.sessions[i].count
            /\ m.sessions[i].finalized = d.sessions[i].finalized
            /\ m.sessions[i].folded = IF i \in items THEN TRUE
                                      ELSE d.sessions[i].folded
  BY <1>3, <1>6, <1>9 DEF MarkedOnly
<1>14. FoldAnswered(d, m, j)
  BY <1>11, <1>12, <1>13 DEF FoldAnswered, items, text
<1> QED
  BY <1>1, <1>9, <1>14

\* The batch folded, the summary rewritten: no session is touched.
LEMMA ApplySummaryWhole ==
  ASSUME NEW t \in Seq(Turn), NEW r \in Nat, NEW d, NEW lo \in Nat, NEW f,
         Good(d, t, lo, f), Whole(d, t, r, 0),
         NEW j \in Pending(d.jobs), d.jobs[j].kind = "summary"
  PROVE  /\ Whole(ApplySummary(d, j), t, r, 0)
         /\ \A n \in Nat \ {0} :
              Unsent(d, n) => Unsent(ApplySummary(d, j), n)
<1>1. PICK m : /\ FoldAnswered(d, m, j)
               /\ ApplySummary(d, j) = EnqueueSummary(m)
               /\ \E g : Good(m, t, lo, g)
  BY FoldAnsweredEffect
<1>2. PICK g : Good(m, t, lo, g)
  BY <1>1
<1>3. Keeps(d, m, r, 0)
  BY <1>1 DEF FoldAnswered, Keeps, SessionJobs
<1>4. Whole(m, t, r, 0)
  BY <1>3, KeepsWhole
<1>5. Keeps(m, EnqueueSummary(m), r, 0)
  BY <1>2, EnqueueSummaryEffect, FoldsIfDueKeeps
<1> QED
  BY <1>1, <1>2, <1>3, <1>4, <1>5, KeepsWhole, KeepsUnsent

(***************************************************************************)
(* One pipeline thread keeps it.                                           *)
(***************************************************************************)

\* While the thread is at an interaction, the interaction is the newest of
\* the log, and nothing ends between its two rows.
Midway ==
  \A w \in Ingesters :
    /\ ingest[w] \in {"user", "assistant"} =>
         /\ Len(turns) # 0
         /\ turns[Len(turns)] = [session |-> run, role |-> ingest[w]]
    /\ ingest[w] = "user" => Unsent(db, Len(turns))

WholeInv == Whole(db, turns, run, 0) /\ Midway

\* Nothing is logged yet.
LEMMA WholeInitially ==
  ASSUME Init PROVE WholeInv
<1>1. /\ DOMAIN turns = {} /\ DOMAIN db.sessions = {} /\ DOMAIN db.jobs = {}
      /\ \A w \in Ingesters : ingest[w] = "idle"
  BY DEF Init
<1>2. SessionJobs(db) = {}
  BY <1>1 DEF SessionJobs, Pending
<1> QED
  BY <1>1, <1>2 DEF WholeInv, Whole, TurnsPaired, ClosedWhole, Midway

\* Every step keeps it, also one that ends a run without close().
LEMMA WholeStep ==
  ASSUME Inv, WholeInv, OneThread, [Next]_vars
  PROVE  WholeInv'
<1> DEFINE c == db.persistent.count
<1>1. /\ Good(db, turns, c, c) /\ turns \in Seq(Turn) /\ run \in Nat
      /\ ingest \in [Ingesters -> Stages]
      /\ db \in DbType /\ c \in Nat /\ c <= c
      /\ Whole(db, turns, run, 0)
  <2>1. Good(db, turns, c, c) /\ db \in DbType
    BY DEF Inv, Good
  <2>2. c \in Nat
    <3>1. db.persistent \in Persistent
      BY <2>1, DbFields
    <3> QED
      BY <3>1 DEF Persistent
  <2> QED
    BY <2>1, <2>2 DEF Inv, WholeInv
<1> HIDE DEF c
<1>2. ASSUME NEW w \in Ingesters, NEW role \in {"user", "assistant"},
             LogTurn(w, role), role = "assistant" => ingest[w] = "user"
      PROVE  WholeInv'
  <2>1. /\ turns' = Append(turns, [session |-> run, role |-> role])
        /\ db' = db /\ run' = run
        /\ ingest' = [ingest EXCEPT ![w] = role]
    BY <1>2 DEF LogTurn
  <2>2. role = "assistant" =>
          /\ Len(turns) # 0
          /\ turns[Len(turns)] = [session |-> run, role |-> "user"]
          /\ Unsent(db, Len(turns))
    BY <1>2 DEF WholeInv, Midway
  <2>3. Whole(db, Append(turns, [session |-> run, role |-> role]), run, 0)
    BY <1>1, <2>2, LogWhole
  <2>4. \A v \in Ingesters : v = w /\ ingest'[v] = role
    BY <1>1, <2>1 DEF OneThread
  <2>5. Len(turns') # 0 /\ turns'[Len(turns')] = [session |-> run, role |-> role]
    BY <1>1, <2>1
  <2>6. Unsent(db', Len(turns'))
    <3>1. /\ Len(turns') = Len(turns) + 1 /\ Len(turns) \in Nat
          /\ DOMAIN turns = 1..Len(turns)
      BY <1>1, <2>1
    <3>2. \A n : EndsWhole(turns, n) => n # Len(turns')
      BY <3>1 DEF EndsWhole
    <3>3. \A i \in DOMAIN db.sessions : db.sessions[i].covered # Len(turns')
      BY <1>1, <3>1, <3>2 DEF Whole, RowWhole
    <3>4. \A j \in SessionJobs(db) : db.jobs[j].body.advance # Len(turns')
      BY <1>1, <3>2 DEF Whole, JobWhole
    <3> QED
      BY <2>1, <3>3, <3>4 DEF Unsent
  <2>7. Midway'
    BY <2>1, <2>4, <2>5, <2>6 DEF Midway
  <2> QED
    BY <2>1, <2>3, <2>7 DEF WholeInv
<1>3. ASSUME NEW w \in Ingesters, Tick(w)
      PROVE  WholeInv'
  <2>1. /\ db' = OnInteraction(db, turns, run)
        /\ ingest' = [ingest EXCEPT ![w] = "idle"]
        /\ turns' = turns /\ run' = run
    BY <1>3 DEF Tick
  <2>2. Whole(OnInteraction(db, turns, run), turns, run, 0)
    BY <1>1, TickWhole
  <2>3. \A v \in Ingesters : ingest'[v] = "idle"
    BY <1>1, <2>1 DEF OneThread
  <2>4. Midway'
    BY <2>3 DEF Midway
  <2> QED
    BY <2>1, <2>2, <2>4 DEF WholeInv
<1>4. ASSUME NEW j \in DOMAIN db.jobs, Submit(j)
      PROVE  WholeInv'
  <2>1. turns' = turns /\ ingest' = ingest /\ run' = run
        /\ db' = IF j \notin Pending(db.jobs) THEN db
                 ELSE IF db.jobs[j].kind = "session" THEN ApplySession(db, j)
                 ELSE ApplySummary(db, j)
    BY <1>4 DEF Submit
  <2>2. ASSUME \A n \in Nat \ {0} : Unsent(db, n) => Unsent(db', n)
        PROVE  Midway'
    BY <1>1, <2>1, <2>2 DEF WholeInv, Midway
  <2>3. db.jobs[j].kind \in {"session", "summary"}
    BY <1>1, DbFields
  <2>4. CASE j \notin Pending(db.jobs)
    BY <1>1, <2>1, <2>2, <2>4 DEF WholeInv
  <2>5. CASE j \in SessionJobs(db)
    <3>1. /\ Whole(ApplySession(db, j), turns, run, 0)
          /\ \A n \in Nat \ {0} :
               Unsent(db, n) => Unsent(ApplySession(db, j), n)
      BY <1>1, <2>5, ApplySessionWhole
    <3> QED
      BY <2>1, <2>2, <2>5, <3>1 DEF WholeInv, SessionJobs
  <2>6. CASE j \in Pending(db.jobs) /\ db.jobs[j].kind = "summary"
    <3>1. /\ Whole(ApplySummary(db, j), turns, run, 0)
          /\ \A n \in Nat \ {0} :
               Unsent(db, n) => Unsent(ApplySummary(db, j), n)
      BY <1>1, <2>6, ApplySummaryWhole
    <3> QED
      BY <2>1, <2>2, <2>6, <3>1 DEF WholeInv
  <2> QED
    BY <2>3, <2>4, <2>5, <2>6 DEF SessionJobs
<1>5. ASSUME Reopen
      PROVE  WholeInv'
  <2>1. /\ db' = FinalizeLast(db, turns) /\ run' = run + 1
        /\ turns' = turns /\ ingest' = ingest
        /\ \A w \in Ingesters : ingest[w] = "idle"
    BY <1>5 DEF Reopen
  <2>2. Whole(FinalizeLast(db, turns), turns, run + 1, 0)
    BY <1>1, CloseWhole
  <2>3. Midway'
    BY <2>1 DEF Midway
  <2> QED
    BY <2>1, <2>2, <2>3 DEF WholeInv
<1>6. ASSUME Crash
      PROVE  WholeInv'
  <2>1. /\ db' = db /\ run' = run + 1 /\ turns' = turns
        /\ \A w \in Ingesters : ingest'[w] = "idle"
    BY <1>6 DEF Crash
  <2>2. Whole(db, turns, run + 1, 0)
    BY <1>1, NextRunWhole
  <2>3. Midway'
    BY <2>1 DEF Midway
  <2> QED
    BY <2>1, <2>2, <2>3 DEF WholeInv
<1>7. ASSUME NEW w \in Ingesters, EpisodicFails(w)
      PROVE  WholeInv'
  <2>1. /\ db' = db /\ run' = run /\ turns' = turns
        /\ ingest' = [ingest EXCEPT ![w] = "failed"]
    BY <1>7 DEF EpisodicFails
  <2>2. \A v \in Ingesters : ingest'[v] = "failed"
    BY <1>1, <2>1 DEF OneThread
  <2>3. Midway'
    BY <2>2 DEF Midway
  <2> QED
    BY <1>1, <2>1, <2>3 DEF WholeInv
<1>8. CASE UNCHANGED vars
  BY <1>8 DEF vars, WholeInv, Midway
<1> QED
  BY <1>2, <1>3, <1>4, <1>5, <1>6, <1>7, <1>8 DEF Next, LogUser, LogAssistant

\* With one pipeline thread the second invariant holds too.
THEOREM WholeInvariance == OneThread => (Spec => []WholeInv)
<1> SUFFICES ASSUME OneThread PROVE Spec => []WholeInv
  OBVIOUS
<1>1. Init => WholeInv
  BY WholeInitially
<1>2. Inv /\ Inv' /\ WholeInv /\ [Next]_vars => WholeInv'
  BY WholeStep
<1> QED
  BY <1>1, <1>2, Invariance, PTL DEF Spec

\* One pipeline thread loses no turn to the overlapping window: whatever dies
\* and however late the answers, a summary reflects all it claims to cover.
THEOREM CoveredTurnsAreSummarized ==
  OneThread => (Spec => []CoveredIsSummarized)
<1> SUFFICES ASSUME OneThread PROVE Spec => []CoveredIsSummarized
  OBVIOUS
<1>1. WholeInv => CoveredIsSummarized
  BY DEF WholeInv, Whole, RowWhole, Reflects, CoveredIsSummarized
<1> QED
  BY <1>1, WholeInvariance, PTL

\* And once nothing waits, the summary of a closed session is complete.
THEOREM DrainedSessionsAreComplete ==
  OneThread => (Spec => []DrainedSessionIsComplete)
<1> SUFFICES ASSUME OneThread PROVE Spec => []DrainedSessionIsComplete
  OBVIOUS
<1>1. ASSUME Inv, WholeInv PROVE DrainedSessionIsComplete
  <2> SUFFICES ASSUME Pending(db.jobs) = {}, NEW i \in DOMAIN db.sessions,
                      db.sessions[i].finalized,
                      NEW n \in OwnTurns(turns, db.sessions[i].sid)
               PROVE  n \in db.sessions[i].summary
    BY DEF DrainedSessionIsComplete
  <2>1. i # 0
    BY <1>1, DbFields DEF Inv, Good
  <2>2. Accounted(db, turns, i) /\ RowWhole(db.sessions[i], turns, run)
    BY <1>1, <2>1 DEF WholeInv, Whole, ClosedWhole
  <2>3. n <= db.sessions[i].covered
    BY <2>2 DEF Accounted, SessionJobs
  <2> QED
    BY <2>2, <2>3 DEF RowWhole, Reflects
<1>2. Inv /\ WholeInv => DrainedSessionIsComplete
  BY <1>1
<1> QED
  BY <1>2, Invariance, WholeInvariance, PTL
(***************************************************************************)
(* No full batch is left: the third invariant.                             *)
(*                                                                         *)
(* Every operation but finalize ends with the fold trigger, so a full      *)
(* batch waits after it.  finalize forces a job for the session it closes, *)
(* whose answer ends with the trigger; it forces none only when the        *)
(* session has no turn, and its run, which is over, gets no more of them.  *)
(* The number of pipeline threads does not matter.                         *)
(***************************************************************************)

\* The turns belong to the runs so far, and no run begins with an answer.
Rooted(t, r) ==
  \A n \in DOMAIN t :
    /\ t[n].session <= r
    /\ t[n].role = "assistant" =>
         n - 1 \in DOMAIN t /\ t[n - 1].session = t[n].session

SidsUpTo(d, r) == \A i \in DOMAIN d.sessions : d.sessions[i].sid <= r

\* A batch that is due without a job was completed by a turnless session of
\* an earlier run.
Batched(d, t, r) ==
  Pending(d.jobs) = {} /\ FoldDue(d) =>
    LET sid == d.sessions[LastSeq(d)].sid IN
    /\ LastSeq(d) \in DOMAIN d.sessions
    /\ sid < r
    /\ OwnTurns(t, sid) = {}

FoldInv ==
  /\ Rooted(turns, run)
  /\ \A w \in Ingesters : ingest[w] = "user" =>
       Len(turns) # 0 /\ turns[Len(turns)].session = run
  /\ SidsUpTo(db, run)
  /\ Batched(db, turns, run)

\* A session with turns never has an empty window, however many threads log.
LEMMA TurnsHaveWindow ==
  ASSUME NEW t \in Seq(Turn), NEW r, Rooted(t, r), NEW sid, NEW c \in Nat,
         OwnTurns(t, sid) # {}
  PROVE  RecentTurns(t, sid, c) # {}
<1> DEFINE own == OwnTurns(t, sid)
           floor == Max(own) - DiaryWindow * RowsPerTurn + 1
           low == Lower(c, floor)
           wide == {n \in own : n >= low}
           m == Min(wide)
<1>1. /\ own \in SUBSET DOMAIN t /\ own \in SUBSET Nat /\ own # {}
      /\ \A n \in own : n \in DOMAIN t /\ t[n].session = sid
      /\ \A n \in DOMAIN t : n \in Nat /\ (t[n].session = sid => n \in own)
  BY DEF OwnTurns
<1>2. RecentTurns(t, sid, c) = IF t[m].role = "assistant" THEN wide \ {m}
                               ELSE wide
  BY DEF RecentTurns
<1> HIDE DEF own
<1>3. Max(own) \in own /\ Max(own) \in Nat
  BY <1>1, NewestTurn
<1>4. low \in Int /\ low <= Max(own) - 1
  <2>1. floor \in Int /\ floor <= Max(own) - 1
    BY <1>3, DiaryConfigAssumption DEF RowsPerTurn
  <2> HIDE DEF floor
  <2> QED
    BY <1>3, <2>1 DEF Lower
<1> HIDE DEF low
<1>5. wide \in SUBSET Nat /\ Max(own) \in wide
  BY <1>1, <1>3, <1>4
<1>6. m \in wide /\ \A n \in wide : m <= n
  <2> HIDE DEF wide
  <2> QED
    BY <1>5, MinProperty
<1> HIDE DEF m
<1>7. ASSUME t[m].role = "assistant" PROVE m # Max(own)
  <2>1. m \in own /\ m \in DOMAIN t /\ m \in Nat /\ t[m].session = sid
    BY <1>1, <1>6
  <2>2. m - 1 \in DOMAIN t /\ t[m - 1].session = sid
    BY <1>7, <2>1 DEF Rooted
  <2>3. m - 1 \in own /\ m - 1 \in Nat
    BY <1>1, <2>2
  <2>4. ~(m - 1 >= low)
    BY <1>6, <2>1, <2>3
  <2> QED
    BY <1>3, <1>4, <2>1, <2>3, <2>4
<1> HIDE DEF wide
<1> QED
  BY <1>2, <1>5, <1>7

\* So a forced job is enqueued for it.
LEMMA ForcedJobWaits ==
  ASSUME NEW t \in Seq(Turn), NEW r, Rooted(t, r), NEW d \in DbType,
         NEW i \in DOMAIN d.sessions, OwnTurns(t, d.sessions[i].sid) # {}
  PROVE  Pending(EnqueueSession(d, t, i, TRUE).jobs) # {}
<1> DEFINE row == d.sessions[i]
           window == RecentTurns(t, row.sid, row.covered)
           body == SessionBody(row, window)
           e == EnqueueSession(d, t, i, TRUE)
           new == EnqueueJob(d.jobs, "session", i, body)
<1>1. /\ row \in Session /\ i \in Nat /\ row.covered \in Nat
      /\ d.jobs \in Seq(Jobs)
      /\ d = [sessions |-> d.sessions, persistent |-> d.persistent,
              jobs |-> d.jobs]
  BY DbFields DEF DbType
<1>2. window # {}
  <2> HIDE DEF row
  <2> QED
    BY <1>1, TurnsHaveWindow DEF row
<1>3. e = [d EXCEPT !.jobs = new]
  BY <1>2 DEF EnqueueSession, Skipped
<1>4. body \in Body
  <2>1. /\ window \in SUBSET OwnTurns(t, row.sid)
        /\ Max(window) \in OwnTurns(t, row.sid)
    <3> HIDE DEF row
    <3> QED
      BY <1>1, <1>2, WindowReachesNewest DEF row
  <2>2. OwnTurns(t, row.sid) \in SUBSET Nat /\ row.summary \in SUBSET Nat
    BY <1>1 DEF OwnTurns, Session, TurnIds
  <2> HIDE DEF row, window
  <2> QED
    BY <2>1, <2>2 DEF SessionBody, Body, TurnIds
<1> HIDE DEF body
<1>5. \E k \in Pending(new) : new[k] = NewJob("session", i, body)
  <2>1. EnqueueLeaves(d.jobs, new, "session", i, body)
    BY <1>1, <1>4, EnqueueLeavesWaiting DEF Jobs
  <2> HIDE DEF new
  <2> QED
    BY <2>1 DEF EnqueueLeaves
<1> HIDE DEF new, e
<1>6. e.jobs = new
  BY <1>1, <1>3
<1> QED
  BY <1>5, <1>6 DEF e

\* After the fold trigger a batch that is due waits.
LEMMA TriggeredBatched ==
  ASSUME NEW t, NEW u, NEW r, NEW d, NEW lo, NEW f, Good(d, t, lo, f)
  PROVE  Batched(EnqueueSummary(d), u, r)
<1> DEFINE e == EnqueueSummary(d)
<1>1. FoldsIfDue(d, e)
  BY EnqueueSummaryEffect
<1> HIDE DEF e
<1>2. e.sessions = d.sessions /\ (FoldDue(d) => FoldWaits(e))
  BY <1>1 DEF FoldsIfDue
<1>3. FoldDue(e) <=> FoldDue(d)
  BY <1>2 DEF FoldDue, FinalizedUnfolded
<1>4. FoldWaits(e) => Pending(e.jobs) # {}
  BY DEF FoldWaits
<1> QED
  BY <1>2, <1>3, <1>4 DEF Batched, e

\* A tick opens a row for the live run and no other.
LEMMA TickSids ==
  ASSUME NEW t \in Seq(Turn), NEW r \in Nat, NEW d, NEW lo \in Nat, NEW f,
         Good(d, t, lo, f), lo <= f, SidsUpTo(d, r)
  PROVE  SidsUpTo(OnInteraction(d, t, r), r) /\ Batched(OnInteraction(d, t, r), t, r)
<1> DEFINE last == LastSeq(d)
           rolled == Rollover(d, t, r)
           opened == UpsertSession(rolled, r)
           i == CHOOSE n \in SeqOf(opened, r) : TRUE
           counted == BumpInteraction(opened, i)
           rolling == Cadence(counted, t, r)
<1>0. OnInteraction(d, t, r) = EnqueueSummary(rolling)
  BY DEF OnInteraction, CountInteraction
<1>1. Good(rolled, t, lo, f) /\ MayOpen(rolled, r)
  BY RolloverGood
<1>2. SidsUpTo(rolled, r)
  <2> DEFINE closed == FinalizeSession(d, last)
  <2>1. CASE last = 0 \/ d.sessions[last].sid = r \/ d.sessions[last].finalized
    <3>1. rolled = d
      BY <2>1 DEF Rollover
    <3> QED
      BY <3>1
  <2>2. CASE ~(last = 0 \/ d.sessions[last].sid = r \/ d.sessions[last].finalized)
    <3>1. rolled = EnqueueSession(closed, t, last, TRUE)
      BY <2>2 DEF Rollover
    <3>2. last \in DOMAIN d.sessions
      BY <2>2, DbFields DEF Good, LastSeq
    <3> HIDE DEF last, rolled
    <3>3. CountsOrCloses(d, closed)
      BY <3>2, FinalizeGood
    <3> HIDE DEF closed
    <3>4. SidsUpTo(closed, r) /\ closed \in DbType /\ last \in DOMAIN closed.sessions
      BY <3>2, <3>3, DbFields DEF SidsUpTo, CountsOrCloses, Good
    <3>5. rolled.sessions = closed.sessions
      BY <3>1, <3>4, EnqueueSessionShape
    <3> QED
      BY <3>4, <3>5 DEF SidsUpTo
  <2> QED
    BY <2>1, <2>2
<1> HIDE DEF rolled, last
<1>3. /\ Good(opened, t, lo, f) /\ SeqOf(opened, r) # {}
      /\ Keeps(rolled, opened, r, 0)
  BY <1>1, UpsertGood, UpsertKeeps
<1> HIDE DEF opened
<1>4. SidsUpTo(opened, r)
  BY <1>2, <1>3 DEF SidsUpTo, Keeps
<1>5. i \in SeqOf(opened, r) /\ i \in DOMAIN opened.sessions
  BY <1>3 DEF SeqOf
<1> HIDE DEF i
<1>6. /\ CountsOrCloses(opened, counted)
      /\ \A n \in DOMAIN opened.sessions :
           counted.sessions[n].finalized = opened.sessions[n].finalized
  BY <1>3, <1>5, BumpGood
<1> HIDE DEF counted
<1>7. Good(counted, t, lo, f) /\ Keeps(opened, counted, r, 0)
  BY <1>3, <1>6, CountsOrClosesGood, CountsOrClosesKeeps
<1>8. SidsUpTo(counted, r) /\ SeqOf(counted, r) # {}
  BY <1>4, <1>5, <1>7 DEF SidsUpTo, SeqOf, Keeps
<1>9. Good(rolling, t, lo, f) /\ rolling.sessions = counted.sessions
  BY <1>7, <1>8, CadenceGood
<1> HIDE DEF rolling
<1>10. EnqueueSummary(rolling).sessions = rolling.sessions
  BY <1>9, EnqueueSummaryEffect DEF FoldsIfDue
<1>11. SidsUpTo(EnqueueSummary(rolling), r)
  BY <1>8, <1>9, <1>10 DEF SidsUpTo
<1>12. Batched(EnqueueSummary(rolling), t, r)
  BY <1>9, TriggeredBatched
<1> QED
  BY <1>0, <1>11, <1>12

\* close(): the newest session has a job now, or no turn.
LEMMA CloseBatched ==
  ASSUME NEW t \in Seq(Turn), NEW r \in Nat, NEW d, NEW lo \in Nat, NEW f,
         Good(d, t, lo, f), Rooted(t, r), SidsUpTo(d, r), Batched(d, t, r)
  PROVE  /\ SidsUpTo(FinalizeLast(d, t), r + 1)
         /\ Batched(FinalizeLast(d, t), t, r + 1)
<1> DEFINE last == LastSeq(d)
           closed == FinalizeSession(d, last)
           e == FinalizeLast(d, t)
<1>1. /\ d \in DbType /\ \A i \in DOMAIN d.sessions : d.sessions[i].sid \in Nat
      /\ last # 0 => last \in DOMAIN d.sessions
  BY DbFields DEF Good, LastSeq
<1>2. CASE last = 0
  <2>1. e = d
    BY <1>2 DEF FinalizeLast
  <2>2. SidsUpTo(d, r + 1) /\ Batched(d, t, r + 1)
    BY <1>1 DEF SidsUpTo, Batched
  <2> QED
    BY <2>1, <2>2
<1>3. CASE last # 0
  <2>1. /\ e = EnqueueSession(closed, t, last, TRUE)
        /\ last \in DOMAIN d.sessions /\ TRUE \in BOOLEAN
    BY <1>1, <1>3 DEF FinalizeLast
  <2>2. CountsOrCloses(d, closed)
    <3> HIDE DEF last
    <3> QED
      BY <2>1, FinalizeGood
  <2>3. LastSeq(closed) = last
    BY <2>2 DEF CountsOrCloses, LastSeq
  <2> HIDE DEF closed, last
  <2>4. /\ closed \in DbType /\ DOMAIN closed.sessions = DOMAIN d.sessions
        /\ \A i \in DOMAIN d.sessions :
             closed.sessions[i].sid = d.sessions[i].sid
    BY <1>1, <2>2, DbFields DEF CountsOrCloses
  <2>5. e.sessions = closed.sessions
    <3>1. EnqueueSession(closed, t, last, TRUE).sessions = closed.sessions
      BY <2>1, <2>4, EnqueueSessionShape
    <3> QED
      BY <2>1, <3>1
  <2>6. CASE OwnTurns(t, closed.sessions[last].sid) # {}
    <3>1. Pending(e.jobs) # {}
      BY <2>1, <2>4, <2>6, ForcedJobWaits
    <3> HIDE DEF e
    <3> QED
      BY <1>1, <2>4, <2>5, <3>1 DEF SidsUpTo, Batched, e
  <2>7. CASE OwnTurns(t, closed.sessions[last].sid) = {}
    <3> HIDE DEF e
    <3>1. LastSeq(e) = last
      BY <2>3, <2>5 DEF LastSeq
    <3>2. e.sessions[last].sid < r + 1
      <4>1. d.sessions[last].sid \in Nat /\ d.sessions[last].sid <= r
        BY <1>1, <2>1 DEF SidsUpTo
      <4>2. e.sessions[last].sid = d.sessions[last].sid
        BY <2>1, <2>4, <2>5
      <4> QED
        BY <4>1, <4>2
    <3>3. SidsUpTo(e, r + 1)
      BY <1>1, <2>4, <2>5 DEF SidsUpTo
    <3> QED
      BY <2>1, <2>4, <2>5, <2>7, <3>1, <3>2, <3>3 DEF Batched, e
  <2> QED
    BY <2>6, <2>7
<1> QED
  BY <1>2, <1>3

\* A turn is logged for the live run, an answer behind a row of its run.
LEMMA LogFolds ==
  ASSUME FoldInv, turns \in Seq(Turn), db \in DbType, run \in Nat,
         ingest \in [Ingesters -> Stages],
         NEW w \in Ingesters, NEW role \in {"user", "assistant"},
         LogTurn(w, role), role = "assistant" => ingest[w] = "user"
  PROVE  FoldInv'
<1> DEFINE x == [session |-> run, role |-> role]
           new == Len(turns) + 1
<1>1. /\ turns' = Append(turns, x) /\ db' = db /\ run' = run
      /\ ingest' = [ingest EXCEPT ![w] = role] /\ x.session = run /\ x.role = role
  BY DEF LogTurn
<1> HIDE DEF x
<1>2. /\ Len(turns) \in Nat /\ DOMAIN turns = 1..Len(turns)
      /\ DOMAIN turns' = 1..new /\ Len(turns') = new /\ turns'[new] = x
      /\ \A n \in DOMAIN turns : turns'[n] = turns[n]
  BY <1>1
<1>3. \A n \in DOMAIN turns' : n \in DOMAIN turns \/ n = new
  BY <1>2
<1>4. Rooted(turns', run)
  <2> SUFFICES ASSUME NEW n \in DOMAIN turns'
               PROVE  /\ turns'[n].session <= run
                      /\ turns'[n].role = "assistant" =>
                           /\ n - 1 \in DOMAIN turns'
                           /\ turns'[n - 1].session = turns'[n].session
    BY DEF Rooted
  <2>1. CASE n \in DOMAIN turns
    <3>1. /\ turns[n].session <= run
          /\ turns[n].role = "assistant" =>
               n - 1 \in DOMAIN turns /\ turns[n - 1].session = turns[n].session
      BY <2>1 DEF FoldInv, Rooted
    <3>2. n - 1 \in DOMAIN turns => n - 1 \in DOMAIN turns'
      BY <1>2
    <3> QED
      BY <1>2, <2>1, <3>1, <3>2
  <2>2. CASE n = new
    <3>1. n - 1 = Len(turns)
      BY <1>2, <2>2
    <3>2. ASSUME role = "assistant"
          PROVE  n - 1 \in DOMAIN turns' /\ turns'[n - 1].session = run
      <4>1. Len(turns) \in DOMAIN turns /\ turns[Len(turns)].session = run
        BY <1>2, <3>2 DEF FoldInv
      <4> QED
        BY <1>2, <3>1, <4>1
    <3>3. turns'[n].session = run /\ turns'[n].role = role
      BY <1>1, <1>2, <2>2
    <3>4. run <= run
      OBVIOUS
    <3> QED
      BY <3>2, <3>3, <3>4
  <2> QED
    BY <1>3, <2>1, <2>2
<1>5. Len(turns') # 0 /\ turns'[Len(turns')].session = run'
  BY <1>1, <1>2
<1>6. Batched(db, turns', run)
  <2> DEFINE sid == db.sessions[LastSeq(db)].sid
  <2> SUFFICES ASSUME LastSeq(db) \in DOMAIN db.sessions, sid < run,
                      OwnTurns(turns, sid) = {}
               PROVE  OwnTurns(turns', sid) = {}
    BY DEF Batched, FoldInv
  <2>1. sid \in Nat
    BY DbFields
  <2> QED
    BY <1>1, <1>2, <1>3, <2>1 DEF OwnTurns
<1>7. SidsUpTo(db, run)
  BY DEF FoldInv
<1> QED
  BY <1>1, <1>4, <1>5, <1>6, <1>7 DEF FoldInv

\* Every step keeps it.
LEMMA FoldStep ==
  ASSUME Inv, FoldInv, [Next]_vars
  PROVE  FoldInv'
<1> DEFINE c == db.persistent.count
<1>1. /\ Good(db, turns, c, c) /\ turns \in Seq(Turn) /\ run \in Nat
      /\ ingest \in [Ingesters -> Stages]
      /\ db \in DbType /\ c \in Nat /\ c <= c
      /\ \A i \in DOMAIN db.sessions : db.sessions[i].sid \in Nat
  <2>1. Good(db, turns, c, c) /\ db \in DbType
    BY DEF Inv, Good
  <2>2. c \in Nat /\ \A i \in DOMAIN db.sessions : db.sessions[i].sid \in Nat
    BY <2>1, DbFields DEF Persistent
  <2> QED
    BY <2>1, <2>2 DEF Inv
<1> HIDE DEF c
<1>2. ASSUME NEW w \in Ingesters, NEW role \in {"user", "assistant"},
             LogTurn(w, role), role = "assistant" => ingest[w] = "user"
      PROVE  FoldInv'
  BY <1>1, <1>2, LogFolds
<1>3. ASSUME turns' = turns, run' = run, NEW w \in Ingesters,
             NEW stage \in {"idle", "failed"},
             ingest' = [ingest EXCEPT ![w] = stage],
             SidsUpTo(db', run), Batched(db', turns, run)
      PROVE  FoldInv'
  <2>1. \A v \in Ingesters : ingest'[v] = "user" => ingest[v] = "user"
    BY <1>1, <1>3
  <2> QED
    BY <1>3, <2>1 DEF FoldInv
<1>4. ASSUME NEW w \in Ingesters, Tick(w)
      PROVE  FoldInv'
  <2>1. /\ db' = OnInteraction(db, turns, run) /\ turns' = turns /\ run' = run
        /\ ingest' = [ingest EXCEPT ![w] = "idle"]
    BY <1>4 DEF Tick
  <2>2. SidsUpTo(OnInteraction(db, turns, run), run)
        /\ Batched(OnInteraction(db, turns, run), turns, run)
    BY <1>1, TickSids DEF FoldInv
  <2> QED
    BY <1>3, <2>1, <2>2
<1>5. ASSUME NEW w \in Ingesters, EpisodicFails(w)
      PROVE  FoldInv'
  BY <1>3, <1>5 DEF EpisodicFails, FoldInv
<1>6. ASSUME NEW j \in DOMAIN db.jobs, Submit(j)
      PROVE  FoldInv'
  <2>1. turns' = turns /\ ingest' = ingest /\ run' = run
        /\ db' = IF j \notin Pending(db.jobs) THEN db
                 ELSE IF db.jobs[j].kind = "session" THEN ApplySession(db, j)
                 ELSE ApplySummary(db, j)
    BY <1>6 DEF Submit
  <2>2. db.jobs[j].kind \in {"session", "summary"}
    BY <1>1, DbFields
  <2>3. ASSUME NEW m, NEW g, NEW lo, Good(m, turns, lo, g),
               db' = EnqueueSummary(m), DOMAIN m.sessions = DOMAIN db.sessions,
               \A i \in DOMAIN db.sessions :
                 m.sessions[i].sid = db.sessions[i].sid
        PROVE  FoldInv'
    <3>1. Batched(db', turns, run)
      BY <2>3, TriggeredBatched
    <3>2. db'.sessions = m.sessions
      BY <2>3, EnqueueSummaryEffect DEF FoldsIfDue
    <3>3. SidsUpTo(db', run)
      BY <2>3, <3>2 DEF FoldInv, SidsUpTo
    <3> QED
      BY <2>1, <3>1, <3>3 DEF FoldInv
  <2>4. CASE j \notin Pending(db.jobs)
    BY <2>1, <2>4 DEF FoldInv
  <2>5. CASE j \in SessionJobs(db)
    <3> DEFINE s == SetSessionSummary(db, db.jobs[j].target,
                                      db.jobs[j].body.input,
                                      db.jobs[j].body.advance)
               m == Answered(s, j)
    <3>1. ApplySession(db, j) = EnqueueSummary(m)
      BY DEF ApplySession, Answered
    <3>2. SessionAnswered(db, m, j) /\ Good(m, turns, c, c)
      BY <1>1, <2>5, SessionAnsweredEffect
    <3> HIDE DEF m
    <3>3. db' = EnqueueSummary(m)
      BY <2>1, <2>5, <3>1 DEF SessionJobs
    <3> QED
      BY <2>3, <3>2, <3>3 DEF SessionAnswered
  <2>6. CASE j \in Pending(db.jobs) /\ db.jobs[j].kind = "summary"
    <3>1. PICK m : /\ FoldAnswered(db, m, j)
                   /\ ApplySummary(db, j) = EnqueueSummary(m)
                   /\ \E g : Good(m, turns, c, g)
      BY <1>1, <2>6, FoldAnsweredEffect
    <3>2. PICK g : Good(m, turns, c, g)
      BY <3>1
    <3>3. db' = EnqueueSummary(m)
      BY <2>1, <2>6, <3>1
    <3> QED
      BY <2>3, <3>1, <3>2, <3>3 DEF FoldAnswered
  <2> QED
    BY <2>2, <2>4, <2>5, <2>6 DEF SessionJobs
<1>7. ASSUME turns' = turns, run' = run + 1,
             \A w \in Ingesters : ingest'[w] = "idle",
             SidsUpTo(db', run + 1), Batched(db', turns, run + 1)
      PROVE  FoldInv'
  <2>1. \A n \in DOMAIN turns : turns[n].session \in Nat
    BY <1>1, TurnSession
  <2>2. Rooted(turns, run + 1)
    BY <1>1, <2>1 DEF FoldInv, Rooted
  <2> QED
    BY <1>7, <2>2 DEF FoldInv
<1>8. ASSUME Reopen PROVE FoldInv'
  <2>1. /\ db' = FinalizeLast(db, turns) /\ run' = run + 1 /\ turns' = turns
        /\ \A w \in Ingesters : ingest'[w] = "idle"
    BY <1>8 DEF Reopen
  <2>2. /\ SidsUpTo(FinalizeLast(db, turns), run + 1)
        /\ Batched(FinalizeLast(db, turns), turns, run + 1)
    BY <1>1, CloseBatched DEF FoldInv
  <2> QED
    BY <1>7, <2>1, <2>2
<1>9. ASSUME Crash PROVE FoldInv'
  <2>1. /\ db' = db /\ run' = run + 1 /\ turns' = turns
        /\ \A w \in Ingesters : ingest'[w] = "idle"
    BY <1>9 DEF Crash
  <2>2. SidsUpTo(db, run + 1) /\ Batched(db, turns, run + 1)
    BY <1>1 DEF FoldInv, SidsUpTo, Batched
  <2> QED
    BY <1>7, <2>1, <2>2
<1>10. CASE UNCHANGED vars
  BY <1>10 DEF vars, FoldInv
<1> QED
  BY <1>2, <1>4, <1>5, <1>6, <1>8, <1>9, <1>10 DEF Next, LogUser, LogAssistant

\* Whatever raises or dies between the operations, an empty outbox leaves no
\* full batch but one that a session without a turn completed.
THEOREM DrainedBatchesAreFolded == Spec => []DrainedBatchIsFolded
<1>1. Init => FoldInv
  <2> SUFFICES ASSUME Init PROVE FoldInv
    OBVIOUS
  <2>1. /\ DOMAIN turns = {} /\ DOMAIN db.sessions = {}
        /\ \A w \in Ingesters : ingest[w] = "idle"
    BY DEF Init
  <2>2. ~FoldDue(db)
    <3>1. FinalizedUnfolded(db) = {} /\ Cardinality({}) = 0
      BY <2>1, FS_EmptySet DEF FinalizedUnfolded
    <3> QED
      BY <3>1, DiaryConfigAssumption DEF FoldDue
  <2> QED
    BY <2>1, <2>2 DEF FoldInv, Rooted, SidsUpTo, Batched
<1>2. Inv /\ FoldInv /\ [Next]_vars => FoldInv'
  BY FoldStep
<1>3. FoldInv => DrainedBatchIsFolded
  BY DEF FoldInv, Batched, DrainedBatchIsFolded
<1> QED
  BY <1>1, <1>2, <1>3, Invariance, PTL DEF Spec
=============================================================================
