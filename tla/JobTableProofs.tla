--------------------------- MODULE JobTableProofs ---------------------------
(***************************************************************************)
(* What the operations on the job table do to a table, for every kind,     *)
(* target and body a job can have.  The proofs about the bus and about the *)
(* diary cite these lemmas instead of the operations' definitions.         *)
(* And what Min and Max of FiniteSetsExt return, by which both speak of    *)
(* the oldest and the newest of what they choose from.                     *)
(***************************************************************************)
EXTENDS JobTable, FiniteSetsExt, WellFoundedInduction, TLAPS

\* < is well-founded on the naturals, so a set of them has a least member.
LEMMA MinExists ==
  ASSUME NEW S \in SUBSET Nat, S # {}
  PROVE  \E x \in S : \A y \in S : x <= y
<1>1. PICK x \in S : \A y \in S : ~ (<<y, x>> \in OpToRel(<, Nat))
  BY NatLessThanWellFounded, WFMin
<1>2. \A y \in S : ~ (y < x)
  BY <1>1 DEF OpToRel
<1> QED
  BY <1>2

\* Min of a set of naturals is in it, and below all of it.
LEMMA MinProperty ==
  ASSUME NEW S \in SUBSET Nat, S # {}
  PROVE  /\ Min(S) \in S
         /\ \A y \in S : Min(S) <= y
  BY MinExists DEF Min

\* Max of a bounded set of naturals is in it, and above all of it.
LEMMA MaxProperty ==
  ASSUME NEW n \in Nat, NEW S \in SUBSET (0..n), S # {}
  PROVE  /\ Max(S) \in S
         /\ \A y \in S : Max(S) >= y
<1>0. \A s \in S : s \in Nat /\ n - s \in Nat
  OBVIOUS
<1>1. {n - s : s \in S} \in SUBSET Nat /\ {n - s : s \in S} # {}
  <2>1. {n - s : s \in S} \in SUBSET Nat
    BY <1>0
  <2>2. PICK s \in S : TRUE
    OBVIOUS
  <2>3. n - s \in {n - t : t \in S}
    BY <2>2
  <2> QED
    BY <2>1, <2>3
<1>2. PICK d \in {n - s : s \in S} : \A e \in {n - s : s \in S} : d <= e
  BY <1>1, MinExists
<1>3. PICK x \in S : d = n - x
  BY <1>2
<1>4. \A y \in S : x >= y
  <2>1. TAKE y \in S
  <2>2. n - y \in {n - s : s \in S}
    BY <2>1
  <2>3. n - x <= n - y
    BY <1>2, <1>3, <2>2
  <2> QED
    BY <2>1, <2>3
<1> QED
  BY <1>3, <1>4 DEF Max

\* At most one job of a (kind, target) is pending, and no job follows it.
NewestOnly(table) ==
  \A i, j \in DOMAIN table :
    /\ i < j
    /\ table[i].kind = table[j].kind
    /\ table[i].target = table[j].target
    => table[i].status # "pending"

\* Superseding changes nothing but the status of the waiting job.
LEMMA SupersedeShape ==
  ASSUME NEW K, NEW T, NEW B, NEW table \in Seq(Job(K, T, B)),
         NEW kind, NEW target
  PROVE  /\ Supersede(table, kind, target) \in Seq(Job(K, T, B))
         /\ Len(Supersede(table, kind, target)) = Len(table)
         /\ \A i \in 1..Len(table) :
              Supersede(table, kind, target)[i] =
                IF i \in PendingOne(table, kind, target)
                THEN WithStatus(table[i], "superseded")
                ELSE table[i]
<1> DEFINE s == Supersede(table, kind, target)
<1>1. s = [i \in 1..Len(table) |->
             IF i \in PendingOne(table, kind, target)
             THEN WithStatus(table[i], "superseded") ELSE table[i]]
  BY DEF Supersede
<1>2. \A i \in 1..Len(table) : table[i] \in Job(K, T, B)
  OBVIOUS
<1>3. \A i \in 1..Len(table) :
        WithStatus(table[i], "superseded") \in Job(K, T, B)
  BY <1>2 DEF Job, Statuses, WithStatus
<1>4. \A i \in 1..Len(table) : s[i] \in Job(K, T, B)
  BY <1>1, <1>2, <1>3
<1>5. s \in [1..Len(table) -> Job(K, T, B)]
  BY <1>1, <1>4
<1>6. s \in Seq(Job(K, T, B)) /\ Len(s) = Len(table)
  BY <1>5
<1> QED
  BY <1>1, <1>6

\* enqueue appends the new job, pending, and touches only the job it replaces.
LEMMA EnqueueShape ==
  ASSUME NEW K, NEW T, NEW B, NEW table \in Seq(Job(K, T, B)),
         NEW kind \in K, NEW target \in T, NEW body \in B
  PROVE  LET new == EnqueueJob(table, kind, target, body) IN
         /\ new \in Seq(Job(K, T, B))
         /\ Len(new) = Len(table) + 1
         /\ new[Len(table) + 1] = NewJob(kind, target, body)
         /\ \A i \in 1..Len(table) :
              new[i] = IF i \in PendingOne(table, kind, target)
                       THEN WithStatus(table[i], "superseded")
                       ELSE table[i]
<1> DEFINE s == Supersede(table, kind, target)
<1>1. /\ s \in Seq(Job(K, T, B))
      /\ Len(s) = Len(table)
      /\ \A i \in 1..Len(table) :
           s[i] = IF i \in PendingOne(table, kind, target)
                  THEN WithStatus(table[i], "superseded") ELSE table[i]
  BY SupersedeShape
<1>2. NewJob(kind, target, body) \in Job(K, T, B)
  BY DEF NewJob, Job, Statuses
<1>3. EnqueueJob(table, kind, target, body)
        = Append(s, NewJob(kind, target, body))
  BY DEF EnqueueJob
<1> HIDE DEF s
<1> QED
  BY <1>1, <1>2, <1>3

\* mark_done touches the status of one job.
LEMMA MarkDoneShape ==
  ASSUME NEW K, NEW T, NEW B, NEW table \in Seq(Job(K, T, B)),
         NEW j \in DOMAIN table
  PROVE  /\ MarkDone(table, j) \in Seq(Job(K, T, B))
         /\ Len(MarkDone(table, j)) = Len(table)
         /\ DOMAIN MarkDone(table, j) = DOMAIN table
         /\ MarkDone(table, j)[j] = WithStatus(table[j], "done")
         /\ \A i \in DOMAIN table \ {j} : MarkDone(table, j)[i] = table[i]
<1>0. table[j] \in Job(K, T, B)
  OBVIOUS
<1>1. WithStatus(table[j], "done") \in Job(K, T, B)
  BY <1>0 DEF Job, Statuses, WithStatus
<1>2. MarkDone(table, j) = [table EXCEPT ![j] = WithStatus(table[j], "done")]
  BY DEF MarkDone
<1> QED
  BY <1>1, <1>2

\* One pending job per (kind, target), the newest, survives an enqueue: it is
\* the supersede in the same transaction that makes room.
LEMMA EnqueueKeepsNewest ==
  ASSUME NEW K, NEW T, NEW B, NEW table \in Seq(Job(K, T, B)),
         NEW kind \in K, NEW target \in T, NEW body \in B,
         NewestOnly(table)
  PROVE  NewestOnly(EnqueueJob(table, kind, target, body))
<1> DEFINE new == EnqueueJob(table, kind, target, body)
           n == Len(table)
<1>1. /\ new \in Seq(Job(K, T, B)) /\ Len(new) = n + 1
      /\ new[n + 1] = NewJob(kind, target, body)
      /\ \A i \in 1..n : new[i] = IF i \in PendingOne(table, kind, target)
                                  THEN WithStatus(table[i], "superseded")
                                  ELSE table[i]
  BY EnqueueShape
<1>2. \A i \in 1..n : table[i] \in Job(K, T, B)
  OBVIOUS
<1>3. \A i \in 1..n : /\ new[i].kind = table[i].kind
                      /\ new[i].target = table[i].target
                      /\ new[i].status = "pending" =>
                           table[i].status = "pending"
                           /\ i \notin PendingOne(table, kind, target)
  BY <1>1, <1>2 DEF Job, WithStatus
<1>4. n \in Nat /\ DOMAIN new = 1..(n + 1) /\ DOMAIN table = 1..n
  BY <1>1
<1>5. /\ new[n + 1].kind = kind
      /\ new[n + 1].target = target
  BY <1>1 DEF NewJob
<1> HIDE DEF new, n
<1> SUFFICES ASSUME NEW i \in 1..(n + 1), NEW j \in 1..(n + 1), i < j,
                    new[i].kind = new[j].kind, new[i].target = new[j].target,
                    new[i].status = "pending"
             PROVE  FALSE
  BY <1>4 DEF NewestOnly, new
<1>6. i \in 1..n
  BY <1>4
<1>7. CASE j \in 1..n
  BY <1>3, <1>4, <1>6, <1>7 DEF NewestOnly
<1>8. CASE j = n + 1
  <2>1. table[i].kind = kind /\ table[i].target = target
    BY <1>3, <1>5, <1>6, <1>8
  <2>2. table[i].status = "pending" /\ i \notin PendingOne(table, kind, target)
    BY <1>3, <1>6
  <2> QED
    BY <1>4, <1>6, <2>1, <2>2 DEF PendingOne, Pending
<1> QED
  BY <1>4, <1>7, <1>8

\* And an answer, which only takes a job out of the waiting ones.
LEMMA MarkDoneKeepsNewest ==
  ASSUME NEW K, NEW T, NEW B, NEW table \in Seq(Job(K, T, B)),
         NEW j \in DOMAIN table, NewestOnly(table)
  PROVE  NewestOnly(MarkDone(table, j))
<1> DEFINE new == MarkDone(table, j)
<1>1. /\ DOMAIN new = DOMAIN table
      /\ new[j] = WithStatus(table[j], "done")
      /\ \A i \in DOMAIN table \ {j} : new[i] = table[i]
  BY MarkDoneShape
<1>2. \A i \in DOMAIN table : table[i] \in Job(K, T, B)
  OBVIOUS
<1>3. \A i \in DOMAIN table : /\ new[i].kind = table[i].kind
                              /\ new[i].target = table[i].target
                              /\ new[i].status = "pending" =>
                                   table[i].status = "pending"
  BY <1>1, <1>2 DEF Job, WithStatus
<1> HIDE DEF new
<1> QED
  BY <1>1, <1>3 DEF NewestOnly, new

\* No row changes but in its status, and what waits is the new job or a job
\* of another (kind, target) that waited before.
EnqueueEffect(table, new, kind, target, body) ==
  /\ DOMAIN table \subseteq DOMAIN new
  /\ \A i \in DOMAIN new :
       \/ new[i] = NewJob(kind, target, body)
       \/ /\ i \in DOMAIN table
          /\ new[i].kind = table[i].kind
          /\ new[i].target = table[i].target
          /\ new[i].body = table[i].body
  /\ \A i \in Pending(new) :
       \/ new[i] = NewJob(kind, target, body)
       \/ /\ i \in Pending(table)
          /\ new[i] = table[i]
          /\ ~(table[i].kind = kind /\ table[i].target = target)

\* What waits waited before, and is another job; no other job of the answered
\* (kind, target) is left waiting.
AnswerEffect(table, new, j) ==
  /\ DOMAIN new = DOMAIN table
  /\ \A i \in DOMAIN new : /\ new[i].kind = table[i].kind
                           /\ new[i].target = table[i].target
                           /\ new[i].body = table[i].body
  /\ Pending(new) = Pending(table) \ {j}
  /\ \A i \in Pending(new) : new[i] = table[i]
  /\ NewestOnly(table) /\ j \in Pending(table) =>
       \A i \in Pending(new) : ~(/\ table[i].kind = table[j].kind
                                 /\ table[i].target = table[j].target)

\* What waits after an enqueue.
LEMMA EnqueueWaiting ==
  ASSUME NEW K, NEW T, NEW B, NEW table \in Seq(Job(K, T, B)),
         NEW kind \in K, NEW target \in T, NEW body \in B
  PROVE  EnqueueEffect(table, EnqueueJob(table, kind, target, body),
                       kind, target, body)
<1> DEFINE new == EnqueueJob(table, kind, target, body)
           n == Len(table)
<1>1. /\ new \in Seq(Job(K, T, B)) /\ Len(new) = n + 1
      /\ new[n + 1] = NewJob(kind, target, body)
      /\ \A i \in 1..n : new[i] = IF i \in PendingOne(table, kind, target)
                                  THEN WithStatus(table[i], "superseded")
                                  ELSE table[i]
  BY EnqueueShape
<1>2. \A i \in 1..n : table[i] \in Job(K, T, B)
  OBVIOUS
<1>3. n \in Nat /\ DOMAIN new = 1..(n + 1) /\ DOMAIN table = 1..n
  BY <1>1
<1>4. \A i \in 1..n : /\ new[i].kind = table[i].kind
                      /\ new[i].target = table[i].target
                      /\ new[i].body = table[i].body
                      /\ new[i].status = "pending" =>
                           /\ i \notin PendingOne(table, kind, target)
                           /\ new[i] = table[i]
  BY <1>1, <1>2 DEF Job, WithStatus
<1>5. \A i \in 1..n : i \notin PendingOne(table, kind, target) =>
        \/ table[i].status # "pending"
        \/ ~(table[i].kind = kind /\ table[i].target = target)
  BY <1>3 DEF PendingOne, Pending
<1> HIDE DEF new, n
<1>6. \A i \in 1..(n + 1) : i \in 1..n \/ i = n + 1
  BY <1>3
<1>7. \A i \in Pending(new) :
        \/ new[i] = NewJob(kind, target, body)
        \/ /\ i \in Pending(table)
           /\ new[i] = table[i]
           /\ ~(table[i].kind = kind /\ table[i].target = target)
  BY <1>1, <1>3, <1>4, <1>5, <1>6 DEF Pending
<1>8. \A i \in DOMAIN new :
        \/ new[i] = NewJob(kind, target, body)
        \/ /\ i \in DOMAIN table
           /\ new[i].kind = table[i].kind
           /\ new[i].target = table[i].target
           /\ new[i].body = table[i].body
  BY <1>1, <1>3, <1>4, <1>6
<1>9. DOMAIN table \subseteq DOMAIN new
  BY <1>3
<1> QED
  BY <1>7, <1>8, <1>9 DEF new, EnqueueEffect

\* What waits after an answer.
LEMMA MarkDoneWaiting ==
  ASSUME NEW K, NEW T, NEW B, NEW table \in Seq(Job(K, T, B)),
         NEW j \in DOMAIN table
  PROVE  AnswerEffect(table, MarkDone(table, j), j)
<1> DEFINE new == MarkDone(table, j)
<1>1. /\ DOMAIN new = DOMAIN table
      /\ new[j] = WithStatus(table[j], "done")
      /\ \A i \in DOMAIN table \ {j} : new[i] = table[i]
  BY MarkDoneShape
<1>2. table[j] \in Job(K, T, B)
  OBVIOUS
<1>3. \A i \in DOMAIN table : /\ new[i].kind = table[i].kind
                              /\ new[i].target = table[i].target
                              /\ new[i].body = table[i].body
  BY <1>1, <1>2 DEF Job, WithStatus
<1>4. new[j].status = "done"
  BY <1>1, <1>2 DEF Job, WithStatus
<1>5. \A i \in DOMAIN table : i \in Nat
  OBVIOUS
<1> HIDE DEF new
<1>6. Pending(new) = Pending(table) \ {j}
  BY <1>1, <1>4 DEF Pending
<1>7. \A i \in Pending(new) : new[i] = table[i]
  BY <1>1, <1>6 DEF Pending
<1>8. ASSUME NewestOnly(table), j \in Pending(table), NEW i \in Pending(new),
             table[i].kind = table[j].kind, table[i].target = table[j].target
      PROVE  FALSE
  <2>1. /\ i \in DOMAIN table /\ table[i].status = "pending" /\ i # j
        /\ table[j].status = "pending"
    BY <1>6, <1>8 DEF Pending
  <2>2. i < j \/ j < i
    BY <1>5, <2>1
  <2> QED
    BY <1>8, <2>1, <2>2 DEF NewestOnly
<1> QED
  BY <1>1, <1>3, <1>6, <1>7, <1>8 DEF new, AnswerEffect

\* The new job waits, and every job of another (kind, target) that waited.
EnqueueLeaves(table, new, kind, target, body) ==
  /\ \E k \in Pending(new) : new[k] = NewJob(kind, target, body)
  /\ \A i \in Pending(table) \ PendingOne(table, kind, target) :
       i \in Pending(new) /\ new[i] = table[i]

\* An enqueue loses no job but those it replaces.
LEMMA EnqueueLeavesWaiting ==
  ASSUME NEW K, NEW T, NEW B, NEW table \in Seq(Job(K, T, B)),
         NEW kind \in K, NEW target \in T, NEW body \in B
  PROVE  EnqueueLeaves(table, EnqueueJob(table, kind, target, body),
                       kind, target, body)
<1> DEFINE new == EnqueueJob(table, kind, target, body)
           n == Len(table)
<1>1. /\ new \in Seq(Job(K, T, B)) /\ Len(new) = n + 1
      /\ new[n + 1] = NewJob(kind, target, body)
      /\ \A i \in 1..n : new[i] = IF i \in PendingOne(table, kind, target)
                                  THEN WithStatus(table[i], "superseded")
                                  ELSE table[i]
  BY EnqueueShape
<1>2. n \in Nat /\ DOMAIN new = 1..(n + 1) /\ DOMAIN table = 1..n
  BY <1>1
<1> HIDE DEF new, n
<1>3. n + 1 \in Pending(new) /\ new[n + 1] = NewJob(kind, target, body)
  BY <1>1, <1>2 DEF Pending, NewJob
<1>4. \A i \in Pending(table) \ PendingOne(table, kind, target) :
        i \in Pending(new) /\ new[i] = table[i]
  BY <1>1, <1>2 DEF Pending
<1> QED
  BY <1>3, <1>4 DEF new, EnqueueLeaves
=============================================================================
