---------------------------- MODULE AuxBusProofs ----------------------------
(***************************************************************************)
(* Theorems about AuxBus, for any kinds, handlers, targets and host        *)
(* threads, and any number of jobs.                                        *)
(*                                                                         *)
(* The inductive invariant adds to TypeOK that what a drain holds and has  *)
(* counted are jobs of the table (its snapshot is never ahead of the       *)
(* table, which only grows), and that an answered job had a handler.       *)
(***************************************************************************)
EXTENDS AuxBus, JobTableProofs

SnapshotsAreJobs ==
  \A h \in Hosts : drain[h].todo \cup drain[h].counted \subseteq DOMAIN jobs

DoneHadHandler ==
  \A i \in DOMAIN jobs : jobs[i].status = "done" => jobs[i].kind \in Registered

Inv ==
  /\ TypeOK
  /\ SnapshotsAreJobs
  /\ DoneHadHandler
  /\ PendingIsNewest
  /\ DoneIsAppliedOnce
  /\ AuxCountIsHonest

\* What an answer does: to the table, and to the history of applications.
LEMMA ApplyIfEffect ==
  ASSUME Inv, NEW i \in DOMAIN jobs, ApplyIf(SubmitStatus(jobs[i]), i)
  PROVE  \/ /\ jobs[i].status = "pending" /\ jobs[i].kind \in Registered
            /\ SubmitStatus(jobs[i]) = "applied"
            /\ jobs' = MarkDone(jobs, i)
            /\ applied' = [applied EXCEPT ![i] = @ + 1]
         \/ /\ UNCHANGED <<jobs, applied>>
            /\ SubmitStatus(jobs[i]) = "success" => jobs[i].status = "done"
            /\ SubmitStatus(jobs[i]) # "applied"
<1>1. jobs[i] \in Job(Kinds, Targets, {NoBody})
  BY DEF Inv, TypeOK
<1>2. jobs[i].status \in Statuses
  BY <1>1 DEF Job, WithStatus
<1> QED
  BY <1>2 DEF ApplyIf, SubmitStatus, Statuses

\* The part of the invariant that speaks of the table survives an answer.
LEMMA AnswerKeepsTable ==
  ASSUME Inv, NEW i \in DOMAIN jobs, ApplyIf(SubmitStatus(jobs[i]), i)
  PROVE  /\ jobs' \in Seq(Job(Kinds, Targets, {NoBody}))
         /\ applied' \in Seq(Nat) /\ Len(applied') = Len(jobs')
         /\ DOMAIN jobs' = DOMAIN jobs
         /\ PendingIsNewest'
         /\ DoneIsAppliedOnce'
<1> DEFINE J == Job(Kinds, Targets, {NoBody})
<1>1. CASE UNCHANGED <<jobs, applied>>
  BY <1>1 DEF Inv, TypeOK, PendingIsNewest, DoneIsAppliedOnce
<1>2. CASE /\ jobs[i].status = "pending"
           /\ jobs' = MarkDone(jobs, i)
           /\ applied' = [applied EXCEPT ![i] = @ + 1]
  <2>1. jobs \in Seq(J) /\ applied \in Seq(Nat) /\ Len(applied) = Len(jobs)
    BY DEF Inv, TypeOK
  <2>2. /\ jobs' \in Seq(J) /\ Len(jobs') = Len(jobs)
        /\ DOMAIN jobs' = DOMAIN jobs
        /\ jobs'[i] = WithStatus(jobs[i], "done")
        /\ \A k \in DOMAIN jobs \ {i} : jobs'[k] = jobs[k]
    BY <1>2, <2>1, MarkDoneShape
  <2>3. NewestOnly(jobs)
    BY DEF Inv, PendingIsNewest, NewestOnly
  <2>4. PendingIsNewest'
    <3>1. NewestOnly(MarkDone(jobs, i))
      BY <2>1, <2>3, MarkDoneKeepsNewest
    <3> QED
      BY <1>2, <3>1 DEF PendingIsNewest, NewestOnly
  <2>5. applied' \in Seq(Nat) /\ Len(applied') = Len(applied)
    BY <1>2, <2>1
  <2>6. DoneIsAppliedOnce'
    <3>1. applied[i] = 0
      BY <1>2 DEF Inv, DoneIsAppliedOnce
    <3>2. applied'[i] = 1 /\ jobs'[i].status = "done"
      <4>1. i \in DOMAIN applied /\ jobs[i] \in J
        BY <2>1
      <4> QED
        BY <1>2, <2>2, <3>1, <4>1 DEF Job, WithStatus
    <3>3. \A k \in DOMAIN jobs \ {i} : applied'[k] = applied[k]
      BY <1>2, <2>1
    <3> QED
      BY <2>2, <3>2, <3>3 DEF Inv, DoneIsAppliedOnce
  <2> QED
    BY <2>1, <2>2, <2>4, <2>5, <2>6
<1> QED
  BY <1>1, <1>2, ApplyIfEffect

\* An enqueue appends a pending job that was never applied, and may supersede
\* one that was not applied either.
LEMMA EnqueueKeepsTable ==
  ASSUME Inv, NEW kind \in Kinds, NEW target \in Targets, Enqueue(kind, target)
  PROVE  /\ jobs' \in Seq(Job(Kinds, Targets, {NoBody}))
         /\ applied' \in Seq(Nat) /\ Len(applied') = Len(jobs')
         /\ Len(jobs') = Len(jobs) + 1
         /\ PendingIsNewest'
         /\ DoneIsAppliedOnce'
         /\ \A k \in DOMAIN jobs :
              /\ jobs'[k].kind = jobs[k].kind
              /\ jobs[k].status # "pending" => jobs'[k] = jobs[k]
              /\ jobs'[k].status = "done" <=> jobs[k].status = "done"
<1> DEFINE J == Job(Kinds, Targets, {NoBody})
           n == Len(jobs)
<1>1. jobs \in Seq(J) /\ applied \in Seq(Nat) /\ Len(applied) = n
  BY DEF Inv, TypeOK
<1>2. jobs' = EnqueueJob(jobs, kind, target, NoBody)
      /\ applied' = Append(applied, 0)
  BY DEF Enqueue
<1>3. NoBody \in {NoBody}
  OBVIOUS
<1>4. /\ jobs' \in Seq(J) /\ Len(jobs') = n + 1
      /\ jobs'[n + 1] = NewJob(kind, target, NoBody)
      /\ \A i \in 1..n : jobs'[i] = IF i \in PendingOne(jobs, kind, target)
                                    THEN WithStatus(jobs[i], "superseded")
                                    ELSE jobs[i]
  <2> DEFINE new == EnqueueJob(jobs, kind, target, NoBody)
  <2>1. /\ new \in Seq(J)
        /\ Len(new) = n + 1
        /\ new[n + 1] = NewJob(kind, target, NoBody)
        /\ \A i \in 1..n : new[i] = IF i \in PendingOne(jobs, kind, target)
                                    THEN WithStatus(jobs[i], "superseded")
                                    ELSE jobs[i]
    BY <1>1, <1>3, EnqueueShape, SMTT(30)
  <2> QED
    BY <1>2, <2>1
<1>5. applied' \in Seq(Nat) /\ Len(applied') = n + 1
      /\ applied'[n + 1] = 0 /\ \A i \in 1..n : applied'[i] = applied[i]
  BY <1>1, <1>2
<1>6. DOMAIN jobs = 1..n /\ DOMAIN jobs' = 1..(n + 1) /\ n \in Nat
  BY <1>1, <1>4
<1>7. \A k \in DOMAIN jobs : jobs[k] \in J
  BY <1>1
<1>8. \A k \in DOMAIN jobs :
        /\ jobs'[k].kind = jobs[k].kind
        /\ jobs[k].status # "pending" => jobs'[k] = jobs[k]
        /\ jobs'[k].status = "done" <=> jobs[k].status = "done"
  BY <1>4, <1>6, <1>7 DEF PendingOne, Pending, Job, WithStatus
<1>9. PendingIsNewest'
  <2>1. NewestOnly(jobs)
    BY DEF Inv, PendingIsNewest, NewestOnly
  <2>2. NewestOnly(EnqueueJob(jobs, kind, target, NoBody))
    BY <1>1, <1>3, <2>1, EnqueueKeepsNewest
  <2> QED
    BY <1>2, <2>2 DEF PendingIsNewest, NewestOnly
<1>10. DoneIsAppliedOnce'
  <2>1. jobs'[n + 1].status = "pending"
    BY <1>4 DEF NewJob
  <2>2. \A k \in 1..n : applied'[k] = IF jobs'[k].status = "done" THEN 1 ELSE 0
    BY <1>5, <1>6, <1>8 DEF Inv, DoneIsAppliedOnce
  <2> QED
    BY <1>5, <1>6, <2>1, <2>2 DEF DoneIsAppliedOnce
<1> QED
  BY <1>4, <1>5, <1>8, <1>9, <1>10

\* With no job, nothing waits and nothing is applied.
LEMMA InitInv == Init => Inv
<1> SUFFICES ASSUME Init PROVE Inv
  OBVIOUS
<1>1. TypeOK
  BY DEF Init, TypeOK, Drain, NoDrain, Styles
<1> QED
  BY <1>1 DEF Init, Inv, SnapshotsAreJobs, DoneHadHandler, PendingIsNewest,
       DoneIsAppliedOnce, AuxCountIsHonest, NoDrain

\* A step that leaves the drains alone, and undoes no answer, keeps their
\* snapshots and counts right.
LEMMA DrainsStayHonest ==
  ASSUME Inv, UNCHANGED drain, DOMAIN jobs \subseteq DOMAIN jobs',
         \A k \in DOMAIN jobs : jobs[k].status = "done" => jobs'[k].status = "done"
  PROVE  SnapshotsAreJobs' /\ AuxCountIsHonest'
<1>1. SnapshotsAreJobs'
  BY DEF Inv, SnapshotsAreJobs
<1>2. AuxCountIsHonest'
  BY DEF Inv, SnapshotsAreJobs, AuxCountIsHonest
<1> QED
  BY <1>1, <1>2

\* An answer undoes no answer.
LEMMA AnswerKeepsDone ==
  ASSUME Inv, NEW i \in DOMAIN jobs, ApplyIf(SubmitStatus(jobs[i]), i)
  PROVE  /\ \A k \in DOMAIN jobs :
              /\ jobs[k].status # "pending" => jobs'[k] = jobs[k]
              /\ jobs[k].kind \notin Registered => jobs'[k] = jobs[k]
         /\ SubmitStatus(jobs[i]) \in {"applied", "success"} =>
              jobs'[i].status = "done"
<1>1. CASE /\ jobs[i].status = "pending" /\ jobs[i].kind \in Registered
           /\ jobs' = MarkDone(jobs, i)
  <2>1. jobs \in Seq(Job(Kinds, Targets, {NoBody}))
    BY DEF Inv, TypeOK
  <2>2. /\ jobs'[i] = WithStatus(jobs[i], "done")
        /\ \A k \in DOMAIN jobs \ {i} : jobs'[k] = jobs[k]
    BY <1>1, <2>1, MarkDoneShape
  <2>3. jobs[i] \in Job(Kinds, Targets, {NoBody})
    BY <2>1
  <2> QED
    BY <1>1, <2>2, <2>3 DEF Job, WithStatus
<1>2. CASE /\ UNCHANGED <<jobs, applied>>
           /\ SubmitStatus(jobs[i]) = "success" => jobs[i].status = "done"
           /\ SubmitStatus(jobs[i]) # "applied"
  BY <1>2
<1> QED
  BY <1>1, <1>2, ApplyIfEffect

\* Whatever thread takes it, a step enqueues a job, applies the answer of a
\* pending job that has a handler, or leaves the table alone.
LEMMA StepOnTable ==
  ASSUME Inv, [Next]_vars
  PROVE  \/ \E kind \in Kinds, target \in Targets : Enqueue(kind, target)
         \/ \E i \in DOMAIN jobs :
              /\ jobs[i].status = "pending" /\ jobs[i].kind \in Registered
              /\ jobs' = MarkDone(jobs, i)
         \/ UNCHANGED jobs
<1>1. ASSUME NEW i \in DOMAIN jobs, Submit(i)
      PROVE  \/ /\ jobs[i].status = "pending" /\ jobs[i].kind \in Registered
                /\ jobs' = MarkDone(jobs, i)
             \/ UNCHANGED jobs
  <2>1. ApplyIf(SubmitStatus(jobs[i]), i)
    BY <1>1 DEF Submit
  <2> QED
    BY <2>1, ApplyIfEffect
<1>2. ASSUME NEW h \in Hosts, Answer(h)
      PROVE  \/ \E i \in DOMAIN jobs :
                  /\ jobs[i].status = "pending" /\ jobs[i].kind \in Registered
                  /\ jobs' = MarkDone(jobs, i)
             \/ UNCHANGED jobs
  <2> DEFINE i == Min(drain[h].todo)
  <2>1. drain[h].todo # {} /\ ApplyIf(SubmitStatus(jobs[i]), i)
    BY <1>2 DEF Answer
  <2>2. drain[h].todo \subseteq Nat /\ drain[h].todo \subseteq DOMAIN jobs
    BY DEF Inv, TypeOK, Drain, SnapshotsAreJobs
  <2>3. i \in DOMAIN jobs
    BY <2>1, <2>2, MinProperty
  <2> HIDE DEF i
  <2> QED
    BY <2>1, <2>3, ApplyIfEffect
<1>3. ASSUME NEW h \in Hosts, NEW style, NEW kinds,
             StartDrain(h, style, kinds) \/ NoAnswer(h) \/ Abort(h)
      PROVE  UNCHANGED jobs
  BY <1>3 DEF StartDrain, NoAnswer, Abort
<1> QED
  BY <1>1, <1>2, <1>3 DEF Next, vars

\* A step keeps what a job is for, reopens no settled job, and answers only
\* jobs with a handler.
LEMMA JobsSettle ==
  ASSUME Inv, [Next]_vars
  PROVE  /\ \A k \in DOMAIN jobs :
              /\ jobs[k].status # "pending" => jobs'[k] = jobs[k]
              /\ jobs'[k].status = "done" => jobs[k].kind \in Registered
         /\ DoneHadHandler'
<1>0. /\ jobs \in Seq(Job(Kinds, Targets, {NoBody}))
      /\ \A k \in DOMAIN jobs : jobs[k] \in Job(Kinds, Targets, {NoBody})
  <2>1. jobs \in Seq(Job(Kinds, Targets, {NoBody}))
    BY DEF Inv, TypeOK
  <2>2. \A k \in DOMAIN jobs : jobs[k] \in Job(Kinds, Targets, {NoBody})
    BY <2>1
  <2> QED
    BY <2>1, <2>2
<1>1. ASSUME NEW kind \in Kinds, NEW target \in Targets, Enqueue(kind, target)
      PROVE  /\ \A k \in DOMAIN jobs :
                  /\ jobs[k].status # "pending" => jobs'[k] = jobs[k]
                  /\ jobs'[k].status = "done" => jobs[k].kind \in Registered
             /\ DoneHadHandler'
  <2>1. /\ jobs' \in Seq(Job(Kinds, Targets, {NoBody}))
        /\ Len(jobs') = Len(jobs) + 1
        /\ \A k \in DOMAIN jobs :
             /\ jobs'[k].kind = jobs[k].kind
             /\ jobs[k].status # "pending" => jobs'[k] = jobs[k]
             /\ jobs'[k].status = "done" <=> jobs[k].status = "done"
    BY <1>1, EnqueueKeepsTable
  <2>2. jobs'[Len(jobs) + 1].status = "pending"
    <3> DEFINE new == EnqueueJob(jobs, kind, target, NoBody)
    <3>1. NoBody \in {NoBody} /\ jobs' = new
      BY <1>1 DEF Enqueue
    <3>2. new[Len(jobs) + 1] = NewJob(kind, target, NoBody)
      BY <1>0, <3>1, EnqueueShape
    <3> HIDE DEF new
    <3> QED
      BY <3>1, <3>2 DEF NewJob
  <2>3. \A k \in DOMAIN jobs : jobs'[k].status = "done" => jobs[k].kind \in Registered
    BY <2>1 DEF Inv, DoneHadHandler
  <2>4. DOMAIN jobs' = DOMAIN jobs \cup {Len(jobs) + 1}
    BY <1>0, <2>1
  <2> QED
    BY <2>1, <2>2, <2>3, <2>4 DEF DoneHadHandler
<1>2. ASSUME NEW i \in DOMAIN jobs, jobs[i].status = "pending",
             jobs[i].kind \in Registered, jobs' = MarkDone(jobs, i)
      PROVE  /\ \A k \in DOMAIN jobs :
                  /\ jobs[k].status # "pending" => jobs'[k] = jobs[k]
                  /\ jobs'[k].status = "done" => jobs[k].kind \in Registered
             /\ DoneHadHandler'
  <2>1. /\ DOMAIN jobs' = DOMAIN jobs
        /\ jobs'[i] = WithStatus(jobs[i], "done")
        /\ \A k \in DOMAIN jobs \ {i} : jobs'[k] = jobs[k]
    BY <1>0, <1>2, MarkDoneShape
  <2>2. jobs'[i].kind = jobs[i].kind
    BY <1>0, <2>1 DEF WithStatus, Job
  <2> QED
    BY <1>2, <2>1, <2>2 DEF Inv, DoneHadHandler
<1>3. CASE UNCHANGED jobs
  BY <1>3 DEF Inv, DoneHadHandler
<1> QED
  BY <1>1, <1>2, <1>3, StepOnTable

\* Every operation of the bus, and of a drain, preserves the invariant.
LEMMA NextInv == Inv /\ [Next]_vars => Inv'
<1> SUFFICES ASSUME Inv, [Next]_vars PROVE Inv'
  OBVIOUS
<1>. DoneHadHandler'
  BY JobsSettle
<1> USE DEF Inv
<1>0. /\ drain \in [Hosts -> Drain] /\ drains \in Nat
      /\ jobs \in Seq(Job(Kinds, Targets, {NoBody}))
  BY DEF TypeOK
<1>1. ASSUME NEW kind \in Kinds, NEW target \in Targets, Enqueue(kind, target)
      PROVE  Inv'
  <2>1. UNCHANGED <<drain, drains>>
    BY <1>1 DEF Enqueue
  <2>2. /\ jobs' \in Seq(Job(Kinds, Targets, {NoBody}))
        /\ applied' \in Seq(Nat) /\ Len(applied') = Len(jobs')
        /\ Len(jobs') = Len(jobs) + 1
        /\ PendingIsNewest' /\ DoneIsAppliedOnce'
        /\ \A k \in DOMAIN jobs :
             jobs[k].status = "done" => jobs'[k].status = "done"
    BY <1>1, EnqueueKeepsTable
  <2>3. TypeOK'
    BY <1>0, <2>1, <2>2 DEF TypeOK
  <2>4. DOMAIN jobs \subseteq DOMAIN jobs'
    BY <1>0, <2>2
  <2>5. SnapshotsAreJobs' /\ AuxCountIsHonest'
    BY <2>1, <2>2, <2>4, DrainsStayHonest
  <2> QED
    BY <2>2, <2>3, <2>5
<1>2. ASSUME NEW i \in DOMAIN jobs, Submit(i)
      PROVE  Inv'
  <2>1. ApplyIf(SubmitStatus(jobs[i]), i) /\ UNCHANGED <<drain, drains>>
    BY <1>2 DEF Submit
  <2>2. /\ jobs' \in Seq(Job(Kinds, Targets, {NoBody}))
        /\ applied' \in Seq(Nat) /\ Len(applied') = Len(jobs')
        /\ DOMAIN jobs' = DOMAIN jobs
        /\ PendingIsNewest' /\ DoneIsAppliedOnce'
    BY <2>1, AnswerKeepsTable
  <2>3. TypeOK'
    BY <1>0, <2>1, <2>2 DEF TypeOK
  <2>4. \A k \in DOMAIN jobs :
          jobs[k].status = "done" => jobs'[k].status = "done"
    BY <2>1, AnswerKeepsDone
  <2>5. SnapshotsAreJobs' /\ AuxCountIsHonest'
    BY <2>1, <2>2, <2>4, DrainsStayHonest
  <2> QED
    BY <2>2, <2>3, <2>5
<1>3. ASSUME NEW h \in Hosts, NEW style \in Styles, NEW kinds,
             StartDrain(h, style, kinds)
      PROVE  Inv'
  <2> DEFINE todo == {i \in Pending(jobs) : jobs[i].kind \in kinds}
  <2>1. /\ UNCHANGED <<jobs, applied>> /\ drains' = drains + 1
        /\ drain' = [drain EXCEPT ![h] =
             [style |-> style, counted |-> {}, todo |-> todo]]
    BY <1>3 DEF StartDrain
  <2>2. todo \subseteq DOMAIN jobs /\ todo \subseteq Nat
    BY <1>0 DEF Pending
  <2> HIDE DEF todo
  <2>3. TypeOK'
    <3>1. [style |-> style, counted |-> {}, todo |-> todo] \in Drain
      BY <2>2 DEF Drain
    <3> QED
      BY <1>0, <2>1, <3>1 DEF TypeOK
  <2>4. SnapshotsAreJobs' /\ AuxCountIsHonest'
    BY <1>0, <2>1, <2>2 DEF SnapshotsAreJobs, AuxCountIsHonest
  <2> QED
    BY <2>1, <2>3, <2>4 DEF PendingIsNewest, DoneIsAppliedOnce
<1>4. ASSUME NEW h \in Hosts, Answer(h)
      PROVE  Inv'
  <2> DEFINE i == Min(drain[h].todo)
             status == SubmitStatus(jobs[i])
  <2>1. /\ drain[h].todo # {} /\ UNCHANGED drains
        /\ ApplyIf(status, i)
        /\ drain' = [drain EXCEPT
             ![h].todo = @ \ {i},
             ![h].counted = IF Counts(drain[h].style, status) THEN @ \cup {i}
                            ELSE @]
    BY <1>4 DEF Answer
  <2>2. drain[h] \in Drain /\ drain[h].todo \subseteq Nat
    BY <1>0 DEF Drain
  <2>3. i \in drain[h].todo
    BY <2>1, <2>2, MinProperty
  <2>4. i \in DOMAIN jobs
    BY <2>3 DEF SnapshotsAreJobs
  <2>5. /\ jobs' \in Seq(Job(Kinds, Targets, {NoBody}))
        /\ applied' \in Seq(Nat) /\ Len(applied') = Len(jobs')
        /\ DOMAIN jobs' = DOMAIN jobs
        /\ PendingIsNewest' /\ DoneIsAppliedOnce'
    BY <2>1, <2>4, AnswerKeepsTable
  <2>6. /\ \A k \in DOMAIN jobs :
             jobs[k].status = "done" => jobs'[k].status = "done"
        /\ status \in {"applied", "success"} => jobs'[i].status = "done"
    BY <2>1, <2>4, AnswerKeepsDone
  <2> HIDE DEF i, status
  <2>7. /\ drain' \in [Hosts -> Drain]
        /\ \A g \in Hosts : g # h => drain'[g] = drain[g]
        /\ drain'[h].style = drain[h].style
        /\ drain'[h].todo \subseteq drain[h].todo
        /\ drain'[h].counted = IF Counts(drain[h].style, status)
                               THEN drain[h].counted \cup {i}
                               ELSE drain[h].counted
    <3> DEFINE d == [drain[h] EXCEPT
                       !.todo = @ \ {i},
                       !.counted = IF Counts(drain[h].style, status)
                                   THEN @ \cup {i} ELSE @]
    <3>1. drain' = [drain EXCEPT ![h] = d]
      BY <2>1
    <3>2. i \in Nat
      BY <2>2, <2>3
    <3>3. /\ d \in Drain /\ d.style = drain[h].style
          /\ d.todo = drain[h].todo \ {i}
          /\ d.counted = IF Counts(drain[h].style, status)
                         THEN drain[h].counted \cup {i} ELSE drain[h].counted
      BY <2>2, <3>2 DEF Drain
    <3> HIDE DEF d
    <3> QED
      BY <1>0, <3>1, <3>3
  <2>8. TypeOK'
    BY <1>0, <2>1, <2>5, <2>7 DEF TypeOK
  <2>9. SnapshotsAreJobs'
    BY <2>4, <2>5, <2>7 DEF SnapshotsAreJobs
  <2>10. AuxCountIsHonest'
    <3> SUFFICES ASSUME NEW g \in Hosts, drain'[g].style = "aux",
                        NEW k \in drain'[g].counted
                 PROVE  jobs'[k].status = "done"
      BY DEF AuxCountIsHonest
    <3>1. CASE k \in drain[g].counted /\ drain[g].style = "aux"
      BY <2>6, <3>1 DEF AuxCountIsHonest, SnapshotsAreJobs
    <3>2. CASE g = h /\ k = i /\ Counts("aux", status)
      BY <2>6, <3>2 DEF Counts
    <3> QED
      BY <2>7, <3>1, <3>2
  <2> QED
    BY <2>5, <2>8, <2>9, <2>10
<1>5. ASSUME NEW h \in Hosts, NoAnswer(h) \/ Abort(h)
      PROVE  Inv'
  <2>1. UNCHANGED <<jobs, applied, drains>>
    BY <1>5 DEF NoAnswer, Abort
  <2>2. PICK rest \in SUBSET drain[h].todo : drain' = [drain EXCEPT ![h].todo = rest]
    BY <1>5 DEF NoAnswer, Abort
  <2>3. drain[h] \in Drain
    BY <1>0
  <2>4. /\ drain' \in [Hosts -> Drain]
        /\ \A g \in Hosts : /\ drain'[g].style = drain[g].style
                            /\ drain'[g].todo \subseteq drain[g].todo
                            /\ drain'[g].counted = drain[g].counted
    BY <1>0, <2>2, <2>3 DEF Drain
  <2>5. TypeOK'
    BY <1>0, <2>1, <2>4 DEF TypeOK
  <2>6. SnapshotsAreJobs' /\ AuxCountIsHonest'
    BY <2>1, <2>4 DEF SnapshotsAreJobs, AuxCountIsHonest
  <2> QED
    BY <2>1, <2>5, <2>6 DEF PendingIsNewest, DoneIsAppliedOnce
<1>6. CASE UNCHANGED vars
  BY <1>6 DEF vars, TypeOK, SnapshotsAreJobs, PendingIsNewest,
       DoneIsAppliedOnce, AuxCountIsHonest
<1> QED
  BY <1>1, <1>2, <1>3, <1>4, <1>5, <1>6 DEF Next

\* Every reachable state satisfies the invariant.
THEOREM Invariance == Spec => []Inv
<1> QED
  BY InitInv, NextInv, PTL DEF Spec

\* The types of the bus's state are right in every reachable state.
THEOREM TypeCorrect == Spec => []TypeOK
<1>1. Inv => TypeOK
  BY DEF Inv
<1> QED
  BY <1>1, Invariance, PTL

\* One job of a (kind, target) is pending at most, and it is the newest one:
\* enqueue and submit keep it for any interleaving of host threads.
THEOREM NewestIsPending == Spec => []PendingIsNewest
<1>1. Inv => PendingIsNewest
  BY DEF Inv
<1> QED
  BY <1>1, Invariance, PTL

\* submit applies a job's answer once, however many drains hold the job.
THEOREM AppliedOnce == Spec => []DoneIsAppliedOnce
<1>1. Inv => DoneIsAppliedOnce
  BY DEF Inv
<1> QED
  BY <1>1, Invariance, PTL

\* What drain_aux reports as applied is applied.
THEOREM CountIsHonest == Spec => []AuxCountIsHonest
<1>1. Inv => AuxCountIsHonest
  BY DEF Inv
<1> QED
  BY <1>1, Invariance, PTL

\* No step of any thread reopens a settled job, or answers one whose kind has
\* no handler.
THEOREM Settled == Spec => SettledForGood
<1>1. Inv /\ [Next]_vars =>
        [\A i \in DOMAIN jobs :
           /\ jobs[i].status # "pending" => jobs'[i] = jobs[i]
           /\ jobs[i].kind \notin Registered => jobs'[i].status # "done"]_vars
  BY JobsSettle
<1> QED
  BY <1>1, Invariance, PTL DEF Spec, SettledForGood

(***************************************************************************)
(* The table implements the mailbox.                                       *)
(***************************************************************************)
Keys == Kinds \X Targets
Slots == [k \in Keys |-> SlotOf(k)]
Taken == {i \in DOMAIN jobs : jobs[i].status = "done"}

\* The slot of a key holds its waiting job, and the job is the only one.
LEMMA SlotIsPending ==
  ASSUME Inv, NEW i \in DOMAIN jobs, jobs[i].status = "pending"
  PROVE  SlotOf(<<jobs[i].kind, jobs[i].target>>) = i
<1> DEFINE waiting == PendingOne(jobs, jobs[i].kind, jobs[i].target)
<1>1. i \in waiting
  BY DEF PendingOne, Pending
<1>2. \A j \in waiting : j = i
  <2>1. DOMAIN jobs = 1..Len(jobs) /\ Len(jobs) \in Nat
    BY DEF Inv, TypeOK
  <2>2. PendingIsNewest
    BY DEF Inv
  <2>3. SUFFICES ASSUME NEW j \in waiting, j # i PROVE FALSE
    OBVIOUS
  <2>4. /\ j \in DOMAIN jobs /\ jobs[j].status = "pending"
        /\ jobs[j].kind = jobs[i].kind /\ jobs[j].target = jobs[i].target
    BY <2>3 DEF PendingOne, Pending
  <2>5. i < j \/ j < i
    BY <2>1, <2>3, <2>4
  <2> QED
    BY <2>2, <2>4, <2>5 DEF PendingIsNewest
<1>3. waiting = {i}
  BY <1>1, <1>2
<1> HIDE DEF waiting
<1>4. SlotOf(<<jobs[i].kind, jobs[i].target>>)
        = IF waiting = {} THEN 0 ELSE CHOOSE j \in waiting : TRUE
  BY DEF SlotOf, waiting
<1> QED
  BY <1>3, <1>4

\* Enqueueing a job posts it into the slot of its key.
LEMMA EnqueueIsPost ==
  ASSUME Inv, NEW kind \in Kinds, NEW target \in Targets, Enqueue(kind, target)
  PROVE  /\ Len(jobs)' = Len(jobs) + 1
         /\ Slots' = [Slots EXCEPT ![<<kind, target>>] = Len(jobs) + 1]
         /\ Taken' = Taken
<1> DEFINE n == Len(jobs)
<1>1. /\ jobs \in Seq(Job(Kinds, Targets, {NoBody}))
      /\ jobs' = EnqueueJob(jobs, kind, target, NoBody)
      /\ NoBody \in {NoBody}
  BY DEF Enqueue, Inv, TypeOK
<1>2. \A i \in 1..n : jobs[i] \in Job(Kinds, Targets, {NoBody})
  BY <1>1
<1>3. /\ jobs' \in Seq(Job(Kinds, Targets, {NoBody})) /\ Len(jobs') = n + 1
      /\ jobs'[n + 1] = NewJob(kind, target, NoBody)
      /\ \A i \in 1..n : jobs'[i] = IF i \in PendingOne(jobs, kind, target)
                                    THEN WithStatus(jobs[i], "superseded")
                                    ELSE jobs[i]
  <2> DEFINE new == EnqueueJob(jobs, kind, target, NoBody)
  <2>1. /\ new \in Seq(Job(Kinds, Targets, {NoBody}))
        /\ Len(new) = n + 1
        /\ new[n + 1] = NewJob(kind, target, NoBody)
        /\ \A i \in 1..n : new[i] = IF i \in PendingOne(jobs, kind, target)
                                    THEN WithStatus(jobs[i], "superseded")
                                    ELSE jobs[i]
    BY <1>1, EnqueueShape
  <2> QED
    BY <1>1, <2>1
<1>4. n \in Nat /\ DOMAIN jobs = 1..n /\ DOMAIN jobs' = 1..(n + 1)
  BY <1>1, <1>3
<1>5. /\ jobs'[n + 1].kind = kind /\ jobs'[n + 1].target = target
      /\ jobs'[n + 1].status = "pending"
  BY <1>3 DEF NewJob
<1>6. \A i \in 1..n :
        /\ jobs'[i].kind = jobs[i].kind /\ jobs'[i].target = jobs[i].target
        /\ jobs'[i].status = "pending" <=>
             /\ jobs[i].status = "pending"
             /\ ~(jobs[i].kind = kind /\ jobs[i].target = target)
        /\ jobs'[i].status = "done" <=> jobs[i].status = "done"
  BY <1>2, <1>3, <1>4 DEF PendingOne, Pending, Job, WithStatus
<1> HIDE DEF n
<1>7. Taken' = Taken
  BY <1>4, <1>5, <1>6 DEF Taken
<1>8. PendingOne(jobs', kind, target) = {n + 1}
  BY <1>4, <1>5, <1>6 DEF PendingOne, Pending
<1>9. \A k \in Keys : k # <<kind, target>> =>
        PendingOne(jobs', k[1], k[2]) = PendingOne(jobs, k[1], k[2])
  BY <1>4, <1>5, <1>6 DEF PendingOne, Pending, Keys
<1>10. \A k \in Keys : SlotOf(k)' = IF k = <<kind, target>> THEN n + 1
                                     ELSE SlotOf(k)
  <2>1. SlotOf(<<kind, target>>)' = n + 1
    <3>1. (CHOOSE i \in {n + 1} : TRUE) = n + 1
      OBVIOUS
    <3> QED
      BY <1>8, <3>1 DEF SlotOf
  <2>2. ASSUME NEW k \in Keys, k # <<kind, target>>
        PROVE  SlotOf(k)' = SlotOf(k)
    <3>1. PendingOne(jobs', k[1], k[2]) = PendingOne(jobs, k[1], k[2])
      BY <1>9, <2>2
    <3> QED
      BY <3>1 DEF SlotOf
  <2> QED
    BY <2>1, <2>2
<1> QED
  BY <1>3, <1>7, <1>10 DEF Slots, n

\* Applying a pending job's answer takes it out of its slot.
LEMMA DoneIsTake ==
  ASSUME Inv, NEW i \in DOMAIN jobs, jobs[i].status = "pending",
         jobs' = MarkDone(jobs, i)
  PROVE  LET k == <<jobs[i].kind, jobs[i].target>> IN
         /\ k \in Keys /\ Slots[k] = i /\ i # 0
         /\ Len(jobs)' = Len(jobs)
         /\ Slots' = [Slots EXCEPT ![k] = 0]
         /\ Taken' = Taken \cup {i}
<1> DEFINE key == <<jobs[i].kind, jobs[i].target>>
<1>1. jobs \in Seq(Job(Kinds, Targets, {NoBody}))
  BY DEF Inv, TypeOK
<1>2. \A j \in DOMAIN jobs : jobs[j] \in Job(Kinds, Targets, {NoBody})
  BY <1>1
<1>3. /\ DOMAIN jobs' = DOMAIN jobs /\ Len(jobs') = Len(jobs)
      /\ jobs'[i] = WithStatus(jobs[i], "done")
      /\ \A j \in DOMAIN jobs \ {i} : jobs'[j] = jobs[j]
  <2> DEFINE new == MarkDone(jobs, i)
  <2>1. /\ DOMAIN new = DOMAIN jobs /\ Len(new) = Len(jobs)
        /\ new[i] = WithStatus(jobs[i], "done")
        /\ \A j \in DOMAIN jobs \ {i} : new[j] = jobs[j]
    BY <1>1, MarkDoneShape
  <2> QED
    BY <2>1
<1>4. jobs'[i].status = "done"
  BY <1>2, <1>3 DEF WithStatus, Job
<1>5. key \in Keys
  BY <1>2 DEF Keys, Job
<1>6. SlotOf(key) = i /\ i # 0
  BY <1>1, SlotIsPending
<1>7. Taken' = Taken \cup {i}
  BY <1>3, <1>4 DEF Taken
<1>8. \A k \in Keys : PendingOne(jobs', k[1], k[2]) = PendingOne(jobs, k[1], k[2]) \ {i}
  BY <1>3, <1>4 DEF PendingOne, Pending
<1>9. PendingOne(jobs, key[1], key[2]) \subseteq {i}
  <2> SUFFICES ASSUME NEW j \in DOMAIN jobs, jobs[j].status = "pending",
                      jobs[j].kind = jobs[i].kind, jobs[j].target = jobs[i].target
               PROVE  j = i
    BY DEF PendingOne, Pending
  <2>1. SlotOf(key) = j
    BY SlotIsPending
  <2> QED
    BY <1>6, <2>1
<1>10. \A k \in Keys : i \in PendingOne(jobs, k[1], k[2]) => k = key
  BY DEF PendingOne, Pending, Keys
<1>11. \A k \in Keys : SlotOf(k)' = IF k = key THEN 0 ELSE SlotOf(k)
  <2> SUFFICES ASSUME NEW k \in Keys
               PROVE  SlotOf(k)' = IF k = key THEN 0 ELSE SlotOf(k)
    OBVIOUS
  <2>1. CASE k = key
    <3>1. PendingOne(jobs', k[1], k[2]) = {}
      BY <1>8, <1>9, <2>1
    <3> QED
      BY <2>1, <3>1 DEF SlotOf
  <2>2. CASE k # key
    <3>1. PendingOne(jobs', k[1], k[2]) = PendingOne(jobs, k[1], k[2])
      BY <1>8, <1>10, <2>2
    <3> QED
      BY <2>2, <3>1 DEF SlotOf
  <2> QED
    BY <2>1, <2>2
<1> HIDE DEF key
<1>12. Slots' = [Slots EXCEPT ![key] = 0] /\ Slots[key] = i
  BY <1>5, <1>6, <1>11 DEF Slots
<1> QED
  BY <1>3, <1>5, <1>6, <1>7, <1>12 DEF key

\* The bus implements the mailbox: seen as slots, its steps are posts, takes
\* of a waiting job, and steps that change nothing.
THEOREM Implements == Spec => ImplementsMailbox
<1>1. Init => Mail!MailInit
  <2> SUFFICES ASSUME Init PROVE Mail!MailInit
    OBVIOUS
  <2>1. Len(jobs) = 0 /\ DOMAIN jobs = {}
    BY DEF Init
  <2>2. \A k \in Kinds \X Targets : SlotOf(k) = 0
    BY <2>1 DEF SlotOf, PendingOne, Pending
  <2> QED
    BY <2>1, <2>2 DEF Mail!MailInit
<1>2. Inv /\ [Next]_vars => [Mail!MailNext]_(Mail!mailVars)
  <2> SUFFICES ASSUME Inv, [Next]_vars
               PROVE  Mail!MailNext \/ UNCHANGED Mail!mailVars
    OBVIOUS
  <2>1. ASSUME NEW kind \in Kinds, NEW target \in Targets, Enqueue(kind, target)
        PROVE  Mail!MailNext
    <3>1. /\ Len(jobs)' = Len(jobs) + 1
          /\ Slots' = [Slots EXCEPT ![<<kind, target>>] = Len(jobs) + 1]
          /\ Taken' = Taken
      BY <2>1, EnqueueIsPost
    <3>2. Mail!Post(<<kind, target>>)
      BY <3>1 DEF Mail!Post, Slots, Taken, Keys
    <3> QED
      BY <3>2 DEF Mail!MailNext
  <2>2. ASSUME NEW i \in DOMAIN jobs, jobs[i].status = "pending",
               jobs' = MarkDone(jobs, i)
        PROVE  Mail!MailNext
    <3> DEFINE key == <<jobs[i].kind, jobs[i].target>>
    <3>0. /\ key \in Keys /\ Slots[key] = i /\ i # 0
          /\ Len(jobs)' = Len(jobs)
          /\ Slots' = [Slots EXCEPT ![key] = 0]
          /\ Taken' = Taken \cup {i}
      BY <2>2, DoneIsTake
    <3> PICK k \in Keys : k = key
      BY <3>0
    <3>1. /\ k \in Keys /\ Slots[k] = i /\ i # 0
          /\ Len(jobs)' = Len(jobs)
          /\ Slots' = [Slots EXCEPT ![k] = 0]
          /\ Taken' = Taken \cup {i}
      BY <3>0
    <3> HIDE DEF key
    <3>2. Mail!Take(k)
      BY <3>1 DEF Mail!Take, Slots, Taken, Keys
    <3>3. k \in Kinds \X Targets
      BY <3>1 DEF Keys
    <3> QED
      BY <3>2, <3>3 DEF Mail!MailNext
  <2>3. CASE UNCHANGED jobs
    BY <2>3 DEF Mail!mailVars, SlotOf
  <2> QED
    BY <2>1, <2>2, <2>3, StepOnTable
<1> QED
  BY <1>1, <1>2, Invariance, PTL DEF Spec, ImplementsMailbox, Mail!MailSpec
=============================================================================
