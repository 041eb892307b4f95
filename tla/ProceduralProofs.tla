-------------------------- MODULE ProceduralProofs --------------------------
(***************************************************************************)
(* Proofs about Layer IV: for any directives, any number of pipeline       *)
(* threads, jobs and runs, no directive that was said is lost, and the     *)
(* detector is out of use once an answer has landed.                       *)
(*                                                                         *)
(* Rules are activated and deactivated but never deleted, jobs change      *)
(* their status but not their body, and "done" is final: what a thread     *)
(* learnt of the two tables before it let go of db.lock stays true.        *)
(***************************************************************************)
EXTENDS Procedural, JobTableProofs

Kinds == {Kind}
Targets == {Target}
Jobs == Job(Kinds, Targets, Body)

(***************************************************************************)
(* The inductive invariant.                                                *)
(***************************************************************************)
Known(d) == rules[d] # "absent"

\* What a consolidation under way has seen and has left to do: what was active
\* when it began is still a rule, and once its job is in the table the bridge
\* still has before it whatever the interaction said and no rule says.
ThreadOk(w) ==
  LET c == ingest[w] IN
  /\ c.job \in 0..Len(jobs)
  /\ \A d \in c.body.prior : Known(d)
  /\ c.late => SomeDone
  /\ c.pc = "regex" => ~c.late
  /\ c.pc = "idle" => c.job = 0
  /\ c.pc = "enqueue" => c.job = 0 /\ c.todo = c.body.said
  /\ c.pc = "bridge" => c.job # 0
  /\ c.pc \in {"bridge", "regex"} /\ c.job # 0 =>
       \A d \in jobs[c.job].body.said : d \in c.todo \/ Known(d)

SaidIsKnown(j) == \A d \in jobs[j].body.said : Known(d)

\* What became of a job.
JobOk(j) ==
  /\ \A d \in jobs[j].body.prior : Known(d)
  /\ jobs[j].status = "done" => answers[j] = "garbled" \/ SaidIsKnown(j)
  /\ UnderWay(j) \/ SomeDone \/ SaidIsKnown(j)

Inv ==
  /\ TypeOK
  /\ bridgeDone => SomeDone
  /\ \A w \in Ingesters : ThreadOk(w)
  /\ \A j \in DOMAIN jobs : JobOk(j)

(***************************************************************************)
(* What a step does to the two tables.                                     *)
(***************************************************************************)

\* No rule is deleted, no job's body changes, no job that is done is reopened.
TablesGrow ==
  /\ \A d \in Directives : Known(d) => Known(d)'
  /\ \A j \in DOMAIN jobs :
       /\ j \in DOMAIN jobs'
       /\ jobs'[j].body = jobs[j].body
       /\ jobs[j].status = "done" => jobs'[j].status = "done"

\* The rows of the table.
LEMMA JobFields ==
  ASSUME TypeOK
  PROVE  /\ Len(jobs) \in Nat /\ DOMAIN jobs = 1..Len(jobs)
         /\ jobs \in Seq(Jobs)
         /\ \A j \in DOMAIN jobs : /\ jobs[j] \in Jobs
                                   /\ jobs[j].body \in Body
                                   /\ jobs[j].body.said \in SUBSET Directives
                                   /\ jobs[j].body.prior \in SUBSET Directives
         /\ \A w \in Ingesters :
              /\ ingest[w].body \in Body
              /\ ingest[w].body.said \in SUBSET Directives
              /\ ingest[w].body.prior \in SUBSET Directives
              /\ ingest[w].todo \in SUBSET Directives
              /\ ingest[w].job \in Nat
<1>1. jobs \in Seq(Jobs)
  BY DEF TypeOK, Jobs, Kinds, Targets
<1>2. \A j \in DOMAIN jobs : jobs[j] \in Jobs
  BY <1>1
<1>3. \A j \in DOMAIN jobs : jobs[j].body \in Body
  BY <1>2 DEF Jobs, Job
<1>4. \A w \in Ingesters : ingest[w] \in Ingester
  BY DEF TypeOK
<1>5. \A w \in Ingesters : /\ ingest[w].body \in Body
                           /\ ingest[w].todo \in SUBSET Directives
                           /\ ingest[w].job \in Nat
  BY <1>4 DEF Ingester
<1>6. \A b \in Body : b.said \in SUBSET Directives /\ b.prior \in SUBSET Directives
  BY DEF Body
<1> QED
  BY <1>1, <1>2, <1>3, <1>5, <1>6

\* add_rule and deactivate forget no directive.
LEMMA RulesStay ==
  ASSUME NEW r \in [Directives -> {"absent", "active", "inactive"}],
         NEW adds, NEW deletes
  PROVE  LET s == DeactivateRules(AddRules(r, adds), deletes)
         IN /\ s \in [Directives -> {"absent", "active", "inactive"}]
            /\ \A d \in Directives :
                 /\ r[d] # "absent" => s[d] # "absent"
                 /\ d \in adds => s[d] # "absent"
<1> DEFINE a == AddRules(r, adds)
           s == DeactivateRules(a, deletes)
<1>1. /\ a \in [Directives -> {"absent", "active", "inactive"}]
      /\ \A d \in Directives :
           /\ r[d] # "absent" => a[d] # "absent"
           /\ d \in adds => a[d] # "absent"
  BY DEF AddRules
<1> HIDE DEF a
<1>2. /\ s \in [Directives -> {"absent", "active", "inactive"}]
      /\ \A d \in Directives : a[d] # "absent" => s[d] # "absent"
  BY <1>1 DEF DeactivateRules
<1> QED
  BY <1>1, <1>2 DEF a

\* add_rule on its own.
LEMMA AddStays ==
  ASSUME NEW r \in [Directives -> {"absent", "active", "inactive"}],
         NEW adds
  PROVE  LET s == AddRules(r, adds)
         IN /\ s \in [Directives -> {"absent", "active", "inactive"}]
            /\ \A d \in Directives :
                 /\ r[d] # "absent" => s[d] # "absent"
                 /\ d \in adds => s[d] # "absent"
  BY DEF AddRules

\* deactivate on its own.
LEMMA DeactivateStays ==
  ASSUME NEW r \in [Directives -> {"absent", "active", "inactive"}],
         NEW deletes
  PROVE  LET s == DeactivateRules(r, deletes)
         IN /\ s \in [Directives -> {"absent", "active", "inactive"}]
            /\ \A d \in Directives : r[d] # "absent" => s[d] # "absent"
  BY DEF DeactivateRules

\* An answer, once done, is remembered.
LEMMA DoneStays ==
  ASSUME TablesGrow, SomeDone
  PROVE  SomeDone'
  BY DEF TablesGrow, SomeDone

\* A thread that does not move keeps what it knows.
LEMMA ThreadStays ==
  ASSUME TypeOK, TablesGrow, NEW w \in Ingesters, ThreadOk(w),
         ingest'[w] = ingest[w], Len(jobs') \in Nat, Len(jobs) <= Len(jobs')
  PROVE  ThreadOk(w)'
<1> DEFINE c == ingest[w]
<1>1. /\ c.body.prior \in SUBSET Directives /\ c.job \in Nat
      /\ DOMAIN jobs = 1..Len(jobs) /\ Len(jobs) \in Nat
  BY JobFields
<1>2. ingest'[w] = c
  OBVIOUS
<1>3. c.job \in 0..Len(jobs')
  BY <1>1 DEF ThreadOk
<1>4. \A d \in c.body.prior : Known(d)'
  BY <1>1 DEF ThreadOk, TablesGrow
<1>5. c.late => SomeDone'
  BY DoneStays DEF ThreadOk
<1>6. ASSUME c.pc \in {"bridge", "regex"}, c.job # 0
      PROVE  \A d \in jobs'[c.job].body.said : d \in c.todo \/ Known(d)'
  <2>1. c.job \in DOMAIN jobs
    BY <1>1, <1>6 DEF ThreadOk
  <2>2. jobs'[c.job].body = jobs[c.job].body
    BY <2>1 DEF TablesGrow
  <2>3. jobs[c.job].body.said \in SUBSET Directives
    BY <2>1, JobFields
  <2>4. \A d \in jobs[c.job].body.said : d \in c.todo \/ Known(d)
    BY <1>6 DEF ThreadOk
  <2> QED
    BY <2>2, <2>3, <2>4 DEF TablesGrow
<1>7. /\ c.pc = "regex" => ~c.late
      /\ c.pc = "idle" => c.job = 0
      /\ c.pc = "enqueue" => c.job = 0 /\ c.todo = c.body.said
      /\ c.pc = "bridge" => c.job # 0
  BY DEF ThreadOk
<1> HIDE DEF c
<1> QED
  BY <1>2, <1>3, <1>4, <1>5, <1>6, <1>7 DEF ThreadOk

\* A job that is not answered by the step keeps what became of it, if the
\* thread it came from has not come to its end.
LEMMA JobStays ==
  ASSUME TypeOK, TablesGrow, NEW j \in DOMAIN jobs, JobOk(j),
         answers'[j] = answers[j],
         jobs'[j].status = "done" => jobs[j].status = "done",
         \/ UnderWay(j) => UnderWay(j)'
         \/ SomeDone'
         \/ SaidIsKnown(j)
  PROVE  JobOk(j)'
<1>1. jobs'[j].body = jobs[j].body
  BY DEF TablesGrow
<1>2. /\ jobs[j].body.said \in SUBSET Directives
      /\ jobs[j].body.prior \in SUBSET Directives
  BY JobFields
<1>3. SaidIsKnown(j) => SaidIsKnown(j)'
  BY <1>1, <1>2 DEF SaidIsKnown, TablesGrow
<1>4. \A d \in jobs'[j].body.prior : Known(d)'
  BY <1>1, <1>2 DEF JobOk, TablesGrow
<1>5. jobs'[j].status = "done" => answers'[j] = "garbled" \/ SaidIsKnown(j)'
  BY <1>3 DEF JobOk
<1>6. UnderWay(j)' \/ SomeDone' \/ SaidIsKnown(j)'
  BY <1>3, DoneStays DEF JobOk
<1> QED
  BY <1>4, <1>5, <1>6 DEF JobOk

(***************************************************************************)
(* Every step keeps the invariant.                                         *)
(***************************************************************************)

\* Nothing has been said yet.
LEMMA InvInitially == Init => Inv
<1> SUFFICES ASSUME Init PROVE Inv
  OBVIOUS
<1>1. /\ jobs = << >> /\ answers = << >> /\ bridgeDone = FALSE /\ run = 1
      /\ ingest = [w \in Ingesters |-> Resting] /\ aux \in BOOLEAN
      /\ rules = [d \in Directives |-> "absent"]
  BY DEF Init
<1>2. Resting \in Ingester
  BY DEF Resting, Ingester, Body
<1>3. TypeOK
  <2>1. jobs \in Seq(Job({Kind}, {Target}, Body))
        /\ answers \in Seq({"none", "good", "garbled", "raised"})
        /\ Len(answers) = Len(jobs)
    BY <1>1
  <2>2. run \in 1..MaxRuns
    BY <1>1, ProceduralBoundsAssumption
  <2>3. ingest \in [Ingesters -> Ingester]
    BY <1>1, <1>2
  <2> QED
    BY <1>1, <2>1, <2>2, <2>3 DEF TypeOK
<1>4. \A w \in Ingesters : ThreadOk(w)
  <2>1. TAKE w \in Ingesters
  <2>2. ingest[w] = Resting
    BY <1>1
  <2>3. Len(jobs) = 0
    BY <1>1
  <2> QED
    BY <2>2, <2>3 DEF ThreadOk, Resting
<1>5. \A j \in DOMAIN jobs : JobOk(j)
  BY <1>1
<1> QED
  BY <1>1, <1>3, <1>4, <1>5 DEF Inv

\* Only the rules change.
LEMMA RulesStep ==
  ASSUME Inv, rules' \in [Directives -> {"absent", "active", "inactive"}],
         \A d \in Directives : Known(d) => Known(d)',
         UNCHANGED <<jobs, ingest, bridgeDone, answers, run, aux>>
  PROVE  Inv'
<1>1. TypeOK'
  BY DEF Inv, TypeOK
<1>2. TypeOK /\ TablesGrow /\ Len(jobs') \in Nat /\ Len(jobs) <= Len(jobs')
  BY JobFields DEF Inv, TablesGrow
<1>3. \A w \in Ingesters : ThreadOk(w)'
  BY <1>2, ThreadStays DEF Inv
<1>4. \A j \in DOMAIN jobs' : JobOk(j)'
  BY <1>2, JobStays DEF Inv, UnderWay
<1> QED
  BY <1>1, <1>3, <1>4 DEF Inv, SomeDone

\* One thread moves, without a job of its own leaving it.
LEMMA ThreadStep ==
  ASSUME Inv, NEW w \in Ingesters, NEW c \in Ingester,
         ingest' = [ingest EXCEPT ![w] = c],
         rules' \in [Directives -> {"absent", "active", "inactive"}],
         \A d \in Directives : Known(d) => Known(d)',
         jobs' = jobs, answers' = answers, run' = run, aux' = aux,
         bridgeDone' \in BOOLEAN, bridgeDone' => SomeDone,
         ThreadOk(w)',
         \/ c.job = ingest[w].job
         \/ SomeDone
         \/ \A j \in DOMAIN jobs : ingest[w].job = j => SaidIsKnown(j)
  PROVE  Inv'
<1>1. TypeOK'
  BY DEF Inv, TypeOK
<1>2. TypeOK /\ TablesGrow /\ Len(jobs') \in Nat /\ Len(jobs) <= Len(jobs')
  BY JobFields DEF Inv, TablesGrow
<1>3. /\ ingest'[w] = c
      /\ \A v \in Ingesters \ {w} : ingest'[v] = ingest[v]
  BY <1>2 DEF TypeOK
<1>4. \A v \in Ingesters : ThreadOk(v)'
  <2>1. \A v \in Ingesters \ {w} : ThreadOk(v)'
    BY <1>2, <1>3, ThreadStays DEF Inv
  <2> QED
    BY <2>1
<1>5. \A j \in DOMAIN jobs' : JobOk(j)'
  <2>1. TAKE j \in DOMAIN jobs'
  <2>2. j \in DOMAIN jobs /\ JobOk(j)
    BY DEF Inv
  <2>3. SomeDone => SomeDone'
    BY <1>2, DoneStays
  <2>4. UnderWay(j) => UnderWay(j)' \/ SomeDone' \/ SaidIsKnown(j)
    <3>1. SUFFICES ASSUME NEW v \in Ingesters, ingest[v].job = j
                   PROVE  UnderWay(j)' \/ SomeDone' \/ SaidIsKnown(j)
      BY DEF UnderWay
    <3>2. CASE v # w
      BY <1>3, <3>1, <3>2 DEF UnderWay
    <3>3. CASE v = w
      BY <1>3, <2>2, <2>3, <3>1, <3>3 DEF UnderWay
    <3> QED
      BY <3>2, <3>3
  <2> QED
    BY <1>2, <2>2, <2>4, JobStays
<1>6. bridgeDone' => SomeDone'
  BY DEF SomeDone
<1> QED
  BY <1>1, <1>4, <1>5, <1>6 DEF Inv

\* What an interaction says, and what is active when it is said.
LEMMA BeginStep ==
  ASSUME Inv, NEW w \in Ingesters, NEW said \in SUBSET Directives,
         Begin(w, said)
  PROVE  Inv'
<1> DEFINE c == [pc |-> "enqueue", body |-> [said |-> said, prior |-> Active],
                 todo |-> said, job |-> 0, late |-> SomeDone]
<1>1. ingest' = [ingest EXCEPT ![w] = c]
      /\ UNCHANGED <<rules, jobs, bridgeDone, answers, run, aux>>
  BY DEF Begin
<1>2. Active \in SUBSET Directives /\ \A d \in Active : Known(d)
  BY DEF Active, Known
<1>3. c \in Ingester
  BY <1>2 DEF Ingester, Body, SomeDone
<1>4. /\ ingest \in [Ingesters -> Ingester] /\ bridgeDone \in BOOLEAN
      /\ rules \in [Directives -> {"absent", "active", "inactive"}]
      /\ Len(jobs) \in Nat
  BY JobFields DEF Inv, TypeOK
<1>5. ingest'[w] = c
  BY <1>1, <1>4
<1>6. ThreadOk(w)'
  BY <1>1, <1>2, <1>4, <1>5 DEF ThreadOk, Known, SomeDone
<1>7. c.job = ingest[w].job
  BY DEF Begin, Inv, ThreadOk
<1> HIDE DEF c
<1> QED
  BY <1>1, <1>3, <1>4, <1>6, <1>7, ThreadStep DEF Inv, Known

\* Aux off: no job, so nothing the bridge could leave open.
LEMMA BeginInlineStep ==
  ASSUME Inv, NEW w \in Ingesters, NEW said \in SUBSET Directives,
         BeginInline(w, said)
  PROVE  Inv'
<1> DEFINE c == [Resting EXCEPT !.pc = "regex", !.todo = said]
<1>1. ingest' = [ingest EXCEPT ![w] = c]
      /\ UNCHANGED <<rules, jobs, bridgeDone, answers, run, aux>>
  BY DEF BeginInline
<1>2. /\ c \in Ingester /\ c.pc = "regex" /\ c.job = 0 /\ ~c.late
      /\ c.body.prior = {}
  <2>1. /\ Resting \in Ingester /\ Resting.job = 0 /\ ~Resting.late
        /\ Resting.body.prior = {}
    BY DEF Resting, Ingester, Body
  <2> QED
    BY <2>1 DEF Ingester
<1>3. /\ ingest \in [Ingesters -> Ingester] /\ bridgeDone \in BOOLEAN
      /\ rules \in [Directives -> {"absent", "active", "inactive"}]
      /\ Len(jobs) \in Nat
  BY JobFields DEF Inv, TypeOK
<1>4. ingest'[w] = c
  BY <1>1, <1>3
<1>5. ThreadOk(w)'
  <2> HIDE DEF c
  <2> QED
    BY <1>1, <1>2, <1>3, <1>4 DEF ThreadOk
<1>6. c.job = ingest[w].job
  BY <1>2 DEF BeginInline, Inv, ThreadOk
<1> HIDE DEF c
<1> QED
  BY <1>1, <1>2, <1>3, <1>5, <1>6, ThreadStep DEF Inv, Known

\* The flag, else the table: a thread stops here only if an answer has landed.
LEMMA CheckBridgeStep ==
  ASSUME Inv, NEW w \in Ingesters, CheckBridge(w)
  PROVE  Inv'
<1> DEFINE c == IF BridgeSatisfied THEN Resting
                ELSE [ingest[w] EXCEPT !.pc = "regex"]
<1>1. /\ ingest' = [ingest EXCEPT ![w] = c] /\ bridgeDone' = BridgeSatisfied
      /\ UNCHANGED <<rules, jobs, answers, run, aux>>
      /\ ingest[w].pc = "bridge"
  BY DEF CheckBridge
<1>2. BridgeSatisfied <=> SomeDone
  BY DEF Inv, BridgeSatisfied
<1>3. /\ ingest \in [Ingesters -> Ingester] /\ bridgeDone \in BOOLEAN
      /\ rules \in [Directives -> {"absent", "active", "inactive"}]
      /\ Len(jobs) \in Nat /\ ingest[w] \in Ingester
  BY JobFields DEF Inv, TypeOK
<1>4. ThreadOk(w)
  BY DEF Inv
<1>5. bridgeDone' \in BOOLEAN /\ (bridgeDone' => SomeDone)
  BY <1>1, <1>2, <1>3 DEF BridgeSatisfied, SomeDone
<1>6. CASE SomeDone
  <2>1. c = Resting
    BY <1>2, <1>6
  <2>2. Resting \in Ingester
    BY DEF Resting, Ingester, Body
  <2>3. ingest'[w] = Resting
    BY <1>1, <1>3, <2>1
  <2>4. ThreadOk(w)'
    BY <1>1, <1>3, <2>3 DEF ThreadOk, Resting
  <2> HIDE DEF c
  <2> QED
    BY <1>1, <1>3, <1>5, <1>6, <2>1, <2>2, <2>4, ThreadStep DEF Known
<1>7. CASE ~SomeDone
  <2>1. c = [ingest[w] EXCEPT !.pc = "regex"]
    BY <1>2, <1>7
  <2>2. /\ c \in Ingester /\ c.pc = "regex" /\ c.job = ingest[w].job
        /\ c.body = ingest[w].body /\ c.todo = ingest[w].todo
        /\ c.late = ingest[w].late
    BY <1>3, <2>1 DEF Ingester
  <2>3. ingest'[w] = c
    BY <1>1, <1>3
  <2> HIDE DEF c
  <2>4. ThreadOk(w)'
    BY <1>1, <1>4, <1>7, <2>2, <2>3 DEF ThreadOk, Known, SomeDone
  <2> QED
    BY <1>1, <1>3, <1>5, <2>2, <2>4, ThreadStep DEF Known
<1> QED
  BY <1>6, <1>7

\* detect_and_store: one directive, or the end.
LEMMA StoreDetectedStep ==
  ASSUME Inv, NEW w \in Ingesters, StoreDetected(w)
  PROVE  Inv'
<1>1. /\ ingest \in [Ingesters -> Ingester] /\ bridgeDone \in BOOLEAN
      /\ rules \in [Directives -> {"absent", "active", "inactive"}]
      /\ Len(jobs) \in Nat /\ ingest[w] \in Ingester
      /\ DOMAIN jobs = 1..Len(jobs)
  BY JobFields DEF Inv, TypeOK
<1>2. ThreadOk(w) /\ ingest[w].pc = "regex" /\ (bridgeDone => SomeDone)
      /\ UNCHANGED <<jobs, bridgeDone, answers, run, aux>>
  BY DEF Inv, StoreDetected
<1>3. CASE ingest[w].todo = {}
  <2>1. ingest' = [ingest EXCEPT ![w] = Resting] /\ rules' = rules
    BY <1>3 DEF StoreDetected
  <2>2. Resting \in Ingester
    BY DEF Resting, Ingester, Body
  <2>3. ingest'[w] = Resting
    BY <1>1, <2>1
  <2>4. ThreadOk(w)'
    BY <1>1, <1>2, <2>3 DEF ThreadOk, Resting
  <2>5. \A j \in DOMAIN jobs : ingest[w].job = j => SaidIsKnown(j)
    BY <1>1, <1>2, <1>3 DEF ThreadOk, SaidIsKnown
  <2> QED
    BY <1>1, <1>2, <2>1, <2>2, <2>4, <2>5, ThreadStep DEF Known
<1>4. CASE ingest[w].todo # {}
  <2>1. PICK d \in ingest[w].todo :
          /\ rules' = AddRules(rules, {d})
          /\ ingest' = [ingest EXCEPT ![w].todo = @ \ {d}]
    BY <1>4 DEF StoreDetected
  <2> DEFINE c == [ingest[w] EXCEPT !.todo = @ \ {d}]
  <2>2. /\ rules' \in [Directives -> {"absent", "active", "inactive"}]
        /\ \A r \in Directives : Known(r) => Known(r)'
        /\ d \in Directives /\ Known(d)'
    <3>1. d \in Directives
      BY <1>1, <2>1 DEF Ingester
    <3>2. LET s == AddRules(rules, {d})
          IN /\ s \in [Directives -> {"absent", "active", "inactive"}]
             /\ \A r \in Directives :
                  /\ rules[r] # "absent" => s[r] # "absent"
                  /\ r \in {d} => s[r] # "absent"
      BY <1>1, AddStays
    <3> QED
      BY <2>1, <3>1, <3>2 DEF Known
  <2>3. /\ c \in Ingester /\ c.pc = "regex" /\ c.job = ingest[w].job
        /\ c.body = ingest[w].body /\ c.todo = ingest[w].todo \ {d}
        /\ c.late = ingest[w].late
    BY <1>1, <1>2 DEF Ingester
  <2>4. ingest' = [ingest EXCEPT ![w] = c] /\ ingest'[w] = c
    BY <1>1, <2>1
  <2> HIDE DEF c
  <2>5. ThreadOk(w)'
    <3>1. c.job \in 0..Len(jobs') /\ (c.late => SomeDone') /\ ~c.late
      BY <1>2, <2>3 DEF ThreadOk, SomeDone
    <3>2. \A r \in c.body.prior : Known(r)'
      <4>1. c.body.prior \in SUBSET Directives
        BY <2>3, JobFields DEF Inv
      <4> QED
        BY <1>2, <2>2, <2>3, <4>1 DEF ThreadOk
    <3>3. ASSUME c.job # 0
          PROVE  \A r \in jobs'[c.job].body.said : r \in c.todo \/ Known(r)'
      <4>1. c.job \in DOMAIN jobs
        BY <1>1, <1>2, <2>3, <3>3 DEF ThreadOk
      <4>2. jobs[c.job].body.said \in SUBSET Directives
        BY <4>1, JobFields DEF Inv
      <4>3. \A r \in jobs[c.job].body.said : r \in ingest[w].todo \/ Known(r)
        BY <1>2, <2>3, <3>3 DEF ThreadOk
      <4> QED
        BY <1>2, <2>2, <2>3, <4>2, <4>3
    <3> QED
      BY <2>3, <2>4, <3>1, <3>2, <3>3 DEF ThreadOk
  <2> QED
    BY <1>1, <1>2, <2>2, <2>3, <2>4, <2>5, ThreadStep
<1> QED
  BY <1>3, <1>4

\* enqueue: the new job is under way, the others keep their bodies.
LEMMA EnqueueStep ==
  ASSUME Inv, NEW w \in Ingesters, Enqueue(w)
  PROVE  Inv'
<1> DEFINE n == Len(jobs)
           new == EnqueueJob(jobs, Kind, Target, ingest[w].body)
           c == [ingest[w] EXCEPT !.pc = "bridge", !.job = n + 1]
<1>1. /\ TypeOK /\ ThreadOk(w) /\ n \in Nat /\ jobs \in Seq(Jobs)
      /\ ingest \in [Ingesters -> Ingester] /\ ingest[w] \in Ingester
      /\ ingest[w].body \in Body /\ DOMAIN jobs = 1..n
      /\ bridgeDone => SomeDone
  BY JobFields DEF Inv, TypeOK
<1>2. /\ jobs' = new /\ answers' = Append(answers, "none")
      /\ ingest' = [ingest EXCEPT ![w].pc = "bridge", ![w].job = n + 1]
      /\ UNCHANGED <<rules, bridgeDone, run, aux>>
      /\ ingest[w].pc = "enqueue"
  BY DEF Enqueue
<1>3. /\ new \in Seq(Jobs)
      /\ Len(new) = n + 1
      /\ new[n + 1] = NewJob(Kind, Target, ingest[w].body)
      /\ \A i \in 1..n : new[i] = IF i \in PendingOne(jobs, Kind, Target)
                                  THEN WithStatus(jobs[i], "superseded")
                                  ELSE jobs[i]
  <2>1. jobs \in Seq(Job(Kinds, Targets, Body))
    BY <1>1 DEF Jobs
  <2>2. Kind \in Kinds /\ Target \in Targets
    BY DEF Kinds, Targets
  <2> QED
    BY <1>1, <2>1, <2>2, EnqueueShape DEF Jobs
<1>4. /\ c \in Ingester /\ c.pc = "bridge" /\ c.job = n + 1
      /\ c.body = ingest[w].body /\ c.todo = ingest[w].todo
      /\ c.late = ingest[w].late
  <2>1. n + 1 \in Nat
    BY <1>1
  <2> HIDE DEF n
  <2> QED
    BY <1>1, <2>1 DEF Ingester
<1>5. ingest' = [ingest EXCEPT ![w] = c]
  BY <1>1, <1>2
<1> HIDE DEF new, c
<1>6. \A i \in 1..n : /\ new[i].body = jobs[i].body
                      /\ new[i].status = "done" <=> jobs[i].status = "done"
  <2>1. TAKE i \in 1..n
  <2>2. jobs[i] \in Jobs
    BY <1>1
  <2>3. CASE i \in PendingOne(jobs, Kind, Target)
    <3>1. new[i] = WithStatus(jobs[i], "superseded")
      BY <1>3, <2>3
    <3>2. new[i].body = jobs[i].body /\ new[i].status = "superseded"
      BY <2>2, <3>1 DEF Jobs, Job, WithStatus
    <3>3. jobs[i].status = "pending"
      BY <2>3 DEF PendingOne, Pending
    <3> QED
      BY <3>2, <3>3
  <2>4. CASE i \notin PendingOne(jobs, Kind, Target)
    BY <1>3, <2>4
  <2> QED
    BY <2>3, <2>4
<1>7. new[n + 1].body = ingest[w].body /\ new[n + 1].status = "pending"
  BY <1>3 DEF NewJob
<1>8. /\ Len(jobs') = n + 1 /\ DOMAIN jobs' = 1..(n + 1)
      /\ answers' \in Seq({"none", "good", "garbled", "raised"})
      /\ Len(answers') = n + 1
      /\ \A j \in DOMAIN jobs : answers'[j] = answers[j]
  BY <1>1, <1>2, <1>3 DEF TypeOK
<1>9. TypeOK'
  BY <1>1, <1>2, <1>3, <1>4, <1>5, <1>8 DEF TypeOK, Jobs, Kinds, Targets
<1>10. TablesGrow
  BY <1>1, <1>2, <1>6, <1>8 DEF TablesGrow, Known
<1>11. ingest'[w] = c /\ \A v \in Ingesters \ {w} : ingest'[v] = ingest[v]
  BY <1>1, <1>5
<1>12. SomeDone => SomeDone'
  BY <1>10, DoneStays
<1>13. ThreadOk(w)'
  <2>1. /\ ingest[w].todo = ingest[w].body.said
        /\ \A d \in ingest[w].body.prior : Known(d)
        /\ ingest[w].late => SomeDone
    BY <1>1, <1>2 DEF ThreadOk
  <2>2. jobs'[c.job].body.said = c.todo
    BY <1>2, <1>4, <1>7, <2>1
  <2> QED
    BY <1>1, <1>2, <1>4, <1>8, <1>11, <1>12, <2>1, <2>2 DEF ThreadOk, Known
<1>14. \A v \in Ingesters : ThreadOk(v)'
  <2>1. \A v \in Ingesters \ {w} : ThreadOk(v)'
    BY <1>1, <1>8, <1>10, <1>11, ThreadStays DEF Inv
  <2> QED
    BY <1>13, <2>1
<1>15. \A j \in DOMAIN jobs : JobOk(j)'
  <2>1. TAKE j \in DOMAIN jobs
  <2>2. UnderWay(j) => UnderWay(j)'
    <3>1. ingest[w].job = 0 /\ j # 0
      BY <1>1, <1>2 DEF ThreadOk
    <3> QED
      BY <1>11, <3>1 DEF UnderWay
  <2>3. jobs'[j].status = "done" => jobs[j].status = "done"
    BY <1>1, <1>2, <1>6
  <2> QED
    BY <1>1, <1>8, <1>10, <2>2, <2>3, JobStays DEF Inv
<1>16. ASSUME NEW j, j = n + 1
       PROVE  JobOk(j)'
  <2>1. UnderWay(j)'
    BY <1>4, <1>11, <1>16 DEF UnderWay
  <2>2. \A d \in ingest[w].body.prior : Known(d)'
    BY <1>1, <1>2 DEF ThreadOk, Known
  <2>3. jobs'[j].body = ingest[w].body /\ jobs'[j].status = "pending"
    BY <1>2, <1>7, <1>16
  <2> QED
    BY <2>1, <2>2, <2>3 DEF JobOk
<1>17. \A j \in DOMAIN jobs' : JobOk(j)'
  BY <1>1, <1>8, <1>15, <1>16
<1> QED
  BY <1>1, <1>2, <1>9, <1>12, <1>14, <1>17 DEF Inv

\* An answer for job j: afterwards it is done, unless its apply raised, and
\* a good one has made everything the job was told of a rule.
LEMMA AnswerStep ==
  ASSUME Inv, NEW j \in Pending(jobs), NEW answer \in {"good", "garbled", "raised"},
         rules' \in [Directives -> {"absent", "active", "inactive"}],
         \A d \in Directives : Known(d) => Known(d)',
         jobs' = IF answer = "raised" THEN jobs ELSE MarkDone(jobs, j),
         answers' = [answers EXCEPT ![j] = answer],
         UNCHANGED <<ingest, bridgeDone, run, aux>>,
         answer = "good" => SaidIsKnown(j)'
  PROVE  Inv'
<1>1. /\ TypeOK /\ jobs \in Seq(Jobs) /\ j \in DOMAIN jobs
      /\ Len(jobs) \in Nat /\ DOMAIN jobs = 1..Len(jobs)
  BY JobFields DEF Inv, Pending
<1>2. /\ MarkDone(jobs, j) \in Seq(Jobs)
      /\ Len(MarkDone(jobs, j)) = Len(jobs)
      /\ DOMAIN MarkDone(jobs, j) = DOMAIN jobs
      /\ MarkDone(jobs, j)[j] = WithStatus(jobs[j], "done")
      /\ \A i \in DOMAIN jobs \ {j} : MarkDone(jobs, j)[i] = jobs[i]
  BY <1>1, MarkDoneShape DEF Jobs
<1>3. /\ WithStatus(jobs[j], "done").body = jobs[j].body
      /\ WithStatus(jobs[j], "done").status = "done"
  BY <1>1 DEF Jobs, Job, WithStatus
<1>4. /\ jobs' \in Seq(Jobs) /\ Len(jobs') = Len(jobs)
      /\ DOMAIN jobs' = DOMAIN jobs
      /\ \A i \in DOMAIN jobs :
           /\ jobs'[i].body = jobs[i].body
           /\ jobs[i].status = "done" => jobs'[i].status = "done"
           /\ i # j => jobs'[i] = jobs[i]
      /\ jobs'[j].status = "done" => answer # "raised" \/ jobs[j].status = "done"
      /\ answer # "raised" => jobs'[j].status = "done"
  <2>1. CASE answer = "raised"
    BY <1>1, <2>1
  <2>2. CASE answer # "raised"
    BY <1>1, <1>2, <1>3, <2>2
  <2> QED
    BY <2>1, <2>2
<1>5. /\ answers' \in Seq({"none", "good", "garbled", "raised"})
      /\ Len(answers') = Len(jobs)
      /\ answers'[j] = answer
      /\ \A i \in DOMAIN jobs \ {j} : answers'[i] = answers[i]
  BY <1>1 DEF TypeOK
<1>6. TypeOK'
  BY <1>1, <1>4, <1>5 DEF TypeOK, Jobs, Kinds, Targets
<1>7. TablesGrow
  BY <1>4 DEF TablesGrow
<1>8. \A w \in Ingesters : ThreadOk(w)'
  BY <1>1, <1>4, <1>7, ThreadStays DEF Inv
<1>9. \A i \in DOMAIN jobs \ {j} : JobOk(i)'
  <2>1. TAKE i \in DOMAIN jobs \ {j}
  <2>2. UnderWay(i) => UnderWay(i)'
    BY DEF UnderWay
  <2>3. answers'[i] = answers[i]
        /\ (jobs'[i].status = "done" => jobs[i].status = "done")
        /\ JobOk(i) /\ i \in DOMAIN jobs
    BY <1>4, <1>5 DEF Inv
  <2> QED
    BY <1>1, <1>7, <2>2, <2>3, JobStays
<1>10. JobOk(j)'
  <2>1. JobOk(j) /\ jobs[j].status = "pending"
    BY <1>1 DEF Inv, Pending
  <2>2. /\ jobs[j].body.said \in SUBSET Directives
        /\ jobs[j].body.prior \in SUBSET Directives
        /\ jobs'[j].body = jobs[j].body
    BY <1>1, <1>4, JobFields
  <2>3. \A d \in jobs'[j].body.prior : Known(d)'
    BY <2>1, <2>2 DEF JobOk
  <2>4. jobs'[j].status = "done" => answers'[j] = "garbled" \/ SaidIsKnown(j)'
    BY <1>4, <1>5, <2>1
  <2>5. SaidIsKnown(j) => SaidIsKnown(j)'
    BY <2>2 DEF SaidIsKnown
  <2>6. (UnderWay(j) => UnderWay(j)') /\ (SomeDone => SomeDone')
    BY <1>7, DoneStays DEF UnderWay
  <2> QED
    BY <2>1, <2>3, <2>4, <2>5, <2>6 DEF JobOk
<1>11. bridgeDone' => SomeDone'
  BY <1>7, DoneStays DEF Inv
<1> QED
  BY <1>4, <1>6, <1>8, <1>9, <1>10, <1>11 DEF Inv

\* What was said is among the rules once a good answer has landed: it was
\* added, or it was active when the job was enqueued.
LEMMA SubmitStep ==
  ASSUME Inv, NEW j \in DOMAIN jobs,
         NEW adds \in SUBSET Directives, NEW deletes \in SUBSET Directives,
         Submit(j, adds, deletes)
  PROVE  Inv'
<1>1. /\ j \in Pending(jobs) /\ jobs' = MarkDone(jobs, j)
      /\ GoodAnswer(jobs[j].body, adds, deletes)
      /\ answers' = [answers EXCEPT ![j] = "good"]
      /\ UNCHANGED <<ingest, bridgeDone, run, aux>>
  BY DEF Submit
<1>2. LET s == DeactivateRules(AddRules(rules, adds), deletes)
      IN /\ s \in [Directives -> {"absent", "active", "inactive"}]
         /\ \A d \in Directives :
              /\ rules[d] # "absent" => s[d] # "absent"
              /\ d \in adds => s[d] # "absent"
  BY RulesStay DEF Inv, TypeOK
<1>3. /\ rules' \in [Directives -> {"absent", "active", "inactive"}]
      /\ \A d \in Directives : Known(d) => Known(d)'
      /\ \A d \in adds : Known(d)'
  BY <1>2 DEF Submit, ApplyOps, Known
<1>4. jobs'[j].body = jobs[j].body
  <2>1. jobs \in Seq(Jobs) /\ jobs[j] \in Jobs
    BY JobFields DEF Inv
  <2>2. MarkDone(jobs, j)[j] = WithStatus(jobs[j], "done")
    BY <2>1, MarkDoneShape DEF Jobs
  <2> QED
    BY <1>1, <2>1, <2>2 DEF Jobs, Job, WithStatus
<1>5. SaidIsKnown(j)'
  <2>1. \A d \in jobs[j].body.prior : Known(d)
    BY DEF Inv, JobOk
  <2>2. jobs[j].body.said \in SUBSET Directives
    BY JobFields DEF Inv
  <2>3. jobs[j].body.said \ jobs[j].body.prior \subseteq adds
    BY <1>1 DEF GoodAnswer
  <2> QED
    BY <1>3, <1>4, <2>1, <2>2, <2>3 DEF SaidIsKnown
<1>6. "good" \in {"good", "garbled", "raised"}
      /\ jobs' = IF "good" = "raised" THEN jobs ELSE MarkDone(jobs, j)
  BY <1>1
<1> QED
  BY <1>1, <1>3, <1>5, <1>6, AnswerStep

\* An unreadable answer.
LEMMA SubmitGarbledStep ==
  ASSUME Inv, NEW j \in DOMAIN jobs, SubmitGarbled(j)
  PROVE  Inv'
<1>1. /\ j \in Pending(jobs) /\ jobs' = MarkDone(jobs, j)
      /\ answers' = [answers EXCEPT ![j] = "garbled"]
      /\ UNCHANGED <<rules, ingest, bridgeDone, run, aux>>
  BY DEF SubmitGarbled
<1>2. /\ rules' \in [Directives -> {"absent", "active", "inactive"}]
      /\ \A d \in Directives : Known(d) => Known(d)'
  BY <1>1 DEF Inv, TypeOK, Known
<1>3. "garbled" \in {"good", "garbled", "raised"} /\ "garbled" # "good"
      /\ jobs' = IF "garbled" = "raised" THEN jobs ELSE MarkDone(jobs, j)
  BY <1>1
<1> QED
  BY <1>1, <1>2, <1>3, AnswerStep

\* An answer whose apply raises half way: the job waits on.
LEMMA SubmitRaisesStep ==
  ASSUME Inv, NEW j \in DOMAIN jobs,
         NEW adds \in SUBSET Directives, NEW deletes \in SUBSET Directives,
         SubmitRaises(j, adds, deletes)
  PROVE  Inv'
<1>1. /\ j \in Pending(jobs)
      /\ answers' = [answers EXCEPT ![j] = "raised"]
      /\ UNCHANGED <<jobs, ingest, bridgeDone, run, aux>>
  BY DEF SubmitRaises
<1>2. LET s == DeactivateRules(AddRules(rules, adds), deletes)
      IN /\ s \in [Directives -> {"absent", "active", "inactive"}]
         /\ \A d \in Directives :
              /\ rules[d] # "absent" => s[d] # "absent"
              /\ d \in adds => s[d] # "absent"
  BY RulesStay DEF Inv, TypeOK
<1>3. /\ rules' \in [Directives -> {"absent", "active", "inactive"}]
      /\ \A d \in Directives : Known(d) => Known(d)'
  BY <1>2 DEF SubmitRaises, ApplyOps, Known
<1>4. "raised" \in {"good", "garbled", "raised"} /\ "raised" # "good"
      /\ jobs' = IF "raised" = "raised" THEN jobs ELSE MarkDone(jobs, j)
  BY <1>1
<1> QED
  BY <1>1, <1>3, <1>4, AnswerStep

\* remember_rule and distill add a rule.
LEMMA AddedStep ==
  ASSUME Inv, NEW d \in Directives, rules' = AddRules(rules, {d}),
         UNCHANGED <<jobs, ingest, bridgeDone, answers, run, aux>>
  PROVE  Inv'
<1>1. LET s == AddRules(rules, {d})
      IN /\ s \in [Directives -> {"absent", "active", "inactive"}]
         /\ \A r \in Directives :
              /\ rules[r] # "absent" => s[r] # "absent"
              /\ r \in {d} => s[r] # "absent"
  BY AddStays DEF Inv, TypeOK
<1>2. /\ rules' \in [Directives -> {"absent", "active", "inactive"}]
      /\ \A r \in Directives : Known(r) => Known(r)'
  BY <1>1 DEF Known
<1> QED
  BY <1>2, RulesStep

\* deactivate keeps the row.
LEMMA DeactivatedStep ==
  ASSUME Inv, NEW d \in Directives, Deactivate(d)
  PROVE  Inv'
<1>1. LET s == DeactivateRules(rules, {d})
      IN /\ s \in [Directives -> {"absent", "active", "inactive"}]
         /\ \A r \in Directives : rules[r] # "absent" => s[r] # "absent"
  BY DeactivateStays DEF Inv, TypeOK
<1>2. /\ rules' \in [Directives -> {"absent", "active", "inactive"}]
      /\ \A r \in Directives : Known(r) => Known(r)'
      /\ UNCHANGED <<jobs, ingest, bridgeDone, answers, run, aux>>
  BY <1>1 DEF Known, Deactivate
<1> QED
  BY <1>2, RulesStep

\* A new run forgets its flag, and nothing else.
LEMMA ReopenStep ==
  ASSUME Inv, Reopen
  PROVE  Inv'
<1>1. /\ run < MaxRuns /\ run' = run + 1 /\ bridgeDone' = FALSE
      /\ aux' \in BOOLEAN
      /\ UNCHANGED <<rules, jobs, ingest, answers>>
  BY DEF Reopen
<1>2. run' \in 1..MaxRuns
  BY <1>1, ProceduralBoundsAssumption DEF Inv, TypeOK
<1>3. TypeOK'
  BY <1>1, <1>2 DEF Inv, TypeOK
<1>4. TypeOK /\ TablesGrow /\ Len(jobs') \in Nat /\ Len(jobs) <= Len(jobs')
  BY <1>1, JobFields DEF Inv, TablesGrow, Known
<1>5. \A w \in Ingesters : ThreadOk(w)'
  BY <1>1, <1>4, ThreadStays DEF Inv
<1>6. \A j \in DOMAIN jobs' : JobOk(j)'
  BY <1>1, <1>4, JobStays DEF Inv, UnderWay
<1> QED
  BY <1>1, <1>3, <1>5, <1>6 DEF Inv

\* Every step.
LEMMA InvStep == Inv /\ [Next]_vars => Inv'
<1> SUFFICES ASSUME Inv, [Next]_vars PROVE Inv'
  OBVIOUS
<1>1. ASSUME NEW w \in Ingesters, NEW said \in SUBSET Directives,
             Begin(w, said) \/ BeginInline(w, said)
      PROVE  Inv'
  BY <1>1, BeginStep, BeginInlineStep
<1>2. ASSUME NEW w \in Ingesters,
             Enqueue(w) \/ CheckBridge(w) \/ StoreDetected(w)
      PROVE  Inv'
  BY <1>2, EnqueueStep, CheckBridgeStep, StoreDetectedStep
<1>3. ASSUME NEW j \in DOMAIN jobs,
             NEW adds \in SUBSET Directives, NEW deletes \in SUBSET Directives,
             Submit(j, adds, deletes) \/ SubmitRaises(j, adds, deletes)
      PROVE  Inv'
  BY <1>3, SubmitStep, SubmitRaisesStep
<1>4. ASSUME NEW j \in DOMAIN jobs, SubmitGarbled(j)
      PROVE  Inv'
  BY <1>4, SubmitGarbledStep
<1>5. ASSUME NEW d \in Directives, RememberRule(d) \/ Distill(d)
      PROVE  Inv'
  BY <1>5, AddedStep DEF RememberRule, Distill
<1>6. ASSUME NEW d \in Directives, Deactivate(d)
      PROVE  Inv'
  BY <1>6, DeactivatedStep
<1>7. ASSUME Reopen
      PROVE  Inv'
  BY <1>7, ReopenStep
<1>8. CASE UNCHANGED vars
  <2>1. /\ rules' \in [Directives -> {"absent", "active", "inactive"}]
        /\ \A d \in Directives : Known(d) => Known(d)'
        /\ UNCHANGED <<jobs, ingest, bridgeDone, answers, run, aux>>
    BY <1>8 DEF vars, Inv, TypeOK, Known
  <2> QED
    BY <2>1, RulesStep
<1> QED
  BY <1>1, <1>2, <1>3, <1>4, <1>5, <1>6, <1>7, <1>8 DEF Next

(***************************************************************************)
(* The theorems.                                                           *)
(***************************************************************************)

\* The strengthened invariant holds.
THEOREM Invariance == Spec => []Inv
<1> QED
  BY InvInitially, InvStep, PTL DEF Spec

\* The two tables, the threads and the flag keep their types.
THEOREM TypeCorrect == Spec => []TypeOK
<1>1. Inv => TypeOK
  BY DEF Inv
<1> QED
  BY <1>1, Invariance, PTL

\* The detector does not run for an interaction that began after an answer
\* had landed, in whichever run: the table remembers what the flag forgets.
THEOREM DetectorStaysDown == Spec => []BridgeStaysDown
<1>1. Inv => BridgeStaysDown
  BY DEF Inv, ThreadOk, BridgeStaysDown
<1> QED
  BY <1>1, Invariance, PTL

\* No directive is lost between the detector and the host's model.
THEOREM NothingIsLost == Spec => []NoDirectiveLost
<1>1. ASSUME Inv PROVE NoDirectiveLost
  <2>1. SUFFICES ASSUME NEW j \in DOMAIN jobs
                 PROVE  \/ UnderWay(j)
                        \/ answers[j] = "garbled"
                        \/ SomeDone /\ jobs[j].status # "done"
                        \/ SaidIsKnown(j)
    BY DEF NoDirectiveLost, SaidIsKnown, Known
  <2>2. JobOk(j)
    BY <1>1 DEF Inv
  <2> QED
    BY <2>2 DEF JobOk
<1>2. Inv => NoDirectiveLost
  BY <1>1
<1> QED
  BY <1>2, Invariance, PTL
=============================================================================
