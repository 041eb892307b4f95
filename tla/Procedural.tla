----------------------------- MODULE Procedural -----------------------------
(***************************************************************************)
(* Layer IV: standing directives, mined by the host's model through the    *)
(* auxiliary bus and, until its first answer has landed, also by the       *)
(* inline detector (the bridge): ProceduralConsolidator in                 *)
(* core/consolidation.py, DirectiveExtractHandler in                       *)
(* layers/procedural/handler.py, ProceduralStore in procedural.py.         *)
(*                                                                         *)
(* An interaction is the set of directives its user text says; both the    *)
(* detector and the model find exactly these.  A consolidation takes       *)
(* db.lock once per statement, an answer holds it throughout.              *)
(***************************************************************************)
EXTENDS JobTable

CONSTANTS
  Directives,       (* directive texts                                     *)
  Ingesters,        (* pipeline threads that may run at once               *)
  MaxInteractions,  (* bound: jobs ever enqueued                           *)
  MaxRuns           (* bound: process runs                                 *)

ASSUME ProceduralBoundsAssumption ==
  MaxInteractions \in Nat /\ MaxRuns \in Nat \ {0}

VARIABLES
  rules,       (* procedural_rules: UNIQUE(directive), and whether active  *)
  jobs,        (* the procedural_extract rows of summarization_jobs        *)
  ingest,      (* how far each thread's consolidation got                  *)
  bridgeDone,  (* _bridge_done: in memory, set once                        *)
  answers,     (* history: what each job's last answer was                 *)
  run,         (* process runs so far                                      *)
  aux          (* this run mines through the bus: its aux configuration    *)

vars == <<rules, jobs, ingest, bridgeDone, answers, run, aux>>

Kind == "procedural_extract"
Target == "procedural"

\* said: what the interaction says; prior: the directives active at enqueue.
Body == [said: SUBSET Directives, prior: SUBSET Directives]

\* late: history, a job had been answered before the consolidation began.
Ingester == [pc: {"idle", "enqueue", "bridge", "regex"},
             body: Body, todo: SUBSET Directives, job: Nat, late: BOOLEAN]

Resting == [pc |-> "idle", body |-> [said |-> {}, prior |-> {}], todo |-> {},
            job |-> 0, late |-> FALSE]

TypeOK ==
  /\ rules \in [Directives -> {"absent", "active", "inactive"}]
  /\ jobs \in Seq(Job({Kind}, {Target}, Body))
  /\ ingest \in [Ingesters -> Ingester]
  /\ bridgeDone \in BOOLEAN
  /\ answers \in Seq({"none", "good", "garbled", "raised"})
  /\ Len(answers) = Len(jobs)
  /\ run \in 1..MaxRuns
  /\ aux \in BOOLEAN

Init ==
  /\ rules = [d \in Directives |-> "absent"]
  /\ jobs = << >>
  /\ ingest = [w \in Ingesters |-> Resting]
  /\ bridgeDone = FALSE
  /\ answers = << >>
  /\ run = 1
  /\ aux \in BOOLEAN

(***************************************************************************)
(* procedural.py.                                                          *)
(***************************************************************************)
Active == {d \in Directives : rules[d] = "active"}

\* add_rule: inserts the directive, or activates it again.
AddRules(r, ds) == [d \in Directives |-> IF d \in ds THEN "active" ELSE r[d]]

\* deactivate, deactivate_by_directive: only active rows change.
DeactivateRules(r, ds) ==
  [d \in Directives |-> IF d \in ds /\ r[d] = "active" THEN "inactive" ELSE r[d]]

(***************************************************************************)
(* consolidation.py: ProceduralConsolidator.consolidate.                   *)
(***************************************************************************)
SomeDone == \E j \in DOMAIN jobs : jobs[j].status = "done"

Begin(w, said) ==
  /\ aux
  /\ ingest[w].pc = "idle"
  /\ ingest' = [ingest EXCEPT ![w] =
       [pc |-> "enqueue", body |-> [said |-> said, prior |-> Active],
        todo |-> said, job |-> 0, late |-> SomeDone]]
  /\ UNCHANGED <<rules, jobs, bridgeDone, answers, run, aux>>

\* Aux off: the detector is all there is.
BeginInline(w, said) ==
  /\ ~aux
  /\ ingest[w].pc = "idle"
  /\ ingest' = [ingest EXCEPT ![w] =
       [Resting EXCEPT !.pc = "regex", !.todo = said]]
  /\ UNCHANGED <<rules, jobs, bridgeDone, answers, run, aux>>

Enqueue(w) ==
  /\ ingest[w].pc = "enqueue"
  /\ Len(jobs) < MaxInteractions
  /\ jobs' = EnqueueJob(jobs, Kind, Target, ingest[w].body)
  /\ ingest' = [ingest EXCEPT ![w].pc = "bridge", ![w].job = Len(jobs) + 1]
  /\ answers' = Append(answers, "none")
  /\ UNCHANGED <<rules, bridgeDone, run, aux>>

\* Bugs to check against: only what this run remembers counts; any answer that
\* was ever asked for counts.
RememberedOnly == bridgeDone

AnyJobCounts == jobs # << >>

\* _bridge_satisfied: the flag, else the table.
BridgeSatisfied == bridgeDone \/ SomeDone

CheckBridge(w) ==
  /\ ingest[w].pc = "bridge"
  /\ bridgeDone' = BridgeSatisfied
  /\ ingest' = [ingest EXCEPT ![w] =
       IF BridgeSatisfied THEN Resting ELSE [@ EXCEPT !.pc = "regex"]]
  /\ UNCHANGED <<rules, jobs, answers, run, aux>>

\* detect_and_store: one add_rule, one transaction, per directive.
StoreDetected(w) ==
  /\ ingest[w].pc = "regex"
  /\ IF ingest[w].todo = {}
     THEN /\ ingest' = [ingest EXCEPT ![w] = Resting]
          /\ UNCHANGED rules
     ELSE \E d \in ingest[w].todo :
            /\ rules' = AddRules(rules, {d})
            /\ ingest' = [ingest EXCEPT ![w].todo = @ \ {d}]
  /\ UNCHANGED <<jobs, bridgeDone, answers, run, aux>>

(***************************************************************************)
(* handler.py, under AuxBus.submit; without aux no handler is registered,  *)
(* and an answer changes nothing.                                          *)
(***************************************************************************)
\* A good answer adds what was said, except what it was told is there already,
\* and deletes any of the others it was told of.
GoodAnswer(body, adds, deletes) ==
  /\ adds \subseteq body.said /\ body.said \ body.prior \subseteq adds
  /\ deletes \subseteq body.prior \ body.said

ApplyOps(adds, deletes) == rules' = DeactivateRules(AddRules(rules, adds), deletes)

\* parse_result and apply on a readable answer.
Submit(j, adds, deletes) ==
  /\ aux /\ j \in Pending(jobs)
  /\ GoodAnswer(jobs[j].body, adds, deletes)
  /\ ApplyOps(adds, deletes)
  /\ jobs' = MarkDone(jobs, j)
  /\ answers' = [answers EXCEPT ![j] = "good"]
  /\ UNCHANGED <<ingest, bridgeDone, run, aux>>

\* Unreadable: no operation, and the job is done.
SubmitGarbled(j) ==
  /\ aux /\ j \in Pending(jobs)
  /\ jobs' = MarkDone(jobs, j)
  /\ answers' = [answers EXCEPT ![j] = "garbled"]
  /\ UNCHANGED <<rules, ingest, bridgeDone, run, aux>>

\* Readable, but an operation's category cannot be hashed or its priority is
\* infinite: apply raises there, after the operations before it.
SubmitRaises(j, adds, deletes) ==
  /\ aux /\ j \in Pending(jobs)
  /\ adds \subseteq jobs[j].body.said
  /\ deletes \subseteq jobs[j].body.prior \ jobs[j].body.said
  /\ ApplyOps(adds, deletes)
  /\ answers' = [answers EXCEPT ![j] = "raised"]
  /\ UNCHANGED <<jobs, ingest, bridgeDone, run, aux>>

(***************************************************************************)
(* The host.                                                               *)
(***************************************************************************)
RememberRule(d) ==
  /\ rules' = AddRules(rules, {d})
  /\ UNCHANGED <<jobs, ingest, bridgeDone, answers, run, aux>>

\* distill, one of its add_rules: each is a transaction of its own, for a
\* directive the detector finds in an important semantic fact; which facts
\* there are is not this module's state, so it may be any.
Distill(d) ==
  /\ rules' = AddRules(rules, {d})
  /\ UNCHANGED <<jobs, ingest, bridgeDone, answers, run, aux>>

Deactivate(d) ==
  /\ rules' = DeactivateRules(rules, {d})
  /\ UNCHANGED <<jobs, ingest, bridgeDone, answers, run, aux>>

\* close(), which waits for the pipeline threads, and a new run, which may be
\* configured otherwise.
Reopen ==
  /\ run < MaxRuns
  /\ \A w \in Ingesters : ingest[w].pc = "idle"
  /\ run' = run + 1
  /\ bridgeDone' = FALSE
  /\ aux' \in BOOLEAN
  /\ UNCHANGED <<rules, jobs, ingest, answers>>

Next ==
  \/ \E w \in Ingesters :
       \/ \E said \in SUBSET Directives : Begin(w, said) \/ BeginInline(w, said)
       \/ Enqueue(w)
       \/ CheckBridge(w)
       \/ StoreDetected(w)
  \/ \E j \in DOMAIN jobs :
       \/ \E adds, deletes \in SUBSET Directives :
            Submit(j, adds, deletes) \/ SubmitRaises(j, adds, deletes)
       \/ SubmitGarbled(j)
  \/ \E d \in Directives : RememberRule(d) \/ Distill(d) \/ Deactivate(d)
  \/ Reopen

Spec == Init /\ [][Next]_vars

(***************************************************************************)
(* Properties.                                                             *)
(***************************************************************************)
UnderWay(j) == \E w \in Ingesters : ingest[w].job = j

\* What an interaction said is among the rules, unless its job got an
\* unreadable answer; after the first answer landed, unless its job still
\* waits or was replaced.  Before that, the bridge leaves no gap.
NoDirectiveLost ==
  \A j \in DOMAIN jobs :
    \/ UnderWay(j)
    \/ answers[j] = "garbled"
    \/ SomeDone /\ jobs[j].status # "done"
    \/ \A d \in jobs[j].body.said : rules[d] # "absent"

\* Once an answer has landed the detector is out of use for good: a
\* consolidation that begins later, in a run that mines through the bus, does
\* not run it, whatever runs without the bus came in between.
BridgeStaysDown ==
  \A w \in Ingesters : ingest[w].pc = "regex" => ~ingest[w].late
=============================================================================
