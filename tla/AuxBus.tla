------------------------------- MODULE AuxBus -------------------------------
(***************************************************************************)
(* The auxiliary bus, core/auxbus/bus.py, with its callers: ingest threads *)
(* that enqueue, and host threads that drain.                              *)
(*                                                                         *)
(* A drain works through a snapshot of the pending jobs taken without the  *)
(* lock (bus.pending); every answer is submitted on its own, under         *)
(* db.lock.  Between two of its submits anything can happen: jobs are      *)
(* superseded, other drains answer them.  A drain is either drain_aux,     *)
(* which counts by the status submit returns, or the older drain_diary,    *)
(* which counts every answer it submits.                                   *)
(***************************************************************************)
EXTENDS JobTable, FiniteSetsExt

CONSTANTS
  Kinds,       (* job kinds found in the table                             *)
  Registered,  (* kinds a handler is registered for                        *)
  Targets,     (* targets of a kind                                        *)
  Hosts,       (* host threads that may drain at once                      *)
  MaxJobs,     (* bound: jobs ever enqueued                                *)
  MaxDrains    (* bound: drains started                                    *)

ASSUME RegisteredAssumption == Registered \subseteq Kinds
ASSUME BusBoundsAssumption == MaxJobs \in Nat /\ MaxDrains \in Nat

VARIABLES
  jobs,     (* summarization_jobs                                          *)
  applied,  (* history: how often each job's answer was applied            *)
  drain,    (* each host thread's drain                                    *)
  drains    (* drains started so far                                       *)

vars == <<jobs, applied, drain, drains>>

\* What a handler does with the answer is its own; the bus sees no body.
NoBody == 0

Styles == {"aux", "diary"}
\* todo: the jobs of the snapshot still ahead.  counted: the jobs counted as
\* applied; the drain returns how many.
Drain == [style: Styles, todo: SUBSET Nat, counted: SUBSET Nat]

NoDrain == [style |-> "aux", todo |-> {}, counted |-> {}]

TypeOK ==
  /\ jobs \in Seq(Job(Kinds, Targets, {NoBody}))
  /\ applied \in Seq(Nat) /\ Len(applied) = Len(jobs)
  /\ drain \in [Hosts -> Drain]
  /\ drains \in Nat

Init ==
  /\ jobs = << >>
  /\ applied = << >>
  /\ drain = [h \in Hosts |-> NoDrain]
  /\ drains = 0

Enqueue(kind, target) ==
  /\ Len(jobs) < MaxJobs
  /\ jobs' = EnqueueJob(jobs, kind, target, NoBody)
  /\ applied' = Append(applied, 0)
  /\ UNCHANGED <<drain, drains>>

\* A bug to check against: no look at the status, the answer is applied again.
SubmitStatusUnchecked(job) ==
  IF job.kind \notin Registered THEN "skipped" ELSE "applied"

\* AuxBus.submit: what it does with an answer, and so what it returns: an
\* answered job is a success that changes nothing, a kind without handler is
\* skipped and left pending.
SubmitStatus(job) ==
  IF job.status = "superseded" THEN "superseded"
  ELSE IF job.status = "done" THEN "success"
  ELSE IF job.kind \notin Registered THEN "skipped"
  ELSE "applied"

ApplyIf(status, i) ==
  IF status = "applied"
  THEN /\ jobs' = MarkDone(jobs, i)
       /\ applied' = [applied EXCEPT ![i] = @ + 1]
  ELSE UNCHANGED <<jobs, applied>>

\* submit_aux_job / submit_summary, with any job id the host ever saw.
Submit(i) ==
  /\ i \in DOMAIN jobs
  /\ ApplyIf(SubmitStatus(jobs[i]), i)
  /\ UNCHANGED <<drain, drains>>

\* The snapshot a drain works through; a drain may ask for one kind only.
StartDrain(h, style, kinds) ==
  /\ drain[h].todo = {}
  /\ drains < MaxDrains
  /\ drains' = drains + 1
  /\ drain' = [drain EXCEPT ![h] =
       [style |-> style, counted |-> {},
        todo |-> {i \in Pending(jobs) : jobs[i].kind \in kinds}]]
  /\ UNCHANGED <<jobs, applied>>

\* A bug to check against: a refused answer is counted too.
CountsEverySubmit(style, status) == TRUE

\* drain_diary does not look at the status submit_summary returns.
Counts(style, status) == style = "diary" \/ status \in {"applied", "success"}

\* The host's model gave a text for the oldest job still ahead.
Answer(h) ==
  /\ drain[h].todo # {}
  /\ LET i == Min(drain[h].todo)
         status == SubmitStatus(jobs[i])
     IN /\ ApplyIf(status, i)
        /\ drain' = [drain EXCEPT
             ![h].todo = @ \ {i},
             ![h].counted = IF Counts(drain[h].style, status) THEN @ \cup {i}
                            ELSE @]
  /\ UNCHANGED drains

\* It gave no text, or the host has no callable for the kind: the job waits.
NoAnswer(h) ==
  /\ drain[h].todo # {}
  /\ drain' = [drain EXCEPT ![h].todo = @ \ {Min(@)}]
  /\ UNCHANGED <<jobs, applied, drains>>

\* run_job or a handler raised: the exception leaves the drain.
Abort(h) ==
  /\ drain[h].todo # {}
  /\ drain' = [drain EXCEPT ![h].todo = {}]
  /\ UNCHANGED <<jobs, applied, drains>>

Next ==
  \/ \E kind \in Kinds, target \in Targets : Enqueue(kind, target)
  \/ \E i \in DOMAIN jobs : Submit(i)
  \/ \E h \in Hosts :
       \/ \E style \in Styles, kinds \in {Kinds} \cup {{k} : k \in Kinds} :
            StartDrain(h, style, kinds)
       \/ Answer(h)
       \/ NoAnswer(h)
       \/ Abort(h)

Spec == Init /\ [][Next]_vars

(***************************************************************************)
(* Properties.                                                             *)
(***************************************************************************)

\* One-pending-per-(kind, target), and the pending one is the newest: an
\* answer can never overwrite what a newer job's answer will build on.
PendingIsNewest ==
  \A i, j \in DOMAIN jobs :
    /\ i < j
    /\ jobs[i].kind = jobs[j].kind
    /\ jobs[i].target = jobs[j].target
    => jobs[i].status # "pending"

\* Submit is idempotent: however many drains hold a job in their snapshots,
\* its answer is applied at most once, and by a registered handler.
DoneIsAppliedOnce ==
  \A i \in DOMAIN jobs :
    applied[i] = IF jobs[i].status = "done" THEN 1 ELSE 0

\* pending -> {done | superseded}: a settled job stays what it is, and a job
\* whose kind no handler is registered for is never answered.
SettledForGood ==
  [][\A i \in DOMAIN jobs :
       /\ jobs[i].status # "pending" => jobs'[i] = jobs[i]
       /\ jobs[i].kind \notin Registered => jobs'[i].status # "done"]_vars

\* The number drain_aux returns counts only jobs whose answer is applied.
AuxCountIsHonest ==
  \A h \in Hosts : drain[h].style = "aux" =>
    \A i \in drain[h].counted : jobs[i].status = "done"

(***************************************************************************)
(* The table implements the mailbox: the waiting job of a key is its       *)
(* pending row, the jobs taken are those done.                             *)
(***************************************************************************)
SlotOf(k) ==
  LET waiting == PendingOne(jobs, k[1], k[2])
  IN IF waiting = {} THEN 0 ELSE CHOOSE i \in waiting : TRUE

Mail == INSTANCE Mailbox WITH
  Keys <- Kinds \X Targets,
  posted <- Len(jobs),
  slot <- [k \in Kinds \X Targets |-> SlotOf(k)],
  taken <- {i \in DOMAIN jobs : jobs[i].status = "done"}

\* Seen through that mapping, every behaviour of the bus is one of Mailbox.
ImplementsMailbox == Mail!MailSpec
=============================================================================
