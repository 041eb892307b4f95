------------------------------ MODULE JobTable ------------------------------
(***************************************************************************)
(* The summarization_jobs table and the operations core/auxbus/bus.py runs *)
(* on it, as operators over a table value.  A table is a sequence of jobs  *)
(* in insertion order; a job's position stands for its job_id.  Rows are   *)
(* never deleted, so positions are stable.  Each operator is one           *)
(* transaction of the code: enqueue supersedes and inserts under a single  *)
(* commit.  body is what the job carries (input_json and advance_to).      *)
(***************************************************************************)
EXTENDS Integers, Sequences, FiniteSets

Statuses == {"pending", "done", "superseded"}

Job(Kind, Target, Body) ==
  [kind: Kind, target: Target, status: Statuses, body: Body]

\* AuxBus.pending with no kind and no limit: every pending job.
Pending(table) == {i \in DOMAIN table : table[i].status = "pending"}

\* AuxBus.pending_one: the pending jobs of one (kind, target).
PendingOne(table, kind, target) ==
  {i \in Pending(table) : table[i].kind = kind /\ table[i].target = target}

WithStatus(job, status) == [job EXCEPT !.status = status]

Supersede(table, kind, target) ==
  [i \in DOMAIN table |->
     IF i \in PendingOne(table, kind, target)
     THEN WithStatus(table[i], "superseded")
     ELSE table[i]]

NewJob(kind, target, body) ==
  [kind |-> kind, target |-> target, status |-> "pending", body |-> body]

\* A bug to check against: the new job replaces waiting jobs of its kind for
\* every target.
EnqueueReplacesKind(table, kind, target, body) ==
  Append([i \in DOMAIN table |->
            IF i \in Pending(table) /\ table[i].kind = kind
            THEN WithStatus(table[i], "superseded")
            ELSE table[i]],
         NewJob(kind, target, body))

\* AuxBus.enqueue: one pending job per (kind, target), the newest.
EnqueueJob(table, kind, target, body) ==
  Append(Supersede(table, kind, target), NewJob(kind, target, body))

\* A bug to check against: the answer's result is stored as the status.
MarkApplied(table, i) == [table EXCEPT ![i] = WithStatus(@, "applied")]

\* AuxBus.mark_done: unconditional, whatever the status was.
MarkDone(table, i) == [table EXCEPT ![i] = WithStatus(@, "done")]
=============================================================================
