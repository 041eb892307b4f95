----------------------------- MODULE Ingestion ------------------------------
(***************************************************************************)
(* The life of an ingested interaction: process buffers its two turns in   *)
(* working memory and starts a pipeline thread, the pipeline writes facts  *)
(* and fans the interaction out to the consolidators, and wait and close   *)
(* join the threads (core/orchestrator.py, layers/semantic/writer.py,      *)
(* layers/working/working.py, core/consolidation.py, core/context.py).     *)
(*                                                                         *)
(* What the pipeline does inside the diary, the procedural store and the   *)
(* fact store is in Diary, Procedural and SemanticMemory.  Here are the    *)
(* order of its parts, their failures, and who waits for whom.             *)
(***************************************************************************)
EXTENDS Integers, Sequences, FiniteSets

CONSTANTS
  Hosts,            (* threads that call process, wait and close           *)
  MaxWorkingTurns,  (* working_memory_max_turns                            *)
  MaxInteractions,  (* bound: interactions ingested                        *)
  MaxRuns           (* bound: process runs                                 *)

ASSUME WorkingTurnsAssumption == MaxWorkingTurns \in Nat \ {0}
ASSUME IngestionBoundsAssumption == MaxInteractions \in Nat /\ MaxRuns \in Nat \ {0}

VARIABLES
  working,   (* Layer I: the deque                                         *)
  episodic,  (* Layer II: the rows of episodic_turns                       *)
  host,      (* host threads                                               *)
  threads,   (* the writer's _threads; a thread is its interaction         *)
  pipe,      (* how far each thread got                                    *)
  db,        (* "open" or "closed"                                         *)
  run,       (* the process run                                            *)
  offered,   (* history: the consolidators each interaction was offered to *)
  smooth     (* history: in this run no ingest began while a pipeline ran,
                and no turn failed to be logged                            *)

vars == <<working, episodic, host, threads, pipe, db, run, offered, smooth>>

Interaction == 1..MaxInteractions
Turn == [of: Interaction, role: {"user", "assistant"}]

\* The consolidators in the order the orchestrator lists them.  "assistant" is
\* the second half of the episodic one, which logs two turns in two commits.
Consolidators == {"episodic", "procedural", "diary"}

After(stage) == CASE stage \in {"episodic", "assistant"} -> "procedural"
                  [] stage = "procedural" -> "diary"
                  [] stage = "diary" -> "complete"

\* "new": no thread; "made": in the list, not started; "done": ended.
Running == {"facts", "episodic", "assistant", "procedural", "diary", "complete"}
Stage == {"new", "made", "done"} \cup Running

Host == [pc: {"idle", "buffer", "make", "start", "join"}, of: 0..MaxInteractions,
         joins: SUBSET Interaction, closing: BOOLEAN]

TypeOK ==
  /\ working \in Seq(Turn) /\ Len(working) <= MaxWorkingTurns
  /\ episodic \in Seq(Turn)
  /\ host \in [Hosts -> Host]
  /\ threads \subseteq Interaction
  /\ pipe \in [Interaction -> Stage]
  /\ db \in {"open", "closed"}
  /\ run \in 1..MaxRuns
  /\ offered \in [Interaction -> SUBSET Consolidators]
  /\ smooth \in BOOLEAN

AtRest == [pc |-> "idle", of |-> 0, joins |-> {}, closing |-> FALSE]

Init ==
  /\ working = << >>
  /\ episodic = << >>
  /\ host = [h \in Hosts |-> AtRest]
  /\ threads = {}
  /\ pipe = [i \in Interaction |-> "new"]
  /\ db = "open"
  /\ run = 1
  /\ offered = [i \in Interaction |-> {}]
  /\ smooth = TRUE

(***************************************************************************)
(* working.py and the reads of recent dialogue.                            *)
(***************************************************************************)
Newest(s, n) == SubSeq(s, Len(s) - n + 1, Len(s))

\* Bugs to check against: a list without maxlen; the newest turn is dropped when the buffer is full.
PushUnbounded(buffer, turn) == Append(buffer, turn)

PushUnlessFull(buffer, turn) ==
  IF Len(buffer) = MaxWorkingTurns THEN buffer ELSE Append(buffer, turn)

\* deque.append with maxlen.
Push(buffer, turn) ==
  IF Len(buffer) = MaxWorkingTurns THEN Append(Tail(buffer), turn)
  ELSE Append(buffer, turn)

\* recent(n) and recent_turns(n).
Recent(log, n) == IF n < Len(log) THEN Newest(log, n) ELSE log

\* The assembler's recent dialogue: from the log if it is enabled.
RecentDialogue(episodicEnabled, n) ==
  Recent(IF episodicEnabled THEN episodic ELSE working, n)

(***************************************************************************)
(* process: ingest, on a host thread.                                      *)
(***************************************************************************)
Began == {i \in Interaction : pipe[i] # "new" \/ \E h \in Hosts : host[h].of = i}

Idle(h) == host[h].pc = "idle"
Alive(i) == pipe[i] \in Running
AllQuiet == (\A h \in Hosts : Idle(h)) /\ ~\E i \in Interaction : Alive(i)

\* add_interaction appends the user turn, and then, in a lock section of its
\* own, the assistant turn.
BufferUser(h, i) ==
  /\ Idle(h) /\ db = "open"
  /\ i \notin Began /\ \A j \in 1..(i - 1) : j \in Began
  /\ working' = Push(working, [of |-> i, role |-> "user"])
  /\ host' = [host EXCEPT ![h].pc = "buffer", ![h].of = i]
  /\ smooth' = (smooth /\ AllQuiet)
  /\ UNCHANGED <<episodic, threads, pipe, db, run, offered>>

BufferAssistant(h) ==
  /\ host[h].pc = "buffer"
  /\ working' = Push(working, [of |-> host[h].of, role |-> "assistant"])
  /\ host' = [host EXCEPT ![h].pc = "make"]
  /\ UNCHANGED <<episodic, threads, pipe, db, run, offered, smooth>>

\* ingest_async: the thread is listed, and then started.
MakeThread(h) ==
  /\ host[h].pc = "make"
  /\ threads' = threads \cup {host[h].of}
  /\ pipe' = [pipe EXCEPT ![host[h].of] = "made"]
  /\ host' = [host EXCEPT ![h].pc = "start"]
  /\ UNCHANGED <<working, episodic, db, run, offered, smooth>>

StartThread(h) ==
  /\ host[h].pc = "start"
  /\ pipe' = [pipe EXCEPT ![host[h].of] = "facts"]
  /\ host' = [host EXCEPT ![h] = AtRest]
  /\ UNCHANGED <<working, episodic, threads, db, run, offered, smooth>>

(***************************************************************************)
(* _run_writer_pipeline, on the interaction's own thread.                  *)
(***************************************************************************)
WriteFacts(i) ==
  /\ pipe[i] = "facts"
  /\ pipe' = [pipe EXCEPT ![i] = "episodic"]
  /\ UNCHANGED <<working, episodic, host, threads, db, run, offered, smooth>>

\* An exception before the consolidators ends the pipeline: none of them runs.
FactsFail(i) ==
  /\ pipe[i] = "facts"
  /\ pipe' = [pipe EXCEPT ![i] = "complete"]
  /\ smooth' = FALSE
  /\ UNCHANGED <<working, episodic, host, threads, db, run, offered>>

Offer(i) ==
  offered' = [offered EXCEPT ![i] = @ \cup ({pipe[i]} \cap Consolidators)]

LogTurn(i, role, next) ==
  /\ episodic' = Append(episodic, [of |-> i, role |-> role])
  /\ pipe' = [pipe EXCEPT ![i] = next]
  /\ Offer(i)
  /\ UNCHANGED <<working, host, threads, db, run, smooth>>

LogUser(i) == pipe[i] = "episodic" /\ LogTurn(i, "user", "assistant")

LogAssistant(i) ==
  pipe[i] = "assistant" /\ LogTurn(i, "assistant", After("assistant"))

Consolidate(i) ==
  /\ pipe[i] \in {"procedural", "diary"}
  /\ pipe' = [pipe EXCEPT ![i] = After(@)]
  /\ Offer(i)
  /\ UNCHANGED <<working, episodic, host, threads, db, run, smooth>>

\* A bug to check against: the try is around the loop.
AfterFailureNothing(stage) == "complete"

AfterFailure(stage) == After(stage)

\* _run_consolidators: an exception ends that consolidator only.
ConsolidatorFails(i) ==
  /\ pipe[i] \in {"episodic", "assistant", "procedural", "diary"}
  /\ pipe' = [pipe EXCEPT ![i] = AfterFailure(@)]
  /\ Offer(i)
  /\ smooth' = (smooth /\ pipe[i] \in {"procedural", "diary"})
  /\ UNCHANGED <<working, episodic, host, threads, db, run>>

\* on_complete, and the end of the thread.
Complete(i) ==
  /\ pipe[i] = "complete"
  /\ pipe' = [pipe EXCEPT ![i] = "done"]
  /\ UNCHANGED <<working, episodic, host, threads, db, run, offered, smooth>>

(***************************************************************************)
(* wait and close, on a host thread.                                       *)
(***************************************************************************)
\* wait copies the list.
StartWait(h, closing) ==
  /\ Idle(h) /\ db = "open"
  /\ host' = [host EXCEPT ![h].pc = "join", ![h].joins = threads,
                          ![h].closing = closing]
  /\ UNCHANGED <<working, episodic, threads, pipe, db, run, offered, smooth>>

\* A bug to check against: the list is emptied.
KeptNone(listed) == {}

\* The list keeps the threads that are alive, which one not started is not.
Kept(listed) == {i \in listed : Alive(i)}

\* close ends with db.close().
EndWait(h) ==
  /\ host' = [host EXCEPT ![h] = AtRest]
  /\ db' = IF host[h].closing THEN "closed" ELSE db

\* Every thread of the copy is joined, or, with a timeout, given up on.
Joined(h) ==
  /\ host[h].pc = "join"
  /\ host[h].closing => \A i \in host[h].joins : ~Alive(i)
  /\ threads' = Kept(threads)
  /\ EndWait(h)
  /\ UNCHANGED <<working, episodic, pipe, run, offered, smooth>>

\* The process ends, and what it had in memory; the next opens the same file.
Reopen ==
  /\ db = "closed" /\ run < MaxRuns
  /\ \A h \in Hosts : Idle(h)
  /\ db' = "open"
  /\ run' = run + 1
  /\ working' = << >>
  /\ threads' = {}
  /\ smooth' = TRUE
  /\ UNCHANGED <<episodic, host, pipe, offered>>

(***************************************************************************)
(* The system.  Any thread may ingest, but while one waits or closes no    *)
(* other is inside a call: join raises for a thread that is listed but not *)
(* started, and the pruning drops it.                                      *)
(***************************************************************************)
Owner(h) == \A k \in Hosts \ {h} : Idle(k)

NobodyWaits == \A h \in Hosts : host[h].pc # "join"

HostStep(h) ==
  \/ \E i \in Interaction : NobodyWaits /\ BufferUser(h, i)
  \/ BufferAssistant(h)
  \/ MakeThread(h)
  \/ StartThread(h)
  \/ \E closing \in BOOLEAN : Owner(h) /\ StartWait(h, closing)
  \/ Joined(h)

PipelineStep(i) ==
  \/ WriteFacts(i)
  \/ FactsFail(i)
  \/ LogUser(i)
  \/ LogAssistant(i)
  \/ Consolidate(i)
  \/ ConsolidatorFails(i)
  \/ Complete(i)

Next ==
  \/ \E h \in Hosts : HostStep(h)
  \/ \E i \in Interaction : PipelineStep(i)
  \/ Reopen

Spec == Init /\ [][Next]_vars

(***************************************************************************)
(* Properties.                                                             *)
(***************************************************************************)

\* close() joins every pipeline before it closes the connection, whatever
\* waits with a timeout pruned from the list before: no thread writes to a
\* closed database.
NoPipelineAfterClose == db = "closed" => \A i \in Interaction : ~Alive(i)

\* One consolidator's exception is that consolidator's alone: an interaction
\* whose facts were written was offered to every one by the end.
ConsolidatorsIsolated ==
  \A i \in Interaction :
    pipe[i] = "done" /\ offered[i] # {} => offered[i] = Consolidators
=============================================================================
