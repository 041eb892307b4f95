-------------------------- MODULE IngestionProofs ---------------------------
(***************************************************************************)
(* Proofs about the life of an interaction, for any number of host         *)
(* threads, interactions and runs: close() leaves no pipeline behind, and  *)
(* no consolidator misses an interaction because another one failed.  And  *)
(* about the history read from its logs, for any turns, costs and budgets. *)
(***************************************************************************)
EXTENDS History, SequenceTheorems, WellFoundedInduction, TLAPS

(***************************************************************************)
(* The inductive invariant.                                                *)
(***************************************************************************)

\* A host thread inside process owns its interaction, which has no running
\* pipeline yet; one that waits is alone and has every live thread on its copy
\* of the list.
HostOk(h) ==
  LET c == host[h] IN
  /\ c.pc \in {"idle", "join"} => c.of = 0
  /\ c.pc \in {"buffer", "make", "start"} => c.of \in Interaction
  /\ c.pc \in {"buffer", "make"} => pipe[c.of] = "new"
  /\ c.pc = "start" => pipe[c.of] = "made" /\ c.of \in threads
  /\ c.pc = "join" => /\ \A k \in Hosts \ {h} : Idle(k)
                      /\ \A i \in Interaction : Alive(i) => i \in c.joins

OwnInteractions ==
  \A h, k \in Hosts : h # k => host[h].of = 0 \/ host[h].of # host[k].of

\* Whom an interaction at a stage has been offered to.
OfferedBy(stage, to) ==
  /\ stage \in {"new", "made", "facts", "episodic"} => to = {}
  /\ stage \in {"assistant", "procedural"} => to = {"episodic"}
  /\ stage = "diary" => to = {"episodic", "procedural"}
  /\ stage \in {"complete", "done"} => to = {} \/ to = Consolidators

Inv ==
  /\ TypeOK
  /\ \A h \in Hosts : HostOk(h)
  /\ OwnInteractions
  /\ \A i \in Interaction : Alive(i) => i \in threads
  /\ db = "closed" => /\ \A h \in Hosts : Idle(h)
                      /\ \A i \in Interaction : ~Alive(i)
  /\ \A i \in Interaction : OfferedBy(pipe[i], offered[i])

(***************************************************************************)
(* Lemmas.                                                                 *)
(***************************************************************************)

\* A host thread's record, and the kinds of it.
LEMMA HostFields ==
  ASSUME TypeOK, NEW h \in Hosts
  PROVE  /\ host[h] \in Host
         /\ host[h].pc \in {"idle", "buffer", "make", "start", "join"}
         /\ host[h].of \in 0..MaxInteractions
         /\ host[h].joins \in SUBSET Interaction
         /\ host[h].closing \in BOOLEAN
<1>1. host[h] \in Host
  BY DEF TypeOK
<1> QED
  BY <1>1 DEF Host

\* 0 is no interaction.
LEMMA ZeroIsNone == 0 \notin Interaction /\ Interaction \subseteq 0..MaxInteractions
  BY IngestionBoundsAssumption DEF Interaction

\* deque.append with maxlen keeps the length within it.
LEMMA PushBounded ==
  ASSUME NEW buffer \in Seq(Turn), Len(buffer) <= MaxWorkingTurns,
         NEW turn \in Turn
  PROVE  /\ Push(buffer, turn) \in Seq(Turn)
         /\ Len(Push(buffer, turn)) <= MaxWorkingTurns
<1>1. MaxWorkingTurns \in Nat /\ MaxWorkingTurns > 0 /\ Len(buffer) \in Nat
  BY WorkingTurnsAssumption
<1>2. CASE Len(buffer) = MaxWorkingTurns
  <2>1. buffer # << >>
    BY <1>1, <1>2
  <2>2. Tail(buffer) \in Seq(Turn) /\ Len(Tail(buffer)) = Len(buffer) - 1
    BY <2>1
  <2> QED
    BY <1>1, <1>2, <2>2 DEF Push
<1>3. CASE Len(buffer) # MaxWorkingTurns
  BY <1>1, <1>3 DEF Push
<1> QED
  BY <1>2, <1>3

\* Nothing has begun.
LEMMA InvInitially == Init => Inv
<1> SUFFICES ASSUME Init PROVE Inv
  OBVIOUS
<1>1. /\ working = << >> /\ episodic = << >> /\ threads = {}
      /\ host = [h \in Hosts |-> AtRest] /\ db = "open" /\ run = 1
      /\ pipe = [i \in Interaction |-> "new"]
      /\ offered = [i \in Interaction |-> {}] /\ smooth = TRUE
  BY DEF Init
<1>2. AtRest \in Host
  BY IngestionBoundsAssumption DEF AtRest, Host
<1>3. TypeOK
  <2>1. working \in Seq(Turn) /\ Len(working) <= MaxWorkingTurns
        /\ episodic \in Seq(Turn)
    BY <1>1, WorkingTurnsAssumption
  <2>2. run \in 1..MaxRuns
    BY <1>1, IngestionBoundsAssumption
  <2>3. pipe \in [Interaction -> Stage] /\ host \in [Hosts -> Host]
    BY <1>1, <1>2 DEF Stage
  <2> QED
    BY <1>1, <2>1, <2>2, <2>3 DEF TypeOK
<1>4. \A h \in Hosts : host[h] = AtRest
  BY <1>1
<1>5. /\ \A h \in Hosts : HostOk(h)
      /\ OwnInteractions
  BY <1>4 DEF HostOk, OwnInteractions, AtRest
<1>6. \A i \in Interaction : ~Alive(i) /\ OfferedBy(pipe[i], offered[i])
  BY <1>1 DEF Alive, Running, OfferedBy
<1> QED
  BY <1>1, <1>3, <1>5, <1>6 DEF Inv

\* One stage of one pipeline, whatever it does to the logs.
LEMMA PipelineMoves ==
  ASSUME Inv, NEW i \in Interaction, Alive(i),
         NEW next \in Running \cup {"done"}, NEW to \in SUBSET Consolidators,
         pipe' = [pipe EXCEPT ![i] = next],
         offered' = [offered EXCEPT ![i] = to],
         OfferedBy(next, to),
         episodic' \in Seq(Turn), smooth' \in BOOLEAN,
         UNCHANGED <<working, host, threads, db, run>>
  PROVE  Inv'
<1>1. /\ pipe \in [Interaction -> Stage]
      /\ offered \in [Interaction -> SUBSET Consolidators]
      /\ TypeOK
  BY DEF Inv, TypeOK
<1>2. next \in Stage
  BY DEF Stage
<1>3. /\ pipe' \in [Interaction -> Stage] /\ pipe'[i] = next
      /\ \A j \in Interaction \ {i} : pipe'[j] = pipe[j]
      /\ offered' \in [Interaction -> SUBSET Consolidators] /\ offered'[i] = to
      /\ \A j \in Interaction \ {i} : offered'[j] = offered[j]
  BY <1>1, <1>2
<1>4. TypeOK'
  BY <1>1, <1>3 DEF TypeOK
<1>5. \A j \in Interaction : Alive(j)' => Alive(j)
  BY <1>3 DEF Alive
<1>6. \A h \in Hosts : HostOk(h)'
  <2>1. TAKE h \in Hosts
  <2>2. HostOk(h) /\ host'[h] = host[h] /\ threads' = threads
    BY DEF Inv
  <2>3. host[h].pc \in {"buffer", "make", "start"} =>
          pipe'[host[h].of] = pipe[host[h].of]
    BY <1>3, <2>2 DEF HostOk, Alive, Running
  <2> QED
    BY <1>5, <2>2, <2>3 DEF HostOk, Idle
<1>7. OwnInteractions'
  BY DEF Inv, OwnInteractions
<1>8. \A j \in Interaction : Alive(j)' => j \in threads'
  BY <1>5 DEF Inv
<1>9. db' = "closed" => /\ \A h \in Hosts : Idle(h)'
                        /\ \A j \in Interaction : ~Alive(j)'
  BY <1>5 DEF Inv, Idle
<1>10. \A j \in Interaction : OfferedBy(pipe'[j], offered'[j])
  BY <1>3 DEF Inv
<1> QED
  BY <1>4, <1>6, <1>7, <1>8, <1>9, <1>10 DEF Inv

\* A stage that offers the interaction to the consolidator it is at, if it is
\* at one.
LEMMA OfferMoves ==
  ASSUME Inv, NEW i \in Interaction, Alive(i),
         NEW next \in Running \cup {"done"},
         pipe' = [pipe EXCEPT ![i] = next], Offer(i),
         OfferedBy(next, offered[i] \cup ({pipe[i]} \cap Consolidators)),
         episodic' \in Seq(Turn), smooth' \in BOOLEAN,
         UNCHANGED <<working, host, threads, db, run>>
  PROVE  Inv'
<1> DEFINE to == offered[i] \cup ({pipe[i]} \cap Consolidators)
<1>1. offered' = [offered EXCEPT ![i] = to]
  BY DEF Offer
<1>2. to \in SUBSET Consolidators
  BY DEF Inv, TypeOK
<1> HIDE DEF to
<1> QED
  BY <1>1, <1>2, PipelineMoves DEF to

\* The parts of a pipeline.
LEMMA PipelineStepInv ==
  ASSUME Inv, NEW i \in Interaction, PipelineStep(i)
  PROVE  Inv'
<1>1. /\ pipe \in [Interaction -> Stage] /\ episodic \in Seq(Turn)
      /\ offered[i] \in SUBSET Consolidators /\ smooth \in BOOLEAN
      /\ offered \in [Interaction -> SUBSET Consolidators]
      /\ OfferedBy(pipe[i], offered[i])
  BY DEF Inv, TypeOK
<1>2. offered = [offered EXCEPT ![i] = offered[i]]
  BY <1>1
<1>3. CASE WriteFacts(i)
  <2>1. /\ pipe[i] = "facts" /\ pipe' = [pipe EXCEPT ![i] = "episodic"]
        /\ UNCHANGED <<working, episodic, host, threads, db, run, offered, smooth>>
    BY <1>3 DEF WriteFacts
  <2>2. /\ Alive(i) /\ "episodic" \in Running \cup {"done"}
        /\ OfferedBy("episodic", offered[i])
    BY <1>1, <2>1 DEF Alive, Running, OfferedBy
  <2> QED
    BY <1>1, <1>2, <2>1, <2>2, PipelineMoves
<1>4. CASE FactsFail(i)
  <2>1. /\ pipe[i] = "facts" /\ pipe' = [pipe EXCEPT ![i] = "complete"]
        /\ smooth' = FALSE
        /\ UNCHANGED <<working, episodic, host, threads, db, run, offered>>
    BY <1>4 DEF FactsFail
  <2>2. /\ Alive(i) /\ "complete" \in Running \cup {"done"}
        /\ OfferedBy("complete", offered[i])
    BY <1>1, <2>1 DEF Alive, Running, OfferedBy
  <2> QED
    BY <1>1, <1>2, <2>1, <2>2, PipelineMoves
<1>5. ASSUME NEW role \in {"user", "assistant"}, NEW next \in Running,
             Alive(i), LogTurn(i, role, next),
             OfferedBy(next, offered[i] \cup ({pipe[i]} \cap Consolidators))
      PROVE  Inv'
  <2>1. /\ episodic' = Append(episodic, [of |-> i, role |-> role])
        /\ pipe' = [pipe EXCEPT ![i] = next] /\ Offer(i)
        /\ UNCHANGED <<working, host, threads, db, run, smooth>>
    BY <1>5 DEF LogTurn
  <2>2. [of |-> i, role |-> role] \in Turn
    BY DEF Turn
  <2>3. episodic' \in Seq(Turn)
    BY <1>1, <2>1, <2>2
  <2> QED
    BY <1>1, <1>5, <2>1, <2>3, OfferMoves
<1>6. CASE LogUser(i)
  <2>1. pipe[i] = "episodic" /\ LogTurn(i, "user", "assistant")
    BY <1>6 DEF LogUser
  <2>2. /\ Alive(i) /\ "assistant" \in Running
        /\ OfferedBy("assistant", offered[i] \cup ({pipe[i]} \cap Consolidators))
    BY <1>1, <2>1 DEF Alive, Running, OfferedBy, Consolidators
  <2> QED
    BY <1>5, <2>1, <2>2
<1>7. CASE LogAssistant(i)
  <2>1. pipe[i] = "assistant" /\ LogTurn(i, "assistant", "procedural")
    BY <1>7 DEF LogAssistant, After
  <2>2. /\ Alive(i) /\ "procedural" \in Running
        /\ OfferedBy("procedural", offered[i] \cup ({pipe[i]} \cap Consolidators))
    BY <1>1, <2>1 DEF Alive, Running, OfferedBy, Consolidators
  <2> QED
    BY <1>5, <2>1, <2>2
<1>8. ASSUME pipe[i] \in {"episodic", "assistant", "procedural", "diary"},
             pipe' = [pipe EXCEPT ![i] = After(pipe[i])], Offer(i),
             UNCHANGED <<working, episodic, host, threads, db, run>>,
             smooth' \in BOOLEAN
      PROVE  Inv'
  <2>1. After(pipe[i]) \in Running
    BY <1>8 DEF After, Running
  <2>2. Alive(i)
    BY <1>8 DEF Alive, Running
  <2>3. OfferedBy(After(pipe[i]), offered[i] \cup ({pipe[i]} \cap Consolidators))
    <3>1. CASE pipe[i] \in {"episodic", "assistant"}
      BY <1>1, <3>1 DEF After, OfferedBy, Consolidators
    <3>2. CASE pipe[i] = "procedural"
      BY <1>1, <3>2 DEF After, OfferedBy, Consolidators
    <3>3. CASE pipe[i] = "diary"
      BY <1>1, <3>3 DEF After, OfferedBy, Consolidators
    <3> QED
      BY <1>8, <3>1, <3>2, <3>3
  <2> QED
    BY <1>1, <1>8, <2>1, <2>2, <2>3, OfferMoves
<1>9. CASE Consolidate(i)
  <2>1. /\ pipe[i] \in {"procedural", "diary"} /\ Offer(i)
        /\ pipe' = [pipe EXCEPT ![i] = After(pipe[i])]
        /\ UNCHANGED <<working, episodic, host, threads, db, run, smooth>>
    BY <1>1, <1>9 DEF Consolidate
  <2> QED
    BY <1>1, <1>8, <2>1
<1>10. CASE ConsolidatorFails(i)
  <2>1. /\ pipe[i] \in {"episodic", "assistant", "procedural", "diary"}
        /\ Offer(i)
        /\ pipe' = [pipe EXCEPT ![i] = After(pipe[i])]
        /\ smooth' \in BOOLEAN
        /\ UNCHANGED <<working, episodic, host, threads, db, run>>
    BY <1>1, <1>10 DEF ConsolidatorFails, AfterFailure
  <2> QED
    BY <1>8, <2>1
<1>11. CASE Complete(i)
  <2>1. /\ pipe[i] = "complete" /\ pipe' = [pipe EXCEPT ![i] = "done"]
        /\ UNCHANGED <<working, episodic, host, threads, db, run, offered, smooth>>
    BY <1>11 DEF Complete
  <2>2. /\ Alive(i) /\ "done" \in Running \cup {"done"}
        /\ OfferedBy("done", offered[i])
    BY <1>1, <2>1 DEF Alive, Running, OfferedBy
  <2> QED
    BY <1>1, <1>2, <2>1, <2>2, PipelineMoves
<1> QED
  BY <1>3, <1>4, <1>6, <1>7, <1>9, <1>10, <1>11 DEF PipelineStep

\* A host thread becomes c, and its interaction i is at the stage, while nobody
\* waits.
HostMove(h, c, i, stage) ==
  /\ c \in Host /\ host' = [host EXCEPT ![h] = c]
  /\ i \in Interaction /\ pipe[i] \in {"new", "made"}
  /\ stage \in {"new", "made", "facts"} /\ pipe' = [pipe EXCEPT ![i] = stage]
  /\ threads' \in SUBSET Interaction /\ threads \subseteq threads'
  /\ stage = "facts" => i \in threads'
  /\ working' \in Seq(Turn) /\ Len(working') <= MaxWorkingTurns
  /\ smooth' \in BOOLEAN
  /\ UNCHANGED <<episodic, db, run, offered>>
  /\ db = "open"
  /\ \A k \in Hosts : host[k].pc # "join"
  /\ \A k \in Hosts \ {h} : host[k].of # i
  /\ c.of \in {0, i} /\ c.pc # "join" /\ (c.pc = "idle" <=> c.of = 0)
  /\ c.pc \in {"buffer", "make"} => stage = "new"
  /\ c.pc = "start" => stage = "made" /\ i \in threads'

\* A host thread moves on inside process, and starts no pipeline but its own.
LEMMA HostMoves ==
  ASSUME Inv, NEW h \in Hosts, NEW c, NEW i, NEW stage, HostMove(h, c, i, stage)
  PROVE  Inv'
<1> USE DEF HostMove
<1>1. /\ pipe \in [Interaction -> Stage] /\ TypeOK
      /\ host \in [Hosts -> Host]
  BY DEF Inv, TypeOK
<1>2. /\ pipe' \in [Interaction -> Stage] /\ pipe'[i] = stage
      /\ \A j \in Interaction \ {i} : pipe'[j] = pipe[j]
      /\ host' \in [Hosts -> Host] /\ host'[h] = c
      /\ \A k \in Hosts \ {h} : host'[k] = host[k]
  BY <1>1 DEF Stage, Running
<1>3. TypeOK'
  BY <1>1, <1>2 DEF TypeOK
<1>4. HostOk(h)'
  BY <1>2 DEF HostOk
<1>5. \A k \in Hosts \ {h} : HostOk(k)'
  <2>1. TAKE k \in Hosts \ {h}
  <2>2. /\ host'[k] = host[k] /\ host[k].of # i /\ host[k].pc # "join"
        /\ HostOk(k)
    BY <1>2 DEF Inv
  <2>3. host[k].of \in Interaction => pipe'[host[k].of] = pipe[host[k].of]
    BY <1>2, <2>2
  <2> QED
    BY <2>2, <2>3 DEF HostOk
<1>6. OwnInteractions'
  <2>1. SUFFICES ASSUME NEW k \in Hosts, NEW l \in Hosts, k # l
                 PROVE  host'[k].of = 0 \/ host'[k].of # host'[l].of
    BY DEF OwnInteractions
  <2>2. CASE k # h /\ l # h
    BY <1>2, <2>1, <2>2 DEF Inv, OwnInteractions
  <2>3. CASE k = h
    BY <1>2, <2>1, <2>3
  <2>4. CASE l = h
    <3>1. host'[k].of = host[k].of /\ host[k].of # i
      BY <1>2, <2>1, <2>4
    <3> QED
      BY <1>2, <2>4, <3>1
  <2> QED
    BY <2>2, <2>3, <2>4
<1>7. \A j \in Interaction : Alive(j)' => j \in threads'
  <2>1. TAKE j \in Interaction
  <2>2. CASE j = i
    BY <1>2, <2>2 DEF Alive, Running
  <2>3. CASE j # i
    BY <1>2, <2>3 DEF Inv, Alive
  <2> QED
    BY <2>2, <2>3
<1>8. \A j \in Interaction : OfferedBy(pipe'[j], offered'[j])
  <2>1. TAKE j \in Interaction
  <2>2. OfferedBy(pipe[j], offered[j])
    BY DEF Inv
  <2>3. CASE j = i
    BY <1>2, <2>2, <2>3 DEF OfferedBy
  <2>4. CASE j # i
    BY <1>2, <2>2, <2>4
  <2> QED
    BY <2>3, <2>4
<1> QED
  BY <1>3, <1>4, <1>5, <1>6, <1>7, <1>8 DEF Inv

\* A host thread inside process: the store is open, nobody waits, and the
\* interaction is its own.
LEMMA InsideProcess ==
  ASSUME Inv, NEW h \in Hosts, host[h].pc \in {"buffer", "make", "start"}
  PROVE  /\ db = "open"
         /\ \A k \in Hosts : host[k].pc # "join"
         /\ host[h].of \in Interaction
         /\ \A k \in Hosts \ {h} : host[k].of # host[h].of
<1>1. ~Idle(h)
  BY DEF Idle
<1>2. db = "open"
  BY <1>1 DEF Inv, TypeOK
<1>3. \A k \in Hosts : host[k].pc # "join"
  BY <1>1 DEF Inv, HostOk
<1>4. host[h].of \in Interaction
  BY DEF Inv, HostOk
<1>5. host[h].of # 0
  BY <1>4, ZeroIsNone
<1>6. \A k \in Hosts \ {h} : host[k].of # host[h].of
  BY <1>5 DEF Inv, OwnInteractions
<1> QED
  BY <1>2, <1>3, <1>4, <1>6

\* process: the user turn.
LEMMA BufferUserInv ==
  ASSUME Inv, NEW h \in Hosts, NEW i \in Interaction, NobodyWaits,
         BufferUser(h, i)
  PROVE  Inv'
<1> DEFINE c == [host[h] EXCEPT !.pc = "buffer", !.of = i]
<1>1. /\ Idle(h) /\ db = "open" /\ i \notin Began
      /\ working' = Push(working, [of |-> i, role |-> "user"])
      /\ host' = [host EXCEPT ![h].pc = "buffer", ![h].of = i]
      /\ smooth' = (smooth /\ AllQuiet)
      /\ UNCHANGED <<episodic, threads, pipe, db, run, offered>>
  BY DEF BufferUser
<1>2. /\ host[h] \in Host /\ host \in [Hosts -> Host]
      /\ pipe \in [Interaction -> Stage] /\ threads \in SUBSET Interaction
      /\ working \in Seq(Turn) /\ Len(working) <= MaxWorkingTurns
      /\ smooth \in BOOLEAN
  BY HostFields DEF Inv, TypeOK
<1>3. /\ pipe[i] = "new" /\ \A k \in Hosts : host[k].of # i
  BY <1>1 DEF Began
<1>4. c \in Host /\ c.pc = "buffer" /\ c.of = i
  BY <1>2, ZeroIsNone DEF Host
<1>5. host' = [host EXCEPT ![h] = c]
  BY <1>1, <1>2
<1>6. pipe' = [pipe EXCEPT ![i] = "new"]
  BY <1>1, <1>2, <1>3
<1>7. [of |-> i, role |-> "user"] \in Turn
  BY DEF Turn
<1>8. working' \in Seq(Turn) /\ Len(working') <= MaxWorkingTurns
  BY <1>1, <1>2, <1>7, PushBounded
<1>9. smooth' \in BOOLEAN
  BY <1>1, <1>2
<1>10. i # 0 /\ threads' \in SUBSET Interaction /\ threads \subseteq threads'
  BY <1>1, <1>2, ZeroIsNone
<1>11. \A k \in Hosts : host[k].pc # "join"
  BY DEF NobodyWaits
<1> HIDE DEF c
<1>12. HostMove(h, c, i, "new")
  BY <1>1, <1>3, <1>4, <1>5, <1>6, <1>8, <1>9, <1>10, <1>11 DEF HostMove
<1> QED
  BY <1>12, HostMoves

\* process: the assistant turn.
LEMMA BufferAssistantInv ==
  ASSUME Inv, NEW h \in Hosts, BufferAssistant(h)
  PROVE  Inv'
<1> DEFINE c == [host[h] EXCEPT !.pc = "make"]
           i == host[h].of
<1>1. /\ host[h].pc = "buffer"
      /\ working' = Push(working, [of |-> i, role |-> "assistant"])
      /\ host' = [host EXCEPT ![h].pc = "make"]
      /\ UNCHANGED <<episodic, threads, pipe, db, run, offered, smooth>>
  BY DEF BufferAssistant
<1>2. /\ host[h] \in Host /\ host \in [Hosts -> Host]
      /\ pipe \in [Interaction -> Stage] /\ threads \in SUBSET Interaction
      /\ working \in Seq(Turn) /\ Len(working) <= MaxWorkingTurns
      /\ smooth \in BOOLEAN
  BY HostFields DEF Inv, TypeOK
<1>3. /\ db = "open" /\ i \in Interaction
      /\ \A k \in Hosts : host[k].pc # "join"
      /\ \A k \in Hosts \ {h} : host[k].of # i
  BY <1>1, InsideProcess
<1>4. pipe[i] = "new"
  BY <1>1 DEF Inv, HostOk
<1>5. c \in Host /\ c.pc = "make" /\ c.of = i
  BY <1>2 DEF Host
<1>6. host' = [host EXCEPT ![h] = c]
  BY <1>1, <1>2
<1> HIDE DEF i
<1>7. pipe' = [pipe EXCEPT ![i] = "new"]
  BY <1>1, <1>2, <1>3, <1>4
<1>8. [of |-> i, role |-> "assistant"] \in Turn
  BY <1>3 DEF Turn
<1>9. working' \in Seq(Turn) /\ Len(working') <= MaxWorkingTurns
  BY <1>1, <1>2, <1>8, PushBounded
<1>10. i # 0 /\ threads' \in SUBSET Interaction /\ threads \subseteq threads'
       /\ smooth' \in BOOLEAN
  BY <1>1, <1>2, <1>3, ZeroIsNone
<1> HIDE DEF c
<1>11. HostMove(h, c, i, "new")
  BY <1>1, <1>3, <1>4, <1>5, <1>6, <1>7, <1>9, <1>10 DEF HostMove
<1> QED
  BY <1>11, HostMoves

\* ingest_async: the thread is listed.
LEMMA MakeThreadInv ==
  ASSUME Inv, NEW h \in Hosts, MakeThread(h)
  PROVE  Inv'
<1> DEFINE c == [host[h] EXCEPT !.pc = "start"]
           i == host[h].of
<1>1. /\ host[h].pc = "make"
      /\ threads' = threads \cup {i}
      /\ pipe' = [pipe EXCEPT ![i] = "made"]
      /\ host' = [host EXCEPT ![h].pc = "start"]
      /\ UNCHANGED <<working, episodic, db, run, offered, smooth>>
  BY DEF MakeThread
<1>2. /\ host[h] \in Host /\ host \in [Hosts -> Host]
      /\ threads \in SUBSET Interaction
      /\ working \in Seq(Turn) /\ Len(working) <= MaxWorkingTurns
      /\ smooth \in BOOLEAN
  BY HostFields DEF Inv, TypeOK
<1>3. /\ db = "open" /\ i \in Interaction
      /\ \A k \in Hosts : host[k].pc # "join"
      /\ \A k \in Hosts \ {h} : host[k].of # i
  BY <1>1, InsideProcess
<1>4. pipe[i] = "new"
  BY <1>1 DEF Inv, HostOk
<1>5. c \in Host /\ c.pc = "start" /\ c.of = i
  BY <1>2 DEF Host
<1>6. host' = [host EXCEPT ![h] = c]
  BY <1>1, <1>2
<1> HIDE DEF i, c
<1>7. /\ i # 0 /\ threads' \in SUBSET Interaction /\ threads \subseteq threads'
      /\ i \in threads' /\ smooth' \in BOOLEAN
      /\ working' \in Seq(Turn) /\ Len(working') <= MaxWorkingTurns
  BY <1>1, <1>2, <1>3, ZeroIsNone
<1>8. HostMove(h, c, i, "made")
  BY <1>1, <1>3, <1>4, <1>5, <1>6, <1>7 DEF HostMove
<1> QED
  BY <1>8, HostMoves

\* ingest_async: the listed thread is started, and process returns.
LEMMA StartThreadInv ==
  ASSUME Inv, NEW h \in Hosts, StartThread(h)
  PROVE  Inv'
<1> DEFINE i == host[h].of
<1>1. /\ host[h].pc = "start"
      /\ pipe' = [pipe EXCEPT ![i] = "facts"]
      /\ host' = [host EXCEPT ![h] = AtRest]
      /\ UNCHANGED <<working, episodic, threads, db, run, offered, smooth>>
  BY DEF StartThread
<1>2. /\ threads \in SUBSET Interaction
      /\ working \in Seq(Turn) /\ Len(working) <= MaxWorkingTurns
      /\ smooth \in BOOLEAN
  BY DEF Inv, TypeOK
<1>3. /\ db = "open" /\ i \in Interaction
      /\ \A k \in Hosts : host[k].pc # "join"
      /\ \A k \in Hosts \ {h} : host[k].of # i
  BY <1>1, InsideProcess
<1>4. pipe[i] = "made" /\ i \in threads
  BY <1>1 DEF Inv, HostOk
<1>5. AtRest \in Host /\ AtRest.pc = "idle" /\ AtRest.of = 0
  BY IngestionBoundsAssumption DEF AtRest, Host
<1> HIDE DEF i
<1>6. /\ threads' \in SUBSET Interaction /\ threads \subseteq threads'
      /\ smooth' \in BOOLEAN
      /\ working' \in Seq(Turn) /\ Len(working') <= MaxWorkingTurns
  BY <1>1, <1>2
<1>7. HostMove(h, AtRest, i, "facts")
  BY <1>1, <1>3, <1>4, <1>5, <1>6 DEF HostMove
<1> QED
  BY <1>7, HostMoves

\* wait and close: nobody is inside a call, and the copy has every live thread.
LEMMA StartWaitInv ==
  ASSUME Inv, NEW h \in Hosts, NEW closing \in BOOLEAN, Owner(h),
         StartWait(h, closing)
  PROVE  Inv'
<1> DEFINE c == [host[h] EXCEPT !.pc = "join", !.joins = threads,
                                !.closing = closing]
<1>1. /\ Idle(h) /\ db = "open"
      /\ host' = [host EXCEPT ![h].pc = "join", ![h].joins = threads,
                              ![h].closing = closing]
      /\ UNCHANGED <<working, episodic, threads, pipe, db, run, offered, smooth>>
  BY DEF StartWait
<1>2. /\ host[h] \in Host /\ host \in [Hosts -> Host]
      /\ threads \in SUBSET Interaction /\ TypeOK
  BY HostFields DEF Inv, TypeOK
<1>3. host[h].of = 0
  BY <1>1 DEF Inv, HostOk, Idle
<1>4. c \in Host /\ c.pc = "join" /\ c.of = 0 /\ c.joins = threads
  BY <1>2, <1>3 DEF Host
<1>5. host' = [host EXCEPT ![h] = c]
  BY <1>1, <1>2
<1> HIDE DEF c
<1>6. /\ host' \in [Hosts -> Host] /\ host'[h] = c
      /\ \A k \in Hosts \ {h} : host'[k] = host[k]
  BY <1>2, <1>4, <1>5
<1>7. TypeOK'
  BY <1>1, <1>2, <1>6 DEF TypeOK
<1>8. \A k \in Hosts \ {h} : host[k].pc = "idle" /\ host[k].of = 0
  BY DEF Owner, Idle, Inv, HostOk
<1>9. \A i \in Interaction : Alive(i)' => Alive(i) /\ i \in threads /\ i \in threads'
  BY <1>1 DEF Alive, Inv
<1>10. \A k \in Hosts : HostOk(k)'
  <2>1. HostOk(h)'
    BY <1>4, <1>6, <1>8, <1>9 DEF HostOk, Idle
  <2>2. \A k \in Hosts \ {h} : HostOk(k)'
    BY <1>6, <1>8 DEF HostOk
  <2> QED
    BY <2>1, <2>2
<1>11. OwnInteractions'
  BY <1>4, <1>6, <1>8 DEF OwnInteractions
<1>12. \A i \in Interaction : OfferedBy(pipe'[i], offered'[i])
  BY <1>1 DEF Inv
<1> QED
  BY <1>1, <1>7, <1>9, <1>10, <1>11, <1>12 DEF Inv

\* wait returns: of the list, those alive are kept, and close() has seen every
\* one of its copy end.
LEMMA JoinedInv ==
  ASSUME Inv, NEW h \in Hosts, Joined(h)
  PROVE  Inv'
<1>1. /\ host[h].pc = "join"
      /\ host[h].closing => \A i \in host[h].joins : ~Alive(i)
      /\ threads' = {i \in threads : Alive(i)}
      /\ host' = [host EXCEPT ![h] = AtRest]
      /\ db' = IF host[h].closing THEN "closed" ELSE db
      /\ UNCHANGED <<working, episodic, pipe, run, offered, smooth>>
  BY DEF Joined, EndWait, Kept
<1>2. TypeOK /\ host \in [Hosts -> Host]
  BY DEF Inv, TypeOK
<1>3. AtRest \in Host /\ AtRest.pc = "idle" /\ AtRest.of = 0
  BY IngestionBoundsAssumption DEF AtRest, Host
<1>4. /\ \A k \in Hosts \ {h} : Idle(k) /\ host[k].of = 0
      /\ \A i \in Interaction : Alive(i) => i \in host[h].joins
  BY <1>1 DEF Inv, HostOk, Idle
<1>5. /\ host' \in [Hosts -> Host] /\ host'[h] = AtRest
      /\ \A k \in Hosts \ {h} : host'[k] = host[k]
  BY <1>1, <1>2, <1>3
<1>6. TypeOK'
  BY <1>1, <1>2, <1>5 DEF TypeOK
<1>7. \A k \in Hosts : host'[k].pc = "idle" /\ host'[k].of = 0
  BY <1>3, <1>4, <1>5 DEF Idle
<1>8. \A k \in Hosts : HostOk(k)' /\ Idle(k)'
  BY <1>7 DEF HostOk, Idle
<1>9. OwnInteractions'
  BY <1>7 DEF OwnInteractions
<1>10. \A i \in Interaction : Alive(i)' => Alive(i) /\ i \in threads'
  BY <1>1 DEF Alive, Inv
<1>11. db' = "closed" => \A i \in Interaction : ~Alive(i)'
  <2>1. CASE host[h].closing
    BY <1>1, <1>4, <1>10, <2>1
  <2>2. CASE ~host[h].closing
    BY <1>1, <1>10, <2>2 DEF Inv
  <2> QED
    BY <2>1, <2>2
<1>12. \A i \in Interaction : OfferedBy(pipe'[i], offered'[i])
  BY <1>1 DEF Inv
<1> QED
  BY <1>6, <1>8, <1>9, <1>10, <1>11, <1>12 DEF Inv

\* A new process opens the closed file: nothing was running.
LEMMA ReopenInv ==
  ASSUME Inv, Reopen
  PROVE  Inv'
<1>1. /\ db = "closed" /\ run < MaxRuns
      /\ db' = "open" /\ run' = run + 1
      /\ working' = << >> /\ threads' = {} /\ smooth' = TRUE
      /\ UNCHANGED <<episodic, host, pipe, offered>>
  BY DEF Reopen
<1>2. TypeOK /\ \A k \in Hosts : Idle(k) /\ host[k].of = 0
  BY <1>1 DEF Inv, HostOk, Idle
<1>3. TypeOK'
  <2>1. working' \in Seq(Turn) /\ Len(working') <= MaxWorkingTurns
    BY <1>1, WorkingTurnsAssumption
  <2>2. run' \in 1..MaxRuns
    BY <1>1, <1>2, IngestionBoundsAssumption DEF TypeOK
  <2> QED
    BY <1>1, <1>2, <2>1, <2>2 DEF TypeOK
<1>4. \A k \in Hosts : HostOk(k)'
  BY <1>1, <1>2 DEF HostOk, Idle
<1>5. OwnInteractions'
  BY <1>1 DEF Inv, OwnInteractions
<1>6. \A i \in Interaction : ~Alive(i)'
  BY <1>1 DEF Inv, Alive
<1>7. \A i \in Interaction : OfferedBy(pipe'[i], offered'[i])
  BY <1>1 DEF Inv
<1> QED
  BY <1>1, <1>3, <1>4, <1>5, <1>6, <1>7 DEF Inv

(***************************************************************************)
(* The loops of history and tokens.  Each is a recursive function; that    *)
(* there is one, and what holds of it after every round, follows because   *)
(* there is no least round at which it fails.                              *)
(***************************************************************************)

\* A set of naturals has a least member.
LEMMA LeastExists ==
  ASSUME NEW S \in SUBSET Nat, S # {}
  PROVE  \E x \in S : \A y \in S : x <= y
<1>1. PICK x \in S : \A y \in S : ~ (<<y, x>> \in OpToRel(<, Nat))
  BY NatLessThanWellFounded, WFMin
<1>2. \A y \in S : ~ (y < x)
  BY <1>1 DEF OpToRel
<1> QED
  BY <1>2

\* What holds before a loop and is kept by each round holds after each.
LEMMA AllRounds ==
  ASSUME NEW n \in Nat, NEW P, 0 \in P, \A i \in 1..n : i - 1 \in P => i \in P
  PROVE  \A i \in 0..n : i \in P
<1> DEFINE Bad == (0..n) \ P
<1>1. SUFFICES ASSUME Bad # {} PROVE FALSE
  OBVIOUS
<1>2. Bad \in SUBSET Nat
  OBVIOUS
<1>3. PICK i \in Bad : \A j \in Bad : i <= j
  BY <1>1, <1>2, LeastExists
<1>4. i \in 1..n /\ i - 1 \in 0..n
  BY <1>3
<1>5. i - 1 \notin Bad
  BY <1>3, <1>4
<1> QED
  BY <1>3, <1>4, <1>5

\* What each of n rounds makes of a value.
Rounds(n, S) == [1..n -> [S -> S]]

RunsThrough(n, S, base, step, f) ==
  f \in [0..n -> S] /\ f[0] = base /\ \A i \in 1..n : f[i] = step[i][f[i - 1]]

\* A loop of n rounds has a function of the values it goes through.
LEMMA LoopExists ==
  ASSUME NEW n \in Nat, NEW S, NEW base \in S, NEW step \in Rounds(n, S)
  PROVE  \E f : RunsThrough(n, S, base, step, f)
<1> DEFINE Runs(m, f) == f[0] = base /\ \A i \in 1..m : f[i] = step[i][f[i - 1]]
           P == {m \in 0..n : \E f \in [0..m -> S] : Runs(m, f)}
<1>1. 0 \in P
  <2> DEFINE f == [i \in 0..0 |-> base]
  <2>1. f \in [0..0 -> S] /\ f[0] = base
    OBVIOUS
  <2>2. \A i \in 1..0 : FALSE
    OBVIOUS
  <2> HIDE DEF f
  <2>3. Runs(0, f)
    BY <2>1, <2>2
  <2>4. 0 \in 0..n
    OBVIOUS
  <2> QED
    BY <2>1, <2>3, <2>4
<1>2. ASSUME NEW m \in 1..n, m - 1 \in P PROVE m \in P
  <2>1. PICK g \in [0..(m - 1) -> S] : Runs(m - 1, g)
    BY <1>2
  <2>2. m \in Nat /\ m \in 1..n /\ m - 1 \in 0..(m - 1)
    OBVIOUS
  <2>3. step[m] \in [S -> S] /\ g[m - 1] \in S
    BY <2>2 DEF Rounds
  <2> DEFINE f == [i \in 0..m |-> IF i = m THEN step[m][g[m - 1]] ELSE g[i]]
  <2>4. f \in [0..m -> S]
    <3>1. \A i \in 0..m : i # m => i \in 0..(m - 1)
      BY <2>2
    <3>2. step[m][g[m - 1]] \in S
      BY <2>3
    <3> QED
      BY <3>1, <3>2
  <2>5. f[m] = step[m][g[m - 1]] /\ \A i \in 0..(m - 1) : f[i] = g[i]
    BY <2>2
  <2> HIDE DEF f
  <2>6. f[0] = base
    BY <2>1, <2>2, <2>5
  <2>7. \A i \in 1..m : f[i] = step[i][f[i - 1]]
    <3>1. TAKE i \in 1..m
    <3>2. CASE i = m
      BY <2>2, <2>5, <3>2
    <3>3. CASE i # m
      <4>1. i \in 1..(m - 1) /\ i \in 0..(m - 1) /\ i - 1 \in 0..(m - 1)
        BY <2>2, <3>3
      <4>2. g[i] = step[i][g[i - 1]]
        BY <2>1, <4>1
      <4> QED
        BY <2>5, <4>1, <4>2
    <3> QED
      BY <3>2, <3>3
  <2>8. m \in 0..n
    BY <2>2
  <2> QED
    BY <2>4, <2>6, <2>7, <2>8
<1> HIDE DEF P
<1>3. \A i \in 0..n : i \in P
  BY <1>1, <1>2, AllRounds
<1>4. n \in P
  BY <1>3
<1> QED
  BY <1>4 DEF P, RunsThrough

\* The lists that a filter by role goes through.
Chooses(roles, turns, g) ==
  /\ g[0] = << >>
  /\ \A n \in 1..Len(turns) :
       g[n] = IF turns[n].role \in roles THEN Append(g[n - 1], turns[n]) ELSE g[n - 1]

\* It is a loop that ends.
LEMMA OfRolesLoop ==
  ASSUME NEW roles, NEW turns \in Seq(Turn)
  PROVE  \E g \in [0..Len(turns) -> Seq(Turn)] :
           OfRoles(roles, turns) = g[Len(turns)] /\ Chooses(roles, turns, g)
<1> DEFINE N == Len(turns)
           Round(f, n) == IF turns[n].role \in roles THEN Append(f[n - 1], turns[n])
                          ELSE f[n - 1]
           Loop(f, n) == IF n = 0 THEN << >>
                         ELSE IF turns[n].role \in roles
                              THEN Append(f[n - 1], turns[n])
                         ELSE f[n - 1]
           step == [n \in 1..N |-> [acc \in Seq(Turn) |->
                     IF turns[n].role \in roles THEN Append(acc, turns[n]) ELSE acc]]
           g == CHOOSE f : f = [n \in 0..N |-> Loop(f, n)]
<1>1. N \in Nat /\ << >> \in Seq(Turn)
  OBVIOUS
<1>2. step \in Rounds(N, Seq(Turn))
  BY DEF Rounds
<1>3. \A n \in 1..N, acc \in Seq(Turn) :
        step[n][acc] = IF turns[n].role \in roles THEN Append(acc, turns[n]) ELSE acc
  OBVIOUS
<1> HIDE DEF step, N, g, Round, Loop
<1>4. PICK f \in [0..N -> Seq(Turn)] :
        f[0] = << >> /\ \A n \in 1..N : f[n] = step[n][f[n - 1]]
  <2>1. PICK S, base, round : S = Seq(Turn) /\ base = << >> /\ round = step
    OBVIOUS
  <2>2. N \in Nat /\ base \in S /\ round \in Rounds(N, S)
    BY <1>1, <1>2, <2>1
  <2>3. PICK f : RunsThrough(N, S, base, round, f)
    BY <2>2, LoopExists
  <2> QED
    BY <2>1, <2>3 DEF RunsThrough
<1>5. \A n \in 1..N : n - 1 \in 0..N /\ n \in 0..N /\ n # 0
  BY <1>1
<1>6. \A n \in 1..N : f[n] = Round(f, n)
  BY <1>3, <1>4, <1>5 DEF Round
<1>7. \A n \in 0..N : n = 0 \/ n \in 1..N
  BY <1>1
<1>8. \A n \in 0..N : f[n] = Loop(f, n)
  BY <1>4, <1>6, <1>7 DEF Loop, Round
<1>9. f = [n \in 0..N |-> f[n]]
  BY <1>4
<1>10. f = [n \in 0..N |-> Loop(f, n)]
  BY <1>8, <1>9
<1>11. g = [n \in 0..N |-> Loop(g, n)]
  BY <1>10 DEF g
<1>12. OfRoles(roles, turns) = g[N]
  BY DEF OfRoles, Loop, N, g
<1>13. \A n \in 0..N : g[n] = Loop(g, n)
  BY <1>11
<1>14. g[0] = << >> /\ \A n \in 1..N : g[n] = Round(g, n)
  BY <1>1, <1>5, <1>13 DEF Loop, Round
<1>15. \A n \in 0..N : n \in {m \in 0..N : g[m] \in Seq(Turn)}
  <2> DEFINE P == {m \in 0..N : g[m] \in Seq(Turn)}
  <2>1. 0 \in P
    <3>1. 0 \in 0..N
      BY <1>1
    <3>2. g[0] \in Seq(Turn)
      BY <1>1, <1>14
    <3> QED
      BY <3>1, <3>2
  <2>2. ASSUME NEW m \in 1..N, m - 1 \in P PROVE m \in P
    <3>1. g[m - 1] \in Seq(Turn) /\ turns[m] \in Turn
      BY <2>2 DEF N
    <3>2. Append(g[m - 1], turns[m]) \in Seq(Turn)
      BY <3>1
    <3> QED
      BY <1>5, <1>14, <3>1, <3>2 DEF Round
  <2> HIDE DEF P
  <2>3. \A n \in 0..N : n \in P
    BY <1>1, <2>1, <2>2, AllRounds
  <2> QED
    BY <2>3 DEF P
<1>16. g \in [0..N -> Seq(Turn)]
  BY <1>11, <1>15
<1> QED
  BY <1>12, <1>14, <1>16 DEF N, Round, Chooses

\* The sums that tokens goes through.
Sums(roles, messages, g) ==
  /\ g[0] = 0
  /\ \A n \in 1..Len(messages) :
       g[n] = g[n - 1] + IF messages[n].role \in roles THEN Cost(messages[n]) ELSE 0

\* It is a loop that ends.
LEMMA TokensLoop ==
  ASSUME NEW roles, NEW messages \in Seq(Turn)
  PROVE  \E g \in [0..Len(messages) -> Nat] :
           TokensOf(roles, messages) = g[Len(messages)] /\ Sums(roles, messages, g)
<1> DEFINE N == Len(messages)
           Price(n) == IF messages[n].role \in roles THEN Cost(messages[n]) ELSE 0
           Loop(f, n) == IF n = 0 THEN 0
                         ELSE f[n - 1]
                                + IF messages[n].role \in roles
                                  THEN Cost(messages[n]) ELSE 0
           step == [n \in 1..N |-> [sum \in Nat |-> sum + Price(n)]]
           g == CHOOSE f : f = [n \in 0..N |-> Loop(f, n)]
<1>1. N \in Nat /\ \A n \in 1..N : Price(n) \in Nat
  BY CostAssumption
<1> HIDE DEF N, Price
<1>2. step \in Rounds(N, Nat)
  BY <1>1 DEF Rounds
<1>3. \A n \in 1..N, sum \in Nat : step[n][sum] = sum + Price(n)
  OBVIOUS
<1> HIDE DEF step, g, Loop
<1>4. PICK f \in [0..N -> Nat] :
        f[0] = 0 /\ \A n \in 1..N : f[n] = step[n][f[n - 1]]
  <2>1. PICK S, base, round : S = Nat /\ base = 0 /\ round = step
    OBVIOUS
  <2>2. N \in Nat /\ base \in S /\ round \in Rounds(N, S)
    BY <1>1, <1>2, <2>1
  <2>3. PICK f : RunsThrough(N, S, base, round, f)
    BY <2>2, LoopExists
  <2> QED
    BY <2>1, <2>3 DEF RunsThrough
<1>5. \A n \in 1..N : n - 1 \in 0..N /\ n \in 0..N /\ n # 0
  BY <1>1
<1>6. \A n \in 1..N : f[n] = f[n - 1] + Price(n)
  BY <1>3, <1>4, <1>5
<1>7. \A n \in 0..N : n = 0 \/ n \in 1..N
  BY <1>1
<1>8. \A n \in 0..N : f[n] = Loop(f, n)
  BY <1>4, <1>6, <1>7 DEF Loop, Price
<1>9. f = [n \in 0..N |-> f[n]]
  BY <1>4
<1>10. f = [n \in 0..N |-> Loop(f, n)]
  BY <1>8, <1>9
<1>11. g = [n \in 0..N |-> Loop(g, n)]
  BY <1>10 DEF g
<1>12. TokensOf(roles, messages) = g[N]
  BY DEF TokensOf, Loop, N, g
<1>13. \A n \in 0..N : g[n] = Loop(g, n)
  BY <1>11
<1>14. g[0] = 0 /\ \A n \in 1..N : g[n] = g[n - 1] + Price(n)
  BY <1>1, <1>5, <1>13 DEF Loop, Price
<1>15. \A n \in 0..N : n \in {m \in 0..N : g[m] \in Nat}
  <2> DEFINE P == {m \in 0..N : g[m] \in Nat}
  <2>1. 0 \in P
    BY <1>1, <1>14
  <2>2. ASSUME NEW m \in 1..N, m - 1 \in P PROVE m \in P
    BY <1>1, <1>5, <1>14, <2>2
  <2> HIDE DEF P
  <2>3. \A n \in 0..N : n \in P
    BY <1>1, <2>1, <2>2, AllRounds
  <2> QED
    BY <2>3 DEF P
<1>16. g \in [0..N -> Nat]
  BY <1>11, <1>15
<1> QED
  BY <1>12, <1>14, <1>16 DEF N, Price, Sums

\* What the loop of a token budget carries from turn to turn.
Carried == [full: BOOLEAN, total: Nat, kept: Seq(Turn)]

KeptNothing == [full |-> FALSE, total |-> 0, kept |-> << >>]

\* A round takes nothing more, or the turn.
Closes(acc, next) ==
  next.full /\ next.total = acc.total /\ next.kept = acc.kept

Takes(turn, acc, next) ==
  /\ next.full = FALSE
  /\ next.total = acc.total + Cost(turn)
  /\ next.kept = <<turn>> \o acc.kept

\* A round keeps its type.
LEMMA KeepNextType ==
  ASSUME NEW turn \in Turn, NEW acc \in Carried, NEW budget \in Nat
  PROVE  /\ KeepNext(turn, acc, budget) \in Carried
         /\ acc.full \/ acc.total + Cost(turn) > budget =>
              Closes(acc, KeepNext(turn, acc, budget))
         /\ ~(acc.full \/ acc.total + Cost(turn) > budget) =>
              Takes(turn, acc, KeepNext(turn, acc, budget))
<1>1. acc.full \in BOOLEAN /\ acc.total \in Nat /\ acc.kept \in Seq(Turn)
  BY DEF Carried
<1>2. Cost(turn) \in Nat /\ acc.total + Cost(turn) \in Nat
  BY <1>1, CostAssumption
<1>3. <<turn>> \in Seq(Turn)
  OBVIOUS
<1>4. <<turn>> \o acc.kept \in Seq(Turn)
  BY <1>1, <1>3
<1>5. CASE acc.full \/ acc.total + Cost(turn) > budget
  <2>1. KeepNext(turn, acc, budget) = [acc EXCEPT !.full = TRUE]
    BY <1>5 DEF KeepNext
  <2> QED
    BY <1>1, <1>5, <2>1 DEF Carried, Closes
<1>6. CASE ~(acc.full \/ acc.total + Cost(turn) > budget)
  <2>1. KeepNext(turn, acc, budget) =
          [acc EXCEPT !.total = acc.total + Cost(turn), !.kept = <<turn>> \o acc.kept]
    BY <1>6 DEF KeepNext
  <2>2. PICK sum \in Nat, more \in Seq(Turn) :
          sum = acc.total + Cost(turn) /\ more = <<turn>> \o acc.kept
    BY <1>2, <1>4
  <2>3. KeepNext(turn, acc, budget) = [acc EXCEPT !.total = sum, !.kept = more]
    BY <2>1, <2>2
  <2> QED
    BY <1>1, <1>6, <2>2, <2>3 DEF Carried, Takes
<1> QED
  BY <1>5, <1>6

\* What the loop goes through.
Fits(turns, budget, g) ==
  /\ g[0] = KeptNothing
  /\ \A i \in 1..Len(turns) :
       g[i] = KeepNext(turns[Len(turns) - i + 1], g[i - 1], budget)

\* It ends.
LEMMA FittingLoop ==
  ASSUME NEW turns \in Seq(Turn), NEW budget \in Nat
  PROVE  \E g \in [0..Len(turns) -> Carried] :
           NewestFitting(turns, budget) = g[Len(turns)].kept /\ Fits(turns, budget, g)
<1> DEFINE N == Len(turns)
           Loop(f, i) == IF i = 0 THEN [full |-> FALSE, total |-> 0, kept |-> << >>]
                         ELSE KeepNext(turns[Len(turns) - i + 1], f[i - 1], budget)
           step == [i \in 1..N |-> [acc \in Carried |->
                     KeepNext(turns[N - i + 1], acc, budget)]]
           g == CHOOSE f : f = [i \in 0..Len(turns) |-> Loop(f, i)]
<1>1. N \in Nat /\ \A i \in 1..N : turns[N - i + 1] \in Turn
  OBVIOUS
<1>2. KeptNothing \in Carried
  BY DEF KeptNothing, Carried
<1>3. \A i \in 1..N, acc \in Carried : KeepNext(turns[N - i + 1], acc, budget) \in Carried
  BY <1>1, KeepNextType
<1>4. step \in Rounds(N, Carried)
  <2> HIDE DEF N
  <2> QED
    BY <1>3 DEF Rounds
<1>5. \A i \in 1..N, acc \in Carried :
        step[i][acc] = KeepNext(turns[N - i + 1], acc, budget)
  OBVIOUS
<1> HIDE DEF N, step, g, Loop
<1>6. PICK f \in [0..N -> Carried] :
        f[0] = KeptNothing /\ \A i \in 1..N : f[i] = step[i][f[i - 1]]
  <2>1. PICK S, base, round : S = Carried /\ base = KeptNothing /\ round = step
    OBVIOUS
  <2>2. N \in Nat /\ base \in S /\ round \in Rounds(N, S)
    BY <1>1, <1>2, <1>4, <2>1
  <2>3. PICK f : RunsThrough(N, S, base, round, f)
    BY <2>2, LoopExists
  <2> QED
    BY <2>1, <2>3 DEF RunsThrough
<1>7. \A i \in 1..N : i - 1 \in 0..N /\ i \in 0..N /\ i # 0
  BY <1>1
<1>8. \A i \in 1..N : f[i] = KeepNext(turns[N - i + 1], f[i - 1], budget)
  BY <1>5, <1>6, <1>7
<1>9. \A i \in 0..N : i = 0 \/ i \in 1..N
  BY <1>1
<1>10. \A i \in 0..N : f[i] = Loop(f, i)
  BY <1>6, <1>8, <1>9 DEF Loop, N, KeptNothing
<1>11. f = [i \in 0..N |-> f[i]]
  BY <1>6
<1>12. f = [i \in 0..N |-> Loop(f, i)]
  BY <1>10, <1>11
<1>13. g = [i \in 0..N |-> Loop(g, i)]
  BY <1>12 DEF g, N
<1>14. NewestFitting(turns, budget) = g[N].kept
  BY DEF NewestFitting, Loop, N, g
<1>15. \A i \in 0..N : g[i] = Loop(g, i)
  BY <1>13
<1>16. /\ g[0] = KeptNothing
       /\ \A i \in 1..N : g[i] = KeepNext(turns[N - i + 1], g[i - 1], budget)
  BY <1>1, <1>7, <1>15 DEF Loop, N, KeptNothing
<1>17. \A i \in 0..N : i \in {m \in 0..N : g[m] \in Carried}
  <2> DEFINE P == {m \in 0..N : g[m] \in Carried}
  <2>1. 0 \in P
    BY <1>1, <1>2, <1>16
  <2>2. ASSUME NEW m \in 1..N, m - 1 \in P PROVE m \in P
    BY <1>3, <1>7, <1>16, <2>2
  <2> HIDE DEF P
  <2>3. \A n \in 0..N : n \in P
    BY <1>1, <2>1, <2>2, AllRounds
  <2> QED
    BY <2>3 DEF P
<1>18. g \in [0..N -> Carried]
  BY <1>13, <1>17
<1> QED
  BY <1>14, <1>16, <1>18 DEF N, Fits

\* The newest turns of a log.
LEMMA NewestProperties ==
  ASSUME NEW turns \in Seq(Turn), NEW k \in 0..Len(turns)
  PROVE  /\ Newest(turns, k) \in Seq(Turn)
         /\ Len(Newest(turns, k)) = k
         /\ \A i \in 1..k : Newest(turns, k)[i] = turns[Len(turns) - k + i]
         /\ k < Len(turns) =>
              /\ turns[Len(turns) - k] \in Turn
              /\ Newest(turns, k + 1) = <<turns[Len(turns) - k]>> \o Newest(turns, k)
<1> DEFINE n == Len(turns)
<1>1. n \in Nat /\ n - k + 1 \in Int /\ k \in Nat
  OBVIOUS
<1>2. \A i \in (n - k + 1)..n : turns[i] \in Turn
  OBVIOUS
<1> HIDE DEF n
<1>3. /\ SubSeq(turns, n - k + 1, n) \in Seq(Turn)
      /\ Len(SubSeq(turns, n - k + 1, n)) = IF n - k + 1 <= n THEN n - (n - k + 1) + 1 ELSE 0
      /\ \A i \in 1..(n - (n - k + 1) + 1) :
           SubSeq(turns, n - k + 1, n)[i] = turns[(n - k + 1) + i - 1]
  BY <1>1, <1>2, SubSeqProperties
<1>4. /\ n - (n - k + 1) + 1 = k /\ (n - k + 1 <= n <=> k # 0)
      /\ \A i \in 1..k : (n - k + 1) + i - 1 = n - k + i
  BY <1>1
<1>5. /\ Newest(turns, k) \in Seq(Turn)
      /\ Len(Newest(turns, k)) = k
      /\ \A i \in 1..k : Newest(turns, k)[i] = turns[n - k + i]
  BY <1>1, <1>3, <1>4 DEF Newest, n
<1>6. ASSUME k < n
      PROVE  /\ turns[n - k] \in Turn
             /\ Newest(turns, k + 1) = <<turns[n - k]>> \o Newest(turns, k)
  <2>1. n - k \in 1..n /\ n \in (n - k)..n
    BY <1>1, <1>6
  <2>2. SubSeq(turns, n - k, n) = <<turns[n - k]>> \o SubSeq(turns, n - k + 1, n)
    BY <2>1, SubSeqRecursiveFirst DEF n
  <2>3. n - (k + 1) + 1 = n - k
    BY <1>1
  <2> QED
    BY <2>1, <2>2, <2>3 DEF Newest, n
<1> QED
  BY <1>5, <1>6 DEF n

\* The input is what its turns cost.
LEMMA InputLoop ==
  ASSUME NEW messages \in Seq(Turn)
  PROVE  \E g \in [0..Len(messages) -> Nat] :
           /\ InputTokens(messages) = g[Len(messages)]
           /\ g[0] = 0
           /\ \A n \in 1..Len(messages) : g[n] = g[n - 1] + Cost(messages[n])
<1>1. PICK g \in [0..Len(messages) -> Nat] :
        TokensOf(Either, messages) = g[Len(messages)] /\ Sums(Either, messages, g)
  BY TokensLoop
<1>2. ASSUME NEW n \in 1..Len(messages)
      PROVE  g[n] = g[n - 1] + Cost(messages[n])
  <2>1. messages[n] \in Turn
    OBVIOUS
  <2>2. messages[n].role \in Either
    BY <2>1 DEF Turn, Either
  <2> QED
    BY <1>1, <2>2 DEF Sums
<1> QED
  BY <1>1, <1>2 DEF InputTokens, Sums

\* Nothing costs nothing.
LEMMA NoTokens == InputTokens(<< >>) = 0
<1>1. << >> \in Seq(Turn) /\ Len(<< >>) = 0
  OBVIOUS
<1>2. PICK none : none = << >>
  OBVIOUS
<1>3. none \in Seq(Turn) /\ Len(none) = 0
  BY <1>1, <1>2
<1>4. PICK h \in [0..Len(none) -> Nat] :
        InputTokens(none) = h[Len(none)] /\ h[0] = 0
  BY <1>3, InputLoop
<1> QED
  BY <1>2, <1>3, <1>4

\* What a turn adds in front, in tokens.
LEMMA TokensPrepend ==
  ASSUME NEW turn \in Turn, NEW s \in Seq(Turn)
  PROVE  /\ InputTokens(s) \in Nat
         /\ InputTokens(<<turn>> \o s) = Cost(turn) + InputTokens(s)
<1>1. PICK t : t = <<turn>> \o s
  OBVIOUS
<1>2. /\ t \in Seq(Turn) /\ Len(t) = Len(s) + 1 /\ Len(s) \in Nat
      /\ t[1] = turn /\ \A i \in 1..Len(s) : t[i + 1] = s[i]
  <2>1. <<turn>> \in Seq(Turn) /\ Len(<<turn>>) = 1 /\ <<turn>>[1] = turn
    OBVIOUS
  <2>2. PICK one \in Seq(Turn) : one = <<turn>> /\ Len(one) = 1 /\ one[1] = turn
    BY <2>1
  <2>3. /\ one \o s \in Seq(Turn) /\ Len(one \o s) = Len(one) + Len(s)
        /\ \A i \in 1..(Len(one) + Len(s)) :
             (one \o s)[i] = IF i <= Len(one) THEN one[i] ELSE s[i - Len(one)]
    BY ConcatProperties
  <2>4. t = one \o s /\ Len(s) \in Nat
    BY <1>1, <2>2
  <2> QED
    BY <2>2, <2>3, <2>4
<1>3. Cost(turn) \in Nat /\ \A i \in 1..Len(s) : s[i] \in Turn /\ Cost(s[i]) \in Nat
  BY CostAssumption
<1>4. PICK g \in [0..Len(s) -> Nat] :
        /\ InputTokens(s) = g[Len(s)] /\ g[0] = 0
        /\ \A n \in 1..Len(s) : g[n] = g[n - 1] + Cost(s[n])
  BY InputLoop
<1>5. PICK f \in [0..Len(t) -> Nat] :
        /\ InputTokens(t) = f[Len(t)] /\ f[0] = 0
        /\ \A n \in 1..Len(t) : f[n] = f[n - 1] + Cost(t[n])
  BY <1>2, InputLoop
<1>6. \A n \in 0..Len(s) : n \in {m \in 0..Len(s) : f[m + 1] = Cost(turn) + g[m]}
  <2> DEFINE P == {m \in 0..Len(s) : f[m + 1] = Cost(turn) + g[m]}
  <2>1. 0 \in P
    <3>1. 1 \in 1..Len(t) /\ f[1] = f[0] + Cost(t[1])
      BY <1>2, <1>5
    <3> QED
      BY <1>2, <1>4, <1>5, <3>1, CostAssumption
  <2>2. ASSUME NEW m \in 1..Len(s), m - 1 \in P PROVE m \in P
    <3>1. /\ m \in Nat /\ m + 1 \in 1..Len(t) /\ m \in 0..Len(t)
          /\ m - 1 \in 0..Len(s) /\ m \in 0..Len(s)
      BY <1>2
    <3>2. f[m + 1] = f[m] + Cost(t[m + 1]) /\ t[m + 1] = s[m]
      <4>1. PICK n \in 1..Len(t) : n = m + 1 /\ n - 1 = m
        BY <3>1
      <4>2. f[n] = f[n - 1] + Cost(t[n])
        BY <1>5
      <4> QED
        BY <1>2, <4>1, <4>2
    <3>3. f[m] = Cost(turn) + g[m - 1]
      BY <2>2, <3>1
    <3>4. g[m] = g[m - 1] + Cost(s[m])
      BY <1>4
    <3>5. g[m - 1] \in Nat /\ Cost(turn) \in Nat /\ Cost(s[m]) \in Nat
      BY <1>3, <1>4, <3>1, CostAssumption
    <3>6. f[m + 1] = Cost(turn) + g[m]
      BY <3>2, <3>3, <3>4, <3>5
    <3> QED
      BY <3>1, <3>6
  <2> HIDE DEF P
  <2>3. \A n \in 0..Len(s) : n \in P
    BY <1>2, <2>1, <2>2, AllRounds
  <2> QED
    BY <2>3 DEF P
<1>7. InputTokens(s) \in Nat /\ InputTokens(t) = Cost(turn) + InputTokens(s)
  BY <1>2, <1>4, <1>5, <1>6
<1> QED
  BY <1>1, <1>7

\* What the loop carries after i rounds: the newest turns, their tokens, and
\* whether an older one was too much.
Affords(turns, budget, i, acc) ==
  LET k == Len(acc.kept) IN
  /\ k <= i /\ i <= Len(turns)
  /\ acc.kept = Newest(turns, k)
  /\ acc.total = InputTokens(acc.kept) /\ acc.total <= budget
  /\ IF acc.full
     THEN k < Len(turns) /\ InputTokens(Newest(turns, k + 1)) > budget
     ELSE k = i

\* A round keeps it.
LEMMA KeepNextAffords ==
  ASSUME NEW turns \in Seq(Turn), NEW budget \in Nat, NEW i \in 1..Len(turns),
         NEW acc \in Carried, Affords(turns, budget, i - 1, acc),
         NEW next, next = KeepNext(turns[Len(turns) - i + 1], acc, budget)
  PROVE  next \in Carried /\ Affords(turns, budget, i, next)
<1>1. PICK turn \in Turn : turn = turns[Len(turns) - i + 1]
  <2>1. Len(turns) - i + 1 \in 1..Len(turns)
    OBVIOUS
  <2> QED
    BY <2>1
<1>2. PICK k \in Nat : k = Len(acc.kept)
  BY DEF Carried
<1>3. /\ k <= i - 1 /\ i <= Len(turns) /\ Len(turns) \in Nat /\ i \in Nat
      /\ acc.kept = Newest(turns, k)
      /\ acc.total = InputTokens(acc.kept) /\ acc.total <= budget
      /\ acc.full => k < Len(turns) /\ InputTokens(Newest(turns, k + 1)) > budget
      /\ ~acc.full => k = i - 1
  BY <1>2 DEF Affords
<1>4. /\ acc.full \in BOOLEAN /\ acc.total \in Nat /\ acc.kept \in Seq(Turn)
      /\ Cost(turn) \in Nat
  BY CostAssumption DEF Carried
<1>5. /\ next \in Carried
      /\ acc.full \/ acc.total + Cost(turn) > budget => Closes(acc, next)
      /\ ~(acc.full \/ acc.total + Cost(turn) > budget) => Takes(turn, acc, next)
  <2>1. next = KeepNext(turn, acc, budget)
    BY <1>1
  <2> QED
    BY <2>1, KeepNextType
<1>6. ASSUME ~acc.full
      PROVE  /\ k + 1 \in 0..Len(turns) /\ k = i - 1
             /\ Newest(turns, k + 1) = <<turn>> \o acc.kept
             /\ Len(Newest(turns, k + 1)) = k + 1
             /\ InputTokens(Newest(turns, k + 1)) = acc.total + Cost(turn)
  <2>1. k = i - 1 /\ k \in 0..Len(turns) /\ k + 1 \in 0..Len(turns) /\ k < Len(turns)
        /\ Len(turns) - k = Len(turns) - i + 1
    BY <1>3, <1>6
  <2>2. Newest(turns, k + 1) = <<turn>> \o acc.kept
    BY <1>1, <1>3, <2>1, NewestProperties
  <2>3. Len(Newest(turns, k + 1)) = k + 1
    BY <2>1, NewestProperties
  <2>4. InputTokens(<<turn>> \o acc.kept) = Cost(turn) + InputTokens(acc.kept)
    BY <1>4, TokensPrepend
  <2>5. PICK more, spent : more = <<turn>> \o acc.kept /\ spent = InputTokens(acc.kept)
    OBVIOUS
  <2>6. InputTokens(more) = Cost(turn) + spent /\ spent = acc.total
    BY <1>3, <2>4, <2>5
  <2>7. InputTokens(more) = acc.total + Cost(turn)
    BY <1>4, <2>6
  <2>8. InputTokens(Newest(turns, k + 1)) = acc.total + Cost(turn)
    BY <2>2, <2>5, <2>7
  <2> QED
    BY <2>1, <2>2, <2>3, <2>8
<1>7. CASE acc.full \/ acc.total + Cost(turn) > budget
  <2>1. k < Len(turns) /\ InputTokens(Newest(turns, k + 1)) > budget
    <3>1. CASE acc.full
      BY <1>3, <3>1
    <3>2. CASE ~acc.full
      BY <1>3, <1>6, <1>7, <3>2
    <3> QED
      BY <3>1, <3>2
  <2>2. next.full /\ next.total = acc.total /\ next.kept = acc.kept
    BY <1>5, <1>7 DEF Closes
  <2>3. Len(next.kept) = k /\ k <= i
    BY <1>2, <1>3, <2>2
  <2> QED
    BY <1>3, <1>5, <2>1, <2>2, <2>3 DEF Affords
<1>8. CASE ~(acc.full \/ acc.total + Cost(turn) > budget)
  <2>1. /\ next.full = FALSE /\ next.total = acc.total + Cost(turn)
        /\ next.kept = Newest(turns, k + 1)
        /\ Len(next.kept) = k + 1 /\ k + 1 = i
        /\ InputTokens(next.kept) = next.total
    <3>1. next.full = FALSE /\ next.total = acc.total + Cost(turn)
          /\ next.kept = <<turn>> \o acc.kept
      BY <1>5, <1>8 DEF Takes
    <3>2. next.kept = Newest(turns, k + 1)
      BY <1>6, <1>8, <3>1
    <3>3. k = i - 1 /\ Len(Newest(turns, k + 1)) = k + 1
          /\ InputTokens(Newest(turns, k + 1)) = acc.total + Cost(turn)
      BY <1>6, <1>8
    <3>4. k + 1 = i
      BY <1>3, <3>3
    <3> QED
      BY <3>1, <3>2, <3>3, <3>4
  <2>2. next.total <= budget
    BY <1>4, <1>8, <2>1
  <2> QED
    BY <1>3, <1>5, <2>1, <2>2 DEF Affords
<1> QED
  BY <1>7, <1>8

\* The loop carries it to its end.
LEMMA FittingAffords ==
  ASSUME NEW turns \in Seq(Turn), NEW budget \in Nat,
         NEW g \in [0..Len(turns) -> Carried], Fits(turns, budget, g)
  PROVE  \A i \in 0..Len(turns) : Affords(turns, budget, i, g[i])
<1> DEFINE P == {i \in 0..Len(turns) : Affords(turns, budget, i, g[i])}
<1>1. 0 \in P
  <2>1. g[0].full = FALSE /\ g[0].total = 0 /\ g[0].kept = << >> /\ Len(<< >>) = 0
    BY DEF Fits, KeptNothing
  <2>2. 0 \in 0..Len(turns) /\ Len(turns) \in Nat
    OBVIOUS
  <2>3. Len(Newest(turns, 0)) = 0 /\ Newest(turns, 0) \in Seq(Turn)
    BY <2>2, NewestProperties
  <2>4. Newest(turns, 0) = << >>
    BY <2>3
  <2>5. InputTokens(<< >>) = 0
    BY NoTokens
  <2> QED
    BY <2>1, <2>2, <2>4, <2>5 DEF Affords
<1>2. ASSUME NEW i \in 1..Len(turns), i - 1 \in P PROVE i \in P
  <2>1. i \in 0..Len(turns) /\ g[i - 1] \in Carried /\ i - 1 \in 0..Len(turns)
    BY <1>2
  <2>2. Affords(turns, budget, i - 1, g[i - 1])
    BY <1>2
  <2>3. g[i] = KeepNext(turns[Len(turns) - i + 1], g[i - 1], budget)
    BY DEF Fits
  <2> QED
    BY <2>1, <2>2, <2>3, KeepNextAffords
<1> HIDE DEF P
<1>3. \A i \in 0..Len(turns) : i \in P
  <2>1. PICK n \in Nat : n = Len(turns)
    OBVIOUS
  <2>2. \A i \in 1..n : i - 1 \in P => i \in P
    BY <1>2, <2>1
  <2>3. \A i \in 0..n : i \in P
    BY <1>1, <2>2, AllRounds
  <2> QED
    BY <2>1, <2>3
<1> QED
  BY <1>3 DEF P

\* A token budget buys the longest stretch of newest turns that it can.
LEMMA LongestStretch ==
  ASSUME NEW turns \in Seq(Turn), NEW budget \in Nat
  PROVE  LET kept == NewestFitting(turns, budget) IN
         /\ kept \in Seq(Turn) /\ Len(kept) \in 0..Len(turns)
         /\ kept = Newest(turns, Len(kept))
         /\ InputTokens(kept) <= budget
         /\ Len(kept) < Len(turns) => InputTokens(Newest(turns, Len(kept) + 1)) > budget
<1>1. PICK g \in [0..Len(turns) -> Carried] :
        NewestFitting(turns, budget) = g[Len(turns)].kept /\ Fits(turns, budget, g)
  BY FittingLoop
<1>2. Len(turns) \in Nat /\ Len(turns) \in 0..Len(turns)
  OBVIOUS
<1>3. PICK acc \in Carried : acc = g[Len(turns)]
  BY <1>1, <1>2
<1>4. Affords(turns, budget, Len(turns), acc)
  BY <1>1, <1>2, <1>3, FittingAffords
<1>5. acc.kept \in Seq(Turn) /\ Len(acc.kept) \in Nat
  BY DEF Carried
<1>6. NewestFitting(turns, budget) = acc.kept
  BY <1>1, <1>3
<1> QED
  BY <1>2, <1>4, <1>5, <1>6 DEF Affords

\* Recent turns of a log are turns.
LEMMA RecentType ==
  ASSUME NEW log \in Seq(Turn), NEW n \in Nat
  PROVE  Recent(log, n) \in Seq(Turn)
<1>1. CASE n < Len(log)
  <2>1. n \in 0..Len(log)
    BY <1>1
  <2>2. Newest(log, n) \in Seq(Turn)
    BY <2>1, NewestProperties
  <2> QED
    BY <1>1, <2>2 DEF Recent
<1>2. CASE ~(n < Len(log))
  BY <1>2 DEF Recent
<1> QED
  BY <1>1, <1>2

\* history reads a window of turns.
LEMMA SourceType ==
  ASSUME TypeOK, NEW enabled \in BOOLEAN, NEW roles
  PROVE  OfRoles(roles, HistorySource(enabled)) \in Seq(Turn)
<1>1. Larger(HistoryMaxTurns, MaxWorkingTurns) \in Nat
  BY HistoryAssumption, WorkingTurnsAssumption DEF Larger
<1>2. PICK log \in Seq(Turn) : log = IF enabled THEN episodic ELSE working
  BY DEF TypeOK
<1>3. HistorySource(enabled) \in Seq(Turn)
  BY <1>1, <1>2, RecentType DEF HistorySource, RecentDialogue
<1>4. PICK turns \in Seq(Turn) : turns = HistorySource(enabled)
  BY <1>3
<1>5. PICK g \in [0..Len(turns) -> Seq(Turn)] : OfRoles(roles, turns) = g[Len(turns)]
  BY OfRolesLoop
<1>6. Len(turns) \in 0..Len(turns)
  OBVIOUS
<1> QED
  BY <1>4, <1>5, <1>6

\* A limit has a mode and a whole number.
LEMMA LimitType ==
  ASSUME NEW limit \in Limits
  PROVE  limit.mode \in {"turns", "tokens"} /\ limit.budget \in Int
<1>1. PICK turns \in Arguments, tokens \in Arguments : limit = Truncation(turns, tokens)
  BY DEF Limits
<1>2. \A n \in Budgets : n \in Int
  BY HistoryAssumption
<1>3. ASSUME NEW arg \in Arguments, arg # {}
      PROVE  (CHOOSE n \in arg : TRUE) \in Int
  <2>1. PICK n \in Budgets : arg = {n}
    BY <1>3 DEF Arguments
  <2>2. (CHOOSE m \in arg : TRUE) = n
    BY <2>1
  <2> QED
    BY <1>2, <2>1, <2>2
<1>4. CASE tokens # {}
  BY <1>1, <1>3, <1>4 DEF Truncation
<1>5. CASE tokens = {} /\ turns # {}
  BY <1>1, <1>3, <1>5 DEF Truncation
<1>6. CASE tokens = {} /\ turns = {}
  <2>1. limit = ConfigBudget
    BY <1>1, <1>6 DEF Truncation
  <2> QED
    BY <2>1, HistoryAssumption
<1> QED
  BY <1>4, <1>5, <1>6

\* What a token budget buys, wherever the logs are.
LEMMA TokenHistoryIsLongest ==
  ASSUME TypeOK PROVE HistoryIsLongestAffordable
<1> SUFFICES ASSUME NEW enabled \in BOOLEAN, NEW roles \in RoleSets,
                    NEW limit \in TokenLimits
             PROVE  LET from == OfRoles(roles, HistorySource(enabled))
                        kept == History(enabled, roles, limit)
                    IN /\ kept = Newest(from, Len(kept))
                       /\ InputTokens(kept) <= limit.budget
                       /\ Len(kept) < Len(from) =>
                            InputTokens(Newest(from, Len(kept) + 1)) > limit.budget
  BY DEF HistoryIsLongestAffordable
<1>1. PICK from \in Seq(Turn) : from = OfRoles(roles, HistorySource(enabled))
  BY SourceType
<1>2. limit.mode = "tokens" /\ limit.budget > 0 /\ limit.budget \in Nat
  BY LimitType DEF TokenLimits
<1>3. PICK budget \in Nat : budget = limit.budget
  BY <1>2
<1>4. History(enabled, roles, limit) = NewestFitting(from, budget)
  BY <1>1, <1>2, <1>3 DEF History, Truncated
<1> QED
  BY <1>1, <1>3, <1>4, LongestStretch

(***************************************************************************)
(* A log that ends with another.                                           *)
(***************************************************************************)
Ends(s, t) ==
  Len(s) <= Len(t) /\ \A i \in 1..Len(s) : s[i] = t[Len(t) - Len(s) + i]

\* It is IsSuffix of the community modules.
LEMMA EndsIsSuffix ==
  ASSUME NEW s \in Seq(Turn), NEW t \in Seq(Turn), Ends(s, t)
  PROVE  IsSuffix(s, t)
<1> DEFINE m == Len(s)
           n == Len(t)
           rs == Reverse(s)
           rt == Reverse(t)
<1>1. m \in Nat /\ n \in Nat /\ m <= n
  BY DEF Ends
<1>2. \A i \in 1..m : s[i] = t[n - m + i]
  BY DEF Ends
<1>3. rs \in Seq(Turn) /\ Len(rs) = m /\ \A i \in 1..m : rs[i] = s[m - i + 1]
  <2>1. \A i \in 1..Len(s) : s[Len(s) - i + 1] \in Turn
    OBVIOUS
  <2> QED
    BY <2>1 DEF Reverse
<1>4. rt \in Seq(Turn) /\ Len(rt) = n /\ \A i \in 1..n : rt[i] = t[n - i + 1]
  <2>1. \A i \in 1..Len(t) : t[Len(t) - i + 1] \in Turn
    OBVIOUS
  <2> QED
    BY <2>1 DEF Reverse
<1> HIDE DEF m, n, rs, rt
<1>5. \A i \in 1..m : rs[i] = rt[i]
  <2>1. TAKE i \in 1..m
  <2>2. m - i + 1 \in 1..m /\ i \in 1..n /\ n - m + (m - i + 1) = n - i + 1
    BY <1>1
  <2>3. PICK j \in 1..m : j = m - i + 1 /\ n - m + j = n - i + 1
    BY <2>2
  <2>4. rs[i] = s[j]
    BY <1>3, <2>3
  <2>5. s[j] = t[n - i + 1]
    BY <1>2, <2>3
  <2>6. rt[i] = t[n - i + 1]
    BY <1>4, <2>2
  <2> QED
    BY <2>4, <2>5, <2>6
<1>6. \A i \in 1..m : rs[i] \in Turn /\ rt[i] \in Turn
  BY <1>1, <1>3, <1>4
<1>7. /\ SubSeq(rs, 1, m) \in Seq(Turn) /\ SubSeq(rt, 1, m) \in Seq(Turn)
      /\ Len(SubSeq(rs, 1, m)) = m /\ Len(SubSeq(rt, 1, m)) = m
      /\ \A i \in 1..m : SubSeq(rs, 1, m)[i] = rs[i]
      /\ \A i \in 1..m : SubSeq(rt, 1, m)[i] = rt[i]
  <2>1. /\ 1 \in Int /\ m \in Int /\ m - 1 + 1 = m
        /\ (IF 1 <= m THEN m - 1 + 1 ELSE 0) = m
        /\ \A i \in 1..m : 1 + i - 1 = i
    BY <1>1
  <2>2. ASSUME NEW u, \A i \in 1..m : u[i] \in Turn
        PROVE  /\ SubSeq(u, 1, m) \in Seq(Turn)
               /\ Len(SubSeq(u, 1, m)) = m
               /\ \A i \in 1..m : SubSeq(u, 1, m)[i] = u[i]
    <3>1. /\ SubSeq(u, 1, m) \in Seq(Turn)
          /\ Len(SubSeq(u, 1, m)) = IF 1 <= m THEN m - 1 + 1 ELSE 0
          /\ \A i \in 1..(m - 1 + 1) : SubSeq(u, 1, m)[i] = u[1 + i - 1]
      BY <2>1, <2>2, SubSeqProperties
    <3> QED
      BY <2>1, <3>1
  <2> QED
    BY <1>6, <2>2
<1>8. SubSeq(rs, 1, m) = SubSeq(rt, 1, m)
  <2>1. PICK a \in Seq(Turn), b \in Seq(Turn) :
          a = SubSeq(rs, 1, m) /\ b = SubSeq(rt, 1, m)
    BY <1>7
  <2>2. Len(a) = Len(b) /\ \A i \in 1..Len(a) : a[i] = b[i]
    BY <1>5, <1>7, <2>1
  <2>3. a = b
    BY <2>2, SeqEqual
  <2> QED
    BY <2>1, <2>3
<1> QED
  BY <1>1, <1>3, <1>4, <1>8 DEF IsSuffix, IsPrefix, rs, rt, m

\* What ends a log are its newest turns.
LEMMA EndsNewest ==
  ASSUME NEW s \in Seq(Turn), NEW t \in Seq(Turn)
  PROVE  /\ Ends(s, t) => s = Newest(t, Len(s)) /\ Len(s) \in 0..Len(t)
         /\ \A k \in 0..Len(t) : Ends(Newest(t, k), t)
<1>1. ASSUME Ends(s, t) PROVE s = Newest(t, Len(s)) /\ Len(s) \in 0..Len(t)
  <2>1. Len(s) \in 0..Len(t)
    BY <1>1 DEF Ends
  <2>2. PICK u \in Seq(Turn) : u = Newest(t, Len(s))
    BY <2>1, NewestProperties
  <2>3. Len(u) = Len(s) /\ \A i \in 1..Len(s) : u[i] = t[Len(t) - Len(s) + i]
    BY <2>1, <2>2, NewestProperties
  <2>4. \A i \in 1..Len(s) : u[i] = s[i]
    BY <1>1, <2>3 DEF Ends
  <2>5. s = u
    BY <2>3, <2>4, SeqEqual
  <2> QED
    BY <2>1, <2>2, <2>5
<1>2. ASSUME NEW k \in 0..Len(t) PROVE Ends(Newest(t, k), t)
  <2>1. /\ Len(Newest(t, k)) = k
        /\ \A i \in 1..k : Newest(t, k)[i] = t[Len(t) - k + i]
    BY NewestProperties
  <2> QED
    BY <2>1 DEF Ends
<1> QED
  BY <1>1, <1>2

\* The end of the end.
LEMMA EndsTransitive ==
  ASSUME NEW s \in Seq(Turn), NEW t \in Seq(Turn), NEW u \in Seq(Turn),
         Ends(s, t), Ends(t, u)
  PROVE  Ends(s, u)
<1>1. Len(s) <= Len(t) /\ Len(t) <= Len(u)
      /\ Len(s) \in Nat /\ Len(t) \in Nat /\ Len(u) \in Nat
  BY DEF Ends
<1>2. ASSUME NEW i \in 1..Len(s) PROVE s[i] = u[Len(u) - Len(s) + i]
  <2>1. PICK j \in 1..Len(t) : j = Len(t) - Len(s) + i
    <3>1. Len(t) - Len(s) + i \in 1..Len(t)
      BY <1>1
    <3> QED
      BY <3>1
  <2>2. s[i] = t[j] /\ t[j] = u[Len(u) - Len(t) + j]
    BY <2>1 DEF Ends
  <2>3. Len(u) - Len(t) + j = Len(u) - Len(s) + i
    BY <1>1, <2>1
  <2> QED
    BY <2>2, <2>3
<1> QED
  BY <1>1, <1>2 DEF Ends

\* Both have the same newest turns, as many as the shorter has.
LEMMA EndsSameNewest ==
  ASSUME NEW s \in Seq(Turn), NEW t \in Seq(Turn), Ends(s, t),
         NEW k \in 0..Len(s)
  PROVE  Newest(s, k) = Newest(t, k) /\ k \in 0..Len(t)
<1>1. k \in 0..Len(t)
  BY DEF Ends
<1>2. PICK a \in Seq(Turn), b \in Seq(Turn) : a = Newest(s, k) /\ b = Newest(t, k)
  BY <1>1, NewestProperties
<1>3. Ends(a, s) /\ Len(a) = k /\ Len(b) = k
  BY <1>1, <1>2, EndsNewest, NewestProperties
<1>4. Ends(a, t)
  BY <1>3, EndsTransitive
<1>5. a = Newest(t, Len(a))
  BY <1>4, EndsNewest
<1> QED
  BY <1>1, <1>2, <1>3, <1>5

\* The fewer newest turns end the more.
LEMMA NewestEnds ==
  ASSUME NEW t \in Seq(Turn), NEW j \in 0..Len(t), NEW k \in 0..Len(t), j <= k
  PROVE  Ends(Newest(t, j), Newest(t, k))
<1>1. PICK a \in Seq(Turn), b \in Seq(Turn) : a = Newest(t, j) /\ b = Newest(t, k)
  BY NewestProperties
<1>2. /\ Len(a) = j /\ \A i \in 1..j : a[i] = t[Len(t) - j + i]
      /\ Len(b) = k /\ \A i \in 1..k : b[i] = t[Len(t) - k + i]
  BY <1>1, NewestProperties
<1>3. ASSUME NEW i \in 1..j PROVE a[i] = b[k - j + i]
  <2>1. k - j + i \in 1..k /\ Len(t) - k + (k - j + i) = Len(t) - j + i
    OBVIOUS
  <2> QED
    BY <1>2, <2>1
<1> QED
  BY <1>1, <1>2, <1>3 DEF Ends

\* The recent n turns are the newest n, or all.
LEMMA RecentIsNewest ==
  ASSUME NEW log \in Seq(Turn), NEW n \in Nat
  PROVE  LET k == IF n < Len(log) THEN n ELSE Len(log) IN
         k \in 0..Len(log) /\ Recent(log, n) = Newest(log, k)
<1>1. CASE n < Len(log)
  BY <1>1 DEF Recent
<1>2. CASE ~(n < Len(log))
  <2>1. Ends(log, log)
    <3>1. Len(log) \in Nat /\ \A i \in 1..Len(log) : Len(log) - Len(log) + i = i
      OBVIOUS
    <3> QED
      BY <3>1 DEF Ends
  <2>2. log = Newest(log, Len(log))
    BY <2>1, EndsNewest
  <2>3. Recent(log, n) = log
    BY <1>2 DEF Recent
  <2>4. Len(log) \in 0..Len(log)
    OBVIOUS
  <2> QED
    BY <1>2, <2>2, <2>3, <2>4
<1> QED
  BY <1>1, <1>2

\* Of two logs of which one ends the other, the recent turns do too, and are
\* the same if there are as many in the shorter.
LEMMA RecentEnds ==
  ASSUME NEW s \in Seq(Turn), NEW t \in Seq(Turn), Ends(s, t), NEW n \in Nat
  PROVE  /\ Ends(Recent(s, n), Recent(t, n))
         /\ n <= Len(s) => Recent(s, n) = Recent(t, n)
         /\ Len(Recent(s, n)) < Len(s) => n <= Len(s)
<1> DEFINE j == IF n < Len(s) THEN n ELSE Len(s)
           k == IF n < Len(t) THEN n ELSE Len(t)
<1>1. /\ Len(s) <= Len(t) /\ Len(s) \in Nat /\ Len(t) \in Nat
      /\ j \in Nat /\ k \in Nat /\ j <= Len(s) /\ k <= Len(t) /\ j <= k
      /\ (n <= Len(s) => j = k) /\ (j < Len(s) => n <= Len(s))
  BY DEF Ends
<1> HIDE DEF j, k
<1>2. j \in 0..Len(s) /\ k \in 0..Len(t) /\ j \in 0..Len(t)
  BY <1>1
<1>3. Recent(s, n) = Newest(s, j) /\ Recent(t, n) = Newest(t, k)
  BY RecentIsNewest DEF j, k
<1>4. Newest(s, j) = Newest(t, j)
  BY <1>2, EndsSameNewest
<1>5. Ends(Newest(t, j), Newest(t, k))
  BY <1>1, <1>2, NewestEnds
<1>6. Len(Newest(s, j)) = j
  BY <1>2, NewestProperties
<1> QED
  BY <1>1, <1>3, <1>4, <1>5, <1>6

\* What is appended to the end is appended to the whole.
LEMMA AppendAfter ==
  ASSUME NEW a \in Seq(Turn), NEW b \in Seq(Turn), NEW x \in Turn
  PROVE  Append(a \o b, x) = a \o Append(b, x)
OBVIOUS

\* What is chosen from the end is the end of what is chosen.
LEMMA OfRolesEnds ==
  ASSUME NEW s \in Seq(Turn), NEW t \in Seq(Turn), Ends(s, t), NEW roles
  PROVE  /\ OfRoles(roles, s) \in Seq(Turn) /\ OfRoles(roles, t) \in Seq(Turn)
         /\ Ends(OfRoles(roles, s), OfRoles(roles, t))
<1>1. PICK g \in [0..Len(s) -> Seq(Turn)] :
        OfRoles(roles, s) = g[Len(s)] /\ Chooses(roles, s, g)
  BY OfRolesLoop
<1>2. PICK f \in [0..Len(t) -> Seq(Turn)] :
        OfRoles(roles, t) = f[Len(t)] /\ Chooses(roles, t, f)
  BY OfRolesLoop
<1>3. PICK n \in Nat, d \in Nat : n = Len(s) /\ Len(t) = d + n
  <2>1. Len(s) \in Nat /\ Len(t) \in Nat /\ Len(s) <= Len(t)
    BY DEF Ends
  <2>2. Len(t) - Len(s) \in Nat /\ Len(t) = (Len(t) - Len(s)) + Len(s)
    BY <2>1
  <2> QED
    BY <2>1, <2>2
<1>4. PICK head \in Seq(Turn) : head = f[d]
  <2>1. d \in 0..Len(t)
    BY <1>3
  <2> QED
    BY <2>1
<1>5. \A i \in 1..n : s[i] = t[d + i] /\ s[i] \in Turn /\ i \in 1..Len(s)
  BY <1>3 DEF Ends
<1>6. \A i \in 0..n : i \in 0..Len(s) /\ g[i] \in Seq(Turn)
  BY <1>3
<1> DEFINE P == {i \in 0..n : f[d + i] = head \o g[i]}
<1>7. 0 \in P
  <2>1. g[0] = << >> /\ d + 0 = d
    BY <1>1, <1>3 DEF Chooses
  <2>2. head \o << >> = head
    BY ConcatEmptySeq
  <2>3. f[d + 0] = head /\ head \o g[0] = head
    BY <1>4, <2>1, <2>2
  <2>4. 0 \in 0..n
    OBVIOUS
  <2> QED
    BY <2>3, <2>4
<1>8. ASSUME NEW i \in 1..n, i - 1 \in P PROVE i \in P
  <2>1. PICK a \in Seq(Turn), x \in Turn : a = g[i - 1] /\ x = s[i]
    <3>1. i - 1 \in 0..n
      OBVIOUS
    <3> QED
      BY <1>5, <1>6, <3>1
  <2>2. f[d + (i - 1)] = head \o a
    BY <1>8, <2>1
  <2>3. PICK m \in 1..Len(t) : m = d + i /\ m - 1 = d + (i - 1)
    <3>1. d + i \in 1..Len(t) /\ (d + i) - 1 = d + (i - 1)
      BY <1>3
    <3> QED
      BY <3>1
  <2>4. f[m] = IF t[m].role \in roles THEN Append(f[m - 1], t[m]) ELSE f[m - 1]
    BY <1>2 DEF Chooses
  <2>5. f[m] = IF x.role \in roles THEN Append(head \o a, x) ELSE head \o a
    BY <1>5, <2>1, <2>2, <2>3, <2>4
  <2>6. g[i] = IF x.role \in roles THEN Append(a, x) ELSE a
    BY <1>1, <1>5, <2>1 DEF Chooses
  <2>7. Append(head \o a, x) = head \o Append(a, x)
    BY AppendAfter
  <2>8. f[m] = head \o g[i]
    <3>1. CASE x.role \in roles
      BY <2>5, <2>6, <2>7, <3>1
    <3>2. CASE x.role \notin roles
      BY <2>5, <2>6, <3>2
    <3> QED
      BY <3>1, <3>2
  <2> QED
    BY <2>3, <2>8
<1> HIDE DEF P
<1>9. \A i \in 0..n : i \in P
  BY <1>7, <1>8, AllRounds
<1>10. f[d + n] = head \o g[n]
  BY <1>3, <1>9 DEF P
<1>11. PICK a \in Seq(Turn), b \in Seq(Turn) :
         a = OfRoles(roles, s) /\ b = OfRoles(roles, t) /\ b = head \o a
  <2>1. n \in 0..Len(s) /\ d + n \in 0..Len(t)
    BY <1>3
  <2> QED
    BY <1>1, <1>2, <1>3, <1>10, <2>1
<1>12. Ends(a, b)
  <2>1. /\ Len(b) = Len(head) + Len(a)
        /\ \A i \in 1..(Len(head) + Len(a)) :
             b[i] = IF i <= Len(head) THEN head[i] ELSE a[i - Len(head)]
        /\ Len(head) \in Nat /\ Len(a) \in Nat
    BY <1>11, ConcatProperties
  <2>2. ASSUME NEW i \in 1..Len(a) PROVE a[i] = b[Len(b) - Len(a) + i]
    <3>1. /\ Len(b) - Len(a) + i = Len(head) + i
          /\ Len(head) + i \in 1..(Len(head) + Len(a))
          /\ ~(Len(head) + i <= Len(head)) /\ (Len(head) + i) - Len(head) = i
      BY <2>1
    <3> QED
      BY <2>1, <3>1
  <2> QED
    BY <2>1, <2>2 DEF Ends
<1> QED
  BY <1>11, <1>12

\* A loop that is full stays as it is, and what is kept does not shrink.
Stays(acc, next) ==
  /\ acc.full => next.full /\ next.kept = acc.kept
  /\ Len(acc.kept) <= Len(next.kept)

\* So from any round to the last.
LEMMA FittingStays ==
  ASSUME NEW turns \in Seq(Turn), NEW budget \in Nat,
         NEW g \in [0..Len(turns) -> Carried], Fits(turns, budget, g),
         NEW i \in 0..Len(turns)
  PROVE  Stays(g[i], g[Len(turns)])
<1>0. PICK n \in Nat : i + n = Len(turns)
  <2>1. Len(turns) - i \in Nat /\ i + (Len(turns) - i) = Len(turns)
    OBVIOUS
  <2> QED
    BY <2>1
<1> DEFINE P == {m \in 0..n : Stays(g[i], g[i + m])}
<1>1. \A acc \in Carried : Len(acc.kept) \in Nat /\ acc.kept \in Seq(Turn)
  BY DEF Carried
<1>2. g[i] \in Carried /\ i \in Nat /\ Len(turns) \in Nat
  OBVIOUS
<1>3. 0 \in P
  <2>1. i + 0 = i /\ Len(g[i].kept) \in Nat
    BY <1>1, <1>2
  <2>2. Stays(g[i], g[i + 0]) /\ 0 \in 0..n
    BY <2>1 DEF Stays
  <2> QED
    BY <2>2
<1>4. ASSUME NEW m \in 1..n, m - 1 \in P PROVE m \in P
  <2>1. PICK j \in 1..Len(turns) : j = i + m /\ j - 1 = i + (m - 1)
    <3>1. i + m \in 1..Len(turns) /\ (i + m) - 1 = i + (m - 1)
      BY <1>0, <1>2
    <3> QED
      BY <3>1
  <2>2. PICK acc \in Carried, next \in Carried : acc = g[j - 1] /\ next = g[j]
    <3>1. j - 1 \in 0..Len(turns) /\ j \in 0..Len(turns)
      OBVIOUS
    <3> QED
      BY <3>1
  <2>3. PICK turn \in Turn : turn = turns[Len(turns) - j + 1]
    <3>1. Len(turns) - j + 1 \in 1..Len(turns)
      OBVIOUS
    <3> QED
      BY <3>1
  <2>4. next = KeepNext(turn, acc, budget)
    BY <2>2, <2>3 DEF Fits
  <2>5. Closes(acc, next) \/ (~acc.full /\ Takes(turn, acc, next))
    BY <2>4, KeepNextType
  <2>6. Stays(acc, next)
    <3>1. CASE Closes(acc, next)
      BY <1>1, <3>1 DEF Closes, Stays
    <3>2. CASE ~acc.full /\ Takes(turn, acc, next)
      <4>1. PICK one \in Seq(Turn) : one = <<turn>> /\ Len(one) = 1
        <5>1. <<turn>> \in Seq(Turn) /\ Len(<<turn>>) = 1
          OBVIOUS
        <5> QED
          BY <5>1
      <4>2. Len(one \o acc.kept) = Len(one) + Len(acc.kept)
        BY <1>1, ConcatProperties
      <4>3. Len(next.kept) = 1 + Len(acc.kept)
        BY <3>2, <4>1, <4>2 DEF Takes
      <4> QED
        BY <1>1, <3>2, <4>3 DEF Stays
    <3> QED
      BY <2>5, <3>1, <3>2
  <2>7. Stays(g[i], acc)
    BY <1>4, <2>1, <2>2
  <2>8. Stays(g[i], next)
    BY <1>1, <1>2, <2>2, <2>6, <2>7 DEF Stays
  <2> QED
    BY <2>1, <2>2, <2>8
<1> HIDE DEF P
<1>5. \A m \in 0..n : m \in P
  BY <1>3, <1>4, AllRounds
<1>6. n \in 0..n
  OBVIOUS
<1> QED
  BY <1>0, <1>5, <1>6 DEF P

\* What a budget buys of the end of a log ends what it buys of the log, and is
\* the same if it did not buy the whole end.
LEMMA FittingEnds ==
  ASSUME NEW s \in Seq(Turn), NEW t \in Seq(Turn), Ends(s, t), NEW budget \in Nat
  PROVE  LET kept == NewestFitting(s, budget)
             more == NewestFitting(t, budget)
         IN Ends(kept, more) /\ (Len(kept) < Len(s) => kept = more)
<1>1. PICK f \in [0..Len(s) -> Carried] :
        NewestFitting(s, budget) = f[Len(s)].kept /\ Fits(s, budget, f)
  BY FittingLoop
<1>2. PICK g \in [0..Len(t) -> Carried] :
        NewestFitting(t, budget) = g[Len(t)].kept /\ Fits(t, budget, g)
  BY FittingLoop
<1>3. PICK n \in Nat, d \in Nat : n = Len(s) /\ n + d = Len(t)
  <2>1. Len(s) \in Nat /\ Len(t) \in Nat /\ Len(s) <= Len(t)
    BY DEF Ends
  <2>2. Len(t) - Len(s) \in Nat /\ Len(t) = Len(s) + (Len(t) - Len(s))
    BY <2>1
  <2> QED
    BY <2>1, <2>2
<1> DEFINE P == {i \in 0..n : g[i] = f[i]}
<1>4. 0 \in P
  BY <1>1, <1>2 DEF Fits
<1>5. ASSUME NEW i \in 1..n, i - 1 \in P PROVE i \in P
  <2>1. /\ i \in 1..Len(s) /\ i \in 1..Len(t) /\ Len(s) - i + 1 \in 1..Len(s)
        /\ Len(t) - Len(s) + (Len(s) - i + 1) = Len(t) - i + 1
    BY <1>3
  <2>2. s[Len(s) - i + 1] = t[Len(t) - i + 1]
    <3>1. PICK j \in 1..Len(s) : j = Len(s) - i + 1
      BY <2>1
    <3>2. s[j] = t[Len(t) - Len(s) + j]
      BY DEF Ends
    <3> QED
      BY <2>1, <3>1, <3>2
  <2>3. /\ f[i] = KeepNext(s[Len(s) - i + 1], f[i - 1], budget)
        /\ g[i] = KeepNext(t[Len(t) - i + 1], g[i - 1], budget)
    BY <1>1, <1>2, <2>1 DEF Fits
  <2>4. g[i - 1] = f[i - 1]
    BY <1>5
  <2> QED
    BY <2>2, <2>3, <2>4
<1> HIDE DEF P
<1>6. \A i \in 0..n : i \in P
  BY <1>4, <1>5, AllRounds
<1>7. PICK acc \in Carried : acc = f[n] /\ acc = g[n]
  <2>1. n \in 0..n /\ n \in 0..Len(s)
    BY <1>3
  <2> QED
    BY <1>6, <2>1 DEF P
<1>8. PICK last \in Carried : last = g[n + d]
  <2>1. n + d \in 0..Len(t)
    BY <1>3
  <2> QED
    BY <2>1
<1>9. /\ acc.full => last.full /\ last.kept = acc.kept
      /\ Len(acc.kept) <= Len(last.kept)
  <2>1. n \in 0..Len(t)
    BY <1>3
  <2>2. Stays(g[n], g[Len(t)])
    BY <1>2, <2>1, FittingStays
  <2> QED
    BY <1>3, <1>7, <1>8, <2>2 DEF Stays
<1>10. /\ Affords(s, budget, n, acc)
       /\ Affords(t, budget, n, acc)
       /\ Affords(t, budget, n + d, last)
  <2>1. n \in 0..Len(s) /\ n \in 0..Len(t) /\ n + d \in 0..Len(t)
    BY <1>3
  <2>2. Affords(s, budget, n, f[n])
    BY <1>1, <2>1, FittingAffords
  <2>3. Affords(t, budget, n, g[n]) /\ Affords(t, budget, n + d, g[n + d])
    BY <1>2, <2>1, FittingAffords
  <2> QED
    BY <1>7, <1>8, <2>2, <2>3
<1>11. PICK j \in 0..Len(t), k \in 0..Len(t) :
         /\ j = Len(acc.kept) /\ k = Len(last.kept) /\ j <= k
         /\ acc.kept = Newest(t, j) /\ last.kept = Newest(t, k)
  <2>1. Len(acc.kept) \in Nat /\ Len(last.kept) \in Nat
    BY DEF Carried
  <2>2. /\ Len(acc.kept) <= n /\ acc.kept = Newest(t, Len(acc.kept))
        /\ Len(last.kept) <= n + d /\ last.kept = Newest(t, Len(last.kept))
    BY <1>10 DEF Affords
  <2>3. Len(acc.kept) \in 0..Len(t) /\ Len(last.kept) \in 0..Len(t)
    BY <1>3, <2>1, <2>2
  <2> QED
    BY <1>9, <2>2, <2>3
<1>12. Ends(acc.kept, last.kept)
  BY <1>11, NewestEnds
<1>13. Len(acc.kept) < Len(s) => acc.full
  BY <1>3, <1>10 DEF Affords
<1>14. NewestFitting(s, budget) = acc.kept /\ NewestFitting(t, budget) = last.kept
  BY <1>1, <1>2, <1>3, <1>7, <1>8
<1> QED
  BY <1>9, <1>12, <1>13, <1>14

\* So it is for every limit.
LEMMA TruncatedEnds ==
  ASSUME NEW s \in Seq(Turn), NEW t \in Seq(Turn), Ends(s, t), NEW limit \in Limits
  PROVE  /\ Truncated(s, limit) \in Seq(Turn) /\ Truncated(t, limit) \in Seq(Turn)
         /\ Ends(Truncated(s, limit), Truncated(t, limit))
         /\ Len(Truncated(s, limit)) < Len(s) =>
              Truncated(s, limit) = Truncated(t, limit)
<1>1. limit.mode \in {"turns", "tokens"} /\ limit.budget \in Int
  BY LimitType
<1>2. CASE limit.budget <= 0
  <2>1. Truncated(s, limit) = << >> /\ Truncated(t, limit) = << >>
    BY <1>1, <1>2 DEF Truncated
  <2>2. PICK none : none = << >>
    OBVIOUS
  <2>3. none \in Seq(Turn) /\ Len(none) = 0
    BY <2>2
  <2>4. Ends(none, none)
    BY <2>3 DEF Ends
  <2> QED
    BY <2>1, <2>2, <2>3, <2>4
<1>3. CASE limit.budget > 0 /\ limit.mode = "turns"
  <2>1. PICK n \in Nat : n = limit.budget
    BY <1>1, <1>3
  <2>2. Truncated(s, limit) = Recent(s, n) /\ Truncated(t, limit) = Recent(t, n)
    BY <1>1, <1>3, <2>1 DEF Truncated
  <2>3. Recent(s, n) \in Seq(Turn) /\ Recent(t, n) \in Seq(Turn)
    BY RecentType
  <2> QED
    BY <2>2, <2>3, RecentEnds
<1>4. CASE limit.budget > 0 /\ limit.mode = "tokens"
  <2>1. PICK n \in Nat : n = limit.budget
    BY <1>1, <1>4
  <2>2. Truncated(s, limit) = NewestFitting(s, n) /\ Truncated(t, limit) = NewestFitting(t, n)
    BY <1>1, <1>4, <2>1 DEF Truncated
  <2>3. NewestFitting(s, n) \in Seq(Turn) /\ NewestFitting(t, n) \in Seq(Turn)
    BY LongestStretch
  <2> QED
    BY <2>2, <2>3, FittingEnds
<1> QED
  BY <1>1, <1>2, <1>3, <1>4

\* If the log ends with the buffer, both sources give the same history, as far
\* as the buffer reaches.
LEMMA AgreeingSources ==
  ASSUME TypeOK, Ends(working, episodic)
  PROVE  SourcesAgree
<1>1. working \in Seq(Turn) /\ episodic \in Seq(Turn) /\ Len(working) <= MaxWorkingTurns
  BY DEF TypeOK
<1>2. PICK w \in Nat : w = Larger(HistoryMaxTurns, MaxWorkingTurns) /\ MaxWorkingTurns <= w
  <2>1. /\ Larger(HistoryMaxTurns, MaxWorkingTurns) \in Nat
        /\ MaxWorkingTurns <= Larger(HistoryMaxTurns, MaxWorkingTurns)
    BY HistoryAssumption, WorkingTurnsAssumption DEF Larger
  <2> QED
    BY <2>1
<1>3. ASSUME NEW n \in 1..Len(working)
      PROVE  RecentDialogue(FALSE, n) = RecentDialogue(TRUE, n)
  <2>1. n \in Nat /\ n <= Len(working)
    BY <1>1
  <2>2. Recent(working, n) = Recent(episodic, n)
    BY <1>1, <2>1, RecentEnds
  <2> QED
    BY <2>2 DEF RecentDialogue
<1>4. Recent(working, w) = working
  <2>1. ~(w < Len(working))
    BY <1>1, <1>2, WorkingTurnsAssumption
  <2> QED
    BY <2>1 DEF Recent
<1>5. PICK long \in Seq(Turn) : long = Recent(episodic, w)
  BY <1>1, RecentType
<1>6. Ends(working, long)
  BY <1>1, <1>4, <1>5, RecentEnds
<1>7. HistorySource(FALSE) = working /\ HistorySource(TRUE) = long
  BY <1>2, <1>4, <1>5 DEF HistorySource, RecentDialogue
<1>8. ASSUME NEW roles \in RoleSets, NEW limit \in Limits
      PROVE  LET fallback == History(FALSE, roles, limit)
                 durable == History(TRUE, roles, limit)
             IN /\ IsSuffix(fallback, durable)
                /\ Len(fallback) < Len(OfRoles(roles, working)) => fallback = durable
  <2>1. PICK s \in Seq(Turn), t \in Seq(Turn) :
          s = OfRoles(roles, working) /\ t = OfRoles(roles, long) /\ Ends(s, t)
    BY <1>1, <1>6, OfRolesEnds
  <2>2. History(FALSE, roles, limit) = Truncated(s, limit)
        /\ History(TRUE, roles, limit) = Truncated(t, limit)
    BY <1>7, <2>1 DEF History
  <2>3. PICK fallback \in Seq(Turn), durable \in Seq(Turn) :
          /\ fallback = Truncated(s, limit) /\ durable = Truncated(t, limit)
          /\ Ends(fallback, durable)
          /\ Len(fallback) < Len(s) => fallback = durable
    BY <2>1, TruncatedEnds
  <2>4. IsSuffix(fallback, durable)
    BY <2>3, EndsIsSuffix
  <2> QED
    BY <2>1, <2>2, <2>3, <2>4
<1> QED
  BY <1>3, <1>8 DEF SourcesAgree

(***************************************************************************)
(* Where nothing overlapped and nothing failed: the buffer and the log.    *)
(***************************************************************************)
\* The two turns of an interaction.
UserTurn(i) == [of |-> i, role |-> "user"]
AssistantTurn(i) == [of |-> i, role |-> "assistant"]

\* What a pipeline at a stage has yet to log.
Rest(i, stage) ==
  CASE stage \in {"new", "made", "facts", "episodic"} -> <<UserTurn(i), AssistantTurn(i)>>
    [] stage = "assistant" -> <<AssistantTurn(i)>>
    [] stage \in {"procedural", "diary", "complete", "done"} -> << >>

Active(i) == Alive(i) \/ \E h \in Hosts : host[h].of = i

Buffering(i) == \E h \in Hosts : host[h].of = i /\ host[h].pc = "buffer"

\* What the buffer has of an interaction and the log has not.
Unlogged(i) == IF Buffering(i) THEN <<UserTurn(i)>> ELSE Rest(i, pipe[i])

\* What the log will be when the interaction is logged.
Story(i) == episodic \o Unlogged(i)

\* Where nothing overlapped and nothing failed, at most one interaction is under
\* way, and the buffer ends what the log will be.
SmoothInv ==
  smooth =>
    /\ \A i, j \in Interaction : Active(i) /\ Active(j) => i = j
    /\ \A i \in Interaction : Active(i) => Ends(working, Story(i))
    /\ (\A i \in Interaction : ~Active(i)) => Ends(working, episodic)

\* The two turns of an interaction are turns.
LEMMA TurnType ==
  ASSUME NEW i \in Interaction
  PROVE  \E u, a \in Turn : u = UserTurn(i) /\ a = AssistantTurn(i)
BY DEF UserTurn, AssistantTurn, Turn

\* So is what is left of an interaction.
LEMMA RestType ==
  ASSUME NEW i \in Interaction, NEW stage \in Stage
  PROVE  Rest(i, stage) \in Seq(Turn)
<1>2. PICK u \in Turn, a \in Turn : u = UserTurn(i) /\ a = AssistantTurn(i)
  BY TurnType
<1>3. <<u>> \in Seq(Turn) /\ <<a>> \in Seq(Turn) /\ <<u, a>> \in Seq(Turn)
      /\ << >> \in Seq(Turn)
  OBVIOUS
<1> QED
  BY <1>2, <1>3 DEF Rest, Stage, Running

\* Append adds the newest turn.
LEMMA OneMore ==
  ASSUME NEW log \in Seq(Turn), NEW turn \in Turn
  PROVE  \E more \in Seq(Turn) :
           /\ more = Append(log, turn)
           /\ Len(more) = Len(log) + 1 /\ more[Len(log) + 1] = turn
           /\ \A i \in 1..Len(log) : more[i] = log[i]
<1>1. /\ Append(log, turn) \in Seq(Turn)
      /\ Len(Append(log, turn)) = Len(log) + 1
      /\ Append(log, turn)[Len(log) + 1] = turn
      /\ \A i \in 1..Len(log) : Append(log, turn)[i] = log[i]
  BY AppendProperties
<1> QED
  BY <1>1, Zenon

\* Tail takes the oldest turn.
LEMMA OneLess ==
  ASSUME NEW log \in Seq(Turn), Len(log) > 0
  PROVE  \E less \in Seq(Turn) :
           /\ less = Tail(log) /\ Len(less) = Len(log) - 1
           /\ \A i \in 1..Len(less) : less[i] = log[i + 1]
<1>1. log # << >>
  OBVIOUS
<1>2. /\ Tail(log) \in Seq(Turn) /\ Len(Tail(log)) = Len(log) - 1
      /\ \A i \in 1..Len(Tail(log)) : Tail(log)[i] = log[i + 1]
  BY <1>1, HeadTailProperties
<1> QED
  BY <1>2

\* A turn that is pushed ends the log to which it is appended.
LEMMA PushEnds ==
  ASSUME NEW buffer \in Seq(Turn), NEW log \in Seq(Turn), NEW turn \in Turn,
         Ends(buffer, log)
  PROVE  Ends(Push(buffer, turn), Append(log, turn))
<1>1. PICK more \in Seq(Turn) :
        /\ more = Append(log, turn)
        /\ Len(more) = Len(log) + 1 /\ more[Len(log) + 1] = turn
        /\ \A i \in 1..Len(log) : more[i] = log[i]
  BY OneMore
<1>2. PICK whole \in Seq(Turn) :
        /\ whole = Append(buffer, turn)
        /\ Len(whole) = Len(buffer) + 1 /\ whole[Len(buffer) + 1] = turn
        /\ \A i \in 1..Len(buffer) : whole[i] = buffer[i]
  BY OneMore
<1>3. PICK k \in Nat, n \in Nat : k = Len(buffer) /\ n = Len(log) /\ k <= n
  BY DEF Ends
<1>4. Len(more) = n + 1 /\ Len(whole) = k + 1
  BY <1>1, <1>2, <1>3
<1>5. Ends(whole, more)
  <2>1. ASSUME NEW i \in 1..Len(whole)
        PROVE  whole[i] = more[Len(more) - Len(whole) + i]
    <3>1. CASE i = k + 1
      BY <1>1, <1>2, <1>3, <1>4, <3>1
    <3>2. CASE i # k + 1
      <4>1. /\ i \in 1..k /\ n - k + i \in 1..n
            /\ Len(more) - Len(whole) + i = n - k + i
        BY <1>3, <1>4, <3>2
      <4>2. buffer[i] = log[n - k + i]
        BY <1>3, <4>1 DEF Ends
      <4> QED
        BY <1>1, <1>2, <1>3, <4>1, <4>2
    <3> QED
      BY <3>1, <3>2
  <2>2. Len(whole) <= Len(more)
    BY <1>3, <1>4
  <2> QED
    BY <2>1, <2>2 DEF Ends
<1>6. CASE Len(buffer) = MaxWorkingTurns
  <2>1. Len(buffer) > 0 /\ k > 0
    BY <1>3, <1>6, WorkingTurnsAssumption
  <2>2. PICK less \in Seq(Turn) :
          /\ less = Tail(buffer) /\ Len(less) = Len(buffer) - 1
          /\ \A i \in 1..Len(less) : less[i] = buffer[i + 1]
    BY <2>1, OneLess
  <2>3. PICK rest \in Seq(Turn) :
          /\ rest = Append(less, turn)
          /\ Len(rest) = Len(less) + 1 /\ rest[Len(less) + 1] = turn
          /\ \A i \in 1..Len(less) : rest[i] = less[i]
    BY OneMore
  <2>4. Len(rest) = k /\ Len(less) = k - 1
    BY <1>3, <2>1, <2>2, <2>3
  <2>5. Ends(rest, whole)
    <3>1. ASSUME NEW i \in 1..Len(rest)
          PROVE  rest[i] = whole[Len(whole) - Len(rest) + i]
      <4>1. Len(whole) - Len(rest) + i = i + 1 /\ i \in 1..k
        BY <1>3, <1>4, <2>4
      <4>2. CASE i = k
        BY <1>2, <1>3, <2>3, <2>4, <4>1, <4>2
      <4>3. CASE i # k
        <5>1. i \in 1..(k - 1) /\ i + 1 \in 1..k
          BY <1>3, <4>1, <4>3
        <5>2. rest[i] = buffer[i + 1]
          BY <2>2, <2>3, <2>4, <5>1
        <5>3. whole[i + 1] = buffer[i + 1]
          BY <1>2, <1>3, <5>1
        <5> QED
          BY <4>1, <5>2, <5>3
      <4> QED
        BY <4>2, <4>3
    <3>2. Len(rest) <= Len(whole)
      BY <1>3, <1>4, <2>4
    <3> QED
      BY <3>1, <3>2 DEF Ends
  <2>6. Ends(rest, more)
    BY <1>5, <2>5, EndsTransitive
  <2> QED
    BY <1>1, <1>6, <2>2, <2>3, <2>6 DEF Push
<1>7. CASE Len(buffer) # MaxWorkingTurns
  BY <1>1, <1>2, <1>5, <1>7 DEF Push
<1> QED
  BY <1>6, <1>7

\* A turn moves from what is left into the log.
LEMMA LoggedInTurn ==
  ASSUME NEW log \in Seq(Turn), NEW u \in Turn, NEW a \in Turn
  PROVE  Append(log, u) \o <<a>> = log \o <<u, a>>
OBVIOUS

\* One turn more, as Append and as \o.
LEMMA OneConcatenated ==
  ASSUME NEW log \in Seq(Turn), NEW u \in Turn
  PROVE  log \o <<u>> = Append(log, u)
OBVIOUS

\* Two turns more.
LEMMA TwoAppended ==
  ASSUME NEW log \in Seq(Turn), NEW u \in Turn, NEW a \in Turn
  PROVE  log \o <<u, a>> = Append(Append(log, u), a)
OBVIOUS

\* The last one moves, and nothing is left.
LEMMA LoggedLast ==
  ASSUME NEW log \in Seq(Turn), NEW a \in Turn
  PROVE  Append(log, a) \o << >> = log \o <<a>>
OBVIOUS

\* A step that leaves the buffer, starts no interaction, and moves turns from
\* what is left into the log.
LEMMA StoriesStay ==
  ASSUME SmoothInv, smooth' => smooth, working' = working,
         \A j \in Interaction : Active(j)' => Active(j) /\ Story(j)' = Story(j),
         \A j \in Interaction : Active(j) /\ ~Active(j)' => Story(j) = episodic',
         (\A j \in Interaction : ~Active(j)) => episodic' = episodic
  PROVE  SmoothInv'
<1> SUFFICES ASSUME smooth' PROVE SmoothInv'
  BY DEF SmoothInv
<1>1. smooth
  OBVIOUS
<1>2. \A i, j \in Interaction : Active(i)' /\ Active(j)' => i = j
  BY <1>1 DEF SmoothInv
<1>3. ASSUME NEW i \in Interaction, Active(i)' PROVE Ends(working, Story(i))'
  <2>1. Ends(working, Story(i)) /\ Story(i)' = Story(i)
    BY <1>1, <1>3 DEF SmoothInv
  <2> QED
    BY <2>1 DEF Ends
<1>4. ASSUME \A i \in Interaction : ~Active(i)' PROVE Ends(working, episodic)'
  <2>1. Ends(working, episodic')
    <3>1. CASE \A i \in Interaction : ~Active(i)
      BY <1>1, <3>1 DEF SmoothInv
    <3>2. CASE \E i \in Interaction : Active(i)
      <4>1. PICK i \in Interaction : Active(i)
        BY <3>2
      <4>2. Ends(working, Story(i)) /\ Story(i) = episodic'
        BY <1>1, <1>4, <4>1 DEF SmoothInv
      <4> QED
        BY <4>2
    <3> QED
      BY <3>1, <3>2
  <2> QED
    BY <2>1 DEF Ends
<1> QED
  BY <1>2, <1>3, <1>4 DEF SmoothInv

\* With no interaction under way, smooth logs agree.
LEMMA QuietSmooth ==
  ASSUME Inv, SmoothInv, smooth, AllQuiet
  PROVE  Ends(working, episodic) /\ \A i \in Interaction : ~Active(i)
<1>1. ASSUME NEW i \in Interaction PROVE ~Active(i)
  <2>1. \A h \in Hosts : host[h].of = 0
    BY DEF AllQuiet, Idle, Inv, HostOk
  <2> QED
    BY <2>1, ZeroIsNone DEF AllQuiet, Active
<1> QED
  BY <1>1 DEF SmoothInv

\* An interaction whose pipeline runs is no host thread's.
LEMMA AliveIsNoHosts ==
  ASSUME Inv, NEW i \in Interaction, Alive(i)
  PROVE  \A h \in Hosts : host[h].of # i
<1> SUFFICES ASSUME NEW h \in Hosts, host[h].of = i PROVE FALSE
  OBVIOUS
<1>1. host[h].pc \in {"idle", "buffer", "make", "start", "join"} /\ HostOk(h)
  BY HostFields DEF Inv
<1>2. host[h].pc \in {"buffer", "make", "start"}
  BY <1>1, ZeroIsNone DEF HostOk
<1>3. pipe[i] \in {"new", "made"}
  BY <1>1, <1>2 DEF HostOk
<1> QED
  BY <1>3 DEF Alive, Running

\* No host thread buffers an interaction that has a pipeline.
LEMMA UnloggedIsRest ==
  ASSUME Inv, NEW i \in Interaction, \A h \in Hosts : host[h].of # i \/ host[h].pc # "buffer"
  PROVE  Unlogged(i) = Rest(i, pipe[i])
BY DEF Unlogged, Buffering

\* One stage of a pipeline that, if nothing failed, moves turns from what is
\* left of its interaction into the log.
LEMMA PipelineSmooth ==
  ASSUME Inv, SmoothInv, NEW i \in Interaction, Alive(i),
         NEW next \in Running \cup {"done"},
         pipe' = [pipe EXCEPT ![i] = next], UNCHANGED <<working, host>>,
         smooth' => /\ smooth
                    /\ episodic' \o Rest(i, next) = episodic \o Rest(i, pipe[i])
                    /\ next = "done" => episodic' = episodic \o Rest(i, pipe[i])
  PROVE  SmoothInv'
<1> SUFFICES ASSUME smooth' PROVE SmoothInv'
  BY DEF SmoothInv
<1>1. \A h \in Hosts : host[h].of # i
  BY AliveIsNoHosts
<1>2. /\ pipe'[i] = next
      /\ \A j \in Interaction \ {i} : pipe'[j] = pipe[j]
  BY DEF Inv, TypeOK, Stage
<1>3. Active(i) /\ \A j \in Interaction : Active(j) => j = i
  BY DEF Active, SmoothInv
<1>4. Story(i) = episodic \o Rest(i, pipe[i])
  BY <1>1, UnloggedIsRest DEF Story
<1>5. Story(i)' = episodic' \o Rest(i, next)
  BY <1>1, <1>2 DEF Story, Unlogged, Buffering, Rest, UserTurn, AssistantTurn
<1>6. ASSUME NEW j \in Interaction, Active(j)' PROVE j = i
  BY <1>2, <1>3, <1>6 DEF Active, Alive
<1>7. ~Active(i)' => next = "done"
  BY <1>2 DEF Active, Alive
<1> QED
  BY <1>3, <1>4, <1>5, <1>6, <1>7, StoriesStay

\* Every stage of a pipeline.
LEMMA PipelineStepSmooth ==
  ASSUME Inv, SmoothInv, NEW i \in Interaction, PipelineStep(i)
  PROVE  SmoothInv'
<1>1. /\ episodic \in Seq(Turn) /\ \A stage \in Stage : Rest(i, stage) \in Seq(Turn)
  BY RestType DEF Inv, TypeOK
<1>2. CASE WriteFacts(i)
  <2>1. Rest(i, "episodic") = Rest(i, "facts")
    BY DEF Rest
  <2> QED
    BY <1>2, <2>1, PipelineSmooth DEF WriteFacts, Alive, Running
<1>3. CASE FactsFail(i)
  BY <1>3 DEF FactsFail, SmoothInv
<1>4. CASE LogUser(i)
  <2>1. Append(episodic, UserTurn(i)) \o Rest(i, "assistant")
          = episodic \o Rest(i, "episodic")
    <3>1. PICK u \in Turn, a \in Turn : u = UserTurn(i) /\ a = AssistantTurn(i)
      BY TurnType
    <3>2. Append(episodic, u) \o <<a>> = episodic \o <<u, a>>
      BY <1>1, LoggedInTurn
    <3> QED
      BY <3>1, <3>2 DEF Rest
  <2> QED
    BY <1>4, <2>1, PipelineSmooth DEF LogUser, LogTurn, Alive, Running, UserTurn
<1>5. CASE LogAssistant(i)
  <2>1. Append(episodic, AssistantTurn(i)) \o Rest(i, "procedural")
          = episodic \o Rest(i, "assistant")
    <3>1. PICK a \in Turn : a = AssistantTurn(i)
      BY TurnType
    <3>2. Append(episodic, a) \o << >> = episodic \o <<a>>
      BY <1>1, LoggedLast
    <3> QED
      BY <3>1, <3>2 DEF Rest
  <2> QED
    BY <1>5, <2>1, PipelineSmooth
    DEF LogAssistant, LogTurn, After, Alive, Running, AssistantTurn
<1>6. CASE Consolidate(i) \/ (ConsolidatorFails(i) /\ pipe[i] \in {"procedural", "diary"})
  <2>1. PICK next \in {"diary", "complete"} : pipe' = [pipe EXCEPT ![i] = next]
    BY <1>6 DEF Consolidate, ConsolidatorFails, After, AfterFailure, Inv, TypeOK
  <2>2. /\ Alive(i) /\ Rest(i, pipe[i]) = << >> /\ Rest(i, next) = << >>
        /\ UNCHANGED <<working, host, episodic>>
        /\ smooth' => smooth
    BY <1>6, <2>1 DEF Consolidate, ConsolidatorFails, Alive, Running, Rest, Inv, TypeOK
  <2>3. next \in Running \cup {"done"} /\ next # "done"
    BY DEF Running
  <2>4. episodic' = episodic /\ Rest(i, next) = Rest(i, pipe[i])
    BY <2>2
  <2>5. /\ UNCHANGED <<working, host>> /\ Alive(i)
        /\ smooth' => /\ smooth
                      /\ episodic' \o Rest(i, next) = episodic \o Rest(i, pipe[i])
                      /\ next = "done" => episodic' = episodic \o Rest(i, pipe[i])
    BY <2>2, <2>3, <2>4
  <2> QED
    BY <2>1, <2>3, <2>5, PipelineSmooth
<1>7. CASE ConsolidatorFails(i) /\ pipe[i] \notin {"procedural", "diary"}
  BY <1>7 DEF ConsolidatorFails, SmoothInv
<1>8. CASE Complete(i)
  <2>1. Rest(i, "done") = << >> /\ Rest(i, "complete") = << >>
    BY DEF Rest
  <2>2. episodic \o << >> = episodic
    BY <1>1
  <2> QED
    BY <1>8, <2>1, <2>2, PipelineSmooth DEF Complete, Alive, Running
<1> QED
  BY <1>2, <1>3, <1>4, <1>5, <1>6, <1>7, <1>8 DEF PipelineStep

\* What is left of an interaction stays, where its stages leave the same.
LEMMA UnloggedStays ==
  ASSUME NEW j \in Interaction, Buffering(j)' <=> Buffering(j),
         ~Buffering(j) => Rest(j, pipe'[j]) = Rest(j, pipe[j])
  PROVE  Unlogged(j)' = Unlogged(j)
<1>1. Unlogged(j)' = IF Buffering(j)' THEN <<UserTurn(j)>> ELSE Rest(j, pipe'[j])
  BY DEF Unlogged, Rest, UserTurn, AssistantTurn
<1>2. CASE Buffering(j)
  BY <1>1, <1>2 DEF Unlogged
<1>3. CASE ~Buffering(j)
  BY <1>1, <1>3 DEF Unlogged
<1> QED
  BY <1>2, <1>3

\* Every step of a host thread that leaves the buffer and the log.
LEMMA HostMoveSmooth ==
  ASSUME Inv, SmoothInv, NEW h \in Hosts,
         \/ MakeThread(h)
         \/ StartThread(h)
         \/ \E closing \in BOOLEAN : StartWait(h, closing)
         \/ Joined(h)
  PROVE  SmoothInv'
<1>1. UNCHANGED <<working, episodic, smooth>>
  BY DEF MakeThread, StartThread, StartWait, Joined
<1>2. /\ host \in [Hosts -> Host] /\ host[h] \in Host
      /\ pipe \in [Interaction -> Stage]
  BY DEF Inv, TypeOK
<1>3. ASSUME NEW j \in Interaction
      PROVE  (Active(j)' <=> Active(j)) /\ (Active(j) => Unlogged(j)' = Unlogged(j))
  <2>1. CASE MakeThread(h)
    <3>1. PICK i \in Interaction : host[h].of = i /\ pipe[i] = "new" /\ host[h].pc = "make"
      BY <2>1 DEF MakeThread, Inv, HostOk
    <3>2. /\ pipe'[i] = "made" /\ \A k \in Interaction \ {i} : pipe'[k] = pipe[k]
          /\ \A k \in Hosts : host'[k].of = host[k].of
          /\ \A k \in Hosts : host'[k].pc = "buffer" <=> host[k].pc = "buffer"
      BY <1>2, <2>1, <3>1 DEF MakeThread, Host
    <3>3. Alive(j)' <=> Alive(j)
      BY <3>1, <3>2 DEF Alive, Running
    <3>4. (Active(j)' <=> Active(j)) /\ (Buffering(j)' <=> Buffering(j))
      BY <3>2, <3>3 DEF Active, Buffering
    <3>5. Rest(j, pipe'[j]) = Rest(j, pipe[j])
      BY <3>1, <3>2 DEF Rest
    <3> QED
      BY <3>4, <3>5, UnloggedStays
  <2>2. CASE StartThread(h)
    <3>1. PICK i \in Interaction : host[h].of = i /\ pipe[i] = "made" /\ host[h].pc = "start"
      BY <2>2 DEF StartThread, Inv, HostOk
    <3>2. /\ pipe'[i] = "facts" /\ \A k \in Interaction \ {i} : pipe'[k] = pipe[k]
          /\ host'[h] = AtRest /\ \A k \in Hosts \ {h} : host'[k] = host[k]
      BY <1>2, <2>2, <3>1 DEF StartThread
    <3>3. host'[h].of \notin Interaction /\ host'[h].pc # "buffer"
      BY <3>2, ZeroIsNone DEF AtRest
    <3>4. CASE j = i
      <4>1. Active(j) /\ Active(j)'
        BY <3>1, <3>2, <3>4 DEF Active, Alive, Running
      <4>2. \A k \in Hosts \ {h} : host[k].of # i
        BY <2>2, <3>1, InsideProcess
      <4>3. ~Buffering(j) /\ ~Buffering(j)'
        BY <3>1, <3>2, <3>3, <3>4, <4>2 DEF Buffering
      <4>4. Rest(j, pipe'[j]) = Rest(j, pipe[j])
        BY <3>1, <3>2, <3>4 DEF Rest
      <4> QED
        BY <4>1, <4>3, <4>4, UnloggedStays
    <3>5. CASE j # i
      <4>1. Alive(j)' <=> Alive(j)
        BY <3>2, <3>5 DEF Alive
      <4>2. (Active(j)' <=> Active(j)) /\ (Buffering(j)' <=> Buffering(j))
        BY <3>1, <3>2, <3>3, <3>5, <4>1 DEF Active, Buffering
      <4> QED
        BY <3>2, <3>5, <4>2, UnloggedStays
    <3> QED
      BY <3>4, <3>5
  <2>3. CASE (\E closing \in BOOLEAN : StartWait(h, closing)) \/ Joined(h)
    <3>1. pipe' = pipe /\ host[h].of = 0 /\ host[h].pc # "buffer"
      BY <2>3 DEF StartWait, Joined, Idle, Inv, HostOk
    <3>2. /\ host'[h].of = 0 /\ host'[h].pc # "buffer"
          /\ \A k \in Hosts \ {h} : host'[k] = host[k]
      BY <1>2, <2>3, <3>1 DEF StartWait, Joined, EndWait, AtRest, Host
    <3>3. (Active(j)' <=> Active(j)) /\ (Buffering(j)' <=> Buffering(j))
      BY <3>1, <3>2 DEF Active, Buffering, Alive
    <3> QED
      BY <3>1, <3>3, UnloggedStays
  <2> QED
    BY <2>1, <2>2, <2>3
<1>4. \A j \in Interaction : Active(j)' => Active(j) /\ Story(j)' = Story(j)
  BY <1>1, <1>3 DEF Story
<1> QED
  BY <1>1, <1>3, <1>4, StoriesStay

\* An interaction begins: where nothing is under way, its turns are what the
\* log has yet to get.
LEMMA BufferUserSmooth ==
  ASSUME Inv, SmoothInv, NEW h \in Hosts, NEW i \in Interaction, BufferUser(h, i)
  PROVE  SmoothInv'
<1> SUFFICES ASSUME smooth' PROVE SmoothInv'
  BY DEF SmoothInv
<1>1. smooth /\ AllQuiet
  BY DEF BufferUser
<1>2. /\ host \in [Hosts -> Host] /\ host[h] \in Host /\ Idle(h)
      /\ pipe' = pipe /\ episodic' = episodic
      /\ working \in Seq(Turn) /\ episodic \in Seq(Turn)
  BY DEF BufferUser, Inv, TypeOK
<1>3. Ends(working, episodic) /\ \A j \in Interaction : ~Active(j)
  BY <1>1, QuietSmooth
<1>4. /\ host'[h].of = i /\ host'[h].pc = "buffer"
      /\ \A k \in Hosts \ {h} : host'[k] = host[k]
  BY <1>2 DEF BufferUser, Host
<1>5. \A j \in Interaction : Active(j)' => j = i
  BY <1>2, <1>3, <1>4 DEF Active, Alive
<1>6. Active(i)' /\ Buffering(i)'
  BY <1>4 DEF Active, Buffering
<1>7. PICK u \in Turn : u = UserTurn(i)
  BY TurnType
<1>8. Story(i)' = Append(episodic, u)
  <2>1. Story(i)' = episodic \o <<u>>
    BY <1>2, <1>6, <1>7 DEF Story, Unlogged, UserTurn
  <2> QED
    BY <1>2, <2>1, OneConcatenated
<1>9. working' = Push(working, u)
  BY <1>7 DEF BufferUser, UserTurn
<1>10. Ends(Push(working, u), Append(episodic, u))
  BY <1>2, <1>3, PushEnds
<1>11. Ends(working, Story(i))'
  BY <1>8, <1>9, <1>10 DEF Ends
<1> QED
  BY <1>5, <1>6, <1>11 DEF SmoothInv

\* The assistant turn follows.
LEMMA BufferAssistantSmooth ==
  ASSUME Inv, SmoothInv, NEW h \in Hosts, BufferAssistant(h)
  PROVE  SmoothInv'
<1> SUFFICES ASSUME smooth' PROVE SmoothInv'
  BY DEF SmoothInv
<1>1. smooth /\ host[h].pc = "buffer" /\ pipe' = pipe /\ episodic' = episodic
  BY DEF BufferAssistant
<1>2. /\ host \in [Hosts -> Host] /\ host[h] \in Host
      /\ working \in Seq(Turn) /\ episodic \in Seq(Turn)
  BY DEF Inv, TypeOK
<1>3. PICK i \in Interaction : host[h].of = i /\ pipe[i] = "new"
  BY <1>1 DEF Inv, HostOk
<1>4. Active(i) /\ Buffering(i) /\ \A j \in Interaction : Active(j) => j = i
  BY <1>1, <1>3 DEF Active, Buffering, SmoothInv
<1>5. /\ host'[h].of = i /\ host'[h].pc = "make"
      /\ \A k \in Hosts \ {h} : host'[k] = host[k]
  BY <1>2, <1>3 DEF BufferAssistant, Host
<1>6. \A j \in Interaction : Active(j)' <=> Active(j)
  BY <1>1, <1>3, <1>5 DEF Active, Alive
<1>7. \A k \in Hosts \ {h} : host[k].of # i
  BY <1>1, <1>3, InsideProcess
<1>8. ~Buffering(i)'
  BY <1>5, <1>7 DEF Buffering
<1>9. PICK u, a \in Turn : u = UserTurn(i) /\ a = AssistantTurn(i)
  BY TurnType
<1>10. Story(i) = Append(episodic, u)
  <2>1. Story(i) = episodic \o <<u>>
    BY <1>4, <1>9 DEF Story, Unlogged
  <2> QED
    BY <1>2, <2>1, OneConcatenated
<1>11. Story(i)' = Append(Append(episodic, u), a)
  <2>1. Story(i)' = episodic \o <<u, a>>
    BY <1>1, <1>3, <1>8, <1>9 DEF Story, Unlogged, Rest, UserTurn, AssistantTurn
  <2> QED
    BY <1>2, <2>1, TwoAppended
<1>12. PICK log \in Seq(Turn) : log = Append(episodic, u)
  BY <1>2, OneMore
<1>13. Ends(Push(working, a), Append(log, a))
  BY <1>2, <1>4, <1>10, <1>1, <1>12, PushEnds DEF SmoothInv
<1>14. working' = Push(working, a)
  BY <1>3, <1>9 DEF BufferAssistant, AssistantTurn
<1>15. Ends(working, Story(i))'
  BY <1>11, <1>12, <1>13, <1>14 DEF Ends
<1> QED
  BY <1>4, <1>6, <1>15 DEF SmoothInv

\* The next process starts with an empty buffer and nothing under way.
LEMMA ReopenSmooth ==
  ASSUME Inv, SmoothInv, Reopen
  PROVE  SmoothInv'
<1>1. /\ working' = << >> /\ UNCHANGED <<episodic, host, pipe>>
      /\ episodic \in Seq(Turn)
  BY DEF Reopen, Inv, TypeOK
<1>2. \A j \in Interaction : ~Active(j)
  <2>1. \A h \in Hosts : host[h].of = 0
    BY DEF Reopen, Inv, HostOk, Idle
  <2> QED
    BY <2>1, ZeroIsNone DEF Reopen, Inv, Active
<1>3. \A j \in Interaction : ~Active(j)'
  BY <1>1, <1>2 DEF Active, Alive
<1>4. Ends(working, episodic)'
  BY <1>1 DEF Ends
<1> QED
  BY <1>3, <1>4 DEF SmoothInv

\* At first there is nothing to agree about.
LEMMA SmoothInitially == Init => SmoothInv
<1> SUFFICES ASSUME Init PROVE SmoothInv
  OBVIOUS
<1>1. working = << >> /\ episodic = << >>
  BY DEF Init
<1>2. \A i \in Interaction : ~Active(i)
  BY ZeroIsNone DEF Init, AtRest, Active, Alive, Running
<1>3. Ends(working, episodic)
  BY <1>1 DEF Ends
<1> QED
  BY <1>2, <1>3 DEF SmoothInv

\* Every step preserves it.
LEMMA SmoothStep == Inv /\ SmoothInv /\ [Next]_vars => SmoothInv'
<1> SUFFICES ASSUME Inv, SmoothInv, [Next]_vars PROVE SmoothInv'
  OBVIOUS
<1>1. CASE \E h \in Hosts : HostStep(h)
  <2>1. PICK h \in Hosts : HostStep(h)
    BY <1>1
  <2>2. CASE \E i \in Interaction : NobodyWaits /\ BufferUser(h, i)
    BY <2>2, BufferUserSmooth
  <2>3. CASE BufferAssistant(h)
    BY <2>3, BufferAssistantSmooth
  <2>4. CASE \/ MakeThread(h)
             \/ StartThread(h)
             \/ \E closing \in BOOLEAN : Owner(h) /\ StartWait(h, closing)
             \/ Joined(h)
    BY <2>4, HostMoveSmooth
  <2> QED
    BY <2>1, <2>2, <2>3, <2>4 DEF HostStep
<1>2. CASE \E i \in Interaction : PipelineStep(i)
  BY <1>2, PipelineStepSmooth
<1>3. CASE Reopen
  BY <1>3, ReopenSmooth
<1>4. CASE UNCHANGED vars
  <2>1. \A j \in Interaction : (Active(j)' <=> Active(j)) /\ Story(j)' = Story(j)
    BY <1>4 DEF vars, Active, Alive, Story, Unlogged, Buffering, Rest, UserTurn,
       AssistantTurn
  <2> QED
    BY <1>4, <2>1, StoriesStay DEF vars
<1> QED
  BY <1>1, <1>2, <1>3, <1>4 DEF Next

(***************************************************************************)
(* The theorems.                                                           *)
(***************************************************************************)

\* Every step preserves the invariant.
LEMMA InvStep == Inv /\ [Next]_vars => Inv'
<1> SUFFICES ASSUME Inv, [Next]_vars PROVE Inv'
  OBVIOUS
<1>1. CASE \E h \in Hosts : HostStep(h)
  <2>1. PICK h \in Hosts : HostStep(h)
    BY <1>1
  <2>2. CASE \E i \in Interaction : NobodyWaits /\ BufferUser(h, i)
    BY <2>2, BufferUserInv
  <2>3. CASE BufferAssistant(h)
    BY <2>3, BufferAssistantInv
  <2>4. CASE MakeThread(h)
    BY <2>4, MakeThreadInv
  <2>5. CASE StartThread(h)
    BY <2>5, StartThreadInv
  <2>6. CASE \E closing \in BOOLEAN : Owner(h) /\ StartWait(h, closing)
    BY <2>6, StartWaitInv
  <2>7. CASE Joined(h)
    BY <2>7, JoinedInv
  <2> QED
    BY <2>1, <2>2, <2>3, <2>4, <2>5, <2>6, <2>7 DEF HostStep
<1>2. CASE \E i \in Interaction : PipelineStep(i)
  BY <1>2, PipelineStepInv
<1>3. CASE Reopen
  BY <1>3, ReopenInv
<1>4. CASE UNCHANGED vars
  BY <1>4 DEF vars, Inv, TypeOK, HostOk, OwnInteractions, Idle, Alive
<1> QED
  BY <1>1, <1>2, <1>3, <1>4 DEF Next

\* The invariant holds throughout.
THEOREM Invariance == Spec => []Inv
<1> QED
  BY InvInitially, InvStep, PTL DEF Spec

\* Working memory never outgrows its maximum, and every host thread and
\* pipeline is somewhere the code can be.
THEOREM TypeCorrect == Spec => []TypeOK
<1>1. Inv => TypeOK
  BY DEF Inv
<1> QED
  BY <1>1, Invariance, PTL

\* NexusMemory.close joins every pipeline before it closes the connection,
\* even after a wait with a timeout pruned the list.
THEOREM NothingAfterClose == Spec => []NoPipelineAfterClose
<1>1. Inv => NoPipelineAfterClose
  BY DEF Inv, NoPipelineAfterClose
<1> QED
  BY <1>1, Invariance, PTL

\* _run_consolidators isolates each consolidator's exception: an interaction
\* whose facts were written was offered to all of them.
THEOREM FailuresAreIsolated == Spec => []ConsolidatorsIsolated
<1>1. Inv => ConsolidatorsIsolated
  BY DEF Inv, OfferedBy, ConsolidatorsIsolated
<1> QED
  BY <1>1, Invariance, PTL

\* The story of buffer and log holds throughout.
THEOREM SmoothInvariance == Spec => []SmoothInv
<1> QED
  BY SmoothInitially, SmoothStep, Invariance, PTL DEF Spec

\* However pipelines interleave, fail and restart, the history that a token
\* budget buys is the longest stretch of newest turns that tokens() counts
\* within it (core/orchestrator.py, history and tokens).
THEOREM BudgetsBuyTheLongest == Spec => []HistoryIsLongestAffordable
<1> QED
  BY TypeCorrect, TokenHistoryIsLongest, PTL

\* Where no ingest overlapped a pipeline and no turn failed to be logged, the
\* buffer and the log give the same recent dialogue, and the same history as far
\* as the buffer reaches.
THEOREM BufferAndLogAgree == Spec => []SourcesAgree
<1>1. Inv /\ SmoothInv => SourcesAgree
  <2> SUFFICES ASSUME Inv, SmoothInv, smooth /\ AllQuiet PROVE SourcesAgree
    BY DEF SourcesAgree
  <2>1. Ends(working, episodic)
    BY QuietSmooth
  <2> QED
    BY <2>1, AgreeingSources DEF Inv
<1> QED
  BY <1>1, Invariance, SmoothInvariance, PTL
=============================================================================
