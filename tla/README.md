# A verification of nexus_memory

nexus_memory is a memory for a chat host: the host hands it each interaction and
asks it for context.  It never calls a language model itself.  What needs a
model becomes a *job* in an outbox; the host drains the outbox whenever it likes
and submits the texts.  Around that outbox sit five memory layers in one SQLite
file, background threads that fill them, and a host that may stop at any line.
These modules model the state those parts share and the steps that change it,
TLC checks them on small instances, and TLAPS proves all the safety properties
of the passing runs for every value of the constants.

All paths below are relative to `src/src/nexus_memory/`.

## 1. The system

| part | source | state | operations |
|---|---|---|---|
| auxiliary bus | `core/auxbus/bus.py`, `handler.py` | `summarization_jobs` rows: kind, target, status `pending/done/superseded`; the registry of handlers | `enqueue`, `pending`, `pending_one`, `submit`, `mark_done`, `drain` |
| diary (Layer V) | `layers/diary/` | `diary_sessions`, `persistent_summary` | `on_interaction`, `submit`, `finalize`, `provide` |
| episodic store (Layer II) | `layers/episodic/` | `episodic_turns` | `log_turn`, `log_interaction`, `recent_turns`, reads |
| procedural store (Layer IV) | `layers/procedural/` | `procedural_rules`, the bridge flag | `add_rule`, `deactivate`, `detect_and_store`, the extraction handler's `apply` |
| semantic memory (Layer III) | `layers/semantic/`, `core/db.py`, `core/cache.py` | `agent_memory` (one vector per fact), the read cache, the ingest threads and their lock | `ingest_async`, `assemble_context`, `optimize` |
| transparency | `core/transparency.py` | none of its own | `forget`, `pin`, `update`, `inspect` |
| provenance, re-embedding | `core/provenance.py`, `core/reindex.py` | three rows of `system_config` | `reconcile`, `write_provenance`, `reembed` |
| working memory (Layer I) | `layers/working/` | a bounded deque | `add_interaction`, `recent` |
| ingest pipeline | `layers/semantic/writer.py`, `core/consolidation.py` | the list of threads | `ingest_async`, `_run_consolidators`, `wait` |
| extraction, scoring | `layers/semantic/extraction.py`, `core/scoring.py` | none | `extract`, `score_importance`, `rank` |
| context assembler | `core/context.py`, `core/xml_format.py` | none | `assemble`: reads every layer in turn |
| orchestrator | `core/orchestrator.py` | the wiring; `session_id` | `process`, `history`, `tokens`, `drain_diary`, `drain_aux`, `close` |
| privacy, security, embeddings, request models | the rest of `core/` | none | functions of strings and floats |

How they interact.  `process({"action": "ingest"})` starts a thread that extracts
facts, writes each under the writer's lock unless its nearest neighbour is a
redundant row of the same namespace, and then runs the consolidators in the order
episodic, procedural, diary, each of them whatever the others raised.  The
episodic one logs two turns, in two commits.  The procedural one enqueues an
extraction job and, until one such job was answered, also runs an inline detector
(the *bridge*).  The diary one ticks the scheduler, which may close the last run's
session, enqueue a session job for the current one, and enqueue a fold of the
oldest closed sessions.  The thread ends with a callback that clears the read
cache.  A host drains jobs from any thread: it reads the pending rows without the
lock, calls its model for each, and submits.  Submitting may enqueue again (a
session's answer can complete a batch to fold).  `assemble` reads the facts, the
recent dialogue and the diary's three sections one after the other, each read
under the lock or not, none of them together.  `close()` joins the threads and
finalizes the last session. Every table lives in one connection with one
re-entrant lock; every store method commits by itself, so an operation built of
several is several commits.

What is hard here: drains and ingest threads interleave over snapshots that are
stale when used; answers come late, in any order, or twice; a process dies
between two of an operation's commits; a consolidator raises and the next one
runs all the same; the cache is filled after the search it
caches; and the diary must lose nothing although summaries, folds and windows
all move while answers are outstanding.  `PROJECT.json` lists each of these at
its line, with the properties that cover it.

What makes each part correct:

- the bus: a target has at most one waiting job, the newest; an answer is applied
  once; what settled stays settled;
- the diary: sessions are folded oldest first, each once; no late answer makes a
  summary forget; every turn up to the high-water mark is summarised; closing
  strands no turn; the host's answers alone lead to the fold of a full batch;
- the assembled context: no turn falls between its sections, although turns move
  from one to the next while it is read;
- semantic memory: a fact is stored once, and held in every namespace that
  ingested it; the cache never outlives what it was read from; what is left out
  of an answer is not better than what is in it; a deletion by query hits only
  what the query is about, and an id, once deleted, names no later fact;
- procedural memory: no directive falls between the bridge and the first answer,
  and the bridge, once down, stays down;
- provenance: an open store holds vectors of one embedder's space;
- the pipeline: `close()` leaves no thread behind, a consolidator fails alone;
- history: working memory says what the end of the episodic log says, and a token
  budget buys the longest stretch of newest turns without a gap.

## 2. The modules

| module | models | composed with |
|---|---|---|
| `JobTable` | the rows of `summarization_jobs` and the bus's operations on them, as operators on a sequence of jobs | used by `AuxBus`, `Diary` and `Procedural` |
| `AuxBus` | the bus driven by any number of hosts: `enqueue`, direct submits, drains over snapshots | `JobTable`, refines `Mailbox` |
| `Mailbox` | what the bus promises: one slot per (kind, target), a post replaces, a take empties | abstract |
| `Diary` | scheduler, store, episodic turns | `JobTable`, refines `Archive` |
| `Archive` | what the diary promises of its sessions: opened and closed in order, folded in whole batches, oldest first | abstract |
| `DiaryCrash` | `Diary` with a death between any two commits of a tick, an answer or `close` | `Diary` |
| `Context` | an assemble beside the diary: its reads, in order, of tables that other threads are changing | `DiaryCrash` |
| `Procedural` | rules, extraction job, bridge; runs with the bus and without | `JobTable` |
| `Extraction` | what the default extractor makes of an interaction, and the priority floor | pure |
| `SemanticMemory` | writer threads, reader, ranking, cache, transparency, `optimize` | `Extraction` |
| `Ingestion` | the interaction's way through working memory, the pipeline thread, the consolidators and their failures; `wait` and `close` | own; `Diary`, `Procedural` and `SemanticMemory` model what the parts do |
| `History` | `history` and `tokens` over the two logs | `Ingestion` |
| `Provenance` | the opening guard and the re-embedding tool | own |
| `MC*` | instances for TLC | |
| `JobTableProofs`, `AuxBusProofs`, `DiaryProofs`, `DiaryCrashProofs`, `ProceduralProofs`, `IngestionProofs`, `ProvenanceProofs`, `SemanticProofs` | theorems and their lemmas | each extends the module it is named for; `IngestionProofs` also `History`, `DiaryCrashProofs` also `Context` and `DiaryProofs` |

How the state corresponds.  A job is a record `kind, target, body, status`; its
position in the sequence is its rowid.  In `Diary` a turn is its rowid and the
session it belongs to, and a summary is *the set of turns it reflects*: the host
is the ideal summariser, whose text reflects exactly what reached it through the
job, so whatever a summary misses was lost by the code.  A session is identified
by `run` (its uuid) and by its `seq`, its position.  The tick, an answer and
`finalize` hold `db.lock` throughout, so each is one action; `Diary`'s own `Crash`
falls between them and `DiaryCrash` cuts each into its commits.  `EpisodicFails`
is a `log_turn` that raises: the thread's stage is then `failed` and it ticks all
the same, so a session may have fewer rows than its count says, or none.
`Context` needs those too: the provider's reads share the writers' connection and
take no lock, so each of them may meet any of the tables that `DiaryCrash` says an
operation passes through.  A section of the context is the set of turns it tells
of.

In `Extraction` a text is a sequence of sentences and a sentence is what the
heuristics see of it: how many words, whether it is filler, a question, has a
number, has strong words.  In `SemanticMemory` a stored text is a sentence and the
mouth it is attributed to, and distances have three steps: the same text (above
the redundancy threshold), the same sentence from another mouth (above the floors
of `forget` and `assemble`), another sentence (below them).  The cache's key is
the host's sentence.  A row has a namespace and an importance; scoring is the
partial order of distance and importance, all rows being of one age.  That `vec0`
hands out ids that never come back, deleted or not, is external: it keeps them in
a table with AUTOINCREMENT.  The writer's check and insert are two actions under a
lock variable; the reader's search and its put are two; `forget` and `update` have
an action per lock section.  In `Procedural` `distill` is one `add_rule` at a
time, for any directive, the semantic facts not being part of that module; an
answer is any set of additions and deletions, an unreadable one, or one on which
`apply` raises after any part.  Each run has the bus or has it not: without it the
extraction consolidator is not wired and the detector works alone, while jobs of
earlier runs wait.  In `Provenance` a vector is the embedder it came from and the
stamp is three values written one by one; the tool and one application are two
processes on one file, in which rows are added and re-embedded and none is
deleted.  In `Ingestion` a thread is its interaction, and any part of a pipeline
may raise.  In `History` a turn's text is its cost in tokens.

Each definition's lines are in `PROJECT.json`, "map".

## 3. The runs

| run | instance | what it shows |
|---|---|---|
| `Diary_safety` | 1 ingest thread, job every interaction, window of 1 turn, fold of 2, 6 rows, 5 runs, 1 session that lacks rows | order, coverage and completeness whatever the order of answers, of deaths between operations and of failures to log; no full batch behind an empty outbox but for a session without turns; refinement of `Archive` |
| `Context_torn` | a host that drains before each tick, 1 ingest thread, 2 rows of dialogue, 8 rows, 5 runs | no turn falls between the sections of a context, and no fold misses what a session summary reflects |
| `Diary_lagging` | a host that answers when it likes, logging that never fails, otherwise as `Diary_safety` with 8 rows | finding: a fold that loses the tail of a session |
| `DiaryCrash_safety` | deaths between commits, 6 rows, 4 runs, 1 session that lacks rows | folds stay a prefix, batches stay next, coverage stays sound |
| `DiaryCrash_drained` | 2 ingest threads, deaths between commits, job every 2nd interaction, folds of 1, 4 rows, 3 runs, 1 session that lacks rows; a host that keeps answering | a run that lives on does not keep a full batch once any job waits |
| `DiaryCrash_recount` | deaths between commits, logging that never fails, 8 rows, 4 runs | finding: `session_count` counts a batch twice |
| `AuxBus_safety` | 2 hosts, 2 kinds (one without handler), 2 targets, 3 jobs, 2 drains | applied once, settled for good, refinement of `Mailbox` (so only the newest job of a key waits) |
| `Semantic_waiting` | 2 sentences, 2 namespaces, an assistant that repeats the user, 2 ingest threads, 1 host that waits before it assembles, cache of 1, `top_k` up to 2, 2 rows | nothing held twice or dropped, fresh cache, best facts kept, deletions that hit and last |
| `Semantic_race` | 1 sentence, 1 ingest thread, an assemble that does not wait | finding: a stale result in the cleared cache |
| `Procedural_safety` | 1 directive, 2 ingest threads, 3 interactions, 2 runs, each with the bus or without | nothing lost, the bridge stays down |
| `Ingestion_safety` | 2 host threads, 3 interactions, a buffer of 3 turns, 2 runs; turns that cost 0 to 2 tokens, budgets of 0 to 3 | no thread outlives `close()`, failures are isolated, the two logs agree, budgets buy what they can |
| `Provenance_deaths` | 4 embedders (3 of a dimension, 2 of a backend), 3 rows, 2 deaths, application and tool at once | no mixed spaces unless torn; the tool, left alone, heals |

Why the bounds are enough.  The interesting diary cases need two closed sessions
(a batch), a third beside them (so that a wrong batch or window shows), and a run
that ingests nothing: 6 rows are three interactions, and with the one that is not
logged there are four, spread over up to five runs.  `MaxLacking` bounds the
sessions that have fewer rows than their count says, and 1 is enough for a session
without turns before, between or after the others, and for one that has lost half
an interaction or a whole one of several.  A window of one turn with a job every
interaction lets an unanswered session grow past its window.  Where logging never
fails (`Diary_lagging`, `DiaryCrash_recount`, `Context_torn`) the four
interactions are 8 rows. `DiaryCrash_drained` folds one session at a time, so
that a closed session that lacks its turns, one that close() completed and two
full batches due at once fit in few rows. `Context_torn` injects one session, the
least that `ContextIsComplete` asks for with a fold of two, and two rows of
dialogue, the least with a job every interaction: one less of either loses turns
by configuration.  Two kinds and two targets let a key's job sit beside one that
shares only half of the key.  Two drains over three jobs let one snapshot hold a
job that another drain answered and one that an enqueue superseded.  Two rows of
semantic memory are the smallest store in which a duplicate exists, a worse fact
can shut out a better, and a neighbour of one namespace can hide that of another;
a cache of one entry with two queries evicts.  The longest interaction writes a
fact of the user and the same of the assistant.  A buffer of three turns evicts
half an interaction, and a window of four reaches beyond it.  In `Provenance` one
of the embedders differs from another in the model only, and one in the dimension;
a second death can follow the first before a tool was able to heal it. Every
property of a passing run has a mutant: a plausible bug of one mapped definition
under which the run finds the property violated, so the bounds are at least large
enough to see that. Symmetry is used where threads, writers or directives are
interchangeable and only in runs without liveness.

Deadlock is not checked: the bounds on rows, runs and jobs end every behaviour.

Fairness.  One run has liveness, under `CrashFairSpec`, which assumes of the host
that it goes on answering: weak fairness of `Answer(kind, target)` for each target.
That is what `drain_diary` in a host's loop does, and an answer to the waiting job of
a target stays possible until it is given (a newer job only replaces it).  Nothing
is assumed of the application: it may stop ingesting, fail to log, reopen, or die
between any two commits, so the fold must be triggered by answers alone.
`FullBatchFolds` says no more than that bears: once a run has a full batch *and any
waiting job*, either that run ends or the batch (all full batches, in fact) is
folded.  It does not say that a full batch is always folded, since the code can
leave one with nothing waiting: a death between `mark_done` and the fold's enqueue
(`layers/diary/scheduler.py:203`), or a close of a session without turns
(`layers/diary/scheduler.py:169`).  Such a batch is left to the next tick, and
nothing obliges the application to make one.  `DrainedBatchIsFolded` says that
where deaths fall between operations only, the second is the only way.

## 4. What is proved

Every theorem holds for all values of the constants that satisfy the `ASSUME`s of
the modules: any number of threads, hosts, jobs, rows, runs and interactions, any
window, batch or cache size the configuration allows.  A further hypothesis is in
the theorem's own statement and is named below.  Most checked invariants are not
inductive, so each module has an `Inv` that is: its `...Initially` and `...Step`
lemmas are the induction, with a lemma per action or per kind of effect.

`JobTableProofs` proves what the table's operators return and keep, whatever the
kinds, targets and bodies: `EnqueueJob` and `MarkDone` keep the type and every
other job, and "only the newest job of a key is pending".  It also proves that
`Min` and `Max` of the library are what they should be.  The bus, the diary and
procedural memory cite these lemmas and not the operators.

`AuxBusProofs`: `TypeCorrect`, `NewestIsPending`, `AppliedOnce`, `CountIsHonest`,
`Settled`, and `Implements`, that the bus implements `Mailbox`.  A drain carries a
list of jobs and a set of counted ones between its steps, so `Inv` adds what a
snapshot satisfies (`DrainsStayHonest`: whatever it counts is done), and that a
done job had a registered handler.  For the refinement, an enqueue posts to its
key, an applied answer takes from its key, and every other step stutters.

`DiaryProofs`, for any number of ingest threads: `TypeCorrect`, `OlderAreClosed`,
`FoldsInOrder`, `WaitingFoldIsNext`, the action properties `SessionsNeverShrink`
and `PersistentNeverShrinks`, and `Implements`, that the diary implements
`Archive`.  `Inv` is the types and `Good(db, turns, f, f)` with `f` the number of
folded sessions.  `Good` says that sessions are closed in order, that exactly the
first `f` are folded, that a waiting fold names the next batch and that the batch
is closed.  None of these holds without the next: an answer folds what its *job*
names, so the folded stay a prefix only if the waiting batch is the next, and
the batch stays the next only if the folded are a prefix.  For the growth of
summaries, `Good` also says of every waiting job that its input includes what the
summary reflects, and that a session job's advance is not below
`covered_through`: a late answer may replace a summary because whatever it is
late for is in its input.  Operations are functions from tables to tables, so
each has one lemma, `Good` before and `Good` after and `Grows` between, which the
actions cite.

A second invariant, `WholeInv`, is about what the summaries miss:
`CoveredTurnsAreSummarized` and `DrainedSessionsAreComplete`.  A session job
advances `covered_through` to the newest turn, the next window starts after it,
and a window drops its leading row when that is the assistant's.  So nothing is
missed only if `covered_through` never stops between the two rows of an
interaction of which the other row is still to come, or came: `EndsWhole` says
that no answer is logged right behind it.  (A user's row that never gets its
answer, because logging that raised, may well be the last covered.)  With it goes
`TurnsPaired`, that every assistant's row follows the user's row it answers.
`Reflects` says of every row and every waiting job that no turn up to where it
ends is missing, `Accounted` that every turn of a closed session is covered or
will be by the job that waits, and `Midway` where the thread is inside its
interaction, or has given its logging up.  Both theorems have the hypothesis
`OneThread`.  It cannot be dropped: with two threads one's tick may fall between
the rows of the other, and TLC then finds `CoveredIsSummarized` violated (section
5).

A third, `FoldInv`, is about who is left to wake the fold trigger, for any number of
threads: `DrainedBatchesAreFolded`.  `finalize` does not look at the trigger, so what
must hold is that it leaves a job whose answer will.  It does when the newest
session has turns, since the forced window is then not empty (`TurnsHaveWindow`).
`Rooted` says that a run's first row is a user's, so that the leading row dropped
from a window is never its only one; `SidsUpTo` that sessions belong to runs that
began; and `Batched` is the property, with the addition that the turnless session
is an earlier run's, whose threads can log no more.  A tick and an answer end with
the trigger itself.

`DiaryCrashProofs` proves the same as the first of these, but for the refinement,
when a death may follow any commit.  `CrashInv` loosens the two equalities a death
breaks: a fold counts its batch before it marks the sessions, so `f` may lie below
`session_count`, and a fold that is answered again may name a batch of which the
first sessions are marked.  That the rest still holds is why a torn fold is
harmless to everything but the count (section 5).

The second half of `DiaryCrashProofs` is about `ContextSpec`: the host drains
before every tick, no run dies, every interaction is logged, and beside it an
assemble reads tables that an operation is half-way through.

- `ContextTypeCorrect`, for any number of threads: `KnownInv` says that summaries and
  jobs name logged turns only, and each operation's commits keep it.
- `DrainedFoldsLoseNothing`, with `OneThread`, from `SteadyInv`.  `Calm` is what the
  draining gives: only the newest session has a job outstanding, and while it is
  open no fold is due.  Hence `Told`: when a batch is sent its sessions are as they
  will stay, so the fold is told of all that they reflect, and the persistent
  summary has it once they are folded.  `Diary_lagging` is what happens without.
- `ContextsAreComplete`, with `OneThread`.  `Near` says how far the newest session's
  job may be behind the log: the rows of the interactions since the cadence was
  last due, plus those of the one under way, which is what the recent dialogue
  must have room for.  `Continues` says that between two reads nothing is
  forgotten and no session is closed, since only the end of the run, which ends
  the assemble, closes one.  `ComingInv` is the invariant of the assemble: every
  turn it owes is shown already, or is told by a section it has yet to read
  (`ToCome`: the summary of the run's own session, or that of a closed one with room
  after it, or the persistent summary).  The room for dialogue and injected
  sessions is the property's own hypothesis, `Room`.

`ProceduralProofs`: `TypeCorrect`, `DetectorStaysDown`, `NothingIsLost`.  `Inv` adds
that the flag is only set once a job is done, where each consolidating thread
is (which directives it stored, what its job asks for) and what each job's
status says about the rules.

`ProvenanceProofs`, for any embedders and any number of deaths: `TypeCorrect`,
`SpacesNeverMix` and, of steps, `ReembeddingHeals`.  `Inv` says that unless the
store is torn, or the tool is between the vectors and the last value of the
stamp, the stamp names every vector's embedder; and how far each process got
with what it has read.

`SemanticProofs`, for any number of ingest threads: `TypeCorrect`,
`FactsAreHeldOnce`, `WhatIsSaidIsHeld`, `ForgottenIdsStayGone`.  A fact is held once
because the check and the insert lie inside the lock, so `Inv` has what a writer
that holds the lock has seen, and that no other step adds a row meanwhile.
`WhatIsSaidIsHeld` needs what a writer has got through of its list, and that the
list has every informative sentence of the text: a fact about the extractor's
recursive loop.  With `SingleHost` (one thread calls the API, ingest threads
being any number) `DeletionsAreRelevant` follows, of every behaviour; and of
`WaitingSpec`, whose host waits before it assembles, `WaitingCacheIsFresh` and
`WaitingBestAreKept`.  `CacheInv` is their invariant: what the host found stays true
while it assembles, and a stale cache lasts as long as the ingest or edit that
will clear it.  Two hosts may really read a stale cache and delete a row edited
since, so the hypothesis cannot be dropped; `Semantic_race` shows what happens
to a host that does not wait.

`IngestionProofs`: `TypeCorrect`, `NothingAfterClose`, `FailuresAreIsolated`,
`BudgetsBuyTheLongest` and `BufferAndLogAgree`.  For the first three `Inv` says that
a host thread inside `process` owns its interaction, that one that waits is alone
and has every live thread on its copy of the list, and that an interaction was
offered to the consolidators its stage is past.  `BudgetsBuyTheLongest` is about
the loops of `history()` and `tokens()` on logs of any length and texts of any
cost.  `BufferAndLogAgree` has an invariant of its own, `SmoothInv`: while nothing
overlapped or failed, at most one interaction is under way, and the buffer is the
end of what the log will be once that interaction's remaining turns are
logged.  With nothing under way the buffer is then the end of the log, and
`AgreeingSources` shows that `history`'s filter and truncation keep it so.

Recursive functions.  The library's induction theorems cannot be used here, but
that a set of naturals has a least member can, so the loops of the extractor,
`history` and `tokens` are proved about by least counterexample: first that the
function exists (`LoopExists`), then that no round is the first to break the
claim (`AllRounds`).

Two theorems go beyond the runs: that only the newest job of a key waits
(`NewestIsPending`, which the bus's refinement of `Mailbox` implies), and, with any
number of ingest threads where the runs that check it have one, that a waiting fold names the
next batch (`WaitingFoldIsNext`, `CrashWaitingFoldIsNext`).

Only model-checked is `FullBatchFolds`: it is liveness under fairness, beyond the
prover's reach.

## 5. What the runs found

Three runs end in a counterexample, each against a sentence of the repository;
`PROJECT.json`, "findings", quotes them.  In short: a death inside the apply of a
fold makes `session_count` count the batch again (`DiaryCrash_recount`); an
assemble that overlaps an ingest fills the cache, already cleared, with a stale
result (`Semantic_race`); and a fold answered after the last job of a session it
names loses what that job added (`Diary_lagging`).  `Context_torn` shows that a
host that does not lag is not affected by the last.

Known limits of the code, seen while modelling, that no run lists.  Of the diary:

- Two interactions whose `log_turn` calls interleave leave two assistant rows in a
  row; a window that starts at the second drops it although it was never
  summarised (`layers/diary/scheduler.py:113`).  `CoveredIsSummarized` is stated
  for one pipeline thread.
- A death between `mark_done` and the fold's enqueue
  (`layers/diary/scheduler.py:203`) leaves a full batch without a job; if nothing
  else waits the host's answers cannot lead to its fold, and the next tick, of
  whatever run, does.
- A session whose only interaction could not be logged has no turns and is closed
  without a job (`layers/diary/scheduler.py:169`), although the documentation says
  that a closing session always gets its final one
  (`src/docs/architecture/diary-layer.md:166`).  A batch it completes is left to
  the next tick as well.
- A death between `finalize`'s two commits leaves a closed session without its
  last job (`layers/diary/scheduler.py:273`).
- With `inject_sessions` below `sessions_per_summary - 1`, as by default, closed
  sessions that are not yet folded may be shown by neither.
- `drain_diary` counts an answer without looking at what `submit_summary` said of
  it (`core/orchestrator.py:600`); `drain_aux` looks.
- `pending` and `stats` read the shared connection without the lock
  (`core/auxbus/bus.py:164`) and can see an enqueue between its two statements.

Of the pipeline and the logs:

- `wait()` inside another thread's `ingest_async` meets a thread that is listed and
  not started: `join` raises, or the pruning drops it from the list for good
  (`layers/semantic/writer.py:354`).  `Ingestion` excludes that overlap.
- Pipelines of different threads log in any order, with timestamps taken before
  the lock (`layers/episodic/episodic.py:109`), so the history need not be in the
  order in which interactions were processed.  `SourcesAgree` is stated for
  ingests that did not overlap.
- The history's window is the larger of two configuration values
  (`core/orchestrator.py:718`), whatever a request's own `max_turns`, and roles are
  filtered inside it: asking for more, or for one role, gets what the window has.
- With `auto_consolidate` off and episodic memory on, the recent dialogue is read
  from a log that nothing writes (`core/context.py:183`).
- `reconstruct` of a long store gives the oldest 10 000 turns
  (`layers/episodic/episodic.py:192`).

Of semantic memory:

- The redundancy check looks at one neighbour (`layers/semantic/writer.py:289`):
  when it lies in another namespace the fact is inserted again in its own.
  `OneRowPerFact` is stated for one namespace.
- `update` ends with an INSERT whether or not its row still exists
  (`core/transparency.py:232`), so it can undo a `forget`.  `ForgottenStaysGone`
  allows exactly that.
- `forget` by query finds its row and deletes it in two steps
  (`core/transparency.py:216`): an update by a second host in between can make it
  delete a row that no longer says what was looked for.  `ForgetIsRelevant` is
  stated, run and proved for one host, where only ingest threads come between.
- A cache hit ignores `top_k` and `min_score` (`layers/semantic/reader.py:71`).
- A row found by graph expansion has no distance, and so the score 0
  (`core/scoring.py:135`).
- A pinned fact, importance 10, decays below the default `min_score` after some 281
  days at the default rate.

Of the rest:

- An answer may land between the bridge check and the detector's stores
  (`core/consolidation.py:219`); both store.
- An enqueue replaces the waiting job before the detector has stored anything
  (`core/consolidation.py:208`, `:219`).  A death or a raising detector in between
  leaves an interaction's directives to the new job alone, and the next enqueue
  replaces that.  `Procedural` has neither: its runs end in `close()` and its
  detector does not raise, and `NoDirectiveLost` speaks of those.
- An operation on which `apply` raises leaves the job pending, its first
  operations applied (`layers/procedural/handler.py:165`).
- The tool commits the vectors before their stamp (`core/reindex.py:117`), the
  stamp in three commits more: a death in between lets the old embedder open the
  store and mix spaces.  And nothing keeps an application out while the tool runs
  (`core/reindex.py:92`): rows it adds meanwhile stay in the old space under the
  new stamp.  Both are the `torn` of `Provenance`.
- The vector table is created before the guard compares dimensions, and without a
  stamp the guard compares with the configuration (`core/orchestrator.py:156`):
  after a refused first open another configuration passes the guard and finds a
  table its vectors do not fit, so that every write fails.

## 6. What is not modelled

Masking, the crypto helper, the embedders, the detector's patterns, the prompts
and the request models are functions of strings and floats, and constants.  Of
extraction the word lists and the sentence splitter are left out, of scoring the
values, of the context the XML and the cap on directives.  Graph expansion reads
edges no code of the package writes.  `inspect`, `stats`, `reconstruct` and the day
summaries only read.  `optimize` vacuums the file, and is an action that changes no
row and clears the cache.

## 7. Plan

1. done: `JobTable`, `AuxBus`, `Mailbox`; `Diary`, `Archive`, `DiaryCrash`, `Context`;
   `SemanticMemory` with `Extraction`; `Procedural`; `Provenance`; `Ingestion` with
   `History`; and the proofs of section 4.
2. next, abstract specifications worth stating beside `Mailbox` and `Archive`:
   semantic memory as a set of (fact, namespace), refined by the writer.
3. worth modelling if the code grows there: the user's last word on a rule against
   jobs that were enqueued before it (`layers/procedural/procedural.py:310`).
