--------------------------- MODULE SemanticMemory ---------------------------
(***************************************************************************)
(* Layer III: the facts of agent_memory, written by background ingest      *)
(* threads (layers/semantic/writer.py), edited by the host                 *)
(* (core/transparency.py), read by assemble (layers/semantic/reader.py)    *)
(* through the read cache (core/cache.py).                                 *)
(*                                                                         *)
(* Distances have three steps: the same text, the same sentence from       *)
(* another mouth, another sentence.  The first is above the redundancy     *)
(* threshold, the first two are above the relevance floors of forget and   *)
(* assemble.  Rows are of one age, so decay does not order them.  db.lock  *)
(* makes each statement of core/db.py atomic, and nothing more: between    *)
(* two of them the other threads run.                                      *)
(***************************************************************************)
EXTENDS Extraction, FiniteSets, Functions, SequencesExt

CONSTANTS
  Interactions, (* [query, response]: texts an ingest may carry            *)
  Priorities, (* sets of at most one priority an ingest may carry          *)
  Scopes,     (* namespaces an ingest may carry                            *)
  Writers,    (* ingest threads that may live at once                      *)
  Hosts,      (* threads that call the public API                          *)
  MaxTopK,    (* requests ask for 1..MaxTopK facts                         *)
  CacheSize,  (* cache_size                                                *)
  MaxRows     (* bound: rows ever inserted                                 *)

ASSUME CacheSizeAssumption == CacheSize \in Nat \ {0}
ASSUME SemanticBoundsAssumption ==
  MaxTopK \in Nat \ {0} /\ MaxRows \in Nat
ASSUME NonEmptyAssumption == Sentences # {} /\ Scopes # {}
ASSUME InteractionsAssumption ==
  /\ Interactions \subseteq [query: Seq(Sentences), response: Seq(Sentences)]
  /\ Priorities \subseteq {{}} \cup {{p} : p \in 1..10}

AnyText == CHOOSE s \in Sentences : TRUE
Unscoped == "none"   \* the scope of rows without namespace metadata

VARIABLES
  mem,        (* agent_memory: id -> row                                   *)
  lastId,     (* the largest id ever handed out                            *)
  lock,       (* the writer's _write_lock: its holder, or {}               *)
  writer,     (* ingest threads                                            *)
  host,       (* host threads                                              *)
  cache,      (* the read cache, least recently used first                 *)
  forgotten,  (* history: ids whose deletion was reported                  *)
  heard,      (* history: (sentence, scope) a user told an ingest that
                 came to its end                                           *)
  scoped      (* history: the namespaces that ingests carried              *)

vars == <<mem, lastId, lock, writer, host, cache, forgotten, heard, scoped>>

\* by: which operation wrote the text.
Row == [text: Text, scope: Scopes \cup {Unscoped}, importance: 1..10,
        by: {"ingest", "pin", "update"}]

\* todo: facts still to write.  said: the user's part of the interaction.
\* failed: an exception ended the pipeline.
Writer == [pc: {"idle", "check", "insert"},
           todo: Seq([text: Text, importance: 1..10]),
           said: Seq(Sentences), scope: Scopes, failed: BOOLEAN]

\* text, k: what the call is about and how many facts it asks for; id, row: the
\* row it works on; rows: the ids a read found.
Host == [pc: {"idle", "search", "store", "delete", "read", "write", "clear"},
         text: Sentences, k: 1..MaxTopK, id: Nat, scope: Scopes \cup {Unscoped},
         importance: 1..10,
         rows: SUBSET Nat]

Entry == [query: Sentences, k: 1..MaxTopK, rows: SUBSET Nat]

TypeOK ==
  /\ DOMAIN mem \subseteq 1..lastId /\ mem \in [DOMAIN mem -> Row]
  /\ lastId \in Nat
  /\ lock \in {{}} \cup {{w} : w \in Writers}
  /\ writer \in [Writers -> Writer]
  /\ host \in [Hosts -> Host]
  /\ cache \in Seq(Entry) /\ Len(cache) <= CacheSize
  /\ forgotten \subseteq 1..lastId
  /\ heard \subseteq Sentences \X Scopes
  /\ scoped \subseteq Scopes

Init ==
  /\ mem = << >>
  /\ lastId = 0
  /\ lock = {}
  /\ writer \in [Writers -> {[pc |-> "idle", todo |-> << >>, said |-> << >>, failed |-> FALSE,
                              scope |-> CHOOSE s \in Scopes : TRUE]}]
  /\ host \in [Hosts -> {[pc |-> "idle", text |-> AnyText,
                          k |-> 1, id |-> 0, scope |-> Unscoped,
                          importance |-> 1, rows |-> {}]}]
  /\ cache = << >>
  /\ forgotten = {}
  /\ heard = {}
  /\ scoped = {}

(***************************************************************************)
(* core/db.py, one lock section each.                                      *)
(***************************************************************************)
Distance(text, i) ==
  IF mem[i].text = text THEN 0 ELSE IF mem[i].text.says = text.says THEN 1 ELSE 2

AtMost(n, k) == IF n < k THEN n ELSE k

\* knn_search: among equally near rows vec0 promises no order.
NearestRows(text, k) ==
  {rows \in SUBSET DOMAIN mem :
     /\ Cardinality(rows) = AtMost(Cardinality(DOMAIN mem), k)
     /\ \A i \in rows, j \in DOMAIN mem \ rows : Distance(text, i) <= Distance(text, j)}

Nearest(text) == UNION NearestRows(text, 1)

\* What a search for a sentence finds above the floors.
Relevant(text) == {i \in DOMAIN mem : Distance(text, i) < 2}

\* A row is written, new or in place of the one with its id.
PutRow(id, row) == [i \in DOMAIN mem \cup {id} |-> IF i = id THEN row ELSE mem[i]]

\* A bug to check against: the next id is the highest there is, plus one.
InsertReusingIds(text, importance, scope, by) ==
  LET id == IF mem = << >> THEN 1
            ELSE 1 + CHOOSE i \in DOMAIN mem : \A j \in DOMAIN mem : j <= i IN
  /\ lastId < MaxRows
  /\ lastId' = IF id > lastId THEN id ELSE lastId
  /\ mem' = PutRow(id, [text |-> text, importance |-> importance,
                        scope |-> scope, by |-> by])

InsertMemory(text, importance, scope, by) ==
  /\ lastId < MaxRows
  /\ lastId' = lastId + 1
  /\ mem' = PutRow(lastId + 1, [text |-> text, importance |-> importance,
                                scope |-> scope, by |-> by])

\* update_memory: DELETE and INSERT with the same id, in one transaction.
UpdateMemory(id, text, importance, scope) ==
  mem' = PutRow(id, [text |-> text, importance |-> importance, scope |-> scope,
                     by |-> "update"])

DeleteMemory(id) ==
  /\ mem' = Restrict(mem, DOMAIN mem \ {id})
  /\ forgotten' = IF id \in DOMAIN mem THEN forgotten \cup {id} ELSE forgotten

(***************************************************************************)
(* core/cache.py.                                                          *)
(***************************************************************************)
CachedFor(query) == {i \in DOMAIN cache : cache[i].query = query}

\* A query has one entry at most: its key.
Without(query) ==
  IF CachedFor(query) = {} THEN cache
  ELSE RemoveAt(cache, CHOOSE i \in CachedFor(query) : TRUE)

\* A hit moves to the end.
CacheTouch(entry) == cache' = Append(Without(entry.query), entry)

\* A bug to check against: nothing is evicted.
CachePutUnbounded(entry) == cache' = Append(Without(entry.query), entry)

CachePut(entry) ==
  LET grown == Append(Without(entry.query), entry)
  IN cache' = IF Len(grown) > CacheSize THEN Tail(grown) ELSE grown

(***************************************************************************)
(* writer.py: an ingest thread.                                            *)
(***************************************************************************)
\* ingest_async: the call returns at once.
Ingest(h, w, interaction, priority, scope) ==
  /\ host[h].pc = "idle"
  /\ writer[w].pc = "idle"
  /\ writer' = [writer EXCEPT ![w] =
       [pc |-> "check", scope |-> scope, failed |-> FALSE,
        said |-> interaction.query,
        todo |-> ToWrite(interaction.query, interaction.response, priority)]]
  /\ scoped' = scoped \cup {scope}
  /\ UNCHANGED <<mem, lastId, lock, host, cache, forgotten, heard>>

\* A bug to check against: only the text is compared, so what another
\* namespace holds is redundant.
RedundantInAnyScope(text, scope, i) == Distance(text, i) = 0

Redundant(text, scope, i) == Distance(text, i) = 0 /\ mem[i].scope = scope

\* _resolve_conflict looks at one neighbour.
MayBeRedundant(text, scope) ==
  \E i \in Nearest(text) : Redundant(text, scope, i)

MayBeNew(text, scope) ==
  mem = << >> \/ \E i \in Nearest(text) : ~Redundant(text, scope, i)

\* A bug to check against: the check is made before the lock is taken.
HoldNothing(w) == lock' = lock

Hold(w) == lock' = {w}

\* _dedup_and_write takes the lock and resolves the conflict.  Redundant: the
\* lock is released again and the fact dropped.
DropRedundant(w) ==
  /\ writer[w].pc = "check" /\ writer[w].todo # << >>
  /\ lock = {}
  /\ MayBeRedundant(Head(writer[w].todo).text, writer[w].scope)
  /\ writer' = [writer EXCEPT ![w].todo = Tail(@)]
  /\ UNCHANGED <<mem, lastId, lock, host, cache, forgotten, heard, scoped>>

DecideInsert(w) ==
  /\ writer[w].pc = "check" /\ writer[w].todo # << >>
  /\ lock = {}
  /\ MayBeNew(Head(writer[w].todo).text, writer[w].scope)
  /\ Hold(w)
  /\ writer' = [writer EXCEPT ![w].pc = "insert"]
  /\ UNCHANGED <<mem, lastId, host, cache, forgotten, heard, scoped>>

\* The insert, and the end of the locked section.
Insert(w) ==
  /\ writer[w].pc = "insert"
  /\ LET fact == Head(writer[w].todo)
     IN InsertMemory(fact.text, fact.importance, writer[w].scope, "ingest")
  /\ lock' = {}
  /\ writer' = [writer EXCEPT ![w].pc = "check", ![w].todo = Tail(@)]
  /\ UNCHANGED <<host, cache, forgotten, heard, scoped>>

\* The extractor or the embedder raises: the facts not yet written are lost.
Fail(w) ==
  /\ writer[w].pc = "check" /\ writer[w].todo # << >>
  /\ writer' = [writer EXCEPT ![w].todo = << >>, ![w].failed = TRUE]
  /\ UNCHANGED <<mem, lastId, lock, host, cache, forgotten, heard, scoped>>

\* A bug to check against: only a successful ingest invalidates the cache.
ClearsUnlessFailed(failed) == ~failed

\* _on_ingest_complete clears the cache also for written_ids = None.
ClearsAfter(failed) == TRUE

Complete(w) ==
  /\ writer[w].pc = "check" /\ writer[w].todo = << >>
  /\ cache' = IF ClearsAfter(writer[w].failed) THEN << >> ELSE cache
  /\ heard' = IF writer[w].failed THEN heard
              ELSE heard \cup {<<writer[w].said[i], writer[w].scope>> :
                                 i \in DOMAIN writer[w].said}
  /\ writer' = [writer EXCEPT ![w].pc = "idle", ![w].failed = FALSE,
                              ![w].said = << >>]
  /\ UNCHANGED <<mem, lastId, lock, host, forgotten, scoped>>

(***************************************************************************)
(* reader.py: assemble_context on a host thread.                           *)
(***************************************************************************)
Idle(h) == host[h].pc = "idle"

Begin(h, pc, id, text) ==
  host' = [host EXCEPT ![h] =
    [pc |-> pc, text |-> text, k |-> 1, id |-> id, scope |-> Unscoped,
     importance |-> 1, rows |-> {}]]

AssembleHit(h, query) ==
  /\ Idle(h)
  /\ \E i \in CachedFor(query) : CacheTouch(cache[i])
  /\ UNCHANGED <<mem, lastId, lock, writer, host, forgotten, heard, scoped>>

AssembleMiss(h, query, k) ==
  /\ Idle(h)
  /\ CachedFor(query) = {}
  /\ host' = [host EXCEPT ![h].pc = "search", ![h].text = query, ![h].k = k]
  /\ UNCHANGED <<mem, lastId, lock, writer, cache, forgotten, heard, scoped>>

\* scoring.rank multiplies similarity and importance.
Outranks(text, i, j) ==
  /\ Distance(text, i) <= Distance(text, j)
  /\ mem[i].importance >= mem[j].importance
  /\ <<Distance(text, i), mem[i].importance>> # <<Distance(text, j), mem[j].importance>>

\* The best k of some rows.
BestOf(k, rows, text) ==
  {best \in SUBSET rows :
     /\ Cardinality(best) = AtMost(Cardinality(rows), k)
     /\ \A i \in best, j \in rows \ best : ~Outranks(text, j, i)}

\* A bug to check against: no more candidates than facts asked for.
JustEnough(text, k) == NearestRows(text, k)

\* Twice as many are retrieved as are asked for.
Candidates(text, k) == NearestRows(text, 2 * k)

Search(h) ==
  /\ host[h].pc = "search"
  /\ LET query == Raw(host[h].text) IN
     \E pool \in Candidates(query, host[h].k) :
     \E best \in BestOf(host[h].k, pool \cap Relevant(query), query) :
       host' = [host EXCEPT ![h].pc = "store", ![h].rows = best]
  /\ UNCHANGED <<mem, lastId, lock, writer, cache, forgotten, heard, scoped>>

Store(h) ==
  /\ host[h].pc = "store"
  /\ CachePut([query |-> host[h].text, k |-> host[h].k, rows |-> host[h].rows])
  /\ Begin(h, "idle", 0, AnyText)
  /\ UNCHANGED <<mem, lastId, lock, writer, forgotten, heard, scoped>>

(***************************************************************************)
(* transparency.py on a host thread; every call ends with cache.clear, also *)
(* when nothing was found.                                                 *)
(***************************************************************************)
Pin(h, text) ==
  /\ Idle(h)
  /\ InsertMemory(Raw(text), 10, Unscoped, "pin")
  /\ Begin(h, "clear", lastId + 1, text)
  /\ UNCHANGED <<lock, writer, cache, forgotten, heard, scoped>>

ForgetById(h, id) ==
  /\ Idle(h)
  /\ Begin(h, "delete", id, IF id \in DOMAIN mem THEN mem[id].text.says ELSE AnyText)
  /\ UNCHANGED <<mem, lastId, lock, writer, cache, forgotten, heard, scoped>>

\* A bug to check against: no relevance floor, any row is a best match.
AnyMatch(text) == DOMAIN mem

BestMatch(text) == Nearest(Raw(text)) \cap Relevant(Raw(text))

ForgetByQuery(h, text) ==
  /\ Idle(h)
  /\ IF BestMatch(text) = {} THEN Begin(h, "clear", 0, text)
     ELSE \E i \in BestMatch(text) : Begin(h, "delete", i, text)
  /\ UNCHANGED <<mem, lastId, lock, writer, cache, forgotten, heard, scoped>>

Delete(h) ==
  /\ host[h].pc = "delete"
  /\ DeleteMemory(host[h].id)
  /\ host' = [host EXCEPT ![h].pc = "clear"]
  /\ UNCHANGED <<lastId, lock, writer, cache, heard, scoped>>

\* optimize vacuums under the writer's lock; no row changes.
Optimize(h) ==
  /\ Idle(h)
  /\ lock = {}
  /\ Begin(h, "clear", 0, AnyText)
  /\ UNCHANGED <<mem, lastId, lock, writer, cache, forgotten, heard, scoped>>

\* update looks whether the row is there before it embeds the new text.
Update(h, id, text) ==
  /\ Idle(h)
  /\ Begin(h, IF id \in DOMAIN mem THEN "read" ELSE "clear", id, text)
  /\ UNCHANGED <<mem, lastId, lock, writer, cache, forgotten, heard, scoped>>

\* update_memory reads the row it is to replace; what is not given is kept;
\* a row that is gone by now has no metadata and the lowest importance.
ReadExisting(h) ==
  /\ host[h].pc = "read"
  /\ host' = [host EXCEPT ![h].pc = "write",
       ![h].scope = IF host[h].id \in DOMAIN mem THEN mem[host[h].id].scope
                    ELSE Unscoped,
       ![h].importance = IF host[h].id \in DOMAIN mem
                         THEN mem[host[h].id].importance ELSE 1]
  /\ UNCHANGED <<mem, lastId, lock, writer, cache, forgotten, heard, scoped>>

Write(h) ==
  /\ host[h].pc = "write"
  /\ UpdateMemory(host[h].id, Raw(host[h].text), host[h].importance, host[h].scope)
  /\ host' = [host EXCEPT ![h].pc = "clear"]
  /\ UNCHANGED <<lastId, lock, writer, cache, forgotten, heard, scoped>>

ClearCache(h) ==
  /\ host[h].pc = "clear"
  /\ cache' = << >>
  /\ Begin(h, "idle", 0, AnyText)
  /\ UNCHANGED <<mem, lastId, lock, writer, forgotten, heard, scoped>>

(***************************************************************************)
(* The system.                                                             *)
(***************************************************************************)
WriterStep(w) ==
  \/ DropRedundant(w)
  \/ DecideInsert(w)
  \/ Insert(w)
  \/ Fail(w)
  \/ Complete(w)

Assemble(h) ==
  \E query \in Sentences :
    \/ AssembleHit(h, query)
    \/ \E k \in 1..MaxTopK : AssembleMiss(h, query, k)

Edit(h) ==
  \/ \E text \in Sentences : Pin(h, text) \/ ForgetByQuery(h, text)
  \/ \E id \in 1..lastId : ForgetById(h, id)
  \/ Optimize(h)
  \/ \E id \in 1..lastId, text \in Sentences : Update(h, id, text)

HostStep(h) ==
  \/ Search(h)
  \/ Store(h)
  \/ Delete(h)
  \/ ReadExisting(h)
  \/ Write(h)
  \/ ClearCache(h)

Dispatch ==
  \E h \in Hosts, w \in Writers, interaction \in Interactions,
     priority \in Priorities, scope \in Scopes :
    Ingest(h, w, interaction, priority, scope)

Next ==
  \/ Dispatch
  \/ \E w \in Writers : WriterStep(w)
  \/ \E h \in Hosts : Assemble(h) \/ Edit(h) \/ HostStep(h)

Spec == Init /\ [][Next]_vars

\* A host that calls wait() before it assembles.
Waited == \A w \in Writers : writer[w].pc = "idle"

WaitingNext ==
  \/ Dispatch
  \/ \E w \in Writers : WriterStep(w)
  \/ \E h \in Hosts : (Waited /\ Assemble(h)) \/ Edit(h) \/ HostStep(h)

WaitingSpec == Init /\ [][WaitingNext]_vars

(***************************************************************************)
(* Properties.                                                             *)
(***************************************************************************)

Quiet == Waited /\ \A h \in Hosts : Idle(h)

\* However many threads ingest it at once, and whatever is pinned, edited or
\* forgotten meanwhile, a fact is held once among the rows that ingest wrote,
\* where one namespace is in use.
OneRowPerFact ==
  Cardinality(scoped) = 1 =>
    \A i, j \in DOMAIN mem :
      /\ mem[i].by = "ingest" /\ mem[j].by = "ingest"
      /\ mem[i].text = mem[j].text
      => i = j

WorthKeeping(sentence) ==
  /\ ~Features[sentence].filler
  /\ Features[sentence].words >= 3 \/ Features[sentence].number

\* What the user said in an ingest that came to its end is held as a fact in
\* that ingest's namespace, unless it is small talk, until something is
\* forgotten or edited: no other thread's fact, no other namespace's and no
\* pin stands in for it.
HeldInEveryScope ==
  forgotten = {} /\ (\A i \in DOMAIN mem : mem[i].by # "update") =>
    \A t \in heard : WorthKeeping(t[1]) =>
      \E i \in DOMAIN mem :
        /\ mem[i].text = [speaker |-> "User", says |-> t[1]]
        /\ mem[i].scope = t[2]

\* With no call and no ingest under way, the cache answers as the store would.
CacheIsFresh ==
  Quiet =>
    \A i \in DOMAIN cache :
      LET relevant == Relevant(Raw(cache[i].query))
      IN /\ cache[i].rows \subseteq relevant
         /\ Cardinality(cache[i].rows) = AtMost(Cardinality(relevant), cache[i].k)

\* The best facts reach the answer: unless more rows are relevant than twice
\* the number asked for, none that is left out is nearer to the query and
\* more important than one that is in, whatever threads, edits and the cache
\* did in between.
BestAreKept ==
  Quiet =>
    \A i \in DOMAIN cache :
      LET query == Raw(cache[i].query)
          relevant == Relevant(query)
      IN Cardinality(relevant) <= 2 * cache[i].k =>
           \A in \in cache[i].rows, out \in relevant \ cache[i].rows :
             ~Outranks(query, out, in)

\* An id whose deletion was reported names a fact again only when an update
\* of that very row was under way: no later fact takes over the id.
ForgottenStaysGone ==
  \A i \in forgotten \cap DOMAIN mem : mem[i].by = "update"

\* A deletion by query removes only a row that is about the query, although
\* the row is looked up and deleted in two steps.
ForgetIsRelevant ==
  [][\A h \in Hosts : host[h].pc = "delete" /\ host'[h].pc = "clear" =>
       \A i \in DOMAIN mem \ DOMAIN mem' : mem[i].text.says = host[h].text]_vars
=============================================================================
