----------------------------- MODULE Provenance -----------------------------
(***************************************************************************)
(* Which embedder's space the stored vectors live in, and which embedder   *)
(* the store says they do: the guard NexusMemory runs when it opens        *)
(* (core/orchestrator.py, core/provenance.py) and the re-embedding tool    *)
(* (core/reindex.py).  The provenance is three rows of system_config, each *)
(* written by a commit of its own; the tool's vectors are one commit.      *)
(*                                                                         *)
(* The application and the tool are processes of their own that may die    *)
(* between two commits, and nothing keeps the one out while the other is   *)
(* at work.                                                                *)
(***************************************************************************)
EXTENDS Integers, Sequences

CONSTANTS
  Embedders,  (* [backend, model, dim]: the identity of an embedder        *)
  MaxRows,    (* bound: facts in the store                                 *)
  Mortal,     (* the processes that may die: "app", "tool"                 *)
  MaxDeaths   (* bound: processes that die                                 *)

ASSUME EmbeddersAssumption ==
  Embedders \subseteq
    [backend: STRING \ {""}, model: STRING \ {""}, dim: Nat \ {0}]
ASSUME ProvenanceBoundsAssumption == MaxRows \in Nat /\ MaxDeaths \in Nat

VARIABLES
  width,    (* the dimension agent_memory was created with; 0: no table    *)
  stamp,    (* the provenance rows of system_config; "" or 0: no row       *)
  vectors,  (* agent_memory: the embedder each row's vector came from      *)
  proc,     (* what the application and the tool are doing                 *)
  deaths,   (* processes that died                                         *)
  alone,    (* history: the tool has had the store to itself               *)
  torn      (* history: the tool died between its vectors and the end of its
               stamp, or got there beside an application, and none that had
               the store to itself came to its end since                   *)

tables == <<width, stamp, vectors>>
vars == <<tables, proc, deaths, alone, torn>>

Kinds == {"app", "tool"}
Keys == {"backend", "model", "dim"}

NoStamp == [backend |-> "", model |-> "", dim |-> 0]

AllKeys == <<"backend", "model", "dim">>

Dims == {e.dim : e \in Embedders}

\* dim: the configuration's; seen: how many rows the tool read; left: the
\* provenance rows still to be written, in this order.
Closed == [pc |-> "closed"]
Proc ==
  {Closed}
  \cup [pc: {"guard", "stamp", "open", "embed"}, emb: Embedders, dim: Dims,
        seen: 0..MaxRows, left: {AllKeys, <<"model", "dim">>, <<"dim">>, << >>}]

Process(pc, e, dim, seen) ==
  [pc |-> pc, emb |-> e, dim |-> dim, seen |-> seen, left |-> AllKeys]

Values(key) == {e[key] : e \in Embedders} \cup {NoStamp[key]}

TypeOK ==
  /\ width \in {0} \cup Dims
  /\ DOMAIN stamp = Keys /\ \A key \in Keys : stamp[key] \in Values(key)
  /\ vectors \in Seq(Embedders) /\ Len(vectors) <= MaxRows
  /\ proc \in [Kinds -> Proc]
  /\ deaths \in 0..MaxDeaths
  /\ alone \in BOOLEAN /\ torn \in BOOLEAN

Init ==
  /\ width = 0
  /\ stamp = NoStamp
  /\ vectors = << >>
  /\ proc = [k \in Kinds |-> Closed]
  /\ deaths = 0
  /\ alone = TRUE
  /\ torn = FALSE

At(kind, pc) == proc[kind].pc = pc

Becomes(kind, p) == proc' = [proc EXCEPT ![kind] = p]

\* stored_dim: the provenance's, else that of the configuration.
StoredDim(fallback) ==
  IF stamp.backend = "" \/ stamp.dim = 0 THEN fallback ELSE stamp.dim

(***************************************************************************)
(* The application.                                                        *)
(***************************************************************************)
\* NexusDB creates the table once, as wide as the configuration says.
CreateTable(dim) == width' = IF width = 0 THEN dim ELSE width

\* A bug to check against: another model of the same backend will do.
AcceptsSameBackend(e) == stamp.backend = e.backend

Accepts(e) == stamp = e

Opened(p) == [p EXCEPT !.pc = "open", !.left = << >>]

\* The table is created before the guard looks.
OpenApp(e, configDim) ==
  /\ At("app", "closed")
  /\ CreateTable(configDim)
  /\ Becomes("app", Process("guard", e, configDim, 0))
  /\ UNCHANGED <<stamp, vectors, deaths>>

\* The dimension guard and reconcile: a fresh store is stamped, a matching one
\* opened, any other refused.
Guard ==
  /\ At("app", "guard")
  /\ LET p == proc["app"]
         fits == StoredDim(p.dim) = p.emb.dim
         fresh == stamp.backend = ""
     IN \/ fits /\ fresh /\ Becomes("app", [p EXCEPT !.pc = "stamp"])
        \/ fits /\ ~fresh /\ Accepts(p.emb) /\ Becomes("app", Opened(p))
        \/ (~fits \/ (~fresh /\ ~Accepts(p.emb))) /\ Becomes("app", Closed)
  /\ UNCHANGED <<tables, deaths>>

\* A bug to check against: the model's name in the backend's row.
WrittenSwapped(key, e) == e[IF key = "backend" THEN "model" ELSE key]

Written(key, e) == e[key]

\* write_provenance: one row, one commit, at a time.
Stamp(kind) ==
  /\ At(kind, "stamp")
  /\ LET p == proc[kind] IN
     /\ stamp' = [stamp EXCEPT ![Head(p.left)] = Written(Head(p.left), p.emb)]
     /\ Becomes(kind, CASE Len(p.left) > 1 -> [p EXCEPT !.left = Tail(@)]
                        [] Len(p.left) = 1 /\ kind = "app" -> Opened(p)
                        [] Len(p.left) = 1 /\ kind = "tool" -> Closed)
  /\ UNCHANGED <<width, vectors, deaths>>

\* insert_memory; vec0 refuses a vector of another width.
AddFact ==
  /\ At("app", "open")
  /\ Len(vectors) < MaxRows
  /\ width = proc["app"].emb.dim
  /\ vectors' = Append(vectors, proc["app"].emb)
  /\ UNCHANGED <<width, stamp, proc, deaths>>

\* update_memory re-embeds one row.
EditFact(i) ==
  /\ At("app", "open")
  /\ width = proc["app"].emb.dim
  /\ vectors' = [vectors EXCEPT ![i] = proc["app"].emb]
  /\ UNCHANGED <<width, stamp, proc, deaths>>

CloseApp ==
  /\ At("app", "open")
  /\ Becomes("app", Closed)
  /\ UNCHANGED <<tables, deaths>>

(***************************************************************************)
(* The tool.                                                               *)
(***************************************************************************)
\* reembed refuses an embedder of another dimension, else reads every row.
StartTool(e, defaultDim) ==
  /\ At("tool", "closed")
  /\ CreateTable(defaultDim)
  /\ IF e.dim # StoredDim(defaultDim) THEN UNCHANGED proc
     ELSE Becomes("tool", Process("embed", e, defaultDim, Len(vectors)))
  /\ UNCHANGED <<stamp, vectors, deaths>>

\* A bug to check against: a batch of vectors is left out.
ReembedAllButLast(e, seen) ==
  [i \in DOMAIN vectors |-> IF i < seen THEN e ELSE vectors[i]]

\* The rows it read, not those added since.
Reembed(e, seen) ==
  [i \in DOMAIN vectors |-> IF i <= seen THEN e ELSE vectors[i]]

\* All their vectors, one transaction; an UPDATE of another width fails it.
CommitVectors ==
  /\ At("tool", "embed")
  /\ LET p == proc["tool"] IN
     IF p.seen > 0 /\ width # p.emb.dim
     THEN Becomes("tool", Closed) /\ UNCHANGED vectors
     ELSE /\ vectors' = Reembed(p.emb, p.seen)
          /\ Becomes("tool", [p EXCEPT !.pc = "stamp"])
  /\ UNCHANGED <<width, stamp, deaths>>

\* What is not committed is gone, the rest is as the last commit left it.
Die(kind) ==
  /\ kind \in Mortal /\ ~At(kind, "closed") /\ deaths < MaxDeaths
  /\ Becomes(kind, Closed)
  /\ deaths' = deaths + 1
  /\ UNCHANGED tables

ToolEnds == At("tool", "stamp") /\ proc'["tool"] = Closed /\ deaths' = deaths

Remember ==
  /\ alone' = /\ alone \/ At("tool", "closed")
              /\ \E kind \in Kinds : proc'[kind] = Closed
  /\ torn' = \/ torn /\ ~(ToolEnds /\ alone)
             \/ At("tool", "stamp") /\ ~alone
             \/ At("tool", "stamp") /\ deaths' # deaths /\ proc'["tool"] = Closed

Next ==
  /\ \/ \E e, d \in Embedders : OpenApp(e, d.dim) \/ StartTool(e, d.dim)
     \/ Guard
     \/ \E kind \in Kinds : Stamp(kind) \/ Die(kind)
     \/ AddFact
     \/ \E i \in DOMAIN vectors : EditFact(i)
     \/ CloseApp
     \/ CommitVectors
  /\ Remember

Spec == Init /\ [][Next]_vars

(***************************************************************************)
(* Properties.                                                             *)
(***************************************************************************)

\* An open store holds vectors of one space only, the open embedder's: the
\* guard lets no other embedder reach a write, whatever stamps the dead left.
\* (A tool that dies between its vectors and its stamp leaves new vectors under
\* the old stamp, and one beside an application leaves both kinds; until a
\* re-embedding that has the store to itself completes the store is torn.)
NoMixedSpaces ==
  At("app", "open") /\ At("tool", "closed") /\ ~torn =>
    \A i \in DOMAIN vectors : vectors[i] = proc["app"].emb

\* Whatever died before and whoever shared the store, the tool, once it comes
\* to its end with nobody beside it, leaves a store whose vectors are all in
\* one space, and stamped with it.
ToolHeals ==
  [][ToolEnds /\ alone =>
       /\ stamp' = proc["tool"].emb
       /\ \A i \in DOMAIN vectors : vectors[i] = proc["tool"].emb]_vars
=============================================================================
