-------------------------- MODULE ProvenanceProofs --------------------------
(***************************************************************************)
(* Proofs about the provenance guard and the re-embedding tool, for any    *)
(* embedders, any number of rows and any number of deaths: an open store   *)
(* is never of mixed spaces, and the tool heals a torn one.                *)
(***************************************************************************)
EXTENDS Provenance, TLAPS

(***************************************************************************)
(* The inductive invariant.                                                *)
(***************************************************************************)

\* The rows of the provenance a process has yet to write.
Unwritten(left) ==
  CASE left = AllKeys -> Keys
    [] left = <<"model", "dim">> -> {"model", "dim"}
    [] left = <<"dim">> -> {"dim"}
    [] OTHER -> {}

\* Where each process can be, and what it has left to write there.
ProcOk ==
  /\ proc["app"].pc \in {"closed", "guard", "stamp", "open"}
  /\ proc["tool"].pc \in {"closed", "embed", "stamp"}
  /\ \A kind \in Kinds :
       /\ proc[kind].pc \in {"guard", "embed"} => proc[kind].left = AllKeys
       /\ proc[kind].pc = "stamp" => proc[kind].left # << >>

\* The rows a process has written are its embedder's.
WrittenBy(p) == \A key \in Keys \ Unwritten(p.left) : stamp[key] = p.emb[key]

AllFrom(e) == \A i \in DOMAIN vectors : vectors[i] = e

\* A tool that has the store to itself read every row, and then re-embedded
\* every row.
AloneOk ==
  alone =>
    /\ \E kind \in Kinds : proc[kind] = Closed
    /\ At("tool", "embed") => proc["tool"].seen = Len(vectors)
    /\ At("tool", "stamp") => AllFrom(proc["tool"].emb) /\ WrittenBy(proc["tool"])

\* The stamp says what the vectors are, and the open application is of it.
Consistent ==
  /\ vectors # << >> => AllFrom(stamp)
  /\ At("app", "open") => stamp = proc["app"].emb
  /\ At("app", "stamp") => vectors = << >> /\ WrittenBy(proc["app"])

StampIsFunction == stamp = [key \in Keys |-> stamp[key]]

Inv ==
  /\ TypeOK
  /\ StampIsFunction
  /\ ProcOk
  /\ AloneOk
  /\ torn \/ At("tool", "stamp") \/ Consistent

(***************************************************************************)
(* Lemmas.                                                                 *)
(***************************************************************************)

\* An embedder's identity is a function on the keys of the provenance, and
\* differs in its backend from the stamp of a fresh store.
LEMMA EmbedderKeys ==
  ASSUME NEW e \in Embedders
  PROVE  /\ e = [key \in Keys |-> e[key]]
         /\ e.backend # "" /\ e.dim \in Dims
         /\ \A key \in Keys : e[key] \in Values(key)
<1>1. e \in [backend: STRING \ {""}, model: STRING \ {""}, dim: Nat \ {0}]
  BY EmbeddersAssumption
<1>2. e = [key \in Keys |-> e[key]]
  BY <1>1 DEF Keys
<1>3. e.backend # "" /\ e.dim \in Dims
  BY <1>1 DEF Dims
<1>4. \A key \in Keys : e[key] \in Values(key)
  BY DEF Values
<1> QED
  BY <1>2, <1>3, <1>4

\* A stamp whose every row is the embedder's is the embedder's identity.
LEMMA StampedWith ==
  ASSUME NEW s, s = [key \in Keys |-> s[key]], NEW e \in Embedders,
         \A key \in Keys : s[key] = e[key]
  PROVE  s = e
<1>1. e = [key \in Keys |-> e[key]]
  BY EmbedderKeys
<1>2. [key \in Keys |-> s[key]] = [key \in Keys |-> e[key]]
  OBVIOUS
<1> QED
  BY <1>1, <1>2

\* The rows are written in one order, from first to last.
LEMMA NextRow ==
  ASSUME NEW left \in {AllKeys, <<"model", "dim">>, <<"dim">>, << >>}, left # << >>
  PROVE  /\ Head(left) \in Unwritten(left)
         /\ Unwritten(left) \subseteq Keys
         /\ Unwritten(Tail(left)) = Unwritten(left) \ {Head(left)}
         /\ Len(left) # 1 <=> Len(left) > 1
         /\ Len(left) = 1 => Unwritten(left) = {Head(left)}
         /\ Len(left) > 1 => /\ Tail(left) \in {<<"model", "dim">>, <<"dim">>}
                             /\ Tail(left) # << >>
<1>1. CASE left = AllKeys
  BY <1>1 DEF AllKeys, Unwritten, Keys
<1>2. CASE left = <<"model", "dim">>
  BY <1>2 DEF AllKeys, Unwritten, Keys
<1>3. CASE left = <<"dim">>
  BY <1>3 DEF AllKeys, Unwritten, Keys
<1> QED
  BY <1>1, <1>2, <1>3

\* What is at the pc, and not closed, is a process with an embedder.
LEMMA ProcFields ==
  ASSUME TypeOK, NEW kind \in Kinds
  PROVE  /\ proc[kind] \in Proc
         /\ proc[kind].pc = "closed" <=> proc[kind] = Closed
         /\ proc[kind].pc # "closed" =>
              /\ proc[kind].emb \in Embedders /\ proc[kind].dim \in Dims
              /\ proc[kind].seen \in 0..MaxRows
              /\ proc[kind].left \in {AllKeys, <<"model", "dim">>, <<"dim">>, << >>}
<1>1. proc[kind] \in Proc
  BY DEF TypeOK
<1> QED
  BY <1>1 DEF Proc, Closed

\* A process that moves to another pc, with other rows left to write.
MovedTo(p, pc, left) == [p EXCEPT !.pc = pc, !.left = left]

\* It is a process still, of the same embedder.
LEMMA ProcMoved ==
  ASSUME NEW p \in Proc, p.pc # "closed", NEW pc \in {"guard", "stamp", "open", "embed"},
         NEW left \in {AllKeys, <<"model", "dim">>, <<"dim">>, << >>}
  PROVE  LET q == MovedTo(p, pc, left) IN
         /\ q \in Proc /\ q # Closed
         /\ q.pc = pc /\ q.left = left /\ q.emb = p.emb /\ q.seen = p.seen
<1>1. p \in [pc: {"guard", "stamp", "open", "embed"}, emb: Embedders, dim: Dims,
             seen: 0..MaxRows, left: {AllKeys, <<"model", "dim">>, <<"dim">>, << >>}]
  BY DEF Proc, Closed
<1> DEFINE q == MovedTo(p, pc, left)
<1> USE DEF MovedTo
<1>2. /\ q.pc = pc /\ q.left = left /\ q.emb = p.emb /\ q.seen = p.seen
  BY <1>1
<1>3. q \in [pc: {"guard", "stamp", "open", "embed"}, emb: Embedders, dim: Dims,
             seen: 0..MaxRows, left: {AllKeys, <<"model", "dim">>, <<"dim">>, << >>}]
  BY <1>1
<1>4. q.pc # Closed.pc
  BY <1>2 DEF Closed
<1> HIDE DEF q
<1>5. q \in Proc /\ q # Closed
  BY <1>3, <1>4 DEF Proc
<1> QED
  BY <1>2, <1>5 DEF q

\* A process that starts.
LEMMA ProcStarts ==
  ASSUME NEW pc \in {"guard", "embed"}, NEW e \in Embedders, NEW dim \in Dims,
         NEW seen \in 0..MaxRows
  PROVE  LET q == Process(pc, e, dim, seen) IN
         /\ q \in Proc /\ q # Closed
         /\ q.pc = pc /\ q.left = AllKeys /\ q.emb = e /\ q.seen = seen
<1> DEFINE q == Process(pc, e, dim, seen)
<1>1. /\ q.pc = pc /\ q.left = AllKeys /\ q.emb = e /\ q.seen = seen
      /\ q \in Proc
  BY DEF Process, Proc
<1>2. q.pc # Closed.pc
  BY <1>1 DEF Closed
<1> HIDE DEF q
<1>3. q # Closed
  BY <1>2
<1> QED
  BY <1>1, <1>3 DEF q

\* What a step that is not the end of the tool's stamp leaves of the history
\* torn.
LEMMA NotTorn ==
  ASSUME Inv, Remember, ~torn'
  PROVE  /\ At("tool", "stamp") => alone
         /\ At("tool", "stamp") /\ proc'["tool"] = Closed => deaths' = deaths
         /\ ~At("tool", "stamp") => Consistent
  BY DEF Inv, Remember, ToolEnds

\* A step of the application: it never has the store to itself beside a tool,
\* and what it must preserve is that the stamp says what the vectors are.
LEMMA AppMoves ==
  ASSUME Inv, Remember, TypeOK', StampIsFunction', ProcOk',
         proc'["tool"] = proc["tool"],
         At("app", "closed") => ~At("app", "closed")',
         Consistent /\ ~At("tool", "stamp") => Consistent'
  PROVE  Inv'
<1>1. At("tool", "stamp")' <=> At("tool", "stamp")
  BY DEF At
<1>2. At("tool", "embed")' <=> At("tool", "embed")
  BY DEF At
<1>3. ASSUME alone' PROVE At("tool", "closed")
  <2>1. SUFFICES ASSUME ~At("tool", "closed") PROVE FALSE
    OBVIOUS
  <2>2. alone /\ \E kind \in Kinds : proc'[kind] = Closed
    BY <1>3, <2>1 DEF Remember
  <2>3. proc["tool"] # Closed
    BY <2>1 DEF At, Closed
  <2>4. proc["app"] = Closed
    BY <2>2, <2>3 DEF Inv, AloneOk, Kinds
  <2>5. proc'["app"] = Closed
    BY <2>2, <2>3 DEF Kinds
  <2> QED
    BY <2>4, <2>5 DEF At, Closed
<1>4. AloneOk'
  BY <1>1, <1>2, <1>3 DEF AloneOk, At, Remember
<1>5. torn' \/ At("tool", "stamp")' \/ Consistent'
  BY <1>1, NotTorn
<1> QED
  BY <1>4, <1>5 DEF Inv

(***************************************************************************)
(* The steps.                                                              *)
(***************************************************************************)

\* An empty store that nobody has at work.
LEMMA InvInitially == Init => Inv
<1> SUFFICES ASSUME Init PROVE Inv
  OBVIOUS
<1>1. /\ width = 0 /\ stamp = NoStamp /\ vectors = << >>
      /\ proc = [k \in Kinds |-> Closed]
      /\ deaths = 0 /\ alone = TRUE /\ torn = FALSE
  BY DEF Init
<1>2. \A key \in Keys : NoStamp[key] \in Values(key)
  BY DEF Values
<1>3. stamp = [key \in Keys |-> stamp[key]]
  BY <1>1 DEF NoStamp, Keys
<1>4. DOMAIN stamp = Keys
  BY <1>1 DEF NoStamp, Keys
<1>5. TypeOK
  <2>1. proc \in [Kinds -> Proc]
    BY <1>1 DEF Proc
  <2>2. /\ vectors \in Seq(Embedders) /\ Len(vectors) <= MaxRows
        /\ deaths \in 0..MaxDeaths
    BY <1>1, ProvenanceBoundsAssumption
  <2>3. \A key \in Keys : stamp[key] \in Values(key)
    BY <1>1, <1>2
  <2> QED
    BY <1>1, <1>4, <2>1, <2>2, <2>3 DEF TypeOK
<1>6. \A k \in Kinds : proc[k] = Closed /\ proc[k].pc = "closed"
  BY <1>1 DEF Closed
<1>7. ProcOk /\ AloneOk /\ Consistent
  BY <1>1, <1>6 DEF ProcOk, AloneOk, Consistent, Kinds, At
<1> QED
  BY <1>3, <1>5, <1>7 DEF Inv, StampIsFunction

\* The history is recorded with every step.
LEMMA RememberType ==
  ASSUME TypeOK, Remember
  PROVE  alone' \in BOOLEAN /\ torn' \in BOOLEAN
  BY DEF TypeOK, Remember

\* One process moves, and the other stays.
LEMMA OneMoves ==
  ASSUME TypeOK, NEW kind \in Kinds, NEW p \in Proc, Becomes(kind, p)
  PROVE  /\ proc' \in [Kinds -> Proc] /\ proc'[kind] = p
         /\ \A k \in Kinds \ {kind} : proc'[k] = proc[k]
  BY DEF TypeOK, Becomes

\* NexusMemory opens the file: the table is made, and the guard comes next.
LEMMA OpenAppInv ==
  ASSUME Inv, Remember, NEW e \in Embedders, NEW d \in Embedders, OpenApp(e, d.dim)
  PROVE  Inv'
<1>1. /\ At("app", "closed") /\ CreateTable(d.dim)
      /\ Becomes("app", Process("guard", e, d.dim, 0))
      /\ UNCHANGED <<stamp, vectors, deaths>>
  BY DEF OpenApp
<1>2. TypeOK /\ d.dim \in Dims
  BY EmbedderKeys DEF Inv
<1> DEFINE q == Process("guard", e, d.dim, 0)
<1>3. /\ q \in Proc /\ q # Closed /\ q.pc = "guard" /\ q.left = AllKeys
  BY <1>2, ProcStarts, ProvenanceBoundsAssumption
<1> HIDE DEF q
<1>4. Becomes("app", q)
  BY <1>1 DEF q
<1>5. "app" \in Kinds /\ "tool" \in Kinds \ {"app"} /\ Kinds = {"app", "tool"}
  BY DEF Kinds
<1>6. /\ proc' \in [Kinds -> Proc] /\ proc'["app"] = q
      /\ proc'["tool"] = proc["tool"]
  BY <1>2, <1>3, <1>4, <1>5, OneMoves
<1>7. TypeOK'
  BY <1>1, <1>2, <1>6, RememberType DEF TypeOK, CreateTable
<1>8. ProcOk'
  BY <1>3, <1>5, <1>6 DEF Inv, ProcOk
<1>9. StampIsFunction'
  BY <1>1 DEF Inv, StampIsFunction
<1>10. ~At("app", "closed")'
  BY <1>3, <1>6 DEF At
<1>11. Consistent => Consistent'
  BY <1>1, <1>3, <1>6 DEF Consistent, At, AllFrom
<1> QED
  BY <1>6, <1>7, <1>8, <1>9, <1>10, <1>11, AppMoves

\* The guard: a store without a stamp is stamped, and it is empty unless torn;
\* one with the embedder's own stamp is opened.
LEMMA GuardInv ==
  ASSUME Inv, Remember, Guard
  PROVE  Inv'
<1> DEFINE p == proc["app"]
<1>1. At("app", "guard") /\ UNCHANGED <<width, stamp, vectors, deaths>>
  BY DEF Guard, tables
<1>2. TypeOK /\ "app" \in Kinds /\ "tool" \in Kinds \ {"app"} /\ Kinds = {"app", "tool"}
  BY DEF Inv, Kinds
<1>3. /\ p \in Proc /\ p.pc = "guard" /\ p.emb \in Embedders /\ p.left = AllKeys
  BY <1>1, <1>2, ProcFields DEF At, Inv, ProcOk
<1>4. StampIsFunction'
  BY <1>1 DEF Inv, StampIsFunction
<1>5. ASSUME NEW q \in Proc, Becomes("app", q),
             q.pc \in {"closed", "stamp", "open"},
             q.pc = "stamp" => q.left # << >>,
             Consistent /\ q.pc = "stamp" => vectors = << >> /\ q.left = AllKeys,
             q.pc = "open" => stamp = q.emb
      PROVE  Inv'
  <2>1. /\ proc' \in [Kinds -> Proc] /\ proc'["app"] = q
        /\ proc'["tool"] = proc["tool"]
    BY <1>2, <1>5, OneMoves
  <2>2. TypeOK'
    BY <1>1, <1>2, <2>1, RememberType DEF TypeOK
  <2>3. ProcOk'
    BY <1>2, <1>5, <2>1 DEF Inv, ProcOk
  <2>4. ~At("app", "closed")
    BY <1>1 DEF At
  <2>5. Consistent => Consistent'
    <3>1. Keys \ Unwritten(AllKeys) = {}
      BY DEF Unwritten, AllKeys
    <3> QED
      BY <1>1, <1>5, <2>1, <3>1 DEF Consistent, At, AllFrom, WrittenBy
  <2> QED
    BY <1>4, <2>1, <2>2, <2>3, <2>4, <2>5, AppMoves
<1>6. CASE stamp.backend = "" /\ Becomes("app", [p EXCEPT !.pc = "stamp"])
  <2> DEFINE q == MovedTo(p, "stamp", AllKeys)
  <2>1. p.pc # "closed" /\ AllKeys # << >>
    BY <1>3 DEF AllKeys
  <2>2. q \in Proc /\ q.pc = "stamp" /\ q.left = AllKeys
    BY <1>3, <2>1, ProcMoved
  <2>3. [p EXCEPT !.pc = "stamp"] = q
    BY <1>3 DEF Proc, Closed, MovedTo
  <2>4. Consistent => vectors = << >>
    <3>1. SUFFICES ASSUME Consistent, vectors # << >> PROVE FALSE
      OBVIOUS
    <3>2. vectors \in Seq(Embedders) /\ 1 \in DOMAIN vectors
      BY <1>2, <3>1 DEF TypeOK
    <3>3. vectors[1] = stamp /\ vectors[1] \in Embedders
      BY <3>1, <3>2 DEF Consistent, AllFrom
    <3> QED
      BY <1>6, <3>3, EmbedderKeys
  <2> HIDE DEF q
  <2> QED
    BY <1>5, <1>6, <2>1, <2>2, <2>3, <2>4
<1>7. CASE Accepts(p.emb) /\ Becomes("app", Opened(p))
  <2>1. /\ Opened(p) \in Proc /\ Opened(p).pc = "open"
        /\ Opened(p).emb = p.emb
    BY <1>3, ProcMoved DEF Opened, MovedTo
  <2>2. stamp = p.emb
    BY <1>7 DEF Accepts
  <2> HIDE DEF p
  <2> QED
    BY <1>5, <1>7, <2>1, <2>2
<1>8. CASE Becomes("app", Closed)
  BY <1>5, <1>8 DEF Proc, Closed
<1> QED
  BY <1>6, <1>7, <1>8 DEF Guard

\* write_provenance: one more row is the embedder's.
LEMMA StampWrites ==
  ASSUME Inv, NEW kind \in Kinds, At(kind, "stamp"),
         stamp' = [stamp EXCEPT ![Head(proc[kind].left)] =
                     Written(Head(proc[kind].left), proc[kind].emb)]
  PROVE  /\ StampIsFunction'
         /\ DOMAIN stamp' = Keys /\ \A key \in Keys : stamp'[key] \in Values(key)
         /\ WrittenBy(proc[kind]) =>
              \A key \in Keys \ Unwritten(Tail(proc[kind].left)) :
                stamp'[key] = proc[kind].emb[key]
<1> DEFINE left == proc[kind].left
           e == proc[kind].emb
<1>1. TypeOK /\ proc[kind].pc = "stamp"
  BY DEF Inv, At
<1>2. /\ e \in Embedders /\ left # << >>
      /\ left \in {AllKeys, <<"model", "dim">>, <<"dim">>, << >>}
  BY <1>1, ProcFields DEF Inv, ProcOk
<1> HIDE DEF left, e
<1>3. PICK key : key = Head(left)
  OBVIOUS
<1>4. /\ key \in Keys
      /\ Unwritten(Tail(left)) = Unwritten(left) \ {key}
  BY <1>2, <1>3, NextRow
<1>5. stamp' = [stamp EXCEPT ![key] = e[key]]
  BY <1>3 DEF Written, left, e
<1>6. /\ stamp = [k \in Keys |-> stamp[k]]
      /\ \A k \in Keys : stamp[k] \in Values(k)
  BY <1>1 DEF Inv, StampIsFunction, TypeOK
<1>7. /\ stamp' = [k \in Keys |-> stamp'[k]]
      /\ stamp'[key] = e[key]
      /\ \A k \in Keys \ {key} : stamp'[k] = stamp[k]
  BY <1>4, <1>5, <1>6
<1>8. \A k \in Keys : stamp'[k] \in Values(k)
  BY <1>2, <1>4, <1>6, <1>7, EmbedderKeys
<1>9. DOMAIN stamp' = Keys
  BY <1>7
<1>10. ASSUME WrittenBy(proc[kind]), NEW k \in Keys \ Unwritten(Tail(left))
       PROVE  stamp'[k] = e[k]
  BY <1>4, <1>7, <1>10 DEF WrittenBy, left, e
<1> QED
  BY <1>7, <1>8, <1>9, <1>10 DEF StampIsFunction, left, e

\* The application stamps a store that is empty unless torn.
LEMMA StampAppInv ==
  ASSUME Inv, Remember, Stamp("app")
  PROVE  Inv'
<1> DEFINE p == proc["app"]
           rest == Tail(p.left)
<1>1. /\ At("app", "stamp") /\ UNCHANGED <<width, vectors, deaths>>
      /\ stamp' = [stamp EXCEPT ![Head(p.left)] = Written(Head(p.left), p.emb)]
  BY DEF Stamp
<1>2. TypeOK /\ "app" \in Kinds /\ "tool" \in Kinds \ {"app"} /\ Kinds = {"app", "tool"}
  BY DEF Inv, Kinds
<1>3. /\ p \in Proc /\ p.pc = "stamp" /\ p.emb \in Embedders /\ p.left # << >>
      /\ p.left \in {AllKeys, <<"model", "dim">>, <<"dim">>, << >>}
  BY <1>1, <1>2, ProcFields DEF At, Inv, ProcOk
<1>4. /\ StampIsFunction'
      /\ DOMAIN stamp' = Keys /\ \A key \in Keys : stamp'[key] \in Values(key)
      /\ WrittenBy(p) =>
           \A key \in Keys \ Unwritten(rest) : stamp'[key] = p.emb[key]
  BY <1>1, <1>2, StampWrites
<1>5. ~At("app", "closed")
  BY <1>3 DEF At
<1> HIDE DEF rest
<1>6. ASSUME NEW q \in Proc, Becomes("app", q), q.emb = p.emb,
             \/ q.pc = "stamp" /\ q.left = rest /\ rest # << >>
             \/ q.pc = "open" /\ Unwritten(rest) = {}
      PROVE  Inv'
  <2>1. /\ proc' \in [Kinds -> Proc] /\ proc'["app"] = q
        /\ proc'["tool"] = proc["tool"]
    BY <1>2, <1>6, OneMoves
  <2>2. TypeOK'
    BY <1>1, <1>2, <1>4, <2>1, RememberType DEF TypeOK
  <2>3. ProcOk'
    BY <1>2, <1>6, <2>1 DEF Inv, ProcOk
  <2>4. ASSUME Consistent PROVE Consistent'
    <3>1. /\ vectors' = << >>
          /\ \A key \in Keys \ Unwritten(rest) : stamp'[key] = p.emb[key]
      BY <1>1, <1>4, <2>4 DEF Consistent
    <3>2. CASE q.pc = "stamp"
      BY <1>6, <2>1, <3>1, <3>2 DEF Consistent, At, WrittenBy
    <3>3. CASE q.pc = "open"
      <4>1. \A key \in Keys : stamp'[key] = p.emb[key]
        BY <1>6, <3>1, <3>3
      <4>2. stamp' = [key \in Keys |-> stamp'[key]]
        BY <1>4 DEF StampIsFunction
      <4>3. stamp' = p.emb
        BY <1>3, <4>1, <4>2, StampedWith
      <4> QED
        BY <1>6, <2>1, <3>1, <3>3, <4>3 DEF Consistent, At
    <3> QED
      BY <1>6, <3>2, <3>3
  <2> QED
    BY <1>4, <1>5, <2>1, <2>2, <2>3, <2>4, AppMoves
<1>7. /\ Len(p.left) # 1 <=> Len(p.left) > 1
      /\ Len(p.left) = 1 => Unwritten(rest) = {}
      /\ Len(p.left) > 1 =>
           /\ rest \in {AllKeys, <<"model", "dim">>, <<"dim">>, << >>}
           /\ rest # << >>
  BY <1>3, NextRow DEF rest
<1>8. CASE Len(p.left) > 1
  <2> DEFINE q == MovedTo(p, "stamp", rest)
  <2>1. /\ rest \in {AllKeys, <<"model", "dim">>, <<"dim">>, << >>}
        /\ p \in Proc /\ p.pc # "closed"
    BY <1>3, <1>7, <1>8
  <2>2. /\ q \in Proc /\ q.pc = "stamp" /\ q.left = rest /\ q.emb = p.emb
    BY <2>1, ProcMoved
  <2>3. [p EXCEPT !.left = rest] = q
    BY <1>3 DEF Proc, Closed, MovedTo
  <2>4. Becomes("app", [p EXCEPT !.left = rest])
    <3> DEFINE next == CASE Len(p.left) > 1 -> [p EXCEPT !.left = Tail(@)]
                         [] Len(p.left) = 1 /\ "app" = "app" -> Opened(p)
                         [] Len(p.left) = 1 /\ "app" = "tool" -> Closed
    <3>1. Becomes("app", next)
      BY DEF Stamp
    <3>2. next = [p EXCEPT !.left = rest]
      BY <1>7, <1>8 DEF rest
    <3> HIDE DEF next
    <3> QED
      BY <3>1, <3>2
  <2> HIDE DEF q
  <2> QED
    BY <1>6, <1>7, <1>8, <2>2, <2>3, <2>4
<1>9. CASE Len(p.left) = 1
  <2>1. Opened(p) \in Proc /\ Opened(p).pc = "open" /\ Opened(p).emb = p.emb
    BY <1>3, ProcMoved DEF Opened, MovedTo
  <2>2. Becomes("app", Opened(p))
    BY <1>9 DEF Stamp
  <2> HIDE DEF p
  <2> QED
    BY <1>6, <1>7, <1>9, <2>1, <2>2
<1> QED
  BY <1>7, <1>8, <1>9

\* An open application writes vectors of its own space only, the stamp's.
LEMMA WriteInv ==
  ASSUME Inv, Remember, At("app", "open"),
         vectors' \in Seq(Embedders) /\ Len(vectors') <= MaxRows,
         \A i \in DOMAIN vectors' :
           \/ vectors'[i] = proc["app"].emb
           \/ i \in DOMAIN vectors /\ vectors'[i] = vectors[i],
         UNCHANGED <<width, stamp, proc, deaths>>
  PROVE  Inv'
<1>1. TypeOK' /\ StampIsFunction' /\ ProcOk'
  BY RememberType DEF Inv, TypeOK, StampIsFunction, ProcOk
<1>2. ~At("app", "closed")
  BY DEF At
<1>3. Consistent => Consistent'
  <2>1. SUFFICES ASSUME Consistent PROVE Consistent'
    OBVIOUS
  <2>2. \A i \in DOMAIN vectors' : vectors'[i] = stamp
    BY <2>1 DEF Consistent, AllFrom
  <2> QED
    BY <2>1, <2>2 DEF Consistent, AllFrom, At
<1> QED
  BY <1>1, <1>2, <1>3, AppMoves

\* insert_memory and update_memory.
LEMMA FactInv ==
  ASSUME Inv, Remember, AddFact \/ \E i \in DOMAIN vectors : EditFact(i)
  PROVE  Inv'
<1>1. /\ At("app", "open") /\ UNCHANGED <<width, stamp, proc, deaths>>
  BY DEF AddFact, EditFact
<1>2. TypeOK /\ vectors \in Seq(Embedders) /\ Len(vectors) <= MaxRows
  BY DEF Inv, TypeOK
<1>3. proc["app"].emb \in Embedders
  BY <1>1, <1>2, ProcFields DEF At, Kinds
<1>4. CASE AddFact
  <2>1. vectors' = Append(vectors, proc["app"].emb) /\ Len(vectors) < MaxRows
    BY <1>4 DEF AddFact
  <2>2. vectors' \in Seq(Embedders) /\ Len(vectors') <= MaxRows
    BY <1>2, <1>3, <2>1, ProvenanceBoundsAssumption
  <2>3. \A i \in DOMAIN vectors' :
          \/ vectors'[i] = proc["app"].emb
          \/ i \in DOMAIN vectors /\ vectors'[i] = vectors[i]
    BY <1>2, <1>3, <2>1
  <2> QED
    BY <1>1, <2>2, <2>3, WriteInv
<1>5. CASE \E i \in DOMAIN vectors : EditFact(i)
  <2>1. PICK i \in DOMAIN vectors : vectors' = [vectors EXCEPT ![i] = proc["app"].emb]
    BY <1>5 DEF EditFact
  <2> QED
    BY <1>1, <1>2, <1>3, <2>1, WriteInv
<1> QED
  BY <1>4, <1>5

\* close: the application is gone.
LEMMA CloseAppInv ==
  ASSUME Inv, Remember,
         CloseApp \/ /\ ~At("app", "closed") /\ Becomes("app", Closed)
                     /\ UNCHANGED <<width, stamp, vectors>>
                     /\ deaths' \in 0..MaxDeaths
  PROVE  Inv'
<1>1. /\ ~At("app", "closed") /\ Becomes("app", Closed)
      /\ UNCHANGED <<width, stamp, vectors>> /\ deaths' \in 0..MaxDeaths
  BY DEF CloseApp, At, tables, Inv, TypeOK
<1>2. /\ TypeOK /\ "app" \in Kinds /\ "tool" \in Kinds \ {"app"}
      /\ Kinds = {"app", "tool"} /\ Closed \in Proc /\ Closed.pc = "closed"
  BY DEF Inv, Kinds, Proc, Closed
<1>3. /\ proc' \in [Kinds -> Proc] /\ proc'["app"] = Closed
      /\ proc'["tool"] = proc["tool"]
  BY <1>1, <1>2, OneMoves
<1>4. TypeOK'
  BY <1>1, <1>2, <1>3, RememberType DEF TypeOK
<1>5. ProcOk'
  BY <1>2, <1>3 DEF Inv, ProcOk
<1>6. StampIsFunction'
  BY <1>1 DEF Inv, StampIsFunction
<1>7. Consistent => Consistent'
  BY <1>1, <1>2, <1>3 DEF Consistent, At, AllFrom
<1> QED
  BY <1>1, <1>3, <1>4, <1>5, <1>6, <1>7, AppMoves

\* A step of the tool that leaves the application where it is: what it must
\* preserve is what a tool alone with the store has done, and that the stamp
\* says what the vectors are, once it is not at its stamp.
LEMMA ToolMoves ==
  ASSUME Inv, Remember, NEW q \in Proc, Becomes("tool", q),
         q.pc \in {"closed", "embed", "stamp"},
         q.pc = "embed" => q.left = AllKeys, q.pc = "stamp" => q.left # << >>,
         width' \in {0} \cup Dims, deaths' \in 0..MaxDeaths,
         StampIsFunction', DOMAIN stamp' = Keys,
         \A key \in Keys : stamp'[key] \in Values(key),
         vectors' \in Seq(Embedders) /\ Len(vectors') <= MaxRows,
         (alone \/ At("tool", "closed")) /\ proc["app"] = Closed =>
           /\ q.pc = "embed" => q.seen = Len(vectors')
           /\ q.pc = "stamp" => /\ \A i \in DOMAIN vectors' : vectors'[i] = q.emb
                                /\ \A key \in Keys \ Unwritten(q.left) :
                                     stamp'[key] = q.emb[key],
         q.pc # "stamp" /\ ~torn' /\ proc'["app"] = proc["app"] => Consistent'
  PROVE  Inv'
<1>1. /\ TypeOK /\ "tool" \in Kinds /\ "app" \in Kinds \ {"tool"}
      /\ Kinds = {"app", "tool"}
  BY DEF Inv, Kinds
<1>2. /\ proc' \in [Kinds -> Proc] /\ proc'["tool"] = q
      /\ proc'["app"] = proc["app"]
  BY <1>1, OneMoves
<1>3. TypeOK'
  BY <1>1, <1>2, RememberType DEF TypeOK
<1>4. ProcOk'
  BY <1>1, <1>2 DEF Inv, ProcOk
<1>5. AloneOk'
  <2>1. ASSUME alone'
        PROVE  /\ \E kind \in Kinds : proc'[kind] = Closed
               /\ q.pc # "closed" => (alone \/ At("tool", "closed")) /\ proc["app"] = Closed
    <3>1. (alone \/ At("tool", "closed")) /\ \E kind \in Kinds : proc'[kind] = Closed
      BY <2>1 DEF Remember
    <3>2. q.pc # "closed" => q # Closed
      BY DEF Closed
    <3>3. q = Closed \/ proc["app"] = Closed
      BY <1>1, <1>2, <3>1
    <3> QED
      BY <3>1, <3>2, <3>3
  <2>2. /\ At("tool", "embed")' <=> q.pc = "embed"
        /\ At("tool", "stamp")' <=> q.pc = "stamp"
    BY <1>2 DEF At
  <2>3. ASSUME alone', q.pc = "embed" PROVE (proc["tool"].seen = Len(vectors))'
    BY <1>2, <2>1, <2>3
  <2>4. ASSUME alone', q.pc = "stamp"
        PROVE  AllFrom(proc["tool"].emb)' /\ WrittenBy(proc["tool"])'
    <3>1. /\ \A i \in DOMAIN vectors' : vectors'[i] = q.emb
          /\ \A key \in Keys \ Unwritten(q.left) : stamp'[key] = q.emb[key]
      BY <2>1, <2>4
    <3> QED
      BY <1>2, <3>1 DEF AllFrom, WrittenBy
  <2> QED
    BY <2>1, <2>2, <2>3, <2>4 DEF AloneOk
<1>6. torn' \/ At("tool", "stamp")' \/ Consistent'
  BY <1>2 DEF At
<1> QED
  BY <1>3, <1>4, <1>5, <1>6 DEF Inv

\* reembed refuses, or reads every row.
LEMMA StartToolInv ==
  ASSUME Inv, Remember, NEW e \in Embedders, NEW d \in Embedders, StartTool(e, d.dim)
  PROVE  Inv'
<1>1. /\ At("tool", "closed") /\ CreateTable(d.dim)
      /\ IF e.dim # StoredDim(d.dim) THEN UNCHANGED proc
         ELSE Becomes("tool", Process("embed", e, d.dim, Len(vectors)))
      /\ UNCHANGED <<stamp, vectors, deaths>>
  BY DEF StartTool
<1>2. /\ TypeOK /\ d.dim \in Dims /\ StampIsFunction /\ proc["tool"] = Closed
  BY <1>1, ProcFields, EmbedderKeys DEF Inv, At, Kinds
<1>3. /\ width' \in {0} \cup Dims /\ deaths' \in 0..MaxDeaths
      /\ StampIsFunction' /\ DOMAIN stamp' = Keys
      /\ \A key \in Keys : stamp'[key] \in Values(key)
      /\ vectors' \in Seq(Embedders) /\ Len(vectors') <= MaxRows
  BY <1>1, <1>2 DEF TypeOK, CreateTable, StampIsFunction
<1>4. ~torn' /\ proc'["app"] = proc["app"] => Consistent'
  BY <1>1, NotTorn DEF At, Consistent, AllFrom, WrittenBy
<1>5. CASE e.dim # StoredDim(d.dim)
  <2>1. Becomes("tool", Closed)
    BY <1>1, <1>2, <1>5 DEF Becomes, TypeOK
  <2>2. Closed \in Proc /\ Closed.pc = "closed"
    BY DEF Proc, Closed
  <2> QED
    BY <1>3, <1>4, <2>1, <2>2, ToolMoves
<1>6. CASE e.dim = StoredDim(d.dim) /\ Len(vectors) \in 0..MaxRows
  <2> DEFINE q == Process("embed", e, d.dim, Len(vectors))
  <2>1. /\ q \in Proc /\ q.pc = "embed" /\ q.left = AllKeys
        /\ q.seen = Len(vectors)
    BY <1>2, <1>6, ProcStarts
  <2>2. Becomes("tool", q)
    BY <1>1, <1>6
  <2> HIDE DEF q
  <2>3. q.seen = Len(vectors')
    BY <1>1, <2>1
  <2> QED
    BY <1>3, <1>4, <2>1, <2>2, <2>3, ToolMoves
<1>7. Len(vectors) \in 0..MaxRows
  BY <1>2 DEF TypeOK
<1> QED
  BY <1>5, <1>6, <1>7

\* The vectors of the rows it read are re-embedded, or an UPDATE fails it.
LEMMA CommitVectorsInv ==
  ASSUME Inv, Remember, CommitVectors
  PROVE  Inv'
<1> DEFINE p == proc["tool"]
<1>1. At("tool", "embed") /\ UNCHANGED <<width, stamp, deaths>>
  BY DEF CommitVectors
<1>2. TypeOK /\ "tool" \in Kinds
  BY DEF Inv, Kinds
<1>3. /\ p \in Proc /\ p.pc = "embed" /\ p.emb \in Embedders /\ p.left = AllKeys
      /\ AllKeys # << >>
  BY <1>1, <1>2, ProcFields DEF At, Inv, ProcOk, AllKeys
<1>4. /\ width' \in {0} \cup Dims /\ deaths' \in 0..MaxDeaths
      /\ StampIsFunction' /\ DOMAIN stamp' = Keys
      /\ \A key \in Keys : stamp'[key] \in Values(key)
  BY <1>1, <1>2 DEF TypeOK, StampIsFunction, Inv
<1>5. CASE Becomes("tool", Closed) /\ UNCHANGED vectors
  <2>1. Closed \in Proc /\ Closed.pc = "closed"
    BY DEF Proc, Closed
  <2>2. ~torn' /\ proc'["app"] = proc["app"] => Consistent'
    BY <1>1, <1>5, NotTorn DEF At, Consistent, AllFrom, WrittenBy
  <2>3. vectors' \in Seq(Embedders) /\ Len(vectors') <= MaxRows
    BY <1>2, <1>5 DEF TypeOK
  <2> QED
    BY <1>4, <1>5, <2>1, <2>2, <2>3, ToolMoves
<1>6. CASE /\ vectors' = Reembed(p.emb, p.seen)
           /\ Becomes("tool", [p EXCEPT !.pc = "stamp"])
  <2>0. PICK q : q = MovedTo(p, "stamp", AllKeys)
    OBVIOUS
  <2>1. q \in Proc /\ q.pc = "stamp" /\ q.left = AllKeys /\ q.emb = p.emb
    BY <1>3, <2>0, ProcMoved
  <2>2. [p EXCEPT !.pc = "stamp"] = q
    BY <1>3, <2>0 DEF Proc, Closed, MovedTo
  <2>3. vectors' \in Seq(Embedders) /\ Len(vectors') <= MaxRows
    BY <1>2, <1>3, <1>6 DEF TypeOK, Reembed
  <2>4. proc["app"] = Closed /\ (alone \/ At("tool", "closed")) =>
          \A i \in DOMAIN vectors' : vectors'[i] = q.emb
    <3>1. SUFFICES ASSUME alone
                   PROVE  \A i \in DOMAIN vectors' : vectors'[i] = p.emb
      BY <1>1, <2>1 DEF At
    <3>2. p.seen = Len(vectors)
      BY <1>1, <3>1 DEF Inv, AloneOk
    <3> QED
      BY <1>2, <1>6, <3>2 DEF TypeOK, Reembed
  <2>5. Keys \ Unwritten(AllKeys) = {}
    BY DEF Unwritten, AllKeys
  <2>6. Becomes("tool", q)
    BY <1>6, <2>2
  <2> QED
    BY <1>3, <1>4, <2>1, <2>3, <2>4, <2>5, <2>6, ToolMoves
<1> QED
  BY <1>5, <1>6 DEF CommitVectors

\* The tool's stamp: when it has had the store to itself, it ends with every
\* vector of the space the stamp names.
LEMMA ToolStamps ==
  ASSUME Inv, Stamp("tool"), alone, proc'["tool"] = Closed
  PROVE  /\ stamp' = proc["tool"].emb
         /\ \A i \in DOMAIN vectors : vectors[i] = proc["tool"].emb
<1> DEFINE p == proc["tool"]
<1>1. /\ At("tool", "stamp") /\ TypeOK /\ "tool" \in Kinds
      /\ stamp' = [stamp EXCEPT ![Head(p.left)] = Written(Head(p.left), p.emb)]
  BY DEF Stamp, Inv, Kinds
<1>2. /\ p \in Proc /\ p.pc = "stamp" /\ p.emb \in Embedders /\ p.left # << >>
      /\ p.left \in {AllKeys, <<"model", "dim">>, <<"dim">>, << >>}
  BY <1>1, ProcFields DEF At, Inv, ProcOk
<1>3. AllFrom(p.emb) /\ WrittenBy(p)
  BY <1>1 DEF Inv, AloneOk
<1>4. /\ StampIsFunction'
      /\ \A key \in Keys \ Unwritten(Tail(p.left)) : stamp'[key] = p.emb[key]
  BY <1>1, <1>3, StampWrites
<1>5. Len(p.left) = 1
  <2>1. ASSUME Len(p.left) > 1 PROVE FALSE
    <3> DEFINE next == CASE Len(p.left) > 1 -> [p EXCEPT !.left = Tail(@)]
                         [] Len(p.left) = 1 /\ "tool" = "app" -> Opened(p)
                         [] Len(p.left) = 1 /\ "tool" = "tool" -> Closed
    <3>1. Becomes("tool", next)
      BY DEF Stamp
    <3>2. Len(p.left) # 1
      BY <1>2, <2>1, NextRow
    <3>3. next = [p EXCEPT !.left = Tail(p.left)]
      BY <2>1, <3>2
    <3> HIDE DEF next
    <3>4. proc'["tool"] = next
      BY <1>1, <3>1 DEF Becomes, TypeOK
    <3>5. next.pc = "stamp"
      BY <1>2, <3>3 DEF Proc, Closed
    <3> QED
      BY <3>4, <3>5 DEF Closed
  <2> HIDE DEF p
  <2> QED
    BY <1>2, <2>1, NextRow
<1>6. Unwritten(Tail(p.left)) = {}
  BY <1>2, <1>5, NextRow
<1>7. stamp' = [key \in Keys |-> stamp'[key]] /\ \A key \in Keys : stamp'[key] = p.emb[key]
  BY <1>4, <1>6 DEF StampIsFunction
<1> QED
  BY <1>2, <1>3, <1>7, StampedWith DEF AllFrom

\* The tool stamps the store with its embedder, one row at a time.
LEMMA StampToolInv ==
  ASSUME Inv, Remember, Stamp("tool")
  PROVE  Inv'
<1> DEFINE p == proc["tool"]
           rest == Tail(p.left)
<1>1. /\ At("tool", "stamp") /\ UNCHANGED <<width, vectors, deaths>>
      /\ TypeOK /\ "tool" \in Kinds /\ ~At("tool", "closed")
      /\ stamp' = [stamp EXCEPT ![Head(p.left)] = Written(Head(p.left), p.emb)]
  BY DEF Stamp, Inv, Kinds, At
<1>2. /\ p \in Proc /\ p.pc = "stamp" /\ p.emb \in Embedders /\ p.left # << >>
      /\ p.left \in {AllKeys, <<"model", "dim">>, <<"dim">>, << >>}
  BY <1>1, ProcFields DEF At, Inv, ProcOk
<1>3. /\ StampIsFunction' /\ DOMAIN stamp' = Keys
      /\ \A key \in Keys : stamp'[key] \in Values(key)
      /\ WrittenBy(p) =>
           \A key \in Keys \ Unwritten(rest) : stamp'[key] = p.emb[key]
  BY <1>1, StampWrites
<1>4. /\ width' \in {0} \cup Dims /\ deaths' \in 0..MaxDeaths
      /\ vectors' \in Seq(Embedders) /\ Len(vectors') <= MaxRows
  BY <1>1 DEF TypeOK
<1>5. alone => AllFrom(p.emb) /\ WrittenBy(p)
  BY <1>1 DEF Inv, AloneOk
<1>6. /\ Len(p.left) # 1 <=> Len(p.left) > 1
      /\ Len(p.left) > 1 =>
           /\ rest \in {AllKeys, <<"model", "dim">>, <<"dim">>, << >>}
           /\ rest # << >>
  BY <1>2, NextRow
<1> DEFINE next == CASE Len(p.left) > 1 -> [p EXCEPT !.left = Tail(@)]
                     [] Len(p.left) = 1 /\ "tool" = "app" -> Opened(p)
                     [] Len(p.left) = 1 /\ "tool" = "tool" -> Closed
<1>7. Becomes("tool", next)
  BY DEF Stamp
<1>8. CASE Len(p.left) > 1
  <2>0. PICK q : q = MovedTo(p, "stamp", rest)
    OBVIOUS
  <2>1. next = [p EXCEPT !.left = rest]
    <3>1. Len(p.left) # 1
      BY <1>6, <1>8
    <3> QED
      BY <1>8, <3>1
  <2>2. [p EXCEPT !.left = rest] = q
    BY <1>2, <2>0 DEF Proc, Closed, MovedTo
  <2> HIDE DEF next
  <2>3. Becomes("tool", q)
    BY <1>7, <2>1, <2>2
  <2> HIDE DEF rest
  <2>4. /\ rest \in {AllKeys, <<"model", "dim">>, <<"dim">>, << >>}
        /\ p \in Proc /\ p.pc # "closed"
    BY <1>2, <1>6, <1>8
  <2>5. q \in Proc /\ q.pc = "stamp" /\ q.left = rest /\ q.emb = p.emb
    BY <2>0, <2>4, ProcMoved
  <2>6. proc["app"] = Closed /\ (alone \/ At("tool", "closed")) =>
          /\ \A i \in DOMAIN vectors' : vectors'[i] = q.emb
          /\ \A key \in Keys \ Unwritten(q.left) : stamp'[key] = q.emb[key]
    BY <1>1, <1>3, <1>5, <2>5 DEF AllFrom
  <2> QED
    BY <1>3, <1>4, <1>6, <1>8, <2>3, <2>5, <2>6, ToolMoves
<1>9. CASE Len(p.left) = 1
  <2>1. next = Closed
    BY <1>9
  <2> HIDE DEF next
  <2>2. Becomes("tool", Closed)
    BY <1>7, <2>1
  <2>3. Closed \in Proc /\ Closed.pc = "closed"
    BY DEF Proc, Closed
  <2>4. ASSUME ~torn', proc'["app"] = proc["app"] PROVE Consistent'
    <3>1. alone
      BY <1>1, <2>4, NotTorn
    <3>2. proc'["tool"] = Closed
      BY <1>1, <2>2 DEF Becomes, TypeOK
    <3>3. stamp' = p.emb /\ \A i \in DOMAIN vectors : vectors[i] = p.emb
      BY <3>1, <3>2, ToolStamps
    <3>4. proc["app"] = Closed
      <4>1. p # Closed
        BY <1>2, <2>3
      <4> QED
        BY <3>1, <4>1 DEF Inv, AloneOk, Kinds
    <3>5. ~At("app", "open")' /\ ~At("app", "stamp")'
      BY <2>3, <2>4, <3>4 DEF At
    <3> QED
      BY <1>1, <3>3, <3>5 DEF Consistent, AllFrom
  <2> QED
    BY <1>3, <1>4, <2>2, <2>3, <2>4, ToolMoves
<1> QED
  BY <1>6, <1>8, <1>9

\* A process dies: what it had not committed is gone.
LEMMA DieInv ==
  ASSUME Inv, Remember, NEW kind \in Kinds, Die(kind)
  PROVE  Inv'
<1>1. /\ ~At(kind, "closed") /\ deaths < MaxDeaths /\ Becomes(kind, Closed)
      /\ deaths' = deaths + 1 /\ UNCHANGED <<width, stamp, vectors>>
  BY DEF Die, tables
<1>2. TypeOK /\ StampIsFunction
  BY DEF Inv
<1>3. deaths \in 0..MaxDeaths
  BY <1>2 DEF TypeOK
<1>4. deaths' \in 0..MaxDeaths /\ deaths' # deaths
  BY <1>1, <1>3, ProvenanceBoundsAssumption
<1>5. CASE kind = "app"
  BY <1>1, <1>4, <1>5, CloseAppInv
<1>6. CASE kind = "tool"
  <2>1. Closed \in Proc /\ Closed.pc = "closed"
    BY DEF Proc, Closed
  <2>2. /\ width' \in {0} \cup Dims /\ StampIsFunction' /\ DOMAIN stamp' = Keys
        /\ \A key \in Keys : stamp'[key] \in Values(key)
        /\ vectors' \in Seq(Embedders) /\ Len(vectors') <= MaxRows
    BY <1>1, <1>2 DEF TypeOK, StampIsFunction
  <2>3. proc'["tool"] = Closed
    BY <1>1, <1>2, <1>6 DEF Becomes, TypeOK
  <2>4. ~torn' => ~At("tool", "stamp") /\ Consistent
    BY <1>4, <2>3, NotTorn
  <2>5. ~torn' /\ proc'["app"] = proc["app"] => Consistent'
    BY <1>1, <2>4 DEF At, Consistent, AllFrom, WrittenBy
  <2>6. Becomes("tool", Closed)
    BY <1>1, <1>6
  <2> QED
    BY <1>4, <2>1, <2>2, <2>5, <2>6, ToolMoves
<1> QED
  BY <1>5, <1>6 DEF Kinds

(***************************************************************************)
(* The theorems.                                                           *)
(***************************************************************************)

\* Every step preserves the invariant.
LEMMA InvStep == Inv /\ [Next]_vars => Inv'
<1> SUFFICES ASSUME Inv, [Next]_vars PROVE Inv'
  OBVIOUS
<1>1. ASSUME Remember, NEW e \in Embedders, NEW d \in Embedders,
             OpenApp(e, d.dim) \/ StartTool(e, d.dim)
      PROVE  Inv'
  BY <1>1, OpenAppInv, StartToolInv
<1>2. ASSUME Remember, Guard PROVE Inv'
  BY <1>2, GuardInv
<1>3. ASSUME Remember, NEW kind \in Kinds, Stamp(kind) PROVE Inv'
  BY <1>3, StampAppInv, StampToolInv DEF Kinds
<1>4. ASSUME Remember, NEW kind \in Kinds, Die(kind) PROVE Inv'
  BY <1>4, DieInv
<1>5. ASSUME Remember, AddFact \/ \E i \in DOMAIN vectors : EditFact(i) PROVE Inv'
  BY <1>5, FactInv
<1>6. ASSUME Remember, CloseApp PROVE Inv'
  BY <1>6, CloseAppInv
<1>7. ASSUME Remember, CommitVectors PROVE Inv'
  BY <1>7, CommitVectorsInv
<1>8. CASE UNCHANGED vars
  BY <1>8 DEF vars, tables, Inv, TypeOK, StampIsFunction, ProcOk, AloneOk,
              Consistent, At, AllFrom, WrittenBy
<1> QED
  BY <1>1, <1>2, <1>3, <1>4, <1>5, <1>6, <1>7, <1>8 DEF Next

\* The invariant holds throughout.
THEOREM Invariance == Spec => []Inv
<1> QED
  BY InvInitially, InvStep, PTL DEF Spec

\* The provenance rows are always one embedder's value or missing, each for
\* itself, and the two processes are somewhere the code can be.
THEOREM TypeCorrect == Spec => []TypeOK
<1>1. Inv => TypeOK
  BY DEF Inv
<1> QED
  BY <1>1, Invariance, PTL

\* NexusMemory never opens on vectors of another space than its embedder's,
\* outside the window that a re-embedding leaves when it dies between its
\* commits or runs beside an application.
THEOREM SpacesNeverMix == Spec => []NoMixedSpaces
<1>1. Inv => NoMixedSpaces
  <2>1. SUFFICES ASSUME Inv, At("app", "open"), At("tool", "closed"), ~torn,
                        NEW i \in DOMAIN vectors
                 PROVE  vectors[i] = proc["app"].emb
    BY DEF NoMixedSpaces
  <2>2. Consistent
    BY <2>1 DEF Inv, At
  <2> QED
    BY <2>1, <2>2 DEF Consistent, AllFrom
<1> QED
  BY <1>1, Invariance, PTL

\* Only a row of the provenance brings the tool to its end.
LEMMA ToolEndsByStamp ==
  ASSUME Inv, Next, ToolEnds
  PROVE  Stamp("tool")
<1>1. /\ proc["tool"].pc = "stamp" /\ proc'["tool"] = Closed /\ deaths' = deaths
      /\ Closed.pc = "closed"
  BY DEF ToolEnds, At, Closed
<1>2. TypeOK /\ deaths \in 0..MaxDeaths
  BY DEF Inv, TypeOK
<1>3. proc'["tool"] # proc["tool"]
  BY <1>1
<1>4. ASSUME NEW p, Becomes("app", p) PROVE FALSE
  BY <1>2, <1>3, <1>4 DEF Becomes, TypeOK, Kinds
<1>5. ~(\E e, d \in Embedders : OpenApp(e, d.dim)) /\ ~Guard /\ ~CloseApp /\ ~Stamp("app")
  BY <1>4 DEF OpenApp, Guard, CloseApp, Stamp
<1>6. ~(\E e, d \in Embedders : StartTool(e, d.dim)) /\ ~CommitVectors
  BY <1>1 DEF StartTool, CommitVectors, At
<1>7. ~AddFact /\ ~\E i \in DOMAIN vectors : EditFact(i)
  BY <1>3 DEF AddFact, EditFact
<1>8. \A kind \in Kinds : ~Die(kind)
  BY <1>1, <1>2, ProvenanceBoundsAssumption DEF Die
<1> QED
  BY <1>5, <1>6, <1>7, <1>8 DEF Next, Kinds

\* reindex, brought to its end with the store to itself, heals any store:
\* every vector is of one space, and the stamp names it.
THEOREM ReembeddingHeals == Spec => ToolHeals
<1>1. Inv /\ [Next]_vars =>
        [ToolEnds /\ alone =>
           /\ stamp' = proc["tool"].emb
           /\ \A i \in DOMAIN vectors : vectors[i] = proc["tool"].emb]_vars
  <2>1. SUFFICES ASSUME Inv, Next, ToolEnds, alone
                 PROVE  /\ stamp' = proc["tool"].emb
                        /\ \A i \in DOMAIN vectors : vectors[i] = proc["tool"].emb
    OBVIOUS
  <2>2. Stamp("tool") /\ proc'["tool"] = Closed
    BY <2>1, ToolEndsByStamp DEF ToolEnds
  <2> QED
    BY <2>1, <2>2, ToolStamps
<1> QED
  BY <1>1, Invariance, PTL DEF Spec, ToolHeals
=============================================================================
