--------------------------- MODULE SemanticProofs ---------------------------
(***************************************************************************)
(* Proofs about the semantic memory, for any texts, writers, hosts and     *)
(* namespaces: a fact is held once, what the user told an ingest is held,  *)
(* a forgotten id is not handed out again, and a deletion by query deletes *)
(* what the query is about.                                                *)
(***************************************************************************)
EXTENDS SemanticMemory, FiniteSetTheorems, WellFoundedInduction, TLAPS

(***************************************************************************)
(* The inductive invariant.                                                *)
(***************************************************************************)

\* Only ingest writes attributed texts, in a namespace some ingest carried.
RowsOk ==
  \A i \in DOMAIN mem :
    IF mem[i].by = "ingest"
    THEN mem[i].text.speaker # "host" /\ mem[i].scope \in scoped
    ELSE mem[i].text.speaker = "host"

\* A writer writes attributed texts, in the namespace its ingest carried, and
\* holds the lock from the decision to insert to the insert.
WriterOk(w) ==
  /\ writer[w].pc # "idle" => writer[w].scope \in scoped
  /\ \A n \in DOMAIN writer[w].todo : writer[w].todo[n].text.speaker # "host"
  /\ writer[w].pc = "insert" => lock = {w} /\ writer[w].todo # << >>

OneScope == \A s, t \in scoped : s = t

\* No row that ingest wrote has the text.
Missing(text) == \A i \in DOMAIN mem : mem[i].by = "ingest" => mem[i].text # text

\* Where one namespace is in use, what a writer has decided to insert is still
\* missing, and a fact is held once.
OnceOk ==
  OneScope =>
    /\ \A w \in Writers :
         writer[w].pc = "insert" => Missing(Head(writer[w].todo).text)
    /\ \A i, j \in DOMAIN mem :
         mem[i].by = "ingest" /\ mem[j].by = "ingest" /\ mem[i].text = mem[j].text
         => i = j

\* Nothing was forgotten or edited.
Intact == forgotten = {} /\ \A i \in DOMAIN mem : mem[i].by # "update"

ByUser(sentence) == [speaker |-> "User", says |-> sentence]

Held(text, scope) ==
  \E i \in DOMAIN mem : mem[i].text = text /\ mem[i].scope = scope

\* What the user said is held, or still to be written.
SaidOk(w) ==
  Intact /\ writer[w].pc # "idle" /\ ~writer[w].failed =>
    \A n \in DOMAIN writer[w].said : WorthKeeping(writer[w].said[n]) =>
      \/ \E m \in DOMAIN writer[w].todo :
           writer[w].todo[m].text = ByUser(writer[w].said[n])
      \/ Held(ByUser(writer[w].said[n]), writer[w].scope)

\* A host works on an id that has been handed out.
HostOk(h) ==
  /\ host[h].id <= lastId
  /\ host[h].pc \in {"read", "write"} => host[h].id # 0

Inv ==
  /\ TypeOK
  /\ RowsOk
  /\ \A w \in Writers : WriterOk(w)
  /\ OnceOk
  /\ ForgottenStaysGone
  /\ \A w \in Writers : SaidOk(w)
  /\ HeldInEveryScope
  /\ \A h \in Hosts : HostOk(h)
  /\ IsFiniteSet(scoped)

\* Only one thread calls the public API.
SingleHost == \A h, k \in Hosts : h = k

\* Then the row it is to delete is still about its query.
DeletesRelevant ==
  \A h \in Hosts : host[h].pc = "delete" /\ host[h].id \in DOMAIN mem =>
    mem[host[h].id].text.says = host[h].text

(***************************************************************************)
(* The extractor.                                                          *)
(***************************************************************************)

\* A set of naturals has a least member.
LEMMA LeastExists ==
  ASSUME NEW S \in SUBSET Nat, S # {}
  PROVE  \E x \in S : \A y \in S : x <= y
<1>1. PICK x \in S : \A y \in S : ~ (<<y, x>> \in OpToRel(<, Nat))
  BY NatLessThanWellFounded, WFMin
<1>2. \A y \in S : ~ (y < x)
  BY <1>1 DEF OpToRel
<1> QED
  BY <1>2

\* The loop of _from is a function that satisfies its equation: there is one
\* up to every sentence, since there is no least sentence to which there is none.
LEMMA KeptStep ==
  ASSUME NEW text \in Seq(Sentences), NEW keep \in BOOLEAN
  PROVE  LET kept == Kept(text, keep) IN
         kept = [n \in 0..Len(text) |->
              IF n = 0 THEN << >>
              ELSE IF Informative(text[n], keep) THEN Append(kept[n - 1], text[n])
              ELSE kept[n - 1]]
<1> DEFINE Loop(f, n) ==
      IF n = 0 THEN << >>
      ELSE IF Informative(text[n], keep) THEN Append(f[n - 1], text[n])
      ELSE f[n - 1]
    RunsTo(m) == \E f : f = [n \in 0..m |-> Loop(f, n)]
    Bad == {m \in 0..Len(text) : ~RunsTo(m)}
<1>1. Len(text) \in Nat /\ Bad \in SUBSET Nat
  OBVIOUS
<1>2. RunsTo(0)
  <2> DEFINE f == [n \in 0..0 |-> << >>]
  <2>1. \A n \in 0..0 : f[n] = Loop(f, n)
    OBVIOUS
  <2> HIDE DEF Loop
  <2>2. f = [n \in 0..0 |-> f[n]]
    OBVIOUS
  <2>3. f = [n \in 0..0 |-> Loop(f, n)]
    BY <2>1, <2>2
  <2> QED
    BY <2>3
<1>3. ASSUME NEW m \in 0..Len(text), m # 0, RunsTo(m - 1) PROVE RunsTo(m)
  <2>1. PICK g : g = [n \in 0..(m - 1) |-> Loop(g, n)]
    BY <1>3
  <2> DEFINE f == [n \in 0..m |-> IF n = m THEN Loop(g, m) ELSE g[n]]
  <2>2. m - 1 \in 0..(m - 1) /\ m \in Nat
    BY <1>1, <1>3
  <2>3. \A n \in 0..(m - 1) : f[n] = g[n]
    BY <2>2
  <2>4. Loop(f, m) = Loop(g, m)
    <3>1. m \in 0..m /\ f[m - 1] = g[m - 1]
      BY <2>2, <2>3
    <3> HIDE DEF f
    <3> QED
      BY <3>1
  <2>5. \A n \in 0..(m - 1) : Loop(f, n) = Loop(g, n)
    <3>1. TAKE n \in 0..(m - 1)
    <3>2. n = 0 \/ f[n - 1] = g[n - 1]
      BY <2>2, <2>3
    <3> HIDE DEF f
    <3> QED
      BY <3>2
  <2> HIDE DEF Loop
  <2>6. \A n \in 0..(m - 1) : g[n] = Loop(g, n)
    BY <2>1
  <2>7. \A n \in 0..m : f[n] = Loop(f, n)
    <3>1. TAKE n \in 0..m
    <3>2. CASE n = m
      BY <2>4, <3>2
    <3>3. CASE n # m
      <4>1. n \in 0..(m - 1)
        BY <2>2, <3>3
      <4> QED
        BY <2>3, <2>5, <2>6, <4>1
    <3> QED
      BY <3>2, <3>3
  <2>8. f = [n \in 0..m |-> f[n]]
    OBVIOUS
  <2> HIDE DEF f
  <2>9. f = [n \in 0..m |-> Loop(f, n)]
    BY <2>7, <2>8
  <2> QED
    BY <2>9
<1>4. Bad = {}
  <2>1. SUFFICES ASSUME Bad # {} PROVE FALSE
    OBVIOUS
  <2>2. PICK m \in Bad : \A n \in Bad : m <= n
    BY <1>1, <2>1, LeastExists
  <2> HIDE DEF RunsTo
  <2>3. m \in 0..Len(text) /\ m # 0 /\ ~RunsTo(m)
    BY <1>2, <2>2
  <2>4. m - 1 \in 0..Len(text) /\ m - 1 \notin Bad
    BY <1>1, <2>2, <2>3
  <2> QED
    BY <1>3, <2>3, <2>4
<1>5. RunsTo(Len(text))
  <2> HIDE DEF RunsTo
  <2> QED
    BY <1>1, <1>4
<1>6. Kept(text, keep) = CHOOSE f : f = [n \in 0..Len(text) |-> Loop(f, n)]
  BY DEF Kept
<1> HIDE DEF Loop
<1>7. Kept(text, keep) = [n \in 0..Len(text) |-> Loop(Kept(text, keep), n)]
  BY <1>5, <1>6
<1> QED
  BY <1>7 DEF Loop

\* What _from keeps are sentences of the text, and every informative one.
LEMMA KeptAll ==
  ASSUME NEW text \in Seq(Sentences), NEW keep \in BOOLEAN
  PROVE  LET kept == Kept(text, keep)[Len(text)] IN
         /\ kept \in Seq(Sentences)
         /\ \A j \in DOMAIN text : Informative(text[j], keep) =>
              \E k \in DOMAIN kept : kept[k] = text[j]
<1> DEFINE kept == Kept(text, keep)
           Holds(m) == \A j \in 1..m : Informative(text[j], keep) =>
                         \E k \in DOMAIN kept[m] : kept[m][k] = text[j]
           Good(m) == kept[m] \in Seq(Sentences) /\ Holds(m)
           Bad == {m \in 0..Len(text) : ~Good(m)}
<1>1. Len(text) \in Nat /\ Bad \in SUBSET Nat
  OBVIOUS
<1>2. \A n \in 0..Len(text) :
        kept[n] = IF n = 0 THEN << >>
                  ELSE IF Informative(text[n], keep) THEN Append(kept[n - 1], text[n])
                  ELSE kept[n - 1]
  <2> DEFINE loop == [n \in 0..Len(text) |->
                        IF n = 0 THEN << >>
                        ELSE IF Informative(text[n], keep)
                             THEN Append(kept[n - 1], text[n])
                        ELSE kept[n - 1]]
  <2>1. kept = loop
    BY KeptStep
  <2>2. \A n \in 0..Len(text) : kept[n] = loop[n]
    BY <2>1
  <2> HIDE DEF kept
  <2> QED
    BY <2>2
<1> HIDE DEF kept
<1>3. Good(0)
  <2>1. kept[0] = << >>
    BY <1>1, <1>2
  <2> QED
    BY <2>1
<1>4. ASSUME NEW m \in 0..Len(text), m # 0, Good(m - 1) PROVE Good(m)
  <2>1. /\ m \in Nat /\ m \in DOMAIN text /\ text[m] \in Sentences
        /\ \A j \in 1..m : j = m \/ j \in 1..(m - 1)
    BY <1>1, <1>4
  <2>2. PICK g \in Seq(Sentences) : g = kept[m - 1]
    BY <1>4
  <2>3. \A j \in 1..(m - 1) : Informative(text[j], keep) =>
          \E k \in DOMAIN g : g[k] = text[j]
    BY <1>4, <2>2
  <2>4. CASE Informative(text[m], keep)
    <3>1. kept[m] = Append(g, text[m])
      BY <1>2, <1>4, <2>2, <2>4
    <3>2. PICK h : h = Append(g, text[m])
      OBVIOUS
    <3>3. /\ h \in Seq(Sentences) /\ Len(h) = Len(g) + 1
          /\ DOMAIN g = 1..Len(g) /\ DOMAIN h = 1..Len(h) /\ Len(g) \in Nat
          /\ \A k \in DOMAIN g : h[k] = g[k]
          /\ h[Len(g) + 1] = text[m]
      BY <2>1, <3>2
    <3>4. DOMAIN g \subseteq DOMAIN h /\ Len(g) + 1 \in DOMAIN h
      BY <3>3
    <3>5. \A j \in 1..m : Informative(text[j], keep) => \E k \in DOMAIN h : h[k] = text[j]
      BY <2>1, <2>3, <3>3, <3>4
    <3> QED
      BY <3>1, <3>2, <3>3, <3>5
  <2>5. CASE ~Informative(text[m], keep)
    <3>1. kept[m] = g
      BY <1>2, <1>4, <2>2, <2>5
    <3> QED
      BY <2>1, <2>3, <2>5, <3>1
  <2> QED
    BY <2>4, <2>5
<1>5. Bad = {}
  <2>1. SUFFICES ASSUME Bad # {} PROVE FALSE
    OBVIOUS
  <2>2. PICK m \in Bad : \A n \in Bad : m <= n
    BY <1>1, <2>1, LeastExists
  <2> HIDE DEF Good
  <2>3. m \in 0..Len(text) /\ m # 0 /\ ~Good(m)
    BY <1>3, <2>2
  <2>4. m - 1 \in 0..Len(text) /\ m - 1 \notin Bad
    BY <1>1, <2>2, <2>3
  <2> QED
    BY <1>4, <2>3, <2>4
<1>6. Good(Len(text)) /\ DOMAIN text = 1..Len(text)
  <2> HIDE DEF Good
  <2> QED
    BY <1>1, <1>5
<1> QED
  BY <1>6 DEF kept

\* An importance is 1 to 10.
LEMMA ImportanceInRange ==
  ASSUME NEW speaker, NEW sentence \in Sentences
  PROVE  ScoreImportance(speaker, sentence) \in 1..10
<1> DEFINE seen == Features[sentence]
           n == (IF speaker = "User" THEN 5 ELSE 3)
                + (IF seen.words >= 8 THEN 2 ELSE IF seen.words >= 5 THEN 1 ELSE 0)
                + (IF seen.number THEN 2 ELSE 0)
                + (IF seen.strong THEN 2 ELSE 0)
<1>1. n \in Int
  OBVIOUS
<1> HIDE DEF n
<1>2. Clamp(n) \in 1..10
  BY <1>1 DEF Clamp
<1> QED
  BY <1>2 DEF ScoreImportance, n

\* What an extractor returns.
Fact == [text: Text, importance: 1..10]

\* The facts of one text are attributed to its speaker, and every informative
\* sentence is one.
LEMMA FromFacts ==
  ASSUME NEW text \in Seq(Sentences), NEW keep \in BOOLEAN,
         NEW speaker \in Speakers
  PROVE  LET facts == From(text, speaker, keep) IN
         /\ facts \in Seq(Fact)
         /\ \A i \in DOMAIN facts : facts[i].text.speaker = speaker
         /\ \A j \in DOMAIN text : Informative(text[j], keep) =>
              \E i \in DOMAIN facts :
                facts[i].text = [speaker |-> speaker, says |-> text[j]]
<1>1. PICK kept \in Seq(Sentences) :
        /\ kept = Kept(text, keep)[Len(text)]
        /\ \A j \in DOMAIN text : Informative(text[j], keep) =>
             \E k \in DOMAIN kept : kept[k] = text[j]
  BY KeptAll
<1>2. From(text, speaker, keep) =
        [i \in DOMAIN kept |->
           [text |-> [speaker |-> speaker, says |-> kept[i]],
            importance |-> ScoreImportance(speaker, kept[i])]]
  BY <1>1 DEF From
<1>3. \A i \in DOMAIN kept :
        [text |-> [speaker |-> speaker, says |-> kept[i]],
         importance |-> ScoreImportance(speaker, kept[i])] \in Fact
  BY ImportanceInRange DEF Fact, Text
<1>4. From(text, speaker, keep) \in Seq(Fact)
  BY <1>2, <1>3
<1>5. PICK facts : facts = From(text, speaker, keep)
  OBVIOUS
<1>6. /\ DOMAIN facts = DOMAIN kept
      /\ \A i \in DOMAIN kept : facts[i].text = [speaker |-> speaker, says |-> kept[i]]
  BY <1>2, <1>5
<1>7. \A j \in DOMAIN text : Informative(text[j], keep) =>
        \E i \in DOMAIN facts :
          facts[i].text = [speaker |-> speaker, says |-> text[j]]
  BY <1>1, <1>6
<1>8. ASSUME NEW i \in DOMAIN facts PROVE facts[i].text.speaker = speaker
  <2>1. facts[i].text = [speaker |-> speaker, says |-> kept[i]]
    BY <1>6
  <2> QED
    BY <2>1
<1> QED
  BY <1>4, <1>5, <1>7, <1>8

\* The facts to write of an interaction.
LEMMA ToWriteFacts ==
  ASSUME NEW query \in Seq(Sentences), NEW response \in Seq(Sentences),
         NEW priority \in {{}} \cup {{p} : p \in 1..10}
  PROVE  LET facts == ToWrite(query, response, priority) IN
         /\ facts \in Seq(Fact)
         /\ \A i \in DOMAIN facts : facts[i].text.speaker # "host"
         /\ \A j \in DOMAIN query : Informative(query[j], TRUE) =>
              \E i \in DOMAIN facts :
                facts[i].text = [speaker |-> "User", says |-> query[j]]
<1>1. PICK own \in Seq(Fact) :
        /\ own = From(query, "User", TRUE)
        /\ \A i \in DOMAIN own : own[i].text.speaker = "User"
        /\ \A j \in DOMAIN query : Informative(query[j], TRUE) =>
             \E i \in DOMAIN own :
               own[i].text = [speaker |-> "User", says |-> query[j]]
  <2> DEFINE facts == From(query, "User", TRUE)
  <2>1. /\ facts \in Seq(Fact)
        /\ \A i \in DOMAIN facts : facts[i].text.speaker = "User"
        /\ \A j \in DOMAIN query : Informative(query[j], TRUE) =>
             \E i \in DOMAIN facts :
               facts[i].text = [speaker |-> "User", says |-> query[j]]
    BY FromFacts DEF Speakers
  <2> QED
    BY <2>1
<1>2. PICK others \in Seq(Fact) :
        /\ others = IF IncludeAssistant THEN From(response, "Assistant", FALSE)
                    ELSE << >>
        /\ \A i \in DOMAIN others : others[i].text.speaker = "Assistant"
  <2>1. CASE IncludeAssistant
    <3> DEFINE facts == From(response, "Assistant", FALSE)
    <3>1. /\ facts \in Seq(Fact)
          /\ \A i \in DOMAIN facts : facts[i].text.speaker = "Assistant"
      BY FromFacts DEF Speakers
    <3> HIDE DEF facts
    <3>2. (IF IncludeAssistant THEN facts ELSE << >>) = facts
      BY <2>1
    <3> QED
      BY <3>1, <3>2 DEF facts
  <2>2. CASE ~IncludeAssistant
    <3>1. (IF IncludeAssistant THEN From(response, "Assistant", FALSE) ELSE << >>)
            = << >>
      BY <2>2
    <3>2. << >> \in Seq(Fact) /\ DOMAIN << >> = {}
      OBVIOUS
    <3> QED
      BY <3>1, <3>2
  <2> QED
    BY <2>1, <2>2
<1>3. PICK both : both = own \o others
  OBVIOUS
<1>4. /\ both \in Seq(Fact) /\ DOMAIN own \subseteq DOMAIN both
      /\ \A i \in DOMAIN own : both[i] = own[i]
      /\ \A i \in DOMAIN both : both[i].text.speaker # "host"
  <2>1. /\ Len(both) = Len(own) + Len(others) /\ both \in Seq(Fact)
        /\ DOMAIN both = 1..Len(both) /\ DOMAIN own = 1..Len(own)
        /\ DOMAIN others = 1..Len(others)
        /\ Len(own) \in Nat /\ Len(others) \in Nat
        /\ \A i \in 1..Len(both) :
             both[i] = IF i <= Len(own) THEN own[i] ELSE others[i - Len(own)]
    BY <1>3
  <2>2. DOMAIN own \subseteq DOMAIN both /\ \A i \in DOMAIN own : both[i] = own[i]
    BY <2>1
  <2>3. ASSUME NEW i \in DOMAIN both PROVE both[i].text.speaker # "host"
    <3>1. CASE i <= Len(own)
      <4>1. i \in DOMAIN own /\ both[i] = own[i]
        BY <2>1, <3>1
      <4>2. own[i].text.speaker = "User"
        BY <1>1, <4>1
      <4> QED
        BY <4>1, <4>2
    <3>2. CASE ~(i <= Len(own))
      <4>1. i - Len(own) \in DOMAIN others /\ both[i] = others[i - Len(own)]
        BY <2>1, <3>2
      <4>2. others[i - Len(own)].text.speaker = "Assistant"
        BY <1>2, <4>1
      <4> QED
        BY <4>1, <4>2
    <3> QED
      BY <3>1, <3>2
  <2> QED
    BY <2>1, <2>2, <2>3
<1>5. ToWrite(query, response, priority) =
        [i \in DOMAIN both |->
           [both[i] EXCEPT !.importance = Raised(both[i].importance, priority)]]
  BY <1>1, <1>2, <1>3 DEF ToWrite, Extract
<1>6. ASSUME NEW i \in DOMAIN both
      PROVE  LET raised == [both[i] EXCEPT !.importance =
                              Raised(both[i].importance, priority)] IN
             raised \in Fact /\ raised.text = both[i].text
  <2>1. both[i] \in Fact
    BY <1>4
  <2>2. PICK n \in 1..10 : n = both[i].importance
    BY <2>1 DEF Fact
  <2>3. Raised(n, priority) \in 1..10
    <3>1. CASE priority = {}
      BY <3>1 DEF Raised
    <3>2. CASE \E p \in 1..10 : priority = {p}
      <4>1. PICK p \in 1..10 : priority = {p}
        BY <3>2
      <4>2. (CHOOSE q \in priority : TRUE) = p
        BY <4>1
      <4>3. Clamp(p) \in 1..10
        BY DEF Clamp
      <4> QED
        BY <4>2, <4>3 DEF Raised
    <3> QED
      BY <3>1, <3>2
  <2> QED
    BY <2>1, <2>2, <2>3 DEF Fact
<1>7. PICK facts : facts = ToWrite(query, response, priority)
  OBVIOUS
<1>8. /\ DOMAIN facts = DOMAIN both
      /\ \A i \in DOMAIN both : facts[i] \in Fact /\ facts[i].text = both[i].text
  BY <1>5, <1>6, <1>7
<1>9. facts \in Seq(Fact)
  BY <1>4, <1>5, <1>6, <1>7, SMTT(30)
<1>10. \A i \in DOMAIN facts : facts[i].text.speaker # "host"
  BY <1>4, <1>8
<1>11. ASSUME NEW j \in DOMAIN query, Informative(query[j], TRUE)
       PROVE  \E i \in DOMAIN facts :
                facts[i].text = [speaker |-> "User", says |-> query[j]]
  <2>1. PICK i \in DOMAIN own :
          own[i].text = [speaker |-> "User", says |-> query[j]]
    BY <1>1, <1>11
  <2>2. i \in DOMAIN facts /\ facts[i].text = own[i].text
    BY <1>4, <1>8
  <2> QED
    BY <2>1, <2>2
<1> QED
  BY <1>7, <1>9, <1>10, <1>11

(***************************************************************************)
(* The store, the hosts and the cache.                                     *)
(***************************************************************************)

\* One row is written.
LEMMA RowPut ==
  ASSUME TypeOK, NEW id, NEW row, mem' = PutRow(id, row)
  PROVE  /\ DOMAIN mem' = DOMAIN mem \cup {id}
         /\ mem' = [i \in DOMAIN mem' |-> mem'[i]]
         /\ mem'[id] = row
         /\ \A i \in DOMAIN mem \ {id} : mem'[i] = mem[i]
  BY DEF PutRow

\* Its type.
LEMMA RowTyped ==
  ASSUME TypeOK, NEW id \in 1..lastId', NEW row \in Row,
         mem' = PutRow(id, row), lastId' \in Nat, lastId <= lastId'
  PROVE  DOMAIN mem' \subseteq 1..lastId' /\ mem' \in [DOMAIN mem' -> Row]
<1>1. /\ DOMAIN mem' = DOMAIN mem \cup {id} /\ mem'[id] = row
      /\ \A i \in DOMAIN mem \ {id} : mem'[i] = mem[i]
      /\ mem' = [i \in DOMAIN mem' |-> mem'[i]]
  BY RowPut
<1>2. DOMAIN mem \subseteq 1..lastId /\ mem \in [DOMAIN mem -> Row] /\ lastId \in Nat
  BY DEF TypeOK
<1>3. \A i \in DOMAIN mem' : mem'[i] \in Row
  BY <1>1, <1>2
<1>4. DOMAIN mem' \subseteq 1..lastId'
  BY <1>1, <1>2
<1> QED
  BY <1>1, <1>3, <1>4

\* The fields of a host's record.
LEMMA HostFields ==
  ASSUME TypeOK, NEW h \in Hosts
  PROVE  /\ host[h] \in Host
         /\ host[h].text \in Sentences /\ host[h].k \in 1..MaxTopK
         /\ host[h].id \in Nat /\ host[h].scope \in Scopes \cup {Unscoped}
         /\ host[h].importance \in 1..10 /\ host[h].rows \in SUBSET Nat
<1>1. host[h] \in Host
  BY DEF TypeOK
<1> QED
  BY <1>1 DEF Host

\* A call begins its next step afresh.
LEMMA Begins ==
  ASSUME TypeOK, NEW h \in Hosts,
         NEW pc \in {"idle", "search", "store", "delete", "read", "write", "clear"},
         NEW id \in Nat, NEW text \in Sentences, Begin(h, pc, id, text)
  PROVE  /\ host' \in [Hosts -> Host]
         /\ host'[h].pc = pc /\ host'[h].id = id /\ host'[h].text = text
         /\ \A k \in Hosts \ {h} : host'[k] = host[k]
<1>1. host \in [Hosts -> Host] /\ host[h] \in Host
  BY DEF TypeOK
<1>2. PICK c : c = [pc |-> pc, text |-> text, k |-> 1, id |-> id,
                     scope |-> Unscoped, importance |-> 1, rows |-> {}]
  OBVIOUS
<1>3. c \in Host /\ c.pc = pc /\ c.id = id /\ c.text = text
  BY <1>1, <1>2, SemanticBoundsAssumption DEF Host
<1>4. host' = [host EXCEPT ![h] = c]
  BY <1>1, <1>2 DEF Begin
<1> QED
  BY <1>1, <1>3, <1>4

\* An element leaves a sequence.
LEMMA OneFewer ==
  ASSUME NEW S, NEW s \in Seq(S), NEW i \in DOMAIN s
  PROVE  /\ RemoveAt(s, i) \in Seq(S)
         /\ Len(RemoveAt(s, i)) = Len(s) - 1
<1>1. i \in 1..Len(s) /\ Len(s) \in Nat
  OBVIOUS
<1>2. /\ SubSeq(s, 1, i - 1) \in Seq(S) /\ Len(SubSeq(s, 1, i - 1)) = i - 1
      /\ SubSeq(s, i + 1, Len(s)) \in Seq(S)
      /\ Len(SubSeq(s, i + 1, Len(s))) = Len(s) - i
  BY <1>1
<1>3. PICK a \in Seq(S), b \in Seq(S) :
        /\ a = SubSeq(s, 1, i - 1) /\ b = SubSeq(s, i + 1, Len(s))
        /\ Len(a) = i - 1 /\ Len(b) = Len(s) - i
  BY <1>2
<1>4. RemoveAt(s, i) = a \o b
  BY <1>3 DEF RemoveAt
<1>5. a \o b \in Seq(S) /\ Len(a \o b) = Len(a) + Len(b)
  OBVIOUS
<1>6. i \in Int /\ (i - 1) + (Len(s) - i) = Len(s) - 1
  BY <1>1
<1> QED
  BY <1>3, <1>4, <1>5, <1>6

\* The cache without a query's entry.
LEMMA WithoutShrinks ==
  ASSUME TypeOK, NEW query
  PROVE  /\ Without(query) \in Seq(Entry)
         /\ Len(Without(query)) <= CacheSize
         /\ CachedFor(query) # {} => Len(Without(query)) < CacheSize
<1>1. /\ cache \in Seq(Entry) /\ Len(cache) <= CacheSize /\ Len(cache) \in Nat
      /\ CacheSize \in Nat
  BY CacheSizeAssumption DEF TypeOK
<1>2. CASE CachedFor(query) = {}
  BY <1>1, <1>2 DEF Without
<1>3. CASE CachedFor(query) # {}
  <2>1. PICK i \in DOMAIN cache : i = CHOOSE j \in CachedFor(query) : TRUE
    BY <1>3 DEF CachedFor
  <2>2. /\ RemoveAt(cache, i) \in Seq(Entry)
        /\ Len(RemoveAt(cache, i)) = Len(cache) - 1
    BY <1>1, <2>1, OneFewer
  <2>3. Without(query) = RemoveAt(cache, i)
    BY <1>3, <2>1 DEF Without
  <2> QED
    BY <1>1, <2>2, <2>3
<1> QED
  BY <1>2, <1>3

\* A hit keeps the cache's size, and a put its bound.
LEMMA CacheTyped ==
  ASSUME TypeOK, NEW entry \in Entry,
         CachePut(entry) \/ (CachedFor(entry.query) # {} /\ CacheTouch(entry))
  PROVE  cache' \in Seq(Entry) /\ Len(cache') <= CacheSize
<1>1. PICK rest \in Seq(Entry) :
        /\ rest = Without(entry.query) /\ Len(rest) <= CacheSize
        /\ CachedFor(entry.query) # {} => Len(rest) < CacheSize
  BY WithoutShrinks
<1>2. CacheSize \in Nat \ {0} /\ Len(rest) \in Nat
  BY CacheSizeAssumption
<1>3. Append(rest, entry) \in Seq(Entry) /\ Len(Append(rest, entry)) = Len(rest) + 1
  OBVIOUS
<1>4. PICK grown \in Seq(Entry) : grown = Append(rest, entry) /\ Len(grown) = Len(rest) + 1
  BY <1>3
<1>5. CASE CachePut(entry)
  <2>1. cache' = IF Len(grown) > CacheSize THEN Tail(grown) ELSE grown
    BY <1>1, <1>4, <1>5 DEF CachePut
  <2>2. Tail(grown) \in Seq(Entry) /\ Len(Tail(grown)) = Len(rest)
    BY <1>2, <1>4
  <2> QED
    BY <1>1, <1>2, <1>4, <2>1, <2>2
<1>6. CASE CachedFor(entry.query) # {} /\ CacheTouch(entry)
  BY <1>1, <1>2, <1>4, <1>6 DEF CacheTouch
<1> QED
  BY <1>5, <1>6

(***************************************************************************)
(* The steps.                                                              *)
(***************************************************************************)

\* Nobody has said anything.
LEMMA InvInitially == Init => Inv
<1> SUFFICES ASSUME Init PROVE Inv
  OBVIOUS
<1>1. /\ mem = << >> /\ lastId = 0 /\ lock = {} /\ cache = << >>
      /\ forgotten = {} /\ heard = {} /\ scoped = {}
  BY DEF Init
<1>2. /\ writer \in [Writers -> Writer]
      /\ \A w \in Writers : writer[w].pc = "idle" /\ writer[w].todo = << >>
  <2>1. PICK s \in Scopes : s = CHOOSE t \in Scopes : TRUE
    BY NonEmptyAssumption
  <2>2. PICK c : c = [pc |-> "idle", todo |-> << >>, said |-> << >>, failed |-> FALSE,
                      scope |-> s]
    OBVIOUS
  <2>3. c \in Writer
    BY <2>2 DEF Writer
  <2>4. writer \in [Writers -> {c}]
    BY <2>1, <2>2 DEF Init
  <2>5. /\ \A w \in Writers : writer[w] = c
        /\ writer = [w \in Writers |-> writer[w]]
    BY <2>4
  <2>6. writer \in [Writers -> Writer]
    BY <2>3, <2>5
  <2>7. c.pc = "idle" /\ c.todo = << >>
    BY <2>2
  <2> QED
    BY <2>5, <2>6, <2>7
<1>3. /\ host \in [Hosts -> Host]
      /\ \A h \in Hosts : host[h].pc = "idle" /\ host[h].id = 0
  <2>1. PICK c : c = [pc |-> "idle", text |-> AnyText, k |-> 1, id |-> 0,
                      scope |-> Unscoped, importance |-> 1, rows |-> {}]
    OBVIOUS
  <2>2. AnyText \in Sentences /\ 1 \in 1..MaxTopK
    BY NonEmptyAssumption, SemanticBoundsAssumption DEF AnyText
  <2>3. c \in Host
    BY <2>1, <2>2 DEF Host
  <2>4. host \in [Hosts -> {c}]
    BY <2>1 DEF Init
  <2>5. (\A h \in Hosts : host[h] = c) /\ host = [h \in Hosts |-> host[h]]
    BY <2>4
  <2>6. host \in [Hosts -> Host]
    BY <2>3, <2>5
  <2>7. c.pc = "idle" /\ c.id = 0
    BY <2>1
  <2> QED
    BY <2>5, <2>6, <2>7
<1>4. TypeOK
  <2>1. DOMAIN mem = {} /\ mem \in [DOMAIN mem -> Row]
    BY <1>1
  <2>2. cache \in Seq(Entry) /\ Len(cache) <= CacheSize
    BY <1>1, CacheSizeAssumption
  <2> QED
    BY <1>1, <1>2, <1>3, <2>1, <2>2 DEF TypeOK
<1>5. DOMAIN mem = {}
  BY <1>1
<1>6. RowsOk /\ OnceOk /\ ForgottenStaysGone /\ HeldInEveryScope
  BY <1>1, <1>2, <1>5 DEF RowsOk, OnceOk, ForgottenStaysGone, HeldInEveryScope
<1>7. \A w \in Writers : WriterOk(w) /\ SaidOk(w)
  BY <1>2 DEF WriterOk, SaidOk
<1>8. \A h \in Hosts : HostOk(h)
  BY <1>1, <1>3 DEF HostOk
<1>9. IsFiniteSet(scoped)
  BY <1>1, FS_EmptySet
<1> QED
  BY <1>4, <1>6, <1>7, <1>8, <1>9 DEF Inv

\* A step of a host that writes no row.
LEMMA HostOnly ==
  ASSUME Inv, UNCHANGED <<mem, lastId, lock, writer, forgotten, heard, scoped>>,
         host' \in [Hosts -> Host], \A h \in Hosts : HostOk(h)',
         cache' \in Seq(Entry), Len(cache') <= CacheSize
  PROVE  Inv'
<1>1. TypeOK'
  BY DEF Inv, TypeOK
<1>2. RowsOk' /\ ForgottenStaysGone'
  BY DEF Inv, RowsOk, ForgottenStaysGone
<1>3. OnceOk'
  BY DEF Inv, OnceOk, OneScope, Missing
<1>4. \A w \in Writers : WriterOk(w)'
  BY DEF Inv, WriterOk
<1>5. \A w \in Writers : SaidOk(w)'
  BY DEF Inv, SaidOk, Intact, Held
<1>6. HeldInEveryScope'
  BY DEF Inv, HeldInEveryScope
<1> QED
  BY <1>1, <1>2, <1>3, <1>4, <1>5, <1>6 DEF Inv

\* A writer becomes c, without writing a row.
WriterMove(w, c) ==
  /\ c \in Writer /\ writer' = [writer EXCEPT ![w] = c]
  /\ UNCHANGED <<mem, lastId, host, forgotten>>
  /\ lock' = lock \/ (lock = {} /\ lock' = {w})
  /\ cache' \in Seq(Entry) /\ Len(cache') <= CacheSize
  /\ heard' \subseteq Sentences \X Scopes
  /\ scoped \subseteq scoped' /\ scoped' \subseteq Scopes /\ IsFiniteSet(scoped')
  /\ c.pc # "idle" => c.scope \in scoped'
  /\ \A n \in DOMAIN c.todo : c.todo[n].text.speaker # "host"
  /\ c.pc = "insert" => lock' = {w} /\ c.todo # << >>
  /\ c.pc = "insert" /\ OneScope => Missing(Head(c.todo).text)
  /\ Intact /\ c.pc # "idle" /\ ~c.failed =>
       \A n \in DOMAIN c.said : WorthKeeping(c.said[n]) =>
         \/ \E m \in DOMAIN c.todo : c.todo[m].text = ByUser(c.said[n])
         \/ Held(ByUser(c.said[n]), c.scope)
  /\ Intact => \A t \in heard' \ heard : WorthKeeping(t[1]) => Held(ByUser(t[1]), t[2])

\* It preserves the invariant.
LEMMA WriterMoves ==
  ASSUME Inv, NEW w \in Writers, NEW c, WriterMove(w, c)
  PROVE  Inv'
<1> USE DEF WriterMove
<1>1. TypeOK /\ writer \in [Writers -> Writer]
  BY DEF Inv, TypeOK
<1>2. /\ writer' \in [Writers -> Writer] /\ writer'[w] = c
      /\ \A v \in Writers \ {w} : writer'[v] = writer[v]
  BY <1>1
<1>3. TypeOK'
  BY <1>1, <1>2 DEF TypeOK
<1>4. RowsOk' /\ ForgottenStaysGone'
  BY DEF Inv, RowsOk, ForgottenStaysGone
<1>5. \A v \in Writers : WriterOk(v)'
  <2>1. WriterOk(w)'
    BY <1>2 DEF WriterOk
  <2>2. ASSUME NEW v \in Writers \ {w} PROVE WriterOk(v)'
    <3>1. WriterOk(v) /\ writer'[v] = writer[v]
      BY <1>2 DEF Inv
    <3> QED
      BY <3>1 DEF WriterOk
  <2> QED
    BY <2>1, <2>2
<1>6. OnceOk'
  <2>1. OneScope' => OneScope
    BY DEF OneScope
  <2>2. ASSUME OneScope, NEW v \in Writers, writer'[v].pc = "insert"
        PROVE  Missing(Head(writer'[v].todo).text)
    <3>1. CASE v = w
      BY <1>2, <2>2, <3>1
    <3>2. CASE v # w
      <4>1. writer'[v] = writer[v]
        BY <1>2, <3>2
      <4> QED
        BY <2>2, <4>1 DEF Inv, OnceOk
    <3> QED
      BY <3>1, <3>2
  <2>3. \A v \in Writers : OneScope /\ writer'[v].pc = "insert" =>
          Missing(Head(writer[v].todo).text)'
    BY <2>2 DEF Missing
  <2> QED
    BY <2>1, <2>3 DEF Inv, OnceOk
<1>7. Intact' <=> Intact
  BY DEF Intact
<1>8. \A text, scope : Held(text, scope)' <=> Held(text, scope)
  BY DEF Held
<1>9. \A v \in Writers : SaidOk(v)'
  <2>1. SaidOk(w)'
    BY <1>2, <1>7, <1>8 DEF SaidOk
  <2>2. ASSUME NEW v \in Writers \ {w} PROVE SaidOk(v)'
    <3>1. SaidOk(v) /\ writer'[v] = writer[v]
      BY <1>2 DEF Inv
    <3> QED
      BY <1>7, <1>8, <3>1 DEF SaidOk
  <2> QED
    BY <2>1, <2>2
<1>10. HeldInEveryScope'
  <2>1. ASSUME Intact, NEW t \in heard', WorthKeeping(t[1])
        PROVE  Held(ByUser(t[1]), t[2])
    <3>1. CASE t \in heard
      BY <2>1, <3>1 DEF Inv, HeldInEveryScope, Intact, Held, ByUser
    <3>2. CASE t \notin heard
      BY <2>1, <3>2
    <3> QED
      BY <3>1, <3>2
  <2> QED
    BY <2>1 DEF HeldInEveryScope, Intact, Held, ByUser
<1>11. \A h \in Hosts : HostOk(h)'
  BY DEF Inv, HostOk
<1> QED
  BY <1>3, <1>4, <1>5, <1>6, <1>9, <1>10, <1>11 DEF Inv

\* A host's call begins its next step, and no row is written.
LEMMA BeginMoves ==
  ASSUME Inv, NEW h \in Hosts,
         NEW pc \in {"idle", "search", "store", "delete", "read", "write", "clear"},
         NEW id \in 0..lastId, NEW text \in Sentences, Begin(h, pc, id, text),
         pc \in {"read", "write"} => id # 0,
         UNCHANGED <<mem, lastId, lock, writer, forgotten, heard, scoped>>,
         cache' \in Seq(Entry), Len(cache') <= CacheSize
  PROVE  Inv'
<1>1. TypeOK /\ lastId \in Nat /\ id \in Nat
  BY DEF Inv, TypeOK
<1>2. /\ host' \in [Hosts -> Host]
      /\ host'[h].pc = pc /\ host'[h].id = id
      /\ \A k \in Hosts \ {h} : host'[k] = host[k]
  BY <1>1, Begins
<1>3. \A k \in Hosts : HostOk(k)'
  <2>1. HostOk(h)'
    BY <1>1, <1>2 DEF HostOk
  <2>2. ASSUME NEW k \in Hosts \ {h} PROVE HostOk(k)'
    <3>1. HostOk(k) /\ host'[k] = host[k]
      BY <1>2 DEF Inv
    <3> QED
      BY <3>1 DEF HostOk
  <2> QED
    BY <2>1, <2>2
<1> QED
  BY <1>2, <1>3, HostOnly

\* A host's record becomes c.
HostMove(h, c) ==
  /\ c \in Host /\ c.id = host[h].id
  /\ c.pc \in {"read", "write"} => c.id # 0
  /\ host' = [host EXCEPT ![h] = c]

\* It preserves what is known of the hosts.
LEMMA HostMoves ==
  ASSUME Inv, NEW h \in Hosts, NEW c, HostMove(h, c), lastId' = lastId
  PROVE  host' \in [Hosts -> Host] /\ \A k \in Hosts : HostOk(k)'
<1>1. host \in [Hosts -> Host]
  BY DEF Inv, TypeOK
<1>2. /\ host' \in [Hosts -> Host] /\ host'[h] = c
      /\ \A k \in Hosts \ {h} : host'[k] = host[k]
  BY <1>1 DEF HostMove
<1>3. HostOk(h)'
  BY <1>2 DEF HostMove, HostOk, Inv
<1>4. ASSUME NEW k \in Hosts \ {h} PROVE HostOk(k)'
  <2>1. HostOk(k) /\ host'[k] = host[k]
    BY <1>2 DEF Inv
  <2> QED
    BY <2>1 DEF HostOk
<1> QED
  BY <1>2, <1>3, <1>4

\* reader.py: assemble_context.
LEMMA AssembleKeeps ==
  ASSUME Inv, NEW h \in Hosts, Assemble(h)
  PROVE  Inv'
<1>1. /\ cache \in Seq(Entry) /\ Len(cache) <= CacheSize /\ TypeOK
      /\ host \in [Hosts -> Host]
  BY DEF Inv, TypeOK
<1>2. PICK query \in Sentences :
        AssembleHit(h, query) \/ \E k \in 1..MaxTopK : AssembleMiss(h, query, k)
  BY DEF Assemble
<1>3. CASE AssembleHit(h, query)
  <2>1. PICK i \in CachedFor(query) : CacheTouch(cache[i])
    BY <1>3 DEF AssembleHit
  <2>2. PICK entry \in Entry : entry = cache[i] /\ entry.query = query
    BY <1>1, <2>1 DEF CachedFor
  <2>3. CachedFor(entry.query) # {} /\ CacheTouch(entry)
    BY <2>1, <2>2
  <2>4. cache' \in Seq(Entry) /\ Len(cache') <= CacheSize
    BY <1>1, <2>3, CacheTyped
  <2>5. UNCHANGED <<mem, lastId, lock, writer, host, forgotten, heard, scoped>>
    BY <1>3 DEF AssembleHit
  <2>6. host' \in [Hosts -> Host] /\ \A k \in Hosts : HostOk(k)'
    BY <1>1, <2>5 DEF Inv, HostOk
  <2> QED
    BY <2>4, <2>5, <2>6, HostOnly
<1>4. CASE \E k \in 1..MaxTopK : AssembleMiss(h, query, k)
  <2>1. PICK k \in 1..MaxTopK : AssembleMiss(h, query, k)
    BY <1>4
  <2>2. PICK c : c = [host[h] EXCEPT !.pc = "search", !.text = query, !.k = k]
    OBVIOUS
  <2>3. HostMove(h, c)
    <3>1. host[h] \in Host
      BY <1>1
    <3>2. c \in Host /\ c.id = host[h].id /\ c.pc = "search"
      BY <2>2, <3>1 DEF Host
    <3>3. host' = [host EXCEPT ![h] = c]
      BY <1>1, <2>1, <2>2 DEF AssembleMiss
    <3> QED
      BY <3>2, <3>3 DEF HostMove
  <2>4. UNCHANGED <<mem, lastId, lock, writer, cache, forgotten, heard, scoped>>
    BY <2>1 DEF AssembleMiss
  <2>5. host' \in [Hosts -> Host] /\ \A j \in Hosts : HostOk(j)'
    BY <2>3, <2>4, HostMoves
  <2> QED
    BY <1>1, <2>4, <2>5, HostOnly
<1> QED
  BY <1>2, <1>3, <1>4

\* The search of a miss.
LEMMA SearchKeeps ==
  ASSUME Inv, NEW h \in Hosts, Search(h)
  PROVE  Inv'
<1>1. /\ cache \in Seq(Entry) /\ Len(cache) <= CacheSize /\ TypeOK
      /\ host \in [Hosts -> Host] /\ DOMAIN mem \subseteq Nat
  BY DEF Inv, TypeOK
<1>2. UNCHANGED <<mem, lastId, lock, writer, cache, forgotten, heard, scoped>>
  BY DEF Search
<1>3. PICK query : query = Raw(host[h].text)
  OBVIOUS
<1>4. PICK pool \in Candidates(query, host[h].k) :
        \E best \in BestOf(host[h].k, pool \cap Relevant(query), query) :
          host' = [host EXCEPT ![h].pc = "store", ![h].rows = best]
  BY <1>3 DEF Search
<1>5. PICK best \in BestOf(host[h].k, pool \cap Relevant(query), query) :
        host' = [host EXCEPT ![h].pc = "store", ![h].rows = best]
  BY <1>4
<1>6. best \in SUBSET Nat
  <2>1. best \subseteq Relevant(query)
    BY DEF BestOf
  <2> QED
    BY <1>1, <2>1 DEF Relevant
<1>7. PICK c : c = [host[h] EXCEPT !.pc = "store", !.rows = best]
  OBVIOUS
<1>8. HostMove(h, c)
  <2>1. host[h] \in Host
    BY <1>1
  <2>2. c \in Host /\ c.id = host[h].id /\ c.pc = "store"
    BY <1>6, <1>7, <2>1 DEF Host
  <2>3. host' = [host EXCEPT ![h] = c]
    BY <1>1, <1>5, <1>7
  <2> QED
    BY <2>2, <2>3 DEF HostMove
<1>9. host' \in [Hosts -> Host] /\ \A k \in Hosts : HostOk(k)'
  BY <1>2, <1>8, HostMoves
<1> QED
  BY <1>1, <1>2, <1>9, HostOnly

\* Its answer is stored in the cache.
LEMMA StoreKeeps ==
  ASSUME Inv, NEW h \in Hosts, Store(h)
  PROVE  Inv'
<1>1. TypeOK /\ lastId \in Nat /\ AnyText \in Sentences
  BY NonEmptyAssumption DEF Inv, TypeOK, AnyText
<1>2. PICK entry : entry = [query |-> host[h].text, k |-> host[h].k,
                            rows |-> host[h].rows]
  OBVIOUS
<1>3. entry \in Entry
  BY <1>1, <1>2, HostFields DEF Entry
<1>4. CachePut(entry)
  BY <1>2 DEF Store
<1>5. cache' \in Seq(Entry) /\ Len(cache') <= CacheSize
  BY <1>1, <1>3, <1>4, CacheTyped
<1>6. /\ Begin(h, "idle", 0, AnyText)
      /\ UNCHANGED <<mem, lastId, lock, writer, forgotten, heard, scoped>>
  BY DEF Store
<1>7. "idle" \notin {"read", "write"} /\ 0 \in 0..lastId
  BY <1>1
<1> QED
  BY <1>1, <1>5, <1>6, <1>7, BeginMoves

\* transparency.py: the steps that look rows up.
LEMMA EditKeeps ==
  ASSUME Inv, NEW h \in Hosts,
         \/ \E text \in Sentences : ForgetByQuery(h, text)
         \/ \E id \in 1..lastId : ForgetById(h, id)
         \/ Optimize(h)
         \/ \E id \in 1..lastId, text \in Sentences : Update(h, id, text)
  PROVE  Inv'
<1>1. /\ cache \in Seq(Entry) /\ Len(cache) <= CacheSize /\ TypeOK
      /\ lastId \in Nat /\ AnyText \in Sentences
      /\ DOMAIN mem \subseteq 1..lastId /\ mem \in [DOMAIN mem -> Row]
  BY NonEmptyAssumption DEF Inv, TypeOK, AnyText
<1>2. UNCHANGED <<mem, lastId, lock, writer, cache, forgotten, heard, scoped>>
  BY DEF ForgetByQuery, ForgetById, Optimize, Update
<1>3. cache' \in Seq(Entry) /\ Len(cache') <= CacheSize
  BY <1>1, <1>2
<1>4. "clear" \notin {"read", "write"} /\ "delete" \notin {"read", "write"}
      /\ 0 \in 0..lastId
  BY <1>1
<1>5. ASSUME NEW text \in Sentences, ForgetByQuery(h, text) PROVE Inv'
  <2>1. CASE BestMatch(text) = {}
    <3>1. Begin(h, "clear", 0, text)
      BY <1>5, <2>1 DEF ForgetByQuery
    <3> QED
      BY <1>2, <1>3, <1>4, <3>1, BeginMoves
  <2>2. CASE BestMatch(text) # {}
    <3>1. PICK i \in BestMatch(text) : Begin(h, "delete", i, text)
      BY <1>5, <2>2 DEF ForgetByQuery
    <3>2. i \in 0..lastId
      BY <1>1 DEF BestMatch, Relevant
    <3> QED
      BY <1>2, <1>3, <1>4, <3>1, <3>2, BeginMoves
  <2> QED
    BY <2>1, <2>2
<1>6. ASSUME NEW id \in 1..lastId, ForgetById(h, id) PROVE Inv'
  <2>1. PICK text : text = IF id \in DOMAIN mem THEN mem[id].text.says ELSE AnyText
    OBVIOUS
  <2>2. text \in Sentences
    BY <1>1, <2>1 DEF Row, Text
  <2>3. Begin(h, "delete", id, text)
    BY <1>6, <2>1 DEF ForgetById
  <2>4. id \in 0..lastId
    BY <1>1
  <2> QED
    BY <1>2, <1>3, <1>4, <2>2, <2>3, <2>4, BeginMoves
<1>7. CASE Optimize(h)
  <2>1. Begin(h, "clear", 0, AnyText)
    BY <1>7 DEF Optimize
  <2> QED
    BY <1>1, <1>2, <1>3, <1>4, <2>1, BeginMoves
<1>8. ASSUME NEW id \in 1..lastId, NEW text \in Sentences, Update(h, id, text)
      PROVE  Inv'
  <2>1. PICK pc \in {"read", "clear"} : pc = IF id \in DOMAIN mem THEN "read" ELSE "clear"
    OBVIOUS
  <2>2. Begin(h, pc, id, text)
    BY <1>8, <2>1 DEF Update
  <2>3. id \in 0..lastId /\ id # 0
    BY <1>1
  <2> QED
    BY <1>2, <1>3, <2>2, <2>3, BeginMoves
<1> QED
  BY <1>5, <1>6, <1>7, <1>8

\* update_memory reads the row it is to replace.
LEMMA ReadExistingKeeps ==
  ASSUME Inv, NEW h \in Hosts, ReadExisting(h)
  PROVE  Inv'
<1>1. /\ cache \in Seq(Entry) /\ Len(cache) <= CacheSize /\ TypeOK
      /\ host \in [Hosts -> Host] /\ mem \in [DOMAIN mem -> Row]
  BY DEF Inv, TypeOK
<1>2. UNCHANGED <<mem, lastId, lock, writer, cache, forgotten, heard, scoped>>
  BY DEF ReadExisting
<1>3. PICK scope, importance :
        /\ scope = IF host[h].id \in DOMAIN mem THEN mem[host[h].id].scope
                   ELSE Unscoped
        /\ importance = IF host[h].id \in DOMAIN mem
                        THEN mem[host[h].id].importance ELSE 1
  OBVIOUS
<1>4. scope \in Scopes \cup {Unscoped} /\ importance \in 1..10
  BY <1>1, <1>3 DEF Row
<1>5. PICK c : c = [host[h] EXCEPT !.pc = "write", !.scope = scope,
                                   !.importance = importance]
  OBVIOUS
<1>6. HostMove(h, c)
  <2>1. host[h] \in Host
    BY <1>1
  <2>2. c \in Host /\ c.id = host[h].id
    BY <1>4, <1>5, <2>1 DEF Host
  <2>3. host' = [host EXCEPT ![h] = c]
    BY <1>1, <1>3, <1>5 DEF ReadExisting
  <2>4. host[h].id # 0
    BY DEF ReadExisting, Inv, HostOk
  <2> QED
    BY <2>2, <2>3, <2>4 DEF HostMove
<1>7. host' \in [Hosts -> Host] /\ \A k \in Hosts : HostOk(k)'
  BY <1>2, <1>6, HostMoves
<1> QED
  BY <1>1, <1>2, <1>7, HostOnly

\* Every edit ends with cache.clear.
LEMMA ClearCacheKeeps ==
  ASSUME Inv, NEW h \in Hosts, ClearCache(h)
  PROVE  Inv'
<1>1. /\ lastId \in Nat /\ AnyText \in Sentences
      /\ "idle" \notin {"read", "write"} /\ 0 \in 0..lastId
  BY NonEmptyAssumption DEF Inv, TypeOK, AnyText
<1>2. /\ Begin(h, "idle", 0, AnyText)
      /\ UNCHANGED <<mem, lastId, lock, writer, forgotten, heard, scoped>>
  BY DEF ClearCache
<1>3. cache' \in Seq(Entry) /\ Len(cache') <= CacheSize
  <2>1. cache' = << >>
    BY DEF ClearCache
  <2> QED
    BY <2>1, CacheSizeAssumption
<1> QED
  BY <1>1, <1>2, <1>3, BeginMoves

\* ingest_async: the facts of the interaction are to be written.
LEMMA IngestKeeps ==
  ASSUME Inv, Dispatch
  PROVE  Inv'
<1>1. PICK h \in Hosts, w \in Writers, interaction \in Interactions,
           priority \in Priorities, scope \in Scopes :
        Ingest(h, w, interaction, priority, scope)
  BY DEF Dispatch
<1>2. TypeOK
  BY DEF Inv
<1>3. PICK query \in Seq(Sentences), response \in Seq(Sentences) :
        query = interaction.query /\ response = interaction.response
  BY InteractionsAssumption
<1>4. PICK facts \in Seq(Fact) :
        /\ facts = ToWrite(query, response, priority)
        /\ \A i \in DOMAIN facts : facts[i].text.speaker # "host"
        /\ \A j \in DOMAIN query : Informative(query[j], TRUE) =>
             \E i \in DOMAIN facts :
               facts[i].text = [speaker |-> "User", says |-> query[j]]
  <2> DEFINE facts == ToWrite(query, response, priority)
  <2>1. priority \in {{}} \cup {{p} : p \in 1..10}
    BY InteractionsAssumption
  <2>2. /\ facts \in Seq(Fact)
        /\ \A i \in DOMAIN facts : facts[i].text.speaker # "host"
        /\ \A j \in DOMAIN query : Informative(query[j], TRUE) =>
             \E i \in DOMAIN facts :
               facts[i].text = [speaker |-> "User", says |-> query[j]]
    BY <2>1, ToWriteFacts
  <2> HIDE DEF facts
  <2> QED
    BY <2>2 DEF facts
<1>5. PICK c : c = [pc |-> "check", scope |-> scope, failed |-> FALSE,
                    said |-> query, todo |-> facts]
  OBVIOUS
<1>6. /\ c.pc = "check" /\ c.scope = scope /\ c.said = query /\ c.todo = facts
      /\ c.failed = FALSE
  BY <1>5
<1>7. c \in Writer
  BY <1>4, <1>5 DEF Writer, Fact
<1>8. /\ writer' = [writer EXCEPT ![w] = c]
      /\ UNCHANGED <<mem, lastId, lock, host, cache, forgotten, heard>>
      /\ scoped' = scoped \cup {scope}
  BY <1>1, <1>3, <1>4, <1>5 DEF Ingest
<1>9. IsFiniteSet(scoped')
  BY <1>8, FS_AddElement DEF Inv
<1>10. /\ cache' \in Seq(Entry) /\ Len(cache') <= CacheSize
       /\ heard' \subseteq Sentences \X Scopes
       /\ scoped \subseteq scoped' /\ scoped' \subseteq Scopes
       /\ c.scope \in scoped'
  BY <1>2, <1>6, <1>8 DEF TypeOK
<1>11. \A n \in DOMAIN query : WorthKeeping(query[n]) =>
         \E m \in DOMAIN facts : facts[m].text = ByUser(query[n])
  BY <1>4 DEF WorthKeeping, Informative, ByUser
<1>12. WriterMove(w, c)
  BY <1>4, <1>6, <1>7, <1>8, <1>9, <1>10, <1>11 DEF WriterMove
<1> QED
  BY <1>12, WriterMoves

\* The fields of a writer's record.
LEMMA WriterFields ==
  ASSUME TypeOK, NEW w \in Writers
  PROVE  /\ writer[w] \in Writer
         /\ writer[w].pc \in {"idle", "check", "insert"}
         /\ writer[w].todo \in Seq(Fact) /\ writer[w].said \in Seq(Sentences)
         /\ writer[w].scope \in Scopes /\ writer[w].failed \in BOOLEAN
<1>1. writer[w] \in Writer
  BY DEF TypeOK
<1> QED
  BY <1>1 DEF Writer, Fact

\* What is not the head of a sequence is in its tail.
LEMMA TailHasTheRest ==
  ASSUME NEW S, NEW s \in Seq(S), s # << >>
  PROVE  /\ Head(s) \in S /\ Head(s) = s[1] /\ 1 \in DOMAIN s
         /\ Tail(s) \in Seq(S)
         /\ \A n \in DOMAIN Tail(s) : n + 1 \in DOMAIN s /\ Tail(s)[n] = s[n + 1]
         /\ \A m \in DOMAIN s : m = 1 \/ (m - 1 \in DOMAIN Tail(s) /\ Tail(s)[m - 1] = s[m])
  OBVIOUS

\* The nearest row has the text if any row has it.
LEMMA NearestIsNear ==
  ASSUME TypeOK, NEW text, NEW i \in Nearest(text), NEW j \in DOMAIN mem,
         mem[j].text = text
  PROVE  i \in DOMAIN mem /\ mem[i].text = text
<1>1. PICK rows \in NearestRows(text, 1) : i \in rows
  BY DEF Nearest
<1>2. /\ rows \in SUBSET DOMAIN mem
      /\ Cardinality(rows) = AtMost(Cardinality(DOMAIN mem), 1)
      /\ \A a \in rows, b \in DOMAIN mem \ rows : Distance(text, a) <= Distance(text, b)
  BY <1>1 DEF NearestRows
<1>3. IsFiniteSet(DOMAIN mem)
  <2>1. lastId \in Nat /\ DOMAIN mem \subseteq 1..lastId
    BY DEF TypeOK
  <2>2. IsFiniteSet(1..lastId)
    BY <2>1, FS_Interval
  <2> QED
    BY <2>1, <2>2, FS_Subset
<1>4. IsFiniteSet(rows) /\ Cardinality(rows) \in Nat /\ Cardinality(DOMAIN mem) \in Nat
  BY <1>2, <1>3, FS_Subset, FS_CardinalityType
<1>5. Cardinality(DOMAIN mem) # 0 /\ Cardinality(rows) # 0
  BY <1>1, <1>3, <1>4, FS_EmptySet
<1>6. Cardinality(rows) = 1
  BY <1>2, <1>4, <1>5 DEF AtMost
<1>7. rows = {i}
  BY <1>1, <1>4, <1>6, FS_Singleton
<1>8. Distance(text, j) = 0
  BY DEF Distance
<1>9. CASE j = i
  BY <1>1, <1>2, <1>9
<1>10. CASE j # i
  <2>1. Distance(text, i) <= Distance(text, j)
    BY <1>1, <1>2, <1>7, <1>10
  <2> QED
    BY <1>1, <1>2, <1>8, <2>1 DEF Distance
<1> QED
  BY <1>9, <1>10

\* writer.py, _dedup_and_write: a redundant fact is held.
LEMMA DropRedundantKeeps ==
  ASSUME Inv, NEW w \in Writers, DropRedundant(w)
  PROVE  Inv'
<1>1. TypeOK /\ WriterOk(w) /\ SaidOk(w)
  BY DEF Inv
<1>2. PICK todo \in Seq(Fact), said \in Seq(Sentences), scope \in Scopes,
           failed \in BOOLEAN :
        /\ todo = writer[w].todo /\ said = writer[w].said
        /\ scope = writer[w].scope /\ failed = writer[w].failed
  BY <1>1, WriterFields
<1>3. /\ writer[w].pc = "check" /\ todo # << >>
      /\ MayBeRedundant(Head(todo).text, scope)
      /\ UNCHANGED <<mem, lastId, lock, host, cache, forgotten, heard, scoped>>
  BY <1>2 DEF DropRedundant
<1>4. /\ Head(todo) = todo[1] /\ Tail(todo) \in Seq(Fact)
      /\ \A n \in DOMAIN Tail(todo) : n + 1 \in DOMAIN todo /\ Tail(todo)[n] = todo[n + 1]
      /\ \A m \in DOMAIN todo :
           m = 1 \/ (m - 1 \in DOMAIN Tail(todo) /\ Tail(todo)[m - 1] = todo[m])
  BY <1>3, TailHasTheRest
<1>5. Held(todo[1].text, scope)
  <2>1. PICK i \in Nearest(todo[1].text) : Redundant(todo[1].text, scope, i)
    BY <1>3, <1>4 DEF MayBeRedundant
  <2>2. i \in DOMAIN mem
    BY DEF Nearest, NearestRows
  <2>3. mem[i].text = todo[1].text /\ mem[i].scope = scope
    BY <2>1 DEF Redundant, Distance
  <2> QED
    BY <2>2, <2>3 DEF Held
<1>6. PICK c : c = [writer[w] EXCEPT !.todo = Tail(todo)]
  OBVIOUS
<1>7. /\ c \in Writer /\ c.pc = "check" /\ c.todo = Tail(todo) /\ c.said = said
      /\ c.scope = scope /\ c.failed = failed
  <2>1. writer[w] \in Writer
    BY <1>1, WriterFields
  <2> QED
    BY <1>2, <1>3, <1>4, <1>6, <2>1 DEF Writer, Fact
<1>8. writer' = [writer EXCEPT ![w] = c]
  BY <1>1, <1>2, <1>6 DEF DropRedundant, TypeOK
<1>9. /\ cache' \in Seq(Entry) /\ Len(cache') <= CacheSize
      /\ heard' \subseteq Sentences \X Scopes
      /\ scoped \subseteq scoped' /\ scoped' \subseteq Scopes /\ IsFiniteSet(scoped')
      /\ c.scope \in scoped'
  BY <1>1, <1>2, <1>3, <1>7 DEF TypeOK, Inv, WriterOk
<1>10. \A n \in DOMAIN c.todo : c.todo[n].text.speaker # "host"
  BY <1>1, <1>2, <1>4, <1>7 DEF WriterOk
<1>11. ASSUME Intact, ~failed, NEW n \in DOMAIN said, WorthKeeping(said[n])
       PROVE  \/ \E m \in DOMAIN c.todo : c.todo[m].text = ByUser(said[n])
              \/ Held(ByUser(said[n]), scope)
  <2>1. \/ \E m \in DOMAIN todo : todo[m].text = ByUser(said[n])
        \/ Held(ByUser(said[n]), scope)
    BY <1>1, <1>2, <1>3, <1>11 DEF SaidOk
  <2>2. ASSUME NEW m \in DOMAIN todo, todo[m].text = ByUser(said[n])
        PROVE  \/ \E k \in DOMAIN c.todo : c.todo[k].text = ByUser(said[n])
               \/ Held(ByUser(said[n]), scope)
    <3>1. CASE m = 1
      BY <1>5, <2>2, <3>1
    <3>2. CASE m # 1
      <4>1. m - 1 \in DOMAIN Tail(todo) /\ Tail(todo)[m - 1] = todo[m]
        BY <1>4, <3>2
      <4> QED
        BY <1>7, <2>2, <4>1
    <3> QED
      BY <3>1, <3>2
  <2> QED
    BY <2>1, <2>2
<1>12. WriterMove(w, c)
  BY <1>3, <1>7, <1>8, <1>9, <1>10, <1>11 DEF WriterMove
<1> QED
  BY <1>12, WriterMoves

\* A fact it decides to insert is missing, where one namespace is in use: the
\* nearest row would have the text, and be one that ingest wrote.
LEMMA DecideInsertKeeps ==
  ASSUME Inv, NEW w \in Writers, DecideInsert(w)
  PROVE  Inv'
<1>1. TypeOK /\ WriterOk(w) /\ SaidOk(w) /\ RowsOk
  BY DEF Inv
<1>2. PICK todo \in Seq(Fact), scope \in Scopes :
        todo = writer[w].todo /\ scope = writer[w].scope
  BY <1>1, WriterFields
<1>3. /\ writer[w].pc = "check" /\ todo # << >>
      /\ lock = {} /\ lock' = {w}
      /\ MayBeNew(Head(todo).text, scope)
      /\ UNCHANGED <<mem, lastId, host, cache, forgotten, heard, scoped>>
  BY <1>2 DEF DecideInsert, Hold
<1>4. PICK text : text = Head(todo).text
  OBVIOUS
<1>5. text.speaker # "host" /\ scope \in scoped
  <2>1. Head(todo) = todo[1] /\ 1 \in DOMAIN todo
    BY <1>3, TailHasTheRest
  <2> QED
    BY <1>1, <1>2, <1>3, <1>4, <2>1 DEF WriterOk
<1>6. OneScope => Missing(text)
  <2>1. SUFFICES ASSUME OneScope, NEW j \in DOMAIN mem,
                        mem[j].by = "ingest", mem[j].text = text
                 PROVE  FALSE
    BY DEF Missing
  <2>2. mem # << >>
    BY <2>1
  <2>3. PICK i \in Nearest(text) : ~Redundant(text, scope, i)
    BY <1>3, <1>4, <2>2 DEF MayBeNew
  <2>4. i \in DOMAIN mem /\ mem[i].text = text
    BY <1>1, <2>1, <2>3, NearestIsNear
  <2>5. mem[i].scope \in scoped
    BY <1>1, <1>5, <2>4 DEF RowsOk
  <2>6. mem[i].scope = scope
    BY <1>5, <2>1, <2>5 DEF OneScope
  <2> QED
    BY <2>3, <2>4, <2>6 DEF Redundant, Distance
<1>7. PICK c : c = [writer[w] EXCEPT !.pc = "insert"]
  OBVIOUS
<1>8. /\ c \in Writer /\ c.pc = "insert" /\ c.todo = todo /\ c.said = writer[w].said
      /\ c.scope = scope /\ c.failed = writer[w].failed
  <2>1. writer[w] \in Writer
    BY <1>1, WriterFields
  <2> QED
    BY <1>2, <1>7, <2>1 DEF Writer
<1>9. writer' = [writer EXCEPT ![w] = c]
  BY <1>1, <1>7 DEF DecideInsert, TypeOK
<1>10. /\ cache' \in Seq(Entry) /\ Len(cache') <= CacheSize
       /\ heard' \subseteq Sentences \X Scopes
       /\ scoped \subseteq scoped' /\ scoped' \subseteq Scopes /\ IsFiniteSet(scoped')
  BY <1>1, <1>3 DEF TypeOK, Inv
<1>11. \A n \in DOMAIN c.todo : c.todo[n].text.speaker # "host"
  BY <1>1, <1>2, <1>8 DEF WriterOk
<1>12. Intact /\ ~c.failed =>
         \A n \in DOMAIN c.said : WorthKeeping(c.said[n]) =>
           \/ \E m \in DOMAIN c.todo : c.todo[m].text = ByUser(c.said[n])
           \/ Held(ByUser(c.said[n]), c.scope)
  BY <1>1, <1>2, <1>3, <1>8 DEF SaidOk
<1>13. WriterMove(w, c)
  BY <1>3, <1>4, <1>5, <1>6, <1>8, <1>9, <1>10, <1>11, <1>12 DEF WriterMove
<1> QED
  BY <1>13, WriterMoves

\* The pipeline ends early: what it promised is not held, and it is not heard.
LEMMA FailKeeps ==
  ASSUME Inv, NEW w \in Writers, Fail(w)
  PROVE  Inv'
<1>1. TypeOK /\ WriterOk(w)
  BY DEF Inv
<1>2. PICK c : c = [writer[w] EXCEPT !.todo = << >>, !.failed = TRUE]
  OBVIOUS
<1>3. /\ c \in Writer /\ c.pc = "check" /\ c.todo = << >> /\ c.failed = TRUE
      /\ c.scope = writer[w].scope
  <2>1. writer[w] \in Writer /\ writer[w].pc = "check"
    BY <1>1, WriterFields DEF Fail
  <2>2. << >> \in Seq([text: Text, importance: 1..10])
    OBVIOUS
  <2> QED
    BY <1>2, <2>1, <2>2 DEF Writer
<1>4. /\ writer' = [writer EXCEPT ![w] = c]
      /\ UNCHANGED <<mem, lastId, lock, host, cache, forgotten, heard, scoped>>
  BY <1>1, <1>2 DEF Fail, TypeOK
<1>5. /\ cache' \in Seq(Entry) /\ Len(cache') <= CacheSize
      /\ heard' \subseteq Sentences \X Scopes
      /\ scoped \subseteq scoped' /\ scoped' \subseteq Scopes /\ IsFiniteSet(scoped')
      /\ c.scope \in scoped'
  BY <1>1, <1>3, <1>4 DEF TypeOK, Inv, WriterOk, Fail
<1>6. WriterMove(w, c)
  BY <1>3, <1>4, <1>5 DEF WriterMove
<1> QED
  BY <1>6, WriterMoves

\* _on_ingest_complete: with nothing left to write, all that was said is held.
LEMMA CompleteKeeps ==
  ASSUME Inv, NEW w \in Writers, Complete(w)
  PROVE  Inv'
<1>1. TypeOK /\ WriterOk(w) /\ SaidOk(w)
  BY DEF Inv
<1>2. PICK said \in Seq(Sentences), scope \in Scopes :
        said = writer[w].said /\ scope = writer[w].scope
  BY <1>1, WriterFields
<1>3. PICK c : c = [writer[w] EXCEPT !.pc = "idle", !.failed = FALSE, !.said = << >>]
  OBVIOUS
<1>4. c \in Writer /\ c.pc = "idle" /\ c.todo = << >>
  <2>1. writer[w] \in Writer /\ writer[w].todo = << >>
    BY <1>1, WriterFields DEF Complete
  <2>2. << >> \in Seq(Sentences)
    OBVIOUS
  <2> QED
    BY <1>3, <2>1, <2>2 DEF Writer
<1>5. /\ writer' = [writer EXCEPT ![w] = c]
      /\ UNCHANGED <<mem, lastId, lock, host, forgotten, scoped>>
  BY <1>1, <1>3 DEF Complete, TypeOK
<1>6. cache' \in Seq(Entry) /\ Len(cache') <= CacheSize
  <2>1. cache' = << >>
    BY DEF Complete, ClearsAfter
  <2> QED
    BY <2>1, CacheSizeAssumption
<1>7. PICK new : new = {<<said[i], scope>> : i \in DOMAIN said}
  OBVIOUS
<1>8. heard' = IF writer[w].failed THEN heard ELSE heard \cup new
  BY <1>2, <1>7 DEF Complete
<1>9. new \subseteq Sentences \X Scopes
  BY <1>2, <1>7
<1>10. /\ heard' \subseteq Sentences \X Scopes
       /\ scoped \subseteq scoped' /\ scoped' \subseteq Scopes /\ IsFiniteSet(scoped')
  BY <1>1, <1>5, <1>8, <1>9 DEF TypeOK, Inv
<1>11. ASSUME Intact, NEW t \in heard' \ heard, WorthKeeping(t[1])
       PROVE  Held(ByUser(t[1]), t[2])
  <2>1. ~writer[w].failed /\ t \in new
    BY <1>8, <1>11
  <2>2. PICK i \in DOMAIN said : t = <<said[i], scope>>
    BY <1>7, <2>1
  <2>3. t[1] = said[i] /\ t[2] = scope
    BY <2>2
  <2>4. \/ \E m \in DOMAIN writer[w].todo : writer[w].todo[m].text = ByUser(said[i])
        \/ Held(ByUser(said[i]), scope)
    BY <1>1, <1>2, <1>11, <2>1, <2>3 DEF SaidOk, Complete
  <2>5. DOMAIN writer[w].todo = {}
    BY DEF Complete
  <2> QED
    BY <2>3, <2>4, <2>5
<1>12. WriterMove(w, c)
  BY <1>4, <1>5, <1>6, <1>10, <1>11 DEF WriterMove
<1> QED
  BY <1>12, WriterMoves

\* insert_memory: a row gets an id that no row has had.
LEMMA RowAdded ==
  ASSUME Inv, NEW text, NEW importance, NEW scope, NEW by,
         [text |-> text, importance |-> importance, scope |-> scope, by |-> by] \in Row,
         by # "update", InsertMemory(text, importance, scope, by),
         forgotten' = forgotten
  PROVE  /\ lastId' = lastId + 1 /\ lastId' \in Nat /\ lastId' \notin DOMAIN mem
         /\ DOMAIN mem' = DOMAIN mem \cup {lastId'}
         /\ DOMAIN mem' \subseteq 1..lastId' /\ mem' \in [DOMAIN mem' -> Row]
         /\ mem'[lastId'].text = text /\ mem'[lastId'].scope = scope
         /\ mem'[lastId'].by = by
         /\ \A i \in DOMAIN mem : mem'[i] = mem[i]
         /\ ForgottenStaysGone'
         /\ Intact' => Intact
         /\ \A t, s : Held(t, s) => Held(t, s)'
<1>1. TypeOK /\ ForgottenStaysGone
  BY DEF Inv
<1>2. lastId \in Nat /\ DOMAIN mem \subseteq 1..lastId /\ forgotten \subseteq 1..lastId
  BY <1>1 DEF TypeOK
<1>3. PICK row \in Row : row = [text |-> text, importance |-> importance,
                                scope |-> scope, by |-> by]
  OBVIOUS
<1>4. row.text = text /\ row.scope = scope /\ row.by = by
  BY <1>3
<1>5. lastId' = lastId + 1 /\ mem' = PutRow(lastId + 1, row)
  BY <1>3 DEF InsertMemory
<1>6. /\ lastId + 1 \in 1..lastId' /\ lastId' \in Nat /\ lastId <= lastId'
      /\ lastId' \notin DOMAIN mem /\ lastId' \notin forgotten
  BY <1>2, <1>5
<1>7. /\ DOMAIN mem' = DOMAIN mem \cup {lastId + 1} /\ mem'[lastId + 1] = row
      /\ \A i \in DOMAIN mem \ {lastId + 1} : mem'[i] = mem[i]
  BY <1>1, <1>5, RowPut
<1>8. DOMAIN mem' \subseteq 1..lastId' /\ mem' \in [DOMAIN mem' -> Row]
  BY <1>1, <1>5, <1>6, RowTyped
<1>9. \A i \in DOMAIN mem : mem'[i] = mem[i]
  BY <1>5, <1>6, <1>7
<1>10. ForgottenStaysGone'
  BY <1>1, <1>5, <1>6, <1>7, <1>9 DEF ForgottenStaysGone
<1>11. Intact' => Intact
  BY <1>7, <1>9 DEF Intact
<1>12. \A t, s : Held(t, s) => Held(t, s)'
  BY <1>7, <1>9 DEF Held
<1> QED
  BY <1>4, <1>5, <1>6, <1>7, <1>8, <1>9, <1>10, <1>11, <1>12

\* The insert: the fact is held from now on, once where one namespace is in use.
LEMMA InsertKeeps ==
  ASSUME Inv, NEW w \in Writers, Insert(w)
  PROVE  Inv'
<1>1. /\ TypeOK /\ WriterOk(w) /\ SaidOk(w) /\ RowsOk /\ OnceOk
      /\ writer[w].pc = "insert" /\ writer \in [Writers -> Writer]
  BY DEF Inv, TypeOK, Insert
<1>2. PICK todo \in Seq(Fact), scope \in Scopes :
        todo = writer[w].todo /\ scope = writer[w].scope
  BY <1>1, WriterFields
<1>3. lock = {w} /\ todo # << >> /\ scope \in scoped
  BY <1>1, <1>2 DEF WriterOk
<1>4. /\ Head(todo) \in Fact /\ Head(todo) = todo[1] /\ 1 \in DOMAIN todo
      /\ Tail(todo) \in Seq(Fact)
      /\ \A n \in DOMAIN Tail(todo) : n + 1 \in DOMAIN todo /\ Tail(todo)[n] = todo[n + 1]
      /\ \A m \in DOMAIN todo :
           m = 1 \/ (m - 1 \in DOMAIN Tail(todo) /\ Tail(todo)[m - 1] = todo[m])
  BY <1>3, TailHasTheRest
<1>5. PICK text \in Text, importance \in 1..10 :
        text = Head(todo).text /\ importance = Head(todo).importance
  BY <1>4 DEF Fact
<1>6. text.speaker # "host"
  BY <1>1, <1>2, <1>4, <1>5 DEF WriterOk
<1>7. /\ InsertMemory(text, importance, scope, "ingest")
      /\ UNCHANGED <<host, cache, forgotten, heard, scoped>>
      /\ lock' = {}
  BY <1>2, <1>5 DEF Insert
<1>8. [text |-> text, importance |-> importance, scope |-> scope, by |-> "ingest"] \in Row
  BY <1>2, <1>5 DEF Row
<1>9. PICK id : id = lastId'
  OBVIOUS
<1>10. /\ lastId' = lastId + 1 /\ id \in Nat /\ id \notin DOMAIN mem
       /\ DOMAIN mem' = DOMAIN mem \cup {id}
       /\ DOMAIN mem' \subseteq 1..lastId' /\ mem' \in [DOMAIN mem' -> Row]
       /\ mem'[id].text = text /\ mem'[id].scope = scope
       /\ mem'[id].by = "ingest"
       /\ \A i \in DOMAIN mem : mem'[i] = mem[i]
       /\ ForgottenStaysGone'
       /\ Intact' => Intact
       /\ \A t, s : Held(t, s) => Held(t, s)'
  <2>1. "ingest" # "update" /\ forgotten' = forgotten
    BY <1>7
  <2> QED
    BY <1>7, <1>8, <1>9, <2>1, RowAdded
<1>11. PICK c : c = [writer[w] EXCEPT !.pc = "check", !.todo = Tail(todo)]
  OBVIOUS
<1>12. /\ c \in Writer /\ c.pc = "check" /\ c.todo = Tail(todo)
       /\ c.said = writer[w].said /\ c.scope = scope /\ c.failed = writer[w].failed
  <2>1. writer[w] \in Writer
    BY <1>1
  <2> QED
    BY <1>2, <1>4, <1>11, <2>1 DEF Writer, Fact
<1>13. /\ writer' \in [Writers -> Writer] /\ writer'[w] = c
       /\ \A v \in Writers \ {w} : writer'[v] = writer[v]
  <2>1. writer' = [writer EXCEPT ![w] = c]
    BY <1>1, <1>2, <1>11 DEF Insert
  <2> QED
    BY <1>1, <1>12, <2>1
<1>14. TypeOK'
  <2>1. forgotten' \subseteq 1..lastId'
    BY <1>1, <1>7, <1>10 DEF TypeOK
  <2> QED
    BY <1>1, <1>7, <1>9, <1>10, <1>13, <2>1 DEF TypeOK
<1>15. RowsOk'
  BY <1>1, <1>3, <1>6, <1>7, <1>10 DEF RowsOk
<1>16. ASSUME NEW v \in Writers PROVE WriterOk(v)' /\ writer'[v].pc # "insert"
  <2>1. CASE v = w
    <3>1. writer'[v] = c
      BY <1>13, <2>1
    <3>2. \A n \in DOMAIN c.todo : c.todo[n].text.speaker # "host"
      BY <1>1, <1>2, <1>4, <1>12 DEF WriterOk
    <3> QED
      BY <1>3, <1>7, <1>12, <3>1, <3>2 DEF WriterOk
  <2>2. CASE v # w
    <3>1. WriterOk(v) /\ writer'[v] = writer[v]
      BY <1>13, <2>2 DEF Inv
    <3>2. writer[v].pc # "insert"
      BY <1>3, <2>2, <3>1 DEF WriterOk
    <3> QED
      BY <1>7, <3>1, <3>2 DEF WriterOk
  <2> QED
    BY <2>1, <2>2
<1>17. OnceOk'
  <2>1. OneScope => Missing(text)
    BY <1>1, <1>2, <1>5 DEF OnceOk
  <2>2. ASSUME OneScope, NEW i \in DOMAIN mem', NEW j \in DOMAIN mem',
               mem'[i].by = "ingest", mem'[j].by = "ingest",
               mem'[i].text = mem'[j].text
        PROVE  i = j
    <3>1. CASE i = id /\ j \in DOMAIN mem
      BY <1>10, <2>1, <2>2, <3>1 DEF Missing
    <3>2. CASE j = id /\ i \in DOMAIN mem
      BY <1>10, <2>1, <2>2, <3>2 DEF Missing
    <3>3. CASE i \in DOMAIN mem /\ j \in DOMAIN mem
      BY <1>1, <1>10, <2>2, <3>3 DEF OnceOk
    <3> QED
      BY <1>10, <3>1, <3>2, <3>3
  <2>3. OneScope' <=> OneScope
    BY <1>7 DEF OneScope
  <2> QED
    BY <1>16, <2>2, <2>3 DEF OnceOk
<1>18. Held(text, scope)'
  BY <1>10 DEF Held
<1>19. ASSUME NEW v \in Writers PROVE SaidOk(v)'
  <2>1. CASE v # w
    <3>1. SaidOk(v) /\ writer'[v] = writer[v]
      BY <1>13, <2>1 DEF Inv
    <3> QED
      BY <1>10, <3>1 DEF SaidOk
  <2>2. CASE v = w
    <3>1. ASSUME Intact, ~c.failed, NEW n \in DOMAIN c.said, WorthKeeping(c.said[n])
          PROVE  \/ \E m \in DOMAIN c.todo : c.todo[m].text = ByUser(c.said[n])
                 \/ Held(ByUser(c.said[n]), c.scope)'
      <4>1. \/ \E m \in DOMAIN todo : todo[m].text = ByUser(c.said[n])
            \/ Held(ByUser(c.said[n]), scope)
        BY <1>1, <1>2, <1>12, <3>1 DEF SaidOk
      <4>2. CASE Held(ByUser(c.said[n]), scope)
        BY <1>10, <1>12, <4>2
      <4>3. ASSUME NEW m \in DOMAIN todo, todo[m].text = ByUser(c.said[n])
            PROVE  \/ \E k \in DOMAIN c.todo : c.todo[k].text = ByUser(c.said[n])
                   \/ Held(ByUser(c.said[n]), c.scope)'
        <5>1. CASE m = 1
          BY <1>4, <1>5, <1>12, <1>18, <4>3, <5>1
        <5>2. CASE m # 1
          <6>1. m - 1 \in DOMAIN Tail(todo) /\ Tail(todo)[m - 1] = todo[m]
            BY <1>4, <5>2
          <6> QED
            BY <1>12, <4>3, <6>1
        <5> QED
          BY <5>1, <5>2
      <4> QED
        BY <4>1, <4>2, <4>3
    <3>2. writer'[v] = c
      BY <1>13, <2>2
    <3> QED
      BY <1>10, <3>1, <3>2 DEF SaidOk
  <2> QED
    BY <2>1, <2>2
<1>20. HeldInEveryScope'
  <2>1. ASSUME Intact, NEW t \in heard, WorthKeeping(t[1])
        PROVE  Held(ByUser(t[1]), t[2])'
    <3>1. Held(ByUser(t[1]), t[2])
      BY <2>1 DEF Inv, HeldInEveryScope, Intact, Held, ByUser
    <3> QED
      BY <1>10, <3>1
  <2> QED
    BY <1>7, <1>10, <2>1 DEF HeldInEveryScope, Intact, Held, ByUser
<1>21. \A h \in Hosts : HostOk(h)'
  <2>1. ASSUME NEW h \in Hosts PROVE HostOk(h)'
    <3>1. HostOk(h) /\ host' = host /\ host[h].id \in Nat /\ lastId \in Nat
      BY <1>1, <1>7, HostFields DEF Inv, TypeOK
    <3> QED
      BY <1>10, <3>1 DEF HostOk
  <2> QED
    BY <2>1
<1>22. IsFiniteSet(scoped)'
  BY <1>7 DEF Inv
<1> QED
  BY <1>10, <1>14, <1>15, <1>16, <1>17, <1>19, <1>20, <1>21, <1>22 DEF Inv

\* A host's step leaves the writers alone.
WritersStay == UNCHANGED <<lock, writer, heard, scoped>>

\* What is said stays held, if the rows stay.
LEMMA SaidStays ==
  ASSUME Inv, WritersStay, Intact' => Intact,
         Intact' => \A t, s : Held(t, s) => Held(t, s)'
  PROVE  (\A w \in Writers : SaidOk(w)') /\ HeldInEveryScope'
<1>1. ASSUME NEW w \in Writers PROVE SaidOk(w)'
  <2>1. SaidOk(w) /\ writer' = writer
    BY DEF Inv, WritersStay
  <2> QED
    BY <2>1 DEF SaidOk
<1>2. ASSUME Intact', NEW t \in heard, WorthKeeping(t[1])
      PROVE  Held(ByUser(t[1]), t[2])'
  <2>1. Held(ByUser(t[1]), t[2])
    BY <1>2 DEF Inv, HeldInEveryScope, Intact, Held, ByUser
  <2> QED
    BY <1>2, <2>1
<1>3. HeldInEveryScope'
  BY <1>2 DEF HeldInEveryScope, Intact, Held, ByUser, WritersStay
<1> QED
  BY <1>1, <1>3

\* Nor can a step that writes no row of ingest's undo what a writer decided.
LEMMA OnceStays ==
  ASSUME Inv, WritersStay,
         \A i \in DOMAIN mem' : mem'[i].by = "ingest" =>
           i \in DOMAIN mem /\ mem'[i] = mem[i]
  PROVE  OnceOk' /\ \A w \in Writers : WriterOk(w)'
<1>1. OneScope' <=> OneScope
  BY DEF WritersStay, OneScope
<1>2. \A text : Missing(text) => Missing(text)'
  BY DEF Missing
<1>3. OnceOk
  BY DEF Inv
<1>4. ASSUME OneScope, NEW w \in Writers, writer'[w].pc = "insert"
      PROVE  Missing(Head(writer[w].todo).text)'
  <2>1. PICK text : text = Head(writer[w].todo).text
    OBVIOUS
  <2>2. writer' = writer
    BY DEF WritersStay
  <2>3. Missing(text)
    BY <1>3, <1>4, <2>1, <2>2 DEF OnceOk
  <2>4. \A i \in DOMAIN mem' : mem'[i].by = "ingest" => mem'[i].text # text
    BY <2>3 DEF Missing
  <2> QED
    BY <2>1, <2>2, <2>4 DEF Missing
<1>5. ASSUME OneScope, NEW i \in DOMAIN mem', NEW j \in DOMAIN mem',
             mem'[i].by = "ingest", mem'[j].by = "ingest",
             mem'[i].text = mem'[j].text
      PROVE  i = j
  BY <1>3, <1>5 DEF OnceOk
<1>6. OnceOk'
  BY <1>1, <1>4, <1>5 DEF OnceOk
<1>7. ASSUME NEW w \in Writers PROVE WriterOk(w)'
  <2>1. WriterOk(w)
    BY DEF Inv
  <2> QED
    BY <2>1 DEF WriterOk, WritersStay
<1> QED
  BY <1>6, <1>7

\* What a host writes is not attributed.
LEMMA RawIsText ==
  ASSUME NEW says \in Sentences
  PROVE  Raw(says) \in Text /\ Raw(says).speaker = "host"
  BY DEF Raw, Text, Speakers

\* transparency.py, pin: another row, which is not ingest's.
LEMMA PinKeeps ==
  ASSUME Inv, NEW h \in Hosts, NEW says \in Sentences, Pin(h, says)
  PROVE  Inv'
<1>1. TypeOK /\ RowsOk /\ lastId \in Nat
  BY DEF Inv, TypeOK
<1>2. PICK text \in Text, importance \in 1..10, scope \in Scopes \cup {Unscoped} :
        /\ text = Raw(says) /\ text.speaker = "host"
        /\ importance = 10 /\ scope = Unscoped
  BY RawIsText
<1>3. /\ InsertMemory(text, importance, scope, "pin")
      /\ Begin(h, "clear", lastId + 1, says)
      /\ UNCHANGED <<lock, writer, cache, forgotten, heard, scoped>>
  BY <1>2 DEF Pin
<1>4. [text |-> text, importance |-> importance, scope |-> scope, by |-> "pin"] \in Row
  BY <1>2 DEF Row
<1>5. PICK id : id = lastId'
  OBVIOUS
<1>6. /\ lastId' = lastId + 1 /\ id \in Nat /\ id \notin DOMAIN mem
      /\ DOMAIN mem' = DOMAIN mem \cup {id}
      /\ DOMAIN mem' \subseteq 1..lastId' /\ mem' \in [DOMAIN mem' -> Row]
      /\ mem'[id].text = text /\ mem'[id].by = "pin"
      /\ \A i \in DOMAIN mem : mem'[i] = mem[i]
      /\ ForgottenStaysGone'
      /\ Intact' => Intact
      /\ \A t, s : Held(t, s) => Held(t, s)'
  <2>1. "pin" # "update" /\ forgotten' = forgotten
    BY <1>3
  <2> QED
    BY <1>3, <1>4, <1>5, <2>1, RowAdded
<1>7. /\ host' \in [Hosts -> Host]
      /\ host'[h].pc = "clear" /\ host'[h].id = lastId + 1
      /\ \A k \in Hosts \ {h} : host'[k] = host[k]
  <2>1. lastId + 1 \in Nat
    BY <1>1
  <2> QED
    BY <1>1, <1>3, <2>1, Begins
<1>8. TypeOK'
  <2>1. forgotten' \subseteq 1..lastId'
    BY <1>1, <1>3, <1>6 DEF TypeOK
  <2> QED
    BY <1>1, <1>3, <1>5, <1>6, <1>7, <2>1 DEF TypeOK
<1>9. RowsOk'
  BY <1>1, <1>2, <1>3, <1>6 DEF RowsOk
<1>10. WritersStay
  BY <1>3 DEF WritersStay
<1>11. OnceOk' /\ \A w \in Writers : WriterOk(w)'
  BY <1>6, <1>10, OnceStays
<1>12. (\A w \in Writers : SaidOk(w)') /\ HeldInEveryScope'
  BY <1>6, <1>10, SaidStays
<1>13. ASSUME NEW k \in Hosts PROVE HostOk(k)'
  <2>1. CASE k = h
    BY <1>1, <1>6, <1>7, <2>1 DEF HostOk
  <2>2. CASE k # h
    <3>1. HostOk(k) /\ host'[k] = host[k] /\ host[k].id \in Nat
      BY <1>1, <1>7, <2>2, HostFields DEF Inv
    <3> QED
      BY <1>1, <1>6, <3>1 DEF HostOk
  <2> QED
    BY <2>1, <2>2
<1>14. IsFiniteSet(scoped)'
  BY <1>3 DEF Inv
<1> QED
  BY <1>6, <1>8, <1>9, <1>11, <1>12, <1>13, <1>14 DEF Inv

\* A host ends its work on a row.
LEMMA HostClears ==
  ASSUME Inv, NEW h \in Hosts, host' = [host EXCEPT ![h].pc = "clear"],
         lastId' = lastId
  PROVE  host' \in [Hosts -> Host] /\ \A k \in Hosts : HostOk(k)'
<1>1. host \in [Hosts -> Host] /\ host[h] \in Host
  BY DEF Inv, TypeOK
<1>2. PICK c : c = [host[h] EXCEPT !.pc = "clear"]
  OBVIOUS
<1>3. c \in Host /\ c.id = host[h].id /\ c.pc = "clear"
  BY <1>1, <1>2 DEF Host
<1>4. host' = [host EXCEPT ![h] = c]
  BY <1>1, <1>2
<1>5. HostMove(h, c)
  BY <1>3, <1>4 DEF HostMove
<1> QED
  BY <1>5, HostMoves

\* forget: the row is gone, and its id is not handed out again.
LEMMA DeleteKeeps ==
  ASSUME Inv, NEW h \in Hosts, Delete(h)
  PROVE  Inv'
<1>1. /\ TypeOK /\ RowsOk /\ ForgottenStaysGone /\ lastId \in Nat
      /\ DOMAIN mem \subseteq 1..lastId /\ mem \in [DOMAIN mem -> Row]
      /\ forgotten \subseteq 1..lastId
  BY DEF Inv, TypeOK
<1>2. PICK id : id = host[h].id
  OBVIOUS
<1>3. /\ mem' = Restrict(mem, DOMAIN mem \ {id})
      /\ forgotten' = IF id \in DOMAIN mem THEN forgotten \cup {id} ELSE forgotten
      /\ host' = [host EXCEPT ![h].pc = "clear"]
      /\ UNCHANGED <<lastId, lock, writer, cache, heard, scoped>>
  BY <1>2 DEF Delete, DeleteMemory
<1>4. /\ DOMAIN mem' = DOMAIN mem \ {id}
      /\ \A i \in DOMAIN mem' : mem'[i] = mem[i]
      /\ mem' \in [DOMAIN mem' -> Row]
  BY <1>1, <1>3 DEF Restrict
<1>5. host' \in [Hosts -> Host] /\ \A k \in Hosts : HostOk(k)'
  BY <1>3, HostClears
<1>6. TypeOK'
  <2>1. forgotten' \subseteq 1..lastId' /\ DOMAIN mem' \subseteq 1..lastId'
    BY <1>1, <1>3, <1>4
  <2> QED
    BY <1>1, <1>3, <1>4, <1>5, <2>1 DEF TypeOK
<1>7. RowsOk'
  BY <1>1, <1>3, <1>4 DEF RowsOk
<1>8. ForgottenStaysGone'
  BY <1>1, <1>3, <1>4 DEF ForgottenStaysGone
<1>9. WritersStay
  BY <1>3 DEF WritersStay
<1>10. OnceOk' /\ \A w \in Writers : WriterOk(w)'
  BY <1>4, <1>9, OnceStays
<1>11. Intact' => id \notin DOMAIN mem
  BY <1>3 DEF Intact
<1>12. Intact' => Intact
  BY <1>3, <1>4, <1>11 DEF Intact
<1>13. Intact' => \A t, s : Held(t, s) => Held(t, s)'
  BY <1>4, <1>11 DEF Held
<1>14. (\A w \in Writers : SaidOk(w)') /\ HeldInEveryScope'
  BY <1>9, <1>12, <1>13, SaidStays
<1>15. IsFiniteSet(scoped)'
  BY <1>3 DEF Inv
<1> QED
  BY <1>5, <1>6, <1>7, <1>8, <1>10, <1>14, <1>15 DEF Inv

\* update: whatever row has the id is the host's from now on.
LEMMA WriteKeeps ==
  ASSUME Inv, NEW h \in Hosts, Write(h)
  PROVE  Inv'
<1>1. /\ TypeOK /\ RowsOk /\ ForgottenStaysGone /\ lastId \in Nat
      /\ DOMAIN mem \subseteq 1..lastId /\ forgotten \subseteq 1..lastId
      /\ host[h].pc = "write"
  BY DEF Inv, TypeOK, Write
<1>2. PICK text \in Text : text = Raw(host[h].text) /\ text.speaker = "host"
  BY <1>1, HostFields, RawIsText
<1>3. PICK id \in 1..lastId : id = host[h].id
  BY <1>1, HostFields DEF Inv, HostOk
<1>4. PICK row \in Row :
        /\ row = [text |-> text, importance |-> host[h].importance,
                  scope |-> host[h].scope, by |-> "update"]
        /\ row.text = text /\ row.by = "update"
  <2>1. /\ host[h].importance \in 1..10
        /\ host[h].scope \in Scopes \cup {Unscoped}
    BY <1>1, HostFields
  <2>2. PICK row : row = [text |-> text, importance |-> host[h].importance,
                          scope |-> host[h].scope, by |-> "update"]
    OBVIOUS
  <2>3. row \in Row /\ row.text = text /\ row.by = "update"
    BY <2>1, <2>2 DEF Row
  <2> QED
    BY <2>2, <2>3
<1>5. /\ mem' = PutRow(id, row)
      /\ host' = [host EXCEPT ![h].pc = "clear"]
      /\ UNCHANGED <<lastId, lock, writer, cache, forgotten, heard, scoped>>
  BY <1>2, <1>3, <1>4 DEF Write, UpdateMemory
<1>6. /\ DOMAIN mem' = DOMAIN mem \cup {id} /\ mem'[id] = row
      /\ \A i \in DOMAIN mem \ {id} : mem'[i] = mem[i]
  BY <1>1, <1>5, RowPut
<1>7. host' \in [Hosts -> Host] /\ \A k \in Hosts : HostOk(k)'
  BY <1>5, HostClears
<1>8. DOMAIN mem' \subseteq 1..lastId' /\ mem' \in [DOMAIN mem' -> Row]
  <2>1. id \in 1..lastId' /\ lastId' \in Nat /\ lastId <= lastId'
    BY <1>1, <1>5
  <2> QED
    BY <1>1, <1>5, <2>1, RowTyped
<1>9. TypeOK'
  BY <1>1, <1>5, <1>7, <1>8 DEF TypeOK
<1>10. RowsOk'
  BY <1>1, <1>2, <1>4, <1>5, <1>6 DEF RowsOk
<1>11. ForgottenStaysGone'
  BY <1>1, <1>4, <1>5, <1>6 DEF ForgottenStaysGone
<1>12. WritersStay
  BY <1>5 DEF WritersStay
<1>13. OnceOk' /\ \A w \in Writers : WriterOk(w)'
  <2>1. \A i \in DOMAIN mem' : mem'[i].by = "ingest" =>
          i \in DOMAIN mem /\ mem'[i] = mem[i]
    BY <1>4, <1>6
  <2> QED
    BY <1>12, <2>1, OnceStays
<1>14. ~Intact'
  BY <1>4, <1>6 DEF Intact
<1>15. (\A w \in Writers : SaidOk(w)') /\ HeldInEveryScope'
  BY <1>12, <1>14, SaidStays
<1>16. IsFiniteSet(scoped)'
  BY <1>5 DEF Inv
<1> QED
  BY <1>7, <1>9, <1>10, <1>11, <1>13, <1>15, <1>16 DEF Inv

\* A step in which nothing happens.
LEMMA StutterKeeps == Inv /\ UNCHANGED vars => Inv'
<1> SUFFICES ASSUME Inv, UNCHANGED vars PROVE Inv'
  OBVIOUS
<1>1. /\ UNCHANGED <<mem, lastId, lock, writer, forgotten, heard, scoped>>
      /\ host' = host /\ cache' = cache
  BY DEF vars
<1>2. /\ host' \in [Hosts -> Host] /\ cache' \in Seq(Entry)
      /\ Len(cache') <= CacheSize
  BY <1>1 DEF Inv, TypeOK
<1>3. \A h \in Hosts : HostOk(h)'
  BY <1>1 DEF Inv, HostOk
<1> QED
  BY <1>1, <1>2, <1>3, HostOnly

\* Every step preserves the invariant.
LEMMA InvStep == Inv /\ [Next]_vars => Inv'
<1> SUFFICES ASSUME Inv, [Next]_vars PROVE Inv'
  OBVIOUS
<1>1. CASE Dispatch
  BY <1>1, IngestKeeps
<1>2. ASSUME NEW w \in Writers, WriterStep(w) PROVE Inv'
  <2>1. CASE DropRedundant(w)
    BY <2>1, DropRedundantKeeps
  <2>2. CASE DecideInsert(w)
    BY <2>2, DecideInsertKeeps
  <2>3. CASE Insert(w)
    BY <2>3, InsertKeeps
  <2>4. CASE Fail(w)
    BY <2>4, FailKeeps
  <2>5. CASE Complete(w)
    BY <2>5, CompleteKeeps
  <2> QED
    BY <1>2, <2>1, <2>2, <2>3, <2>4, <2>5 DEF WriterStep
<1>3. ASSUME NEW h \in Hosts, Assemble(h) PROVE Inv'
  BY <1>3, AssembleKeeps
<1>4. ASSUME NEW h \in Hosts, Edit(h) PROVE Inv'
  <2>1. ASSUME NEW text \in Sentences, Pin(h, text) PROVE Inv'
    BY <2>1, PinKeeps
  <2>2. CASE \/ \E text \in Sentences : ForgetByQuery(h, text)
             \/ \E id \in 1..lastId : ForgetById(h, id)
             \/ Optimize(h)
             \/ \E id \in 1..lastId, text \in Sentences : Update(h, id, text)
    BY <2>2, EditKeeps
  <2> QED
    BY <1>4, <2>1, <2>2 DEF Edit
<1>5. ASSUME NEW h \in Hosts, HostStep(h) PROVE Inv'
  <2>1. CASE Search(h)
    BY <2>1, SearchKeeps
  <2>2. CASE Store(h)
    BY <2>2, StoreKeeps
  <2>3. CASE Delete(h)
    BY <2>3, DeleteKeeps
  <2>4. CASE ReadExisting(h)
    BY <2>4, ReadExistingKeeps
  <2>5. CASE Write(h)
    BY <2>5, WriteKeeps
  <2>6. CASE ClearCache(h)
    BY <2>6, ClearCacheKeeps
  <2> QED
    BY <1>5, <2>1, <2>2, <2>3, <2>4, <2>5, <2>6 DEF HostStep
<1>6. CASE UNCHANGED vars
  BY <1>6, StutterKeeps
<1> QED
  BY <1>1, <1>2, <1>3, <1>4, <1>5, <1>6 DEF Next

\* The invariant holds of every behaviour.
THEOREM Invariance == Spec => []Inv
<1>1. Init => Inv
  BY InvInitially
<1>2. Inv /\ [Next]_vars => Inv'
  BY InvStep
<1> QED
  BY <1>1, <1>2, PTL DEF Spec

\* A host that waits before it assembles is a host: what is shown of Spec holds
\* of WaitingSpec.
THEOREM WaitingIsAllowed == WaitingSpec => Spec
<1>1. [WaitingNext]_vars => [Next]_vars
  BY DEF WaitingNext, Next
<1> QED
  BY <1>1, PTL DEF WaitingSpec, Spec

\* The variables keep their types: no row has an id that was not handed out, and
\* the read cache never holds more than cache_size answers.
THEOREM TypeCorrect == Spec => []TypeOK
<1>1. Inv => TypeOK
  BY DEF Inv
<1> QED
  BY <1>1, Invariance, PTL

\* writer.py, the write lock: however many ingests run at once, a fact is held
\* once among the rows they wrote, where one namespace is in use.
THEOREM FactsAreHeldOnce == Spec => []OneRowPerFact
<1>1. Inv => OneRowPerFact
  <2> SUFFICES ASSUME Inv, Cardinality(scoped) = 1 PROVE OneRowPerFact
    BY DEF OneRowPerFact
  <2>1. PICK s : scoped = {s}
    BY FS_Singleton DEF Inv
  <2>2. OneScope
    BY <2>1 DEF OneScope
  <2> QED
    BY <2>2 DEF Inv, OnceOk, OneRowPerFact
<1> QED
  BY <1>1, Invariance, PTL

\* What the user said in an ingest that came to its end is held in its
\* namespace until something is forgotten or edited, whatever the other
\* namespaces, pins and threads hold or do.
THEOREM WhatIsSaidIsHeld == Spec => []HeldInEveryScope
<1>1. Inv => HeldInEveryScope
  BY DEF Inv
<1> QED
  BY <1>1, Invariance, PTL

\* No later fact takes over the id of a deleted one.
THEOREM ForgottenIdsStayGone == Spec => []ForgottenStaysGone
<1>1. Inv => ForgottenStaysGone
  BY DEF Inv
<1> QED
  BY <1>1, Invariance, PTL

(***************************************************************************)
(* One host thread.                                                        *)
(***************************************************************************)

\* A host looks a row up, and the row is about what it was asked for.
LEMMA LookedUpIsRelevant ==
  ASSUME Inv, NEW h \in Hosts, Edit(h), host'[h].pc = "delete",
         host'[h].id \in DOMAIN mem
  PROVE  mem' = mem /\ mem[host'[h].id].text.says = host'[h].text
<1>1. TypeOK /\ AnyText \in Sentences /\ DOMAIN mem \subseteq Nat /\ lastId \in Nat
      /\ mem \in [DOMAIN mem -> Row]
  BY NonEmptyAssumption DEF Inv, TypeOK, AnyText
<1>2. ASSUME NEW pc \in {"clear", "delete", "read"}, NEW id \in Nat,
             NEW text \in Sentences, Begin(h, pc, id, text)
      PROVE  pc = "delete" /\ host'[h].id = id /\ host'[h].text = text
  BY <1>1, <1>2, Begins
<1>3. ASSUME NEW text \in Sentences, Pin(h, text) PROVE FALSE
  <2>1. Begin(h, "clear", lastId + 1, text) /\ lastId + 1 \in Nat
    BY <1>1, <1>3 DEF Pin
  <2> QED
    BY <1>2, <2>1
<1>4. ASSUME NEW text \in Sentences, ForgetByQuery(h, text)
      PROVE  mem' = mem /\ mem[host'[h].id].text.says = host'[h].text
  <2>1. mem' = mem
    BY <1>4 DEF ForgetByQuery
  <2>2. BestMatch(text) # {}
    <3>1. SUFFICES ASSUME BestMatch(text) = {} PROVE FALSE
      OBVIOUS
    <3>2. Begin(h, "clear", 0, text) /\ 0 \in Nat
      BY <1>4, <3>1 DEF ForgetByQuery
    <3> QED
      BY <1>2, <3>2
  <2>3. PICK i \in BestMatch(text) : Begin(h, "delete", i, text)
    BY <1>4, <2>2 DEF ForgetByQuery
  <2>4. i \in DOMAIN mem /\ Distance(Raw(text), i) < 2
    BY DEF BestMatch, Relevant
  <2>5. mem[i].text.says = text
    <3>1. Raw(text).says = text
      BY DEF Raw
    <3>2. mem[i].text = Raw(text) \/ mem[i].text.says = Raw(text).says
      BY <2>4 DEF Distance
    <3> QED
      BY <3>1, <3>2
  <2>6. host'[h].id = i /\ host'[h].text = text
    BY <1>1, <1>2, <2>3, <2>4
  <2> QED
    BY <2>1, <2>5, <2>6
<1>5. ASSUME NEW id \in 1..lastId, ForgetById(h, id)
      PROVE  mem' = mem /\ mem[host'[h].id].text.says = host'[h].text
  <2>1. mem' = mem
    BY <1>5 DEF ForgetById
  <2>2. PICK text : text = IF id \in DOMAIN mem THEN mem[id].text.says ELSE AnyText
    OBVIOUS
  <2>3. text \in Sentences
    BY <1>1, <2>2 DEF Row, Text
  <2>4. Begin(h, "delete", id, text) /\ id \in Nat
    BY <1>1, <1>5, <2>2 DEF ForgetById
  <2>5. host'[h].id = id /\ host'[h].text = text
    BY <1>2, <2>3, <2>4
  <2> QED
    BY <2>1, <2>2, <2>5
<1>6. ASSUME Optimize(h) PROVE FALSE
  <2>1. Begin(h, "clear", 0, AnyText) /\ 0 \in Nat
    BY <1>6 DEF Optimize
  <2> QED
    BY <1>1, <1>2, <2>1
<1>7. ASSUME NEW id \in 1..lastId, NEW text \in Sentences, Update(h, id, text)
      PROVE  FALSE
  <2>1. PICK pc \in {"read", "clear"} : pc = IF id \in DOMAIN mem THEN "read" ELSE "clear"
    OBVIOUS
  <2>2. Begin(h, pc, id, text) /\ id \in Nat
    BY <1>1, <1>7, <2>1 DEF Update
  <2> QED
    BY <1>2, <2>1, <2>2
<1> QED
  BY <1>3, <1>4, <1>5, <1>6, <1>7 DEF Edit

\* Between the look and the delete no other thread changes what the row says:
\* an ingest thread writes only new rows, and there is no other host.
LEMMA LookStaysRelevant ==
  ASSUME SingleHost, Inv, DeletesRelevant, [Next]_vars
  PROVE  DeletesRelevant'
<1>1. TypeOK /\ host \in [Hosts -> Host]
  BY DEF Inv, TypeOK
<1>2. SUFFICES ASSUME NEW h \in Hosts, host'[h].pc = "delete",
                      host'[h].id \in DOMAIN mem'
               PROVE  mem'[host'[h].id].text.says = host'[h].text
  BY DEF DeletesRelevant
<1>3. ASSUME host' = host, \A i \in DOMAIN mem' : mem'[i] = mem[i] \/ i = lastId + 1,
             DOMAIN mem' \subseteq DOMAIN mem \cup {lastId + 1}
      PROVE  mem'[host'[h].id].text.says = host'[h].text
  <2>1. host[h].id <= lastId /\ host[h].id \in Nat /\ lastId \in Nat
    BY <1>1, HostFields DEF Inv, HostOk, TypeOK
  <2>2. host[h].id # lastId + 1
    BY <2>1
  <2> QED
    BY <1>2, <1>3, <2>2 DEF DeletesRelevant, SingleHost
<1>4. CASE Dispatch
  <2>1. host' = host /\ mem' = mem
    BY <1>4 DEF Dispatch, Ingest
  <2> QED
    BY <1>3, <2>1
<1>5. ASSUME NEW w \in Writers, WriterStep(w)
      PROVE  mem'[host'[h].id].text.says = host'[h].text
  <2>1. host' = host
    BY <1>5 DEF WriterStep, DropRedundant, DecideInsert, Insert, Fail, Complete
  <2>2. CASE mem' = mem
    BY <1>3, <2>1, <2>2
  <2>3. CASE Insert(w)
    <3>1. PICK id, row : id = lastId + 1 /\ mem' = PutRow(id, row)
      BY <2>3 DEF Insert, InsertMemory
    <3>2. /\ DOMAIN mem' = DOMAIN mem \cup {id}
          /\ \A i \in DOMAIN mem \ {id} : mem'[i] = mem[i]
      BY <1>1, <3>1, RowPut
    <3> QED
      BY <1>3, <2>1, <3>1, <3>2
  <2> QED
    BY <1>5, <2>2, <2>3 DEF WriterStep, DropRedundant, DecideInsert, Fail, Complete
<1>6. ASSUME NEW k \in Hosts, Assemble(k)
      PROVE  mem'[host'[h].id].text.says = host'[h].text
  <2>1. k = h /\ host[h].pc = "idle" /\ mem' = mem
    BY <1>6 DEF Assemble, AssembleHit, AssembleMiss, Idle, SingleHost
  <2>2. PICK query \in Sentences :
          AssembleHit(h, query) \/ \E n \in 1..MaxTopK : AssembleMiss(h, query, n)
    BY <1>6, <2>1 DEF Assemble
  <2>3. CASE AssembleHit(h, query)
    BY <1>2, <2>1, <2>3 DEF AssembleHit
  <2>4. ASSUME NEW n \in 1..MaxTopK, AssembleMiss(h, query, n) PROVE FALSE
    BY <1>1, <1>2, <2>4 DEF AssembleMiss, Host
  <2> QED
    BY <2>2, <2>3, <2>4
<1>7. ASSUME NEW k \in Hosts, Edit(k)
      PROVE  mem'[host'[h].id].text.says = host'[h].text
  <2>1. k = h
    BY DEF SingleHost
  <2>2. CASE host'[h].id \in DOMAIN mem
    BY <1>2, <1>7, <2>1, <2>2, LookedUpIsRelevant
  <2>3. CASE host'[h].id \notin DOMAIN mem
    <3>1. PICK text \in Sentences : Pin(h, text)
      BY <1>2, <1>7, <2>1, <2>3
         DEF Edit, ForgetByQuery, ForgetById, Optimize, Update
    <3>2. Begin(h, "clear", lastId + 1, text) /\ lastId + 1 \in Nat
      BY <1>1, <3>1 DEF Pin, TypeOK
    <3>3. host'[h].pc = "clear"
      BY <1>1, <3>2, Begins
    <3> QED
      BY <1>2, <3>3
  <2> QED
    BY <2>2, <2>3
<1>8. ASSUME NEW k \in Hosts, HostStep(k) PROVE FALSE
  <2>1. k = h /\ host[h] \in Host
    BY <1>1 DEF SingleHost
  <2>2. CASE Search(h)
    <3>1. PICK best : host' = [host EXCEPT ![h].pc = "store", ![h].rows = best]
      BY <2>2 DEF Search
    <3>2. host'[h].pc = "store"
      BY <1>1, <2>1, <3>1 DEF Host
    <3> QED
      BY <1>2, <3>2
  <2>4. CASE ReadExisting(h)
    <3>1. PICK a, b : host' = [host EXCEPT ![h].pc = "write", ![h].scope = a,
                                           ![h].importance = b]
      BY <2>4 DEF ReadExisting
    <3>2. host'[h].pc = "write"
      BY <1>1, <2>1, <3>1 DEF Host
    <3> QED
      BY <1>2, <3>2
  <2>5. CASE Delete(h) \/ Write(h)
    <3>1. host' = [host EXCEPT ![h].pc = "clear"]
      BY <2>5 DEF Delete, Write
    <3>2. host'[h].pc = "clear"
      BY <1>1, <2>1, <3>1 DEF Host
    <3> QED
      BY <1>2, <3>2
  <2>3. CASE Store(h) \/ ClearCache(h)
    <3>1. Begin(h, "idle", 0, AnyText) /\ 0 \in Nat /\ AnyText \in Sentences
      BY <2>3, NonEmptyAssumption DEF Store, ClearCache, AnyText
    <3>2. host'[h].pc = "idle"
      BY <1>1, <3>1, Begins
    <3> QED
      BY <1>2, <3>2
  <2> QED
    BY <1>8, <2>1, <2>2, <2>3, <2>4, <2>5 DEF HostStep
<1>9. CASE UNCHANGED vars
  <2>1. host' = host /\ mem' = mem
    BY <1>9 DEF vars
  <2> QED
    BY <1>3, <2>1
<1> QED
  BY <1>4, <1>5, <1>6, <1>7, <1>8, <1>9 DEF Next

\* A step that ends a delete removes that row only.
LEMMA DeleteIsRelevant ==
  ASSUME SingleHost, Inv, DeletesRelevant, [Next]_vars,
         NEW h \in Hosts, host[h].pc = "delete", host'[h].pc = "clear",
         NEW i \in DOMAIN mem \ DOMAIN mem'
  PROVE  mem[i].text.says = host[h].text
<1>1. \A k \in Hosts : k = h
  BY DEF SingleHost
<1>2. ~Dispatch
  <2>1. Dispatch => host' = host
    BY DEF Dispatch, Ingest
  <2> QED
    BY <2>1
<1>3. \A w \in Writers : ~WriterStep(w)
  <2>1. \A w \in Writers : WriterStep(w) => host' = host
    BY DEF WriterStep, DropRedundant, DecideInsert, Insert, Fail, Complete
  <2> QED
    BY <2>1
<1>4. ~Assemble(h) /\ ~Edit(h)
  BY DEF Assemble, AssembleHit, AssembleMiss, Edit, Pin, ForgetByQuery, ForgetById,
         Optimize, Update, Idle
<1>5. ~UNCHANGED vars
  <2>1. UNCHANGED vars => host' = host
    BY DEF vars
  <2> QED
    BY <2>1
<1>6. HostStep(h)
  BY <1>1, <1>2, <1>3, <1>4, <1>5 DEF Next
<1>7. Delete(h)
  BY <1>6 DEF HostStep, Search, Store, ReadExisting, Write, ClearCache
<1>8. mem' = Restrict(mem, DOMAIN mem \ {host[h].id})
  BY <1>7 DEF Delete, DeleteMemory
<1>9. DOMAIN mem' = DOMAIN mem \ {host[h].id}
  BY <1>8 DEF Restrict
<1> QED
  BY <1>9 DEF DeletesRelevant

\* transparency.py, forget: with one host thread a deletion by query removes only
\* a row that is about the query, although the row is looked up and deleted in
\* two steps and ingest threads run between them.
THEOREM DeletionsAreRelevant ==
  ASSUME SingleHost
  PROVE  Spec => ForgetIsRelevant
<1> DEFINE P == \A h \in Hosts : host[h].pc = "delete" /\ host'[h].pc = "clear" =>
                  \A i \in DOMAIN mem \ DOMAIN mem' : mem[i].text.says = host[h].text
<1>1. Init => DeletesRelevant
  BY DEF Init, DeletesRelevant
<1>2. Inv /\ DeletesRelevant /\ [Next]_vars => DeletesRelevant'
  BY LookStaysRelevant
<1>3. Inv /\ DeletesRelevant /\ [Next]_vars => P
  BY DeleteIsRelevant
<1>4. Inv /\ DeletesRelevant /\ [Next]_vars => [P]_vars
  BY <1>3
<1>5. ForgetIsRelevant <=> [][P]_vars
  BY PTL DEF ForgetIsRelevant
<1> HIDE DEF P
<1> QED
  BY <1>1, <1>2, <1>4, <1>5, Invariance, PTL DEF Spec

(***************************************************************************)
(* The read cache, with one host thread that waits before it assembles.    *)
(***************************************************************************)

\* An answer is what the store would give: as many relevant rows as there are,
\* up to the number asked for, and the best where not too many are relevant.
Fresh(entry) ==
  LET query == Raw(entry.query)
      relevant == Relevant(query)
  IN /\ entry.rows \subseteq relevant
     /\ Cardinality(entry.rows) = AtMost(Cardinality(relevant), entry.k)
     /\ Cardinality(relevant) <= 2 * entry.k =>
          \A in \in entry.rows, out \in relevant \ entry.rows :
            ~Outranks(query, out, in)

\* The host is between two calls, or assembles.
Reading(h) == host[h].pc \in {"idle", "search", "store"}

Found(h) == [query |-> host[h].text, k |-> host[h].k, rows |-> host[h].rows]

\* While the host assembles no ingest is under way, so what it found stays
\* true; and a stale cache lasts as long as the ingest or the edit that will
\* clear it.
CacheInv ==
  /\ \A h \in Hosts : host[h].pc \in {"search", "store"} => Waited
  /\ \A h \in Hosts : host[h].pc = "store" => Fresh(Found(h))
  /\ Waited /\ (\A h \in Hosts : Reading(h)) => \A i \in DOMAIN cache : Fresh(cache[i])

\* Twice as many candidates as are asked for: either they contain every relevant
\* row, or they are relevant all of them, and more than enough.
LEMMA SearchFindsFresh ==
  ASSUME TypeOK, NEW says, NEW k \in Nat \ {0},
         NEW pool \in Candidates(Raw(says), k),
         NEW best \in BestOf(k, pool \cap Relevant(Raw(says)), Raw(says)),
         NEW entry, entry.query = says, entry.k = k, entry.rows = best
  PROVE  Fresh(entry)
<1>1. PICK query, R : query = Raw(says) /\ R = Relevant(query)
  OBVIOUS
<1>2. /\ R = {i \in DOMAIN mem : Distance(query, i) < 2} /\ R \subseteq DOMAIN mem
      /\ \A i \in DOMAIN mem : Distance(query, i) \in 0..2
  BY <1>1 DEF Relevant, Distance
<1>3. IsFiniteSet(DOMAIN mem)
  <2>1. lastId \in Nat /\ DOMAIN mem \subseteq 1..lastId
    BY DEF TypeOK
  <2>2. IsFiniteSet(1..lastId)
    BY <2>1, FS_Interval
  <2> QED
    BY <2>1, <2>2, FS_Subset
<1>4. /\ pool \in SUBSET DOMAIN mem
      /\ Cardinality(pool) = AtMost(Cardinality(DOMAIN mem), 2 * k)
      /\ \A i \in pool, j \in DOMAIN mem \ pool : Distance(query, i) <= Distance(query, j)
  BY <1>1 DEF Candidates, NearestRows
<1>5. /\ best \in SUBSET (pool \cap R)
      /\ Cardinality(best) = AtMost(Cardinality(pool \cap R), k)
      /\ \A i \in best, j \in (pool \cap R) \ best : ~Outranks(query, j, i)
  BY <1>1 DEF BestOf
<1>6. /\ IsFiniteSet(R) /\ IsFiniteSet(pool)
      /\ Cardinality(R) \in Nat /\ Cardinality(pool) \in Nat
      /\ Cardinality(DOMAIN mem) \in Nat
  BY <1>2, <1>3, <1>4, FS_Subset, FS_CardinalityType
<1>7. CASE R \subseteq pool
  <2>1. pool \cap R = R
    BY <1>7
  <2> QED
    BY <1>1, <1>5, <2>1 DEF Fresh
<1>8. CASE ~(R \subseteq pool)
  <2>1. PICK r \in R : r \notin pool
    BY <1>8
  <2>2. \A i \in pool : Distance(query, i) <= Distance(query, r)
    BY <1>2, <1>4, <2>1
  <2>3. pool \subseteq R
    BY <1>2, <1>4, <2>1, <2>2
  <2>4. Cardinality(pool) <= Cardinality(R) /\ Cardinality(pool) # Cardinality(R)
    BY <1>6, <2>1, <2>3, FS_Subset
  <2>5. Cardinality(pool) # Cardinality(DOMAIN mem)
    BY <1>2, <1>3, <1>4, <2>1, FS_Subset
  <2>6. Cardinality(pool) = 2 * k
    BY <1>4, <1>6, <2>5 DEF AtMost
  <2>7. pool \cap R = pool
    BY <2>3
  <2>8. Cardinality(best) = k
    BY <1>5, <2>6, <2>7 DEF AtMost
  <2>9. Cardinality(R) > 2 * k /\ AtMost(Cardinality(R), k) = k
    BY <1>6, <2>4, <2>6 DEF AtMost
  <2>10. best \subseteq R /\ ~(Cardinality(R) <= 2 * k)
    BY <1>5, <1>6, <2>9
  <2> QED
    BY <1>1, <2>8, <2>9, <2>10 DEF Fresh
<1> QED
  BY <1>7, <1>8

\* An answer stays fresh as long as the rows do.
LEMMA FreshStays ==
  ASSUME mem' = mem, NEW entry, Fresh(entry)
  PROVE  Fresh(entry)'
BY DEF Fresh, Relevant, Distance, Outranks

\* What is left of the cache is of the cache.
LEMMA WithoutIsOfCache ==
  ASSUME TypeOK, NEW query, NEW j \in DOMAIN Without(query)
  PROVE  \E i \in DOMAIN cache : Without(query)[j] = cache[i]
<1>1. cache \in Seq(Entry) /\ Len(cache) \in Nat /\ DOMAIN cache = 1..Len(cache)
  BY DEF TypeOK
<1>2. CASE CachedFor(query) = {}
  BY <1>2 DEF Without
<1>3. CASE CachedFor(query) # {}
  <2>1. PICK n \in DOMAIN cache : n = CHOOSE i \in CachedFor(query) : TRUE
    BY <1>3 DEF CachedFor
  <2>2. n \in 1..Len(cache) /\ n - 1 \in Nat /\ Len(cache) - n \in Nat
    BY <1>1, <2>1
  <2>3. /\ SubSeq(cache, 1, n - 1) \in Seq(Entry)
        /\ Len(SubSeq(cache, 1, n - 1)) = n - 1
        /\ \A i \in 1..(n - 1) : SubSeq(cache, 1, n - 1)[i] = cache[i]
    BY <1>1, <2>2
  <2>4. /\ SubSeq(cache, n + 1, Len(cache)) \in Seq(Entry)
        /\ Len(SubSeq(cache, n + 1, Len(cache))) = Len(cache) - n
        /\ \A i \in 1..(Len(cache) - n) :
             SubSeq(cache, n + 1, Len(cache))[i] = cache[n + i]
    BY <1>1, <2>2, SMTT(30)
  <2>5. PICK a \in Seq(Entry) : a = SubSeq(cache, 1, n - 1)
    BY <2>3
  <2>6. PICK b \in Seq(Entry) : b = SubSeq(cache, n + 1, Len(cache))
    BY <2>4
  <2>7. /\ Len(a) = n - 1 /\ \A i \in 1..(n - 1) : a[i] = cache[i]
        /\ Len(b) = Len(cache) - n /\ \A i \in 1..(Len(cache) - n) : b[i] = cache[n + i]
    BY <2>5, <2>3, <2>4, <2>6
  <2>8. a \o b \in Seq(Entry)
    OBVIOUS
  <2>9. PICK c \in Seq(Entry) : c = a \o b
    BY <2>8
  <2>10. Without(query) = c
    BY <1>3, <2>1, <2>5, <2>9, <2>6 DEF Without, RemoveAt
  <2>11. /\ j \in 1..(Len(a) + Len(b)) /\ Len(a) \in Nat /\ Len(b) \in Nat
         /\ c[j] = IF j <= Len(a) THEN a[j] ELSE b[j - Len(a)]
    BY <2>9, <2>10
  <2>12. CASE j <= Len(a)
    <3>1. c[j] = cache[j] /\ j \in DOMAIN cache
      BY <1>1, <2>1, <2>7, <2>11, <2>12
    <3> QED
      BY <2>10, <3>1
  <2>13. CASE ~(j <= Len(a))
    <3>1. j - Len(a) \in 1..(Len(cache) - n) /\ n + (j - Len(a)) \in DOMAIN cache
      BY <1>1, <2>1, <2>7, <2>11, <2>13, SMTT(30)
    <3>2. c[j] = cache[n + (j - Len(a))]
      BY <2>7, <2>11, <2>13, <3>1
    <3> QED
      BY <2>10, <3>1, <3>2
  <2> QED
    BY <2>12, <2>13
<1> QED
  BY <1>2, <1>3

\* A hit or a put leaves entries of the cache, and the one it is about.
LEMMA CacheOf ==
  ASSUME TypeOK, NEW entry \in Entry, CachePut(entry) \/ CacheTouch(entry),
         NEW j \in DOMAIN cache'
  PROVE  cache'[j] = entry \/ \E i \in DOMAIN cache : cache'[j] = cache[i]
<1>1. PICK rest \in Seq(Entry) : rest = Without(entry.query)
  BY WithoutShrinks
<1>2. Append(rest, entry) \in Seq(Entry) /\ Len(Append(rest, entry)) = Len(rest) + 1
  OBVIOUS
<1>3. PICK grown \in Seq(Entry) : grown = Append(rest, entry)
  BY <1>2
<1>4. /\ Len(grown) = Len(rest) + 1 /\ Len(rest) \in Nat
      /\ DOMAIN grown = 1..(Len(rest) + 1) /\ DOMAIN rest = 1..Len(rest)
      /\ grown[Len(rest) + 1] = entry
      /\ \A n \in DOMAIN rest : grown[n] = rest[n]
  BY <1>3
<1>5. ASSUME NEW n \in DOMAIN grown
      PROVE  grown[n] = entry \/ \E i \in DOMAIN cache : grown[n] = cache[i]
  <2>1. CASE n = Len(rest) + 1
    BY <1>4, <2>1
  <2>2. CASE n # Len(rest) + 1
    <3>1. n \in DOMAIN rest /\ grown[n] = rest[n]
      BY <1>4, <2>2
    <3> QED
      BY <1>1, <3>1, WithoutIsOfCache
  <2> QED
    BY <2>1, <2>2
<1>6. cache' = grown \/ cache' = Tail(grown)
  BY <1>1, <1>3 DEF CachePut, CacheTouch
<1>7. CASE cache' = grown
  BY <1>5, <1>7
<1>8. CASE cache' = Tail(grown)
  <2>1. j + 1 \in DOMAIN grown /\ Tail(grown)[j] = grown[j + 1]
    BY <1>4, <1>8
  <2> QED
    BY <1>5, <1>8, <2>1
<1> QED
  BY <1>6, <1>7, <1>8


\* A host at work on an edit will clear the cache.
LEMMA EditingCacheOk ==
  ASSUME SingleHost, NEW h \in Hosts,
         host'[h].pc \in {"delete", "read", "write", "clear"}
  PROVE  CacheInv'
<1>1. \A k \in Hosts : k = h
  BY DEF SingleHost
<1>2. \A k \in Hosts : host'[k].pc \notin {"search", "store"}
  BY <1>1
<1>3. ~Reading(h)'
  BY DEF Reading
<1> QED
  BY <1>2, <1>3 DEF CacheInv

\* Nothing is stale while nobody has read it, or when the cache is empty.
LEMMA IdleCacheOk ==
  ASSUME \A h \in Hosts : host'[h].pc \notin {"search", "store"},
         ~Waited' \/ cache' = << >>
  PROVE  CacheInv'
<1>1. CASE ~Waited'
  BY <1>1 DEF CacheInv
<1>2. CASE cache' = << >>
  <2>1. DOMAIN cache' = {}
    BY <1>2
  <2> QED
    BY <2>1 DEF CacheInv
<1> QED
  BY <1>1, <1>2

\* The host's steps leave the writers and the rows alone while it assembles.
LEMMA ReadingCacheOk ==
  ASSUME SingleHost, Inv, CacheInv, NEW h \in Hosts,
         UNCHANGED <<mem, writer>>, Waited, Reading(h),
         host'[h].pc = "store" => Fresh(Found(h))',
         NEW entry, host[h].pc = "store" => Fresh(entry),
         \A j \in DOMAIN cache' :
           \/ host[h].pc = "store" /\ cache'[j] = entry
           \/ \E i \in DOMAIN cache : cache'[j] = cache[i]
  PROVE  CacheInv'
<1>1. \A k \in Hosts : k = h
  BY DEF SingleHost
<1>2. Waited'
  BY DEF Waited
<1>3. \A i \in DOMAIN cache : Fresh(cache[i])
  BY <1>1 DEF CacheInv
<1>4. ASSUME NEW j \in DOMAIN cache' PROVE Fresh(cache[j])'
  <2>1. PICK e : e = cache'[j]
    OBVIOUS
  <2>2. Fresh(e)
    BY <1>3, <2>1
  <2>3. Fresh(e)'
    BY <2>2, FreshStays
  <2> QED
    BY <2>1, <2>3 DEF Fresh, Relevant, Distance, Outranks
<1>5. \A k \in Hosts : host'[k].pc = "store" => Fresh(Found(k))'
  BY <1>1
<1> QED
  BY <1>2, <1>4, <1>5 DEF CacheInv


\* Every edit begins with a step of its own, after which the cache is cleared.
LEMMA EditBegins ==
  ASSUME TypeOK, NEW h \in Hosts, Edit(h)
  PROVE  \E pc \in {"clear", "delete", "read"}, id \in Nat, text \in Sentences :
           Begin(h, pc, id, text)
<1>1. /\ AnyText \in Sentences /\ DOMAIN mem \subseteq Nat /\ lastId \in Nat
      /\ mem \in [DOMAIN mem -> Row] /\ 0 \in Nat /\ lastId + 1 \in Nat
      /\ 1..lastId \subseteq Nat
  BY NonEmptyAssumption DEF TypeOK, AnyText
<1>2. ASSUME NEW text \in Sentences, ForgetByQuery(h, text), BestMatch(text) # {}
      PROVE  \E i \in Nat : Begin(h, "delete", i, text)
  <2>1. PICK i \in BestMatch(text) : Begin(h, "delete", i, text)
    BY <1>2 DEF ForgetByQuery
  <2>2. i \in Nat
    BY <1>1 DEF BestMatch, Relevant
  <2> QED
    BY <2>1, <2>2
<1>3. ASSUME NEW text \in Sentences, ForgetByQuery(h, text), BestMatch(text) = {}
      PROVE  Begin(h, "clear", 0, text)
  BY <1>3 DEF ForgetByQuery
<1>4. ASSUME NEW id \in 1..lastId, ForgetById(h, id)
      PROVE  \E text \in Sentences : Begin(h, "delete", id, text)
  <2>1. PICK text : text = IF id \in DOMAIN mem THEN mem[id].text.says ELSE AnyText
    OBVIOUS
  <2>2. text \in Sentences
    BY <1>1, <2>1 DEF Row, Text
  <2>3. Begin(h, "delete", id, text)
    BY <1>4, <2>1 DEF ForgetById
  <2> QED
    BY <2>2, <2>3
<1>5. ASSUME NEW id \in 1..lastId, NEW text \in Sentences, Update(h, id, text)
      PROVE  \E pc \in {"clear", "read"} : Begin(h, pc, id, text)
  <2>1. PICK pc \in {"read", "clear"} : pc = IF id \in DOMAIN mem THEN "read" ELSE "clear"
    OBVIOUS
  <2>2. Begin(h, pc, id, text)
    BY <1>5, <2>1 DEF Update
  <2> QED
    BY <2>2
<1>6. ASSUME NEW text \in Sentences, Pin(h, text)
      PROVE  Begin(h, "clear", lastId + 1, text)
  BY <1>6 DEF Pin
<1>7. Optimize(h) => Begin(h, "clear", 0, AnyText)
  BY DEF Optimize
<1> QED
  BY <1>1, <1>2, <1>3, <1>4, <1>5, <1>6, <1>7 DEF Edit


\* Every step of a system whose one host waits before it assembles.
LEMMA CacheInvStep ==
  ASSUME SingleHost, Inv, CacheInv, [WaitingNext]_vars
  PROVE  CacheInv'
<1>1. /\ TypeOK /\ host \in [Hosts -> Host] /\ writer \in [Writers -> Writer]
      /\ cache \in Seq(Entry)
  BY DEF Inv, TypeOK
<1>2. CASE Dispatch
  <2>1. PICK h \in Hosts, w \in Writers, interaction \in Interactions,
             priority \in Priorities, scope \in Scopes :
          Ingest(h, w, interaction, priority, scope)
    BY <1>2 DEF Dispatch
  <2>2. \A k \in Hosts : host'[k].pc \notin {"search", "store"}
    BY <2>1 DEF Ingest, SingleHost
  <2>3. writer'[w].pc = "check"
    BY <1>1, <2>1 DEF Ingest
  <2>4. ~Waited'
    BY <2>3 DEF Waited
  <2> QED
    BY <2>2, <2>4, IdleCacheOk
<1>3. ASSUME NEW w \in Writers, WriterStep(w) PROVE CacheInv'
  <2>1. writer[w].pc \in {"check", "insert"} /\ host' = host
    BY <1>3 DEF WriterStep, DropRedundant, DecideInsert, Insert, Fail, Complete
  <2>2. ~Waited
    BY <2>1 DEF Waited
  <2>3. \A k \in Hosts : host'[k].pc \notin {"search", "store"}
    BY <2>1, <2>2 DEF CacheInv
  <2>4. CASE Complete(w)
    <3>1. cache' = << >>
      BY <2>4 DEF Complete, ClearsAfter
    <3> QED
      BY <2>3, <3>1, IdleCacheOk
  <2>5. CASE DropRedundant(w) \/ DecideInsert(w) \/ Insert(w) \/ Fail(w)
    <3>1. writer[w] \in Writer
      BY <1>1
    <3>2. DropRedundant(w) => writer'[w].pc # "idle"
      <4>1. DropRedundant(w) => \E c : writer' = [writer EXCEPT ![w].todo = c]
        BY DEF DropRedundant
      <4> QED
        BY <1>1, <2>1, <3>1, <4>1 DEF Writer
    <3>3. DecideInsert(w) => writer'[w].pc # "idle"
      BY <1>1, <3>1 DEF DecideInsert, Writer
    <3>4. Insert(w) => writer'[w].pc # "idle"
      <4>1. Insert(w) =>
              \E c : writer' = [writer EXCEPT ![w].pc = "check", ![w].todo = c]
        BY DEF Insert
      <4> QED
        BY <1>1, <3>1, <4>1 DEF Writer
    <3>5. Fail(w) => writer'[w].pc # "idle"
      <4>1. Fail(w) => \E c : writer' = [writer EXCEPT ![w].todo = c, ![w].failed = TRUE]
        BY DEF Fail
      <4> QED
        BY <1>1, <2>1, <3>1, <4>1 DEF Writer
    <3>6. ~Waited'
      BY <2>5, <3>2, <3>3, <3>4, <3>5 DEF Waited
    <3> QED
      BY <2>3, <3>6, IdleCacheOk
  <2> QED
    BY <1>3, <2>4, <2>5 DEF WriterStep
<1>4. ASSUME NEW h \in Hosts, Waited, Assemble(h) PROVE CacheInv'
  <2>1. PICK query \in Sentences :
          AssembleHit(h, query) \/ \E k \in 1..MaxTopK : AssembleMiss(h, query, k)
    BY <1>4 DEF Assemble
  <2>2. host[h].pc = "idle" /\ UNCHANGED <<mem, writer>> /\ Reading(h)
    BY <2>1 DEF AssembleHit, AssembleMiss, Idle, Reading
  <2>3. CASE AssembleHit(h, query)
    <3>1. PICK n \in CachedFor(query) : CacheTouch(cache[n])
      BY <2>3 DEF AssembleHit
    <3>2. PICK entry \in Entry, n2 \in DOMAIN cache : entry = cache[n2] /\ CacheTouch(entry)
      BY <1>1, <3>1 DEF CachedFor
    <3>3. \A j \in DOMAIN cache' : \E i \in DOMAIN cache : cache'[j] = cache[i]
      BY <1>1, <3>2, CacheOf
    <3>4. host'[h].pc # "store" /\ host[h].pc # "store"
      BY <2>2, <2>3 DEF AssembleHit
    <3> QED
      BY <1>4, <2>2, <3>3, <3>4, ReadingCacheOk
  <2>4. ASSUME NEW k \in 1..MaxTopK, AssembleMiss(h, query, k) PROVE CacheInv'
    <3>1. cache' = cache
      BY <2>4 DEF AssembleMiss
    <3>2. host[h] \in Host
      BY <1>1
    <3>3. host'[h].pc = "search"
      BY <1>1, <2>4, <3>2 DEF AssembleMiss, Host
    <3>4. host'[h].pc # "store" /\ host[h].pc # "store"
      BY <2>2, <3>3
    <3>5. \A j \in DOMAIN cache' : \E i \in DOMAIN cache : cache'[j] = cache[i]
      BY <3>1
    <3> QED
      BY <1>4, <2>2, <3>4, <3>5, ReadingCacheOk
  <2> QED
    BY <2>1, <2>3, <2>4
<1>5. ASSUME NEW h \in Hosts, Edit(h) PROVE CacheInv'
  <2>1. PICK pc \in {"clear", "delete", "read"}, id \in Nat, text \in Sentences :
          Begin(h, pc, id, text)
    BY <1>1, <1>5, EditBegins
  <2>2. host'[h].pc = pc
    BY <1>1, <2>1, Begins
  <2> QED
    BY <2>2, EditingCacheOk
<1>6. ASSUME NEW h \in Hosts, Search(h) PROVE CacheInv'
  <2>1. Waited /\ UNCHANGED <<mem, writer, cache>> /\ Reading(h)
        /\ host[h].pc # "store"
    BY <1>6 DEF Search, CacheInv, Reading
  <2>2. host[h].k \in Nat \ {0}
    BY <1>1, HostFields, SemanticBoundsAssumption
  <2>3. PICK k \in Nat \ {0} : k = host[h].k
    BY <2>2
  <2>4. PICK says : says = host[h].text
    OBVIOUS
  <2>5. says = host[h].text /\ k = host[h].k
    BY <2>3, <2>4
  <2>6. PICK pool \in Candidates(Raw(says), k) :
          \E best \in BestOf(k, pool \cap Relevant(Raw(says)), Raw(says)) :
            host' = [host EXCEPT ![h].pc = "store", ![h].rows = best]
    BY <1>6, <2>5 DEF Search
  <2>7. PICK best \in BestOf(k, pool \cap Relevant(Raw(says)), Raw(says)) :
            host' = [host EXCEPT ![h].pc = "store", ![h].rows = best]
    BY <2>6
  <2>8. PICK entry : entry = [query |-> says, k |-> k, rows |-> best]
    OBVIOUS
  <2>9. entry.query = says /\ entry.k = k /\ entry.rows = best
    BY <2>8
  <2>10. Fresh(entry)
    BY <1>1, <2>9, SearchFindsFresh
  <2>11. host'[h].text = says /\ host'[h].k = k /\ host'[h].rows = best
    <3>1. host[h] \in Host
      BY <1>1
    <3> QED
      BY <1>1, <2>5, <2>7, <3>1 DEF Host
  <2>12. Fresh(entry)'
    BY <2>1, <2>10, FreshStays
  <2>13. Fresh(Found(h))'
    <3>1. Found(h)' = entry
      BY <2>8, <2>11 DEF Found
    <3> QED
      BY <2>12, <3>1 DEF Fresh, Relevant, Distance, Outranks
  <2>14. \A j \in DOMAIN cache' : \E i \in DOMAIN cache : cache'[j] = cache[i]
    BY <2>1
  <2> QED
    BY <2>1, <2>13, <2>14, ReadingCacheOk
<1>7. ASSUME NEW h \in Hosts, Store(h) PROVE CacheInv'
  <2>1. Waited /\ UNCHANGED <<mem, writer>> /\ Reading(h) /\ host[h].pc = "store"
    BY <1>7 DEF Store, CacheInv, Reading
  <2>2. PICK entry : entry = Found(h)
    OBVIOUS
  <2>3. entry \in Entry /\ CachePut(entry) /\ Fresh(entry)
    <3>1. Found(h) \in Entry
      BY <1>1, HostFields DEF Found, Entry
    <3>2. CachePut(Found(h))
      BY <1>7 DEF Store, Found
    <3>3. Fresh(Found(h))
      BY <2>1 DEF CacheInv
    <3> QED
      BY <2>2, <3>1, <3>2, <3>3
  <2>4. \A j \in DOMAIN cache' :
          cache'[j] = entry \/ \E i \in DOMAIN cache : cache'[j] = cache[i]
    BY <1>1, <2>3, CacheOf
  <2>5. host'[h].pc # "store"
    <3>1. Begin(h, "idle", 0, AnyText) /\ 0 \in Nat /\ AnyText \in Sentences
      BY <1>7, NonEmptyAssumption DEF Store, AnyText
    <3>2. host'[h].pc = "idle"
      BY <1>1, <3>1, Begins
    <3> QED
      BY <3>2
  <2> QED
    BY <2>1, <2>3, <2>4, <2>5, ReadingCacheOk
<1>8. ASSUME NEW h \in Hosts, Delete(h) \/ Write(h) \/ ReadExisting(h) PROVE CacheInv'
  <2>1. host[h] \in Host
    BY <1>1
  <2>2. CASE Delete(h) \/ Write(h)
    <3>1. host' = [host EXCEPT ![h].pc = "clear"]
      BY <2>2 DEF Delete, Write
    <3>2. host'[h].pc = "clear"
      BY <1>1, <2>1, <3>1 DEF Host
    <3> QED
      BY <3>2, EditingCacheOk
  <2>3. CASE ReadExisting(h)
    <3>1. PICK a, b : host' = [host EXCEPT ![h].pc = "write", ![h].scope = a,
                                           ![h].importance = b]
      BY <2>3 DEF ReadExisting
    <3>2. host'[h].pc = "write"
      BY <1>1, <2>1, <3>1 DEF Host
    <3> QED
      BY <3>2, EditingCacheOk
  <2> QED
    BY <1>8, <2>2, <2>3
<1>9. ASSUME NEW h \in Hosts, ClearCache(h) PROVE CacheInv'
  <2>1. cache' = << >>
    BY <1>9 DEF ClearCache
  <2>2. host'[h].pc = "idle"
    <3>1. Begin(h, "idle", 0, AnyText) /\ 0 \in Nat /\ AnyText \in Sentences
      BY <1>9, NonEmptyAssumption DEF ClearCache, AnyText
    <3> QED
      BY <1>1, <3>1, Begins
  <2>3. \A k \in Hosts : host'[k].pc \notin {"search", "store"}
    BY <2>2 DEF SingleHost
  <2> QED
    BY <2>1, <2>3, IdleCacheOk
<1>10. CASE UNCHANGED vars
  <2>1. mem' = mem /\ writer' = writer /\ host' = host /\ cache' = cache
    BY <1>10 DEF vars
  <2>2. (Waited' <=> Waited) /\ \A h \in Hosts : Reading(h)' <=> Reading(h)
    BY <2>1 DEF Waited, Reading
  <2>3. \A h \in Hosts : Fresh(Found(h)) => Fresh(Found(h))'
    BY <2>1 DEF Found, Fresh, Relevant, Distance, Outranks
  <2>4. \A i \in DOMAIN cache : Fresh(cache[i]) => Fresh(cache[i])'
    BY <2>1 DEF Fresh, Relevant, Distance, Outranks
  <2> QED
    BY <2>1, <2>2, <2>3, <2>4 DEF CacheInv
<1> QED
  BY <1>2, <1>3, <1>4, <1>5, <1>6, <1>7, <1>8, <1>9, <1>10 DEF WaitingNext, HostStep

\* What holds of the cache in every state of a host that waits.
LEMMA CacheInvAlways == ASSUME SingleHost PROVE WaitingSpec => []CacheInv
<1>1. Init => CacheInv
  <2> SUFFICES ASSUME Init PROVE CacheInv
    OBVIOUS
  <2>1. DOMAIN cache = {} /\ \A h \in Hosts : host[h].pc = "idle"
    BY DEF Init
  <2> QED
    BY <2>1 DEF CacheInv
<1>2. Inv /\ CacheInv /\ [WaitingNext]_vars => CacheInv'
  BY CacheInvStep
<1> QED
  BY <1>1, <1>2, Invariance, WaitingIsAllowed, PTL DEF WaitingSpec

\* In a quiet store every entry of the cache is fresh.
LEMMA QuietCacheIsFresh ==
  ASSUME CacheInv, Quiet
  PROVE  \A i \in DOMAIN cache : Fresh(cache[i])
BY DEF CacheInv, Quiet, Idle, Reading

\* cache.py, reader.py: with no call and no ingest under way, the cache answers as
\* the store would, whatever ingests, failures and edits came before; for one
\* host thread that waits for its ingests before it assembles.
THEOREM WaitingCacheIsFresh ==
  ASSUME SingleHost PROVE WaitingSpec => []CacheIsFresh
<1>1. CacheInv => CacheIsFresh
  BY QuietCacheIsFresh DEF CacheIsFresh, Fresh
<1> QED
  BY <1>1, CacheInvAlways, PTL

\* scoring.py, reader.py: under the same hosts, what a cached answer left out of
\* the relevant facts is not better than what it kept.
THEOREM WaitingBestAreKept ==
  ASSUME SingleHost PROVE WaitingSpec => []BestAreKept
<1>1. CacheInv => BestAreKept
  BY QuietCacheIsFresh DEF BestAreKept, Fresh
<1> QED
  BY <1>1, CacheInvAlways, PTL
=============================================================================
