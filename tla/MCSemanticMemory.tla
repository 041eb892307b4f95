-------------------------- MODULE MCSemanticMemory --------------------------
(***************************************************************************)
(* Instances of SemanticMemory for TLC.  Ingest threads are interchangeable. *)
(***************************************************************************)
EXTENDS SemanticMemory, TLC

CONSTANTS f, g, w1, w2, h1, h2

OneSentence == {f}
TwoSentences == {f, g}
OneWriter == {w1}
TwoWriters == {w1, w2}
OneHost == {h1}
TwoHosts == {h1, h2}
WriterSymmetry == Permutations(TwoWriters)

\* f is a statement, g a number on its own.
SomeFeatures ==
  [s \in Sentences |->
     [words |-> IF s = f THEN 4 ELSE 1, filler |-> FALSE, question |-> FALSE,
      number |-> s = g, strong |-> FALSE]]

Said(query, response) == [query |-> query, response |-> response]

\* The assistant repeats what the user says.
Statements == {Said(<<f>>, <<f>>), Said(<<g>>, << >>)}

Repetitions == {Said(<<f>>, << >>)}

NoPriority == {{}}
AnyPriority == {{}, {9}}
=============================================================================
