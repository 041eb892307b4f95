----------------------------- MODULE Extraction -----------------------------
(***************************************************************************)
(* What the default extractor makes of an interaction, and how important   *)
(* the facts are: SpeakerAwareExtractor in layers/semantic/extraction.py,  *)
(* and the priority floor of the writer.  A text is a sequence of          *)
(* sentences, a sentence what the heuristics look at.                      *)
(***************************************************************************)
EXTENDS Integers, Sequences

CONSTANTS
  Sentences,         (* what can be said                                   *)
  Features,          (* what the heuristics see of each                    *)
  IncludeAssistant   (* semantic_include_assistant                         *)

ASSUME FeaturesAssumption ==
  Features \in [Sentences -> [words: Nat, filler: BOOLEAN, question: BOOLEAN,
                              number: BOOLEAN, strong: BOOLEAN]]
ASSUME IncludeAssistantAssumption == IncludeAssistant \in BOOLEAN

\* Texts that are stored are attributed; the host's are not.
Speakers == {"User", "Assistant", "host"}
Text == [speaker: Speakers, says: Sentences]
Raw(sentence) == [speaker |-> "host", says |-> sentence]

(***************************************************************************)
(* extraction.py.                                                          *)
(***************************************************************************)
Clamp(n) == IF n < 1 THEN 1 ELSE IF n > 10 THEN 10 ELSE n

ScoreImportance(speaker, sentence) ==
  LET seen == Features[sentence] IN
  Clamp((IF speaker = "User" THEN 5 ELSE 3)
        + (IF seen.words >= 8 THEN 2 ELSE IF seen.words >= 5 THEN 1 ELSE 0)
        + (IF seen.number THEN 2 ELSE 0)
        + (IF seen.strong THEN 2 ELSE 0))

Informative(sentence, keepQuestions) ==
  /\ ~Features[sentence].filler
  /\ Features[sentence].question => keepQuestions
  /\ Features[sentence].words >= 3 \/ Features[sentence].number

\* The loop of _from: what it has kept of the first n sentences.
Kept(text, keepQuestions) ==
  LET kept[n \in 0..Len(text)] ==
        IF n = 0 THEN << >>
        ELSE IF Informative(text[n], keepQuestions) THEN Append(kept[n - 1], text[n])
        ELSE kept[n - 1]
  IN kept

From(text, speaker, keepQuestions) ==
  LET kept == Kept(text, keepQuestions)[Len(text)] IN
  [i \in DOMAIN kept |->
     [text |-> [speaker |-> speaker, says |-> kept[i]],
      importance |-> ScoreImportance(speaker, kept[i])]]

\* Questions of the assistant are never facts.
Extract(query, response) ==
  From(query, "User", TRUE)
    \o IF IncludeAssistant THEN From(response, "Assistant", FALSE) ELSE << >>

(***************************************************************************)
(* writer.py, _ingest: a priority, if one is given, is a floor.            *)
(***************************************************************************)
Raised(importance, priority) ==
  IF \E p \in priority : Clamp(p) > importance
  THEN Clamp(CHOOSE p \in priority : TRUE) ELSE importance

ToWrite(query, response, priority) ==
  LET facts == Extract(query, response) IN
  [i \in DOMAIN facts |->
     [facts[i] EXCEPT !.importance = Raised(@, priority)]]
=============================================================================
