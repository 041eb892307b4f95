------------------------------ MODULE History -------------------------------
(***************************************************************************)
(* The conversation as history() gives it back to an LLM, and its cost as  *)
(* tokens() counts it (core/orchestrator.py): pure reads of the two logs   *)
(* that Ingestion writes.                                                  *)
(*                                                                         *)
(* A turn's text is its cost, a counter's value for it.  A request that    *)
(* names no budget of its own takes the mode and the budget that the       *)
(* configuration gives.                                                    *)
(***************************************************************************)
EXTENDS Ingestion, SequencesExt

CONSTANTS
  Cost(_),          (* tokens of a turn's content                          *)
  HistoryMaxTurns,  (* history_max_turns                                   *)
  ConfigBudget,     (* the default truncation: [mode, budget]              *)
  Budgets           (* bound: explicit max_turns and max_tokens            *)

ASSUME CostAssumption == \A t \in Turn : Cost(t) \in Nat
ASSUME HistoryAssumption ==
  /\ HistoryMaxTurns \in Nat
  /\ ConfigBudget \in [mode: {"turns", "tokens"}, budget: Int]
  /\ Budgets \subseteq Int

(***************************************************************************)
(* history.                                                                *)
(***************************************************************************)
Either == {"user", "assistant"}

Larger(m, n) == IF m < n THEN n ELSE m

\* _history_source: a window of candidates, whatever the request asks for.
HistorySource(episodicEnabled) ==
  RecentDialogue(episodicEnabled, Larger(HistoryMaxTurns, MaxWorkingTurns))

OfRoles(roles, turns) ==
  LET chosen[n \in 0..Len(turns)] ==
        IF n = 0 THEN << >>
        ELSE IF turns[n].role \in roles THEN Append(chosen[n - 1], turns[n])
        ELSE chosen[n - 1]
  IN chosen[Len(turns)]

\* An argument is a set of at most one value, None the empty one.
\* Explicit arguments win over the configuration, tokens over turns.
Truncation(maxTurns, maxTokens) ==
  CASE maxTokens # {} -> [mode |-> "tokens", budget |-> CHOOSE n \in maxTokens : TRUE]
    [] maxTokens = {} /\ maxTurns # {} ->
         [mode |-> "turns", budget |-> CHOOSE n \in maxTurns : TRUE]
    [] OTHER -> ConfigBudget

\* A bug to check against: a turn that does not fit is skipped.
KeepWhatFits(turn, acc, budget) ==
  IF acc.total + Cost(turn) > budget THEN acc
  ELSE [acc EXCEPT !.total = @ + Cost(turn), !.kept = <<turn>> \o @]

\* One round of the loop that keeps turns, newest first, while they fit.
KeepNext(turn, acc, budget) ==
  IF acc.full \/ acc.total + Cost(turn) > budget THEN [acc EXCEPT !.full = TRUE]
  ELSE [acc EXCEPT !.total = @ + Cost(turn), !.kept = <<turn>> \o @]

\* What is kept after i rounds.
NewestFitting(turns, budget) ==
  LET after[i \in 0..Len(turns)] ==
        IF i = 0 THEN [full |-> FALSE, total |-> 0, kept |-> << >>]
        ELSE KeepNext(turns[Len(turns) - i + 1], after[i - 1], budget)
  IN after[Len(turns)].kept

Truncated(turns, limit) ==
  CASE limit.budget <= 0 -> << >>
    [] limit.budget > 0 /\ limit.mode = "turns" -> Recent(turns, limit.budget)
    [] limit.budget > 0 /\ limit.mode = "tokens" ->
         NewestFitting(turns, limit.budget)

History(episodicEnabled, roles, limit) ==
  Truncated(OfRoles(roles, HistorySource(episodicEnabled)), limit)

(***************************************************************************)
(* tokens, over messages that are turns; the response is one more text.    *)
(***************************************************************************)
TokensOf(roles, messages) ==
  LET total[i \in 0..Len(messages)] ==
        IF i = 0 THEN 0
        ELSE total[i - 1]
               + IF messages[i].role \in roles THEN Cost(messages[i]) ELSE 0
  IN total[Len(messages)]

InputTokens(messages) == TokensOf(Either, messages)

(***************************************************************************)
(* Properties.                                                             *)
(***************************************************************************)
Arguments == {{}} \cup {{n} : n \in Budgets}

Limits == {Truncation(turns, tokens) : turns, tokens \in Arguments}

TokenLimits == {limit \in Limits : limit.mode = "tokens" /\ limit.budget > 0}

RoleSets == SUBSET Either \ {{}}

\* However pipelines interleaved, failed and restarted, what a token budget buys
\* is the longest stretch of newest turns of the wanted roles that tokens()
\* counts within the budget: without gaps, and no older turn would still fit.
\* (Evaluated where nothing is under way, which all contents of the logs reach.)
HistoryIsLongestAffordable ==
  AllQuiet => \A enabled \in BOOLEAN, roles \in RoleSets :
    LET from == OfRoles(roles, HistorySource(enabled)) IN
    \A limit \in TokenLimits :
      LET kept == History(enabled, roles, limit)
      IN /\ kept = Newest(from, Len(kept))
         /\ InputTokens(kept) <= limit.budget
         /\ Len(kept) < Len(from) =>
              InputTokens(Newest(from, Len(kept) + 1)) > limit.budget

\* Where nothing overlapped and nothing failed, the volatile buffer and the
\* durable log tell the same story, also across evictions and restarts: the
\* fallback for recent dialogue is what the log says, and a history that a
\* budget cut short of the buffer is the same from either source.
SourcesAgree ==
  smooth /\ AllQuiet =>
    /\ \A n \in 1..Len(working) :
         RecentDialogue(FALSE, n) = RecentDialogue(TRUE, n)
    /\ \A roles \in RoleSets, limit \in Limits :
         LET fallback == History(FALSE, roles, limit)
             durable == History(TRUE, roles, limit)
         IN /\ IsSuffix(fallback, durable)
            /\ Len(fallback) < Len(OfRoles(roles, working)) => fallback = durable
=============================================================================
