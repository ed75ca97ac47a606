------------------------ MODULE MarketStateAnalyzer ------------------------
(* MarketStateAnalyzer (data/market_state_analyzer.cpp).  The band arithmetic  *)
(* is abstracted to its verdict on a bar: the channel is narrow                *)
(* (CONSOLIDATION) or wide (TRENDING).  A verdict counts only when it is       *)
(* confirmed.                                                                  *)
EXTENDS Naturals

CONSTANTS Period, ConfirmationBars
ASSUME AnalyzerAssumption == Period \in Nat \ {0} /\ ConfirmationBars \in Nat \ {0}

VARIABLES
  recentBars,    \* size of close_buffer_, a ring of Period closes
  state,         \* current_state_
  pending,       \* pending_state_
  confirmation,  \* confirmation_count_
  streak         \* history: how many bars the last verdict was given in a row

analyzerVars == <<recentBars, state, pending, confirmation, streak>>

Verdict == {"CONSOLIDATION", "TRENDING"}
MarketState == Verdict \cup {"WAITING"}

AnalyzerReset ==
  /\ recentBars' = 0 /\ state' = "WAITING" /\ pending' = "WAITING" /\ confirmation' = 0
  /\ streak' = [verdict |-> "WAITING", length |-> 0]

AnalyzerInit ==
  /\ recentBars = 0 /\ state = "WAITING" /\ pending = "WAITING" /\ confirmation = 0
  /\ streak = [verdict |-> "WAITING", length |-> 0]

\* Mutant: a bar that agrees with the current state does not reset the count.
ConfirmKeepsCount(verdict) ==
  IF verdict = state
  THEN UNCHANGED <<state, pending, confirmation>>
  ELSE IF verdict # pending
       THEN pending' = verdict /\ confirmation' = 1 /\ UNCHANGED state
       ELSE IF confirmation + 1 >= ConfirmationBars
            THEN state' = verdict /\ confirmation' = 0 /\ pending' = "WAITING"
            ELSE confirmation' = confirmation + 1 /\ UNCHANGED <<state, pending>>

Confirm(verdict) ==
  IF verdict = state
  THEN pending' = "WAITING" /\ confirmation' = 0 /\ UNCHANGED state
  ELSE IF verdict # pending
       THEN pending' = verdict /\ confirmation' = 1 /\ UNCHANGED state
       ELSE IF confirmation + 1 >= ConfirmationBars
            THEN state' = verdict /\ confirmation' = 0 /\ pending' = "WAITING"
            ELSE confirmation' = confirmation + 1 /\ UNCHANGED <<state, pending>>

\* update: nothing is decided before the buffer is full.
AnalyzerUpdate(verdict) ==
  /\ recentBars' = IF recentBars < Period THEN recentBars + 1 ELSE recentBars
  /\ streak' = IF verdict = streak.verdict
               THEN [streak EXCEPT !.length = IF @ < ConfirmationBars THEN @ + 1 ELSE @]
               ELSE [verdict |-> verdict, length |-> 1]
  /\ IF recentBars' < Period
     THEN state' = "WAITING" /\ UNCHANGED <<pending, confirmation>>
     ELSE Confirm(verdict)
============================================================================
