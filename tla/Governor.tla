------------------------------- MODULE Governor -------------------------------
(***************************************************************************)
(* The counters of the governor as the orchestration loop uses them: they  *)
(* live in memory, only grow, and a record call past a limit trips.  Costs *)
(* are in units of one model call.  Each operator is one call under g.mu.  *)
(***************************************************************************)
EXTENDS Integers

CONSTANTS MaxActionBudget, CostCeiling, MaxRepetitions

ASSUME LimitsAreInts == {MaxActionBudget, CostCeiling, MaxRepetitions} \subseteq Int

Fresh == [actions |-> 0, totalUSD |-> 0, last |-> "", count |-> 0]

RecordAction(g) == [g EXCEPT !.actions = @ + 1]
ActionTripped(g) == g.actions > MaxActionBudget

RecordCost(g, usd) == [g EXCEPT !.totalUSD = @ + usd]
CostTripped(g) == g.totalUSD > CostCeiling

\* Consecutive identical contents of one session; a limit that is not positive turns it off.
RecordRepetition(g, content) ==
    IF MaxRepetitions <= 0 \/ content = "" THEN g
    ELSE [g EXCEPT !.last = content, !.count = IF content = g.last THEN g.count + 1 ELSE 1]
RepetitionTripped(g, content) ==
    MaxRepetitions > 0 /\ content # "" /\ g.count >= MaxRepetitions

\* RecordConnectorCost: a ceiling that is not positive turns it off.
ConnectorTripped(total, ceiling) == ceiling > 0 /\ total > ceiling
===============================================================================
