------------------------------- MODULE MCShared -------------------------------
(* Small values for Shared: two processes that poll and two tasks that record,  *)
(* one of everything else.                                                      *)
EXTENDS Shared, TLC

CONSTANTS p1, p2

MCReports == {[says |-> "up", count |-> 0], [says |-> "other", count |-> 7]}

MCLength == "five_hour" :> 1 @@ "seven_day" :> 3 @@ "seven_day_opus" :> 3
            @@ "seven_day_sonnet" :> 3 @@ "codex_primary" :> 1 @@ "codex_secondary" :> 3
Reading(used, resets) == [used |-> used, resets |-> resets]
MCSays ==
    {[claude |-> [primary |-> Reading(u, None), secondary |-> None, tertiary |-> None],
      codex |-> None] : u \in {10, 20, 60}}
    \cup {[claude |-> [primary |-> None, secondary |-> None, tertiary |-> Reading(199, 2)],
           codex |-> None],
          [claude |-> None, codex |-> [primary |-> Reading(9, 1), secondary |-> None]]}
MCLimits == {[five_hour |-> [used |-> 61, resets |-> 1], seven_day |-> None]}
MCTurnKinds == {[provider |-> "claude", model |-> "opus"]}
MCPolled == {{"claude"}, {"claude", "openai"}}

\* The two processes that poll, and the two tasks that record, are alike.
MCSymmetry == Permutations({p1, p2})

=============================================================================
