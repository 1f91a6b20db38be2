---------------------------- MODULE MCDailyTasks ----------------------------
(* A small instance of DailyTasks for TLC: one task of every kind.         *)
EXTENDS DailyTasks

Entry(name, rule, uses, told) ==
    [name |-> name, rule |-> rule, uses |-> uses, status |-> told, team |-> 0,
     gate |-> FALSE, optional |-> FALSE]

OneOfEachKind ==
    << Entry("share", "result", 1, "done"),
       Entry("hangup_reward", "always", 1, "done"),
       Entry("buy_gold", "all", 2, "done"),
       [Entry("arena", "arena", 2, "count") EXCEPT !.team = 2, !.gate = TRUE],
       [Entry("boss", "best", 1, "none") EXCEPT !.team = 3],
       [Entry("nightmare", "result", 1, "none") EXCEPT !.optional = TRUE] >>

\* Nothing done yet, or some of what takes several commands.
Begun ==
    {[n \in Names |-> IF n \in some THEN 1 ELSE 0] : some \in {{}, {"buy_gold", "arena"}}}
=============================================================================
