--------------------------- MODULE MCPeriodicTasks --------------------------
(* A small instance of PeriodicTasks for TLC. *)
EXTENDS PeriodicTasks

\* Sections of two floors; the reward of a full section claimed or not; the timers
\* all due or none, or the legacy claim refused; every level that matters.
SmallStarts ==
    {s \in [floor : 0..ClearFloor, claimed : 0..1, energy : 0..FullEnergy, evo : 0..FullEnergy,
            lottery : {0, 2}, full : {FALSE}, team : {1, 2}, level : 0..2,
            timer : {[t \in Timers |-> IF t = "legacy" THEN v ELSE w] :
                        v \in {"due", "fresh", "closed"}, w \in {"due", "fresh"}}] :
        /\ s.timer["legacy"] \in {s.timer["hangup"], "closed"} /\ (s.timer["legacy"] = "closed" => s.level = 2)
        /\ s.claimed \in {(s.floor - 1) \div Section, s.floor \div Section}
        /\ s.evo = s.energy}
=============================================================================
