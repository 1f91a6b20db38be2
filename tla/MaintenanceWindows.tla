-------------------------- MODULE MaintenanceWindows --------------------------
(***************************************************************************)
(* config.rs: the maintenance windows of a configuration, cleaned up when it *)
(* is loaded, and scheduler.rs: the test whether the clock is in one.  A      *)
(* configured window is [weekday, start, end] with a weekday 0..6 and times   *)
(* [h, m]; texts that do not parse are a weekday or an hour out of range.    *)
(***************************************************************************)
EXTENDS Integers, Sequences, FiniteSets

Time == [h : Nat, m : Nat]
ConfigWindow == [weekday : Nat, start : Time, end : Time]

Hhmm(h, m) == [h |-> h, m |-> m]

default_maintenance_windows ==
    << [weekday |-> 4, start |-> Hhmm(5, 0),   end |-> Hhmm(7, 0)],
       [weekday |-> 5, start |-> Hhmm(19, 15), end |-> Hhmm(21, 15)],
       [weekday |-> 6, start |-> Hhmm(19, 15), end |-> Hhmm(20, 45)] >>

-----------------------------------------------------------------------------
parse_weekday(w) == w \in 0..6
parse_hhmm_strict(t) == t.h \in 0..23 /\ t.m \in 0..59
Minutes(t) == t.h * 60 + t.m
minutes_to_hhmm(n) == Hhmm(n \div 60, n % 60)

\* A window that is kept.
ValidWindow(w) ==
    /\ parse_weekday(w.weekday)
    /\ parse_hhmm_strict(w.start) /\ parse_hhmm_strict(w.end)
    /\ Minutes(w.start) < Minutes(w.end)

\* The windows of a day, by their number in the configuration.
grouped(ws, day) == {i \in 1..Len(ws) : ValidWindow(ws[i]) /\ ws[i].weekday = day}

\* The stable sort by start: the place of a window is the number of windows up to it.
Precedes(ws, i, j) ==
    \/ Minutes(ws[i].start) < Minutes(ws[j].start)
    \/ Minutes(ws[i].start) = Minutes(ws[j].start) /\ i < j
Place(ws, I, i) == Cardinality({j \in I : ~Precedes(ws, i, j)})
AtPlace(ws, I, r) == CHOOSE i \in I : Place(ws, I, i) = r

intervals(ws, day) ==
    LET I == grouped(ws, day)
    IN  [r \in 1..Cardinality(I) |->
           [start |-> Minutes(ws[AtPlace(ws, I, r)].start),
            end   |-> Minutes(ws[AtPlace(ws, I, r)].end)]]

\* Faulty: the later window decides where the merged one ends
extend_last(merged, x) ==
    LET n == Len(merged)
    IN  IF n > 0 /\ x.start <= merged[n].end
        THEN [merged EXCEPT ![n] = [start |-> @.start, end |-> x.end]]
        ELSE Append(merged, x)

\* One interval merged into the last one that it touches, or added.
merge_last(merged, x) ==
    LET n == Len(merged)
    IN  IF n > 0 /\ x.start <= merged[n].end
        THEN [merged EXCEPT ![n] =
                [start |-> @.start, end |-> IF x.end > @.end THEN x.end ELSE @.end]]
        ELSE Append(merged, x)

\* The loop over the intervals s of a day: what is merged of the first i of them.
merging(s) ==
    LET merged[i \in 0..Len(s)] == IF i = 0 THEN <<>> ELSE merge_last(merged[i - 1], s[i])
    IN  merged

\* The windows written back for a day.
NormalizedDay(ws, day) ==
    LET s == intervals(ws, day)
        spans == merging(s)[Len(s)]
    IN  [i \in 1..Len(spans) |->
           [weekday |-> day, start |-> minutes_to_hhmm(spans[i].start),
            end |-> minutes_to_hhmm(spans[i].end)]]

normalize_maintenance_windows(ws) ==
    LET Day(d) == NormalizedDay(ws, d)
        normalized == Day(0) \o Day(1) \o Day(2) \o Day(3) \o Day(4) \o Day(5) \o Day(6)
    IN  IF normalized = <<>> THEN default_maintenance_windows ELSE normalized

\* parse_maintenance_windows and maintenance_hit: the clock is in a window that
\* parses; the end of a window is outside it.
maintenance_hit(ws, day, minute) ==
    \E i \in 1..Len(ws) :
        /\ parse_weekday(ws[i].weekday)
        /\ parse_hhmm_strict(ws[i].start) /\ parse_hhmm_strict(ws[i].end)
        /\ ws[i].weekday = day
        /\ Minutes(ws[i].start) <= minute /\ minute < Minutes(ws[i].end)

-----------------------------------------------------------------------------
\* What is configured, or the default if no window of it is valid.
Meant(ws) == IF \E i \in 1..Len(ws) : ValidWindow(ws[i]) THEN ws ELSE default_maintenance_windows

\* The clean-up changes no minute in which the scheduler stands still: what it
\* hits afterwards is what it hit before, unless no window was valid at all, and
\* the windows that are left of a day neither overlap nor touch.
MinutesKept(ws, minutes) ==
    LET out == normalize_maintenance_windows(ws)
    IN  /\ \A day \in 0..6, minute \in minutes :
              maintenance_hit(out, day, minute) <=> maintenance_hit(Meant(ws), day, minute)
        /\ \A i, j \in 1..Len(out) :
              i < j /\ out[i].weekday = out[j].weekday
                => Minutes(out[i].end) < Minutes(out[j].start)
=============================================================================
