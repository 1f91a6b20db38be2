---------------------------- MODULE MCCarDispatch ---------------------------
(* Small instances of CarDispatch for TLC.  Slots are four hours long: *)
(* slot 4 is Monday 16:00, slot 8 Tuesday 08:00, slot 14 Wednesday 08:00.  *)
EXTENDS CarDispatch

CONSTANTS c1, c2, g1, g2, me

TwoGuards == <<g1, g2>>
OnePrice == <<1, 1>>

Role(car, tickets, helping, start) ==
    [car |-> car, tickets |-> tickets, helping |-> helping, sends |-> 0, sendDay |-> 0,
     level |-> 0, pieces |-> 1, start |-> start]

At(sent, color, reward) == [Home(color, reward) EXCEPT !.sent = sent]

\* A car that is out or at home with any rewards, and one at home; the best guard is
\* taken.
Mornings ==
    {Role([c \in Cars |-> IF c = c1 THEN At(sent, "red", reward) ELSE At(0, "red", "none")],
          1, [m \in Members |-> IF m = g1 THEN 1 ELSE 0], start) :
        sent \in {0, 4}, reward \in Rewards, start \in {8, 14}}

\* Tuesday morning, with a car out since Monday.
OutSinceMonday ==
    {Role([c \in Cars |-> At(IF c = c1 THEN 4 ELSE 0, "low", "prize")],
          0, [m \in Members |-> 0], 8)}
=============================================================================
