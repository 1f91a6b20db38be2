------------------------------- MODULE Totals -------------------------------
(***************************************************************************)
(* The total of a family of natural numbers, as the number of units that   *)
(* its members have: a set, so that facts about finite sets apply to it.   *)
(***************************************************************************)
EXTENDS Integers, FiniteSets

Units(f) == UNION {{k} \X (1 .. f[k]) : k \in DOMAIN f}

Total(f) == Cardinality(Units(f))
=============================================================================
