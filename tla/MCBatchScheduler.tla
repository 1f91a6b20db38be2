-------------------------- MODULE MCBatchScheduler --------------------------
(* Small instances of BatchScheduler for TLC. *)
EXTENDS BatchScheduler, TLC

CONSTANTS r1, r2, b1, b2

BothRoles == {r1, r2}
OneRole == {r1}
BinOfBoth == (r1 :> b1) @@ (r2 :> b2)
BinOfShared == (r1 :> b1) @@ (r2 :> b1)
RoleSymmetry == Permutations(BothRoles)
BinOfOne == (r1 :> b1)
OneBin == {b1}
TwoBins == {b1, b2}
EachOnce == {[b \in Bins |-> 1]}
Duplicates == {(b1 :> 2) @@ (b2 :> 0), (b1 :> 1) @@ (b2 :> 1), (b1 :> 0) @@ (b2 :> 1)}
CarHours == {<<0, 1>>, <<1, 1>>}
FirstSlotOfFriday == {[weekday |-> 1, start |-> 0, end |-> 1]}
Twice == {[b \in Bins |-> 2]}
NoWindows == {}
=============================================================================
