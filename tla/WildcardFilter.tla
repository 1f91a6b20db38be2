---------------------------- MODULE WildcardFilter ----------------------------
(***************************************************************************)
(* proxy_capture.rs, wildcard_match: the command filter of the inspector, one *)
(* pass over the command with a return to the last star.  A text is a         *)
(* sequence of characters; no command has a star in it.                      *)
(***************************************************************************)
EXTENDS Integers, Sequences

CONSTANT Star

-----------------------------------------------------------------------------
\* pi and vi: the next places in the pattern and the value.  star: the last star
\* met, 0 for none; sv: where the text it stands for ends so far.
Scan == [pi : Nat, vi : Nat, star : Nat, sv : Nat]
ScanAt(pi, vi, star, sv) == [pi |-> pi, vi |-> vi, star |-> star, sv |-> sv]
ScanStart == ScanAt(1, 1, 0, 0)

Literal(p, v, s) == s.pi <= Len(p) /\ p[s.pi] = v[s.vi]
AtStar(p, s) == s.pi <= Len(p) /\ p[s.pi] = Star

\* The loop is left at the end of the value, or with false where nothing fits.
LoopLeft(p, v, s) ==
    s.vi > Len(v) \/ ~(Literal(p, v, s) \/ AtStar(p, s) \/ s.star # 0)

\* One turn of the loop.
Turned(p, v, s) ==
    IF LoopLeft(p, v, s) THEN s
    ELSE IF Literal(p, v, s) THEN ScanAt(s.pi + 1, s.vi + 1, s.star, s.sv)
    ELSE IF AtStar(p, s) THEN ScanAt(s.pi + 1, s.vi, s.pi, s.vi)
    ELSE ScanAt(s.star + 1, s.sv + 1, s.star, s.sv + 1)

\* No loop takes more turns than this.
MaxTurns(p, v) == (Len(v) + 2) * (Len(p) + 2)

scanning(p, v) ==
    LET after[i \in 0..MaxTurns(p, v)] ==
            IF i = 0 THEN ScanStart ELSE Turned(p, v, after[i - 1])
    IN  after

\* What is left of the pattern is only stars.
OnlyStars(p, pi) == \A i \in pi..Len(p) : p[i] = Star

wildcard_match(p, v) ==
    LET s == scanning(p, v)[MaxTurns(p, v)]
    IN  s.vi > Len(v) /\ OnlyStars(p, s.pi)

-----------------------------------------------------------------------------
\* From place i of the pattern on, at gives the place of the value where each
\* character of the pattern begins to match: a star any text, another itself.
Fits(p, v, at, i) ==
    /\ at[Len(p) + 1] = Len(v) + 1
    /\ \A q \in i..Len(p) :
          IF p[q] = Star THEN at[q] <= at[q + 1]
          ELSE at[q + 1] = at[q] + 1 /\ v[at[q]] = p[q]

\* The meaning of a pattern.
Matches(p, v) ==
    \E at \in [1..(Len(p) + 1) -> 1..(Len(v) + 1)] : at[1] = 1 /\ Fits(p, v, at, 1)

\* The filter that returns only to the last star ends, and accepts what some
\* choice for every star would.
FilterRight(p, v) ==
    /\ LoopLeft(p, v, scanning(p, v)[MaxTurns(p, v)])
    /\ wildcard_match(p, v) <=> Matches(p, v)
=============================================================================
