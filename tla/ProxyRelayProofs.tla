-------------------------- MODULE ProxyRelayProofs --------------------------
(***************************************************************************)
(* Proofs about ProxyRelay: both semaphores are conserved, every frame is  *)
(* accounted for, and the capture keeps the order of the conversation, for *)
(* any number of connections, any limits and frames of any size.           *)
(***************************************************************************)
EXTENDS ProxyRelay, FunctionProofs

Halves == [Conns -> [Directions -> HalfState]]
Records == [conn : Conns, dir : Directions, frame : Frame]
ConnStates == {"new", "rejected", "setup", "relay", "ended"}

\* TypeOK without the upper limits of the semaphores, which follow from their
\* conservation.
Types ==
    /\ main \in {"select", "join", "done"}
    /\ relay \in {"accept", "grace", "abort", "ended", "failed"}
    /\ shutdown \in BOOLEAN /\ analyzer \in {"run", "ended", "failed"}
    /\ conn \in [Conns -> ConnStates]
    /\ half \in Halves
    /\ index \in [Conns -> Nat \ {0}] /\ delivered \in [Conns -> SUBSET Nat]
    /\ slots \in Nat /\ bytes \in Nat
    /\ captured \in Seq(Records)
    /\ taken \in 0..Len(captured)
    /\ dropped \in [queue_full : Nat, analyzer_closed : Nat]

\* A direction holds, or ended with, a copy of a frame that was not written.
Kept(h) == h.pc \in {"forward", "cut"} /\ h.held

-----------------------------------------------------------------------------
(* One direction.                                                          *)

\* What the operators on the state of a direction return.
LEMMA HalfFacts ==
    ASSUME NEW h \in HalfState
    PROVE  /\ Cost(h.frame) \in Nat \ {0} /\ HeldBy(h) \in Nat
           /\ Cut(h) \in HalfState /\ AbortedHalf(h) \in HalfState
           /\ HeldBy(Cut(h)) = 0 /\ HeldBy(AbortedHalf(h)) = 0
           /\ AbortedHalf(h).pc # "forward" /\ Cut(h).pc # "forward"
           /\ Kept(AbortedHalf(h)) <=> Kept(h)
           /\ h.pc = "forward" => (Kept(Cut(h)) <=> Kept(h))
<1>1. NoFrame \in Frame
  BY DEF NoFrame, Frame
<1>2. Ended \in HalfState /\ Ended.pc = "ended" /\ ~Ended.held
  BY <1>1 DEF Ended, HalfState
<1>3. Cost(h.frame) \in Nat \ {0}
  BY DEF HalfState, Frame, Cost
<1>4. Cut(h) \in HalfState /\ Cut(h).pc = "cut" /\ Cut(h).held = h.held
  BY DEF Cut, HalfState
<1>5. HeldBy(h) \in Nat
  BY <1>3 DEF HeldBy
<1>6. AbortedHalf(h) \in {Cut(h), h, Ended}
  BY DEF AbortedHalf
<1>7. AbortedHalf(h) \in HalfState /\ AbortedHalf(h).pc # "forward"
  BY <1>2, <1>4 DEF AbortedHalf
<1>8. Kept(AbortedHalf(h)) <=> Kept(h)
  BY <1>2, <1>4 DEF AbortedHalf, Kept, HalfState, Over
<1>9. HeldBy(Cut(h)) = 0 /\ HeldBy(AbortedHalf(h)) = 0
  BY <1>4, <1>7 DEF HeldBy
<1>10. QED
  BY <1>3, <1>4, <1>5, <1>7, <1>8, <1>9 DEF Kept

\* The two states that a direction is put into.
LEMMA StartAndEnd ==
    /\ Reading \in HalfState /\ Ended \in HalfState
    /\ Reading.pc = "read" /\ Ended.pc = "ended"
    /\ HeldBy(Reading) = 0 /\ HeldBy(Ended) = 0
    /\ ~Kept(Reading) /\ ~Kept(Ended)
<1>1. NoFrame \in Frame
  BY DEF NoFrame, Frame
<1>2. QED
  BY <1>1 DEF Reading, Ended, HalfState, HeldBy, Kept

-----------------------------------------------------------------------------
(* Sums over all directions.                                               *)

Held(H) == Total([p \in Conns \X Directions |-> HeldBy(H[p[1]][p[2]])])
KeptIn(H) == {p \in Conns \X Directions : Kept(H[p[1]][p[2]])}

LEMMA Ends == IsFiniteSet(Conns \X Directions) /\ IsFiniteSet(Conns)
<1>1. IsFiniteSet({"c2s"})
  BY FS_Singleton
<1>2. IsFiniteSet({"c2s"} \cup {"s2c"})
  BY <1>1, FS_AddElement
<1>3. Directions = {"c2s"} \cup {"s2c"}
  BY DEF Directions
<1>4. IsFiniteSet(Directions) /\ IsFiniteSet(Conns)
  BY <1>2, <1>3, RelayAssumption
<1>5. QED
  BY <1>4, FS_Product

\* The copies in hand are finitely many.
LEMMA HeldType ==
    ASSUME NEW H \in Halves
    PROVE  /\ Held(H) \in Nat
           /\ IsFiniteSet(KeptIn(H)) /\ Cardinality(KeptIn(H)) \in Nat
<1>1. ASSUME NEW p \in Conns \X Directions PROVE HeldBy(H[p[1]][p[2]]) \in Nat
  <2>1. H[p[1]][p[2]] \in HalfState
    BY DEF Halves
  <2>2. QED
    BY <2>1, HalfFacts
<1>2. [p \in Conns \X Directions |-> HeldBy(H[p[1]][p[2]])] \in [Conns \X Directions -> Nat]
  BY <1>1
<1>3. Held(H) \in Nat
  BY <1>2, Ends, UnitsFinite DEF Held
<1>4. KeptIn(H) \in SUBSET (Conns \X Directions)
  BY DEF KeptIn
<1>5. QED
  BY <1>3, <1>4, Ends, FS_Subset, FS_CardinalityType

\* A direction that changes makes its own difference.
LEMMA HeldChanges ==
    ASSUME NEW H \in Halves, NEW G \in Halves, NEW c \in Conns, NEW d \in Directions,
           \A x \in Conns, y \in Directions : <<x, y>> # <<c, d>> => G[x][y] = H[x][y]
    PROVE  /\ Held(G) = Held(H) - HeldBy(H[c][d]) + HeldBy(G[c][d])
           /\ Cardinality(KeptIn(G)) = Cardinality(KeptIn(H))
                - (IF Kept(H[c][d]) THEN 1 ELSE 0) + (IF Kept(G[c][d]) THEN 1 ELSE 0)
<1> DEFINE K == Conns \X Directions
           f == [p \in K |-> HeldBy(H[p[1]][p[2]])]
           g == [p \in K |-> HeldBy(G[p[1]][p[2]])]
           k == <<c, d>>
<1>1. f \in [K -> Nat] /\ g \in [K -> Nat]
  <2>1. ASSUME NEW p \in K PROVE H[p[1]][p[2]] \in HalfState /\ G[p[1]][p[2]] \in HalfState
    BY DEF Halves
  <2>2. ASSUME NEW p \in K PROVE HeldBy(H[p[1]][p[2]]) \in Nat /\ HeldBy(G[p[1]][p[2]]) \in Nat
    BY <2>1, HalfFacts
  <2>3. QED
    BY <2>2
<1>2. k \in K /\ f[k] = HeldBy(H[c][d]) /\ g[k] = HeldBy(G[c][d])
  OBVIOUS
<1>3. \A x \in K \ {k} : g[x] = f[x] /\ G[x[1]][x[2]] = H[x[1]][x[2]]
  OBVIOUS
<1>4. Held(G) = Held(H) - HeldBy(H[c][d]) + HeldBy(G[c][d])
  <2>1. Held(H) = Total(f) /\ Held(G) = Total(g)
    BY DEF Held
  <2> HIDE DEF f, g, k, K
  <2>2. IsFiniteSet(K)
    BY Ends DEF K
  <2>3. Total(g) = Total(f) - f[k] + g[k]
    BY <1>1, <1>2, <1>3, <2>2, TotalChanges
  <2>4. QED
    BY <1>2, <2>1, <2>3
<1> DEFINE rest == KeptIn(H) \ {k}
<1>5. /\ KeptIn(H) = IF Kept(H[c][d]) THEN rest \cup {k} ELSE rest
      /\ KeptIn(G) = IF Kept(G[c][d]) THEN rest \cup {k} ELSE rest
      /\ k \notin rest
  BY <1>2, <1>3 DEF KeptIn
<1>6. IsFiniteSet(rest) /\ Cardinality(rest) \in Nat
  BY HeldType, FS_RemoveElement, FS_CardinalityType
<1> HIDE DEF rest, k
<1>7. Cardinality(rest \cup {k}) = Cardinality(rest) + 1
  BY <1>5, <1>6, FS_AddElement
<1>8. Cardinality(KeptIn(G)) = Cardinality(KeptIn(H))
                - (IF Kept(H[c][d]) THEN 1 ELSE 0) + (IF Kept(G[c][d]) THEN 1 ELSE 0)
  BY <1>5, <1>6, <1>7
<1>9. QED
  BY <1>4, <1>8

-----------------------------------------------------------------------------
(* The channel.                                                            *)

InQueue(s, t) == Total([i \in t + 1 .. Len(s) |-> Cost(s[i].frame)])

LEMMA CostType == ASSUME NEW f \in Frame PROVE Cost(f) \in Nat \ {0}
BY DEF Frame, Cost

\* The records from place t + 1 to place n.
Part(s, t, n) == Total([i \in t + 1 .. n |-> Cost(s[i].frame)])

\* What a record more or less makes of it.
LEMMA PartType ==
    ASSUME NEW s, NEW n \in Nat, \A i \in 1..n : s[i] \in Records, NEW u \in 0..n
    PROVE  /\ IsFiniteSet(u + 1 .. n)
           /\ [i \in u + 1 .. n |-> Cost(s[i].frame)] \in [u + 1 .. n -> Nat]
<1>1. ASSUME NEW i \in u + 1 .. n PROVE Cost(s[i].frame) \in Nat
  <2>1. s[i] \in Records
    OBVIOUS
  <2>2. QED
    BY <2>1, CostType DEF Records
<1>2. QED
  <2>1. IsFiniteSet(u + 1 .. n)
    BY FS_Interval
  <2>2. [i \in u + 1 .. n |-> Cost(s[i].frame)] \in [u + 1 .. n -> Nat]
    BY <1>1
  <2>3. QED
    BY <2>1, <2>2

\* One record less.
LEMMA PartFacts ==
    ASSUME NEW s, NEW n \in Nat, \A i \in 1..n : s[i] \in Records, NEW t \in 0..n
    PROVE  /\ Part(s, t, n) \in Nat
           /\ Part(s, n, n) = 0
           /\ t < n => Part(s, t + 1, n) = Part(s, t, n) - Cost(s[t + 1].frame)
<1> DEFINE f(u) == [i \in u + 1 .. n |-> Cost(s[i].frame)]
<1>2. ASSUME NEW u \in 0..n
      PROVE  IsFiniteSet(u + 1 .. n) /\ f(u) \in [u + 1 .. n -> Nat]
  BY PartType
<1>3. Part(s, t, n) \in Nat
  BY <1>2, UnitsFinite DEF Part
<1>4. Part(s, n, n) = 0
  <2>1. n + 1 .. n = {}
    OBVIOUS
  <2>2. QED
    BY <2>1, TotalOfZeros DEF Part
<1>5. ASSUME t < n PROVE Part(s, t + 1, n) = Part(s, t, n) - Cost(s[t + 1].frame)
  <2>1. t + 1 \in 0..n /\ t + 1 \in t + 1 .. n
    BY <1>5
  <2>2. (t + 1) + 1 .. n = (t + 1 .. n) \ {t + 1}
    BY <1>5
  <2>3. \A i \in (t + 1 .. n) \ {t + 1} : f(t + 1)[i] = f(t)[i]
    BY <2>2
  <2>4. f(t)[t + 1] = Cost(s[t + 1].frame)
    BY <2>1
  <2>5. /\ IsFiniteSet(t + 1 .. n) /\ f(t) \in [t + 1 .. n -> Nat]
        /\ f(t + 1) \in [(t + 1 .. n) \ {t + 1} -> Nat]
    BY <1>2, <2>1, <2>2
  <2>6. Part(s, t, n) = Total(f(t)) /\ Part(s, t + 1, n) = Total(f(t + 1))
    BY DEF Part
  <2> HIDE DEF f
  <2>7. Total(f(t + 1)) = Total(f(t)) - f(t)[t + 1]
    <3> DEFINE F == f(t)  G == f(t + 1)  K == t + 1 .. n  k == t + 1
    <3>1. /\ IsFiniteSet(K) /\ F \in [K -> Nat] /\ k \in K /\ G \in [K \ {k} -> Nat]
          /\ \A x \in K \ {k} : G[x] = F[x]
      BY <2>1, <2>3, <2>5
    <3> HIDE DEF F, G, K, k
    <3>2. Total(G) = Total(F) - F[k]
      BY <3>1, TotalRemoves
    <3>3. QED
      BY <3>2 DEF F, G, k
  <2>8. QED
    BY <2>4, <2>6, <2>7
<1>7. QED
  BY <1>3, <1>4, <1>5

\* One record more.
LEMMA PartAdds ==
    ASSUME NEW s, NEW n, NEW t, NEW r \in Records, NEW u,
           n \in Nat, \A i \in 1..n : s[i] \in Records, t \in 0..n,
           u[n + 1] = r, \A i \in 1..n : u[i] = s[i]
    PROVE  Part(u, t, n + 1) = Part(s, t, n) + Cost(r.frame)
<1> DEFINE f(v) == [i \in v + 1 .. n |-> Cost(s[i].frame)]
<1> DEFINE k == n + 1
           g == [i \in t + 1 .. k |-> Cost(u[i].frame)]
<1>1. u[k] = r
      /\ \A i \in 1..n : u[i] = s[i]
  OBVIOUS
<1>2. t + 1 .. k = (t + 1 .. n) \cup {k} /\ k \notin t + 1 .. n
  OBVIOUS
<1>3. \A i \in t + 1 .. n : g[i] = f(t)[i]
  BY <1>1
<1>4. g[k] = Cost(r.frame) /\ g[k] \in Nat
  BY <1>1, CostType DEF Records
<1>5. g \in [(t + 1 .. n) \cup {k} -> Nat]
  <2>1. \A i \in t + 1 .. n : f(t)[i] \in Nat
    BY PartType
  <2>2. \A i \in t + 1 .. k : g[i] \in Nat
    BY <1>2, <1>3, <1>4, <2>1
  <2>3. g \in [t + 1 .. k -> Nat]
    BY <2>2
  <2>4. QED
    BY <1>2, <2>3
<1>6. /\ IsFiniteSet(t + 1 .. n) /\ f(t) \in [t + 1 .. n -> Nat]
      /\ Part(s, t, n) = Total(f(t)) /\ Part(u, t, n + 1) = Total(g)
  BY PartType, <1>1 DEF Part
<1> HIDE DEF f, g, k
<1>7. Total(g) = Total(f(t)) + g[k]
  <2> DEFINE F == f(t)  K == t + 1 .. n
  <2>1. /\ IsFiniteSet(K) /\ F \in [K -> Nat] /\ k \notin K
        /\ g \in [K \cup {k} -> Nat] /\ \A x \in K : g[x] = F[x]
    BY <1>2, <1>3, <1>5, <1>6
  <2> HIDE DEF F, K
  <2>2. Total(g) = Total(F) + g[k]
    BY <2>1, TotalAdds
  <2>3. QED
    BY <2>2 DEF F
<1>8. QED
  BY <1>4, <1>6, <1>7

\* The permits in the channel: none of an empty one, one record's more when it is
\* queued, one record's less when it is taken.
LEMMA QueueFacts ==
    ASSUME NEW s \in Seq(Records), NEW t \in 0..Len(s)
    PROVE  /\ InQueue(s, t) \in Nat
           /\ InQueue(s, Len(s)) = 0
           /\ t < Len(s) => InQueue(s, t + 1) = InQueue(s, t) - Cost(s[t + 1].frame)
           /\ \A r \in Records : InQueue(Append(s, r), t) = InQueue(s, t) + Cost(r.frame)
<1>1. Len(s) \in Nat /\ \A i \in 1..Len(s) : s[i] \in Records
  OBVIOUS
<1>2. ASSUME NEW r \in Records
      PROVE  /\ Len(Append(s, r)) = Len(s) + 1 /\ Append(s, r)[Len(s) + 1] = r
             /\ \A i \in 1..Len(s) : Append(s, r)[i] = s[i]
  OBVIOUS
<1>3. \A t2 : InQueue(s, t2) = Part(s, t2, Len(s))
  BY DEF InQueue, Part
<1>4. ASSUME NEW r \in Records PROVE InQueue(Append(s, r), t) = Part(Append(s, r), t, Len(s) + 1)
  BY <1>2 DEF InQueue, Part
<1>5. /\ Part(s, t, Len(s)) \in Nat /\ Part(s, Len(s), Len(s)) = 0
      /\ t < Len(s) => Part(s, t + 1, Len(s)) = Part(s, t, Len(s)) - Cost(s[t + 1].frame)
  BY <1>1, PartFacts
<1>6. ASSUME NEW r \in Records
      PROVE  Part(Append(s, r), t, Len(s) + 1) = Part(s, t, Len(s)) + Cost(r.frame)
  <2> DEFINE u == Append(s, r)  n == Len(s)
  <2>1. /\ n \in Nat /\ (\A i \in 1..n : s[i] \in Records) /\ t \in 0..n
        /\ u[n + 1] = r /\ (\A i \in 1..n : u[i] = s[i])
    BY <1>1, <1>2
  <2> HIDE DEF u, n
  <2>2. Part(u, t, n + 1) = Part(s, t, n) + Cost(r.frame)
    BY <2>1, PartAdds
  <2>3. QED
    BY <2>2 DEF u, n
<1>7. QED
  BY <1>3, <1>4, <1>5, <1>6

-----------------------------------------------------------------------------
(* The steps, by what they do to the copies.                               *)

Losses(x) == x.queue_full + x.analyzer_closed

\* Nothing happens to frames and copies.
Idle == UNCHANGED <<half, index, delivered, bytes, captured, taken, dropped>>

\* A direction gives up what it has in hand.
Release(c, d) ==
    /\ \E v \in HalfState :
          /\ half' = [half EXCEPT ![c][d] = v]
          /\ HeldBy(v) = 0 /\ v.pc # "forward" /\ (Kept(v) <=> Kept(half[c][d]))
    /\ bytes' = bytes + HeldBy(half[c][d]) /\ conn[c] = "relay"
    /\ UNCHANGED <<conn, slots, index, delivered, captured, taken, dropped>>

\* A frame is read, with or without a copy.
Read(c, d, f, copy) ==
    /\ f.n = index[c] /\ f.re \in delivered[c] \cup {0} /\ half[c][d].pc = "read"
    /\ half' = [half EXCEPT ![c][d] = [pc |-> "forward", frame |-> f, held |-> copy]]
    /\ index' = [index EXCEPT ![c] = @ + 1]
    /\ copy => Cost(f) <= bytes
    /\ bytes' = IF copy THEN bytes - Cost(f) ELSE bytes
    /\ dropped' \in [queue_full : Nat, analyzer_closed : Nat]
    /\ Losses(dropped') = Losses(dropped) + (IF copy THEN 0 ELSE 1)
    /\ conn[c] = "relay" /\ UNCHANGED <<conn, slots, delivered, captured, taken>>

\* A frame is written, and its copy queued or dropped.
Written(c, d) ==
    /\ half[c][d].pc = "forward"
    /\ \E v \in {Reading, Ended} : half' = [half EXCEPT ![c][d] = v]
    /\ \/ delivered' = delivered
       \/ d = "c2s" /\ delivered' = [delivered EXCEPT ![c] = @ \cup {half[c][d].frame.n}]
    /\ \/ /\ half[c][d].held /\ captured' = Append(captured, Record(c, d))
          /\ UNCHANGED <<bytes, dropped>>
       \/ /\ captured' = captured /\ bytes' = bytes + HeldBy(half[c][d])
          /\ dropped' \in [queue_full : Nat, analyzer_closed : Nat]
          /\ Losses(dropped') = Losses(dropped) + (IF half[c][d].held THEN 1 ELSE 0)
    /\ conn[c] = "relay" /\ UNCHANGED <<conn, slots, index, taken>>

\* Reading a frame, as Read says.
LEMMA ReadEffect ==
    ASSUME Types, NEW c \in Conns, NEW d \in Directions, ReadFrame(c, d)
    PROVE  \E f \in Frame, copy \in BOOLEAN : Read(c, d, f, copy)
<1>1. PICK f \in Arrivals(c, d) : prepare_record(c, d, f)
  BY DEF ReadFrame
<1>2. /\ half[c][d].pc = "read" /\ conn[c] = "relay" /\ index' = [index EXCEPT ![c] = @ + 1]
      /\ UNCHANGED <<conn, slots, delivered, captured, taken>>
  BY DEF ReadFrame, At
<1>3. f \in Frame /\ f.n = index[c] /\ f.re \in delivered[c] \cup {0}
  <2>1. PICK r \in (IF d = "c2s" THEN {0} ELSE delivered[c] \cup {0}), k \in Kinds :
             f = [n |-> index[c], re |-> r, size |-> k.size, close |-> k.close]
    BY <1>1 DEF Arrivals
  <2>2. r \in delivered[c] \cup {0} /\ delivered[c] \subseteq Nat /\ index[c] \in Nat
    BY DEF Types
  <2>3. k.size \in Nat /\ k.close \in BOOLEAN
    BY RelayAssumption
  <2>4. QED
    BY <2>1, <2>2, <2>3 DEF Frame
<1> DEFINE copy == analyzer = "run" /\ Cost(f) <= bytes
<1>4. /\ half' = [half EXCEPT ![c][d] = [pc |-> "forward", frame |-> f, held |-> copy]]
      /\ bytes' = IF copy THEN bytes - Cost(f) ELSE bytes
      /\ dropped' = [queue_full |-> dropped.queue_full + (IF analyzer = "run" /\ ~copy THEN 1 ELSE 0),
                     analyzer_closed |-> dropped.analyzer_closed + (IF analyzer = "run" THEN 0 ELSE 1)]
  BY <1>1 DEF prepare_record
<1>5. dropped.queue_full \in Nat /\ dropped.analyzer_closed \in Nat
  BY DEF Types
<1>6. /\ dropped' \in [queue_full : Nat, analyzer_closed : Nat]
      /\ Losses(dropped') = Losses(dropped) + (IF copy THEN 0 ELSE 1)
  <2>1. CASE analyzer = "run"
    BY <1>4, <1>5, <2>1 DEF Losses
  <2>2. CASE analyzer # "run"
    BY <1>4, <1>5, <2>2 DEF Losses
  <2>3. QED
    BY <2>1, <2>2
<1>7. copy \in BOOLEAN /\ (copy => Cost(f) <= bytes)
  OBVIOUS
<1> HIDE DEF copy
<1>8. Read(c, d, f, copy)
  BY <1>2, <1>3, <1>4, <1>6, <1>7 DEF Read
<1>9. QED
  BY <1>3, <1>7, <1>8

\* Writing a frame, as Written says.
LEMMA ForwardEffect ==
    ASSUME Types, NEW c \in Conns, NEW d \in Directions, Forward(c, d)
    PROVE  Written(c, d)
<1>1. half[c][d].pc = "forward" /\ conn[c] = "relay" /\ UNCHANGED <<conn, slots, index, taken>>
  BY DEF Forward, At
<1>2. \E v \in {Reading, Ended} : half' = [half EXCEPT ![c][d] = v]
  <2>1. half' = [half EXCEPT ![c][d] = IF half[c][d].frame.close THEN Ended ELSE Reading]
    BY DEF Forward
  <2>2. CASE half[c][d].frame.close
    BY <2>1, <2>2
  <2>3. CASE ~half[c][d].frame.close
    BY <2>1, <2>3
  <2>4. QED
    BY <2>2, <2>3
<1>3. \/ delivered' = delivered
      \/ d = "c2s" /\ delivered' = [delivered EXCEPT ![c] = @ \cup {half[c][d].frame.n}]
  BY DEF Forward
<1>4. half[c][d] \in HalfState /\ half[c][d].held \in BOOLEAN
  BY DEF Types, Halves, HalfState
<1>5. dropped.queue_full \in Nat /\ dropped.analyzer_closed \in Nat
  BY DEF Types
<1>6. \/ /\ half[c][d].held /\ captured' = Append(captured, Record(c, d))
         /\ UNCHANGED <<bytes, dropped>>
      \/ /\ captured' = captured /\ bytes' = bytes + HeldBy(half[c][d])
         /\ dropped' \in [queue_full : Nat, analyzer_closed : Nat]
         /\ Losses(dropped') = Losses(dropped) + (IF half[c][d].held THEN 1 ELSE 0)
  <2> DEFINE fits == half[c][d].held /\ analyzer = "run" /\ Queued < Capacity
             h == half[c][d]
  <2>1. enqueue_record(c, d)
    BY DEF Forward
  <2>2. CASE fits
    BY <2>1, <2>2 DEF enqueue_record
  <2>3. CASE ~fits
    <3>1. /\ captured' = captured /\ bytes' = bytes + HeldBy(h)
          /\ dropped' = [queue_full |-> dropped.queue_full + (IF h.held /\ analyzer = "run" THEN 1 ELSE 0),
                         analyzer_closed |-> dropped.analyzer_closed + (IF h.held /\ analyzer # "run" THEN 1 ELSE 0)]
      BY <2>1, <2>3 DEF enqueue_record
    <3>2. CASE ~h.held
      BY <1>5, <3>1, <3>2 DEF Losses
    <3>3. CASE h.held /\ analyzer = "run"
      BY <1>5, <3>1, <3>3 DEF Losses
    <3>4. CASE h.held /\ analyzer # "run"
      BY <1>5, <3>1, <3>4 DEF Losses
    <3>5. QED
      BY <1>4, <3>2, <3>3, <3>4
  <2>4. QED
    BY <2>2, <2>3
<1>7. QED
  BY <1>1, <1>2, <1>3, <1>6 DEF Written

\* The steps that end a direction or see a shutdown are releases.
LEMMA ReleaseEffect ==
    ASSUME Types, NEW c \in Conns, NEW d \in Directions,
           \/ StreamEnds(c, d) \/ SeeShutdown(c, d) \/ CloseSent(c, d)
           \/ ForwardFails(c, d) \/ SecondExpires(c, d)
    PROVE  Release(c, d)
<1> DEFINE h == half[c][d]
<1>1. h \in HalfState
  BY DEF Types, Halves
<1>2. bytes \in Nat
  BY DEF Types
<1>3. CASE StreamEnds(c, d) \/ CloseSent(c, d)
  <2>1. /\ h.pc \in {"read", "closing"} /\ conn[c] = "relay" /\ half' = [half EXCEPT ![c][d] = Ended]
        /\ bytes' = bytes
        /\ UNCHANGED <<conn, slots, index, delivered, captured, taken, dropped>>
    BY <1>3 DEF StreamEnds, CloseSent, At, capture
  <2>2. HeldBy(h) = 0 /\ ~Kept(h)
    BY <2>1 DEF HeldBy, Kept
  <2>3. bytes' = bytes + HeldBy(h)
    BY <1>2, <2>1, <2>2
  <2>4. QED
    BY <2>1, <2>2, <2>3, StartAndEnd DEF Release
<1>4. CASE SeeShutdown(c, d)
  <2> DEFINE v == [h EXCEPT !.pc = "closing"]
  <2>1. /\ h.pc = "read" /\ conn[c] = "relay" /\ half' = [half EXCEPT ![c][d] = v]
        /\ bytes' = bytes
        /\ UNCHANGED <<conn, slots, index, delivered, captured, taken, dropped>>
    BY <1>4 DEF SeeShutdown, At, capture, Types, Halves
  <2>2. v \in HalfState /\ v.pc = "closing"
    BY <1>1 DEF HalfState
  <2> HIDE DEF v
  <2>3. HeldBy(h) = 0 /\ ~Kept(h) /\ HeldBy(v) = 0 /\ ~Kept(v)
    BY <2>1, <2>2 DEF HeldBy, Kept
  <2>4. bytes' = bytes + HeldBy(h)
    BY <1>2, <2>1, <2>3
  <2>5. QED
    BY <2>1, <2>2, <2>3, <2>4 DEF Release
<1>5. CASE ForwardFails(c, d)
  <2>1. /\ h.pc = "forward" /\ conn[c] = "relay" /\ half' = [half EXCEPT ![c][d] = Cut(h)]
        /\ bytes' = bytes + HeldBy(h)
        /\ UNCHANGED <<conn, slots, index, delivered, captured, taken, dropped>>
    BY <1>5 DEF ForwardFails, At, Types, Halves
  <2>2. QED
    BY <1>1, <2>1, HalfFacts DEF Release
<1>6. CASE SecondExpires(c, d)
  <2>1. /\ conn[c] = "relay" /\ half' = [half EXCEPT ![c][d] = AbortedHalf(h)]
        /\ bytes' = bytes + HeldBy(h)
        /\ UNCHANGED <<conn, slots, index, delivered, captured, taken, dropped>>
    BY <1>6 DEF SecondExpires, Types, Halves
  <2>2. QED
    BY <1>1, <2>1, HalfFacts DEF Release
<1>7. QED
  BY <1>3, <1>4, <1>5, <1>6

\* Every step is one of these.
LEMMA Steps ==
    ASSUME Types, [Next]_vars
    PROVE  \/ Idle
           \/ \E c \in Conns, d \in Directions : Release(c, d)
           \/ \E c \in Conns, d \in Directions, f \in Frame, copy \in BOOLEAN : Read(c, d, f, copy)
           \/ \E c \in Conns, d \in Directions : Written(c, d)
           \/ \E c \in Conns : Connect(c)
           \/ \E c \in Conns : Abort(c)
           \/ Process \/ ProcessFails
<1>1. CASE UNCHANGED vars
  BY <1>1 DEF vars, Idle
<1>2. CASE \E c \in Conns : Accept(c)
  BY <1>2 DEF Accept, capture, Idle
<1>3. CASE \E c \in Conns : SetupFails(c) \/ ConnectionEnds(c)
  BY <1>3 DEF SetupFails, ConnectionEnds, capture, Idle
<1>4. CASE AcceptFails \/ RelayStep
  BY <1>4 DEF AcceptFails, RelayStep, ShutdownSeen, RelayEnds, GraceExpires, capture, Idle
<1>5. CASE AnalyzerEnds \/ Signal \/ MainStep
  BY <1>5 DEF AnalyzerEnds, Signal, MainStep, RelayReturns, AnalyzerReturns, CommandEnds, capture, Idle
<1>6. CASE \E c \in Conns, d \in Directions : Direction(c, d)
  <2>1. PICK c \in Conns, d \in Directions : Direction(c, d)
    BY <1>6
  <2>2. CASE ReadFrame(c, d)
    BY <2>2, ReadEffect
  <2>3. CASE Forward(c, d)
    BY <2>3, ForwardEffect
  <2>4. CASE \/ StreamEnds(c, d) \/ SeeShutdown(c, d) \/ CloseSent(c, d)
             \/ ForwardFails(c, d) \/ SecondExpires(c, d)
    BY <2>4, ReleaseEffect
  <2>5. QED
    BY <2>1, <2>2, <2>3, <2>4 DEF Direction
<1>7. QED
  BY <1>1, <1>2, <1>3, <1>4, <1>5, <1>6 DEF Next, Connection, AnalyzerStep

-----------------------------------------------------------------------------
(* The connections and their permits.                                      *)

ActiveIn(C) == {c \in Conns : C[c] \in {"setup", "relay"}}

SlotsConserved == slots + Cardinality(ActiveIn(conn)) = MaxConnections

\* The places of the command, of its tasks and of the connections.
ControlTypes ==
    /\ main \in {"select", "join", "done"}
    /\ relay \in {"accept", "grace", "abort", "ended", "failed"}
    /\ shutdown \in BOOLEAN /\ analyzer \in {"run", "ended", "failed"}
    /\ conn \in [Conns -> ConnStates] /\ slots \in Nat

\* A connection that opens takes a permit, one that ends gives it back.
LEMMA SlotsStep ==
    ASSUME ControlTypes, SlotsConserved, NEW c \in Conns, NEW v \in ConnStates,
           conn' = [conn EXCEPT ![c] = v],
           slots' = slots - (IF v \in {"setup", "relay"} THEN 1 ELSE 0)
                      + (IF Active(c) THEN 1 ELSE 0)
    PROVE  SlotsConserved'
<1> DEFINE rest == ActiveIn(conn) \ {c}
<1>1. conn \in [Conns -> ConnStates] /\ slots \in Nat
  BY DEF ControlTypes
<1>2. /\ ActiveIn(conn) = IF Active(c) THEN rest \cup {c} ELSE rest
      /\ ActiveIn(conn') = IF v \in {"setup", "relay"} THEN rest \cup {c} ELSE rest
      /\ c \notin rest
  BY <1>1 DEF ActiveIn, Active
<1>3. IsFiniteSet(rest) /\ Cardinality(rest) \in Nat
  <2>1. rest \in SUBSET Conns
    BY DEF ActiveIn
  <2>2. QED
    BY <2>1, RelayAssumption, FS_Subset, FS_CardinalityType
<1> HIDE DEF rest
<1>4. Cardinality(rest \cup {c}) = Cardinality(rest) + 1
  BY <1>2, <1>3, FS_AddElement
<1>5. SlotsConserved' <=> slots' + Cardinality(ActiveIn(conn')) = MaxConnections
  BY DEF SlotsConserved, ActiveIn
<1>6. QED
  BY <1>1, <1>2, <1>3, <1>4, <1>5 DEF SlotsConserved

\* Every step keeps these types and the connection permits.
LEMMA ControlKept ==
    ASSUME Types, SlotsConserved, [Next]_vars
    PROVE  ControlTypes' /\ SlotsConserved'
<1>t. ControlTypes
  BY DEF Types, ControlTypes
<1>0. conn \in [Conns -> ConnStates] /\ slots \in Nat
  BY DEF Types
<1>1. CASE UNCHANGED <<conn, slots>>
  <2>1. SlotsConserved'
    BY <1>1 DEF SlotsConserved, ActiveIn
  <2>2. ControlTypes'
    <3>1. CASE \/ UNCHANGED vars \/ AcceptFails \/ RelayStep \/ AnalyzerStep
               \/ Signal \/ MainStep
      BY <1>1, <1>t, <3>1 DEF ControlTypes, vars, AcceptFails, RelayStep, ShutdownSeen, RelayEnds,
           GraceExpires, AnalyzerStep, Process, ProcessFails, AnalyzerEnds, Signal, MainStep,
           RelayReturns, AnalyzerReturns, CommandEnds, process
    <3>2. CASE \E c \in Conns : Accept(c) \/ Connect(c) \/ SetupFails(c) \/ ConnectionEnds(c) \/ Abort(c)
      BY <1>1, <1>t, <3>2 DEF ControlTypes, Accept, Connect, SetupFails, ConnectionEnds, Abort, process
    <3>3. CASE \E c \in Conns, d \in Directions : Direction(c, d)
      BY <1>1, <1>t, <3>3 DEF ControlTypes, Direction, ReadFrame, StreamEnds, SeeShutdown, CloseSent,
           Forward, ForwardFails, SecondExpires, process
    <3>4. QED
      BY <3>1, <3>2, <3>3 DEF Next, Connection
  <2>3. QED
    BY <2>1, <2>2
<1>2. ASSUME NEW c \in Conns, NEW v \in ConnStates,
             conn' = [conn EXCEPT ![c] = v], slots' \in Nat,
             slots' = slots - (IF v \in {"setup", "relay"} THEN 1 ELSE 0) + (IF Active(c) THEN 1 ELSE 0),
             UNCHANGED process
      PROVE  ControlTypes' /\ SlotsConserved'
  <2>1. SlotsConserved'
    BY <1>t, <1>2, SlotsStep
  <2>2. conn' \in [Conns -> ConnStates]
    BY <1>0, <1>2
  <2>3. QED
    BY <1>t, <1>2, <2>1, <2>2 DEF ControlTypes, process
<1>3. ASSUME NEW c \in Conns, Accept(c) PROVE ControlTypes' /\ SlotsConserved'
  <2>1. ~Active(c) /\ UNCHANGED process
    BY <1>3 DEF Accept, Active
  <2>2. CASE slots > 0
    <3>1. conn' = [conn EXCEPT ![c] = "setup"] /\ slots' = slots - 1
      BY <1>3, <2>2 DEF Accept
    <3>2. slots' \in Nat /\ slots' = slots - 1 + 0
      BY <1>0, <2>2, <3>1
    <3>3. QED
      BY <1>2, <2>1, <3>1, <3>2 DEF ConnStates
  <2>3. CASE ~(slots > 0)
    <3>1. conn' = [conn EXCEPT ![c] = "rejected"] /\ slots' = slots
      BY <1>3, <2>3 DEF Accept
    <3>2. slots' \in Nat /\ slots' = slots - 0 + 0
      BY <1>0, <3>1
    <3>3. QED
      BY <1>2, <2>1, <3>1, <3>2 DEF ConnStates
  <2>4. QED
    BY <2>2, <2>3
<1>4. ASSUME NEW c \in Conns, SetupFails(c) \/ ConnectionEnds(c) \/ Abort(c)
      PROVE  ControlTypes' /\ SlotsConserved'
  <2>1. /\ Active(c) /\ conn' = [conn EXCEPT ![c] = "ended"] /\ slots' = slots + 1
        /\ UNCHANGED process
    BY <1>4 DEF SetupFails, ConnectionEnds, Abort, Active
  <2>2. slots' \in Nat /\ slots' = slots - 0 + 1
    BY <1>0, <2>1
  <2>3. QED
    BY <1>2, <2>1, <2>2 DEF ConnStates
<1>5. ASSUME NEW c \in Conns, Connect(c) PROVE ControlTypes' /\ SlotsConserved'
  <2>1. /\ Active(c) /\ conn' = [conn EXCEPT ![c] = "relay"] /\ slots' = slots
        /\ UNCHANGED process
    BY <1>5 DEF Connect, Active
  <2>2. slots' \in Nat /\ slots' = slots - 1 + 1
    BY <1>0, <2>1
  <2>3. QED
    BY <1>2, <2>1, <2>2 DEF ConnStates
<1>6. CASE \E c \in Conns, d \in Directions : Direction(c, d)
  BY <1>1, <1>6 DEF Direction, ReadFrame, StreamEnds, SeeShutdown, CloseSent, Forward,
       ForwardFails, SecondExpires
<1>7. CASE \/ UNCHANGED vars \/ AcceptFails \/ RelayStep \/ AnalyzerStep \/ Signal \/ MainStep
  BY <1>1, <1>7 DEF vars, AcceptFails, RelayStep, ShutdownSeen, RelayEnds, GraceExpires, AnalyzerStep,
       Process, ProcessFails, AnalyzerEnds, Signal, MainStep, RelayReturns, AnalyzerReturns, CommandEnds
<1>8. QED
  BY <1>3, <1>4, <1>5, <1>6, <1>7 DEF Next, Connection

-----------------------------------------------------------------------------
(* The bytes of the capture budget.                                        *)

BytesConserved == bytes + InQueue(captured, taken) + Held(half) = ByteBudget

\* The frames and their copies.
FrameTypes ==
    /\ half \in Halves
    /\ index \in [Conns -> Nat \ {0}] /\ delivered \in [Conns -> SUBSET Nat]
    /\ bytes \in Nat
    /\ captured \in Seq(Records) /\ taken \in 0..Len(captured)
    /\ dropped \in [queue_full : Nat, analyzer_closed : Nat]

\* The record of a frame in hand.
LEMMA RecordType ==
    ASSUME FrameTypes, NEW c \in Conns, NEW d \in Directions
    PROVE  /\ Record(c, d) \in Records /\ Record(c, d).frame = half[c][d].frame
           /\ half[c][d] \in HalfState
<1>1. half[c][d] \in HalfState
  BY DEF FrameTypes, Halves
<1>2. QED
  BY <1>1 DEF Record, Records, HalfState

\* A connection whose two directions hold nothing any more.
LEMMA ConnEmptied ==
    ASSUME NEW H \in Halves, NEW G \in Halves, NEW c \in Conns,
           \A x \in Conns \ {c}, y \in Directions : G[x][y] = H[x][y],
           HeldBy(G[c]["c2s"]) = 0, HeldBy(G[c]["s2c"]) = 0,
           HeldBy(H[c]["c2s"]) \in Nat, HeldBy(H[c]["s2c"]) \in Nat
    PROVE  Held(G) = Held(H) - HeldBy(H[c]["c2s"]) - HeldBy(H[c]["s2c"])
<1>1. "c2s" \in Directions /\ "s2c" \in Directions
      /\ \A d \in Directions : d \in {"c2s", "s2c"}
  BY DEF Directions
<1> DEFINE M == [x \in Conns |-> [y \in Directions |->
                    IF x = c /\ y = "c2s" THEN G[x][y] ELSE H[x][y]]]
<1>2. M \in Halves
  BY DEF Halves
<1>3. /\ M[c]["c2s"] = G[c]["c2s"] /\ M[c]["s2c"] = H[c]["s2c"]
  BY <1>1
<1>4. \A x \in Conns, y \in Directions : <<x, y>> # <<c, "c2s">> => M[x][y] = H[x][y]
  OBVIOUS
<1>5. \A x \in Conns, y \in Directions : <<x, y>> # <<c, "s2c">> => G[x][y] = M[x][y]
  BY <1>1
<1> HIDE DEF M
<1>6. Held(M) = Held(H) - HeldBy(H[c]["c2s"]) + HeldBy(M[c]["c2s"])
  BY <1>1, <1>2, <1>4, HeldChanges
<1>7. Held(G) = Held(M) - HeldBy(M[c]["s2c"]) + HeldBy(G[c]["s2c"])
  BY <1>1, <1>2, <1>5, HeldChanges
<1>8. Held(H) \in Nat
  BY HeldType
<1>9. QED
  BY <1>3, <1>6, <1>7, <1>8

\* An aborted connection gives back what both of its directions hold.
LEMMA AbortEffect ==
    ASSUME NEW H \in Halves, NEW c \in Conns, NEW G,
           G = [H EXCEPT ![c] = [d \in Directions |-> AbortedHalf(H[c][d])]]
    PROVE  /\ G \in Halves
           /\ Held(G) = Held(H) - HeldBy(H[c]["c2s"]) - HeldBy(H[c]["s2c"])
           /\ \A x \in Conns, y \in Directions :
                 /\ G[x][y] = IF x = c THEN AbortedHalf(H[x][y]) ELSE H[x][y]
                 /\ Kept(G[x][y]) <=> Kept(H[x][y])
           /\ HeldBy(H[c]["c2s"]) \in Nat /\ HeldBy(H[c]["s2c"]) \in Nat
<1>1. "c2s" \in Directions /\ "s2c" \in Directions
      /\ \A d \in Directions : d \in {"c2s", "s2c"}
  BY DEF Directions
<1>2. \A x \in Conns, y \in Directions : H[x][y] \in HalfState
  BY DEF Halves
<1>3. \A x \in Conns, y \in Directions :
         G[x][y] = IF x = c THEN AbortedHalf(H[x][y]) ELSE H[x][y]
  BY DEF Halves
<1>4. \A x \in Conns, y \in Directions : AbortedHalf(H[x][y]) \in HalfState
  BY <1>2, HalfFacts
<1>5. G \in Halves
  BY <1>4 DEF Halves
<1>6. \A x \in Conns, y \in Directions : Kept(G[x][y]) <=> Kept(H[x][y])
  BY <1>2, <1>3, HalfFacts
<1>7. /\ H[c]["c2s"] \in HalfState /\ H[c]["s2c"] \in HalfState
      /\ G[c]["c2s"] = AbortedHalf(H[c]["c2s"]) /\ G[c]["s2c"] = AbortedHalf(H[c]["s2c"])
  BY <1>1, <1>2, <1>3
<1>8. /\ HeldBy(G[c]["c2s"]) = 0 /\ HeldBy(G[c]["s2c"]) = 0
      /\ HeldBy(H[c]["c2s"]) \in Nat /\ HeldBy(H[c]["s2c"]) \in Nat
  BY <1>7, HalfFacts
<1>9. \A x \in Conns \ {c}, y \in Directions : G[x][y] = H[x][y]
  BY <1>3
<1>10. Held(G) = Held(H) - HeldBy(H[c]["c2s"]) - HeldBy(H[c]["s2c"])
  BY <1>5, <1>8, <1>9, ConnEmptied
<1>11. QED
  BY <1>3, <1>5, <1>6, <1>8, <1>10

\* A connection that is set up starts with empty hands.
LEMMA ConnectEffect ==
    ASSUME Types, NotBegun, NEW c \in Conns, Connect(c)
    PROVE  /\ half' \in Halves /\ Held(half') = Held(half)
           /\ \A x \in Conns, y \in Directions :
                 /\ half'[x][y] = IF x = c THEN Reading ELSE half[x][y]
                 /\ HeldBy(half'[x][y]) = HeldBy(half[x][y])
                 /\ Kept(half'[x][y]) <=> Kept(half[x][y])
           /\ UNCHANGED <<index, delivered, bytes, captured, taken, dropped>>
<1>1. half \in Halves /\ half' = [half EXCEPT ![c] = [d \in Directions |-> Reading]]
      /\ UNCHANGED <<index, delivered, bytes, captured, taken, dropped>>
  BY DEF Types, Connect, capture
<1>2. \A d \in Directions : half[c][d] = Ended
  BY DEF NotBegun, Connect
<1>3. half' \in Halves
  BY <1>1, StartAndEnd DEF Halves
<1>4. \A x \in Conns, y \in Directions : half'[x][y] = IF x = c THEN Reading ELSE half[x][y]
  BY <1>1 DEF Halves
<1>5. \A x \in Conns, y \in Directions :
         /\ HeldBy(half'[x][y]) = HeldBy(half[x][y])
         /\ Kept(half'[x][y]) <=> Kept(half[x][y])
  BY <1>2, <1>4, StartAndEnd
<1>6. [p \in Conns \X Directions |-> HeldBy(half'[p[1]][p[2]])]
        = [p \in Conns \X Directions |-> HeldBy(half[p[1]][p[2]])]
  BY <1>5
<1>7. QED
  BY <1>1, <1>3, <1>4, <1>5, <1>6 DEF Held

\* Every step keeps the types of frames and copies and the bytes of the budget.
LEMMA FramesKept ==
    ASSUME Types, NotBegun, BytesConserved, [Next]_vars
    PROVE  FrameTypes' /\ BytesConserved'
<1>t. FrameTypes
  BY DEF Types, FrameTypes
<1>h. /\ half \in Halves /\ bytes \in Nat /\ Held(half) \in Nat
      /\ InQueue(captured, taken) \in Nat
  BY <1>t, HeldType, QueueFacts DEF FrameTypes
<1>b. bytes + InQueue(captured, taken) + Held(half) = ByteBudget
  BY DEF BytesConserved
<1>c. BytesConserved' <=> bytes' + InQueue(captured', taken') + Held(half') = ByteBudget
  BY DEF BytesConserved, InQueue, Held
<1>1. CASE Idle
  BY <1>1, <1>t, <1>b, <1>c DEF Idle, FrameTypes
<1>2. ASSUME NEW c \in Conns, NEW d \in Directions, Release(c, d)
      PROVE  FrameTypes' /\ BytesConserved'
  <2>1. PICK v \in HalfState : half' = [half EXCEPT ![c][d] = v] /\ HeldBy(v) = 0
    BY <1>2 DEF Release
  <2>2. /\ half' \in Halves /\ half'[c][d] = v
        /\ \A x \in Conns, y \in Directions : <<x, y>> # <<c, d>> => half'[x][y] = half[x][y]
    BY <1>h, <2>1 DEF Halves
  <2>3. Held(half') = Held(half) - HeldBy(half[c][d]) + HeldBy(half'[c][d])
    BY <1>h, <2>2, HeldChanges
  <2>4. HeldBy(half[c][d]) \in Nat
    BY <1>t, RecordType, HalfFacts
  <2>5. bytes' = bytes + HeldBy(half[c][d])
        /\ UNCHANGED <<index, delivered, captured, taken, dropped>>
    BY <1>2 DEF Release
  <2>6. bytes' \in Nat
    BY <1>h, <2>4, <2>5
  <2>7. FrameTypes'
    BY <1>t, <2>2, <2>5, <2>6 DEF FrameTypes
  <2>8. bytes' + InQueue(captured, taken) + Held(half') = ByteBudget
    BY <1>h, <1>b, <2>1, <2>2, <2>3, <2>4, <2>5
  <2>9. QED
    BY <1>c, <2>5, <2>7, <2>8
<1>3. ASSUME NEW c \in Conns, NEW d \in Directions, NEW f \in Frame, NEW copy \in BOOLEAN,
             Read(c, d, f, copy)
      PROVE  FrameTypes' /\ BytesConserved'
  <2> DEFINE v == [pc |-> "forward", frame |-> f, held |-> copy]
  <2>1. v \in HalfState /\ v.pc = "forward" /\ v.held = copy /\ v.frame = f
    BY DEF HalfState
  <2>2. half' = [half EXCEPT ![c][d] = v]
    BY <1>3 DEF Read
  <2> HIDE DEF v
  <2>3. /\ half' \in Halves /\ half'[c][d] = v
        /\ \A x \in Conns, y \in Directions : <<x, y>> # <<c, d>> => half'[x][y] = half[x][y]
    BY <1>h, <2>1, <2>2 DEF Halves
  <2>4. Held(half') = Held(half) - HeldBy(half[c][d]) + HeldBy(half'[c][d])
    BY <1>h, <2>3, HeldChanges
  <2>5. HeldBy(half[c][d]) = 0 /\ HeldBy(v) = IF copy THEN Cost(f) ELSE 0
    BY <1>3, <2>1 DEF Read, HeldBy
  <2>6. Cost(f) \in Nat
    BY CostType
  <2>7. /\ copy => Cost(f) <= bytes
        /\ bytes' = IF copy THEN bytes - Cost(f) ELSE bytes
        /\ index' = [index EXCEPT ![c] = @ + 1]
        /\ dropped' \in [queue_full : Nat, analyzer_closed : Nat]
        /\ UNCHANGED <<delivered, captured, taken>>
    BY <1>3 DEF Read
  <2>8. bytes' \in Nat
    BY <1>h, <2>6, <2>7
  <2>9. index' \in [Conns -> Nat \ {0}]
    BY <1>t, <2>7 DEF FrameTypes
  <2>10. FrameTypes'
    BY <1>t, <2>3, <2>7, <2>8, <2>9 DEF FrameTypes
  <2>11. bytes' + InQueue(captured, taken) + Held(half') = ByteBudget
    BY <1>h, <1>b, <2>3, <2>4, <2>5, <2>6, <2>7
  <2>12. QED
    BY <1>c, <2>7, <2>10, <2>11
<1>4. ASSUME NEW c \in Conns, NEW d \in Directions, Written(c, d)
      PROVE  FrameTypes' /\ BytesConserved'
  <2> DEFINE h == half[c][d]
  <2>0. h \in HalfState /\ HeldBy(h) \in Nat /\ h.frame.n \in Nat
    BY <1>t, RecordType, HalfFacts DEF HalfState, Frame
  <2>1. PICK v \in {Reading, Ended} : half' = [half EXCEPT ![c][d] = v]
    BY <1>4 DEF Written
  <2>2. v \in HalfState /\ HeldBy(v) = 0
    BY StartAndEnd
  <2>3. /\ half' \in Halves /\ half'[c][d] = v
        /\ \A x \in Conns, y \in Directions : <<x, y>> # <<c, d>> => half'[x][y] = half[x][y]
    BY <1>h, <2>1, <2>2 DEF Halves
  <2>4. Held(half') = Held(half) - HeldBy(h) + HeldBy(half'[c][d])
    BY <1>h, <2>3, HeldChanges
  <2>5. delivered' \in [Conns -> SUBSET Nat]
    <3>1. delivered \in [Conns -> SUBSET Nat] /\ half[c][d].frame.n \in Nat
      BY <1>t, <2>0 DEF FrameTypes
    <3>2. CASE delivered' = delivered
      BY <3>1, <3>2
    <3>3. CASE delivered' = [delivered EXCEPT ![c] = @ \cup {half[c][d].frame.n}]
      BY <3>1, <3>3
    <3>4. QED
      BY <1>4, <3>2, <3>3 DEF Written
  <2>6. UNCHANGED <<index, taken>>
    BY <1>4 DEF Written
  <2>7. CASE h.held /\ captured' = Append(captured, Record(c, d)) /\ UNCHANGED <<bytes, dropped>>
    <3>1. Record(c, d) \in Records /\ Record(c, d).frame = h.frame
      BY <1>t, RecordType
    <3>2. HeldBy(h) = Cost(Record(c, d).frame)
      BY <1>4, <2>7, <3>1 DEF Written, HeldBy
    <3>3. captured \in Seq(Records) /\ taken \in 0..Len(captured)
      BY <1>t DEF FrameTypes
    <3>4. captured' \in Seq(Records) /\ taken' \in 0..Len(captured')
      <4>1. Len(captured') = Len(captured) + 1 /\ captured' \in Seq(Records)
        BY <2>7, <3>1, <3>3
      <4>2. QED
        BY <2>6, <3>3, <4>1
    <3>5. InQueue(captured', taken) = InQueue(captured, taken) + HeldBy(h)
      BY <2>7, <3>1, <3>2, <3>3, QueueFacts
    <3>6. FrameTypes'
      BY <1>t, <2>3, <2>5, <2>6, <2>7, <3>4 DEF FrameTypes
    <3>7. bytes' + InQueue(captured', taken') + Held(half') = ByteBudget
      BY <1>h, <1>b, <2>0, <2>2, <2>3, <2>4, <2>6, <2>7, <3>5
    <3>8. QED
      BY <1>c, <3>6, <3>7
  <2>8. CASE /\ captured' = captured /\ bytes' = bytes + HeldBy(h)
             /\ dropped' \in [queue_full : Nat, analyzer_closed : Nat]
    <3>1. bytes' \in Nat
      BY <1>h, <2>0, <2>8
    <3>2. FrameTypes'
      BY <1>t, <2>3, <2>5, <2>6, <2>8, <3>1 DEF FrameTypes
    <3>3. bytes' + InQueue(captured', taken') + Held(half') = ByteBudget
      BY <1>h, <1>b, <2>0, <2>2, <2>3, <2>4, <2>6, <2>8
    <3>4. QED
      BY <1>c, <3>2, <3>3
  <2>9. QED
    BY <1>4, <2>7, <2>8 DEF Written
<1>5. ASSUME NEW c \in Conns, Connect(c) PROVE FrameTypes' /\ BytesConserved'
  <2>1. /\ half' \in Halves /\ Held(half') = Held(half)
        /\ UNCHANGED <<index, delivered, bytes, captured, taken, dropped>>
    BY <1>5, ConnectEffect
  <2>2. QED
    BY <1>t, <1>b, <1>c, <2>1 DEF FrameTypes
<1>6. ASSUME NEW c \in Conns, Abort(c) PROVE FrameTypes' /\ BytesConserved'
  <2>1. /\ half' = [half EXCEPT ![c] = [d \in Directions |-> AbortedHalf(half[c][d])]]
        /\ bytes' = bytes + HeldBy(half[c]["c2s"]) + HeldBy(half[c]["s2c"])
        /\ UNCHANGED <<index, delivered, captured, taken, dropped>>
    BY <1>6 DEF Abort
  <2>2. /\ half' \in Halves
        /\ Held(half') = Held(half) - HeldBy(half[c]["c2s"]) - HeldBy(half[c]["s2c"])
        /\ HeldBy(half[c]["c2s"]) \in Nat /\ HeldBy(half[c]["s2c"]) \in Nat
    BY <1>h, <2>1, AbortEffect
  <2>3. bytes' \in Nat
    BY <1>h, <2>1, <2>2
  <2>4. FrameTypes'
    BY <1>t, <2>1, <2>2, <2>3 DEF FrameTypes
  <2>5. bytes' + InQueue(captured, taken) + Held(half') = ByteBudget
    BY <1>h, <1>b, <2>1, <2>2
  <2>6. QED
    BY <1>c, <2>1, <2>4, <2>5
<1>7. CASE Process \/ ProcessFails
  <2>1. captured \in Seq(Records) /\ taken \in 0..Len(captured) /\ Len(captured) \in Nat
    BY <1>t DEF FrameTypes
  <2>2. UNCHANGED <<half, index, delivered, captured, dropped>> /\ taken < Len(captured)
    BY <1>7, <2>1 DEF Process, ProcessFails, Queued
  <2>3. QueuedBytes = InQueue(captured, taken)
    BY DEF QueuedBytes, InQueue
  <2>4. CASE Process
    <3>1. taken' = taken + 1 /\ bytes' = bytes + Cost(captured[taken + 1].frame)
      BY <2>4 DEF Process
    <3>2. InQueue(captured, taken + 1) = InQueue(captured, taken) - Cost(captured[taken + 1].frame)
      BY <2>1, <2>2, QueueFacts
    <3>3. Cost(captured[taken + 1].frame) \in Nat
      <4>1. captured[taken + 1] \in Records
        BY <2>1, <2>2
      <4>2. QED
        BY <4>1, CostType DEF Records
    <3>4. bytes' \in Nat /\ taken' \in 0..Len(captured)
      BY <1>h, <2>1, <2>2, <3>1, <3>3
    <3>5. FrameTypes'
      BY <1>t, <2>2, <3>4 DEF FrameTypes
    <3>6. bytes' + InQueue(captured, taken') + Held(half) = ByteBudget
      BY <1>h, <1>b, <3>1, <3>2, <3>3
    <3>7. QED
      BY <1>c, <2>2, <3>5, <3>6
  <2>5. CASE ProcessFails
    <3>1. taken' = Len(captured) /\ bytes' = bytes + InQueue(captured, taken)
      BY <2>3, <2>5 DEF ProcessFails
    <3>2. InQueue(captured, Len(captured)) = 0
      BY <2>1, QueueFacts
    <3>3. bytes' \in Nat /\ taken' \in 0..Len(captured)
      BY <1>h, <2>1, <3>1
    <3>4. FrameTypes'
      BY <1>t, <2>2, <3>3 DEF FrameTypes
    <3>5. bytes' + InQueue(captured, taken') + Held(half) = ByteBudget
      BY <1>h, <1>b, <3>1, <3>2
    <3>6. QED
      BY <1>c, <2>2, <3>4, <3>5
  <2>6. QED
    BY <1>7, <2>4, <2>5
<1>8. QED
  BY <1>1, <1>2, <1>3, <1>4, <1>5, <1>6, <1>7, Steps

-----------------------------------------------------------------------------
(* Every frame is accounted for.                                           *)

ReadOf(I) == Total([c \in Conns |-> I[c] - 1])

Accounted ==
    ReadOf(index) = Len(captured) + Losses(dropped) + Cardinality(KeptIn(half))

\* What Accounted says is what the property says.
LEMMA AccountedMeans == ASSUME Types PROVE Accounted <=> EveryFrameAccounted
<1>1. Unwritten = KeptIn(half)
  BY DEF Unwritten, KeptIn, Kept
<1>2. /\ Len(captured) \in Nat /\ Cardinality(KeptIn(half)) \in Nat
      /\ dropped.queue_full \in Nat /\ dropped.analyzer_closed \in Nat
  BY HeldType DEF Types
<1>3. QED
  BY <1>1, <1>2 DEF Accounted, EveryFrameAccounted, FramesRead, ReadOf, Losses

\* One more frame read.
LEMMA ReadOfAdds ==
    ASSUME NEW I \in [Conns -> Nat \ {0}], NEW c \in Conns,
           NEW J \in [Conns -> Nat \ {0}], J[c] = I[c] + 1, \A x \in Conns \ {c} : J[x] = I[x]
    PROVE  ReadOf(J) = ReadOf(I) + 1 /\ ReadOf(I) \in Nat
<1> DEFINE f == [x \in Conns |-> I[x] - 1]
           g == [x \in Conns |-> J[x] - 1]
<1>1. f \in [Conns -> Nat] /\ g \in [Conns -> Nat] /\ g[c] = f[c] + 1
      /\ \A x \in Conns \ {c} : g[x] = f[x]
  OBVIOUS
<1>2. ReadOf(I) = Total(f) /\ ReadOf(J) = Total(g)
  BY DEF ReadOf
<1> HIDE DEF f, g
<1>3. IsFiniteSet(Conns)
  BY Ends
<1>4. Total(g) = Total(f) - f[c] + g[c]
  BY <1>1, <1>3, TotalChanges
<1>5. Total(f) \in Nat /\ f[c] \in Nat
  BY <1>1, <1>3, UnitsFinite
<1>6. QED
  BY <1>1, <1>2, <1>4, <1>5

\* A step that keeps frames, records and copies as they are counted.
LEMMA SameCount ==
    ASSUME Accounted, UNCHANGED <<index, captured, dropped>>,
           \A x \in Conns, y \in Directions : Kept(half'[x][y]) <=> Kept(half[x][y])
    PROVE  Accounted'
<1>1. KeptIn(half') = KeptIn(half)
  BY DEF KeptIn
<1>2. Accounted' <=> ReadOf(index') = Len(captured') + Losses(dropped') + Cardinality(KeptIn(half'))
  BY DEF Accounted, ReadOf, Losses, KeptIn, Kept
<1>3. QED
  BY <1>1, <1>2 DEF Accounted

\* Every step accounts for the frame it reads or writes.
LEMMA AccountKept ==
    ASSUME Types, NotBegun, Accounted, [Next]_vars
    PROVE  Accounted'
<1>h. /\ half \in Halves /\ index \in [Conns -> Nat \ {0}] /\ captured \in Seq(Records)
      /\ dropped.queue_full \in Nat /\ dropped.analyzer_closed \in Nat
  BY DEF Types
<1>n. /\ Len(captured) \in Nat /\ Losses(dropped) \in Nat /\ Cardinality(KeptIn(half)) \in Nat
      /\ \A x \in Conns, y \in Directions : half[x][y] \in HalfState
  BY <1>h, HeldType DEF Losses, Halves
<1>a. ReadOf(index) = Len(captured) + Losses(dropped) + Cardinality(KeptIn(half))
  BY DEF Accounted
<1>c. Accounted' <=> ReadOf(index') = Len(captured') + Losses(dropped') + Cardinality(KeptIn(half'))
  BY DEF Accounted, ReadOf, Losses, KeptIn, Kept
<1>1. CASE Idle
  BY <1>1, SameCount DEF Idle
<1>2. ASSUME NEW c \in Conns, NEW d \in Directions, Release(c, d) PROVE Accounted'
  <2>1. PICK v \in HalfState : half' = [half EXCEPT ![c][d] = v] /\ (Kept(v) <=> Kept(half[c][d]))
    BY <1>2 DEF Release
  <2>2. \A x \in Conns, y \in Directions :
           half'[x][y] = IF x = c /\ y = d THEN v ELSE half[x][y]
    BY <1>h, <2>1 DEF Halves
  <2>3. \A x \in Conns, y \in Directions : Kept(half'[x][y]) <=> Kept(half[x][y])
    BY <2>1, <2>2
  <2>4. QED
    BY <1>2, <2>3, SameCount DEF Release
<1>3. ASSUME NEW c \in Conns, NEW d \in Directions, NEW f \in Frame, NEW copy \in BOOLEAN,
             Read(c, d, f, copy)
      PROVE  Accounted'
  <2> DEFINE v == [pc |-> "forward", frame |-> f, held |-> copy]
  <2>1. v \in HalfState /\ v.pc = "forward" /\ v.held = copy
    BY DEF HalfState
  <2>2. half' = [half EXCEPT ![c][d] = v]
    BY <1>3 DEF Read
  <2> HIDE DEF v
  <2>3. /\ half' \in Halves /\ half'[c][d] = v
        /\ \A x \in Conns, y \in Directions : <<x, y>> # <<c, d>> => half'[x][y] = half[x][y]
    BY <1>h, <2>1, <2>2 DEF Halves
  <2>4. ~Kept(half[c][d]) /\ (Kept(v) <=> copy)
    BY <1>3, <2>1 DEF Read, Kept
  <2>5. Cardinality(KeptIn(half')) = Cardinality(KeptIn(half))
          - (IF Kept(half[c][d]) THEN 1 ELSE 0) + (IF Kept(half'[c][d]) THEN 1 ELSE 0)
    BY <1>h, <2>3, HeldChanges
  <2>6. Cardinality(KeptIn(half')) = Cardinality(KeptIn(half)) + (IF copy THEN 1 ELSE 0)
    BY <1>n, <2>3, <2>4, <2>5
  <2>7. /\ index' = [index EXCEPT ![c] = @ + 1] /\ captured' = captured
        /\ Losses(dropped') = Losses(dropped) + (IF copy THEN 0 ELSE 1)
    BY <1>3 DEF Read
  <2>8. ReadOf(index') = ReadOf(index) + 1
    <3>1. /\ index' \in [Conns -> Nat \ {0}] /\ index'[c] = index[c] + 1
          /\ \A x \in Conns \ {c} : index'[x] = index[x]
      BY <1>h, <2>7
    <3>2. QED
      BY <1>h, <3>1, ReadOfAdds
  <2>9. QED
    BY <1>n, <1>a, <1>c, <2>6, <2>7, <2>8
<1>4. ASSUME NEW c \in Conns, NEW d \in Directions, Written(c, d) PROVE Accounted'
  <2> DEFINE h == half[c][d]
  <2>1. PICK v \in {Reading, Ended} : half' = [half EXCEPT ![c][d] = v]
    BY <1>4 DEF Written
  <2>2. v \in HalfState /\ ~Kept(v)
    BY StartAndEnd
  <2>3. /\ half' \in Halves /\ half'[c][d] = v
        /\ \A x \in Conns, y \in Directions : <<x, y>> # <<c, d>> => half'[x][y] = half[x][y]
    BY <1>h, <2>1, <2>2 DEF Halves
  <2>4. Cardinality(KeptIn(half')) = Cardinality(KeptIn(half))
          - (IF Kept(h) THEN 1 ELSE 0) + (IF Kept(half'[c][d]) THEN 1 ELSE 0)
    BY <1>h, <2>3, HeldChanges
  <2>5. h.held \in BOOLEAN /\ (Kept(h) <=> h.held)
    BY <1>4, <1>n DEF Written, Kept, HalfState
  <2>6. Cardinality(KeptIn(half')) = Cardinality(KeptIn(half)) - (IF h.held THEN 1 ELSE 0)
    BY <1>n, <2>2, <2>3, <2>4, <2>5
  <2>7. Len(captured') + Losses(dropped')
          = Len(captured) + Losses(dropped) + (IF h.held THEN 1 ELSE 0)
    <3>1. CASE h.held /\ captured' = Append(captured, Record(c, d)) /\ UNCHANGED <<bytes, dropped>>
      <4>1. Len(captured') = Len(captured) + 1
        BY <1>h, <3>1
      <4>2. QED
        BY <1>n, <3>1, <4>1
    <3>2. CASE /\ captured' = captured
               /\ Losses(dropped') = Losses(dropped) + (IF half[c][d].held THEN 1 ELSE 0)
      BY <1>n, <3>2
    <3>3. QED
      BY <1>4, <3>1, <3>2 DEF Written
  <2>8. index' = index
    BY <1>4 DEF Written
  <2>9. QED
    <3>1. ReadOf(index) = Len(captured') + Losses(dropped') + Cardinality(KeptIn(half'))
      BY <1>n, <1>a, <2>6, <2>7
    <3>2. QED
      BY <1>c, <2>8, <3>1
<1>5. ASSUME NEW c \in Conns, Connect(c) PROVE Accounted'
  <2>1. /\ UNCHANGED <<index, captured, dropped>>
        /\ \A x \in Conns, y \in Directions : Kept(half'[x][y]) <=> Kept(half[x][y])
    BY <1>5, ConnectEffect
  <2>2. QED
    BY <2>1, SameCount
<1>6. ASSUME NEW c \in Conns, Abort(c) PROVE Accounted'
  <2>1. /\ half' = [half EXCEPT ![c] = [d \in Directions |-> AbortedHalf(half[c][d])]]
        /\ UNCHANGED <<index, captured, dropped>>
    BY <1>6 DEF Abort
  <2>2. \A x \in Conns, y \in Directions : Kept(half'[x][y]) <=> Kept(half[x][y])
    BY <1>h, <2>1, AbortEffect
  <2>3. QED
    BY <2>1, <2>2, SameCount
<1>7. CASE Process \/ ProcessFails
  <2>1. UNCHANGED <<half, index, captured, dropped>>
    BY <1>7 DEF Process, ProcessFails
  <2>2. QED
    BY <2>1, SameCount
<1>8. QED
  BY <1>1, <1>2, <1>3, <1>4, <1>5, <1>6, <1>7, Steps

-----------------------------------------------------------------------------
(* The order of the capture.                                               *)

\* A direction begins only when its connection is set up.
LEMMA NotBegunKept ==
    ASSUME Types, NotBegun, [Next]_vars
    PROVE  NotBegun'
<1>h. half \in Halves /\ conn \in [Conns -> ConnStates]
  BY DEF Types
<1>1. ASSUME \A c \in Conns : conn'[c] \in {"new", "setup"} => conn[c] \in {"new", "setup"},
             \A c \in Conns, d \in Directions :
                conn'[c] \in {"new", "setup"} => half'[c][d] = half[c][d]
      PROVE  NotBegun'
  BY <1>1 DEF NotBegun, Ended, NoFrame
<1>2. CASE UNCHANGED <<conn, half>>
  BY <1>1, <1>2
<1>3. ASSUME NEW c \in Conns, Accept(c) \/ SetupFails(c) \/ ConnectionEnds(c) PROVE NotBegun'
  <2>1. half' = half
    BY <1>3 DEF Accept, SetupFails, ConnectionEnds
  <2>2. \A x \in Conns : conn'[x] \in {"new", "setup"} => conn[x] \in {"new", "setup"}
    BY <1>h, <1>3 DEF Accept, SetupFails, ConnectionEnds
  <2>3. QED
    BY <1>1, <2>1, <2>2
<1>4. ASSUME NEW c \in Conns, Connect(c) \/ Abort(c) PROVE NotBegun'
  <2>1. /\ \A x \in Conns : conn'[x] = IF x = c THEN conn'[c] ELSE conn[x]
        /\ conn'[c] \in {"relay", "ended"}
        /\ \A x \in Conns \ {c} : half'[x] = half[x]
    BY <1>h, <1>4 DEF Connect, Abort, Halves
  <2>2. QED
    BY <1>1, <2>1
<1>5. ASSUME NEW c \in Conns, NEW d \in Directions, Direction(c, d) PROVE NotBegun'
  <2>1. conn' = conn /\ conn[c] = "relay" /\ \A x \in Conns \ {c} : half'[x] = half[x]
    BY <1>h, <1>5 DEF Direction, ReadFrame, StreamEnds, SeeShutdown, CloseSent, Forward,
         ForwardFails, SecondExpires, At, prepare_record, Halves
  <2>2. QED
    BY <1>1, <2>1
<1>6. CASE \/ UNCHANGED vars \/ AcceptFails \/ RelayStep \/ AnalyzerStep \/ Signal \/ MainStep
  BY <1>2, <1>6 DEF vars, AcceptFails, RelayStep, ShutdownSeen, RelayEnds, GraceExpires, AnalyzerStep,
       Process, ProcessFails, AnalyzerEnds, Signal, MainStep, RelayReturns, AnalyzerReturns, CommandEnds
<1>7. QED
  BY <1>3, <1>4, <1>5, <1>6 DEF Next, Connection

Ordered == InHand /\ PastRead /\ CaptureOrder

\* A step that reads and writes nothing keeps the order.
LEMMA SameOrder ==
    ASSUME Ordered, UNCHANGED <<index, delivered, captured>>,
           \A x \in Conns, y \in Directions :
              half'[x][y] = half[x][y] \/ half'[x][y].pc # "forward"
    PROVE  Ordered'
<1>1. CaptureOrder' /\ PastRead'
  BY DEF Ordered, CaptureOrder, PastRead
<1>2. InHand'
  <2> SUFFICES ASSUME NEW x \in Conns, NEW y \in Directions, half'[x][y].pc = "forward"
               PROVE  LET f == half'[x][y].frame IN
                      /\ f.n \in 1 .. index'[x] - 1
                      /\ IF y = "c2s" THEN f.n \notin delivered'[x] ELSE f.re \in delivered'[x] \cup {0}
                      /\ \A i \in 1 .. Len(captured') :
                            captured'[i].conn = x /\ captured'[i].dir = y => captured'[i].frame.n < f.n
    BY DEF InHand
  <2>1. half'[x][y] = half[x][y]
    OBVIOUS
  <2>2. QED
    BY <2>1 DEF Ordered, InHand
<1>3. QED
  BY <1>1, <1>2 DEF Ordered

\* A frame that is read has a new number.
LEMMA ReadOrder ==
    ASSUME Types, Ordered, NEW c \in Conns, NEW d \in Directions, NEW f \in Frame,
           NEW copy \in BOOLEAN, Read(c, d, f, copy)
    PROVE  Ordered'
<1> DEFINE v == [pc |-> "forward", frame |-> f, held |-> copy]
<1>1. v.frame = f
  OBVIOUS
<1>2. /\ f.n = index[c] /\ f.re \in delivered[c] \cup {0}
      /\ half' = [half EXCEPT ![c][d] = v] /\ index' = [index EXCEPT ![c] = @ + 1]
      /\ UNCHANGED <<delivered, captured>>
  BY DEF Read
<1> HIDE DEF v
<1>3. /\ half \in Halves /\ index \in [Conns -> Nat \ {0}] /\ captured \in Seq(Records)
      /\ delivered \in [Conns -> SUBSET Nat]
  BY DEF Types
<1>4. \A x \in Conns, y \in Directions :
         half'[x][y] = IF x = c /\ y = d THEN v ELSE half[x][y]
  BY <1>2, <1>3 DEF Halves
<1>5. \A x \in Conns : index[x] \in Nat \ {0} /\ index'[x] = IF x = c THEN index[x] + 1 ELSE index[x]
  BY <1>2, <1>3
<1>6. ASSUME NEW i \in 1 .. Len(captured)
      PROVE  captured[i].conn \in Conns /\ captured[i].frame.n \in Nat
  <2>1. captured[i] \in Records
    BY <1>3
  <2>2. QED
    BY <2>1 DEF Records, Frame
<1>7. PastRead'
  <2>1. \A x \in Conns : \A n \in delivered[x] : n \in Nat /\ n < index[x]
    BY <1>3 DEF Ordered, PastRead
  <2>2. \A x \in Conns : \A n \in delivered[x] : n < index'[x]
    BY <1>5, <2>1
  <2>3. ASSUME NEW i \in 1 .. Len(captured) PROVE captured[i].frame.n < index'[captured[i].conn]
    <3>1. captured[i].frame.n < index[captured[i].conn]
      BY DEF Ordered, PastRead
    <3>2. QED
      BY <1>5, <1>6, <3>1
  <2>4. QED
    BY <1>2, <2>2, <2>3 DEF Ordered, PastRead
<1>8. InHand'
  <2> SUFFICES ASSUME NEW x \in Conns, NEW y \in Directions, half'[x][y].pc = "forward"
               PROVE  LET g == half'[x][y].frame IN
                      /\ g.n \in 1 .. index'[x] - 1
                      /\ IF y = "c2s" THEN g.n \notin delivered[x] ELSE g.re \in delivered[x] \cup {0}
                      /\ \A i \in 1 .. Len(captured) :
                            captured[i].conn = x /\ captured[i].dir = y => captured[i].frame.n < g.n
    BY <1>2 DEF InHand
  <2>1. CASE x = c /\ y = d
    <3>1. half'[x][y].frame = f /\ f.n = index[x]
      BY <1>1, <1>2, <1>4, <2>1
    <3>2. f.n \in 1 .. index'[x] - 1
      BY <1>5, <2>1, <3>1
    <3>3. f.n \notin delivered[x]
      <4>1. \A n \in delivered[x] : n \in Nat /\ n < index[x]
        BY <1>3 DEF Ordered, PastRead
      <4>2. QED
        BY <1>5, <3>1, <4>1
    <3>4. \A i \in 1 .. Len(captured) : captured[i].conn = x => captured[i].frame.n < f.n
      BY <3>1 DEF Ordered, PastRead
    <3>5. QED
      BY <1>2, <2>1, <3>1, <3>2, <3>3, <3>4
  <2>2. CASE ~(x = c /\ y = d)
    <3> DEFINE g == half[x][y].frame
    <3>1. half'[x][y] = half[x][y]
      BY <1>4, <2>2
    <3>2. /\ g.n \in 1 .. index[x] - 1
          /\ IF y = "c2s" THEN g.n \notin delivered[x] ELSE g.re \in delivered[x] \cup {0}
          /\ \A i \in 1 .. Len(captured) :
                captured[i].conn = x /\ captured[i].dir = y => captured[i].frame.n < g.n
      BY <3>1 DEF Ordered, InHand
    <3>3. g.n \in 1 .. index'[x] - 1
      BY <1>5, <3>2
    <3>4. QED
      BY <3>1, <3>2, <3>3
  <2>3. QED
    BY <2>1, <2>2
<1>9. CaptureOrder'
  BY <1>2 DEF Ordered, CaptureOrder
<1>10. QED
  BY <1>7, <1>8, <1>9 DEF Ordered

\* A frame that is written and captured comes after those it has to follow.
LEMMA WrittenOrder ==
    ASSUME Types, Ordered, NEW c \in Conns, NEW d \in Directions, Written(c, d)
    PROVE  Ordered'
<1> DEFINE h == half[c][d]
<1>1. PICK v \in {Reading, Ended} : half' = [half EXCEPT ![c][d] = v]
  BY DEF Written
<1>2. h.pc = "forward" /\ index' = index
  BY DEF Written
<1>3. /\ half \in Halves /\ index \in [Conns -> Nat \ {0}] /\ captured \in Seq(Records)
      /\ delivered \in [Conns -> SUBSET Nat] /\ h \in HalfState
  BY DEF Types, Halves
<1>4. /\ h.frame.n \in 1 .. index[c] - 1
      /\ d = "c2s" => h.frame.n \notin delivered[c]
      /\ d = "s2c" => h.frame.re \in delivered[c] \cup {0}
      /\ \A i \in 1 .. Len(captured) :
            captured[i].conn = c /\ captured[i].dir = d => captured[i].frame.n < h.frame.n
  BY <1>2 DEF Ordered, InHand
<1>5. \A x \in Conns, y \in Directions :
         half'[x][y] = IF x = c /\ y = d THEN v ELSE half[x][y]
  BY <1>1, <1>3 DEF Halves
<1>6. v.pc # "forward"
  BY StartAndEnd
<1>7. \A x \in Conns :
         /\ delivered[x] \subseteq delivered'[x]
         /\ delivered'[x] # delivered[x] => x = c /\ d = "c2s" /\ delivered'[x] = delivered[x] \cup {h.frame.n}
  BY <1>3 DEF Written
<1>8. \/ captured' = captured
      \/ captured' = Append(captured, Record(c, d))
  BY DEF Written
<1>9. Record(c, d) \in Records /\ Record(c, d) = [conn |-> c, dir |-> d, frame |-> h.frame]
  BY <1>3 DEF Record, Records, HalfState
<1> DEFINE n == Len(captured)
           rec == Record(c, d)
<1>10. /\ n \in Nat /\ Len(captured') \in Nat
       /\ \A i \in 1..n : captured[i] \in Records /\ captured'[i] = captured[i]
       /\ \/ Len(captured') = n
          \/ Len(captured') = n + 1 /\ captured'[n + 1] = rec
  <2> HIDE DEF rec
  <2>1. captured \in Seq(Records) /\ rec \in Records
    BY <1>3, <1>9 DEF rec
  <2>2. n \in Nat /\ \A i \in 1..n : captured[i] \in Records
    BY <2>1
  <2>3. CASE captured' = captured
    BY <2>2, <2>3
  <2>4. CASE captured' = Append(captured, rec)
    BY <2>1, <2>2, <2>4
  <2>5. QED
    BY <1>8, <2>3, <2>4 DEF rec
<1>11. \A i \in 1..n : /\ captured[i].conn \in Conns /\ captured[i].frame.n \in Nat
                       /\ captured[i].dir \in {"c2s", "s2c"} /\ captured[i].frame.re \in Nat
  BY <1>10 DEF Records, Frame, Directions
<1>12. rec.conn = c /\ rec.dir = d /\ rec.frame = h.frame /\ d \in {"c2s", "s2c"}
  BY <1>9 DEF Directions
<1> HIDE DEF n, rec, h
<1>13. \A i \in 1..Len(captured') : i \in 1..n \/ (i = n + 1 /\ captured'[i] = rec)
  BY <1>10
<1>14. PastRead'
  <2>1. ASSUME NEW x \in Conns, NEW m \in delivered'[x] PROVE m < index[x]
    <3>1. CASE m \in delivered[x]
      BY <3>1 DEF Ordered, PastRead
    <3>2. CASE m \notin delivered[x]
      <4>1. x = c /\ m = h.frame.n
        BY <1>7, <3>2
      <4>2. index[c] \in Nat
        BY <1>3
      <4>3. QED
        BY <1>4, <4>1, <4>2
    <3>3. QED
      BY <3>1, <3>2
  <2>2. ASSUME NEW i \in 1..Len(captured')
        PROVE  LET p == captured'[i] IN
               /\ p.frame.n < index[p.conn]
               /\ p.dir = "s2c" => p.frame.re \in delivered'[p.conn] \cup {0}
    <3>1. CASE i \in 1..n
      <4>1. /\ captured[i].frame.n < index[captured[i].conn]
            /\ captured[i].dir = "s2c" => captured[i].frame.re \in delivered[captured[i].conn] \cup {0}
        BY <3>1 DEF Ordered, PastRead, n
      <4>2. QED
        BY <1>7, <1>10, <1>11, <3>1, <4>1
    <3>2. CASE captured'[i] = rec
      <4>1. index[c] \in Nat
        BY <1>3
      <4>2. h.frame.n < index[c]
        BY <1>4, <4>1
      <4>3. QED
        BY <1>4, <1>7, <1>12, <3>2, <4>2
    <3>3. QED
      BY <1>13, <3>1, <3>2
  <2>3. QED
    BY <1>2, <2>1, <2>2 DEF PastRead
<1>15. InHand'
  <2> SUFFICES ASSUME NEW x \in Conns, NEW y \in Directions, half'[x][y].pc = "forward"
               PROVE  LET g == half'[x][y].frame IN
                      /\ g.n \in 1 .. index[x] - 1
                      /\ IF y = "c2s" THEN g.n \notin delivered'[x] ELSE g.re \in delivered'[x] \cup {0}
                      /\ \A i \in 1 .. Len(captured') :
                            captured'[i].conn = x /\ captured'[i].dir = y => captured'[i].frame.n < g.n
    BY <1>2 DEF InHand
  <2> DEFINE g == half[x][y].frame
  <2>1. half'[x][y] = half[x][y] /\ ~(x = c /\ y = d)
    BY <1>5, <1>6
  <2>2. /\ g.n \in 1 .. index[x] - 1
        /\ IF y = "c2s" THEN g.n \notin delivered[x] ELSE g.re \in delivered[x] \cup {0}
        /\ \A i \in 1 .. n :
              captured[i].conn = x /\ captured[i].dir = y => captured[i].frame.n < g.n
    BY <2>1 DEF Ordered, InHand, n
  <2> HIDE DEF g
  <2>3. IF y = "c2s" THEN g.n \notin delivered'[x] ELSE g.re \in delivered'[x] \cup {0}
    BY <1>7, <2>1, <2>2
  <2>4. \A i \in 1 .. Len(captured') :
           captured'[i].conn = x /\ captured'[i].dir = y => captured'[i].frame.n < g.n
    BY <1>10, <1>12, <1>13, <2>1, <2>2
  <2>5. QED
    BY <2>1, <2>2, <2>3, <2>4 DEF g
<1>16. CaptureOrder'
  <2> SUFFICES ASSUME NEW i \in 1..Len(captured'), NEW j \in 1..Len(captured'),
                      captured'[i].conn = captured'[j].conn
               PROVE  LET p == captured'[i]  q == captured'[j] IN
                      /\ p.dir = "c2s" /\ q.dir = "s2c" /\ q.frame.re = p.frame.n => i < j
                      /\ p.dir = q.dir /\ p.frame.n < q.frame.n => i < j
    BY DEF CaptureOrder
  <2>1. CASE i \in 1..n /\ j \in 1..n
    <3>1. captured'[i] = captured[i] /\ captured'[j] = captured[j]
      BY <1>10, <2>1
    <3>2. QED
      BY <2>1, <3>1 DEF Ordered, CaptureOrder, n
  <2>2. CASE i \in 1..n /\ j = n + 1
    BY <1>10, <2>2
  <2>3. CASE i = n + 1 /\ captured'[i] = rec /\ j \in 1..n
    <3>1. captured'[j] = captured[j] /\ captured[j].conn = c
      BY <1>10, <1>12, <2>3
    <3>2. captured[j].frame.n \in Nat /\ h.frame.n \in Nat /\ h.frame.n # 0
      <4>1. index[c] \in Nat
        BY <1>3
      <4>2. QED
        BY <1>4, <1>11, <2>3, <4>1
    <3>3. captured[j].dir = d => captured[j].frame.n < h.frame.n
      BY <1>4, <2>3, <3>1 DEF n
    <3>4. ~(d = captured[j].dir /\ h.frame.n < captured[j].frame.n)
      BY <3>2, <3>3
    <3>5. captured[j].dir = "s2c" => captured[j].frame.re \in delivered[c] \cup {0}
      BY <2>3, <3>1 DEF Ordered, PastRead, n
    <3>6. ~(d = "c2s" /\ captured[j].dir = "s2c" /\ captured[j].frame.re = h.frame.n)
      BY <1>4, <3>2, <3>5
    <3>7. QED
      BY <1>12, <2>3, <3>1, <3>4, <3>6
  <2>4. CASE i = n + 1 /\ j = n + 1 /\ captured'[i] = rec
    <3>1. h.frame.n \in Nat
      <4>1. index[c] \in Nat
        BY <1>3
      <4>2. QED
        BY <1>4, <4>1
    <3>2. QED
      BY <2>4, <1>12, <3>1
  <2>5. QED
    BY <1>13, <2>1, <2>2, <2>3, <2>4
<1>17. QED
  BY <1>14, <1>15, <1>16 DEF Ordered

\* Every step keeps the order.
LEMMA OrderKept ==
    ASSUME Types, NotBegun, Ordered, [Next]_vars
    PROVE  Ordered'
<1>h. half \in Halves /\ \A x \in Conns, y \in Directions : half[x][y] \in HalfState
  BY DEF Types, Halves
<1>1. CASE Idle
  BY <1>1, SameOrder DEF Idle
<1>2. ASSUME NEW c \in Conns, NEW d \in Directions, Release(c, d) PROVE Ordered'
  <2>1. PICK v \in HalfState : half' = [half EXCEPT ![c][d] = v] /\ v.pc # "forward"
    BY <1>2 DEF Release
  <2>2. \A x \in Conns, y \in Directions :
           half'[x][y] = IF x = c /\ y = d THEN v ELSE half[x][y]
    BY <1>h, <2>1 DEF Halves
  <2>3. \A x \in Conns, y \in Directions : half'[x][y] = half[x][y] \/ half'[x][y].pc # "forward"
    BY <2>1, <2>2
  <2>4. UNCHANGED <<index, delivered, captured>>
    BY <1>2 DEF Release
  <2>5. QED
    BY <2>3, <2>4, SameOrder
<1>3. ASSUME NEW c \in Conns, Connect(c) PROVE Ordered'
  <2>1. /\ UNCHANGED <<index, delivered, captured>>
        /\ \A x \in Conns, y \in Directions : half'[x][y] = IF x = c THEN Reading ELSE half[x][y]
    BY <1>3, ConnectEffect
  <2>2. \A x \in Conns, y \in Directions : half'[x][y] = half[x][y] \/ half'[x][y].pc # "forward"
    BY <2>1, StartAndEnd
  <2>3. QED
    BY <2>1, <2>2, SameOrder
<1>4. ASSUME NEW c \in Conns, Abort(c) PROVE Ordered'
  <2>1. /\ half' = [half EXCEPT ![c] = [d \in Directions |-> AbortedHalf(half[c][d])]]
        /\ UNCHANGED <<index, delivered, captured>>
    BY <1>4 DEF Abort
  <2>2. \A x \in Conns, y \in Directions :
           half'[x][y] = IF x = c THEN AbortedHalf(half[x][y]) ELSE half[x][y]
    BY <1>h, <2>1 DEF Halves
  <2>3. \A x \in Conns, y \in Directions : half'[x][y] = half[x][y] \/ half'[x][y].pc # "forward"
    BY <1>h, <2>2, HalfFacts
  <2>4. QED
    BY <2>1, <2>3, SameOrder
<1>5. CASE Process \/ ProcessFails
  <2>1. UNCHANGED <<half, index, delivered, captured>>
    BY <1>5 DEF Process, ProcessFails
  <2>2. QED
    BY <2>1, SameOrder
<1>6. QED
  BY <1>1, <1>2, <1>3, <1>4, <1>5, ReadOrder, WrittenOrder, Steps

-----------------------------------------------------------------------------
(* The theorems.                                                           *)

Inv == Types /\ NotBegun /\ SlotsConserved /\ BytesConserved /\ Accounted /\ Ordered

\* The invariant says what the properties say.
LEMMA InvMeans == Inv => TypeOK /\ PermitsConserved /\ EveryFrameAccounted /\ CaptureOrder
<1> SUFFICES ASSUME Inv PROVE TypeOK /\ PermitsConserved /\ EveryFrameAccounted /\ CaptureOrder
  OBVIOUS
<1>1. /\ slots + Cardinality(ActiveIn(conn)) = MaxConnections
      /\ bytes + InQueue(captured, taken) + Held(half) = ByteBudget
  BY DEF Inv, SlotsConserved, BytesConserved
<1>2. PermitsConserved
  <2>1. {c \in Conns : Active(c)} = ActiveIn(conn)
    BY DEF Active, ActiveIn
  <2>2. QueuedBytes = InQueue(captured, taken) /\ HeldBytes = Held(half)
    BY DEF QueuedBytes, InQueue, HeldBytes, Held
  <2>3. QED
    BY <1>1, <2>1, <2>2 DEF PermitsConserved
<1>3. EveryFrameAccounted
  BY AccountedMeans DEF Inv
<1>4. slots \in 0..MaxConnections
  <2>1. ActiveIn(conn) \in SUBSET Conns
    BY DEF ActiveIn
  <2>2. Cardinality(ActiveIn(conn)) \in Nat
    BY <2>1, RelayAssumption, FS_Subset, FS_CardinalityType
  <2>3. slots \in Nat
    BY DEF Inv, Types
  <2>4. QED
    BY <1>1, <2>2, <2>3
<1>5. bytes \in 0..ByteBudget
  <2>1. bytes \in Nat /\ InQueue(captured, taken) \in Nat /\ Held(half) \in Nat
    BY HeldType, QueueFacts DEF Inv, Types
  <2>2. QED
    BY <1>1, <2>1
<1>6. TypeOK
  BY <1>4, <1>5 DEF Inv, Types, TypeOK, ConnStates, Halves, Records
<1>7. QED
  BY <1>2, <1>3, <1>6 DEF Inv, Ordered

\* The relay starts with all permits, no frames and no records.
LEMMA InvInit == Init => Inv
<1> SUFFICES ASSUME Init PROVE Inv
  OBVIOUS
<1>1. /\ half = [c \in Conns |-> [d \in Directions |-> Ended]] /\ captured = <<>> /\ taken = 0
      /\ bytes = ByteBudget /\ slots = MaxConnections /\ index = [c \in Conns |-> 1]
      /\ delivered = [c \in Conns |-> {}] /\ conn = [c \in Conns |-> "new"]
      /\ dropped = [queue_full |-> 0, analyzer_closed |-> 0]
  BY DEF Init
<1>2. ByteBudget \in Nat /\ MaxConnections \in Nat
  BY RelayAssumption DEF ValidConfig
<1>3. half \in Halves /\ captured \in Seq(Records) /\ taken \in 0..Len(captured) /\ Len(captured) = 0
  BY <1>1, StartAndEnd DEF Halves
<1>4. Types
  <2>1. ControlTypes
    BY <1>1, <1>2 DEF Init, ControlTypes, ConnStates
  <2>2. index \in [Conns -> Nat \ {0}] /\ delivered \in [Conns -> SUBSET Nat]
    BY <1>1
  <2>3. dropped \in [queue_full : Nat, analyzer_closed : Nat]
    BY <1>1
  <2>4. QED
    BY <1>1, <1>2, <1>3, <2>1, <2>2, <2>3 DEF ControlTypes, Types
<1>5. NotBegun
  BY <1>1 DEF NotBegun
<1>6. SlotsConserved
  <2>1. ActiveIn(conn) = {}
    BY <1>1 DEF ActiveIn
  <2>2. QED
    <3>1. Cardinality(ActiveIn(conn)) = 0
      BY <2>1, FS_EmptySet
    <3>2. QED
      BY <1>1, <1>2, <3>1 DEF SlotsConserved
<1>7. Held(half) = 0 /\ KeptIn(half) = {}
  <2>1. \A x \in Conns, y \in Directions : half[x][y] = Ended
    BY <1>1
  <2>2. KeptIn(half) = {}
    BY <2>1, StartAndEnd DEF KeptIn
  <2> DEFINE f == [p \in Conns \X Directions |-> HeldBy(half[p[1]][p[2]])]
  <2>3. \A p \in DOMAIN f : f[p] = 0
    BY <2>1, StartAndEnd
  <2> HIDE DEF f
  <2>4. Total(f) = 0
    BY <2>3, TotalOfZeros
  <2>5. QED
    BY <2>2, <2>4 DEF Held, f
<1>8. BytesConserved
  <2>1. InQueue(captured, taken) = 0
    BY <1>1, <1>3, QueueFacts
  <2>2. QED
    BY <1>1, <1>2, <1>7, <2>1 DEF BytesConserved
<1>9. Accounted
  <2> DEFINE f == [c \in Conns |-> index[c] - 1]
  <2>1. \A c \in DOMAIN f : f[c] = 0
    BY <1>1
  <2> HIDE DEF f
  <2>2. Total(f) = 0
    BY <2>1, TotalOfZeros
  <2>3. ReadOf(index) = 0
    BY <2>2 DEF ReadOf, f
  <2>4. Losses(dropped) = 0
    BY <1>1 DEF Losses
  <2>5. QED
    BY <1>3, <1>7, <2>3, <2>4, FS_EmptySet DEF Accounted
<1>10. Ordered
  BY <1>1, <1>3, StartAndEnd DEF Ordered, InHand, PastRead, CaptureOrder
<1>11. QED
  BY <1>4, <1>5, <1>6, <1>8, <1>9, <1>10 DEF Inv

\* The invariant holds in every reachable state.
LEMMA InvAlways == Spec => []Inv
<1>1. Init => Inv
  BY InvInit
<1>2. Inv /\ [Next]_vars => Inv'
  <2> SUFFICES ASSUME Inv, [Next]_vars PROVE Inv'
    OBVIOUS
  <2>1. Types /\ NotBegun /\ SlotsConserved /\ BytesConserved /\ Accounted /\ Ordered
    BY DEF Inv
  <2>2. ControlTypes' /\ SlotsConserved'
    BY <2>1, ControlKept
  <2>3. FrameTypes' /\ BytesConserved'
    BY <2>1, FramesKept
  <2>4. Types'
    BY <2>2, <2>3 DEF ControlTypes, FrameTypes, Types
  <2>5. NotBegun' /\ Accounted' /\ Ordered'
    BY <2>1, NotBegunKept, AccountKept, OrderKept
  <2>6. QED
    BY <2>2, <2>3, <2>4, <2>5 DEF Inv
<1>3. QED
  BY <1>1, <1>2, PTL DEF Spec

\* Every variable keeps its type: no semaphore is ever overdrawn, or holds more
\* permits than it was made with.
THEOREM RelayTypes == Spec => []TypeOK
<1>1. Inv => TypeOK
  BY InvMeans
<1>2. QED
  BY <1>1, InvAlways, PTL

\* Both semaphores are conserved on every path, for any number of connections, any
\* budget and frames of any size.
THEOREM PermitsAlwaysConserved == Spec => []PermitsConserved
<1>1. Inv => PermitsConserved
  BY InvMeans
<1>2. QED
  BY <1>1, InvAlways, PTL

\* Every frame that was read is queued, counted as dropped or in hand, once.
THEOREM FramesAlwaysAccounted == Spec => []EveryFrameAccounted
<1>1. Inv => EveryFrameAccounted
  BY InvMeans
<1>2. QED
  BY <1>1, InvAlways, PTL

\* The capture keeps the order of every conversation.
THEOREM CaptureKeepsOrder == Spec => []CaptureOrder
<1>1. Inv => CaptureOrder
  BY InvMeans
<1>2. QED
  BY <1>1, InvAlways, PTL
=============================================================================
