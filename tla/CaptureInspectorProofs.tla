----------------------- MODULE CaptureInspectorProofs -----------------------
(***************************************************************************)
(* Proofs about CaptureInspector: the matching of responses to requests is *)
(* right, responses are credited to the right commands, and the catalogue  *)
(* is consistent, for any records, any clock and any limits.               *)
(***************************************************************************)
EXTENDS CaptureInspector, FunctionProofs

-----------------------------------------------------------------------------
(* Maps.                                                                   *)

\* HashMap::insert and HashMap::remove on maps of requests.
LEMMA WithMap ==
    ASSUME NEW m, m \in [DOMAIN m -> Requests], IsFiniteSet(DOMAIN m), NEW k, NEW v \in Requests,
           NEW w, w = With(m, k, v)
    PROVE  /\ DOMAIN w = DOMAIN m \cup {k} /\ w \in [DOMAIN w -> Requests]
           /\ w[k] = v /\ \A x \in DOMAIN m \ {k} : w[x] = m[x]
           /\ IsFiniteSet(DOMAIN w)
           /\ Cardinality(DOMAIN w)
                = IF k \in DOMAIN m THEN Cardinality(DOMAIN m) ELSE Cardinality(DOMAIN m) + 1
<1>1. /\ DOMAIN w = DOMAIN m \cup {k} /\ w \in [DOMAIN w -> Requests]
      /\ w[k] = v /\ \A x \in DOMAIN m \ {k} : w[x] = m[x]
  BY DEF With
<1>2. /\ IsFiniteSet(DOMAIN w)
      /\ Cardinality(DOMAIN w)
           = IF k \in DOMAIN m THEN Cardinality(DOMAIN m) ELSE Cardinality(DOMAIN m) + 1
  BY <1>1, FS_AddElement
<1>3. QED
  BY <1>1, <1>2

LEMMA WithoutMap ==
    ASSUME NEW m, m \in [DOMAIN m -> Requests], IsFiniteSet(DOMAIN m), NEW k,
           NEW w, w = Without(m, k)
    PROVE  /\ DOMAIN w = DOMAIN m \ {k} /\ w \in [DOMAIN w -> Requests]
           /\ \A x \in DOMAIN m \ {k} : w[x] = m[x]
           /\ IsFiniteSet(DOMAIN w) /\ Cardinality(DOMAIN w) <= Cardinality(DOMAIN m)
<1>1. /\ DOMAIN w = DOMAIN m \ {k} /\ w \in [DOMAIN w -> Requests]
      /\ \A x \in DOMAIN m \ {k} : w[x] = m[x]
  BY DEF Without
<1>2. IsFiniteSet(DOMAIN w) /\ Cardinality(DOMAIN w) <= Cardinality(DOMAIN m)
  <2>1. DOMAIN w \in SUBSET DOMAIN m
    BY <1>1
  <2>2. QED
    BY <2>1, FS_Subset
<1>3. QED
  BY <1>1, <1>2

-----------------------------------------------------------------------------
(* The pending map.                                                        *)

\* The peak is one: what makes the last clause of MatchingIsRight inductive.
PeakHolds == Cardinality(DOMAIN open) <= peak

Matched ==
    /\ now \in Nat /\ peak \in Nat
    /\ pending \in [DOMAIN pending -> Requests] /\ open \in [DOMAIN open -> Requests]
    /\ IsFiniteSet(DOMAIN pending) /\ IsFiniteSet(DOMAIN open)
    /\ PeakHolds /\ MatchingIsRight

LEMMA RequestType == ASSUME NEW r \in Records, now \in Nat PROVE PendingRequest(r) \in Requests
BY DEF PendingRequest, Requests, Commands

\* A full map loses entries and never gets one; a map that is not full loses none.
LEMMA EvictedFacts ==
    ASSUME Matched
    PROVE  /\ Evicted \in [DOMAIN Evicted -> Requests] /\ IsFiniteSet(DOMAIN Evicted)
           /\ DOMAIN Evicted \subseteq DOMAIN pending
           /\ \A k \in DOMAIN Evicted : Evicted[k] = pending[k]
           /\ Cardinality(DOMAIN Evicted) \in Nat /\ Cardinality(DOMAIN Evicted) < MaxPending
           /\ Cardinality(DOMAIN pending) < MaxPending => Evicted = pending
<1> DEFINE young == {k \in DOMAIN pending : pending[k].time >= now - Window}
<1>1. /\ pending \in [DOMAIN pending -> Requests] /\ IsFiniteSet(DOMAIN pending)
      /\ Cardinality(DOMAIN pending) \in Nat /\ MaxPending \in Nat \ {0}
  BY InspectorAssumption, FS_CardinalityType DEF Matched
<1>2. young \in SUBSET DOMAIN pending
  OBVIOUS
<1>3. IsFiniteSet(young) /\ Cardinality(young) \in Nat
  <2> HIDE DEF young
  <2>1. QED
    BY <1>1, <1>2, FS_Subset, FS_CardinalityType
<1>4. CASE Cardinality(DOMAIN pending) < MaxPending
  <2>1. Evicted = pending
    BY <1>1, <1>4 DEF Evicted
  <2>2. QED
    BY <1>1, <1>4, <2>1
<1>5. CASE Cardinality(DOMAIN pending) >= MaxPending /\ Cardinality(young) < MaxPending
  <2>1. Evicted = [k \in young |-> pending[k]]
    BY <1>1, <1>5 DEF Evicted
  <2> HIDE DEF young
  <2>2. DOMAIN Evicted = young
    BY <2>1
  <2>3. QED
    BY <1>1, <1>2, <1>3, <1>5, <2>1, <2>2
<1>6. CASE Cardinality(DOMAIN pending) >= MaxPending /\ ~(Cardinality(young) < MaxPending)
  <2>1. Evicted = Empty
    BY <1>1, <1>6 DEF Evicted
  <2>2. DOMAIN Evicted = {} /\ Evicted \in [{} -> Requests]
    BY <2>1 DEF Empty
  <2>3. Cardinality(DOMAIN Evicted) = 0 /\ IsFiniteSet(DOMAIN Evicted)
    BY <2>2, FS_EmptySet
  <2>4. QED
    BY <1>1, <1>6, <2>2, <2>3
<1>7. QED
  BY <1>1, <1>3, <1>4, <1>5, <1>6

\* The greater of two numbers.
LEMMA MaxOfTwo ==
    ASSUME NEW a \in Nat, NEW b \in Nat
    PROVE  Max({a, b}) \in Nat /\ Max({a, b}) >= a /\ Max({a, b}) >= b
<1>1. \E x \in {a, b} : \A y \in {a, b} : x >= y
  <2>1. CASE a >= b
    BY <2>1
  <2>2. CASE b >= a
    BY <2>2
  <2>3. QED
    BY <2>1, <2>2
<1>2. Max({a, b}) \in {a, b} /\ \A y \in {a, b} : Max({a, b}) >= y
  BY <1>1 DEF Max
<1>3. QED
  BY <1>2

\* The matching is kept right by every record.
LEMMA MatchedKept ==
    ASSUME Matched, NEW r \in Records, Follow(r), pending' = inspect(r), now' = now
    PROVE  Matched'
<1>0. /\ now \in Nat /\ peak \in Nat
      /\ pending \in [DOMAIN pending -> Requests] /\ open \in [DOMAIN open -> Requests]
      /\ IsFiniteSet(DOMAIN pending) /\ IsFiniteSet(DOMAIN open)
      /\ Cardinality(DOMAIN open) <= peak
      /\ Cardinality(DOMAIN pending) <= MaxPending
      /\ \A k \in DOMAIN pending : k \in DOMAIN open /\ pending[k] = open[k]
      /\ peak < MaxPending => pending = open
  BY DEF Matched, PeakHolds, MatchingIsRight
<1>n. /\ Cardinality(DOMAIN pending) \in Nat /\ Cardinality(DOMAIN open) \in Nat
      /\ MaxPending \in Nat \ {0}
  BY <1>0, FS_CardinalityType, InspectorAssumption
<1>1. open' = NextOpen(r) /\ peak' = Max({peak, Cardinality(DOMAIN open')})
  BY DEF Follow
<1>2. ASSUME open' \in [DOMAIN open' -> Requests], IsFiniteSet(DOMAIN open'),
             pending' \in [DOMAIN pending' -> Requests], IsFiniteSet(DOMAIN pending'),
             Cardinality(DOMAIN pending') <= MaxPending,
             \A k \in DOMAIN pending' : k \in DOMAIN open' /\ pending'[k] = open'[k],
             pending = open /\ Cardinality(DOMAIN pending) < MaxPending => pending' = open'
      PROVE  Matched'
  <2>1. Cardinality(DOMAIN open') \in Nat
    BY <1>2, FS_CardinalityType
  <2>2. peak' \in Nat /\ peak' >= peak /\ peak' >= Cardinality(DOMAIN open')
    BY <1>0, <1>1, <2>1, MaxOfTwo
  <2>3. peak' < MaxPending => pending' = open'
    <3>1. SUFFICES ASSUME peak' < MaxPending PROVE pending' = open'
      OBVIOUS
    <3>2. peak < MaxPending
      BY <1>0, <1>n, <2>2, <3>1
    <3>3. pending = open /\ Cardinality(DOMAIN pending) < MaxPending
      BY <1>0, <1>n, <3>2
    <3>4. QED
      BY <1>2, <3>3
  <2>4. QED
    BY <1>0, <1>2, <2>1, <2>2, <2>3 DEF Matched, PeakHolds, MatchingIsRight
<1>3. CASE IsResponse(r)
  <2> DEFINE key == <<r.conn, r.resp>>
  <2>0. ~IsRequest(r)
    BY <1>3 DEF IsResponse, IsRequest
  <2>1. pending' = Without(pending, key) /\ open' = Without(open, key)
    BY <1>1, <1>3, <2>0 DEF inspect, NextOpen
  <2> HIDE DEF key
  <2>2. /\ DOMAIN pending' = DOMAIN pending \ {key} /\ pending' \in [DOMAIN pending' -> Requests]
        /\ \A x \in DOMAIN pending \ {key} : pending'[x] = pending[x]
        /\ IsFiniteSet(DOMAIN pending') /\ Cardinality(DOMAIN pending') <= Cardinality(DOMAIN pending)
    BY <1>0, <2>1, WithoutMap
  <2>3. /\ DOMAIN open' = DOMAIN open \ {key} /\ open' \in [DOMAIN open' -> Requests]
        /\ \A x \in DOMAIN open \ {key} : open'[x] = open[x]
        /\ IsFiniteSet(DOMAIN open')
    <3>1. open \in [DOMAIN open -> Requests] /\ IsFiniteSet(DOMAIN open) /\ open' = Without(open, key)
      BY <1>0, <2>1
    <3>2. /\ DOMAIN open' = DOMAIN open \ {key} /\ open' \in [DOMAIN open' -> Requests]
          /\ \A x \in DOMAIN open \ {key} : open'[x] = open[x]
      BY <3>1 DEF Without
    <3>3. DOMAIN open' \in SUBSET DOMAIN open
      BY <3>2
    <3>4. QED
      BY <3>1, <3>2, <3>3, FS_Subset
  <2>4. Cardinality(DOMAIN pending') \in Nat
    BY <2>2, FS_CardinalityType
  <2>5. Cardinality(DOMAIN pending') <= MaxPending
    BY <1>0, <1>n, <2>2, <2>4
  <2>6. pending = open => pending' = open'
    BY <2>1
  <2>7. \A k \in DOMAIN pending' : k \in DOMAIN open' /\ pending'[k] = open'[k]
    BY <1>0, <2>2, <2>3
  <2>8. QED
    BY <1>2, <2>2, <2>3, <2>5, <2>6, <2>7
<1>4. CASE IsRequest(r)
  <2> DEFINE key == <<r.conn, r.seq>>  new == PendingRequest(r)
  <2>0. ~IsResponse(r)
    BY <1>4 DEF IsResponse, IsRequest
  <2>1. pending' = With(Evicted, key, new) /\ open' = With(open, key, new)
    BY <1>1, <1>4, <2>0 DEF inspect, NextOpen
  <2>2. new \in Requests
    BY <1>0, RequestType
  <2> HIDE DEF key, new
  <2>3. /\ Evicted \in [DOMAIN Evicted -> Requests] /\ IsFiniteSet(DOMAIN Evicted)
        /\ DOMAIN Evicted \subseteq DOMAIN pending
        /\ \A k \in DOMAIN Evicted : Evicted[k] = pending[k]
        /\ Cardinality(DOMAIN Evicted) \in Nat /\ Cardinality(DOMAIN Evicted) < MaxPending
        /\ Cardinality(DOMAIN pending) < MaxPending => Evicted = pending
    BY EvictedFacts
  <2>4. /\ DOMAIN pending' = DOMAIN Evicted \cup {key} /\ pending' \in [DOMAIN pending' -> Requests]
        /\ pending'[key] = new /\ (\A x \in DOMAIN Evicted \ {key} : pending'[x] = Evicted[x])
        /\ IsFiniteSet(DOMAIN pending')
        /\ Cardinality(DOMAIN pending')
             = IF key \in DOMAIN Evicted THEN Cardinality(DOMAIN Evicted) ELSE Cardinality(DOMAIN Evicted) + 1
    <3>1. /\ Evicted \in [DOMAIN Evicted -> Requests] /\ IsFiniteSet(DOMAIN Evicted)
          /\ pending' = With(Evicted, key, new)
      BY <2>1, <2>3
    <3>2. /\ DOMAIN pending' = DOMAIN Evicted \cup {key} /\ pending' \in [DOMAIN pending' -> Requests]
          /\ pending'[key] = new /\ \A x \in DOMAIN Evicted \ {key} : pending'[x] = Evicted[x]
      BY <2>2, <3>1 DEF With
    <3>3. QED
      BY <3>1, <3>2, FS_AddElement
  <2>5. /\ DOMAIN open' = DOMAIN open \cup {key} /\ open' \in [DOMAIN open' -> Requests]
        /\ open'[key] = new /\ (\A x \in DOMAIN open \ {key} : open'[x] = open[x])
        /\ IsFiniteSet(DOMAIN open')
    BY <1>0, <2>1, <2>2, WithMap
  <2>6. Cardinality(DOMAIN pending') <= MaxPending
    BY <1>n, <2>3, <2>4
  <2>7. \A k \in DOMAIN pending' : k \in DOMAIN open' /\ pending'[k] = open'[k]
    BY <1>0, <2>3, <2>4, <2>5
  <2>8. pending = open /\ Cardinality(DOMAIN pending) < MaxPending => pending' = open'
    BY <2>1, <2>3
  <2>9. QED
    BY <1>2, <2>4, <2>5, <2>6, <2>7, <2>8
<1>5. CASE ~IsResponse(r) /\ ~IsRequest(r)
  <2>1. pending' = pending /\ open' = open
    BY <1>1, <1>5 DEF inspect, NextOpen
  <2>2. QED
    BY <1>0, <1>2, <2>1
<1>6. QED
  BY <1>3, <1>4, <1>5

-----------------------------------------------------------------------------
(* One entry of the catalogue.                                             *)

CodesKept(s) ==
    /\ IsFiniteSet(DOMAIN s.codes) /\ Cardinality(DOMAIN s.codes) <= MaxCodes
    /\ Total(s.codes) <= s.responses + s.pushes

\* A code is counted once, or not at all when there are too many.
LEMMA CodeAdds ==
    ASSUME NEW codes, codes \in [DOMAIN codes -> Nat], IsFiniteSet(DOMAIN codes),
           Cardinality(DOMAIN codes) <= MaxCodes, NEW code, NEW new,
           new = add_response_code(codes, code)
    PROVE  /\ new \in [DOMAIN new -> Nat] /\ IsFiniteSet(DOMAIN new)
           /\ Cardinality(DOMAIN new) <= MaxCodes
           /\ Total(codes) \in Nat /\ Total(new) \in Nat /\ Total(new) <= Total(codes) + 1
<1> DEFINE K == DOMAIN codes
<1>1. IsFiniteSet(K) /\ codes \in [K -> Nat]
  OBVIOUS
<1>2. Cardinality(K) \in Nat /\ MaxCodes \in Nat
  BY FS_CardinalityType, InspectorAssumption
<1>3. Total(codes) \in Nat
  <2> HIDE DEF K
  <2>1. QED
    BY <1>1, UnitsFinite
<1>4. CASE code = "none" \/ (code \notin K /\ Cardinality(K) >= MaxCodes)
  <2>1. new = codes
    BY <1>4 DEF add_response_code
  <2>2. QED
    BY <1>3, <2>1
<1>5. CASE code # "none" /\ code \in K
  <2>1. new = With(codes, code, codes[code] + 1)
    BY <1>5 DEF add_response_code
  <2>2. /\ DOMAIN new = K /\ new \in [K -> Nat] /\ new[code] = codes[code] + 1
        /\ \A x \in K \ {code} : new[x] = codes[x]
    BY <1>5, <2>1 DEF With
  <2>3. code \in K /\ codes[code] \in Nat
    BY <1>5
  <2> HIDE DEF K
  <2>4. Total(new) = Total(codes) - codes[code] + new[code]
    BY <1>1, <2>2, <2>3, TotalChanges
  <2>5. QED
    BY <1>1, <1>3, <2>2, <2>3, <2>4 DEF K
<1>6. CASE code # "none" /\ code \notin K /\ ~(Cardinality(K) >= MaxCodes)
  <2>1. new = With(codes, code, 1)
    BY <1>6 DEF add_response_code
  <2>2. /\ DOMAIN new = K \cup {code} /\ new \in [K \cup {code} -> Nat] /\ new[code] = 1
        /\ \A x \in K : new[x] = codes[x]
    BY <1>6, <2>1 DEF With
  <2>3. code \notin K
    BY <1>6
  <2> HIDE DEF K
  <2>4. Total(new) = Total(codes) + new[code]
    BY <1>1, <2>2, <2>3, TotalAdds
  <2>5. IsFiniteSet(K \cup {code}) /\ Cardinality(K \cup {code}) = Cardinality(K) + 1
    BY <1>1, <2>3, FS_AddElement
  <2>6. Cardinality(DOMAIN new) <= MaxCodes
    BY <1>2, <1>6, <2>2, <2>5
  <2>7. QED
    BY <1>3, <2>2, <2>4, <2>5, <2>6
<1>7. QED
  BY <1>4, <1>5, <1>6

\* An entry that counts an event.
LEMMA EventCounts ==
    ASSUME NEW s, IsSummary(s), CodesKept(s), NEW kind \in Kinds, NEW code,
           NEW u, u = CountEvent(s, kind, code)
    PROVE  /\ IsSummary(u) /\ CodesKept(u) /\ Events(u) = Events(s) + 1
           /\ u.shapes = s.shapes /\ u.overflow = s.overflow
           /\ u.requests = s.requests + (IF kind = "request" THEN 1 ELSE 0)
           /\ u.responses = s.responses + (IF kind = "response" THEN 1 ELSE 0)
<1>1. /\ s \in [requests : Nat, responses : Nat, pushes : Nat, codes : {s.codes},
                shapes : [Kinds -> SUBSET Shapes], overflow : Nat]
      /\ s.codes \in [DOMAIN s.codes -> Nat]
  BY DEF IsSummary
<1>2. /\ s.requests \in Nat /\ s.responses \in Nat /\ s.pushes \in Nat /\ s.overflow \in Nat
      /\ s.shapes \in [Kinds -> SUBSET Shapes]
  BY <1>1
<1> DEFINE new == add_response_code(s.codes, code)
<1>3. /\ new \in [DOMAIN new -> Nat] /\ IsFiniteSet(DOMAIN new)
      /\ Cardinality(DOMAIN new) <= MaxCodes
      /\ Total(s.codes) \in Nat /\ Total(new) \in Nat /\ Total(new) <= Total(s.codes) + 1
  BY <1>1, CodeAdds DEF CodesKept
<1>4. Total(s.codes) <= s.responses + s.pushes
  BY DEF CodesKept
<1> HIDE DEF new
<1>5. CASE kind = "request"
  <2>1. u = [s EXCEPT !.requests = s.requests + 1]
    BY <1>1, <1>5 DEF CountEvent
  <2> DEFINE q == s.requests + 1
  <2>2. q \in Nat
    BY <1>2
  <2>3. u = [s EXCEPT !.requests = q]
    BY <2>1
  <2> HIDE DEF q
  <2>4. /\ u.requests = q /\ u.responses = s.responses /\ u.pushes = s.pushes
        /\ u.codes = s.codes /\ u.shapes = s.shapes /\ u.overflow = s.overflow
        /\ u \in [requests : Nat, responses : Nat, pushes : Nat, codes : {s.codes},
                  shapes : [Kinds -> SUBSET Shapes], overflow : Nat]
    BY <1>1, <2>2, <2>3
  <2>5. IsSummary(u) /\ CodesKept(u)
    BY <1>1, <2>4 DEF IsSummary, CodesKept
  <2>6. QED
    BY <1>2, <1>5, <2>4, <2>5 DEF Events, q
<1>6. CASE kind = "response"
  <2> DEFINE q == s.responses + 1
  <2>1. u = [s EXCEPT !.responses = q, !.codes = new]
    BY <1>1, <1>6 DEF CountEvent, new
  <2>2. q \in Nat
    BY <1>2
  <2> HIDE DEF q
  <2>3. /\ u.requests = s.requests /\ u.responses = q /\ u.pushes = s.pushes
        /\ u.codes = new /\ u.shapes = s.shapes /\ u.overflow = s.overflow
        /\ u \in [requests : Nat, responses : Nat, pushes : Nat, codes : {new},
                  shapes : [Kinds -> SUBSET Shapes], overflow : Nat]
    BY <1>1, <2>1, <2>2
  <2>4. IsSummary(u)
    BY <1>3, <2>3 DEF IsSummary
  <2>5. CodesKept(u)
    BY <1>2, <1>3, <1>4, <2>3 DEF CodesKept, q
  <2>6. QED
    BY <1>2, <1>6, <2>3, <2>4, <2>5 DEF Events, q
<1>7. CASE kind = "push"
  <2> DEFINE q == s.pushes + 1
  <2>1. u = [s EXCEPT !.pushes = q, !.codes = new]
    BY <1>1, <1>7 DEF CountEvent, new
  <2>2. q \in Nat
    BY <1>2
  <2> HIDE DEF q
  <2>3. /\ u.requests = s.requests /\ u.responses = s.responses /\ u.pushes = q
        /\ u.codes = new /\ u.shapes = s.shapes /\ u.overflow = s.overflow
        /\ u \in [requests : Nat, responses : Nat, pushes : Nat, codes : {new},
                  shapes : [Kinds -> SUBSET Shapes], overflow : Nat]
    BY <1>1, <2>1, <2>2
  <2>4. IsSummary(u)
    BY <1>3, <2>3 DEF IsSummary
  <2>5. CodesKept(u)
    BY <1>2, <1>3, <1>4, <2>3 DEF CodesKept, q
  <2>6. QED
    BY <1>2, <1>7, <2>3, <2>4, <2>5 DEF Events, q
<1>8. QED
  BY <1>5, <1>6, <1>7 DEF Kinds

\* An entry that has counted nothing.
LEMMA NewEntry ==
    /\ IsSummary(NewSummary) /\ CodesKept(NewSummary) /\ Events(NewSummary) = 0
    /\ NewSummary.overflow = 0 /\ NewSummary.requests = 0 /\ NewSummary.responses = 0
    /\ \A k \in Kinds : NewSummary.shapes[k] = {}
<1>1. /\ NewSummary.requests = 0 /\ NewSummary.responses = 0 /\ NewSummary.pushes = 0
      /\ NewSummary.codes = Empty /\ NewSummary.overflow = 0
      /\ NewSummary.shapes = [k \in Kinds |-> {}]
  BY DEF NewSummary
<1>2. DOMAIN Empty = {} /\ Empty \in [DOMAIN Empty -> Nat]
  BY DEF Empty
<1>3. Total(Empty) = 0
  BY <1>2, TotalOfZeros
<1>4. NewSummary \in [requests : Nat, responses : Nat, pushes : Nat, codes : {Empty},
                      shapes : [Kinds -> SUBSET Shapes], overflow : Nat]
  BY DEF NewSummary
<1>5. IsSummary(NewSummary)
  BY <1>1, <1>2, <1>4 DEF IsSummary
<1>6. Cardinality(DOMAIN Empty) = 0 /\ IsFiniteSet(DOMAIN Empty) /\ MaxCodes \in Nat
  BY <1>2, FS_EmptySet, InspectorAssumption
<1>7. CodesKept(NewSummary)
  BY <1>1, <1>3, <1>6 DEF CodesKept
<1>8. QED
  BY <1>1, <1>5, <1>7 DEF Events

-----------------------------------------------------------------------------
(* The entries of the catalogue.                                           *)

IsEntry(s) == IsSummary(s) /\ CodesKept(s) /\ \A k \in Kinds : IsFiniteSet(s.shapes[k])
IsCommands(C) ==
    /\ C = [c \in DOMAIN C |-> C[c]] /\ IsFiniteSet(DOMAIN C)
    /\ \A c \in DOMAIN C : c \in Commands /\ IsEntry(C[c])

EventsOf(C) == Total([c \in DOMAIN C |-> Events(C[c])])
OverflowOf(C) == Total([c \in DOMAIN C |-> C[c].overflow])
ShapesOf(C) == {t \in (DOMAIN C) \X Kinds \X Shapes : t[3] \in C[t[1]].shapes[t[2]]}
BytesOf(C) == Total([t \in ShapesOf(C) |-> Bytes[t[3]]])

LEMMA EntryFacts ==
    ASSUME NEW s, IsEntry(s)
    PROVE  /\ s.requests \in Nat /\ s.responses \in Nat /\ s.pushes \in Nat /\ s.overflow \in Nat
           /\ Events(s) \in Nat /\ s.shapes \in [Kinds -> SUBSET Shapes]
<1>1. /\ s.requests \in Nat /\ s.responses \in Nat /\ s.pushes \in Nat /\ s.overflow \in Nat
      /\ s.shapes \in [Kinds -> SUBSET Shapes]
  BY DEF IsEntry, IsSummary
<1>2. QED
  BY <1>1 DEF Events

\* Sums over the entries are numbers.
LEMMA SumTypes ==
    ASSUME NEW C, IsCommands(C)
    PROVE  /\ [c \in DOMAIN C |-> Events(C[c])] \in [DOMAIN C -> Nat]
           /\ [c \in DOMAIN C |-> C[c].overflow] \in [DOMAIN C -> Nat]
           /\ EventsOf(C) \in Nat /\ OverflowOf(C) \in Nat
<1> DEFINE K == DOMAIN C
           f == [c \in K |-> Events(C[c])]
           g == [c \in K |-> C[c].overflow]
<1>1. \A c \in K : Events(C[c]) \in Nat /\ C[c].overflow \in Nat
  BY EntryFacts DEF IsCommands
<1>2. f \in [K -> Nat] /\ g \in [K -> Nat] /\ IsFiniteSet(K)
  BY <1>1 DEF IsCommands
<1>3. Total(f) \in Nat /\ Total(g) \in Nat
  <2> HIDE DEF f, g, K
  <2>1. QED
    BY <1>2, UnitsFinite
<1>4. QED
  BY <1>2, <1>3 DEF EventsOf, OverflowOf

\* One entry changes.
LEMMA EntryChanges ==
    ASSUME NEW C, IsCommands(C), NEW cmd \in DOMAIN C, NEW s, IsEntry(s),
           NEW D, D = [C EXCEPT ![cmd] = s]
    PROVE  /\ IsCommands(D) /\ DOMAIN D = DOMAIN C /\ D[cmd] = s
           /\ \A c \in DOMAIN C \ {cmd} : D[c] = C[c]
           /\ EventsOf(D) = EventsOf(C) - Events(C[cmd]) + Events(s)
           /\ OverflowOf(D) = OverflowOf(C) - C[cmd].overflow + s.overflow
           /\ s.shapes = C[cmd].shapes => ShapesOf(D) = ShapesOf(C)
<1>1. /\ DOMAIN D = DOMAIN C /\ D[cmd] = s /\ (\A c \in DOMAIN C \ {cmd} : D[c] = C[c])
      /\ D = [c \in DOMAIN D |-> D[c]]
  BY DEF IsCommands
<1>2. IsCommands(D)
  BY <1>1 DEF IsCommands
<1> DEFINE K == DOMAIN C
           f == [c \in DOMAIN C |-> Events(C[c])]     g == [c \in DOMAIN C |-> Events(D[c])]
           h == [c \in DOMAIN C |-> C[c].overflow]    i == [c \in DOMAIN C |-> D[c].overflow]
<1>3. IsFiniteSet(K) /\ cmd \in K
  BY DEF IsCommands
<1>4. f \in [K -> Nat] /\ h \in [K -> Nat]
  BY SumTypes
<1>5. g \in [K -> Nat] /\ i \in [K -> Nat]
  <2>1. \A c \in DOMAIN C : IsEntry(D[c])
    BY <1>1 DEF IsCommands
  <2>2. \A c \in DOMAIN C : Events(D[c]) \in Nat /\ D[c].overflow \in Nat
    BY <2>1, EntryFacts
  <2>3. QED
    BY <2>2
<1>6. /\ f[cmd] = Events(C[cmd]) /\ g[cmd] = Events(s) /\ h[cmd] = C[cmd].overflow /\ i[cmd] = s.overflow
      /\ \A c \in K \ {cmd} : g[c] = f[c] /\ i[c] = h[c]
  BY <1>1
<1>7. EventsOf(C) = Total(f) /\ EventsOf(D) = Total(g) /\ OverflowOf(C) = Total(h) /\ OverflowOf(D) = Total(i)
  BY <1>1 DEF EventsOf, OverflowOf
<1>8. Total(g) = Total(f) - f[cmd] + g[cmd] /\ Total(i) = Total(h) - h[cmd] + i[cmd]
  <2> HIDE DEF f, g, h, i, K
  <2>1. Total(g) = Total(f) - f[cmd] + g[cmd]
    BY <1>3, <1>4, <1>5, <1>6, TotalChanges
  <2>2. Total(i) = Total(h) - h[cmd] + i[cmd]
    BY <1>3, <1>4, <1>5, <1>6, TotalChanges
  <2>3. QED
    BY <2>1, <2>2
<1>9. s.shapes = C[cmd].shapes => ShapesOf(D) = ShapesOf(C)
  <2>1. SUFFICES ASSUME s.shapes = C[cmd].shapes PROVE ShapesOf(D) = ShapesOf(C)
    OBVIOUS
  <2>2. \A c \in DOMAIN C : D[c].shapes = C[c].shapes
    BY <1>1, <2>1
  <2>3. QED
    BY <1>1, <2>2 DEF ShapesOf
<1> HIDE DEF f, g, h, i, K
<1>10. QED
  BY <1>1, <1>2, <1>6, <1>7, <1>8, <1>9

\* A new entry comes.
LEMMA EntryComes ==
    ASSUME NEW C, IsCommands(C), NEW cmd \in Commands, cmd \notin DOMAIN C,
           NEW D, D = With(C, cmd, NewSummary)
    PROVE  /\ IsCommands(D) /\ DOMAIN D = DOMAIN C \cup {cmd} /\ D[cmd] = NewSummary
           /\ \A c \in DOMAIN C : D[c] = C[c]
           /\ EventsOf(D) = EventsOf(C) /\ OverflowOf(D) = OverflowOf(C)
           /\ ShapesOf(D) = ShapesOf(C)
           /\ Cardinality(DOMAIN C) \in Nat /\ Cardinality(DOMAIN D) = Cardinality(DOMAIN C) + 1
<1>1. /\ DOMAIN D = DOMAIN C \cup {cmd} /\ D[cmd] = NewSummary /\ (\A c \in DOMAIN C : D[c] = C[c])
      /\ D = [c \in DOMAIN D |-> D[c]]
  BY DEF With
<1>2. /\ IsFiniteSet(DOMAIN C) /\ Cardinality(DOMAIN C) \in Nat
      /\ IsFiniteSet(DOMAIN D) /\ Cardinality(DOMAIN D) = Cardinality(DOMAIN C) + 1
  <2>1. IsFiniteSet(DOMAIN C)
    BY DEF IsCommands
  <2>2. QED
    BY <1>1, <2>1, FS_AddElement, FS_CardinalityType
<1>3. IsEntry(NewSummary)
  BY NewEntry, FS_EmptySet DEF IsEntry
<1>4. IsCommands(D)
  BY <1>1, <1>2, <1>3 DEF IsCommands
<1> DEFINE K == DOMAIN C
           f == [c \in DOMAIN C |-> Events(C[c])]     g == [c \in DOMAIN D |-> Events(D[c])]
           h == [c \in DOMAIN C |-> C[c].overflow]    i == [c \in DOMAIN D |-> D[c].overflow]
<1>5. f \in [K -> Nat] /\ h \in [K -> Nat]
  BY SumTypes
<1>6. g \in [K \cup {cmd} -> Nat] /\ i \in [K \cup {cmd} -> Nat]
  <2>1. g \in [DOMAIN D -> Nat] /\ i \in [DOMAIN D -> Nat]
    BY <1>4, SumTypes
  <2>2. QED
    BY <1>1, <2>1
<1>7. /\ g[cmd] = 0 /\ i[cmd] = 0 /\ \A c \in K : g[c] = f[c] /\ i[c] = h[c]
  BY <1>1, NewEntry
<1>8. EventsOf(C) = Total(f) /\ EventsOf(D) = Total(g) /\ OverflowOf(C) = Total(h) /\ OverflowOf(D) = Total(i)
  BY DEF EventsOf, OverflowOf
<1>9. Total(g) = Total(f) + g[cmd] /\ Total(i) = Total(h) + i[cmd]
  <2>0. cmd \notin K /\ IsFiniteSet(K)
    BY <1>2
  <2> HIDE DEF f, g, h, i, K
  <2>1. Total(g) = Total(f) + g[cmd]
    BY <1>5, <1>6, <1>7, <2>0, TotalAdds
  <2>2. Total(i) = Total(h) + i[cmd]
    BY <1>5, <1>6, <1>7, <2>0, TotalAdds
  <2>3. QED
    BY <2>1, <2>2
<1>10. ShapesOf(D) = ShapesOf(C)
  BY <1>1, NewEntry DEF ShapesOf
<1> HIDE DEF f, g, h, i, K
<1>11. EventsOf(C) \in Nat /\ OverflowOf(C) \in Nat
  BY SumTypes
<1>12. QED
  BY <1>1, <1>2, <1>4, <1>7, <1>8, <1>9, <1>10, <1>11

\* A shape is added to an entry.
LEMMA ShapeComes ==
    ASSUME NEW C, IsCommands(C), IsFiniteSet(ShapesOf(C)), NEW cmd \in DOMAIN C,
           NEW kind \in Kinds, NEW shape \in Shapes, shape \notin C[cmd].shapes[kind],
           NEW s, s = [C[cmd] EXCEPT !.shapes[kind] = @ \cup {shape}]
    PROVE  /\ IsEntry(s) /\ Events(s) = Events(C[cmd]) /\ s.overflow = C[cmd].overflow
           /\ s.requests = C[cmd].requests /\ s.responses = C[cmd].responses
           /\ \A D : D = [C EXCEPT ![cmd] = s] =>
                 /\ IsFiniteSet(ShapesOf(D)) /\ Cardinality(ShapesOf(C)) \in Nat
                 /\ Cardinality(ShapesOf(D)) = Cardinality(ShapesOf(C)) + 1
                 /\ BytesOf(C) \in Nat /\ BytesOf(D) = BytesOf(C) + Bytes[shape]
<1> DEFINE o == C[cmd]
           H == [o.shapes EXCEPT ![kind] = @ \cup {shape}]
<1>1. IsEntry(o) /\ o.shapes \in [Kinds -> SUBSET Shapes]
  BY EntryFacts DEF IsCommands
<1>2. /\ o \in [requests : Nat, responses : Nat, pushes : Nat, codes : {o.codes},
                shapes : [Kinds -> SUBSET Shapes], overflow : Nat]
      /\ o.codes \in [DOMAIN o.codes -> Nat]
  BY <1>1 DEF IsEntry, IsSummary
<1>3. H \in [Kinds -> SUBSET Shapes] /\ H[kind] = o.shapes[kind] \cup {shape}
      /\ \A k \in Kinds \ {kind} : H[k] = o.shapes[k]
  BY <1>1
<1>4. s = [o EXCEPT !.shapes = H]
  BY <1>2
<1> HIDE DEF o, H
<1>5. /\ s.requests = o.requests /\ s.responses = o.responses /\ s.pushes = o.pushes
      /\ s.codes = o.codes /\ s.overflow = o.overflow /\ s.shapes = H
      /\ s \in [requests : Nat, responses : Nat, pushes : Nat, codes : {o.codes},
                shapes : [Kinds -> SUBSET Shapes], overflow : Nat]
  BY <1>2, <1>3, <1>4
<1>6. \A k \in Kinds : IsFiniteSet(H[k])
  <2>1. \A k \in Kinds : IsFiniteSet(o.shapes[k])
    BY <1>1 DEF IsEntry
  <2>2. IsFiniteSet(o.shapes[kind] \cup {shape})
    BY <2>1, FS_AddElement
  <2>3. QED
    BY <1>3, <2>1, <2>2
<1>7. IsEntry(s)
  <2>1. IsSummary(s)
    BY <1>2, <1>5 DEF IsSummary
  <2>2. CodesKept(s)
    BY <1>1, <1>5 DEF IsEntry, CodesKept
  <2>3. QED
    BY <1>5, <1>6, <2>1, <2>2 DEF IsEntry
<1>8. Events(s) = Events(o)
  BY <1>5 DEF Events
<1>9. ASSUME NEW D, D = [C EXCEPT ![cmd] = s]
      PROVE  /\ IsFiniteSet(ShapesOf(D)) /\ Cardinality(ShapesOf(C)) \in Nat
             /\ Cardinality(ShapesOf(D)) = Cardinality(ShapesOf(C)) + 1
             /\ BytesOf(C) \in Nat /\ BytesOf(D) = BytesOf(C) + Bytes[shape]
  <2> DEFINE S == ShapesOf(C)  t == <<cmd, kind, shape>>
  <2>1. /\ DOMAIN D = DOMAIN C /\ D[cmd].shapes = H
        /\ \A c \in DOMAIN C \ {cmd} : D[c] = C[c]
    BY <1>5, <1>9 DEF IsCommands
  <2>2. C[cmd].shapes = o.shapes
    BY DEF o
  <2>3. ShapesOf(D) = S \cup {t} /\ t \notin S
    <3>1. t \notin S
      BY DEF ShapesOf
    <3>2. t \in ShapesOf(D)
      BY <1>3, <2>1 DEF ShapesOf
    <3>3. ASSUME NEW x \in (DOMAIN C) \X Kinds \X Shapes, x # t
          PROVE  x \in ShapesOf(D) <=> x \in S
      <4>1. x = <<x[1], x[2], x[3]>> /\ x[1] \in DOMAIN C /\ x[2] \in Kinds /\ x[3] \in Shapes
        OBVIOUS
      <4>2. x[3] \in D[x[1]].shapes[x[2]] <=> x[3] \in C[x[1]].shapes[x[2]]
        <5>1. CASE x[1] # cmd
          BY <2>1, <4>1, <5>1
        <5>2. CASE x[1] = cmd /\ x[2] # kind
          BY <1>3, <2>1, <2>2, <4>1, <5>2
        <5>3. CASE x[1] = cmd /\ x[2] = kind
          <6>1. x[3] # shape
            BY <3>3, <4>1, <5>3
          <6>2. QED
            BY <1>3, <2>1, <2>2, <4>1, <5>3, <6>1
        <5>4. QED
          BY <5>1, <5>2, <5>3
      <4>3. QED
        BY <2>1, <4>2 DEF ShapesOf
    <3>4. S \subseteq (DOMAIN C) \X Kinds \X Shapes /\ ShapesOf(D) \subseteq (DOMAIN C) \X Kinds \X Shapes
      BY <2>1 DEF ShapesOf
    <3> HIDE DEF S, t
    <3>5. QED
      BY <3>1, <3>2, <3>3, <3>4
  <2>4. IsFiniteSet(S)
    OBVIOUS
  <2> DEFINE f == [x \in S |-> Bytes[x[3]]]  g == [x \in ShapesOf(D) |-> Bytes[x[3]]]
  <2>5. f \in [S -> Nat]
    <3>1. ASSUME NEW x \in S PROVE Bytes[x[3]] \in Nat
      <4>1. x[3] \in Shapes
        BY DEF ShapesOf
      <4>2. QED
        BY <4>1, InspectorAssumption
    <3>2. QED
      BY <3>1
  <2>6. g \in [S \cup {t} -> Nat] /\ g[t] = Bytes[shape] /\ \A x \in S : g[x] = f[x]
    <3>1. Bytes[t[3]] \in Nat /\ t[3] = shape
      BY InspectorAssumption
    <3>2. \A x \in S : Bytes[x[3]] \in Nat
      BY <2>5
    <3>3. g = [x \in S \cup {t} |-> Bytes[x[3]]]
      BY <2>3
    <3> HIDE DEF g, S, t
    <3>4. g \in [S \cup {t} -> Nat]
      BY <3>1, <3>2, <3>3
    <3>5. QED
      BY <3>1, <3>3, <3>4
  <2>7. BytesOf(C) = Total(f) /\ BytesOf(D) = Total(g)
    BY DEF BytesOf
  <2> HIDE DEF S, t, f, g
  <2>8. Total(g) = Total(f) + g[t] /\ Total(f) \in Nat
    BY <2>3, <2>4, <2>5, <2>6, TotalAdds, UnitsFinite
  <2>9. /\ IsFiniteSet(ShapesOf(D)) /\ Cardinality(S) \in Nat
        /\ Cardinality(ShapesOf(D)) = Cardinality(S) + 1
    BY <2>3, <2>4, FS_AddElement, FS_CardinalityType
  <2>10. QED
    BY <2>6, <2>7, <2>8, <2>9 DEF S
<1>10. QED
  BY <1>5, <1>7, <1>8, <1>9 DEF o

-----------------------------------------------------------------------------
(* The catalogue.                                                          *)

CatalogRecord(C) ==
    [unmatched : Nat, overflow_commands : Nat, overflow_shapes : Nat,
     shape_count : Nat, schema_bytes : Nat, commands : {C}]

Good(cat, n) ==
    /\ cat \in CatalogRecord(cat.commands) /\ IsCommands(cat.commands)
    /\ IsFiniteSet(ShapesOf(cat.commands))
    /\ Cardinality(DOMAIN cat.commands) <= MaxCommands
    /\ n = cat.unmatched + cat.overflow_commands + EventsOf(cat.commands)
    /\ cat.shape_count = Cardinality(ShapesOf(cat.commands)) /\ cat.shape_count <= MaxShapeCount
    /\ cat.schema_bytes = BytesOf(cat.commands) /\ cat.schema_bytes <= MaxSchemaBytes
    /\ cat.overflow_shapes = OverflowOf(cat.commands)

\* What Good says is what the property says.
LEMMA GoodMeans ==
    ASSUME NEW cat, NEW n, Good(cat, n)
    PROVE  IsCatalog(cat) /\ Consistent(cat, n)
<1>1. AllShapes(cat) = ShapesOf(cat.commands)
  BY DEF AllShapes, ShapesOf
<1>2. \A c \in DOMAIN cat.commands : c \in Commands /\ IsEntry(cat.commands[c])
  BY DEF Good, IsCommands
<1>3. IsCatalog(cat)
  BY <1>2 DEF Good, IsCatalog, CatalogRecord, IsCommands, IsEntry
<1>5. \A c \in DOMAIN cat.commands : CodesKept(cat.commands[c])
  BY <1>2 DEF IsEntry
<1>6. Consistent(cat, n)
  BY <1>1, <1>5 DEF Consistent, Good, CodesKept, EventsOf, OverflowOf, BytesOf
<1>7. QED
  BY <1>3, <1>6

\* The requests and the responses of a command.
Counts(cat, c) ==
    IF c \in DOMAIN cat.commands
    THEN <<cat.commands[c].requests, cat.commands[c].responses>> ELSE <<0, 0>>

\* The fields of a catalogue that gets other entries.
LEMMA CommandsSet ==
    ASSUME NEW cat, cat \in CatalogRecord(cat.commands), NEW D,
           NEW new, new = [cat EXCEPT !.commands = D]
    PROVE  /\ new \in CatalogRecord(D) /\ new.commands = D
           /\ new.unmatched = cat.unmatched /\ new.overflow_commands = cat.overflow_commands
           /\ new.shape_count = cat.shape_count /\ new.schema_bytes = cat.schema_bytes
           /\ new.overflow_shapes = cat.overflow_shapes
BY DEF CatalogRecord

\* The catalogue gets other entries with the same shapes.
LEMMA EntriesReplaced ==
    ASSUME NEW cat, NEW n \in Nat, Good(cat, n), NEW new, new \in CatalogRecord(new.commands),
           IsCommands(new.commands), Cardinality(DOMAIN new.commands) <= MaxCommands,
           ShapesOf(new.commands) = ShapesOf(cat.commands),
           new.unmatched = cat.unmatched, new.overflow_commands = cat.overflow_commands,
           new.shape_count = cat.shape_count, new.schema_bytes = cat.schema_bytes,
           new.overflow_shapes = OverflowOf(new.commands),
           NEW m \in Nat, m = n - EventsOf(cat.commands) + EventsOf(new.commands)
    PROVE  Good(new, m)
<1>2. cat.unmatched \in Nat /\ cat.overflow_commands \in Nat
  BY DEF CatalogRecord, Good
<1>5. EventsOf(cat.commands) \in Nat /\ EventsOf(new.commands) \in Nat
  BY SumTypes DEF Good
<1>6. BytesOf(new.commands) = BytesOf(cat.commands)
  BY DEF BytesOf
<1>7. n = cat.unmatched + cat.overflow_commands + EventsOf(cat.commands)
  BY DEF Good
<1>8. m = new.unmatched + new.overflow_commands + EventsOf(new.commands)
  BY <1>2, <1>5, <1>7
<1>9. QED
  BY <1>6, <1>8 DEF Good

\* A command gets its entry.
LEMMA CommandEnsured ==
    ASSUME NEW cat, NEW n \in Nat, Good(cat, n), NEW cmd \in Commands, Known(cat, cmd),
           NEW new, new = ensure_command(cat, cmd)
    PROVE  /\ Good(new, n) /\ DOMAIN new.commands = DOMAIN cat.commands \cup {cmd}
           /\ new.overflow_commands = cat.overflow_commands
           /\ \A c \in Commands : Counts(new, c) = Counts(cat, c)
<1>1. CASE cmd \in DOMAIN cat.commands
  <2>1. new = cat
    BY <1>1 DEF ensure_command
  <2>2. QED
    BY <1>1, <2>1
<1>2. CASE cmd \notin DOMAIN cat.commands
  <2> DEFINE C == cat.commands  D == With(cat.commands, cmd, NewSummary)
  <2>1. new = [cat EXCEPT !.commands = D]
    BY <1>2 DEF ensure_command
  <2>2. cat \in CatalogRecord(C) /\ cat.overflow_shapes \in Nat /\ IsCommands(C)
    BY DEF Good, CatalogRecord
  <2>d. D = With(C, cmd, NewSummary)
    OBVIOUS
  <2> HIDE DEF D
  <2>3. /\ new \in CatalogRecord(D) /\ new.commands = D
        /\ new.unmatched = cat.unmatched /\ new.overflow_commands = cat.overflow_commands
        /\ new.shape_count = cat.shape_count /\ new.schema_bytes = cat.schema_bytes
        /\ new.overflow_shapes = cat.overflow_shapes
    BY <2>1, <2>2, CommandsSet
  <2>4. /\ IsCommands(D) /\ DOMAIN D = DOMAIN C \cup {cmd} /\ D[cmd] = NewSummary
        /\ (\A c \in DOMAIN C : D[c] = C[c])
        /\ EventsOf(D) = EventsOf(C) /\ OverflowOf(D) = OverflowOf(C)
        /\ ShapesOf(D) = ShapesOf(C)
        /\ Cardinality(DOMAIN C) \in Nat /\ Cardinality(DOMAIN D) = Cardinality(DOMAIN C) + 1
    <3>1. IsCommands(C) /\ cmd \notin DOMAIN C /\ D = With(C, cmd, NewSummary)
      BY <1>2, <2>2, <2>d
    <3> HIDE DEF C
    <3>2. QED
      BY <3>1, EntryComes
  <2>5. Cardinality(DOMAIN D) <= MaxCommands
    BY <1>2, <2>4, InspectorAssumption DEF Known
  <2>6. OverflowOf(C) \in Nat /\ EventsOf(C) \in Nat
    BY <2>2, SumTypes
  <2>7. new.overflow_shapes = OverflowOf(D)
    BY <2>3, <2>4 DEF Good
  <2>8. n = n - EventsOf(C) + EventsOf(D)
    BY <2>4, <2>6
  <2>9. Good(new, n)
    BY <2>3, <2>4, <2>5, <2>7, <2>8, EntriesReplaced
  <2>10. NewSummary.requests = 0 /\ NewSummary.responses = 0
    BY DEF NewSummary
  <2>11. \A c \in Commands : Counts(new, c) = Counts(cat, c)
    BY <1>2, <2>3, <2>4, <2>10 DEF Counts
  <2>12. QED
    BY <2>3, <2>4, <2>9, <2>11
<1>3. QED
  BY <1>1, <1>2

WithEvent(cat, cmd, kind, code) == [cat EXCEPT !.commands[cmd] = CountEvent(@, kind, code)]

\* An entry counts an event.
LEMMA EventCounted ==
    ASSUME NEW cat, NEW n \in Nat, Good(cat, n), NEW cmd \in DOMAIN cat.commands, NEW kind \in Kinds, NEW code,
           NEW new, new = WithEvent(cat, cmd, kind, code)
    PROVE  /\ Good(new, n + 1) /\ DOMAIN new.commands = DOMAIN cat.commands
           /\ new.overflow_commands = cat.overflow_commands
           /\ \A c \in Commands \ {cmd} : Counts(new, c) = Counts(cat, c)
           /\ Counts(new, cmd)[1] = Counts(cat, cmd)[1] + (IF kind = "request" THEN 1 ELSE 0)
           /\ Counts(new, cmd)[2] = Counts(cat, cmd)[2] + (IF kind = "response" THEN 1 ELSE 0)
<1> DEFINE C == cat.commands  u == CountEvent(C[cmd], kind, code)  D == [C EXCEPT ![cmd] = u]
<1>1. cat \in CatalogRecord(C) /\ cat.overflow_shapes \in Nat /\ IsCommands(C)
      /\ Cardinality(DOMAIN C) <= MaxCommands
  BY DEF Good, CatalogRecord
<1>2. IsEntry(C[cmd])
  BY <1>1 DEF IsCommands
<1>3. /\ IsSummary(u) /\ CodesKept(u) /\ Events(u) = Events(C[cmd]) + 1
      /\ u.shapes = C[cmd].shapes /\ u.overflow = C[cmd].overflow
      /\ u.requests = C[cmd].requests + (IF kind = "request" THEN 1 ELSE 0)
      /\ u.responses = C[cmd].responses + (IF kind = "response" THEN 1 ELSE 0)
  BY <1>2, EventCounts DEF IsEntry
<1>4. new = [cat EXCEPT !.commands = D]
  BY <1>1 DEF CatalogRecord, WithEvent
<1> HIDE DEF u
<1>5. IsEntry(u)
  BY <1>2, <1>3 DEF IsEntry
<1>d. D = [C EXCEPT ![cmd] = u]
  OBVIOUS
<1> HIDE DEF D
<1>6. /\ IsCommands(D) /\ DOMAIN D = DOMAIN C /\ D[cmd] = u
      /\ (\A c \in DOMAIN C \ {cmd} : D[c] = C[c])
      /\ EventsOf(D) = EventsOf(C) - Events(C[cmd]) + Events(u)
      /\ OverflowOf(D) = OverflowOf(C) - C[cmd].overflow + u.overflow
      /\ ShapesOf(D) = ShapesOf(C)
  BY <1>1, <1>3, <1>5, <1>d, EntryChanges
<1>7. OverflowOf(C) \in Nat /\ EventsOf(C) \in Nat /\ Events(C[cmd]) \in Nat /\ C[cmd].overflow \in Nat
  BY <1>1, <1>2, SumTypes, EntryFacts
<1>8. OverflowOf(D) = OverflowOf(C) /\ n + 1 = n - EventsOf(C) + EventsOf(D)
  BY <1>3, <1>6, <1>7
<1>9. /\ new \in CatalogRecord(D) /\ new.commands = D
      /\ new.unmatched = cat.unmatched /\ new.overflow_commands = cat.overflow_commands
      /\ new.shape_count = cat.shape_count /\ new.schema_bytes = cat.schema_bytes
      /\ new.overflow_shapes = cat.overflow_shapes
  <2>1. cat \in CatalogRecord(C) /\ cat.commands = C
    BY <1>1
  <2> HIDE DEF C
  <2>2. QED
    BY <1>4, <2>1 DEF CatalogRecord
<1>g. Good(new, n + 1)
  <2>1. new.overflow_shapes = OverflowOf(D) /\ n + 1 \in Nat
    BY <1>8, <1>9 DEF Good
  <2>2. QED
    BY <1>1, <1>6, <1>8, <1>9, <2>1, EntriesReplaced
<1>10. Counts(new, cmd) = <<u.requests, u.responses>> /\ Counts(cat, cmd) = <<C[cmd].requests, C[cmd].responses>>
  BY <1>6, <1>9 DEF Counts
<1>11. \A c \in Commands \ {cmd} : Counts(new, c) = Counts(cat, c)
  BY <1>6, <1>9 DEF Counts
<1>12. QED
  BY <1>3, <1>6, <1>9, <1>g, <1>10, <1>11

\* An entry that rejects a shape.
LEMMA ShapeRejected ==
    ASSUME NEW o, IsEntry(o), NEW s, s = [o EXCEPT !.overflow = o.overflow + 1]
    PROVE  /\ IsEntry(s) /\ Events(s) = Events(o) /\ s.overflow = o.overflow + 1 /\ s.shapes = o.shapes
           /\ s.requests = o.requests /\ s.responses = o.responses
<1>1. /\ o \in [requests : Nat, responses : Nat, pushes : Nat, codes : {o.codes},
                shapes : [Kinds -> SUBSET Shapes], overflow : Nat]
      /\ o.codes \in [DOMAIN o.codes -> Nat]
  BY DEF IsEntry, IsSummary
<1> DEFINE x == o.overflow + 1
<1>2. x \in Nat /\ s = [o EXCEPT !.overflow = x]
  BY <1>1
<1> HIDE DEF x
<1>3. /\ s.requests = o.requests /\ s.responses = o.responses /\ s.pushes = o.pushes
      /\ s.codes = o.codes /\ s.overflow = x /\ s.shapes = o.shapes
      /\ s \in [requests : Nat, responses : Nat, pushes : Nat, codes : {o.codes},
                shapes : [Kinds -> SUBSET Shapes], overflow : Nat]
  BY <1>1, <1>2
<1>4. IsSummary(s)
  BY <1>1, <1>3 DEF IsSummary
<1>5. IsEntry(s)
  BY <1>3, <1>4 DEF IsEntry, CodesKept
<1>6. Events(s) = Events(o)
  BY <1>3 DEF Events
<1>7. QED
  BY <1>3, <1>5, <1>6 DEF x

\* A shape is recorded once, and only within the limits.
LEMMA ShapeRecorded ==
    ASSUME NEW cat, NEW n \in Nat, Good(cat, n), NEW cmd \in DOMAIN cat.commands, NEW kind \in Kinds,
           NEW shape \in Shapes \cup {"none"}, NEW new, new = record_shape(cat, cmd, kind, shape)
    PROVE  /\ Good(new, n) /\ DOMAIN new.commands = DOMAIN cat.commands
           /\ new.overflow_commands = cat.overflow_commands
           /\ \A c \in Commands : Counts(new, c) = Counts(cat, c)
<1> DEFINE C == cat.commands  o == C[cmd]
<1>1. /\ cat \in CatalogRecord(C) /\ cat.commands = C /\ IsCommands(C) /\ cmd \in DOMAIN C
      /\ Cardinality(DOMAIN C) <= MaxCommands /\ IsEntry(o)
      /\ cat.overflow_shapes = OverflowOf(C) /\ cat.schema_bytes = BytesOf(C)
      /\ cat.shape_count = Cardinality(ShapesOf(C)) /\ IsFiniteSet(ShapesOf(C))
  BY DEF Good, IsCommands
<1>2. /\ cat.unmatched \in Nat /\ cat.overflow_commands \in Nat /\ cat.overflow_shapes \in Nat
      /\ cat.shape_count \in Nat /\ cat.schema_bytes \in Nat
  BY <1>1 DEF CatalogRecord
<1>3. OverflowOf(C) \in Nat /\ EventsOf(C) \in Nat /\ Events(o) \in Nat /\ o.overflow \in Nat
  BY <1>1, SumTypes, EntryFacts
<1>4. CASE shape = "none" \/ shape \in o.shapes[kind]
  <2>1. new = cat
    BY <1>4 DEF record_shape
  <2>2. QED
    BY <2>1
<1>5. CASE shape # "none" /\ shape \notin o.shapes[kind] /\ OverLimit(cat, cmd, kind, shape)
  <2> DEFINE s == [o EXCEPT !.overflow = o.overflow + 1]  D == [C EXCEPT ![cmd] = s]
             x == cat.overflow_shapes + 1
  <2>1. new = [cat EXCEPT !.overflow_shapes = x, !.commands = D]
    <3>1. new = [cat EXCEPT !.overflow_shapes = @ + 1, !.commands[cmd].overflow = @ + 1]
      BY <1>5 DEF record_shape
    <3>2. QED
      BY <1>1, <3>1 DEF CatalogRecord
  <2>2. x \in Nat /\ D = [C EXCEPT ![cmd] = s] /\ s = [o EXCEPT !.overflow = o.overflow + 1]
    BY <1>2
  <2> HIDE DEF s, D, x
  <2>3. /\ new \in CatalogRecord(D) /\ new.commands = D
        /\ new.unmatched = cat.unmatched /\ new.overflow_commands = cat.overflow_commands
        /\ new.shape_count = cat.shape_count /\ new.schema_bytes = cat.schema_bytes
        /\ new.overflow_shapes = x
    <3> HIDE DEF C
    <3>1. QED
      BY <1>1, <2>1, <2>2 DEF CatalogRecord
  <2>4. /\ IsEntry(s) /\ Events(s) = Events(o) /\ s.overflow = o.overflow + 1 /\ s.shapes = o.shapes
        /\ s.requests = o.requests /\ s.responses = o.responses
    <3> HIDE DEF o
    <3>1. QED
      BY <1>1, <2>2, ShapeRejected
  <2>5. /\ IsCommands(D) /\ DOMAIN D = DOMAIN C /\ D[cmd] = s
        /\ (\A c \in DOMAIN C \ {cmd} : D[c] = C[c])
        /\ EventsOf(D) = EventsOf(C) - Events(o) + Events(s)
        /\ OverflowOf(D) = OverflowOf(C) - o.overflow + s.overflow
        /\ ShapesOf(D) = ShapesOf(C)
    <3>1. IsCommands(C) /\ cmd \in DOMAIN C /\ IsEntry(s) /\ D = [C EXCEPT ![cmd] = s]
      BY <1>1, <2>2, <2>4
    <3>2. s.shapes = C[cmd].shapes
      BY <2>4
    <3>3. QED
      BY <3>1, <3>2, EntryChanges
  <2>6. n = n - EventsOf(C) + EventsOf(D) /\ new.overflow_shapes = OverflowOf(D)
    BY <1>1, <1>3, <2>3, <2>4, <2>5 DEF x
  <2>7. Good(new, n)
    BY <1>1, <2>3, <2>5, <2>6, EntriesReplaced
  <2>8. \A c \in Commands : Counts(new, c) = Counts(cat, c)
    BY <1>1, <2>3, <2>4, <2>5 DEF Counts
  <2>9. QED
    BY <2>3, <2>5, <2>7, <2>8
<1>6. CASE shape # "none" /\ shape \notin o.shapes[kind] /\ ~OverLimit(cat, cmd, kind, shape)
  <2> DEFINE s == [C[cmd] EXCEPT !.shapes[kind] = @ \cup {shape}]  D == [C EXCEPT ![cmd] = s]
             x == cat.shape_count + 1  y == cat.schema_bytes + Bytes[shape]
  <2>0. shape \in Shapes /\ Bytes[shape] \in Nat
    BY <1>6, InspectorAssumption
  <2>1. new = [cat EXCEPT !.shape_count = x, !.schema_bytes = y, !.commands = D]
    <3>1. new = [cat EXCEPT !.shape_count = @ + 1, !.schema_bytes = @ + Bytes[shape],
                            !.commands[cmd].shapes[kind] = @ \cup {shape}]
      BY <1>6 DEF record_shape
    <3>2. QED
      BY <1>1, <3>1 DEF CatalogRecord
  <2>2. /\ x \in Nat /\ y \in Nat /\ D = [C EXCEPT ![cmd] = s]
        /\ s = [C[cmd] EXCEPT !.shapes[kind] = @ \cup {shape}]
    BY <1>2, <2>0
  <2>l. x <= MaxShapeCount /\ y <= MaxSchemaBytes
    BY <1>2, <1>6, <2>0, InspectorAssumption DEF OverLimit
  <2> HIDE DEF s, D, x, y
  <2>3. /\ new \in CatalogRecord(D) /\ new.commands = D
        /\ new.unmatched = cat.unmatched /\ new.overflow_commands = cat.overflow_commands
        /\ new.shape_count = x /\ new.schema_bytes = y
        /\ new.overflow_shapes = cat.overflow_shapes
    <3> HIDE DEF C
    <3>1. QED
      BY <1>1, <2>1, <2>2 DEF CatalogRecord
  <2>4. /\ IsEntry(s) /\ Events(s) = Events(o) /\ s.overflow = o.overflow
        /\ s.requests = o.requests /\ s.responses = o.responses
        /\ IsFiniteSet(ShapesOf(D)) /\ Cardinality(ShapesOf(C)) \in Nat
        /\ Cardinality(ShapesOf(D)) = Cardinality(ShapesOf(C)) + 1
        /\ BytesOf(C) \in Nat /\ BytesOf(D) = BytesOf(C) + Bytes[shape]
    <3>1. /\ IsCommands(C) /\ IsFiniteSet(ShapesOf(C)) /\ cmd \in DOMAIN C /\ shape \in Shapes
          /\ shape \notin C[cmd].shapes[kind]
          /\ s = [C[cmd] EXCEPT !.shapes[kind] = @ \cup {shape}]
      BY <1>1, <1>6, <2>0, <2>2
    <3>2. D = [C EXCEPT ![cmd] = s]
      BY <2>2
    <3> HIDE DEF C
    <3>3. /\ IsEntry(s) /\ Events(s) = Events(C[cmd]) /\ s.overflow = C[cmd].overflow
          /\ s.requests = C[cmd].requests /\ s.responses = C[cmd].responses
          /\ \A E : E = [C EXCEPT ![cmd] = s] =>
                /\ IsFiniteSet(ShapesOf(E)) /\ Cardinality(ShapesOf(C)) \in Nat
                /\ Cardinality(ShapesOf(E)) = Cardinality(ShapesOf(C)) + 1
                /\ BytesOf(C) \in Nat /\ BytesOf(E) = BytesOf(C) + Bytes[shape]
      BY <3>1, ShapeComes
    <3>4. /\ IsFiniteSet(ShapesOf(D)) /\ Cardinality(ShapesOf(C)) \in Nat
          /\ Cardinality(ShapesOf(D)) = Cardinality(ShapesOf(C)) + 1
          /\ BytesOf(C) \in Nat /\ BytesOf(D) = BytesOf(C) + Bytes[shape]
      BY <3>2, <3>3, Zenon
    <3>5. QED
      BY <3>3, <3>4
  <2>5. /\ IsCommands(D) /\ DOMAIN D = DOMAIN C /\ D[cmd] = s
        /\ (\A c \in DOMAIN C \ {cmd} : D[c] = C[c])
        /\ EventsOf(D) = EventsOf(C) - Events(o) + Events(s)
        /\ OverflowOf(D) = OverflowOf(C) - o.overflow + s.overflow
    <3>1. IsCommands(C) /\ cmd \in DOMAIN C /\ IsEntry(s) /\ D = [C EXCEPT ![cmd] = s]
      BY <1>1, <2>2, <2>4
    <3>2. QED
      BY <3>1, EntryChanges
  <2>6. EventsOf(D) = EventsOf(C) /\ OverflowOf(D) = OverflowOf(C)
    BY <1>3, <2>4, <2>5
  <2>7. new.shape_count = Cardinality(ShapesOf(D)) /\ new.schema_bytes = BytesOf(D)
    BY <1>1, <2>3, <2>4 DEF x, y
  <2>8. Good(new, n)
    <3>1. n = cat.unmatched + cat.overflow_commands + EventsOf(C)
      BY DEF Good
    <3>2. QED
      BY <1>1, <2>l, <2>3, <2>4, <2>5, <2>6, <2>7, <3>1 DEF Good
  <2>9. \A c \in Commands : Counts(new, c) = Counts(cat, c)
    BY <1>1, <2>3, <2>4, <2>5 DEF Counts
  <2>10. QED
    BY <2>3, <2>5, <2>8, <2>9
<1>7. QED
  BY <1>4, <1>5, <1>6

\* What an event of a command changes: its entry, or nothing but the overflow.
Filed(cat, new, cmd, kind) ==
    IF Known(cat, cmd)
    THEN /\ DOMAIN new.commands = DOMAIN cat.commands \cup {cmd}
         /\ new.overflow_commands = cat.overflow_commands
         /\ \A c \in Commands \ {cmd} : Counts(new, c) = Counts(cat, c)
         /\ Counts(new, cmd)[1] = Counts(cat, cmd)[1] + (IF kind = "request" THEN 1 ELSE 0)
         /\ Counts(new, cmd)[2] = Counts(cat, cmd)[2] + (IF kind = "response" THEN 1 ELSE 0)
    ELSE new.commands = cat.commands /\ new.overflow_commands = cat.overflow_commands + 1

\* An event that no entry counts is counted as unmatched or as overflow.
LEMMA OutsideCounted ==
    ASSUME NEW cat, NEW n \in Nat, Good(cat, n), NEW new,
           \/ new = [cat EXCEPT !.unmatched = @ + 1]
           \/ new = [cat EXCEPT !.overflow_commands = @ + 1]
    PROVE  /\ Good(new, n + 1) /\ new.commands = cat.commands
           /\ new = [cat EXCEPT !.unmatched = @ + 1] => new.overflow_commands = cat.overflow_commands
           /\ new = [cat EXCEPT !.overflow_commands = @ + 1] =>
                 new.overflow_commands = cat.overflow_commands + 1
<1> DEFINE C == cat.commands
<1>1. cat \in CatalogRecord(C) /\ IsCommands(C) /\ n = cat.unmatched + cat.overflow_commands + EventsOf(C)
  BY DEF Good
<1>2. cat.unmatched \in Nat /\ cat.overflow_commands \in Nat /\ EventsOf(C) \in Nat
  BY <1>1, SumTypes DEF CatalogRecord
<1> DEFINE u == cat.unmatched + 1  o == cat.overflow_commands + 1
<1>3. u \in Nat /\ o \in Nat
  BY <1>2
<1>4. CASE new = [cat EXCEPT !.unmatched = u]
  <2>1. /\ new \in CatalogRecord(C) /\ new.commands = C
        /\ new.unmatched = u /\ new.overflow_commands = cat.overflow_commands
        /\ new.shape_count = cat.shape_count /\ new.schema_bytes = cat.schema_bytes
        /\ new.overflow_shapes = cat.overflow_shapes
    <3> HIDE DEF u
    <3>1. QED
      BY <1>1, <1>3, <1>4 DEF CatalogRecord
  <2>2. n + 1 = new.unmatched + new.overflow_commands + EventsOf(C)
    BY <1>1, <1>2, <2>1
  <2>3. Good(new, n + 1)
    BY <2>1, <2>2 DEF Good
  <2>4. new # [cat EXCEPT !.overflow_commands = @ + 1]
    BY <1>1, <1>2, <2>1 DEF CatalogRecord
  <2>5. QED
    BY <2>1, <2>3, <2>4
<1>5. CASE new = [cat EXCEPT !.overflow_commands = o]
  <2>1. /\ new \in CatalogRecord(C) /\ new.commands = C
        /\ new.unmatched = cat.unmatched /\ new.overflow_commands = o
        /\ new.shape_count = cat.shape_count /\ new.schema_bytes = cat.schema_bytes
        /\ new.overflow_shapes = cat.overflow_shapes
    <3> HIDE DEF o
    <3>1. QED
      BY <1>1, <1>3, <1>5 DEF CatalogRecord
  <2>2. n + 1 = new.unmatched + new.overflow_commands + EventsOf(C)
    BY <1>1, <1>2, <2>1
  <2>3. Good(new, n + 1)
    BY <2>1, <2>2 DEF Good
  <2>4. new # [cat EXCEPT !.unmatched = @ + 1]
    BY <1>1, <1>2, <2>1 DEF CatalogRecord
  <2>5. QED
    BY <2>1, <2>3, <2>4
<1>6. QED
  BY <1>1, <1>4, <1>5 DEF CatalogRecord

\* observe_command counts one event.
LEMMA CommandObserved ==
    ASSUME NEW cat, NEW n \in Nat, Good(cat, n), NEW cmd \in Commands, NEW kind \in Kinds,
           NEW r \in Records, NEW new, new = observe_command(cat, cmd, kind, r)
    PROVE  Good(new, n + 1) /\ Filed(cat, new, cmd, kind)
<1>1. CASE Known(cat, cmd)
  <2> DEFINE a == ensure_command(cat, cmd)
             b == [a EXCEPT !.commands[cmd] = CountEvent(@, kind, r.code)]
  <2>1. new = record_shape(b, cmd, kind, r.body)
    BY <1>1 DEF observe_command
  <2>2. /\ Good(a, n) /\ DOMAIN a.commands = DOMAIN cat.commands \cup {cmd}
        /\ a.overflow_commands = cat.overflow_commands
        /\ \A c \in Commands : Counts(a, c) = Counts(cat, c)
    BY <1>1, CommandEnsured
  <2> HIDE DEF a
  <2>b. b = WithEvent(a, cmd, kind, r.code)
    BY DEF WithEvent
  <2>3. /\ Good(b, n + 1) /\ DOMAIN b.commands = DOMAIN a.commands
        /\ b.overflow_commands = a.overflow_commands
        /\ (\A c \in Commands \ {cmd} : Counts(b, c) = Counts(a, c))
        /\ Counts(b, cmd)[1] = Counts(a, cmd)[1] + (IF kind = "request" THEN 1 ELSE 0)
        /\ Counts(b, cmd)[2] = Counts(a, cmd)[2] + (IF kind = "response" THEN 1 ELSE 0)
    <3>1. Good(a, n) /\ cmd \in DOMAIN a.commands
      BY <2>2
    <3> HIDE DEF b
    <3>2. QED
      BY <2>b, <3>1, EventCounted
  <2> HIDE DEF b
  <2>4. r.body \in Shapes \cup {"none"} /\ n + 1 \in Nat /\ cmd \in DOMAIN b.commands
    BY <2>2, <2>3, InspectorAssumption
  <2>5. /\ Good(new, n + 1) /\ DOMAIN new.commands = DOMAIN b.commands
        /\ new.overflow_commands = b.overflow_commands
        /\ \A c \in Commands : Counts(new, c) = Counts(b, c)
    BY <2>1, <2>3, <2>4, ShapeRecorded
  <2>6. QED
    BY <1>1, <2>2, <2>3, <2>5 DEF Filed
<1>2. CASE ~Known(cat, cmd)
  <2>1. new = [cat EXCEPT !.overflow_commands = @ + 1]
    BY <1>2 DEF observe_command
  <2>2. Good(new, n + 1) /\ new.commands = cat.commands
        /\ new.overflow_commands = cat.overflow_commands + 1
    BY <2>1, OutsideCounted
  <2>3. QED
    BY <1>2, <2>2 DEF Filed
<1>3. QED
  BY <1>1, <1>2

\* What a record does to the catalogue, by what it is.
Effect(cat, new, r, matched) ==
    CASE Countable(r) /\ IsRequest(r) -> Filed(cat, new, r.cmd, "request")
      [] Countable(r) /\ IsResponse(r) /\ matched # "none" -> Filed(cat, new, matched, "response")
      [] Countable(r) /\ ~IsRequest(r) /\ ~IsResponse(r) -> Filed(cat, new, r.cmd, "push")
      [] OTHER -> new.commands = cat.commands /\ new.overflow_commands = cat.overflow_commands

\* observe counts every event once.
LEMMA RecordObserved ==
    ASSUME NEW cat, NEW n \in Nat, Good(cat, n), NEW r \in Records,
           NEW matched \in Commands \cup {"none"}, NEW new, new = observe(cat, r, matched)
    PROVE  /\ Good(new, n + (IF Countable(r) THEN 1 ELSE 0))
           /\ Effect(cat, new, r, matched)
<1>1. /\ r.dir \in {"c2s", "s2c"} /\ r.seq \in Nat /\ r.resp \in Nat
      /\ r.cmd \in Cmds \cup {"none", "long"}
      /\ "none" \notin Commands /\ "long" \notin Cmds /\ Cmds \subseteq Commands
  BY InspectorAssumption DEF Commands, Unknown
<1>2. CASE decode_error(r) \/ r.opcode # "binary"
  <2>1. new = cat /\ ~Countable(r)
    BY <1>2 DEF observe, Countable
  <2>2. n + 0 = n
    OBVIOUS
  <2>3. QED
    BY <2>1, <2>2 DEF Effect
<1>3. CASE ~decode_error(r) /\ r.opcode = "binary" /\ IsRequest(r) /\ r.cmd # "none"
  <2>1. Countable(r) /\ ~IsResponse(r) /\ r.cmd \in Commands
    BY <1>1, <1>3 DEF Countable, IsRequest, IsResponse, decode_error
  <2>2. new = observe_command(cat, r.cmd, "request", r)
    BY <1>3, <2>1 DEF observe, IsRequest
  <2>3. Good(new, n + 1) /\ Filed(cat, new, r.cmd, "request")
    BY <2>1, <2>2, CommandObserved DEF Kinds
  <2>4. QED
    BY <1>3, <2>1, <2>3 DEF Effect
<1>4. CASE ~decode_error(r) /\ r.opcode = "binary" /\ IsResponse(r) /\ matched = "none"
  <2>1. Countable(r) /\ ~IsRequest(r)
    BY <1>1, <1>4 DEF Countable, IsRequest, IsResponse
  <2>2. new = [cat EXCEPT !.unmatched = @ + 1]
    BY <1>1, <1>4, <2>1 DEF observe, IsResponse
  <2>3. Good(new, n + 1) /\ new.commands = cat.commands /\ new.overflow_commands = cat.overflow_commands
    BY <2>2, OutsideCounted
  <2>4. QED
    BY <1>4, <2>1, <2>3 DEF Effect
<1>5. CASE ~decode_error(r) /\ r.opcode = "binary" /\ IsResponse(r) /\ matched # "none"
  <2>1. Countable(r) /\ ~IsRequest(r) /\ matched \in Commands
    BY <1>1, <1>5 DEF Countable, IsRequest, IsResponse
  <2>2. new = observe_command(cat, matched, "response", r)
    BY <1>1, <1>5, <2>1 DEF observe, IsResponse
  <2>3. Good(new, n + 1) /\ Filed(cat, new, matched, "response")
    BY <2>1, <2>2, CommandObserved DEF Kinds
  <2>4. QED
    BY <1>5, <2>1, <2>3 DEF Effect
<1>6. CASE /\ ~decode_error(r) /\ r.opcode = "binary" /\ r.dir = "s2c" /\ r.resp = 0 /\ r.cmd # "none"
  <2>1. Countable(r) /\ ~IsRequest(r) /\ ~IsResponse(r) /\ r.cmd \in Commands
    BY <1>1, <1>6 DEF Countable, IsRequest, IsResponse, decode_error
  <2>2. new = observe_command(cat, r.cmd, "push", r)
    BY <1>1, <1>6, <2>1 DEF observe
  <2>3. Good(new, n + 1) /\ Filed(cat, new, r.cmd, "push")
    BY <2>1, <2>2, CommandObserved DEF Kinds
  <2>4. QED
    BY <1>6, <2>1, <2>3 DEF Effect
<1>7. CASE /\ ~decode_error(r) /\ r.opcode = "binary"
           /\ ~(IsRequest(r) /\ r.cmd # "none") /\ ~IsResponse(r)
           /\ ~(r.dir = "s2c" /\ r.resp = 0 /\ r.cmd # "none")
  <2>1. new = cat /\ ~Countable(r)
    BY <1>7 DEF observe, Countable
  <2>2. n + 0 = n
    OBVIOUS
  <2>3. QED
    BY <2>1, <2>2 DEF Effect
<1>8. QED
  BY <1>2, <1>3, <1>4, <1>5, <1>6, <1>7

-----------------------------------------------------------------------------
(* Responses and the requests they answer.                                 *)

\* A command's responses and its n requests that still wait for one are no more than
\* its requests; a command that waits and has no entry came when the catalogue was full.
Waiting(c) == {k \in DOMAIN pending : pending[k].cmd = c}
Covered(cat, c, n) ==
    IF c \in DOMAIN cat.commands THEN Counts(cat, c)[2] + n <= Counts(cat, c)[1]
    ELSE n # 0 => Cardinality(DOMAIN cat.commands) >= MaxCommands

LEMMA CountsTypes ==
    ASSUME NEW cat, NEW n, Good(cat, n), NEW c
    PROVE  /\ Counts(cat, c)[1] \in Nat /\ Counts(cat, c)[2] \in Nat
           /\ IsFiniteSet(DOMAIN cat.commands) /\ Cardinality(DOMAIN cat.commands) \in Nat
           /\ cat.overflow_commands \in Nat
<1>1. IsCommands(cat.commands) /\ IsFiniteSet(DOMAIN cat.commands)
  BY DEF Good, IsCommands
<1>2. Cardinality(DOMAIN cat.commands) \in Nat /\ cat.overflow_commands \in Nat
  BY <1>1, FS_CardinalityType DEF Good, CatalogRecord
<1>3. CASE c \in DOMAIN cat.commands
  <2>1. cat.commands[c].requests \in Nat /\ cat.commands[c].responses \in Nat
    BY <1>1, <1>3, EntryFacts DEF IsCommands
  <2>2. QED
    BY <1>1, <1>2, <1>3, <2>1 DEF Counts
<1>4. CASE c \notin DOMAIN cat.commands
  BY <1>1, <1>2, <1>4 DEF Counts
<1>5. QED
  BY <1>3, <1>4

\* An event keeps a command covered: a request adds one that waits, and a response
\* answers one that waited.
LEMMA CoverKept ==
    ASSUME NEW cat, NEW n, Good(cat, n), NEW new, NEW m, Good(new, m), NEW cmd \in Commands,
           NEW kind \in Kinds, Filed(cat, new, cmd, kind), NEW c \in Commands,
           NEW a \in Nat, NEW b \in Nat, Covered(cat, c, a),
           b <= a + (IF kind = "request" /\ c = cmd THEN 1 ELSE 0),
           kind = "response" /\ c = cmd => a > 0 /\ b = a - 1
    PROVE  Covered(new, c, b)
<1> DEFINE Q == Counts(cat, c)[1]  R == Counts(cat, c)[2]  Q2 == Counts(new, c)[1]  R2 == Counts(new, c)[2]
           d == Cardinality(DOMAIN cat.commands)  d2 == Cardinality(DOMAIN new.commands)
<1>1. Q \in Nat /\ R \in Nat /\ Q2 \in Nat /\ R2 \in Nat /\ d \in Nat /\ d2 \in Nat /\ MaxCommands \in Nat
  BY CountsTypes, InspectorAssumption
<1>2. CASE Known(cat, cmd)
  <2>1. /\ DOMAIN new.commands = DOMAIN cat.commands \cup {cmd}
        /\ c # cmd => Q2 = Q /\ R2 = R
        /\ c = cmd => /\ Q2 = Q + (IF kind = "request" THEN 1 ELSE 0)
                      /\ R2 = R + (IF kind = "response" THEN 1 ELSE 0)
    BY <1>2 DEF Filed
  <2>2. d2 >= d
    <3>1. DOMAIN cat.commands \in SUBSET DOMAIN new.commands /\ IsFiniteSet(DOMAIN new.commands)
      BY <2>1, CountsTypes
    <3>2. QED
      BY <1>1, <3>1, FS_Subset
  <2>3. c \notin DOMAIN cat.commands => Q = 0 /\ R = 0
    BY DEF Counts
  <2> HIDE DEF Q, R, Q2, R2, d, d2
  <2>4. CASE c # cmd
    <3>1. c \in DOMAIN new.commands <=> c \in DOMAIN cat.commands
      BY <2>1, <2>4
    <3>2. CASE c \in DOMAIN cat.commands
      <4>1. R + a <= Q
        BY <3>2 DEF Covered, Q, R
      <4>2. R2 + b <= Q2
        BY <1>1, <2>1, <2>4, <4>1
      <4>3. QED
        BY <3>1, <3>2, <4>2 DEF Covered, Q2, R2
    <3>3. CASE c \notin DOMAIN cat.commands
      <4>1. a # 0 => d >= MaxCommands
        BY <3>3 DEF Covered, d
      <4>2. b # 0 => d2 >= MaxCommands
        BY <1>1, <2>2, <2>4, <4>1
      <4>3. QED
        BY <3>1, <3>3, <4>2 DEF Covered, d2
    <3>4. QED
      BY <3>2, <3>3
  <2>5. CASE c = cmd
    <3>1. c \in DOMAIN new.commands
      BY <2>1, <2>5
    <3>2. R + a <= Q
      <4>1. CASE c \in DOMAIN cat.commands
        BY <4>1 DEF Covered, Q, R
      <4>2. CASE c \notin DOMAIN cat.commands
        <5>1. a = 0
          BY <1>1, <1>2, <2>5, <4>2 DEF Covered, Known, d
        <5>2. QED
          BY <2>3, <4>2, <5>1
      <4>3. QED
        BY <4>1, <4>2
    <3>3. R2 + b <= Q2
      <4>1. CASE kind = "request"
        BY <1>1, <2>1, <2>5, <3>2, <4>1
      <4>2. CASE kind = "response"
        BY <1>1, <2>1, <2>5, <3>2, <4>2
      <4>3. CASE kind = "push"
        BY <1>1, <2>1, <2>5, <3>2, <4>3
      <4>4. QED
        BY <4>1, <4>2, <4>3 DEF Kinds
    <3>4. QED
      BY <3>1, <3>3 DEF Covered, Q2, R2
  <2>6. QED
    BY <2>4, <2>5
<1>3. CASE ~Known(cat, cmd)
  <2>1. new.commands = cat.commands /\ cmd \notin DOMAIN cat.commands /\ d >= MaxCommands
    BY <1>1, <1>3 DEF Filed, Known
  <2>2. Counts(new, c) = Counts(cat, c)
    BY <2>1 DEF Counts
  <2>3. CASE c \in DOMAIN cat.commands
    <3>1. b <= a
      BY <2>1, <2>3
    <3>2. R + a <= Q
      BY <2>3 DEF Covered
    <3> HIDE DEF Q, R
    <3>3. R + b <= Q
      BY <1>1, <3>1, <3>2
    <3>4. QED
      BY <2>1, <2>2, <2>3, <3>3 DEF Covered, Q, R
  <2>4. CASE c \notin DOMAIN cat.commands
    BY <2>1, <2>4 DEF Covered
  <2>5. QED
    BY <2>3, <2>4
<1>4. QED
  BY <1>2, <1>3

LEMMA CoverSame ==
    ASSUME NEW cat, NEW n, Good(cat, n), NEW new, new.commands = cat.commands, NEW c \in Commands,
           NEW a \in Nat, NEW b \in Nat, Covered(cat, c, a), b <= a
    PROVE  Covered(new, c, b)
<1> DEFINE Q == Counts(cat, c)[1]  R == Counts(cat, c)[2]
<1>1. Q \in Nat /\ R \in Nat
  BY CountsTypes
<1>2. Counts(new, c)[1] = Q /\ Counts(new, c)[2] = R
  BY DEF Counts
<1>3. CASE c \in DOMAIN cat.commands
  <2>1. R + a <= Q
    BY <1>3 DEF Covered
  <2> HIDE DEF Q, R
  <2>2. R + b <= Q
    BY <1>1, <2>1
  <2>3. QED
    BY <1>2, <1>3, <2>2 DEF Covered
<1>4. CASE c \notin DOMAIN cat.commands
  BY <1>4 DEF Covered
<1>5. QED
  BY <1>3, <1>4

\* How many requests of a command wait after a record.
LEMMA WaitingChanges ==
    ASSUME Matched, NEW r \in Records, pending' = inspect(r), NEW c \in Commands
    PROVE  /\ Cardinality(Waiting(c)) \in Nat /\ Cardinality(Waiting(c)') \in Nat
           /\ IsRequest(r) /\ PendingRequest(r).cmd = c =>
                 Cardinality(Waiting(c)') <= Cardinality(Waiting(c)) + 1
           /\ ~(IsRequest(r) /\ PendingRequest(r).cmd = c) =>
                 Cardinality(Waiting(c)') <= Cardinality(Waiting(c))
           /\ IsResponse(r) /\ matched_request(r) = c =>
                 /\ Cardinality(Waiting(c)) > 0
                 /\ Cardinality(Waiting(c)') = Cardinality(Waiting(c)) - 1
<1> DEFINE W == Waiting(c)  V == Waiting(c)'
<1>0. now \in Nat /\ pending \in [DOMAIN pending -> Requests] /\ IsFiniteSet(DOMAIN pending)
  BY DEF Matched
<1>1. W = {k \in DOMAIN pending : pending[k].cmd = c} /\ V = {k \in DOMAIN pending' : pending'[k].cmd = c}
  BY DEF Waiting
<1>2. W \in SUBSET DOMAIN pending
  BY <1>1
<1> HIDE DEF W, V
<1>3. IsFiniteSet(W) /\ Cardinality(W) \in Nat
  BY <1>0, <1>2, FS_Subset, FS_CardinalityType
<1>4. ASSUME V \subseteq W PROVE Cardinality(V) \in Nat /\ Cardinality(V) <= Cardinality(W)
  <2>1. V \in SUBSET W
    BY <1>4
  <2>2. QED
    BY <1>3, <2>1, FS_Subset, FS_CardinalityType
<1>5. CASE IsResponse(r)
  <2> DEFINE key == <<r.conn, r.resp>>
  <2>1. ~IsRequest(r) /\ pending' = Without(pending, key)
    BY <1>5 DEF inspect, IsRequest, IsResponse
  <2>2. V = W \ {key}
    BY <1>0, <1>1, <2>1 DEF Without
  <2>3. matched_request(r) = c => key \in W
    BY <1>1, <1>5, InspectorAssumption DEF matched_request, Commands, Unknown
  <2> HIDE DEF key
  <2>4. V \subseteq W
    BY <2>2
  <2>5. key \in W => Cardinality(V) = Cardinality(W) - 1 /\ Cardinality(W) > 0
    <3>1. SUFFICES ASSUME key \in W PROVE Cardinality(V) = Cardinality(W) - 1 /\ Cardinality(W) > 0
      OBVIOUS
    <3>2. Cardinality(V) = Cardinality(W) - 1
      BY <1>3, <2>2, <3>1, FS_RemoveElement
    <3>3. QED
      BY <1>3, <1>4, <2>4, <3>2
  <2>6. QED
    BY <1>3, <1>4, <2>1, <2>3, <2>4, <2>5 DEF W, V
<1>6. CASE IsRequest(r)
  <2> DEFINE key == <<r.conn, r.seq>>  new == PendingRequest(r)
  <2>1. ~IsResponse(r) /\ pending' = With(Evicted, key, new)
    BY <1>6 DEF inspect, IsRequest, IsResponse
  <2>2. DOMAIN Evicted \subseteq DOMAIN pending /\ \A k \in DOMAIN Evicted : Evicted[k] = pending[k]
    BY EvictedFacts
  <2> HIDE DEF key, new
  <2>3. /\ DOMAIN pending' = DOMAIN Evicted \cup {key} /\ pending'[key] = new
        /\ \A k \in DOMAIN Evicted \ {key} : pending'[k] = Evicted[k]
    BY <2>1 DEF With
  <2>4. V \subseteq W \cup {key}
    BY <1>1, <2>2, <2>3
  <2>5. new.cmd # c => V \subseteq W
    BY <1>1, <2>2, <2>3
  <2>6. /\ IsFiniteSet(W \cup {key}) /\ Cardinality(W \cup {key}) \in Nat
        /\ Cardinality(W \cup {key}) <= Cardinality(W) + 1
    <3>1. /\ IsFiniteSet(W \cup {key})
          /\ key \in W => W \cup {key} = W
          /\ key \notin W => Cardinality(W \cup {key}) = Cardinality(W) + 1
      BY <1>3, FS_AddElement
    <3>2. Cardinality(W \cup {key}) \in Nat
      BY <3>1, FS_CardinalityType
    <3>3. CASE key \in W
      <4>1. W \cup {key} = W
        BY <3>3
      <4>2. Cardinality(W \cup {key}) = Cardinality(W)
        BY <4>1, Zenon
      <4> DEFINE p == Cardinality(W \cup {key})  q == Cardinality(W)
      <4>3. p \in Nat /\ q \in Nat /\ p = q
        BY <1>3, <3>2, <4>2
      <4> HIDE DEF p, q
      <4>4. p <= q + 1
        BY <4>3
      <4>5. QED
        BY <3>1, <3>2, <4>4 DEF p, q
    <3>4. CASE key \notin W
      BY <1>3, <3>1, <3>2, <3>4
    <3>5. QED
      BY <3>3, <3>4
  <2>7. Cardinality(V) \in Nat /\ Cardinality(V) <= Cardinality(W) + 1
    <3>1. V \in SUBSET (W \cup {key})
      BY <2>4
    <3>2. IsFiniteSet(V) /\ Cardinality(V) <= Cardinality(W \cup {key})
      BY <2>6, <3>1, FS_Subset
    <3>3. Cardinality(V) \in Nat
      BY <3>2, FS_CardinalityType
    <3>4. QED
      BY <1>3, <2>6, <3>2, <3>3
  <2>8. new.cmd # c => Cardinality(V) <= Cardinality(W)
    BY <1>4, <2>5
  <2>9. PendingRequest(r) = new
    BY DEF new
  <2>10. QED
    BY <1>3, <1>6, <2>1, <2>7, <2>8, <2>9 DEF W, V
<1>7. CASE ~IsResponse(r) /\ ~IsRequest(r)
  <2>1. pending' = pending
    BY <1>7 DEF inspect
  <2>2. V \subseteq W
    BY <1>1, <2>1
  <2>3. QED
    BY <1>3, <1>4, <1>7, <2>2 DEF W, V
<1>8. QED
  BY <1>5, <1>6, <1>7

\* The responses that an event adds to a command.
LEMMA FiledResponses ==
    ASSUME NEW cat, NEW n, Good(cat, n), NEW new, NEW m, Good(new, m), NEW cmd \in Commands,
           NEW kind \in Kinds, Filed(cat, new, cmd, kind), NEW c \in Commands,
           NEW e, e = IF kind = "response" /\ c = cmd THEN 1 ELSE 0
    PROVE  /\ Counts(new, c)[2] <= Counts(cat, c)[2] + e
           /\ new.overflow_commands = 0 =>
                 cat.overflow_commands = 0 /\ Counts(new, c)[2] = Counts(cat, c)[2] + e
<1> DEFINE R == Counts(cat, c)[2]  R2 == Counts(new, c)[2]
<1>1. /\ R \in Nat /\ R2 \in Nat /\ cat.overflow_commands \in Nat /\ new.overflow_commands \in Nat
  BY CountsTypes
<1>2. CASE Known(cat, cmd)
  <2>1. /\ new.overflow_commands = cat.overflow_commands
        /\ c # cmd => R2 = R
        /\ c = cmd => R2 = R + (IF kind = "response" THEN 1 ELSE 0)
    BY <1>2 DEF Filed
  <2> HIDE DEF R, R2
  <2>2. R2 = R + e
    BY <1>1, <2>1
  <2>3. QED
    BY <1>1, <2>1, <2>2 DEF R, R2
<1>3. CASE ~Known(cat, cmd)
  <2>1. new.commands = cat.commands /\ new.overflow_commands = cat.overflow_commands + 1
    BY <1>3 DEF Filed
  <2>2. R2 = R
    BY <2>1 DEF Counts
  <2> HIDE DEF R, R2
  <2>3. R2 <= R + e /\ new.overflow_commands # 0
    BY <1>1, <2>1, <2>2
  <2>4. QED
    BY <2>3 DEF R, R2
<1>4. QED
  BY <1>2, <1>3

Attributed ==
    /\ \A c \in Commands : Counts(catalog, c)[2] <= answered[c]
    /\ \A c \in Cmds \ {Unknown} : Covered(catalog, c, Cardinality(Waiting(c)))
    /\ peak < MaxPending /\ catalog.overflow_commands = 0 =>
          \A c \in Commands : Counts(catalog, c)[2] = answered[c]

\* A response is matched to the open request of its number, or to none.
LEMMA MatchIsOpen ==
    ASSUME Matched, NEW r \in Records
    PROVE  /\ matched_request(r) \in Commands \cup {"none"}
           /\ matched_request(r) # "none" =>
                 /\ IsResponse(r) /\ <<r.conn, r.resp>> \in DOMAIN open
                 /\ open[<<r.conn, r.resp>>].cmd = matched_request(r)
           /\ peak < MaxPending /\ IsResponse(r) /\ matched_request(r) = "none" =>
                 <<r.conn, r.resp>> \notin DOMAIN open
<1> DEFINE key == <<r.conn, r.resp>>
<1>1. /\ pending \in [DOMAIN pending -> Requests]
      /\ (\A k \in DOMAIN pending : k \in DOMAIN open /\ pending[k] = open[k])
      /\ peak < MaxPending => pending = open
  BY DEF Matched, MatchingIsRight
<1>2. \A k \in DOMAIN pending : pending[k].cmd \in Commands
  BY <1>1 DEF Requests
<1>3. "none" \notin Commands
  BY InspectorAssumption DEF Commands, Unknown
<1> HIDE DEF key
<1>4. matched_request(r) = IF IsResponse(r) /\ key \in DOMAIN pending THEN pending[key].cmd ELSE "none"
  BY DEF matched_request, key
<1>5. QED
  BY <1>1, <1>2, <1>3, <1>4 DEF key

\* Responses stay credited to the commands whose requests they answer.
LEMMA AttributedKept ==
    ASSUME Matched, Matched', Good(catalog, counted), Good(catalog', counted'),
           answered \in [Commands -> Nat], Attributed, NEW r \in Records, Follow(r),
           pending' = inspect(r), now' = now, Effect(catalog, catalog', r, matched_request(r))
    PROVE  Attributed'
<1> DEFINE R(c) == Counts(catalog, c)[2]  R2(c) == Counts(catalog', c)[2]
           a(c) == IF Answers(r, c) THEN 1 ELSE 0
           mat == matched_request(r)
<1>1. /\ mat \in Commands \cup {"none"} /\ "none" \notin Commands
      /\ mat # "none" =>
            /\ IsResponse(r) /\ <<r.conn, r.resp>> \in DOMAIN open
            /\ open[<<r.conn, r.resp>>].cmd = mat
      /\ peak < MaxPending /\ IsResponse(r) /\ mat = "none" => <<r.conn, r.resp>> \notin DOMAIN open
  BY MatchIsOpen, InspectorAssumption DEF Commands, Unknown
<1>2. peak \in Nat /\ peak' \in Nat /\ peak' >= peak /\ MaxPending \in Nat
  <2>1. IsFiniteSet(DOMAIN open') /\ peak \in Nat
    BY DEF Matched
  <2>2. peak' = Max({peak, Cardinality(DOMAIN open')}) /\ Cardinality(DOMAIN open') \in Nat
    BY <2>1, FS_CardinalityType DEF Follow
  <2>3. QED
    BY <2>1, <2>2, MaxOfTwo, InspectorAssumption
<1>3. answered' = [c \in Commands |-> answered[c] + a(c)]
  BY DEF Follow
<1>4. ASSUME NEW c \in Commands
      PROVE  /\ R(c) \in Nat /\ R2(c) \in Nat /\ catalog.overflow_commands \in Nat
             /\ catalog'.overflow_commands \in Nat
  BY CountsTypes
<1>r. Countable(r) => ~decode_error(r)
  BY DEF Countable
<1>c. Countable(r) /\ ~IsResponse(r) => r.cmd \in Cmds /\ r.cmd \in Commands
  BY InspectorAssumption DEF Countable, decode_error, Commands
<1>x. ~(IsRequest(r) /\ IsResponse(r))
  BY DEF IsRequest, IsResponse
<1>k. "request" \in Kinds /\ "response" \in Kinds /\ "push" \in Kinds
  BY DEF Kinds
<1>e. /\ Countable(r) /\ IsRequest(r) => Filed(catalog, catalog', r.cmd, "request")
      /\ Countable(r) /\ IsResponse(r) /\ mat # "none" => Filed(catalog, catalog', mat, "response")
      /\ Countable(r) /\ ~IsRequest(r) /\ ~IsResponse(r) => Filed(catalog, catalog', r.cmd, "push")
      /\ ~Countable(r) \/ (IsResponse(r) /\ mat = "none") =>
            catalog'.commands = catalog.commands /\ catalog'.overflow_commands = catalog.overflow_commands
  BY <1>x DEF Effect
<1>5. ASSUME NEW c \in Commands
      PROVE  /\ R2(c) <= R(c) + a(c)
             /\ peak < MaxPending /\ catalog'.overflow_commands = 0 =>
                   catalog.overflow_commands = 0 /\ R2(c) = R(c) + a(c)
  <2>1. CASE Countable(r) /\ ~IsResponse(r)
    <3>1. a(c) = 0
      BY <2>1 DEF Answers
    <3>2. PICK kind \in {"request", "push"} : Filed(catalog, catalog', r.cmd, kind)
      BY <1>e, <2>1
    <3>3. kind \in Kinds /\ 0 = IF kind = "response" /\ c = r.cmd THEN 1 ELSE 0
      BY <3>2 DEF Kinds
    <3>4. /\ R2(c) <= R(c) + 0
          /\ catalog'.overflow_commands = 0 => catalog.overflow_commands = 0 /\ R2(c) = R(c) + 0
      BY <1>c, <2>1, <3>2, <3>3, FiledResponses
    <3>5. QED
      BY <3>1, <3>4
  <2>2. CASE Countable(r) /\ IsResponse(r) /\ mat # "none"
    <3>1. Answers(r, c) <=> c = mat
      BY <1>1, <1>r, <2>2 DEF Answers
    <3>2. a(c) = IF "response" = "response" /\ c = mat THEN 1 ELSE 0
      BY <3>1
    <3>3. Filed(catalog, catalog', mat, "response") /\ mat \in Commands
      BY <1>1, <1>e, <2>2
    <3> HIDE DEF a, mat
    <3>4. /\ R2(c) <= R(c) + a(c)
          /\ catalog'.overflow_commands = 0 => catalog.overflow_commands = 0 /\ R2(c) = R(c) + a(c)
      BY <1>k, <3>2, <3>3, FiledResponses
    <3>5. QED
      BY <3>4
  <2>3. CASE ~Countable(r) \/ (IsResponse(r) /\ mat = "none")
    <3>1. R2(c) = R(c) /\ catalog'.overflow_commands = catalog.overflow_commands
      BY <1>e, <2>3 DEF Counts
    <3>2. a(c) \in Nat
      OBVIOUS
    <3>3. peak < MaxPending => a(c) = 0
      <4>1. CASE ~Countable(r)
        <5>1. ~Answers(r, c)
          BY <4>1 DEF Answers, Countable, IsResponse
        <5>2. QED
          BY <5>1
      <4>2. CASE IsResponse(r) /\ mat = "none"
        <5>1. peak < MaxPending => ~Answers(r, c)
          BY <1>1, <4>2 DEF Answers
        <5>2. QED
          BY <5>1
      <4>3. QED
        BY <2>3, <4>1, <4>2
    <3> HIDE DEF a, R, R2
    <3>4. QED
      BY <1>4, <3>1, <3>2, <3>3
  <2>4. QED
    BY <2>1, <2>2, <2>3
<1>6. ASSUME NEW c \in Commands
      PROVE  /\ R2(c) <= answered'[c]
             /\ peak' < MaxPending /\ catalog'.overflow_commands = 0 => R2(c) = answered'[c]
  <2>1. answered'[c] = answered[c] + a(c) /\ answered[c] \in Nat /\ a(c) \in Nat
    BY <1>3
  <2>2. /\ R(c) <= answered[c]
        /\ peak < MaxPending /\ catalog.overflow_commands = 0 => R(c) = answered[c]
    BY DEF Attributed
  <2>3. R(c) \in Nat /\ R2(c) \in Nat
    BY <1>4
  <2>4. /\ R2(c) <= R(c) + a(c)
        /\ peak < MaxPending /\ catalog'.overflow_commands = 0 =>
              catalog.overflow_commands = 0 /\ R2(c) = R(c) + a(c)
    BY <1>5
  <2> HIDE DEF R, R2, a
  <2>5. QED
    BY <1>2, <2>1, <2>2, <2>3, <2>4
<1>7. ASSUME NEW c \in Cmds \ {Unknown}
      PROVE  Covered(catalog', c, Cardinality(Waiting(c)'))
  <2> DEFINE w == Cardinality(Waiting(c))  v == Cardinality(Waiting(c)')
  <2>1. c \in Commands /\ Covered(catalog, c, w)
    BY DEF Commands, Attributed
  <2>2. /\ w \in Nat /\ v \in Nat
        /\ IsRequest(r) /\ PendingRequest(r).cmd = c => v <= w + 1
        /\ ~(IsRequest(r) /\ PendingRequest(r).cmd = c) => v <= w
        /\ IsResponse(r) /\ mat = c => w > 0 /\ v = w - 1
    BY <2>1, WaitingChanges
  <2> HIDE DEF w, v
  <2>3. CASE Countable(r) /\ IsRequest(r)
    <3>1. r.cmd \in Commands /\ PendingRequest(r).cmd = r.cmd
      BY <1>c, <1>x, <2>3 DEF PendingRequest
    <3>2. v <= w + (IF "request" = "request" /\ c = r.cmd THEN 1 ELSE 0)
      BY <2>2, <2>3, <3>1
    <3>3. Filed(catalog, catalog', r.cmd, "request")
      BY <1>e, <2>3
    <3>4. Covered(catalog', c, v)
      BY <1>k, <2>1, <2>2, <3>1, <3>2, <3>3, CoverKept
    <3>5. QED
      BY <3>4 DEF v
  <2>4. CASE Countable(r) /\ IsResponse(r) /\ mat # "none"
    <3>1. Filed(catalog, catalog', mat, "response") /\ mat \in Commands
      BY <1>1, <1>e, <2>4
    <3>2. v <= w + (IF "response" = "request" /\ c = mat THEN 1 ELSE 0)
      BY <1>x, <2>2, <2>4
    <3>3. "response" = "response" /\ c = mat => w > 0 /\ v = w - 1
      BY <2>2, <2>4
    <3> HIDE DEF mat
    <3>4. Covered(catalog', c, v)
      BY <1>k, <2>1, <2>2, <3>1, <3>2, <3>3, CoverKept
    <3>5. QED
      BY <3>4 DEF v
  <2>5. CASE Countable(r) /\ ~IsRequest(r) /\ ~IsResponse(r)
    <3>1. Filed(catalog, catalog', r.cmd, "push") /\ r.cmd \in Commands
      BY <1>c, <1>e, <2>5
    <3>2. v <= w + (IF "push" = "request" /\ c = r.cmd THEN 1 ELSE 0)
      BY <2>2, <2>5
    <3>3. Covered(catalog', c, v)
      BY <1>k, <2>1, <2>2, <3>1, <3>2, CoverKept
    <3>4. QED
      BY <3>3 DEF v
  <2>6. CASE ~Countable(r) \/ (IsResponse(r) /\ mat = "none")
    <3>1. v <= w
      <4>1. IsRequest(r) /\ ~Countable(r) => PendingRequest(r).cmd = Unknown
        BY InspectorAssumption DEF Countable, IsRequest, decode_error, PendingRequest
      <4>2. QED
        BY <1>x, <2>2, <2>6, <4>1
    <3>2. catalog'.commands = catalog.commands
      BY <1>e, <2>6
    <3>3. Covered(catalog', c, v)
      BY <2>1, <2>2, <3>1, <3>2, CoverSame
    <3>4. QED
      BY <3>3 DEF v
  <2>7. QED
    BY <2>3, <2>4, <2>5, <2>6
<1>8. QED
  BY <1>6, <1>7 DEF Attributed

-----------------------------------------------------------------------------
(* The invariant and the theorems.                                         *)

IInv ==
    /\ Matched /\ Good(catalog, counted) /\ Attributed
    /\ done \in Nat /\ counted \in Nat /\ answered \in [Commands -> Nat]

LEMMA InitInv == Init => IInv
<1> SUFFICES ASSUME Init PROVE IInv
  OBVIOUS
<1>1. /\ now = 0 /\ pending = Empty /\ catalog = NewCatalog /\ done = 0
      /\ open = Empty /\ peak = 0 /\ answered = [c \in Commands |-> 0] /\ counted = 0
  BY DEF Init
<1>2. DOMAIN Empty = {} /\ Empty \in [{} -> Requests] /\ Empty = [c \in DOMAIN Empty |-> Empty[c]]
  BY DEF Empty
<1>3. IsFiniteSet({}) /\ Cardinality({}) = 0
  BY FS_EmptySet
<1>4. {MaxPending, MaxCommands, MaxShapeCount, MaxSchemaBytes} \subseteq Nat
  BY InspectorAssumption
<1>5. Matched
  BY <1>1, <1>2, <1>3, <1>4 DEF Matched, PeakHolds, MatchingIsRight
<1>6. /\ catalog \in CatalogRecord(Empty) /\ catalog.commands = Empty
      /\ catalog.unmatched = 0 /\ catalog.overflow_commands = 0 /\ catalog.overflow_shapes = 0
      /\ catalog.shape_count = 0 /\ catalog.schema_bytes = 0
  BY <1>1 DEF NewCatalog, CatalogRecord
<1>7. IsCommands(Empty) /\ ShapesOf(Empty) = {}
  BY <1>2, <1>3 DEF IsCommands, ShapesOf
<1>8. EventsOf(Empty) = 0 /\ OverflowOf(Empty) = 0 /\ BytesOf(Empty) = 0
  BY <1>2, <1>7, TotalOfZeros DEF EventsOf, OverflowOf, BytesOf
<1>9. Good(catalog, counted)
  BY <1>1, <1>2, <1>3, <1>4, <1>6, <1>7, <1>8 DEF Good
<1>10. Attributed
  <2>1. \A c : Counts(catalog, c) = <<0, 0>> /\ c \notin DOMAIN catalog.commands
    BY <1>2, <1>6 DEF Counts
  <2>2. \A c : Cardinality(Waiting(c)) = 0
    BY <1>1, <1>2, <1>3 DEF Waiting
  <2>3. QED
    BY <1>1, <2>1, <2>2 DEF Attributed, Covered
<1>11. QED
  BY <1>1, <1>5, <1>9, <1>10 DEF IInv

LEMMA ProcessInv == ASSUME IInv, NEW r \in Records, Process(r) PROVE IInv'
<1>1. /\ done' = done + 1 /\ pending' = inspect(r) /\ Follow(r) /\ now' = now
      /\ catalog' = observe(catalog, r, matched_request(r))
  BY DEF Process
<1>2. /\ Matched /\ Good(catalog, counted) /\ Attributed
      /\ done \in Nat /\ counted \in Nat /\ answered \in [Commands -> Nat]
  BY DEF IInv
<1>3. Matched'
  BY <1>1, <1>2, MatchedKept
<1>4. /\ counted' = counted + (IF Countable(r) THEN 1 ELSE 0)
      /\ answered' = [c \in Commands |-> answered[c] + (IF Answers(r, c) THEN 1 ELSE 0)]
  BY <1>1 DEF Follow
<1>5. matched_request(r) \in Commands \cup {"none"}
  BY <1>2, MatchIsOpen
<1>6. Good(catalog', counted') /\ Effect(catalog, catalog', r, matched_request(r))
  BY <1>1, <1>2, <1>4, <1>5, RecordObserved
<1>7. Attributed'
  BY <1>1, <1>2, <1>3, <1>6, AttributedKept
<1>8. counted' \in Nat /\ done' \in Nat /\ answered' \in [Commands -> Nat]
  BY <1>1, <1>2, <1>4
<1>9. QED
  BY <1>3, <1>6, <1>7, <1>8 DEF IInv

\* Time passes, or nothing happens.
LEMMA StillInv ==
    ASSUME IInv, now' \in Nat, UNCHANGED <<pending, catalog, done, open, peak, answered, counted>>
    PROVE  IInv'
<1>1. /\ Matched /\ Good(catalog, counted) /\ Attributed
      /\ done \in Nat /\ counted \in Nat /\ answered \in [Commands -> Nat]
  BY DEF IInv
<1>2. Matched'
  BY <1>1 DEF Matched, PeakHolds, MatchingIsRight
<1>3. \A c : Waiting(c)' = Waiting(c)
  BY DEF Waiting
<1>4. Attributed'
  BY <1>1, <1>3 DEF Attributed
<1>5. QED
  BY <1>1, <1>2, <1>4 DEF IInv

LEMMA InvAlways == Spec => []IInv
<1>1. Init => IInv
  BY InitInv
<1>2. IInv /\ [Next]_vars => IInv'
  <2> SUFFICES ASSUME IInv, [Next]_vars PROVE IInv'
    OBVIOUS
  <2>1. now \in Nat
    BY DEF IInv, Matched
  <2>2. CASE Tick
    BY <2>1, <2>2, StillInv DEF Tick
  <2>3. CASE \E r \in Records : Process(r)
    BY <2>3, ProcessInv
  <2>4. CASE UNCHANGED vars
    BY <2>1, <2>4, StillInv DEF vars
  <2>5. QED
    BY <2>2, <2>3, <2>4 DEF Next
<1>3. QED
  BY <1>1, <1>2, PTL DEF Spec

\* Every variable of the analyzer always has its type.
THEOREM InspectorTypes == Spec => []TypeOK
<1>1. IInv => TypeOK
  BY GoodMeans DEF IInv, TypeOK, Matched
<1>2. QED
  BY <1>1, InvAlways, PTL

\* A response is matched to the latest open request of its connection and number or to
\* none, and to none only when the pending map was full at some time (Inspector::inspect).
THEOREM MatchingAlwaysRight == Spec => []MatchingIsRight
<1>1. IInv => MatchingIsRight
  BY DEF IInv, Matched
<1>2. QED
  BY <1>1, InvAlways, PTL

\* The catalogue counts every event once, its totals are the sums over its commands, and
\* none of its limits is ever exceeded (CommandCatalog::observe).
THEOREM CatalogAlwaysConsistent == Spec => []CatalogConsistent
<1>1. IInv => CatalogConsistent
  BY GoodMeans DEF IInv, CatalogConsistent
<1>2. QED
  BY <1>1, InvAlways, PTL

\* A command is credited only with responses to its own requests, never with more than it
\* has requests, and with all of them while neither limit is reached.
THEOREM ResponsesAlwaysAttributed == Spec => []ResponsesAttributed
<1>1. IInv => ResponsesAttributed
  <2> SUFFICES ASSUME IInv PROVE ResponsesAttributed
    OBVIOUS
  <2>1. Good(catalog, counted) /\ answered \in [Commands -> Nat] /\ Attributed /\ Matched
    BY DEF IInv
  <2>2. \A c \in DOMAIN catalog.commands : c \in Commands
    BY <2>1 DEF Good, IsCommands
  <2>3. \A c : Counts(catalog, c)[1] \in Nat /\ Counts(catalog, c)[2] \in Nat
    BY <2>1, CountsTypes
  <2>4. ASSUME NEW c \in DOMAIN catalog.commands
        PROVE  /\ catalog.commands[c].responses <= answered[c]
               /\ c # Unknown => catalog.commands[c].responses <= catalog.commands[c].requests
    <3>1. /\ Counts(catalog, c)[1] = catalog.commands[c].requests
          /\ Counts(catalog, c)[2] = catalog.commands[c].responses
      BY DEF Counts
    <3>2. Counts(catalog, c)[2] <= answered[c]
      BY <2>1, <2>2 DEF Attributed
    <3>3. c # Unknown => Counts(catalog, c)[2] <= Counts(catalog, c)[1]
      <4>1. SUFFICES ASSUME c # Unknown PROVE Counts(catalog, c)[2] <= Counts(catalog, c)[1]
        OBVIOUS
      <4> DEFINE w == Cardinality(Waiting(c))
      <4>2. w \in Nat
        <5>1. Waiting(c) \in SUBSET DOMAIN pending /\ IsFiniteSet(DOMAIN pending)
          BY <2>1 DEF Waiting, Matched
        <5>2. QED
          BY <5>1, FS_Subset, FS_CardinalityType
      <4>3. Counts(catalog, c)[2] + w <= Counts(catalog, c)[1]
        BY <2>1, <2>2, <4>1 DEF Attributed, Covered, Commands
      <4> HIDE DEF w
      <4>4. QED
        BY <2>3, <4>2, <4>3
    <3>4. QED
      BY <3>1, <3>2, <3>3
  <2>5. ASSUME peak < MaxPending, catalog.overflow_commands = 0, NEW c \in Commands, answered[c] > 0
        PROVE  c \in DOMAIN catalog.commands /\ catalog.commands[c].responses = answered[c]
    <3>1. Counts(catalog, c)[2] = answered[c]
      BY <2>1, <2>5 DEF Attributed
    <3>2. c \in DOMAIN catalog.commands
      BY <2>5, <3>1 DEF Counts
    <3>3. QED
      BY <3>1, <3>2 DEF Counts
  <2>6. QED
    BY <2>4, <2>5 DEF ResponsesAttributed
<1>2. QED
  BY <1>1, InvAlways, PTL
=============================================================================
