------------------------- MODULE CarDispatchProofs --------------------------
(***************************************************************************)
(* Proofs about CarDispatch, for any number of cars and guards, every      *)
(* limit, every price list and any number of faults and crashes.           *)
(***************************************************************************)
EXTENDS CarDispatch, WellFoundedInduction, TLAPS

Server == [car : [Cars -> Car], tickets : Nat, helping : [Members -> Nat], sends : Nat,
           sendDay : Int, level : 0..Len(Prices), pieces : Nat, start : Nat]
DailyState == [sent : BOOLEAN, claimed : BOOLEAN, next : Nat]
Locals == [todo : SUBSET Cars, list : [{} -> Car] \cup [Cars -> Car], next : Nat,
           level : 0..Len(Prices), pieces : Nat, tickets : Nat,
           count : [{} -> Nat] \cup [Members -> Nat], guards : Seq(Members),
           car : Cars \cup {Nobody}, now : Car, guard : Members \cup {Nobody}]
Pcs == {"idle", "claim_read", "claim", "research", "send_read", "send", "refresh", "dispatch"}

-----------------------------------------------------------------------------
(* The operators.                                                          *)

\* A set of numbers that is not empty has a least one, which Min is.
LEMMA MinFacts == ASSUME NEW T \in SUBSET Nat, T # {}
                  PROVE  Min(T) \in T /\ \A n \in T : Min(T) <= n
<1> DEFINE R == {ss \in Nat \X Nat : ss[1] < ss[2]}
<1>1. IsWellFoundedOn(R, Nat)
  BY NatLessThanWellFounded DEF OpToRel
<1>2. \A x, y \in Nat : <<y, x>> \notin R => x <= y
  OBVIOUS
<1> HIDE DEF R
<1>3. PICK x \in T : \A y \in T : ~(<<y, x>> \in R)
  BY <1>1, WFMin
<1>4. x \in T /\ \A y \in T : x <= y
  BY <1>2, <1>3
<1>5. QED
  BY <1>4 DEF Min

\* The bounds are numbers, and nobody is no member.
LEMMA Bounds == /\ GuardMax \in Nat /\ Ripe \in Nat /\ Ripe > 0 /\ MaxFaults \in Nat
                /\ Prices \in Seq(Nat) /\ Len(Prices) \in Nat
                /\ Guards \in Seq(Members) /\ Self \in Members /\ Nobody \notin Members
BY CarAssumption DEF Members

\* The parts of the type invariant.
LEMMA Types == TypeOK <=> /\ pc \in Pcs /\ phase \in {"daily", "periodic"}
                          /\ server \in Server /\ daily \in DailyState /\ l \in Locals
                          /\ now \in Nat /\ faults \in 0..MaxFaults
                          /\ blind \in BOOLEAN /\ unread \in BOOLEAN
BY DEF TypeOK, Pcs, Server, DailyState, Locals

\* A day is a number.
LEMMA DayType == ASSUME NEW t \in Nat PROVE Day(t) \in Nat
<1>1. \A x \in Nat, k \in Nat \ {0} : x \div k \in Nat
  OBVIOUS
<1>2. QED
  BY <1>1, CarAssumption DEF Day

\* A fault is counted within the bound.
LEMMA FaultType == ASSUME TypeOK, NEW n \in Nat, Fault(n) \/ Answered PROVE faults' \in 0..MaxFaults
<1>1. faults \in 0..MaxFaults /\ MaxFaults \in Nat
  BY Types, Bounds
<1>2. QED
  BY <1>1 DEF Fault, Answered

\* A failed command counts once.
LEMMA CostType == \A b : Cost(b) \in Nat
BY DEF Cost

\* A car at home is a car.
LEMMA HomeType == ASSUME NEW color \in Colors, NEW reward \in Rewards
                  PROVE  Home(color, reward) \in Car /\ Home(color, reward).sent = 0
BY DEF Home, Car

\* The empty local variables.
LEMMA NoLocalsType == NoLocals \in Locals /\ NoLocals.todo = {} /\ NoLocals.next = 0
<1>1. Home("low", "none") \in Car
  BY HomeType DEF Colors, Rewards
<1>2. <<>> \in Seq(Members) /\ 0 \in 0..Len(Prices)
  BY Bounds
<1>3. [c \in {} |-> 0] \in [{} -> Car] /\ [m \in {} |-> 0] \in [{} -> Nat]
  OBVIOUS
<1>4. QED
  BY <1>1, <1>2, <1>3 DEF NoLocals, Locals

\* The next claim is the time of a car that is out, and none is earlier.
LEMMA NextClaimFacts ==
    ASSUME NEW list \in [Cars -> Car]
    PROVE  /\ NextClaim(list) \in Nat
           /\ \A c \in Cars : list[c].sent # 0 =>
                 NextClaim(list) > 0 /\ NextClaim(list) <= list[c].sent + Ripe
<1> DEFINE times == {list[c].sent + Ripe : c \in {d \in Cars : list[d].sent # 0}}
<1>1. \A c \in Cars : list[c].sent \in Nat
  BY DEF Car
<1>2. times \in SUBSET Nat /\ \A n \in times : n > 0
  BY <1>1, Bounds
<1>3. \A c \in Cars : list[c].sent # 0 => list[c].sent + Ripe \in times
  OBVIOUS
<1>4. NextClaim(list) = IF times = {} THEN 0 ELSE Min(times)
  BY DEF NextClaim
<1> HIDE DEF times
<1>5. CASE times = {}
  BY <1>3, <1>4, <1>5
<1>6. CASE times # {}
  <2>1. Min(times) \in times /\ \A n \in times : Min(times) <= n
    BY <1>2, <1>6, MinFacts
  <2>2. QED
    BY <1>2, <1>3, <1>4, <1>6, <2>1
<1>7. QED
  BY <1>5, <1>6

\* The guard of a car is a member with room for one more, or nobody.
LEMMA GuardFacts == ASSUME l \in Locals
                    PROVE  \/ Guard = Nobody
                           \/ Guard \in Members /\ l.count[Guard] < GuardMax
<1> DEFINE free == {i \in 1..Len(l.guards) : l.count[l.guards[i]] < GuardMax}
<1>1. l.guards \in Seq(Members) /\ Len(l.guards) \in Nat
  BY DEF Locals
<1>2. free \in SUBSET Nat /\ \A i \in free : l.guards[i] \in Members /\ l.count[l.guards[i]] < GuardMax
  BY <1>1
<1>3. Guard = IF free = {} THEN Nobody ELSE l.guards[Min(free)]
  BY DEF Guard
<1> HIDE DEF free
<1>4. CASE free = {}
  BY <1>3, <1>4
<1>5. CASE free # {}
  <2>1. Min(free) \in free
    BY <1>2, <1>5, MinFacts
  <2>2. QED
    BY <1>2, <1>3, <1>5, <2>1
<1>6. QED
  BY <1>4, <1>5

-----------------------------------------------------------------------------
(* What the commands do to the server.                                     *)

\* Cars are at home or where they were; a refreshed car stays where it is.
LEMMA ClaimedFacts ==
    ASSUME NEW s \in Server, NEW c \in Cars, NEW color \in Colors, NEW reward \in Rewards
    PROVE  /\ CarClaimed(s, c, color, reward) \in Server
           /\ CarClaimed(s, c, color, reward).helping = s.helping
           /\ \A d \in Cars : CarClaimed(s, c, color, reward).car[d].sent \in {0, s.car[d].sent}
<1> DEFINE h == Home(color, reward)
<1>1. h \in Car /\ h.sent = 0
  BY HomeType
<1> HIDE DEF h
<1>2. CarClaimed(s, c, color, reward) = [s EXCEPT !.car = [s.car EXCEPT ![c] = h]]
  BY DEF CarClaimed, Server, h
<1>3. [s.car EXCEPT ![c] = h] \in [Cars -> Car]
  BY <1>1 DEF Server
<1>4. \A d \in Cars : [s.car EXCEPT ![c] = h][d].sent \in {0, s.car[d].sent}
  BY <1>1 DEF Server
<1>5. QED
  BY <1>2, <1>3, <1>4 DEF Server

LEMMA RefreshedFacts ==
    ASSUME NEW s \in Server, NEW c \in Cars, NEW color \in Colors, NEW reward \in Rewards,
           CanRefresh(s, c)
    PROVE  /\ CarRefreshed(s, c, color, reward) \in Server
           /\ CarRefreshed(s, c, color, reward).helping = s.helping
           /\ \A d \in Cars : CarRefreshed(s, c, color, reward).car[d].sent = s.car[d].sent
<1> DEFINE k == [s.car[c] EXCEPT !.color = color, !.reward = reward, !.refreshes = @ + 1]
           t == IF s.car[c].refreshes = 0 THEN s.tickets ELSE s.tickets - 1
<1>1. s.car[c] \in Car /\ s.tickets \in Nat
  BY DEF Server
<1>2. k \in Car /\ k.sent = s.car[c].sent
  <2>1. s.car[c].refreshes + 1 \in Nat
    BY <1>1 DEF Car
  <2>2. k = [s.car[c] EXCEPT !.color = color, !.reward = reward, !.refreshes = s.car[c].refreshes + 1]
    BY <1>1 DEF Car
  <2> HIDE DEF k
  <2>3. QED
    BY <1>1, <2>1, <2>2 DEF Car
<1>3. t \in Nat
  BY <1>1 DEF CanRefresh, Car
<1> HIDE DEF k, t
<1>4. CarRefreshed(s, c, color, reward) = [s EXCEPT !.car = [s.car EXCEPT ![c] = k], !.tickets = t]
  BY ZenonT(60) DEF CarRefreshed, Server, k, t
<1>5. [s.car EXCEPT ![c] = k] \in [Cars -> Car]
  BY <1>2 DEF Server
<1>6. \A d \in Cars : [s.car EXCEPT ![c] = k][d].sent = s.car[d].sent
  BY <1>2 DEF Server
<1>7. QED
  BY <1>3, <1>4, <1>5, <1>6 DEF Server

\* A sent car left now, and its guard guards one more.
LEMMA SentFacts ==
    ASSUME NEW s \in Server, NEW c \in Cars, NEW guard, now \in Nat
    PROVE  /\ CarSent(s, c, guard) \in Server
           /\ \A m \in Members : CarSent(s, c, guard).helping[m]
                                   = s.helping[m] + (IF m = guard THEN 1 ELSE 0)
           /\ \A d \in Cars : CarSent(s, c, guard).car[d].sent \in {now, s.car[d].sent}
<1> DEFINE k == [s.car[c] EXCEPT !.sent = now]
           n == (IF s.sendDay = Day(now) THEN s.sends ELSE 0) + 1
           h == [m \in Members |-> IF m = guard THEN s.helping[m] + 1 ELSE s.helping[m]]
<1>1. s.car[c] \in Car /\ s.sends \in Nat /\ s.helping \in [Members -> Nat]
  BY DEF Server
<1>2. k \in Car /\ k.sent = now
  BY <1>1 DEF Car
<1>3. n \in Nat /\ Day(now) \in Int /\ h \in [Members -> Nat]
  BY <1>1, DayType
<1>h. \A m \in Members : h[m] = s.helping[m] + (IF m = guard THEN 1 ELSE 0)
  BY <1>1
<1> HIDE DEF k, n, h
<1>4. CarSent(s, c, guard) = [s EXCEPT !.car = [s.car EXCEPT ![c] = k], !.sends = n,
                                       !.sendDay = Day(now), !.helping = h]
  BY DEF CarSent, Server, k, n, h
<1>5. [s.car EXCEPT ![c] = k] \in [Cars -> Car]
  BY <1>2 DEF Server
<1>6. \A d \in Cars : [s.car EXCEPT ![c] = k][d].sent \in {now, s.car[d].sent}
  BY <1>2 DEF Server
<1>7. QED
  BY <1>3, <1>h, <1>4, <1>5, <1>6 DEF Server

\* An upgrade is paid with parts.
LEMMA ResearchedFacts ==
    ASSUME NEW s \in Server, CanResearch(s)
    PROVE  /\ Researched(s) \in Server
           /\ Researched(s).helping = s.helping /\ Researched(s).car = s.car
<1> DEFINE v == s.level + 1  p == s.pieces - Prices[s.level + 1]
<1>1. s.level \in 0..Len(Prices) /\ s.pieces \in Nat
  BY DEF Server
<1>2. v \in 1..Len(Prices)
  BY <1>1, Bounds DEF CanResearch
<1>3. Prices[v] \in Nat
  BY <1>2, Bounds
<1>4. v \in 0..Len(Prices) /\ p \in Nat
  BY <1>1, <1>2, <1>3, Bounds DEF CanResearch
<1> HIDE DEF v, p
<1>5. Researched(s) = [s EXCEPT !.level = v, !.pieces = p]
  BY DEF Researched, Server, v, p
<1>6. QED
  BY <1>4, <1>5 DEF Server

-----------------------------------------------------------------------------
(* The inductive invariant.                                                *)

Inv == TypeOK /\ LocalsSet /\ PhaseKnown /\ GuardLimit /\ CountsCover /\ OutKnown

\* It holds in the morning.
LEMMA InvInit == Init => Inv
<1> SUFFICES ASSUME Init PROVE Inv
  OBVIOUS
<1>1. server \in Garage /\ now = server.start
  BY CarAssumption DEF Init
<1>2. server \in Server /\ now \in Nat /\ \A m \in Members : server.helping[m] <= GuardMax
  <2>1. server.helping \in [Members -> 0..GuardMax]
    BY <1>1 DEF Garage
  <2>2. server.helping \in [Members -> Nat] /\ \A m \in Members : server.helping[m] <= GuardMax
    BY <2>1, Bounds
  <2>3. QED
    BY <1>1, <2>2 DEF Garage, Server
<1>3. daily \in DailyState /\ daily.sent = FALSE
  BY DEF Init, NewDay, DailyState
<1>4. pc = "idle" /\ phase = "daily" /\ l = NoLocals /\ blind = FALSE /\ unread = FALSE /\ faults = 0
  BY DEF Init
<1>5. TypeOK
  <2>1. l \in Locals /\ faults \in 0..MaxFaults /\ pc \in Pcs
    BY <1>4, NoLocalsType, Bounds DEF Pcs
  <2>2. QED
    BY <1>2, <1>3, <1>4, <2>1, Types
<1>6. QED
  BY <1>2, <1>3, <1>4, <1>5
     DEF Inv, LocalsSet, PhaseKnown, GuardLimit, CountsCover, OutKnown, Sending

\* Cars that come home keep the schedule true.
LEMMA OutKept ==
    ASSUME OutKnown, UNCHANGED <<now, phase, daily, unread>>, l'.next = l.next,
           pc \notin {"idle", "claim_read"}, pc' # "idle",
           \A d \in Cars : server'.car[d].sent \in {0, server.car[d].sent}
    PROVE  OutKnown'
BY DEF OutKnown, Out

\* The counts cover the guards as long as neither changes.
LEMMA CountsKept ==
    ASSUME GuardLimit, CountsCover, UNCHANGED blind, server \in Server, l \in Locals, LocalsSet,
           \A m \in Members : server'.helping[m] = server.helping[m],
           l'.count = l.count, l'.guard = l.guard, Sending' => Sending,
           pc' \in {"refresh", "dispatch"} => pc \in {"refresh", "dispatch"}
    PROVE  GuardLimit' /\ CountsCover'
<1>1. GuardLimit'
  BY DEF GuardLimit
<1>2. ASSUME Sending', ~blind, NEW m \in Members
      PROVE  /\ l.count[m] <= GuardMax
             /\ server.helping[m] + (IF pc' # "send" /\ l.guard = m THEN 1 ELSE 0) <= l.count[m]
  <2>1. server.helping[m] \in Nat /\ l.count[m] \in Nat
    BY <1>2 DEF Server, LocalsSet
  <2>2. l.count[m] <= GuardMax
        /\ server.helping[m] + (IF pc # "send" /\ l.guard = m THEN 1 ELSE 0) <= l.count[m]
    BY <1>2 DEF CountsCover
  <2>3. pc' = "send" \/ pc # "send"
    BY <1>2 DEF Sending
  <2>4. QED
    BY <2>1, <2>2, <2>3
<1>3. QED
  BY <1>1, <1>2 DEF CountsCover

\* A phase that has not come to the dispatch.
LEMMA NotSending ==
    ASSUME GuardLimit, UNCHANGED blind, \A m \in Members : server'.helping[m] = server.helping[m],
           pc' \notin {"send", "refresh", "dispatch"}
    PROVE  GuardLimit' /\ CountsCover'
BY DEF GuardLimit, CountsCover, Sending

\* Every step keeps the types.
TypesKept == /\ pc \in Pcs /\ phase \in {"daily", "periodic"} /\ server \in Server
             /\ daily \in DailyState /\ l \in Locals /\ now \in Nat /\ faults \in 0..MaxFaults
             /\ blind \in BOOLEAN /\ unread \in BOOLEAN

LEMMA TypesPrimed == ASSUME TypesKept' PROVE TypeOK'
BY DEF TypesKept, TypeOK, Pcs, Server, DailyState, Locals

-----------------------------------------------------------------------------
(* Starting, ticking, crashing, claiming.                                  *)

\* The steps up to the dispatch keep the invariant.
LEMMA ClaimKeeps ==
    ASSUME Inv, \/ StartDaily \/ StartPeriodic \/ Tick \/ Crash
                \/ ReadCars \/ (\E c \in Cars : Claim(c)) \/ Research \/ ResearchRefused
                \/ ResearchOver \/ ClaimsToSend \/ PeriodicEnds
    PROVE  Inv'
<1>t. TypesKept /\ TypeOK
  BY Types DEF Inv, TypesKept
<1>i. LocalsSet /\ PhaseKnown /\ GuardLimit /\ CountsCover /\ OutKnown
  BY DEF Inv
<1>z. NoLocals \in Locals /\ NoLocals.todo = {} /\ NoLocals.next = 0
  BY NoLocalsType
<1>1. CASE StartDaily
  <2>1. /\ pc = "idle" /\ pc' = "claim_read" /\ phase' = "daily" /\ unread' = FALSE
        /\ UNCHANGED <<server, daily, l, now, faults, blind>> /\ ~daily.sent
    BY <1>1 DEF StartDaily, SendDue
  <2>2. TypeOK'
    BY <1>t, <2>1, TypesPrimed DEF TypesKept, Pcs
  <2>3. LocalsSet' /\ PhaseKnown' /\ OutKnown'
    BY <1>i, <2>1 DEF LocalsSet, PhaseKnown, OutKnown, Sending
  <2>4. QED
    BY <1>i, <2>1, <2>2, <2>3, NotSending DEF Inv
<1>2. CASE StartPeriodic
  <2>1. /\ pc = "idle" /\ pc' = "claim_read" /\ phase' = "periodic"
        /\ UNCHANGED <<server, daily, l, now, faults, blind, unread>>
    BY <1>2 DEF StartPeriodic
  <2>2. TypeOK'
    BY <1>t, <2>1, TypesPrimed DEF TypesKept, Pcs
  <2>3. LocalsSet' /\ PhaseKnown' /\ OutKnown'
    BY <1>i, <2>1 DEF LocalsSet, PhaseKnown, OutKnown, Sending, Out
  <2>4. QED
    BY <1>i, <2>1, <2>2, <2>3, NotSending DEF Inv
<1>3. CASE Tick
  <2>1. /\ pc = "idle" /\ UNCHANGED <<server, pc, phase, l, faults, blind, unread>>
        /\ now' = now + 1 /\ (daily' = NewDay \/ daily' = daily)
    BY <1>3 DEF Tick
  <2>2. daily' \in DailyState /\ (daily' = daily \/ ~daily'.sent)
    <3>1. NewDay \in DailyState /\ NewDay.sent = FALSE
      BY DEF NewDay, DailyState
    <3>2. QED
      BY <1>t, <2>1, <3>1 DEF TypesKept
  <2>3. TypeOK'
    BY <1>t, <2>1, <2>2, TypesPrimed DEF TypesKept, Pcs
  <2>4. LocalsSet' /\ PhaseKnown' /\ OutKnown'
    BY <1>i, <2>1, <2>2 DEF LocalsSet, PhaseKnown, OutKnown, Sending, Out
  <2>5. QED
    BY <1>i, <2>1, <2>3, <2>4, NotSending DEF Inv
<1>4. CASE Crash
  <2>1. /\ pc # "idle" /\ pc' = "idle" /\ l' = NoLocals /\ faults' \in 0..MaxFaults
        /\ UNCHANGED <<server, daily, phase, now, blind, unread>>
    BY <1>4, <1>t, FaultType DEF Crash
  <2>2. TypeOK'
    BY <1>t, <1>z, <2>1, TypesPrimed DEF TypesKept, Pcs
  <2>3. LocalsSet' /\ PhaseKnown'
    BY <2>1 DEF LocalsSet, PhaseKnown, Sending
  <2>5. OutKnown'
    <3>1. phase = "periodic" \/ ~daily.sent
      BY <1>i, <1>t, <2>1 DEF PhaseKnown, TypesKept
    <3>2. QED
      BY <1>i, <2>1, <3>1 DEF OutKnown, Out
  <2>6. QED
    BY <1>i, <2>1, <2>2, <2>3, <2>5, NotSending DEF Inv
<1>5. CASE ReadCars
  <2>1. /\ pc = "claim_read" /\ pc' = "claim" /\ faults' \in 0..MaxFaults
        /\ UNCHANGED <<server, daily, phase, now, blind>>
    BY <1>5, <1>t, FaultType DEF ReadCars
  <2>2. CASE unread' = TRUE /\ UNCHANGED l
    <3>1. TypeOK'
      BY <1>t, <2>1, <2>2, TypesPrimed DEF TypesKept, Pcs
    <3>2. LocalsSet' /\ PhaseKnown' /\ OutKnown'
      BY <1>i, <2>1, <2>2 DEF LocalsSet, PhaseKnown, OutKnown, Sending
    <3>3. QED
      BY <1>i, <2>1, <3>1, <3>2, NotSending DEF Inv
  <2>3. CASE /\ UNCHANGED unread
             /\ l' = [l EXCEPT !.todo = {c \in Cars : can_claim_car(server.car[c].sent)},
                               !.next = NextClaim(server.car), !.level = server.level]
    <3>1. server.car \in [Cars -> Car] /\ server.level \in 0..Len(Prices)
      BY <1>t DEF TypesKept, Server
    <3>2. NextClaim(server.car) \in Nat
      BY <3>1, NextClaimFacts
    <3>3. l' \in Locals /\ l'.next = NextClaim(server.car)
      BY <1>t, <2>3, <3>1, <3>2 DEF TypesKept, Locals
    <3>4. TypeOK'
      BY <1>t, <2>1, <2>3, <3>3, TypesPrimed DEF TypesKept, Pcs
    <3>5. LocalsSet' /\ PhaseKnown'
      BY <1>i, <2>1 DEF LocalsSet, PhaseKnown, Sending
    <3>6. OutKnown'
      BY <1>i, <2>1, <2>3, <3>1, <3>3, NextClaimFacts DEF OutKnown, Out
    <3>7. QED
      BY <1>i, <2>1, <3>4, <3>5, <3>6, NotSending DEF Inv
  <2>4. QED
    BY <1>5, <2>2, <2>3 DEF ReadCars
<1>6. ASSUME NEW c \in Cars, Claim(c) PROVE Inv'
  <2>1. PICK executed \in BOOLEAN, answered \in BOOLEAN, counted \in BOOLEAN,
             color \in Colors, reward \in Rewards :
          /\ Fault(Cost(answered) + Cost(counted))
          /\ server' = IF executed THEN CarClaimed(server, c, color, reward) ELSE server
          /\ l' = [l EXCEPT !.todo = @ \ {c}, !.pieces = IF answered /\ counted THEN server.pieces ELSE 0]
          /\ pc' = IF answered THEN "research" ELSE "claim"
    BY <1>6 DEF Claim
  <2>2. /\ pc = "claim" /\ pc' \in {"research", "claim"}
        /\ UNCHANGED <<daily, phase, now, blind, unread>>
    BY <1>6, <2>1 DEF Claim
  <2>3. faults' \in 0..MaxFaults
    <3>1. Cost(answered) + Cost(counted) \in Nat
      BY CostType
    <3>2. QED
      BY <1>t, <2>1, <3>1, FaultType
  <2>4. /\ server' \in Server /\ server'.helping = server.helping
        /\ \A d \in Cars : server'.car[d].sent \in {0, server.car[d].sent}
    BY <1>t, <2>1, ClaimedFacts DEF TypesKept
  <2>5. l' \in Locals /\ l'.next = l.next
    <3> DEFINE p == IF answered /\ counted THEN server.pieces ELSE 0
    <3>1. p \in Nat /\ l.todo \ {c} \in SUBSET Cars
      BY <1>t DEF TypesKept, Server, Locals
    <3>2. l' = [l EXCEPT !.todo = l.todo \ {c}, !.pieces = p]
      BY <1>t, <2>1 DEF TypesKept, Locals
    <3> HIDE DEF p
    <3>3. QED
      BY <1>t, <3>1, <3>2 DEF TypesKept, Locals
  <2>6. TypeOK'
    BY <1>t, <2>2, <2>3, <2>4, <2>5, TypesPrimed DEF TypesKept, Pcs
  <2>7. LocalsSet' /\ PhaseKnown'
    BY <1>i, <2>2 DEF LocalsSet, PhaseKnown, Sending
  <2>8. OutKnown'
    BY <1>i, <2>2, <2>4, <2>5, OutKept
  <2>9. QED
    BY <1>i, <2>2, <2>4, <2>6, <2>7, <2>8, NotSending DEF Inv
<1>7. CASE Research
  <2>1. PICK answered \in BOOLEAN, counted \in BOOLEAN :
          /\ Fault(Cost(answered) + Cost(counted))
          /\ pc' = IF answered THEN "research" ELSE "claim"
          /\ l' = IF answered THEN [l EXCEPT !.level = @ + 1, !.pieces = IF counted THEN server'.pieces ELSE @]
                  ELSE l
    BY <1>7 DEF Research
  <2>2. /\ pc = "research" /\ pc' \in {"research", "claim"} /\ Affordable /\ CanResearch(server)
        /\ server' = Researched(server) /\ UNCHANGED <<daily, phase, now, blind, unread>>
    BY <1>7, <2>1 DEF Research
  <2>3. faults' \in 0..MaxFaults
    <3>1. Cost(answered) + Cost(counted) \in Nat
      BY CostType
    <3>2. QED
      BY <1>t, <2>1, <3>1, FaultType
  <2>4. server' \in Server /\ server'.helping = server.helping /\ server'.car = server.car
    BY <1>t, <2>2, ResearchedFacts DEF TypesKept
  <2>5. l' \in Locals /\ l'.next = l.next
    <3> DEFINE p == IF counted THEN server'.pieces ELSE l.pieces
    <3>1. p \in Nat
      BY <1>t, <2>4 DEF TypesKept, Server, Locals
    <3>2. l.level + 1 \in 0..Len(Prices)
      BY <1>t, <2>2, Bounds DEF TypesKept, Locals, Affordable
    <3>3. l' = l \/ l' = [l EXCEPT !.level = l.level + 1, !.pieces = p]
      BY <1>t, <2>1 DEF TypesKept, Locals
    <3> HIDE DEF p
    <3>4. QED
      BY <1>t, <3>1, <3>2, <3>3 DEF TypesKept, Locals
  <2>6. TypeOK'
    BY <1>t, <2>2, <2>3, <2>4, <2>5, TypesPrimed DEF TypesKept, Pcs
  <2>7. LocalsSet' /\ PhaseKnown'
    BY <1>i, <2>2 DEF LocalsSet, PhaseKnown, Sending
  <2>8. OutKnown'
    BY <1>i, <2>2, <2>4, <2>5, OutKept
  <2>9. QED
    BY <1>i, <2>2, <2>4, <2>6, <2>7, <2>8, NotSending DEF Inv
<1>8. CASE ResearchRefused \/ ResearchOver \/ ClaimsToSend
  <2>1. /\ UNCHANGED <<server, daily, phase, l, now, blind, unread>> /\ faults' \in 0..MaxFaults
        /\ pc \in {"research", "claim"} /\ pc' \in {"claim", "send_read"}
        /\ (pc' = "send_read" => l.todo = {} /\ phase = "daily")
    BY <1>8, <1>t, FaultType DEF ResearchRefused, ResearchOver, ClaimsToSend, TypesKept
  <2>2. TypeOK'
    BY <1>t, <2>1, TypesPrimed DEF TypesKept, Pcs
  <2>3. LocalsSet' /\ PhaseKnown'
    BY <1>i, <2>1 DEF LocalsSet, PhaseKnown, Sending
  <2>4. OutKnown'
    BY <1>i, <2>1, OutKept
  <2>5. QED
    BY <1>i, <2>1, <2>2, <2>3, <2>4, NotSending DEF Inv
<1>9. CASE PeriodicEnds
  <2>1. /\ UNCHANGED <<server, phase, now, faults, blind, unread>> /\ l' = NoLocals
        /\ pc' = "idle" /\ daily' = [daily EXCEPT !.claimed = TRUE, !.next = l.next]
    BY <1>9 DEF PeriodicEnds
  <2>2. l.next \in Nat
    BY <1>t DEF TypesKept, Locals
  <2>3. daily' \in DailyState /\ daily'.claimed
    BY <1>t, <2>1, <2>2 DEF TypesKept, DailyState
  <2>4. TypeOK'
    BY <1>t, <1>z, <2>1, <2>3, TypesPrimed DEF TypesKept, Pcs
  <2>5. LocalsSet' /\ PhaseKnown' /\ OutKnown'
    BY <1>i, <2>1, <2>3 DEF LocalsSet, PhaseKnown, OutKnown, Sending
  <2>6. QED
    BY <1>i, <2>1, <2>4, <2>5, NotSending DEF Inv
<1>10. QED
  BY <1>1, <1>2, <1>3, <1>4, <1>5, <1>6, <1>7, <1>8, <1>9

-----------------------------------------------------------------------------
(* The dispatch.                                                           *)

\* The steps of smart_send_car keep the invariant.
LEMMA SendKeeps ==
    ASSUME Inv, \/ SendRead \/ (\E c \in Cars : TakeCar(c)) \/ Refresh \/ RefreshFails
                \/ RefreshOver \/ Dispatch \/ SendEnds
    PROVE  Inv'
<1>t. /\ TypesKept /\ TypeOK /\ server \in Server /\ l \in Locals /\ now \in Nat
  BY Types DEF Inv, TypesKept
<1>i. LocalsSet /\ PhaseKnown /\ GuardLimit /\ CountsCover /\ OutKnown
  BY DEF Inv
<1>h. /\ server.car \in [Cars -> Car] /\ server.tickets \in Nat /\ server.helping \in [Members -> Nat]
      /\ l.todo \in SUBSET Cars /\ l.next \in Nat /\ l.tickets \in Nat /\ GuardMax \in Nat
  BY <1>t, Bounds DEF Server, Locals
<1>1. CASE SendRead
  <2>1. /\ pc = "send_read" /\ pc' = "send" /\ phase = "daily" /\ ~daily.sent
        /\ UNCHANGED <<server, daily, phase, now, unread>> /\ l.todo = {}
    BY <1>1, <1>i DEF SendRead, PhaseKnown, LocalsSet
  <2>2. CASE UNCHANGED <<l, blind>> /\ (Fault(1) \/ Answered)
    <3>1. faults' \in 0..MaxFaults
      BY <1>t, <2>2, FaultType
    <3>2. TypeOK'
      BY <1>t, <2>1, <2>2, <3>1, TypesPrimed DEF TypesKept, Pcs
    <3>3. LocalsSet' /\ PhaseKnown' /\ CountsCover' /\ GuardLimit'
      BY <1>i, <2>1, <2>2 DEF LocalsSet, PhaseKnown, CountsCover, GuardLimit, Sending
    <3>4. OutKnown'
      BY <1>i, <2>1, <2>2, OutKept
    <3>5. QED
      BY <3>2, <3>3, <3>4 DEF Inv
  <2>3. ASSUME NEW role \in BOOLEAN, NEW counts \in BOOLEAN, NEW legion \in BOOLEAN,
               Fault(Cost(role) + Cost(counts) + Cost(legion)), blind' = (blind \/ ~counts),
               l' = [l EXCEPT !.todo = Sendable(server), !.list = server.car,
                       !.tickets = IF role THEN server.tickets ELSE 0,
                       !.count = [m \in Members |-> IF counts THEN server.helping[m] ELSE 0],
                       !.guards = CASE ~legion -> <<>>
                                    [] legion /\ role -> Guards
                                    [] OTHER -> Append(Guards, Self)]
        PROVE  Inv'
    <3> DEFINE k == IF role THEN server.tickets ELSE 0
               n == [m \in Members |-> IF counts THEN server.helping[m] ELSE 0]
               g == CASE ~legion -> <<>> [] legion /\ role -> Guards [] OTHER -> Append(Guards, Self)
    <3>1. faults' \in 0..MaxFaults
      <4>1. Cost(role) + Cost(counts) + Cost(legion) \in Nat
        BY CostType
      <4>2. QED
        BY <1>t, <2>3, <4>1, FaultType
    <3>2. Sendable(server) \in SUBSET Cars /\ k \in Nat /\ n \in [Members -> Nat]
      BY <1>h DEF Sendable
    <3>3. g \in Seq(Members)
      <4>1. <<>> \in Seq(Members) /\ Guards \in Seq(Members) /\ Append(Guards, Self) \in Seq(Members)
        BY Bounds
      <4>2. QED
        BY <4>1
    <3>4. \A m \in Members : n[m] = IF counts THEN server.helping[m] ELSE 0
      OBVIOUS
    <3>5. l' = [l EXCEPT !.todo = Sendable(server), !.list = server.car, !.tickets = k,
                         !.count = n, !.guards = g]
      BY <2>3
    <3> HIDE DEF k, n, g
    <3>6. l' \in Locals
      BY <1>h, <1>t, <3>2, <3>3, <3>5 DEF Locals
    <3>7. l'.list = server.car /\ l'.count = n /\ l'.next = l.next
      BY <1>t, <3>5 DEF Locals
    <3>8. TypeOK'
      <4>1. blind' \in BOOLEAN
        BY <2>3
      <4>2. QED
        BY <1>t, <2>1, <3>1, <3>6, <4>1, TypesPrimed DEF TypesKept, Pcs
    <3>9. LocalsSet' /\ PhaseKnown'
      BY <1>h, <2>1, <3>2, <3>7 DEF LocalsSet, PhaseKnown, Sending
    <3>10. OutKnown'
      BY <1>i, <2>1, <3>7, OutKept
    <3>11. GuardLimit'
      BY <1>i, <2>1, <2>3 DEF GuardLimit
    <3>12. CountsCover'
      <4>1. ASSUME ~blind', NEW m \in Members
            PROVE  l'.count[m] <= GuardMax /\ server.helping[m] + 0 <= l'.count[m]
        <5>1. counts /\ ~blind
          BY <2>3, <4>1
        <5>2. QED
          BY <1>h, <1>i, <3>4, <3>7, <5>1 DEF GuardLimit
      <4>2. QED
        BY <2>1, <4>1 DEF CountsCover
    <3>13. QED
      BY <3>8, <3>9, <3>10, <3>11, <3>12 DEF Inv
  <2>4. QED
    BY <1>1, <2>2, <2>3 DEF SendRead
<1>2. ASSUME NEW c \in Cars, TakeCar(c) PROVE Inv'
  <2> DEFINE guard == IF l.list[c].color = "red" THEN Guard ELSE Nobody
             n == [m \in DOMAIN l.count |-> IF m = guard THEN l.count[m] + 1 ELSE l.count[m]]
  <2>1. /\ pc = "send" /\ c \in l.todo /\ pc' \in {"dispatch", "refresh"}
        /\ l' = [l EXCEPT !.todo = @ \ {c}, !.car = c, !.now = l.list[c], !.guard = guard,
                    !.count = [m \in DOMAIN @ |-> IF m = guard THEN l.count[m] + 1 ELSE l.count[m]]]
        /\ UNCHANGED <<server, daily, phase, now, faults, blind, unread>>
    BY <1>2 DEF TakeCar
  <2>2. Sending /\ l.list \in [Cars -> Car] /\ l.count \in [Members -> Nat]
    BY <1>i, <2>1 DEF Sending, LocalsSet
  <2>3. guard = Nobody \/ (guard \in Members /\ l.count[guard] < GuardMax)
    BY <1>t, GuardFacts
  <2> HIDE DEF guard
  <2>4. /\ n \in [Members -> Nat]
        /\ \A m \in Members : n[m] = IF m = guard THEN l.count[m] + 1 ELSE l.count[m]
    BY <2>2
  <2>5. l' = [l EXCEPT !.todo = l.todo \ {c}, !.car = c, !.now = l.list[c], !.guard = guard, !.count = n]
    BY <1>t, <2>1 DEF Locals
  <2> HIDE DEF n
  <2>6. l.todo \ {c} \in SUBSET Cars /\ l.list[c] \in Car /\ guard \in Members \cup {Nobody}
    BY <1>h, <2>2, <2>3
  <2>7. l' \in Locals
    BY <1>t, <2>4, <2>5, <2>6 DEF Locals
  <2>8. l'.list = l.list /\ l'.count = n /\ l'.next = l.next /\ l'.guard = guard /\ l'.car = c
    BY <1>t, <2>5 DEF Locals
  <2>9. TypeOK'
    BY <1>t, <2>1, <2>7, TypesPrimed DEF TypesKept, Pcs
  <2>10. LocalsSet' /\ PhaseKnown'
    BY <1>i, <2>1, <2>2, <2>4, <2>8 DEF LocalsSet, PhaseKnown, Sending
  <2>11. OutKnown'
    BY <1>i, <2>1, <2>8, OutKept
  <2>12. GuardLimit'
    BY <1>i, <2>1 DEF GuardLimit
  <2>13. CountsCover'
    <3>1. ASSUME ~blind, NEW m \in Members
          PROVE  /\ l'.count[m] <= GuardMax
                 /\ server.helping[m] + (IF l'.guard = m THEN 1 ELSE 0) <= l'.count[m]
      <4>1. l.count[m] <= GuardMax /\ server.helping[m] + 0 <= l.count[m]
        BY <1>i, <2>1, <2>2, <3>1 DEF CountsCover
      <4>2. server.helping[m] \in Nat /\ l.count[m] \in Nat
        BY <1>h, <2>2
      <4>3. guard = m => l.count[m] < GuardMax
        BY <2>3, <3>1, Bounds
      <4>4. QED
        BY <1>h, <2>4, <2>8, <4>1, <4>2, <4>3
    <3>2. QED
      BY <2>1, <3>1 DEF CountsCover
  <2>14. QED
    BY <2>9, <2>10, <2>11, <2>12, <2>13 DEF Inv
<1>3. CASE Refresh
  <2>1. PICK color \in Colors, reward \in Rewards :
          server' = CarRefreshed(server, l.car, color, reward)
    BY <1>3 DEF Refresh
  <2>2. /\ pc = "refresh" /\ pc' \in {"dispatch", "refresh"} /\ CanRefresh(server, l.car)
        /\ l' = [l EXCEPT !.now = server'.car[l.car], !.tickets = IF Free THEN @ ELSE @ - 1]
        /\ (Free \/ l.tickets > 0) /\ faults' \in 0..MaxFaults
        /\ UNCHANGED <<daily, phase, now, blind, unread>> /\ l.car \in Cars
    BY <1>3, <1>i, <1>t, FaultType DEF Refresh, LocalsSet
  <2>3. /\ server' \in Server /\ server'.helping = server.helping
        /\ \A d \in Cars : server'.car[d].sent = server.car[d].sent
    BY <1>t, <2>1, <2>2, RefreshedFacts
  <2> DEFINE k == IF Free THEN l.tickets ELSE l.tickets - 1
  <2>4. k \in Nat /\ server'.car[l.car] \in Car
    BY <1>h, <2>2, <2>3 DEF Server
  <2>5. l' = [l EXCEPT !.now = server'.car[l.car], !.tickets = k]
    BY <1>t, <2>2 DEF Locals
  <2> HIDE DEF k
  <2>6. l' \in Locals
    BY <1>t, <2>4, <2>5 DEF Locals
  <2>7. l'.todo = l.todo /\ l'.list = l.list /\ l'.count = l.count /\ l'.next = l.next
        /\ l'.guard = l.guard /\ l'.car = l.car
    BY <1>t, <2>5 DEF Locals
  <2>8. TypeOK'
    BY <1>t, <2>2, <2>3, <2>6, TypesPrimed DEF TypesKept, Pcs
  <2>9. LocalsSet' /\ PhaseKnown'
    BY <1>i, <2>2, <2>7 DEF LocalsSet, PhaseKnown, Sending
  <2>10. OutKnown'
    BY <1>i, <2>2, <2>3, <2>7, OutKept
  <2>11. GuardLimit' /\ CountsCover'
    <3>1. Sending' => Sending
      BY <2>2 DEF Sending
    <3>2. QED
      BY <1>i, <1>t, <2>2, <2>3, <2>7, <3>1, CountsKept
  <2>12. QED
    BY <2>8, <2>9, <2>10, <2>11 DEF Inv
<1>4. CASE RefreshFails \/ RefreshOver
  <2>1. /\ pc = "refresh" /\ pc' \in {"send", "dispatch"} /\ faults' \in 0..MaxFaults
        /\ UNCHANGED <<daily, phase, l, now, blind, unread>> /\ l.car \in Cars
    BY <1>4, <1>i, <1>t, FaultType DEF RefreshFails, RefreshOver, LocalsSet, TypesKept
  <2>2. \/ server' = server
        \/ /\ CanRefresh(server, l.car)
           /\ \E color \in Colors, reward \in Rewards :
                 server' = CarRefreshed(server, l.car, color, reward)
    BY <1>4 DEF RefreshFails, RefreshOver
  <2>3. /\ server' \in Server /\ server'.helping = server.helping
        /\ \A d \in Cars : server'.car[d].sent = server.car[d].sent
    BY <1>t, <2>1, <2>2, RefreshedFacts
  <2>4. TypeOK'
    BY <1>t, <2>1, <2>3, TypesPrimed DEF TypesKept, Pcs
  <2>5. LocalsSet' /\ PhaseKnown'
    BY <1>i, <2>1 DEF LocalsSet, PhaseKnown, Sending
  <2>6. OutKnown'
    BY <1>i, <2>1, <2>3, OutKept
  <2>7. GuardLimit' /\ CountsCover'
    <3>1. Sending' => Sending
      BY <2>1 DEF Sending
    <3>2. QED
      BY <1>i, <1>t, <2>1, <2>3, <3>1, CountsKept
  <2>8. QED
    BY <2>4, <2>5, <2>6, <2>7 DEF Inv
<1>5. CASE Dispatch
  <2>1. PICK executed \in BOOLEAN, answered \in BOOLEAN :
          /\ Fault(Cost(answered))
          /\ server' = IF executed THEN CarSent(server, l.car, l.guard) ELSE server
    BY <1>5 DEF Dispatch
  <2>2. /\ pc = "dispatch" /\ pc' = "send" /\ UNCHANGED <<daily, phase, l, now, blind, unread>>
        /\ l.car \in Cars /\ Sending /\ l.count \in [Members -> Nat] /\ l.list \in [Cars -> Car]
    BY <1>5, <1>i DEF Dispatch, LocalsSet, Sending
  <2>3. faults' \in 0..MaxFaults
    BY <1>t, <2>1, FaultType, CostType
  <2>4. /\ server' \in Server
        /\ \A m \in Members : server'.helping[m] \in
              {server.helping[m], server.helping[m] + (IF m = l.guard THEN 1 ELSE 0)}
        /\ \A d \in Cars : server'.car[d].sent \in {now, server.car[d].sent}
    BY <1>t, <2>1, <2>2, SentFacts
  <2>5. TypeOK'
    BY <1>t, <2>2, <2>3, <2>4, TypesPrimed DEF TypesKept, Pcs
  <2>6. LocalsSet' /\ PhaseKnown'
    BY <1>i, <2>2 DEF LocalsSet, PhaseKnown, Sending
  <2>7. OutKnown'
    BY <1>i, <2>2, <2>4 DEF OutKnown, Out, PhaseKnown
  <2>8. ASSUME ~blind, NEW m \in Members
        PROVE  server'.helping[m] <= l.count[m] /\ l.count[m] <= GuardMax /\ server'.helping[m] <= GuardMax
    <3>1. l.count[m] <= GuardMax
          /\ server.helping[m] + (IF l.guard = m THEN 1 ELSE 0) <= l.count[m]
      BY <1>i, <2>2, <2>8 DEF CountsCover
    <3>2. server.helping[m] \in Nat /\ l.count[m] \in Nat
      BY <1>h, <2>2
    <3>3. server'.helping[m] <= l.count[m] /\ server'.helping[m] \in Nat
      BY <2>4, <3>1, <3>2
    <3>4. QED
      BY <1>h, <3>1, <3>2, <3>3
  <2>9. GuardLimit'
    BY <2>2, <2>8 DEF GuardLimit
  <2>10. CountsCover'
    <3>1. \A m \in Members : server'.helping[m] \in Nat
      BY <2>4 DEF Server
    <3>2. QED
      BY <2>2, <2>8, <3>1 DEF CountsCover
  <2>11. QED
    BY <2>5, <2>6, <2>7, <2>9, <2>10 DEF Inv
<1>6. CASE SendEnds
  <2> DEFINE n == IF l.next > 0 /\ l.next < now + Ripe THEN l.next ELSE now + Ripe
  <2>1. /\ pc = "send" /\ pc' = "idle" /\ l' = NoLocals
        /\ daily' = [daily EXCEPT !.sent = TRUE, !.next = n]
        /\ UNCHANGED <<server, phase, now, faults, blind, unread>>
    BY <1>6 DEF SendEnds
  <2>2. n \in Nat /\ n <= now + Ripe /\ (l.next > 0 => n <= l.next)
    BY <1>h, <1>t, Bounds
  <2> HIDE DEF n
  <2>3. daily' \in DailyState /\ daily'.next = n
    BY <1>t, <2>1, <2>2 DEF TypesKept, DailyState
  <2>4. TypeOK'
    BY <1>t, <2>1, <2>3, TypesPrimed, NoLocalsType DEF TypesKept, Pcs
  <2>5. LocalsSet' /\ PhaseKnown' /\ GuardLimit' /\ CountsCover'
    BY <1>i, <2>1 DEF LocalsSet, PhaseKnown, Sending, GuardLimit, CountsCover
  <2>6. OutKnown'
    <3>1. ASSUME ~unread, NEW c \in Cars, server.car[c].sent # 0
          PROVE  n <= server.car[c].sent + Ripe
      <4>1. \/ server.car[c].sent = now
            \/ l.next > 0 /\ l.next <= server.car[c].sent + Ripe
        BY <1>i, <2>1, <3>1 DEF OutKnown, Out, PhaseKnown
      <4>2. server.car[c].sent \in Nat
        BY <1>h DEF Car
      <4>3. QED
        BY <1>h, <1>t, <2>2, <4>1, <4>2, Bounds
    <3>2. QED
      BY <2>1, <2>3, <3>1 DEF OutKnown, Out
  <2>7. QED
    BY <2>4, <2>5, <2>6 DEF Inv
<1>7. QED
  BY <1>1, <1>2, <1>3, <1>4, <1>5, <1>6

-----------------------------------------------------------------------------
(* The theorems.                                                           *)

\* The invariant holds in every reachable state.
LEMMA InvAlways == Spec => []Inv
<1>1. Init => Inv
  BY InvInit
<1>2. Inv /\ [Next]_vars => Inv'
  <2> SUFFICES ASSUME Inv, [Next]_vars PROVE Inv'
    OBVIOUS
  <2>1. CASE UNCHANGED vars
    <3>1. TypeOK' = TypeOK
      BY <2>1 DEF vars, TypeOK
    <3>2. LocalsSet' = LocalsSet /\ PhaseKnown' = PhaseKnown
      BY <2>1 DEF vars, LocalsSet, PhaseKnown, Sending
    <3>3. GuardLimit' = GuardLimit /\ CountsCover' = CountsCover
      BY <2>1 DEF vars, GuardLimit, CountsCover, Sending
    <3>4. OutKnown' = OutKnown
      BY <2>1 DEF vars, OutKnown, Out
    <3>5. QED
      BY <3>1, <3>2, <3>3, <3>4 DEF Inv
  <2>2. CASE Next
    BY <2>2, ClaimKeeps, SendKeeps DEF Next
  <2>3. QED
    BY <2>1, <2>2
<1>3. QED
  BY <1>1, <1>2, PTL DEF Spec

\* Every variable keeps its type: tickets, parts and counts never become negative.
THEOREM CarTypes == Spec => []TypeOK
<1>1. Inv => TypeOK
  BY DEF Inv
<1>2. QED
  BY <1>1, InvAlways, PTL

\* No member guards more cars than the limit unless the counts could not be read.
THEOREM GuardsWithinLimit == Spec => []GuardLimit
<1>1. Inv => GuardLimit
  BY DEF Inv
<1>2. QED
  BY <1>1, InvAlways, PTL

\* After the dispatch the next claim is set in time for every car that is out.
THEOREM ClaimsScheduled == Spec => []ClaimScheduledInTime
<1>1. Inv => ClaimScheduledInTime
  BY DEF Inv, OutKnown, ClaimScheduledInTime
<1>2. QED
  BY <1>1, InvAlways, PTL
=============================================================================
