------------------------ MODULE PeriodicTasksProofs -------------------------
(***************************************************************************)
(* Proofs about PeriodicTasks, for every tower, every set of formations,   *)
(* every state of the role at login and any number of faults.              *)
(***************************************************************************)
EXTENDS PeriodicTasks, FiniteSetTheorems, TLAPS

Climb == [energy : 0..FullEnergy, id : Nat, count : Nat, failures : Nat,
          original : Teams \cup {NoTeam}, switched : BOOLEAN]
PeriodicState == [timer : Schedule, cleared : BOOLEAN, tower_due : BOOLEAN, tower_wait : 0..FullEnergy,
                  evo_due : BOOLEAN, evo_wait : 0..FullEnergy]
Reading == [floor : 0..ClearFloor, energy : 0..FullEnergy]

-----------------------------------------------------------------------------
(* Types of the operators.                                                 *)

\* The bounds are numbers.
LEMMA Bounds == ClearFloor \in Nat /\ FullEnergy \in Nat /\ MaxFaults \in Nat
BY PeriodicAssumption

\* A fault is counted within the bound.
LEMMA FaultType == ASSUME TypeOK, NEW n \in Nat, Fault(n) \/ NoFault PROVE faults' \in 0..MaxFaults
BY Bounds DEF TypeOK, Fault, NoFault

\* The role info read from the server has its type.
LEMMA SeenType == ASSUME NEW s \in RoleInfo
                  PROVE  /\ Seen(s) \in Reading
                         /\ Seen(s).floor = s.floor /\ Seen(s).energy = s.energy
BY DEF Seen, RoleInfo, Reading

\* A fight costs one energy and wins at most one floor.
LEMMA FoughtType == ASSUME NEW s \in RoleInfo, NEW won \in BOOLEAN, s.energy > 0, s.floor < ClearFloor
                    PROVE  /\ Fought(s, won) \in RoleInfo
                           /\ Fought(s, won).energy = s.energy - 1
                           /\ Fought(s, won).floor \in {s.floor, s.floor + 1}
                           /\ Fought(s, won).evo = s.evo /\ Fought(s, won).timer = s.timer
                           /\ Fought(s, won).level = s.level /\ Fought(s, won).team = s.team
<1> DEFINE e == s.energy - 1  f == s.floor + (IF won THEN 1 ELSE 0)
<1>1. e \in 0..FullEnergy /\ f \in 0..ClearFloor /\ f \in {s.floor, s.floor + 1}
  BY Bounds DEF RoleInfo
<1>2. Fought(s, won) = [s EXCEPT !.energy = e, !.floor = f]
  BY DEF Fought, RoleInfo
<1>3. e = s.energy - 1
  OBVIOUS
<1> HIDE DEF e, f
<1>4. QED
  BY <1>1, <1>2, <1>3 DEF RoleInfo

\* A claimed reward changes nothing else.
LEMMA ClaimedType == ASSUME NEW s \in RoleInfo, NEW section
                     PROVE  /\ Claimed(s, section) \in RoleInfo
                            /\ Claimed(s, section).energy = s.energy
                            /\ Claimed(s, section).floor = s.floor
                            /\ Claimed(s, section).evo = s.evo /\ Claimed(s, section).timer = s.timer
                            /\ Claimed(s, section).level = s.level /\ Claimed(s, section).team = s.team
<1>1. \A x \in Nat, k \in Nat \ {0} : x \div k \in Nat
  OBVIOUS
<1>2. s.floor \div Section \in Nat
  BY <1>1, PeriodicAssumption DEF RoleInfo
<1>3. QED
  BY <1>2 DEF Claimed, RoleInfo

\* Renewed timers are fresh, the others are kept.
LEMMA RenewedType == ASSUME NEW s \in RoleInfo, NEW done \in SUBSET Timers
                     PROVE  /\ Renewed(s, done) \in RoleInfo
                            /\ Renewed(s, done).energy = s.energy
                            /\ Renewed(s, done).floor = s.floor
                            /\ Renewed(s, done).evo = s.evo
                            /\ Renewed(s, done).level = s.level /\ Renewed(s, done).team = s.team
                            /\ \A t \in Timers : Renewed(s, done).timer[t]
                                                   = IF t \in done THEN "fresh" ELSE s.timer[t]
<1>1. [t \in Timers |-> IF t \in done THEN "fresh" ELSE s.timer[t]] \in ServerSchedule
  BY DEF RoleInfo, ServerSchedule, Timers
<1>2. QED
  BY <1>1 DEF Renewed, RoleInfo

\* What update_periodic_state leaves.
LEMMA UpdatedType == ASSUME NEW p \in PeriodicState, NEW i \in Reading, NEW s \in RoleInfo
                     PROVE  /\ Updated(p, i, s) \in PeriodicState
                            /\ Updated(p, i, s).cleared = (p.cleared \/ i.floor >= ClearFloor)
                            /\ Updated(p, i, s).tower_wait = p.tower_wait
                            /\ Updated(p, i, s).evo_wait = p.evo_wait
                            /\ \A t \in Timers : Updated(p, i, s).timer[t]
                                  = IF t = "legacy" THEN p.timer[t] ELSE s.timer[t]
<1> DEFINE tm == [t \in Timers |-> IF t = "legacy" THEN p.timer[t] ELSE s.timer[t]]
           c == p.cleared \/ i.floor >= ClearFloor
<1>1. tm \in Schedule /\ c \in BOOLEAN
  BY DEF RoleInfo, Schedule, ServerSchedule, PeriodicState, Timers
<1>2. \A t \in Timers : tm[t] = IF t = "legacy" THEN p.timer[t] ELSE s.timer[t]
  OBVIOUS
<1>3. Updated(p, i, s) = [p EXCEPT !.timer = tm, !.cleared = c]
  BY DEF Updated, PeriodicState
<1> HIDE DEF tm, c
<1>4. /\ Updated(p, i, s) \in PeriodicState /\ Updated(p, i, s).cleared = c
      /\ Updated(p, i, s).timer = tm
      /\ Updated(p, i, s).tower_wait = p.tower_wait /\ Updated(p, i, s).evo_wait = p.evo_wait
  BY <1>1, <1>3 DEF PeriodicState
<1>5. QED
  BY <1>2, <1>4 DEF c

\* The parts of the type invariant.
LEMMA Types == TypeOK <=> /\ pc \in {"claims", "tower", "t_team", "t_reward", "t_fight", "t_end",
                                     "t_leave", "evo", "e_info", "e_fight", "m_open", "m_box",
                                     "e_leave", "end"}
                          /\ server \in RoleInfo /\ info \in Reading /\ climb \in Climb
                          /\ periodic \in PeriodicState /\ faults \in 0..MaxFaults
                          /\ before \in Teams /\ stuck \in BOOLEAN
BY DEF TypeOK, Reading, Climb, PeriodicState

-----------------------------------------------------------------------------
(* The formation, the fights and the rewards.                              *)

\* A climb begins with the formation it found noted, or unread and unchanged.
LEMMA EnterFacts ==
    ASSUME TypeOK, NEW team \in Teams, Enter(team)
    PROVE  /\ server' \in RoleInfo /\ climb' \in Climb /\ faults' \in 0..MaxFaults
           /\ UNCHANGED <<server.floor, server.energy, server.evo, server.timer, server.level>>
           /\ climb'.energy = climb.energy /\ climb'.id = climb.id
           /\ IF climb'.switched THEN climb'.original = server.team ELSE server'.team = server.team
<1>t. server \in RoleInfo /\ climb \in Climb /\ NoTeam \notin Teams
  BY Types, PeriodicAssumption
<1>1. CASE Fault(1) /\ UNCHANGED server
           /\ climb' = [climb EXCEPT !.original = NoTeam, !.switched = FALSE]
  <2>1. climb' \in Climb /\ climb'.energy = climb.energy /\ climb'.id = climb.id /\ ~climb'.switched
    BY <1>t, <1>1 DEF Climb
  <2>2. QED
    BY <1>t, <1>1, <2>1, FaultType
<1>2. ASSUME NEW executed \in BOOLEAN, NEW answered \in BOOLEAN,
             server.team = team => executed /\ answered,
             Fault(IF answered THEN 0 ELSE 1),
             server' = [server EXCEPT !.team = IF executed THEN team ELSE @],
             climb' = [climb EXCEPT !.original = server.team, !.switched = server.team # team]
      PROVE  /\ server' \in RoleInfo /\ climb' \in Climb /\ faults' \in 0..MaxFaults
             /\ UNCHANGED <<server.floor, server.energy, server.evo, server.timer, server.level>>
             /\ climb'.energy = climb.energy /\ climb'.id = climb.id
             /\ IF climb'.switched THEN climb'.original = server.team ELSE server'.team = server.team
  <2>1. /\ server' \in RoleInfo /\ server'.team \in {team, server.team}
        /\ (server.team = team => server'.team = server.team)
        /\ UNCHANGED <<server.floor, server.energy, server.evo, server.timer, server.level>>
    BY <1>t, <1>2 DEF RoleInfo
  <2>2. /\ climb'.energy = climb.energy /\ climb'.id = climb.id
        /\ climb'.original = server.team /\ climb'.switched = (server.team # team)
        /\ climb' \in Climb
    <3>1. server.team \in Teams
      BY <1>t DEF RoleInfo
    <3>2. QED
      BY <1>t, <1>2, <3>1 DEF Climb
  <2>3. faults' \in 0..MaxFaults
    BY <1>2, FaultType
  <2>4. QED
    BY <2>1, <2>2, <2>3
<1>3. QED
  BY <1>1, <1>2 DEF Enter

\* A climb that switched restores the formation it noted, or is stuck.
LEMMA LeaveFacts ==
    ASSUME TypeOK, Leave(server), climb.switched => climb.original \in Teams
    PROVE  /\ server' \in RoleInfo /\ stuck' \in BOOLEAN /\ faults' \in 0..MaxFaults
           /\ UNCHANGED <<server.floor, server.energy, server.evo, server.timer, server.level>>
           /\ ~stuck' => /\ ~stuck
                         /\ server'.team = IF climb.switched THEN climb.original ELSE server.team
<1>t. server \in RoleInfo /\ stuck \in BOOLEAN
  BY Types
<1>f. faults' \in 0..MaxFaults
  BY FaultType DEF Leave
<1>1. CASE ~climb.switched
  BY <1>t, <1>f, <1>1 DEF Leave
<1>2. CASE climb.switched /\ server' = [server EXCEPT !.team = climb.original] /\ UNCHANGED stuck
  BY <1>t, <1>f, <1>2 DEF RoleInfo
<1>3. CASE climb.switched /\ server' = server /\ stuck' = TRUE
  BY <1>t, <1>f, <1>3
<1>4. QED
  BY <1>1, <1>2, <1>3 DEF Leave

\* A reward is claimed and the local values are those of role_info.
LEMMA RewardFacts ==
    ASSUME TypeOK, Reward
    PROVE  /\ server' \in RoleInfo /\ info' \in Reading /\ climb' \in Climb /\ faults' \in 0..MaxFaults
           /\ UNCHANGED <<server.floor, server.energy, server.evo, server.timer, server.level, server.team>>
           /\ info' \in {info, Seen(server)}
           /\ climb'.energy = info'.energy /\ climb'.id = info'.floor
           /\ climb'.original = climb.original /\ climb'.switched = climb.switched
<1>t. server \in RoleInfo /\ climb \in Climb /\ info \in Reading
  BY Types
<1>1. PICK executed \in BOOLEAN, refreshed \in BOOLEAN :
        /\ Fault((IF executed THEN 0 ELSE 1) + (IF refreshed THEN 0 ELSE 1))
        /\ server' = IF executed THEN Claimed(server, climb.id \div Section) ELSE server
        /\ info' = IF refreshed THEN Seen(server) ELSE info
        /\ climb' = [climb EXCEPT !.energy = info'.energy, !.id = info'.floor, !.failures = 0]
  BY DEF Reward
<1>2. faults' \in 0..MaxFaults
  <2>1. (IF executed THEN 0 ELSE 1) + (IF refreshed THEN 0 ELSE 1) \in Nat
    OBVIOUS
  <2>2. QED
    BY <1>1, <2>1, FaultType
<1>3. info' \in Reading /\ info' \in {info, Seen(server)}
  BY <1>t, <1>1, SeenType
<1>4. server' \in RoleInfo
      /\ UNCHANGED <<server.floor, server.energy, server.evo, server.timer, server.level, server.team>>
  BY <1>t, <1>1, ClaimedType
<1>5. /\ climb' \in Climb /\ climb'.energy = info'.energy /\ climb'.id = info'.floor
      /\ climb'.original = climb.original /\ climb'.switched = climb.switched
  <2>1. info'.energy \in 0..FullEnergy /\ info'.floor \in Nat
    BY <1>3, Bounds DEF Reading
  <2>2. climb' = [climb EXCEPT !.energy = info'.energy, !.id = info'.floor, !.failures = 0]
    BY <1>1
  <2>3. QED
    BY <1>t, <2>1, <2>2 DEF Climb
<1>6. QED
  BY <1>2, <1>3, <1>4, <1>5

-----------------------------------------------------------------------------
(* The inductive invariant.                                                *)

\* A tower noted as cleared is, and a timer noted as fresh is not due.
ClearedTrue == periodic.cleared => server.floor >= ClearFloor
TimersTrue ==
    \A t \in Timers :
        periodic.timer[t] = "fresh" /\ (t = "legacy" => server.level = 2) => server.timer[t] # "due"

Inv == /\ TypeOK /\ ReadingsOld /\ WaitsBounded /\ FormationKnown
       /\ ClearedTrue /\ TimersTrue

\* It holds after login.
LEMMA InvInit == Init => Inv
<1> SUFFICES ASSUME Init PROVE Inv
  OBVIOUS
<1>1. PICK s \in Starts, tower_due \in BOOLEAN, evo_due \in BOOLEAN, legacy \in {"due", "fresh"} :
        /\ server = s /\ info = Seen(s) /\ before = s.team
        /\ legacy = "fresh" /\ s.level = 2 => s.timer["legacy"] # "due"
        /\ periodic = [timer |-> [s.timer EXCEPT !["legacy"] = legacy],
                       cleared |-> s.floor >= ClearFloor,
                       tower_due |-> tower_due, tower_wait |-> 0,
                       evo_due |-> evo_due, evo_wait |-> 0]
  BY DEF Init
<1>2. periodic.tower_wait = 0 /\ periodic.evo_wait = 0 /\ periodic.cleared = (s.floor >= ClearFloor)
      /\ periodic.timer = [s.timer EXCEPT !["legacy"] = legacy]
  BY <1>1
<1>3. s \in RoleInfo /\ Seen(s) \in Reading /\ Seen(s).floor = s.floor /\ Seen(s).energy = s.energy
  BY PeriodicAssumption, SeenType
<1>4. s.timer \in ServerSchedule /\ s.team \in Teams /\ (s.floor >= ClearFloor) \in BOOLEAN
      /\ s.energy \in 0..FullEnergy /\ s.evo \in 0..FullEnergy
  BY <1>3 DEF RoleInfo
<1>5. periodic \in PeriodicState /\ (\A t \in Timers : periodic.timer[t] = IF t = "legacy" THEN legacy ELSE s.timer[t])
  <2>1. [s.timer EXCEPT !["legacy"] = legacy] \in Schedule
    BY <1>4 DEF Schedule, ServerSchedule, Timers
  <2>2. \A t \in Timers : periodic.timer[t] = IF t = "legacy" THEN legacy ELSE s.timer[t]
    BY <1>2, <1>4 DEF ServerSchedule
  <2>3. QED
    BY <1>1, <1>4, <2>1, <2>2, Bounds DEF PeriodicState
<1>6. climb \in Climb /\ climb = NoClimb
  BY Bounds DEF Init, NoClimb, Climb
<1>7. TypeOK
  <2>1. pc = "claims" /\ faults \in 0..MaxFaults /\ stuck = FALSE
    BY Bounds DEF Init
  <2>2. server \in RoleInfo /\ info \in Reading /\ before \in Teams
    BY <1>1, <1>3, <1>4
  <2>3. QED
    BY <1>5, <1>6, <2>1, <2>2, Types
<1>8. ReadingsOld /\ WaitsBounded /\ FormationKnown
  <2>1. server = s /\ info = Seen(s) /\ before = s.team /\ pc = "claims" /\ ~climb.switched
    BY <1>1, <1>6 DEF Init, NoClimb
  <2>2. periodic.tower_wait = 0 /\ periodic.evo_wait = 0 /\ s.floor \in Nat
    BY <1>2, <1>3, Bounds DEF RoleInfo
  <2>3. QED
    BY <1>3, <1>4, <2>1, <2>2, Bounds DEF ReadingsOld, WaitsBounded, FormationKnown, InTower, InEvo
<1>9. ClearedTrue /\ TimersTrue
  BY <1>1, <1>2, <1>5 DEF ClearedTrue, TimersTrue
<1>10. QED
  BY <1>7, <1>8, <1>9 DEF Inv

\* The timed claims.
LEMMA ClaimsKeep == Inv /\ Claims => Inv'
<1> SUFFICES ASSUME Inv, Claims PROVE Inv'
  OBVIOUS
<1>t. /\ TypeOK /\ server \in RoleInfo /\ info \in Reading /\ climb \in Climb
      /\ periodic \in PeriodicState /\ ReadingsOld /\ WaitsBounded /\ FormationKnown
      /\ ClearedTrue /\ TimersTrue /\ pc = "claims" /\ pc' = "tower"
      /\ UNCHANGED <<climb, before, stuck>>
  BY Types DEF Inv, Claims
<1>1. PICK done \in SUBSET Tried, answered \in BOOLEAN, refreshed \in BOOLEAN :
          /\ answered => "legacy" \in Tried /\ ("legacy" \in done \/ server.timer["legacy"] # "due")
          /\ Fault(Cardinality((Tried \ {"legacy"}) \ done) + (IF refreshed THEN 0 ELSE 1)
                   + (IF "legacy" \in Tried /\ ~answered THEN 1 ELSE 0))
          /\ server' = Renewed(server, done)
          /\ info' = IF refreshed /\ Tried # {} THEN Seen(server) ELSE info
          /\ LET p == [periodic EXCEPT !.timer["legacy"] =
                          IF LegacyNoted(answered) THEN "fresh" ELSE @]
             IN  periodic' = IF refreshed THEN Updated(p, info', server') ELSE p
  BY DEF Claims
<1>d. Tried \in SUBSET Timers /\ IsFiniteSet((Tried \ {"legacy"}) \ done) /\ "legacy" \in Timers
  <2>1. Tried \in SUBSET Timers /\ "legacy" \in Timers
    BY DEF Tried, Due, Timers
  <2>2. IsFiniteSet(Timers)
    <3>1. IsFiniteSet({"hangup"})
      BY FS_Singleton
    <3>2. IsFiniteSet({"hangup"} \cup {"bottle"})
      BY <3>1, FS_AddElement
    <3>3. IsFiniteSet(({"hangup"} \cup {"bottle"}) \cup {"legacy"})
      BY <3>2, FS_AddElement
    <3>4. Timers = ({"hangup"} \cup {"bottle"}) \cup {"legacy"}
      BY DEF Timers
    <3>5. QED
      BY <3>3, <3>4
  <2>3. QED
    BY <2>1, <2>2, FS_Subset
<1>f. faults' \in 0..MaxFaults
  <2>1. Cardinality((Tried \ {"legacy"}) \ done) \in Nat
    BY <1>d, FS_CardinalityType
  <2>2. Cardinality((Tried \ {"legacy"}) \ done) + (IF refreshed THEN 0 ELSE 1)
          + (IF "legacy" \in Tried /\ ~answered THEN 1 ELSE 0) \in Nat
    BY <2>1
  <2>3. QED
    BY <1>t, <1>1, <2>2, FaultType
<1>s. /\ server' \in RoleInfo /\ UNCHANGED <<server.floor, server.energy, server.evo, server.level, server.team>>
      /\ \A t \in Timers : server'.timer[t] = IF t \in done THEN "fresh" ELSE server.timer[t]
  BY <1>t, <1>1, <1>d, RenewedType
<1>i. info' \in Reading /\ info' \in {info, Seen(server)} /\ info'.floor <= server.floor
      /\ info'.energy >= server.energy
  <2>1. info' \in {info, Seen(server)}
    BY <1>1
  <2>2. server.floor \in Nat /\ server.energy \in Nat
    BY <1>t, Bounds DEF RoleInfo
  <2>3. QED
    BY <1>t, <2>1, <2>2, SeenType DEF ReadingsOld
<1> DEFINE v == IF LegacyNoted(answered) THEN "fresh" ELSE periodic.timer["legacy"]
           p == [periodic EXCEPT !.timer = [periodic.timer EXCEPT !["legacy"] = v]]
<1>p. /\ p \in PeriodicState /\ p.cleared = periodic.cleared
      /\ p.tower_wait = periodic.tower_wait /\ p.evo_wait = periodic.evo_wait
      /\ \A t \in Timers : p.timer[t] = IF t = "legacy" THEN v ELSE periodic.timer[t]
  BY <1>t, <1>d DEF PeriodicState, Schedule
<1>u. periodic' = IF refreshed THEN Updated(p, info', server') ELSE p
  BY <1>1, <1>t DEF PeriodicState
<1>l. v = "fresh" /\ server.level = 2 => server'.timer["legacy"] # "due"
  <2>1. CASE answered
    BY <1>1, <1>d, <1>s, <2>1
  <2>2. CASE "legacy" \in Due \ Tried
    BY <2>2 DEF Tried
  <2>3. CASE periodic.timer["legacy"] = "fresh"
    BY <1>d, <1>t, <1>s, <2>3 DEF TimersTrue
  <2>4. QED
    BY <2>1, <2>2, <2>3 DEF LegacyNoted
<1>o. \A t \in Timers : t # "legacy" /\ periodic.timer[t] = "fresh" => server'.timer[t] # "due"
  BY <1>t, <1>s DEF TimersTrue
<1> HIDE DEF v, p
<1>2. /\ periodic' \in PeriodicState
      /\ periodic'.cleared => (periodic.cleared \/ info'.floor >= ClearFloor)
      /\ periodic'.tower_wait = periodic.tower_wait /\ periodic'.evo_wait = periodic.evo_wait
      /\ \A t \in Timers : periodic'.timer[t] \in
            {IF t = "legacy" THEN v ELSE periodic.timer[t], IF t = "legacy" THEN v ELSE server'.timer[t]}
  <2>1. CASE refreshed
    <3>1. periodic' = Updated(p, info', server')
      BY <1>u, <2>1
    <3>2. p \in PeriodicState /\ info' \in Reading /\ server' \in RoleInfo
      BY <1>p, <1>s, <1>i
    <3>3. /\ periodic' \in PeriodicState
          /\ periodic'.cleared = (p.cleared \/ info'.floor >= ClearFloor)
          /\ periodic'.tower_wait = p.tower_wait /\ periodic'.evo_wait = p.evo_wait
          /\ \A t \in Timers : periodic'.timer[t]
                = IF t = "legacy" THEN p.timer[t] ELSE server'.timer[t]
      BY <3>1, <3>2, UpdatedType
    <3>4. QED
      BY <1>p, <3>3
  <2>2. CASE ~refreshed
    BY <1>p, <1>u, <2>2
  <2>3. QED
    BY <2>1, <2>2
<1>3. TypeOK'
  BY <1>t, <1>f, <1>s, <1>i, <1>2 DEF TypeOK, Reading, Climb, PeriodicState
<1>4. ReadingsOld' /\ WaitsBounded' /\ FormationKnown'
  BY <1>t, <1>s, <1>i, <1>2 DEF ReadingsOld, WaitsBounded, FormationKnown, InTower, InEvo
<1>5. ClearedTrue'
  <2>1. server.floor \in Nat /\ info'.floor \in Nat /\ ClearFloor \in Nat
    BY <1>t, <1>i, Bounds DEF RoleInfo, Reading
  <2>2. QED
    BY <1>t, <1>i, <1>s, <1>2, <2>1 DEF ClearedTrue
<1>6. TimersTrue'
  BY <1>l, <1>o, <1>s, <1>2 DEF TimersTrue
<1>7. QED
  BY <1>3, <1>4, <1>5, <1>6 DEF Inv

\* What every step of a climb leaves true: readings and notes come from the server.
Kept ==
    /\ server' \in RoleInfo /\ info' \in Reading /\ climb' \in Climb
    /\ periodic' \in PeriodicState /\ faults' \in 0..MaxFaults
    /\ server'.floor >= server.floor /\ server'.energy <= server.energy /\ server'.evo <= server.evo
    /\ server'.timer = server.timer /\ server'.level = server.level /\ before' = before
    /\ info' \in {info, Seen(server)}
    /\ \A t \in Timers : periodic'.timer[t] \in {periodic.timer[t], server.timer[t]}
    /\ periodic'.cleared => \/ periodic.cleared \/ info'.floor >= ClearFloor
                            \/ server.floor >= ClearFloor
    /\ \/ periodic'.tower_wait = periodic.tower_wait
       \/ periodic'.tower_wait <= FullEnergy - server'.energy
    /\ \/ periodic'.evo_wait = periodic.evo_wait
       \/ periodic'.evo_wait <= FullEnergy - server'.evo

\* The local values of the climb, after the step.
LocalsOld ==
    /\ InTower => climb.id <= server.floor /\ climb.energy >= server.energy
    /\ InEvo => climb.energy >= server.evo

\* Such a step keeps the invariant if it also keeps the local values and the formation.
LEMMA KeptInv == ASSUME Inv, Kept, LocalsOld', FormationKnown', stuck' \in BOOLEAN,
                        pc' \in {"claims", "tower", "t_team", "t_reward", "t_fight", "t_end",
                                 "t_leave", "evo", "e_info", "e_fight", "m_open", "m_box",
                                 "e_leave", "end"}
                 PROVE  Inv'
<1>t. /\ server \in RoleInfo /\ info \in Reading /\ periodic \in PeriodicState /\ before \in Teams
      /\ ReadingsOld /\ WaitsBounded /\ ClearedTrue /\ TimersTrue
  BY Types DEF Inv
<1>n. /\ server.floor \in Nat /\ server.energy \in Nat /\ server.evo \in Nat
      /\ server'.floor \in Nat /\ server'.energy \in Nat /\ server'.evo \in Nat
      /\ info.floor \in Nat /\ info.energy \in Nat /\ info'.floor \in Nat /\ info'.energy \in Nat
      /\ periodic.tower_wait \in Nat /\ periodic.evo_wait \in Nat
      /\ FullEnergy \in Nat /\ ClearFloor \in Nat
  BY <1>t, Bounds DEF Kept, RoleInfo, Reading, PeriodicState
<1>1. TypeOK'
  BY <1>t DEF TypeOK, Kept, Reading, Climb, PeriodicState
<1>2. info'.floor <= server.floor /\ info'.energy >= server.energy
  BY <1>t, <1>n, SeenType DEF Kept, ReadingsOld
<1>3. ReadingsOld'
  BY <1>n, <1>2 DEF Kept, LocalsOld, ReadingsOld
<1>4. WaitsBounded'
  BY <1>t, <1>n DEF Kept, WaitsBounded
<1>5. ClearedTrue'
  BY <1>t, <1>n, <1>2 DEF Kept, ClearedTrue
<1>6. TimersTrue'
  BY <1>t DEF Kept, TimersTrue
<1>7. QED
  BY <1>1, <1>3, <1>4, <1>5, <1>6 DEF Inv

\* The formation is left alone within a climb.
LEMMA SameFormation ==
    ASSUME FormationKnown, UNCHANGED <<server.team, climb.original, climb.switched, stuck, before>>,
           pc' \in {"claims", "tower", "t_team", "evo", "end"} => pc' = pc
    PROVE  FormationKnown'
BY DEF FormationKnown

\* Nothing changes but the local values.
LEMMA QuietStep == ASSUME Inv, UNCHANGED <<server, info, periodic, before>>, climb' \in Climb,
                          faults' \in 0..MaxFaults
                   PROVE  Kept
<1>t. server \in RoleInfo /\ info \in Reading /\ periodic \in PeriodicState
  BY Types DEF Inv
<1>n. server.floor \in Nat /\ server.energy \in Nat /\ server.evo \in Nat
  BY <1>t, Bounds DEF RoleInfo
<1>1. QED
  BY <1>t, <1>n DEF Kept

-----------------------------------------------------------------------------
(* The tower.                                                              *)

\* Every step of the tower climb keeps the invariant.
LEMMA TowerKeeps == Inv /\ Tower => Inv'
<1> SUFFICES ASSUME Inv, Tower PROVE Inv'
  OBVIOUS
<1>t. /\ TypeOK /\ server \in RoleInfo /\ info \in Reading /\ climb \in Climb
      /\ periodic \in PeriodicState /\ faults \in 0..MaxFaults /\ stuck \in BOOLEAN
      /\ ReadingsOld /\ WaitsBounded /\ FormationKnown
  BY Types DEF Inv
<1>n. /\ server.floor \in Nat /\ server.energy \in Nat /\ server.evo \in Nat
      /\ info.floor \in Nat /\ info.energy \in Nat
      /\ climb.id \in Nat /\ climb.energy \in Nat /\ climb.count \in Nat /\ climb.failures \in Nat
      /\ climb.energy <= FullEnergy /\ FullEnergy \in Nat /\ ClearFloor \in Nat
  BY <1>t, Bounds DEF RoleInfo, Reading, Climb
<1>z. NoClimb \in Climb /\ ~NoClimb.switched
  BY Bounds DEF NoClimb, Climb
<1>s. Seen(server) \in Reading /\ Seen(server).floor = server.floor /\ Seen(server).energy = server.energy
  BY <1>t, SeenType
<1>1. CASE SkipTower
  <2>1. /\ UNCHANGED <<server, info, climb, faults, before, stuck>> /\ pc = "tower" /\ pc' = "evo"
        /\ periodic' = [periodic EXCEPT !.cleared = @ \/ (periodic.tower_due /\ info.floor >= ClearFloor)]
    BY <1>1 DEF SkipTower
  <2>2. /\ periodic' \in PeriodicState /\ periodic'.timer = periodic.timer
        /\ periodic'.cleared => periodic.cleared \/ info.floor >= ClearFloor
        /\ periodic'.tower_wait = periodic.tower_wait /\ periodic'.evo_wait = periodic.evo_wait
    BY <1>t, <2>1 DEF PeriodicState
  <2>3. Kept
    BY <1>t, <1>n, <2>1, <2>2 DEF Kept
  <2>4. LocalsOld' /\ FormationKnown'
    BY <1>t, <2>1 DEF LocalsOld, InTower, InEvo, FormationKnown
  <2>5. QED
    BY <1>t, <2>1, <2>3, <2>4, KeptInv
<1>2. CASE ReadTower
  <2>1. /\ UNCHANGED <<server, before, stuck>> /\ pc = "tower" /\ pc' \in {"evo", "t_team"}
        /\ info' \in {info, Seen(server)} /\ (Fault(1) \/ NoFault)
        /\ climb' = [NoClimb EXCEPT !.energy = info'.energy, !.id = info'.floor]
        /\ periodic' = [periodic EXCEPT !.cleared = info'.floor >= ClearFloor]
    BY <1>2 DEF ReadTower
  <2>2. faults' \in 0..MaxFaults
    BY <1>t, <2>1, FaultType
  <2>3. info' \in Reading /\ info'.floor \in Nat /\ info'.floor <= server.floor
        /\ info'.energy \in 0..FullEnergy /\ info'.energy >= server.energy
    BY <1>t, <1>n, <1>s, <2>1, Bounds DEF ReadingsOld, Reading
  <2>4. climb' \in Climb /\ climb'.energy = info'.energy /\ climb'.id = info'.floor /\ ~climb'.switched
    BY <1>z, <2>1, <2>3 DEF Climb
  <2>5. /\ periodic' \in PeriodicState /\ periodic'.timer = periodic.timer
        /\ periodic'.cleared => info'.floor >= ClearFloor
        /\ periodic'.tower_wait = periodic.tower_wait /\ periodic'.evo_wait = periodic.evo_wait
    <3> DEFINE c == info'.floor >= ClearFloor
    <3>1. c \in BOOLEAN /\ periodic' = [periodic EXCEPT !.cleared = c]
      BY <2>1
    <3> HIDE DEF c
    <3>2. /\ periodic' \in PeriodicState /\ periodic'.timer = periodic.timer /\ periodic'.cleared = c
          /\ periodic'.tower_wait = periodic.tower_wait /\ periodic'.evo_wait = periodic.evo_wait
      BY <1>t, <3>1 DEF PeriodicState
    <3>3. QED
      BY <3>2 DEF c
  <2>6. Kept
    BY <1>t, <1>n, <2>1, <2>2, <2>3, <2>4, <2>5 DEF Kept
  <2>7. LocalsOld' /\ FormationKnown'
    BY <1>t, <2>1, <2>3, <2>4 DEF LocalsOld, InTower, InEvo, FormationKnown
  <2>8. QED
    BY <1>t, <2>1, <2>6, <2>7, KeptInv
<1>3. CASE TowerTeamUp
  <2>1. /\ UNCHANGED <<info, periodic, before, stuck>> /\ pc = "t_team" /\ pc' \in {"t_reward", "t_fight"}
        /\ Enter(TowerTeam) /\ TowerTeam \in Teams
    BY <1>3, PeriodicAssumption DEF TowerTeamUp
  <2>2. /\ server' \in RoleInfo /\ climb' \in Climb /\ faults' \in 0..MaxFaults
        /\ UNCHANGED <<server.floor, server.energy, server.evo, server.timer, server.level>>
        /\ climb'.energy = climb.energy /\ climb'.id = climb.id
        /\ IF climb'.switched THEN climb'.original = server.team ELSE server'.team = server.team
    BY <1>t, <2>1, EnterFacts
  <2>3. Kept
    BY <1>t, <1>n, <2>1, <2>2 DEF Kept
  <2>4. LocalsOld' /\ FormationKnown'
    BY <1>t, <1>n, <2>1, <2>2 DEF LocalsOld, ReadingsOld, InTower, InEvo, FormationKnown, RoleInfo
  <2>5. QED
    BY <1>t, <2>1, <2>3, <2>4, KeptInv
<1>4. CASE OldReward \/ FightBlocked
  <2>1. /\ UNCHANGED <<periodic, before, stuck>> /\ InTower /\ pc' = "t_fight" /\ Reward
    BY <1>4 DEF OldReward, FightBlocked, InTower, Climbing
  <2>2. /\ server' \in RoleInfo /\ info' \in Reading /\ climb' \in Climb /\ faults' \in 0..MaxFaults
        /\ UNCHANGED <<server.floor, server.energy, server.evo, server.timer, server.level, server.team>>
        /\ info' \in {info, Seen(server)}
        /\ climb'.energy = info'.energy /\ climb'.id = info'.floor
        /\ climb'.original = climb.original /\ climb'.switched = climb.switched
    BY <1>t, <2>1, RewardFacts
  <2>3. Kept
    BY <1>t, <1>n, <2>1, <2>2 DEF Kept
  <2>4. info'.floor <= server.floor /\ info'.energy >= server.energy
    BY <1>t, <1>n, <1>s, <2>2 DEF ReadingsOld
  <2>5. LocalsOld'
    BY <2>1, <2>2, <2>4 DEF LocalsOld, InTower, InEvo
  <2>6. FormationKnown'
    BY <1>t, <2>1, <2>2, SameFormation
  <2>7. QED
    BY <1>t, <2>1, <2>3, <2>5, <2>6, KeptInv
<1>5. CASE FightOk \/ FightFails
  <2>1. /\ UNCHANGED <<info, periodic, before, stuck>> /\ pc = "t_fight" /\ pc' \in {"t_fight", "t_end"}
        /\ climb.energy > 0 /\ faults' \in 0..MaxFaults
    BY <1>t, <1>5, FaultType DEF FightOk, FightFails, Climbing
  <2>2. /\ server' \in RoleInfo /\ server'.evo = server.evo /\ server'.timer = server.timer
        /\ server'.level = server.level /\ server'.team = server.team
        /\ server'.floor >= server.floor /\ server'.energy <= server.energy
        /\ server'.energy = server.energy - 1 \/ server' = server
    <3>1. \/ server' = server
          \/ server.floor < ClearFloor /\ server.energy > 0 /\ \E won \in BOOLEAN : server' = Fought(server, won)
      BY <1>5 DEF FightOk, FightFails, CanFight
    <3>2. QED
      BY <1>t, <1>n, <3>1, FoughtType
  <2>3. CASE FightOk
    <3>1. PICK won \in BOOLEAN, named \in BOOLEAN :
            /\ server' = Fought(server, won)
            /\ climb' = [climb EXCEPT !.count = @ + 1, !.failures = 0, !.energy = @ - 1,
                                      !.id = IF named THEN server'.floor ELSE @]
      BY <2>3 DEF FightOk
    <3>2. server'.energy = server.energy - 1 /\ server'.floor \in Nat
      BY <1>t, <1>n, <2>3, <3>1, FoughtType DEF FightOk, CanFight
    <3>3. /\ climb' \in Climb /\ climb'.energy = climb.energy - 1
          /\ climb'.id \in {server'.floor, climb.id}
          /\ climb'.original = climb.original /\ climb'.switched = climb.switched
      <4> DEFINE i == IF named THEN server'.floor ELSE climb.id
      <4>1. i \in Nat /\ i \in {server'.floor, climb.id} /\ climb.count + 1 \in Nat
            /\ climb.energy - 1 \in 0..FullEnergy
        BY <1>n, <2>1, <3>2
      <4>2. climb' = [climb EXCEPT !.count = climb.count + 1, !.failures = 0,
                                   !.energy = climb.energy - 1, !.id = i]
        BY <1>t, <3>1 DEF Climb
      <4> HIDE DEF i
      <4>3. QED
        BY <1>t, <4>1, <4>2 DEF Climb
    <3>4. climb'.id <= server'.floor /\ climb'.energy >= server'.energy
      BY <1>t, <1>n, <2>1, <2>2, <3>2, <3>3 DEF ReadingsOld, InTower
    <3>5. QED
      <4>1. Kept
        BY <1>t, <1>n, <2>1, <2>2, <3>3 DEF Kept
      <4>2. LocalsOld'
        BY <2>1, <3>4 DEF LocalsOld, InEvo
      <4>3. FormationKnown'
        BY <1>t, <2>1, <2>2, <3>3, SameFormation
      <4>4. QED
        BY <1>t, <2>1, <4>1, <4>2, <4>3, KeptInv
  <2>4. CASE FightFails
    <3>1. /\ climb' \in Climb /\ climb'.energy = climb.energy /\ climb'.id = climb.id
          /\ climb'.original = climb.original /\ climb'.switched = climb.switched
      BY <1>t, <1>n, <2>4 DEF FightFails, Climb
    <3>2. server'.floor \in Nat /\ server'.energy \in Nat
      BY <2>2, Bounds DEF RoleInfo
    <3>3. Kept
      BY <1>t, <1>n, <2>1, <2>2, <3>1 DEF Kept
    <3>4. LocalsOld'
      BY <1>t, <1>n, <2>1, <2>2, <3>1, <3>2 DEF LocalsOld, ReadingsOld, InTower, InEvo
    <3>5. FormationKnown'
      BY <1>t, <2>1, <2>2, <3>1, SameFormation
    <3>6. QED
      BY <1>t, <2>1, <3>3, <3>4, <3>5, KeptInv
  <2>5. QED
    BY <1>5, <2>3, <2>4
<1>6. CASE FightExhausted \/ FightLimited \/ ClimbOver
  <2>1. /\ UNCHANGED <<server, info, periodic, climb, before, stuck>> /\ pc = "t_fight"
        /\ pc' \in {"t_fight", "t_end"} /\ faults' \in 0..MaxFaults
    BY <1>t, <1>6, FaultType DEF FightExhausted, FightLimited, ClimbOver, Climbing
  <2>2. Kept
    BY <1>t, <2>1, QuietStep
  <2>3. LocalsOld' /\ FormationKnown'
    BY <1>t, <2>1 DEF LocalsOld, ReadingsOld, InTower, InEvo, FormationKnown
  <2>4. QED
    BY <1>t, <2>1, <2>2, <2>3, KeptInv
<1>7. CASE FightCleared
  <2>1. /\ UNCHANGED <<server, info, climb, before, stuck>> /\ pc = "t_fight"
        /\ pc' = "t_end" /\ faults' \in 0..MaxFaults /\ server.floor >= ClearFloor
        /\ periodic' = [periodic EXCEPT !.cleared = TRUE]
    BY <1>t, <1>7, FaultType DEF FightCleared, Climbing
  <2>2. /\ periodic' \in PeriodicState /\ periodic'.timer = periodic.timer
        /\ periodic'.tower_wait = periodic.tower_wait /\ periodic'.evo_wait = periodic.evo_wait
    BY <1>t, <2>1 DEF PeriodicState
  <2>3. Kept
    BY <1>t, <1>n, <2>1, <2>2 DEF Kept
  <2>4. LocalsOld' /\ FormationKnown'
    BY <1>t, <2>1 DEF LocalsOld, ReadingsOld, InTower, InEvo, FormationKnown
  <2>5. QED
    BY <1>t, <2>1, <2>3, <2>4, KeptInv
<1>8. CASE TowerDone
  <2>1. PICK refreshed \in BOOLEAN :
          /\ Fault(IF refreshed THEN 0 ELSE 1)
          /\ info' = IF refreshed THEN Seen(server) ELSE info
          /\ LET p == IF refreshed THEN Updated(periodic, info', server) ELSE periodic
                 q == [p EXCEPT !.cleared = @ \/ climb.id >= ClearFloor]
             IN  periodic' = [q EXCEPT !.tower_due = FALSE,
                    !.tower_wait = IF q.cleared THEN 0
                                   ELSE FullEnergy - (IF refreshed THEN info'.energy ELSE climb.energy)]
    BY <1>8 DEF TowerDone
  <2>2. UNCHANGED <<server, climb, before, stuck>> /\ pc = "t_end" /\ pc' = "t_leave"
    BY <1>8 DEF TowerDone
  <2>3. info' \in Reading /\ info' \in {info, Seen(server)} /\ faults' \in 0..MaxFaults
        /\ info'.energy \in 0..FullEnergy
    BY <1>t, <1>s, <2>1, FaultType DEF Reading
  <2> DEFINE p == IF refreshed THEN Updated(periodic, info', server) ELSE periodic
             q == [p EXCEPT !.cleared = @ \/ climb.id >= ClearFloor]
             w == IF q.cleared THEN 0
                  ELSE FullEnergy - (IF refreshed THEN info'.energy ELSE climb.energy)
  <2>4. /\ p \in PeriodicState /\ p.evo_wait = periodic.evo_wait
        /\ p.cleared => periodic.cleared \/ info'.floor >= ClearFloor
        /\ \A t \in Timers : p.timer[t] \in {periodic.timer[t], server.timer[t]}
    BY <1>t, <2>3, UpdatedType
  <2> HIDE DEF p
  <2>5. /\ q \in PeriodicState /\ q.evo_wait = periodic.evo_wait /\ q.timer = p.timer
        /\ q.cleared => p.cleared \/ climb.id >= ClearFloor
    BY <2>4 DEF PeriodicState
  <2>6. w \in 0..FullEnergy /\ w <= FullEnergy - server.energy
    <3>1. (IF refreshed THEN info'.energy ELSE climb.energy) \in 0..FullEnergy
      BY <1>n, <2>3
    <3>2. (IF refreshed THEN info'.energy ELSE climb.energy) >= server.energy
      BY <1>t, <1>n, <1>s, <2>1, <2>2 DEF ReadingsOld, InTower
    <3>3. server.energy <= FullEnergy
      BY <1>t, <1>n DEF RoleInfo
    <3>4. QED
      BY <1>n, <3>1, <3>2, <3>3
  <2>7. periodic' = [q EXCEPT !.tower_due = FALSE, !.tower_wait = w]
    BY <2>1 DEF p
  <2> HIDE DEF q, w
  <2>8. /\ periodic' \in PeriodicState /\ periodic'.timer = q.timer /\ periodic'.cleared = q.cleared
        /\ periodic'.tower_wait = w /\ periodic'.evo_wait = q.evo_wait
    BY <2>5, <2>6, <2>7 DEF PeriodicState
  <2>9. climb.id >= ClearFloor => server.floor >= ClearFloor
    BY <1>t, <1>n, <2>2 DEF ReadingsOld, InTower
  <2>10. Kept
    BY <1>t, <1>n, <2>2, <2>3, <2>4, <2>5, <2>6, <2>8, <2>9 DEF Kept
  <2>11. LocalsOld' /\ FormationKnown'
    BY <1>t, <2>2 DEF LocalsOld, InTower, InEvo, FormationKnown
  <2>12. QED
    BY <1>t, <2>2, <2>10, <2>11, KeptInv
<1>9. CASE LeaveTower
  <2>1. /\ UNCHANGED <<info, periodic, before>> /\ pc = "t_leave" /\ pc' = "evo" /\ climb' = NoClimb
        /\ Leave(server)
    BY <1>9 DEF LeaveTower
  <2>2. climb.switched => climb.original \in Teams
    BY <1>t DEF FormationKnown
  <2>3. /\ server' \in RoleInfo /\ stuck' \in BOOLEAN /\ faults' \in 0..MaxFaults
        /\ UNCHANGED <<server.floor, server.energy, server.evo, server.timer, server.level>>
        /\ ~stuck' => /\ ~stuck
                      /\ server'.team = IF climb.switched THEN climb.original ELSE server.team
    BY <1>t, <2>1, <2>2, LeaveFacts
  <2>4. Kept
    BY <1>t, <1>n, <1>z, <2>1, <2>3 DEF Kept
  <2>5. LocalsOld' /\ FormationKnown'
    BY <1>t, <1>z, <2>1, <2>3 DEF LocalsOld, InTower, InEvo, FormationKnown
  <2>6. QED
    BY <2>1, <2>3, <2>4, <2>5, KeptInv
<1>10. QED
  BY <1>1, <1>2, <1>3, <1>4, <1>5, <1>6, <1>7, <1>8, <1>9 DEF Tower

-----------------------------------------------------------------------------
(* The evo tower and the merge box.                                        *)

\* Every step of the evo tower climb keeps the invariant.
LEMMA EvoKeeps == Inv /\ Evo => Inv'
<1> SUFFICES ASSUME Inv, Evo PROVE Inv'
  OBVIOUS
<1>t. /\ TypeOK /\ server \in RoleInfo /\ info \in Reading /\ climb \in Climb
      /\ periodic \in PeriodicState /\ faults \in 0..MaxFaults /\ stuck \in BOOLEAN
      /\ ReadingsOld /\ WaitsBounded /\ FormationKnown
  BY Types DEF Inv
<1>n. /\ server.floor \in Nat /\ server.energy \in Nat /\ server.evo \in Nat /\ server.lottery \in Nat
      /\ climb.id \in Nat /\ climb.energy \in Nat /\ climb.count \in Nat
      /\ climb.energy <= FullEnergy /\ server.evo <= FullEnergy /\ FullEnergy \in Nat
  BY <1>t, Bounds DEF RoleInfo, Climb
<1>z. NoClimb \in Climb /\ ~NoClimb.switched
  BY Bounds DEF NoClimb, Climb
<1> DEFINE Rest == UNCHANGED <<info, periodic, before, stuck>>
           SameServer == /\ UNCHANGED <<server.floor, server.energy, server.timer, server.level, server.team>>
                         /\ server' \in RoleInfo /\ server'.evo <= server.evo
           SameClimb == /\ climb' \in Climb
                        /\ UNCHANGED <<climb.original, climb.switched>>
<1>k. ASSUME Rest, SameServer, SameClimb, faults' \in 0..MaxFaults,
             pc' \in {"e_fight", "m_open", "m_box", "e_leave"}, InEvo' => climb'.energy >= server'.evo
      PROVE  Inv'
  <2>1. Kept
    BY <1>t, <1>n, <1>k DEF Kept
  <2>2. LocalsOld'
    BY <1>k DEF LocalsOld, InTower
  <2>3. FormationKnown'
    BY <1>t, <1>k, SameFormation
  <2>4. QED
    BY <1>t, <1>k, <2>1, <2>2, <2>3, KeptInv
<1>s. ASSUME server' = server PROVE SameServer
  BY <1>t, <1>n, <1>s
<1>f. ASSUME server.evo > 0, server' = [server EXCEPT !.evo = @ - 1]
      PROVE  SameServer /\ server'.evo = server.evo - 1
  <2>1. server.evo - 1 \in 0..FullEnergy
    BY <1>n, <1>f
  <2>2. QED
    BY <1>t, <1>n, <1>f, <2>1 DEF RoleInfo
<1>c. ASSUME NEW e \in 0..FullEnergy, NEW n \in Nat, climb' = [climb EXCEPT !.energy = e, !.count = n]
      PROVE  SameClimb /\ climb'.energy = e
  BY <1>t, <1>c DEF Climb
<1>1. CASE SkipEvo
  <2>1. /\ UNCHANGED <<server, info, climb, faults, before, stuck>> /\ pc = "evo" /\ pc' = "end"
        /\ periodic' = [periodic EXCEPT !.evo_due = FALSE]
    BY <1>1 DEF SkipEvo
  <2>2. /\ periodic' \in PeriodicState /\ periodic'.timer = periodic.timer
        /\ periodic'.cleared = periodic.cleared
        /\ periodic'.tower_wait = periodic.tower_wait /\ periodic'.evo_wait = periodic.evo_wait
    BY <1>t, <2>1 DEF PeriodicState
  <2>3. Kept
    BY <1>t, <1>n, <2>1, <2>2 DEF Kept
  <2>4. LocalsOld' /\ FormationKnown'
    BY <1>t, <2>1 DEF LocalsOld, InTower, InEvo, FormationKnown
  <2>5. QED
    BY <1>t, <2>1, <2>3, <2>4, KeptInv
<1>2. CASE EvoTeamUp
  <2>1. /\ Rest /\ pc = "evo" /\ pc' = "e_info" /\ Enter(EvoTeam) /\ EvoTeam \in Teams
    BY <1>2, PeriodicAssumption DEF EvoTeamUp
  <2>2. /\ server' \in RoleInfo /\ climb' \in Climb /\ faults' \in 0..MaxFaults
        /\ UNCHANGED <<server.floor, server.energy, server.evo, server.timer, server.level>>
        /\ IF climb'.switched THEN climb'.original = server.team ELSE server'.team = server.team
    BY <1>t, <2>1, EnterFacts
  <2>3. Kept
    BY <1>t, <1>n, <2>1, <2>2 DEF Kept
  <2>4. LocalsOld' /\ FormationKnown'
    BY <1>t, <2>1, <2>2 DEF LocalsOld, InTower, InEvo, FormationKnown, RoleInfo
  <2>5. QED
    BY <1>t, <2>1, <2>3, <2>4, KeptInv
<1>3. CASE EvoUnread
  <2>1. Rest /\ server' = server /\ climb' = climb /\ pc' = "e_leave" /\ faults' \in 0..MaxFaults
    BY <1>t, <1>3, FaultType DEF EvoUnread
  <2>2. SameClimb
    BY <1>t, <2>1
  <2>3. QED
    BY <1>k, <1>s, <2>1, <2>2 DEF InEvo
<1>4. CASE EvoRead
  <2>1. /\ Rest /\ server' = server /\ pc' = "e_fight" /\ faults' \in 0..MaxFaults
        /\ climb' = [climb EXCEPT !.energy = server.evo, !.count = 0]
    BY <1>t, <1>4, FaultType DEF EvoRead
  <2>2. SameClimb /\ climb'.energy = server.evo
    <3>1. server.evo \in 0..FullEnergy
      BY <1>n
    <3>2. QED
      BY <1>c, <2>1, <3>1
  <2>3. climb'.energy >= server'.evo
    BY <1>n, <2>1, <2>2
  <2>4. QED
    BY <1>k, <1>s, <2>1, <2>2, <2>3
<1>5. CASE EvoFight
  <2>1. /\ Rest /\ pc = "e_fight" /\ pc' = "e_fight" /\ climb.energy > 0 /\ server.evo > 0
        /\ server' = [server EXCEPT !.evo = @ - 1] /\ faults' \in 0..MaxFaults
    BY <1>t, <1>5, FaultType DEF EvoFight
  <2>2. SameServer /\ server'.evo = server.evo - 1 /\ server'.evo \in 0..FullEnergy
    BY <1>f, <1>n, <2>1
  <2>3. climb.energy >= server.evo
    BY <1>t, <2>1 DEF ReadingsOld, InEvo
  <2>4. SameClimb /\ climb'.energy >= server'.evo
    <3>1. CASE climb' = [climb EXCEPT !.energy = server'.evo, !.count = @ + 1]
      <4>1. climb' = [climb EXCEPT !.energy = server'.evo, !.count = climb.count + 1]
        BY <1>t, <3>1 DEF Climb
      <4>2. SameClimb /\ climb'.energy = server'.evo
        <5>1. climb.count + 1 \in Nat
          BY <1>n
        <5>2. QED
          BY <1>c, <2>2, <4>1, <5>1
      <4>3. QED
        BY <2>2, <4>2
    <3>2. CASE climb' = [climb EXCEPT !.energy = @ - 1, !.count = @ + 1]
      <4>1. climb' = [climb EXCEPT !.energy = climb.energy - 1, !.count = climb.count + 1]
        BY <1>t, <3>2 DEF Climb
      <4>2. climb.energy - 1 \in 0..FullEnergy /\ climb.count + 1 \in Nat
        BY <1>n, <2>1
      <4>3. SameClimb /\ climb'.energy = climb.energy - 1
        BY <1>c, <4>1, <4>2
      <4>4. QED
        BY <1>n, <2>2, <2>3, <4>3
    <3>3. QED
      BY <1>5, <3>1, <3>2 DEF EvoFight
  <2>5. QED
    BY <1>k, <2>1, <2>2, <2>4
<1>6. CASE EvoOver
  <2>1. Rest /\ pc = "e_fight" /\ pc' = "m_open" /\ climb' = climb /\ faults' \in 0..MaxFaults
        /\ (server' = server \/ (server.evo > 0 /\ server' = [server EXCEPT !.evo = @ - 1]))
    BY <1>t, <1>6, FaultType DEF EvoOver
  <2>2. SameServer /\ SameClimb
    BY <1>t, <1>f, <1>s, <2>1
  <2>3. climb.energy >= server.evo
    BY <1>t, <2>1 DEF ReadingsOld, InEvo
  <2>4. climb'.energy >= server'.evo
    BY <1>f, <1>n, <2>1, <2>3
  <2>5. QED
    BY <1>k, <2>1, <2>2, <2>4
<1>7. CASE BoxStart
  <2>1. /\ Rest /\ server' = server /\ pc = "m_open" /\ pc' = "m_box" /\ faults' \in 0..MaxFaults
        /\ climb' = [climb EXCEPT !.id = server.lottery] \/ climb' = [climb EXCEPT !.id = 0]
    BY <1>t, <1>7, FaultType DEF BoxStart
  <2>2. SameClimb /\ climb'.energy = climb.energy
    BY <1>t, <1>n, <2>1 DEF Climb
  <2>3. QED
    BY <1>k, <1>s, <1>t, <2>1, <2>2 DEF ReadingsOld, InEvo
<1>8. CASE BoxOpened \/ BoxRefused \/ BoxFails
  <2>1. Rest /\ pc = "m_box" /\ pc' = "m_box" /\ climb.id > 0 /\ faults' \in 0..MaxFaults
    BY <1>t, <1>8, FaultType DEF BoxOpened, BoxRefused, BoxFails, BoxTurn
  <2>2. SameClimb /\ climb'.energy = climb.energy
    <3>1. climb' = climb \/ climb' = [climb EXCEPT !.id = @ - 1]
      BY <1>8 DEF BoxOpened, BoxRefused, BoxFails
    <3>2. climb.id - 1 \in Nat
      BY <1>n, <2>1
    <3>3. QED
      BY <1>t, <3>1, <3>2 DEF Climb
  <2>3. SameServer /\ server'.evo = server.evo
    <3>1. \E n \in Nat, full \in BOOLEAN : server' = [server EXCEPT !.lottery = n, !.full = full]
      <4>1. CASE BoxOpened
        <5>1. PICK full \in BOOLEAN : server' = [server EXCEPT !.lottery = @ - 1, !.full = full]
          BY <4>1 DEF BoxOpened
        <5>2. server.lottery - 1 \in Nat
          BY <1>n, <4>1 DEF BoxOpened
        <5>3. QED
          BY <1>t, <5>1, <5>2 DEF RoleInfo
      <4>2. CASE BoxRefused
        <5>1. server' = [server EXCEPT !.lottery = server.lottery, !.full = FALSE]
          BY <1>t, <4>2 DEF BoxRefused, RoleInfo
        <5>2. QED
          BY <1>n, <5>1
      <4>3. CASE BoxFails
        <5>1. PICK executed \in BOOLEAN, full \in BOOLEAN :
                /\ executed => ~server.full /\ server.lottery > 0
                /\ server' = [server EXCEPT !.lottery = IF executed THEN @ - 1 ELSE @, !.full = full]
          BY <4>3 DEF BoxFails
        <5>2. (IF executed THEN server.lottery - 1 ELSE server.lottery) \in Nat
          BY <1>n, <5>1
        <5>3. QED
          BY <1>t, <5>1, <5>2 DEF RoleInfo
      <4>4. QED
        BY <1>8, <4>1, <4>2, <4>3
    <3>2. PICK n \in Nat, full \in BOOLEAN : server' = [server EXCEPT !.lottery = n, !.full = full]
      BY <3>1
    <3>3. server' \in RoleInfo
      BY <1>t, <3>2 DEF RoleInfo
    <3>4. UNCHANGED <<server.floor, server.energy, server.timer, server.level, server.team, server.evo>>
      BY <1>t, <3>2 DEF RoleInfo
    <3>5. QED
      BY <1>n, <3>3, <3>4
  <2>4. QED
    BY <1>k, <1>t, <2>1, <2>2, <2>3 DEF ReadingsOld, InEvo
<1>9. CASE BoxOver
  <2>1. /\ UNCHANGED <<info, climb, before, stuck>> /\ pc = "m_box" /\ pc' = "e_leave"
        /\ faults' \in 0..MaxFaults
        /\ periodic' = [periodic EXCEPT !.evo_due = FALSE, !.evo_wait = FullEnergy - climb.energy]
        /\ \E full \in BOOLEAN : server' = [server EXCEPT !.full = full]
    BY <1>t, <1>9, FaultType DEF BoxOver
  <2>2. SameServer /\ server'.evo = server.evo
    BY <1>t, <1>n, <2>1 DEF RoleInfo
  <2>3. FullEnergy - climb.energy \in 0..FullEnergy /\ FullEnergy - climb.energy <= FullEnergy - server'.evo
    BY <1>t, <1>n, <2>1, <2>2 DEF ReadingsOld, InEvo
  <2>4. /\ periodic' \in PeriodicState /\ periodic'.timer = periodic.timer
        /\ periodic'.cleared = periodic.cleared /\ periodic'.tower_wait = periodic.tower_wait
        /\ periodic'.evo_wait = FullEnergy - climb.energy
    BY <1>t, <2>1, <2>3 DEF PeriodicState
  <2>5. Kept
    BY <1>t, <1>n, <2>1, <2>2, <2>3, <2>4 DEF Kept
  <2>6. LocalsOld' /\ FormationKnown'
    BY <1>t, <2>1, <2>2 DEF LocalsOld, InTower, InEvo, FormationKnown
  <2>7. QED
    BY <1>t, <2>1, <2>5, <2>6, KeptInv
<1>10. CASE LeaveEvo
  <2>1. /\ UNCHANGED <<info, periodic, before>> /\ pc = "e_leave" /\ pc' = "end" /\ climb' = NoClimb
        /\ Leave(server)
    BY <1>10 DEF LeaveEvo
  <2>2. climb.switched => climb.original \in Teams
    BY <1>t DEF FormationKnown
  <2>3. /\ server' \in RoleInfo /\ stuck' \in BOOLEAN /\ faults' \in 0..MaxFaults
        /\ UNCHANGED <<server.floor, server.energy, server.evo, server.timer, server.level>>
        /\ ~stuck' => /\ ~stuck
                      /\ server'.team = IF climb.switched THEN climb.original ELSE server.team
    BY <1>t, <2>1, <2>2, LeaveFacts
  <2>4. Kept
    BY <1>t, <1>n, <1>z, <2>1, <2>3 DEF Kept
  <2>5. LocalsOld' /\ FormationKnown'
    BY <1>t, <1>z, <2>1, <2>3 DEF LocalsOld, InTower, InEvo, FormationKnown
  <2>6. QED
    BY <2>1, <2>3, <2>4, <2>5, KeptInv
<1>11. QED
  BY <1>1, <1>2, <1>3, <1>4, <1>5, <1>6, <1>7, <1>8, <1>9, <1>10 DEF Evo

-----------------------------------------------------------------------------
(* The theorems.                                                           *)

\* The invariant holds throughout a run.
LEMMA InvAlways == Spec => []Inv
<1>1. Init => Inv
  BY InvInit
<1>2. Inv /\ [Next]_vars => Inv'
  <2> SUFFICES ASSUME Inv, [Next]_vars PROVE Inv'
    OBVIOUS
  <2>1. CASE UNCHANGED vars
    BY <2>1 DEF vars, Inv, TypeOK, ReadingsOld, WaitsBounded, FormationKnown, ClearedTrue, TimersTrue,
                InTower, InEvo
  <2>2. QED
    BY <2>1, ClaimsKeep, TowerKeeps, EvoKeeps DEF Next
<1>3. QED
  BY <1>1, <1>2, PTL DEF Spec

\* Every variable keeps its type: no loop of the climbs drives an energy, a floor or a
\* count of boxes out of its range.
THEOREM PeriodicTypes == Spec => []TypeOK
<1>1. Inv => TypeOK
  BY DEF Inv
<1>2. QED
  BY <1>1, InvAlways, PTL

\* run_periodic_tasks leaves the formation it found unless a restoring switch was lost.
THEOREM FormationsRestored == Spec => []FormationRestored
<1>1. Inv => FormationRestored
  BY DEF Inv, FormationKnown, FormationRestored
<1>2. QED
  BY <1>1, InvAlways, PTL

\* What RolePeriodicState notes of the server is true, whichever answers are lost.
THEOREM NotesAlwaysTrue == Spec => []NotesAreTrue
<1>1. Inv => NotesAreTrue
  BY DEF Inv, ClearedTrue, TimersTrue, WaitsBounded, NotesAreTrue
<1>2. QED
  BY <1>1, InvAlways, PTL
=============================================================================
