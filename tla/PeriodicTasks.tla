---------------------------- MODULE PeriodicTasks ---------------------------
(***************************************************************************)
(* One run of GameClient::run_periodic_tasks (kpi.rs) against the game     *)
(* server: the timed claims, the tower climb, the evo tower climb and the  *)
(* merge box, with the battle formation each climb switches and restores.  *)
(*                                                                         *)
(* A command is executed and answered, executed without an answer, or not  *)
(* executed.  Everything but the first is a fault; a run meets at most     *)
(* MaxFaults of them, anywhere.  Time is counted in units of 1800 s.       *)
(***************************************************************************)
EXTENDS Integers, FiniteSets

CONSTANTS
    Section,       \* floors per reward (10)
    ClearFloor,    \* TOWER_CLEAR_ID
    FullEnergy,    \* energy at which recharging stops (10)
    MaxClimbs,     \* MAX_CLIMBS (100)
    MaxFailures,   \* consecutive failures that end a climb (3)
    Teams,         \* formations
    TowerTeam,     \* formation configured for the tower
    EvoTeam,       \* formation configured for the evo tower
    Starts,        \* states of the role at login
    MaxFaults      \* bound: commands that fail in one run

Timers == {"hangup", "bottle", "legacy"}
NoTeam == 0
Schedule == [Timers -> {"due", "fresh"}]

\* What the server would say to a claim.  It refuses a legacy claim that comes too early
\* ("fresh") or for which the role does not meet a condition ("closed").
ServerSchedule ==
    {s \in [Timers -> {"due", "fresh", "closed"}] : s["hangup"] # "closed" /\ s["bottle"] # "closed"}

\* A role on the server; level 1 opens the evo tower, level 2 the legacy claim
RoleInfo == [floor : 0..ClearFloor, claimed : Nat, energy : 0..FullEnergy, evo : 0..FullEnergy,
             lottery : Nat, full : BOOLEAN, team : Teams, level : 0..2, timer : ServerSchedule]

ASSUME PeriodicAssumption ==
    /\ Section \in Nat \ {0} /\ ClearFloor \in Nat /\ FullEnergy \in Nat
    /\ MaxClimbs \in Nat /\ MaxFailures \in Nat \ {0} /\ MaxFaults \in Nat
    /\ TowerTeam \in Teams /\ EvoTeam \in Teams /\ NoTeam \notin Teams
    /\ Starts \subseteq RoleInfo

VARIABLES
    pc,          \* where the run is
    server,      \* the game server's view of the role
    info,        \* role_info: the tower part, as last fetched
    periodic,    \* RolePeriodicState
    climb,       \* local variables of the climb under way
    faults,      \* faults so far
    before,      \* the formation when the run started
    stuck        \* a restoring switch was not executed

vars == <<pc, server, info, periodic, climb, faults, before, stuck>>

NoClimb == [energy |-> 0, id |-> 0, count |-> 0, failures |-> 0,
            original |-> NoTeam, switched |-> FALSE]

Fault(n) == faults + n <= MaxFaults /\ faults' = faults + n
NoFault == faults' = faults

\* The server's tower: a reward is due on every Section-th floor
RewardDue(s) == s.floor > 0 /\ s.floor % Section = 0 /\ s.claimed < s.floor \div Section
Claimed(s, section) ==
    IF RewardDue(s) /\ section = s.floor \div Section THEN [s EXCEPT !.claimed = section] ELSE s
Fought(s, won) == [s EXCEPT !.energy = @ - 1, !.floor = @ + (IF won THEN 1 ELSE 0)]

-----------------------------------------------------------------------------
(* The timed claims at the start of run_periodic_tasks.                    *)

\* needs_hangup, needs_bottle, needs_legacy
Due == {t \in Timers : periodic.timer[t] = "due"}

\* The claims sent: a legacy claim needs its level, and renews the bottle first.
Tried ==
    CASE "legacy" \notin Due -> Due
      [] "legacy" \in Due /\ server.level = 2 -> Due \cup {"bottle"}
      [] OTHER -> Due \ {"legacy"}

Seen(s) == [floor |-> s.floor, energy |-> s.energy]

\* update_periodic_state: p after reading role info i of server s
Updated(p, i, s) ==
    [p EXCEPT !.timer = [t \in Timers |-> IF t = "legacy" THEN p.timer[t] ELSE s.timer[t]],
              !.cleared = @ \/ i.floor >= ClearFloor]

Renewed(s, done) ==
    [s EXCEPT !.timer = [t \in Timers |-> IF t \in done THEN "fresh" ELSE s.timer[t]]]

\* Faulty: the legacy timer is set after every try.
LegacyNotedAlways(answered) == "legacy" \in Due

\* The legacy timer is set on a done result, and at a level that needs no claim.
LegacyNoted(answered) == answered \/ "legacy" \in Due \ Tried

\* smart_hangup, smart_bottle and legacy_claimhangup, of which done are executed.  The
\* answer to the legacy claim is a done result: a success, or the refusal of a claim that
\* cannot be made.  The timers but that of legacy are copied from a refreshed role info.
Claims ==
    /\ pc = "claims" /\ pc' = "tower"
    /\ \E done \in SUBSET Tried, answered, refreshed \in BOOLEAN :
          /\ "legacy" \in done => server.timer["legacy"] = "due"
          /\ answered => "legacy" \in Tried /\ ("legacy" \in done \/ server.timer["legacy"] # "due")
          /\ Tried = {} => refreshed
          /\ Fault(Cardinality((Tried \ {"legacy"}) \ done) + (IF refreshed THEN 0 ELSE 1)
                   + (IF "legacy" \in Tried /\ ~answered THEN 1 ELSE 0))
          /\ server' = Renewed(server, done)
          /\ info' = IF refreshed /\ Tried # {} THEN Seen(server) ELSE info
          /\ LET p == [periodic EXCEPT !.timer["legacy"] =
                          IF LegacyNoted(answered) THEN "fresh" ELSE @]
             IN  periodic' = IF refreshed THEN Updated(p, info', server') ELSE p
    /\ UNCHANGED <<climb, before, stuck>>

-----------------------------------------------------------------------------
(* Formations: current_team_id, switch_team.                               *)

\* Faulty: a switch whose answer is missing counts as not made.
EnterConfirmed(team) ==
    \/ /\ Fault(1) /\ UNCHANGED server
       /\ climb' = [climb EXCEPT !.original = NoTeam, !.switched = FALSE]
    \/ \E executed, answered \in BOOLEAN :
          /\ (~executed => ~answered) /\ (server.team = team => executed /\ answered)
          /\ Fault(IF answered THEN 0 ELSE 1)
          /\ server' = [server EXCEPT !.team = IF executed THEN team ELSE @]
          /\ climb' = [climb EXCEPT !.original = server.team,
                                    !.switched = server.team # team /\ answered]

\* A climb reads the formation and sends the switch if it is another one; what
\* became of the switch is ignored.
Enter(team) ==
    \/ /\ Fault(1) /\ UNCHANGED server
       /\ climb' = [climb EXCEPT !.original = NoTeam, !.switched = FALSE]
    \/ \E executed, answered \in BOOLEAN :
          /\ (~executed => ~answered) /\ (server.team = team => executed /\ answered)
          /\ Fault(IF answered THEN 0 ELSE 1)
          /\ server' = [server EXCEPT !.team = IF executed THEN team ELSE @]
          /\ climb' = [climb EXCEPT !.original = server.team, !.switched = server.team # team]

\* The formation is restored if it was switched; s is the server so far.
Leave(s) ==
    IF ~climb.switched THEN server' = s /\ UNCHANGED stuck /\ NoFault
    ELSE \/ server' = [s EXCEPT !.team = climb.original] /\ UNCHANGED stuck /\ NoFault
         \/ server' = s /\ stuck' = TRUE /\ Fault(1)

-----------------------------------------------------------------------------
(* run_tower_climb                                                         *)

SkipTower ==
    /\ pc = "tower" /\ pc' = "evo"
    /\ \/ ~periodic.tower_due \/ periodic.cleared
       \/ info.floor >= ClearFloor
    /\ periodic' = [periodic EXCEPT !.cleared = @ \/ (periodic.tower_due /\ info.floor >= ClearFloor)]
    /\ UNCHANGED <<server, info, climb, faults, before, stuck>>

\* The role info is read again; if that fails the old one is used.
ReadTower ==
    /\ pc = "tower" /\ periodic.tower_due /\ ~periodic.cleared /\ info.floor < ClearFloor
    /\ \/ NoFault /\ info' = Seen(server)
       \/ Fault(1) /\ UNCHANGED info
    /\ climb' = [NoClimb EXCEPT !.energy = info'.energy, !.id = info'.floor]
    /\ pc' = IF info'.floor >= ClearFloor THEN "evo" ELSE "t_team"
    /\ periodic' = [periodic EXCEPT !.cleared = info'.floor >= ClearFloor]
    /\ UNCHANGED <<server, before, stuck>>

TowerTeamUp ==
    /\ pc = "t_team" /\ Enter(TowerTeam)
    /\ pc' = IF climb.id > 0 /\ climb.id % Section = 0 THEN "t_reward" ELSE "t_fight"
    /\ UNCHANGED <<info, periodic, before, stuck>>

\* tower_claimreward for the section of the local floor, then a refresh whose
\* failure leaves the local values as they are in role_info.
Reward ==
    \E executed, refreshed \in BOOLEAN :
        /\ Fault((IF executed THEN 0 ELSE 1) + (IF refreshed THEN 0 ELSE 1))
        /\ server' = IF executed THEN Claimed(server, climb.id \div Section) ELSE server
        /\ info' = IF refreshed THEN Seen(server) ELSE info
        /\ climb' = [climb EXCEPT !.energy = info'.energy, !.id = info'.floor, !.failures = 0]

OldReward ==
    /\ pc = "t_reward" /\ pc' = "t_fight" /\ Reward
    /\ UNCHANGED <<periodic, before, stuck>>

Climbing == pc = "t_fight" /\ climb.energy > 0 /\ climb.count < MaxClimbs

\* The server can fight: not cleared, no reward due, energy left.
CanFight == server.floor < ClearFloor /\ ~RewardDue(server) /\ server.energy > 0

\* The answer names the floor or does not.
FightOk ==
    /\ Climbing /\ CanFight /\ NoFault
    /\ \E won, named \in BOOLEAN :
          /\ server' = Fought(server, won)
          /\ climb' = [climb EXCEPT !.count = @ + 1, !.failures = 0, !.energy = @ - 1,
                                    !.id = IF named THEN server'.floor ELSE @]
    /\ UNCHANGED <<pc, info, periodic, before, stuck>>

\* 1500040: the reward of the section has to be claimed first.
FightBlocked ==
    /\ Climbing /\ RewardDue(server) /\ Reward
    /\ UNCHANGED <<pc, periodic, before, stuck>>

\* 1500020
FightExhausted ==
    /\ Climbing /\ server.floor < ClearFloor /\ ~RewardDue(server) /\ server.energy = 0
    /\ pc' = "t_end" /\ NoFault /\ UNCHANGED periodic
    /\ UNCHANGED <<server, info, climb, before, stuck>>

\* 1500010
FightCleared ==
    /\ Climbing /\ server.floor >= ClearFloor
    /\ pc' = "t_end" /\ NoFault /\ periodic' = [periodic EXCEPT !.cleared = TRUE]
    /\ UNCHANGED <<server, info, climb, before, stuck>>

\* 200400: the fight is tried again after a pause.
FightLimited ==
    /\ Climbing /\ Fault(1)
    /\ UNCHANGED <<pc, server, info, periodic, climb, before, stuck>>

\* Faulty: a failed fight is charged to the local energy.
FightFailsCharged ==
    /\ Climbing /\ Fault(1) /\ UNCHANGED server
    /\ climb' = [climb EXCEPT !.failures = @ + 1, !.energy = @ - 1]
    /\ pc' = IF climb.failures + 1 >= MaxFailures THEN "t_end" ELSE pc
    /\ UNCHANGED <<info, periodic, before, stuck>>

\* Any other error, with the fight executed or not.
FightFails ==
    /\ Climbing /\ Fault(1)
    /\ server' = server \/ (CanFight /\ \E won \in BOOLEAN : server' = Fought(server, won))
    /\ climb' = [climb EXCEPT !.failures = @ + 1]
    /\ pc' = IF climb.failures + 1 >= MaxFailures THEN "t_end" ELSE pc
    /\ UNCHANGED <<info, periodic, before, stuck>>

ClimbOver ==
    /\ pc = "t_fight" /\ ~Climbing /\ pc' = "t_end"
    /\ UNCHANGED <<server, info, periodic, climb, faults, before, stuck>>

\* The last refresh, and the next check: when the energy is full again.
TowerDone ==
    /\ pc = "t_end" /\ pc' = "t_leave"
    /\ \E refreshed \in BOOLEAN :
          /\ Fault(IF refreshed THEN 0 ELSE 1)
          /\ info' = IF refreshed THEN Seen(server) ELSE info
          /\ LET p == IF refreshed THEN Updated(periodic, info', server) ELSE periodic
                 q == [p EXCEPT !.cleared = @ \/ climb.id >= ClearFloor]
             IN  periodic' = [q EXCEPT !.tower_due = FALSE,
                    !.tower_wait = IF q.cleared THEN 0
                                   ELSE FullEnergy - (IF refreshed THEN info'.energy ELSE climb.energy)]
    /\ UNCHANGED <<server, climb, before, stuck>>

LeaveTower ==
    /\ pc = "t_leave" /\ pc' = "evo" /\ Leave(server) /\ climb' = NoClimb
    /\ UNCHANGED <<info, periodic, before>>

-----------------------------------------------------------------------------
(* run_evotower_climb and run_mergebox_tail                                *)

EvoUnlocked == server.level >= 1

\* Not enabled, not active or not due; a role below the level waits a day, which is
\* longer than any energy takes.
SkipEvo ==
    /\ pc = "evo" /\ pc' = "end"
    /\ ~periodic.evo_due \/ ~EvoUnlocked
    /\ periodic' = [periodic EXCEPT !.evo_due = FALSE]
    /\ UNCHANGED <<server, info, climb, faults, before, stuck>>

EvoTeamUp ==
    /\ pc = "evo" /\ periodic.evo_due /\ EvoUnlocked /\ Enter(EvoTeam) /\ pc' = "e_info"
    /\ UNCHANGED <<info, periodic, before, stuck>>

\* evotower_getinfo fails: the formation is restored and nothing is noted.
EvoUnread ==
    /\ pc = "e_info" /\ Fault(1) /\ pc' = "e_leave"
    /\ UNCHANGED <<server, info, periodic, climb, before, stuck>>

EvoRead ==
    /\ pc = "e_info" /\ pc' = "e_fight" /\ NoFault
    /\ climb' = [climb EXCEPT !.energy = server.evo, !.count = 0]
    /\ UNCHANGED <<server, info, periodic, before, stuck>>

\* A fight, the energy as read afterwards, and the rewards on the way.
EvoFight ==
    /\ pc = "e_fight" /\ climb.energy > 0 /\ server.evo > 0
    /\ server' = [server EXCEPT !.evo = @ - 1]
    /\ \/ NoFault /\ climb' = [climb EXCEPT !.energy = server'.evo, !.count = @ + 1]
       \/ Fault(1) /\ climb' = [climb EXCEPT !.energy = @ - 1, !.count = @ + 1]
    /\ UNCHANGED <<pc, info, periodic, before, stuck>>

\* The loop ends: no energy, or a fight fails (it was executed or not).
EvoOver ==
    /\ pc = "e_fight" /\ pc' = "m_open"
    /\ \/ climb.energy <= 0 /\ NoFault /\ UNCHANGED server
       \/ climb.energy > 0 /\ server.evo = 0 /\ NoFault /\ UNCHANGED server
       \/ climb.energy > 0 /\ Fault(1) /\ UNCHANGED server
       \/ climb.energy > 0 /\ Fault(1) /\ server.evo > 0 /\ server' = [server EXCEPT !.evo = @ - 1]
    /\ UNCHANGED <<info, periodic, climb, before, stuck>>

\* Boxes are opened while lottery_left > 0, which climb.id counts; it is read
\* once, and a failed read ends the part.
BoxStart ==
    /\ pc = "m_open" /\ pc' = "m_box"
    /\ \/ NoFault /\ climb' = [climb EXCEPT !.id = server.lottery]
       \/ Fault(1) /\ climb' = [climb EXCEPT !.id = 0]
    /\ UNCHANGED <<server, info, periodic, before, stuck>>

BoxTurn == pc = "m_box" /\ climb.id > 0

BoxOpened ==
    /\ BoxTurn /\ NoFault /\ ~server.full /\ server.lottery > 0
    /\ \E full \in BOOLEAN : server' = [server EXCEPT !.lottery = @ - 1, !.full = full]
    /\ climb' = [climb EXCEPT !.id = @ - 1]
    /\ UNCHANGED <<pc, info, periodic, before, stuck>>

\* Faulty: a refused opening is repeated without merging.
BoxRefusedStubborn ==
    /\ BoxTurn /\ NoFault /\ (server.full \/ server.lottery = 0)
    /\ UNCHANGED <<pc, server, info, periodic, climb, before, stuck>>

\* An opening the server refuses is followed by a merge.
BoxRefused ==
    /\ BoxTurn /\ NoFault /\ (server.full \/ server.lottery = 0)
    /\ server' = [server EXCEPT !.full = FALSE]
    /\ UNCHANGED <<pc, info, periodic, climb, before, stuck>>

\* An opening without an answer, executed or not, is followed by a merge, and so is
\* a refused one; the merge fails or makes room.
BoxFails ==
    /\ BoxTurn /\ Fault(1)
    /\ \E executed, full \in BOOLEAN :
          /\ executed => ~server.full /\ server.lottery > 0
          /\ full => server.full
          /\ server' = [server EXCEPT !.lottery = IF executed THEN @ - 1 ELSE @, !.full = full]
    /\ UNCHANGED <<pc, info, periodic, climb, before, stuck>>

\* No boxes left or mergebox_getinfo failed; a last merge; the next check.
BoxOver ==
    /\ pc = "m_box" /\ pc' = "e_leave"
    /\ \/ climb.id <= 0 /\ NoFault
       \/ climb.id > 0 /\ Fault(1)
    /\ \E full \in BOOLEAN : (full => server.full) /\ server' = [server EXCEPT !.full = full]
    /\ periodic' = [periodic EXCEPT !.evo_due = FALSE, !.evo_wait = FullEnergy - climb.energy]
    /\ UNCHANGED <<info, climb, before, stuck>>

LeaveEvo ==
    /\ pc = "e_leave" /\ pc' = "end" /\ Leave(server) /\ climb' = NoClimb
    /\ UNCHANGED <<info, periodic, before>>

-----------------------------------------------------------------------------

\* A role as login found it: its timers and formation, what it has left, and the
\* reward of the last section claimed or not.  The legacy timer is the state file's: it
\* is due also when the answer to an earlier claim was lost, and fresh only if nothing
\* is to be claimed (the role has not reached the level since it was set).
Init ==
    /\ pc = "claims" /\ climb = NoClimb /\ faults = 0 /\ stuck = FALSE
    /\ \E s \in Starts :
          /\ server = s /\ info = Seen(s) /\ before = s.team
          /\ \E tower_due, evo_due \in BOOLEAN, legacy \in {"due", "fresh"} :
                /\ legacy = "fresh" /\ s.level = 2 => s.timer["legacy"] # "due"
                /\ periodic = [timer |-> [s.timer EXCEPT !["legacy"] = legacy],
                                cleared |-> s.floor >= ClearFloor,
                                tower_due |-> tower_due, tower_wait |-> 0,
                                evo_due |-> evo_due, evo_wait |-> 0]

Tower ==
    \/ SkipTower \/ ReadTower \/ TowerTeamUp \/ OldReward \/ FightOk \/ FightBlocked
    \/ FightExhausted \/ FightCleared \/ FightLimited \/ FightFails \/ ClimbOver
    \/ TowerDone \/ LeaveTower

Evo ==
    \/ SkipEvo \/ EvoTeamUp \/ EvoUnread \/ EvoRead \/ EvoFight \/ EvoOver
    \/ BoxStart \/ BoxOpened \/ BoxRefused \/ BoxFails \/ BoxOver \/ LeaveEvo

Next == Claims \/ Tower \/ Evo

Spec == Init /\ [][Next]_vars

\* The task of the role is polled, and every command returns: with its answer, or
\* by its timeout.
FairSpec == Spec /\ WF_vars(Next)

-----------------------------------------------------------------------------
(* Properties.                                                             *)

\* Every variable has the type of the value it stands for: no floor beyond the last,
\* no energy below zero, and a formation is always one of the role's.
TypeOK ==
    /\ pc \in {"claims", "tower", "t_team", "t_reward", "t_fight", "t_end", "t_leave",
               "evo", "e_info", "e_fight", "m_open", "m_box", "e_leave", "end"}
    /\ server \in RoleInfo
    /\ info \in [floor : 0..ClearFloor, energy : 0..FullEnergy]
    /\ climb \in [energy : 0..FullEnergy, id : Nat, count : Nat, failures : Nat,
                  original : Teams \cup {NoTeam}, switched : BOOLEAN]
    /\ periodic \in [timer : Schedule, cleared : BOOLEAN,
                     tower_due : BOOLEAN, tower_wait : 0..FullEnergy,
                     evo_due : BOOLEAN, evo_wait : 0..FullEnergy]
    /\ faults \in 0..MaxFaults /\ before \in Teams /\ stuck \in BOOLEAN

\* A run of run_periodic_tasks leaves the formation it found, through every error of
\* both climbs: only a restoring switch the server did not execute leaves another.
FormationRestored == pc = "end" /\ ~stuck => server.team = before

\* What the state notes of the server is true, whichever answers were lost: a tower
\* noted as cleared, which ends all later climbs, is; a timer taken for not due is not
\* due, so a claim that failed is tried in the next round unless the server said that
\* there is nothing to claim; and the next climb is not put off past the time the energy
\* is full again.
NotesAreTrue ==
    /\ periodic.cleared => server.floor >= ClearFloor
    /\ \A t \in Timers :
          periodic.timer[t] = "fresh" /\ (t = "legacy" => server.level = 2) =>
              server.timer[t] # "due"
    /\ pc = "end" => /\ periodic.tower_wait <= FullEnergy - server.energy
                     /\ periodic.evo_wait <= FullEnergy - server.evo

\* The merge box loop counts an opening whose answer was lost as not made.
CountsLostBox == pc = "m_box" /\ climb.id > server.lottery

\* Once commands stop failing the run ends, so the role gives back its slot of the
\* round: no loop of the climbs waits for something the server does not have.  The
\* one exception is an opening of a box whose answer was lost: the loop then asks
\* for a box more than there are, and takes every refusal for a full grid.
RunEnds == <>(pc = "end" \/ CountsLostBox)

-----------------------------------------------------------------------------
(* Inductive invariants behind the properties.                             *)

InTower == pc \in {"t_team", "t_reward", "t_fight", "t_end"}
InEvo == pc \in {"e_fight", "m_open", "m_box"}

\* What was read of the tower is old at worst: floors only rise, energy only falls.
ReadingsOld ==
    /\ info.floor <= server.floor /\ info.energy >= server.energy
    /\ InTower => climb.id <= server.floor /\ climb.energy >= server.energy
    /\ InEvo => climb.energy >= server.evo

\* The next climbs are never put off too far.
WaitsBounded ==
    /\ periodic.tower_wait <= FullEnergy - server.energy
    /\ periodic.evo_wait <= FullEnergy - server.evo

\* A climb that switched the formation knows the one to go back to.
FormationKnown ==
    /\ climb.switched => climb.original \in Teams
    /\ ~stuck => IF climb.switched
                 THEN /\ pc \notin {"claims", "tower", "t_team", "evo", "end"}
                      /\ climb.original = before
                 ELSE server.team = before
=============================================================================
