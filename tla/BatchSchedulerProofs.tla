------------------------ MODULE BatchSchedulerProofs ------------------------
(***************************************************************************)
(* Proofs about BatchScheduler for every set of roles, every number of     *)
(* copies of a bin, every concurrency and every clock.                     *)
(***************************************************************************)
EXTENDS BatchScheduler, FiniteSetTheorems, TLAPS

-----------------------------------------------------------------------------
(* Types of the operators.                                                 *)

\* What load() returns for a missing or unreadable file has its type.
LEMMA EmptyTypes == NewRole \in RoleState /\ EmptyApp \in App /\ Torn \in [readable : BOOLEAN, app : App]
<1>1. NewRole \in RoleState
  BY DEF NewRole, RoleState, Never, Timer
<1>2. EmptyApp \in App
  BY <1>1 DEF EmptyApp, App, Never
<1>3. QED
  BY <1>1, <1>2 DEF Torn

\* The number of a week is an integer.
LEMMA WeekType == ASSUME NEW d \in Nat PROVE Week(d) \in Int
<1>1. DaysPerWeek \in Nat /\ DaysPerWeek > 0
  BY ConstantsAssumption
<1>2. QED
  BY <1>1 DEF Week

\* The roll-over to a new day and a new week keeps the type.
LEMMA NormalisedType == ASSUME NEW rs \in RoleState, NEW d \in Nat
                        PROVE  /\ ensure_today(rs, d) \in RoleState
                               /\ ensure_this_week(rs, d) \in RoleState
                               /\ Normalised(rs, d) \in RoleState
<1>1. ASSUME NEW q \in RoleState PROVE ensure_today(q, d) \in RoleState
  <2>1. ASSUME NEW e \in Int, NEW x \in SUBSET Marks
        PROVE  [q EXCEPT !.date = e, !.done = x] \in RoleState
    BY DEF RoleState
  <2>2. d \in Int /\ {} \in SUBSET Marks
    OBVIOUS
  <2>3. [q EXCEPT !.date = d, !.done = {}] \in RoleState
    BY <2>1, <2>2, Zenon
  <2>4. QED
    BY <2>3 DEF ensure_today
<1>2. Week(d) \in Int
  BY WeekType
<1>3. \A q \in RoleState : ensure_this_week(q, d) \in RoleState
  BY <1>2 DEF ensure_this_week, RoleState
<1>4. QED
  BY <1>1, <1>3 DEF Normalised

\* Writing an entry keeps the type of the state.
LEMMA PutType == ASSUME NEW app \in App, NEW r \in Roles, NEW rs \in RoleState
                 PROVE  Put(app, r, rs) \in App
BY DEF Put, App

\* So does the synchronisation with a set of roles.
LEMMA SyncType == ASSUME NEW app \in App, NEW keys \in SUBSET Roles
                  PROVE  sync_with_roles(app, keys) \in App
BY EmptyTypes DEF sync_with_roles, App

-----------------------------------------------------------------------------
(* Type correctness.                                                       *)

\* The variables that a role task changes, and those it does not.
TaskTypes ==
    /\ mem \in App
    /\ file \in [readable : BOOLEAN, app : App]
    /\ writer \in Ids \cup {NoOne, Main}
    /\ permits \in Nat
    /\ task \in [Ids -> TaskState]
    /\ server \in [Roles -> SUBSET Flags] /\ refused \in [Roles -> SUBSET Flags]
    /\ studied \in [Roles -> Int]

FrameTypes ==
    /\ day \in 0..MaxDay /\ slot \in 0..(Slots - 1)
    /\ cfgFile \in Configs /\ cfg \in Configs
    /\ changed \in SUBSET (Bins \cup {"config"})
    /\ roles \in [Roles -> Copies \cup {0}]
    /\ sched \in Scheds
    /\ policy \in [reached : BOOLEAN, weekly : BOOLEAN, force : BOOLEAN]
    /\ stops \in 0..MaxStops /\ edits \in 0..MaxEdits

\* TypeOK is what role tasks change and what they leave alone.
LEMMA TypeSplit == TypeOK <=> TaskTypes /\ FrameTypes
BY DEF TypeOK, TaskTypes, FrameTypes

\* The part of TypeOK no role task changes keeps its type.
LEMMA TaskFrameTypes == ASSUME FrameTypes, TaskFrame PROVE FrameTypes'
BY DEF FrameTypes, TaskFrame, clock, config, budget

\* save() leaves a file and a writer of their types.
LEMMA SaveType == ASSUME TaskTypes, NEW a \in Ids \cup {Main}, Save(a)
                  PROVE  /\ file' \in [readable : BOOLEAN, app : App]
                         /\ writer' \in Ids \cup {NoOne, Main}
BY EmptyTypes DEF TaskTypes, Save, Truncate

\* Moving one task to another position keeps the type of the tasks.
LEMMA GotoType == ASSUME TaskTypes, NEW id \in Ids, NEW pc \in Pcs, Goto(id, pc)
                  PROVE  task' \in [Ids -> TaskState]
BY DEF TaskTypes, Goto, TaskState

\* So does replacing one task.
LEMMA OneTaskType == ASSUME TaskTypes, NEW id \in Ids, NEW t \in TaskState,
                            task' = [task EXCEPT ![id] = t]
                     PROVE  task' \in [Ids -> TaskState]
BY DEF TaskTypes

\* The absent task is a task.
LEMMA NoTaskType == NoTask \in TaskState
BY DEF NoTask, TaskState, Pcs, Never, Timer

\* The end of a task keeps the types of the tasks and of the permits.
LEMMA FinishType == ASSUME TaskTypes, NEW id \in Ids, Finish(id)
                    PROVE  task' \in [Ids -> TaskState] /\ permits' \in Nat
<1>1. [NoTask EXCEPT !.pc = "finished"] \in TaskState
  BY NoTaskType DEF TaskState, Pcs
<1>2. task' \in [Ids -> TaskState]
  BY <1>1, OneTaskType DEF Finish
<1>3. QED
  BY <1>2 DEF TaskTypes, Finish

\* The phase that follows is a position.
LEMMA PhaseTypes == ASSUME NEW t \in TaskState
                    PROVE  {AfterWeekly(t), AfterDaily(t), AfterRefresh(t)} \subseteq Pcs
BY DEF AfterWeekly, AfterDaily, AfterRefresh, Pcs, Holding

\* Every step of a role task preserves the types.
LEMMA TaskStepTypes == ASSUME TypeOK, NEW id \in Ids, TaskStep(id)
                       PROVE  TypeOK'
<1>0. TaskTypes /\ FrameTypes
  BY TypeSplit
<1>r. /\ id[1] \in Roles /\ mem.st[id[1]] \in RoleState /\ task[id] \in TaskState
      /\ day \in Nat /\ id \in Ids \cup {Main}
  BY <1>0, ConstantsAssumption DEF TaskTypes, FrameTypes, Ids, App
<1>1. SUFFICES TaskFrame /\ TaskTypes'
  BY <1>0, TaskFrameTypes, TypeSplit DEF TypeOK, TaskTypes, FrameTypes
<1>2. TaskFrame
  BY DEF TaskStep, Acquire, SelectRoleToken, Login, RefreshPeriodic, DailyBegin, DailyRun,
         DailySave, WeeklyRun, WeeklySave, PeriodicBegin, PeriodicRun, CarCheck, ClaimCars,
         PeriodicSave, Disconnect
<1>3. CASE Acquire(id)
  <2>1. task' \in [Ids -> TaskState]
    BY <1>0, <1>3, GotoType DEF Acquire, Pcs, Holding
  <2>2. permits' \in Nat
    BY <1>0, <1>3 DEF Acquire, TaskTypes
  <2>3. QED
    BY <1>0, <1>3, <2>1, <2>2 DEF Acquire, TaskTypes, game
<1>4. CASE SelectRoleToken(id)
  <2>1. task' \in [Ids -> TaskState] /\ permits' \in Nat
    <3>1. CASE Goto(id, "login") /\ UNCHANGED permits
      BY <1>0, <3>1, GotoType DEF TaskTypes, Pcs, Holding
    <3>2. CASE Finish(id)
      BY <1>0, <3>2, FinishType
    <3>3. QED
      BY <1>4, <3>1, <3>2 DEF SelectRoleToken
  <2>2. QED
    BY <1>0, <1>4, <2>1 DEF SelectRoleToken, TaskTypes, game
<1>5. CASE Login(id)
  <2>1. task' \in [Ids -> TaskState] /\ permits' \in Nat
    <3>1. CASE /\ task' = [task EXCEPT ![id].pc = "refresh",
                                  ![id].status = server[id[1]] \cap StatusFlags,
                                  ![id].studied = studied[id[1]]]
               /\ UNCHANGED permits
      <4>1. server[id[1]] \cap StatusFlags \subseteq Flags /\ studied[id[1]] \in Int
            /\ "refresh" \in Pcs
        BY <1>0, <1>r DEF TaskTypes, Pcs, Holding
      <4> DEFINE t == [task[id] EXCEPT !.pc = "refresh", !.status = server[id[1]] \cap StatusFlags,
                                       !.studied = studied[id[1]]]
      <4>2. t \in TaskState
        BY <1>r, <4>1 DEF TaskState
      <4>3. task' = [task EXCEPT ![id] = t]
        BY <1>0, <3>1 DEF TaskTypes
      <4> HIDE DEF t
      <4>4. QED
        BY <1>0, <3>1, <4>2, <4>3, OneTaskType DEF TaskTypes
    <3>2. CASE Finish(id)
      BY <1>0, <3>2, FinishType
    <3>3. QED
      BY <1>5, <3>1, <3>2 DEF Login
  <2>2. QED
    BY <1>0, <1>5, <2>1 DEF Login, TaskTypes, game
<1>6. CASE RefreshPeriodic(id)
  <2>1. task' \in [Ids -> TaskState]
    BY <1>0, <1>r, <1>6, PhaseTypes, GotoType DEF RefreshPeriodic
  <2>2. mem' \in App
    <3>1. PICK t \in Timer : mem' = Put(mem, id[1], [mem.st[id[1]] EXCEPT !.periodic = t])
      BY <1>6 DEF RefreshPeriodic
    <3>2. [mem.st[id[1]] EXCEPT !.periodic = t] \in RoleState
      BY <1>r DEF RoleState
    <3>3. QED
      BY <1>0, <1>r, <3>1, <3>2, PutType DEF TaskTypes
  <2>3. QED
    BY <1>0, <1>6, <2>1, <2>2 DEF RefreshPeriodic, TaskTypes, game
<1>7. CASE DailyBegin(id)
  <2>1. ensure_today(mem.st[id[1]], day) \in RoleState
    BY <1>r, NormalisedType
  <2> DEFINE rs == ensure_today(mem.st[id[1]], day)
  <2>2. rs.date \in Int /\ rs.done \cup task[id].status \in SUBSET Marks /\ "dailyrun" \in Pcs
    BY <2>1, <1>r DEF RoleState, TaskState, Marks, Pcs, Holding
  <2>3. task' = [task EXCEPT ![id].pc = "dailyrun", ![id].date = rs.date,
                             ![id].done = rs.done \cup task[id].status]
    BY <1>7 DEF DailyBegin
  <2> HIDE DEF rs
  <2>4. task' \in [Ids -> TaskState]
    <3> DEFINE t == [task[id] EXCEPT !.pc = "dailyrun", !.date = rs.date,
                                     !.done = rs.done \cup task[id].status]
    <3>1. t \in TaskState
      BY <1>r, <2>2 DEF TaskState
    <3>2. task' = [task EXCEPT ![id] = t]
      BY <1>0, <2>3 DEF TaskTypes
    <3> HIDE DEF t
    <3>3. QED
      BY <1>0, <3>1, <3>2, OneTaskType
  <2>5. QED
    BY <1>0, <1>7, <2>4 DEF DailyBegin, TaskTypes, game
<1>8. CASE DailyRun(id)
  <2>2. PICK executed \in SUBSET Todo(id), answered \in SUBSET Todo(id) :
          /\ server' = [server EXCEPT ![id[1]] = @ \cup executed]
          /\ refused' = [refused EXCEPT ![id[1]] = @ \cup (answered \ server'[id[1]])]
          /\ task' = [task EXCEPT ![id].pc = "dailysave",
                         ![id].done = @ \cup answered \cup (Todo(id) \cap BlindFlags)]
    BY <1>8 DEF DailyRun
  <2>3. Todo(id) \subseteq Flags
    BY DEF Todo
  <2>4. server' \in [Roles -> SUBSET Flags] /\ refused' \in [Roles -> SUBSET Flags]
    BY <1>0, <1>r, <2>2, <2>3 DEF TaskTypes
  <2>5. task' \in [Ids -> TaskState]
    <3>1. task[id].done \cup answered \cup (Todo(id) \cap BlindFlags) \in SUBSET Marks
          /\ "dailysave" \in Pcs
      BY <1>r, <2>3 DEF TaskState, Marks, Pcs, Holding
    <3> DEFINE t == [task[id] EXCEPT !.pc = "dailysave",
                                     !.done = @ \cup answered \cup (Todo(id) \cap BlindFlags)]
    <3>2. t \in TaskState
      BY <1>r, <3>1 DEF TaskState
    <3>3. task' = [task EXCEPT ![id] = t]
      BY <1>0, <2>2 DEF TaskTypes
    <3> HIDE DEF t
    <3>4. QED
      BY <1>0, <3>2, <3>3, OneTaskType
  <2>6. QED
    BY <1>0, <1>8, <2>4, <2>5 DEF DailyRun, TaskTypes
<1>9. CASE DailySave(id)
  <2> DEFINE rs == [mem.st[id[1]] EXCEPT !.date = task[id].date, !.done = task[id].done]
  <2>1. rs \in RoleState /\ \A t \in Timer : [rs EXCEPT !.periodic = t] \in RoleState
    BY <1>r DEF RoleState, TaskState
  <2>2. AfterDaily(task[id]) \in Pcs /\ studied[id[1]] \in Int
    BY <1>0, <1>r, PhaseTypes DEF TaskTypes
  <2>3. \/ mem' = Put(mem, id[1], rs) /\ Goto(id, AfterDaily(task[id]))
        \/ /\ \E t \in Timer : mem' = Put(mem, id[1], [rs EXCEPT !.periodic = t])
           /\ task' = [task EXCEPT ![id].pc = AfterDaily(task[id]),
                                   ![id].studied = studied[id[1]]]
    BY <1>9 DEF DailySave
  <2> HIDE DEF rs
  <2>4. mem' \in App
    <3>1. \E q \in RoleState : mem' = Put(mem, id[1], q)
      BY <2>1, <2>3
    <3>2. QED
      BY <1>0, <1>r, <3>1, PutType DEF TaskTypes
  <2>5. task' \in [Ids -> TaskState]
    <3>1. ASSUME task' = [task EXCEPT ![id].pc = AfterDaily(task[id]),
                                      ![id].studied = studied[id[1]]]
          PROVE  task' \in [Ids -> TaskState]
      <4> DEFINE t == [task[id] EXCEPT !.pc = AfterDaily(task[id]), !.studied = studied[id[1]]]
      <4>1. t \in TaskState
        BY <1>r, <2>2 DEF TaskState
      <4>2. task' = [task EXCEPT ![id] = t]
        BY <1>0, <3>1 DEF TaskTypes
      <4> HIDE DEF t
      <4>3. QED
        BY <1>0, <4>1, <4>2, OneTaskType
    <3>2. QED
      BY <1>0, <2>2, <2>3, <3>1, GotoType
  <2>6. QED
    BY <1>0, <1>r, <1>9, <2>4, <2>5, SaveType DEF DailySave, TaskTypes, game
<1>10. CASE WeeklyRun(id)
  <2>1. task' \in [Ids -> TaskState]
    BY <1>0, <1>10, GotoType DEF WeeklyRun, Pcs, Holding
  <2>2. Week(day) \in Int
    BY <1>r, WeekType
  <2>3. studied' \in [Roles -> Int]
    BY <1>0, <1>10, <2>2 DEF WeeklyRun, TaskTypes
  <2>4. QED
    BY <1>0, <1>10, <2>1, <2>3 DEF WeeklyRun, TaskTypes
<1>11. CASE WeeklySave(id)
  <2>1. task' \in [Ids -> TaskState]
    BY <1>0, <1>r, <1>11, PhaseTypes, GotoType DEF WeeklySave
  <2>2. [mem.st[id[1]] EXCEPT !.study = TRUE] \in RoleState
    BY <1>r DEF RoleState
  <2>3. mem' \in App
    BY <1>0, <1>r, <1>11, <2>2, PutType DEF WeeklySave, TaskTypes
  <2>4. QED
    BY <1>0, <1>r, <1>11, <2>1, <2>3, SaveType DEF WeeklySave, TaskTypes, game
<1>12. CASE PeriodicBegin(id)
  <2>1. mem.st[id[1]].periodic \in Timer /\ "periodicrun" \in Pcs
    BY <1>r DEF RoleState, Pcs, Holding
  <2>2. task' \in [Ids -> TaskState]
    <3> DEFINE t == [task[id] EXCEPT !.pc = "periodicrun", !.timer = mem.st[id[1]].periodic]
    <3>1. t \in TaskState
      BY <1>r, <2>1 DEF TaskState
    <3>2. task' = [task EXCEPT ![id] = t]
      BY <1>0, <1>12 DEF PeriodicBegin, TaskTypes
    <3> HIDE DEF t
    <3>3. QED
      BY <1>0, <3>1, <3>2, OneTaskType
  <2>3. QED
    BY <1>0, <1>12, <2>2 DEF PeriodicBegin, TaskTypes, game
<1>13. CASE PeriodicRun(id)
  <2>1. "carcheck" \in Pcs
    BY DEF Pcs, Holding
  <2>2. task' \in [Ids -> TaskState]
    <3>1. PICK x \in Timer : task' = [task EXCEPT ![id].pc = "carcheck", ![id].timer = x]
      BY <1>13 DEF PeriodicRun
    <3> DEFINE t == [task[id] EXCEPT !.pc = "carcheck", !.timer = x]
    <3>2. t \in TaskState
      BY <1>r, <2>1 DEF TaskState
    <3>3. task' = [task EXCEPT ![id] = t]
      BY <1>0, <3>1 DEF TaskTypes
    <3> HIDE DEF t
    <3>4. QED
      BY <1>0, <3>2, <3>3, OneTaskType
  <2>3. QED
    BY <1>0, <1>13, <2>2 DEF PeriodicRun, TaskTypes, game
<1>14. CASE CarCheck(id)
  <2>1. task' \in [Ids -> TaskState]
    BY <1>0, <1>14, GotoType DEF CarCheck, Pcs, Holding
  <2>2. QED
    BY <1>0, <1>14, <2>1 DEF CarCheck, TaskTypes, game
<1>15. CASE ClaimCars(id)
  <2>1. task' \in [Ids -> TaskState]
    BY <1>0, <1>15, GotoType DEF ClaimCars, Pcs, Holding
  <2>2. [mem.st[id[1]] EXCEPT !.done = @ \cup {CarClaimed}] \in RoleState
    BY <1>r DEF RoleState, Marks
  <2>3. mem' \in App
    BY <1>0, <1>r, <1>15, <2>2, PutType DEF ClaimCars, TaskTypes
  <2>4. QED
    BY <1>0, <1>r, <1>15, <2>1, <2>3, SaveType DEF ClaimCars, TaskTypes, game
<1>16. CASE PeriodicSave(id)
  <2>1. task' \in [Ids -> TaskState]
    BY <1>0, <1>16, GotoType DEF PeriodicSave, Pcs, Holding
  <2>2. [mem.st[id[1]] EXCEPT !.periodic = task[id].timer] \in RoleState
    BY <1>r DEF RoleState, TaskState
  <2>3. mem' \in App
    BY <1>0, <1>r, <1>16, <2>2, PutType DEF PeriodicSave, TaskTypes
  <2>4. QED
    BY <1>0, <1>r, <1>16, <2>1, <2>3, SaveType DEF PeriodicSave, TaskTypes, game
<1>17. CASE Disconnect(id)
  BY <1>0, <1>17, FinishType DEF Disconnect, TaskTypes, game
<1>18. QED
  BY <1>2, <1>3, <1>4, <1>5, <1>6, <1>7, <1>8, <1>9, <1>10, <1>11, <1>12, <1>13, <1>14,
     <1>15, <1>16, <1>17 DEF TaskStep

\* Scanning yields a list of the roles that counts copies.
LEMMA ScanTypes == ASSUME NEW c \in Configs, NEW got \in Scans(c)
                   PROVE  Scanned(got) \in [Roles -> Copies \cup {0}]
BY ConstantsAssumption DEF Scans, Scanned

\* The empty role list of a stopped process has its type.
LEMMA NothingListed == Scanned([b \in Bins |-> 0]) \in [Roles -> Copies \cup {0}]
BY ConstantsAssumption DEF Scanned

\* A stop clears what the process held.
LEMMA StopTypes == ASSUME TypeOK, NEW how \in Scheds, Stop(how)
                   PROVE  TypeOK'
<1>1. mem' \in App /\ roles' \in [Roles -> Copies \cup {0}] /\ writer' \in Ids \cup {NoOne, Main}
  BY EmptyTypes, NothingListed DEF Stop
<1>2. task' \in [Ids -> TaskState] /\ permits' \in Nat
  BY NoTaskType, ConstantsAssumption DEF Stop
<1>3. sched' \in Scheds /\ stops' \in 0..MaxStops
  BY ConstantsAssumption DEF Stop, TypeOK
<1>4. UNCHANGED <<day, slot, file, cfgFile, cfg, changed, policy, server, refused, studied, edits>>
  BY DEF Stop, clock, game
<1>5. QED
  BY <1>1, <1>2, <1>3, <1>4 DEF TypeOK

\* The plans of a round are tasks.
LEMMA PlanType == ASSUME NEW rs \in RoleState, NEW fired \in BOOLEAN, TypeOK
                  PROVE  Plan(rs, fired) \in TaskState
<1>1. /\ policy.reached \in BOOLEAN /\ policy.weekly \in BOOLEAN /\ policy.force \in BOOLEAN
      /\ StudyEnabled \in BOOLEAN /\ rs.study \in BOOLEAN
  BY ConstantsAssumption DEF TypeOK, RoleState
<1>2. ASSUME NEW x \in BOOLEAN, NEW y \in BOOLEAN, NEW z \in BOOLEAN
      PROVE  [NoTask EXCEPT !.pc = "planned", !.daily = x, !.weekly = y, !.periodic = z] \in TaskState
  BY NoTaskType DEF TaskState, Pcs
<1> DEFINE weekly == StudyEnabled /\ policy.weekly /\ policy.reached
           daily == policy.reached /\ (\/ ~all_done(rs)
                                       \/ is_car_send_window(day, slot) /\ CarSent \notin rs.done)
           periodic == fired \/ rs.periodic = "due"
<1>3. weekly \in BOOLEAN /\ (weekly /\ ~rs.study) \in BOOLEAN /\ daily \in BOOLEAN
      /\ periodic \in BOOLEAN /\ TRUE \in BOOLEAN
  BY Zenon
<1>4. Plan(rs, fired) = IF policy.force
         THEN [NoTask EXCEPT !.pc = "planned", !.daily = policy.reached,
                             !.weekly = weekly, !.periodic = TRUE]
         ELSE [NoTask EXCEPT !.pc = "planned", !.daily = daily,
                             !.weekly = weekly /\ ~rs.study, !.periodic = periodic]
  BY Zenon DEF Plan
<1> HIDE DEF weekly, daily, periodic
<1>5. QED
  BY <1>1, <1>2, <1>3, <1>4

\* Every step of the main loop preserves the types.
LEMMA MainTypes == ASSUME TypeOK, MainStep PROVE TypeOK'
<1>0. TaskTypes /\ FrameTypes /\ day \in Nat /\ Main \in Ids \cup {Main}
  BY TypeSplit, ConstantsAssumption DEF FrameTypes
<1>1. CASE Start
  BY <1>1 DEF Start, TypeOK, Scheds, clock, config, game, budget
<1>2. CASE RoundStart
  <2>1. policy' \in [reached : BOOLEAN, weekly : BOOLEAN, force : BOOLEAN]
    <3>1. daily_time_reached_at(day, slot) \in BOOLEAN /\ (Weekday(day) = WeeklyDay) \in BOOLEAN
          /\ (policy.force /\ ~maintenance_hit(day, slot)) \in BOOLEAN
      BY DEF daily_time_reached_at
    <3>2. policy' = [policy EXCEPT !.reached = daily_time_reached_at(day, slot),
                                   !.weekly = (Weekday(day) = WeeklyDay),
                                   !.force = policy.force /\ ~maintenance_hit(day, slot)]
      BY <1>2 DEF RoundStart
    <3>3. QED
      BY <1>0, <3>1, <3>2 DEF FrameTypes
  <2>2. mem' \in App
    BY <1>0, <1>2 DEF RoundStart, TaskTypes, App
  <2>3. file' \in [readable : BOOLEAN, app : App] /\ writer' \in Ids \cup {NoOne, Main}
    BY <1>0, <1>2, SaveType DEF RoundStart, TaskTypes
  <2>4. sched' \in Scheds
    BY <1>2 DEF RoundStart, Scheds
  <2>5. QED
    BY <1>2, <2>1, <2>2, <2>3, <2>4 DEF RoundStart, TypeOK, clock, config, game, budget
<1>3. CASE Collect
  <2> DEFINE st == [r \in Roles |-> IF r \in mem.keys THEN Normalised(mem.st[r], day)
                                                      ELSE mem.st[r]]
  <2>1. st \in [Roles -> RoleState]
    <3>1. \A r \in Roles : mem.st[r] \in RoleState
      BY <1>0 DEF TaskTypes, App
    <3>2. \A r \in Roles : Normalised(mem.st[r], day) \in RoleState
      BY <1>0, <3>1, NormalisedType
    <3>3. QED
      BY <3>1, <3>2
  <2>2. PICK fired \in SUBSET Roles :
          task' = [id \in Ids |->
                      LET p == Plan(st[id[1]], id[1] \in fired) IN
                      IF id[2] <= roles[id[1]] /\ (p.daily \/ p.weekly \/ p.periodic)
                      THEN p ELSE NoTask]
    BY <1>3 DEF Collect
  <2>3. mem' = [mem EXCEPT !.st = st] /\ permits' = Concurrency
        /\ policy' = [policy EXCEPT !.force = FALSE] /\ sched' \in Scheds
        /\ UNCHANGED <<day, slot, file, writer, cfgFile, cfg, changed, roles, server, refused,
                       studied, stops, edits>>
    BY <1>3 DEF Collect, Scheds, clock, config, game, budget
  <2> HIDE DEF st
  <2>4. \A id \in Ids : Plan(st[id[1]], id[1] \in fired) \in TaskState
    <3>1. \A id \in Ids : st[id[1]] \in RoleState /\ (id[1] \in fired) \in BOOLEAN
      BY <2>1 DEF Ids
    <3>2. QED
      BY <3>1, PlanType
  <2>5. task' \in [Ids -> TaskState]
    BY <2>2, <2>4, NoTaskType
  <2>6. mem' \in App
    BY <1>0, <2>1, <2>3 DEF TaskTypes, App
  <2>7. permits' \in Nat /\ policy' \in [reached : BOOLEAN, weekly : BOOLEAN, force : BOOLEAN]
    BY <1>0, <2>3, ConstantsAssumption DEF FrameTypes
  <2>8. QED
    BY <2>3, <2>5, <2>6, <2>7 DEF TypeOK
<1>4. ASSUME NEW id \in Ids, Spawn(id) PROVE TypeOK'
  <2>1. task' \in [Ids -> TaskState]
    BY <1>0, <1>4, GotoType DEF Spawn, Pcs
  <2>2. sched' \in Scheds
    BY <1>4 DEF Spawn, Scheds
  <2>3. QED
    BY <1>4, <2>1, <2>2 DEF Spawn, TypeOK, clock, config, game, budget
<1>5. CASE Join
  <2>1. task' \in [Ids -> TaskState]
    BY <1>5, NoTaskType DEF Join
  <2>2. file' \in [readable : BOOLEAN, app : App] /\ writer' \in Ids \cup {NoOne, Main}
    BY <1>0, <1>5, SaveType DEF Join
  <2>3. QED
    BY <1>5, <2>1, <2>2 DEF Join, TypeOK, Scheds, clock, config, game, budget
<1>6. CASE Wake
  <2>1. PICK loaded \in {FALSE} \cup {"config" \in changed} : Reload(loaded)
    BY <1>6 DEF Wake
  <2>2. cfg' \in Configs /\ changed' \in SUBSET (Bins \cup {"config"})
    BY <1>0, <2>1 DEF Reload, FrameTypes
  <2>3. /\ roles' \in [Roles -> Copies \cup {0}] /\ mem' \in App
        /\ file' \in [readable : BOOLEAN, app : App] /\ writer' \in Ids \cup {NoOne, Main}
    <3>1. CASE UNCHANGED <<roles, mem, file, writer>>
      BY <1>0, <3>1 DEF TaskTypes, FrameTypes
    <3>2. ASSUME NEW got \in Scans(cfg'), roles' = Scanned(got),
                 UNCHANGED <<mem, file, writer>> \/
                 (mem' = sync_with_roles(mem, Listed(roles')) /\ Save(Main))
          PROVE  /\ roles' \in [Roles -> Copies \cup {0}] /\ mem' \in App
                 /\ file' \in [readable : BOOLEAN, app : App] /\ writer' \in Ids \cup {NoOne, Main}
      <4>1. roles' \in [Roles -> Copies \cup {0}]
        BY <2>2, <3>2, ScanTypes
      <4>2. Listed(roles') \in SUBSET Roles
        BY DEF Listed
      <4>3. QED
        BY <1>0, <3>2, <4>1, <4>2, SyncType, SaveType DEF TaskTypes
    <3>3. QED
      BY <2>1, <3>1, <3>2 DEF Reload
  <2>4. QED
    BY <1>6, <2>2, <2>3 DEF Wake, TypeOK, Scheds, clock, game, budget
<1>7. QED
  BY <1>1, <1>2, <1>3, <1>4, <1>5, <1>6 DEF MainStep

\* Every step preserves the types.
LEMMA TypeStep == TypeOK /\ [Next]_vars => TypeOK'
<1> SUFFICES ASSUME TypeOK, [Next]_vars PROVE TypeOK'
  OBVIOUS
<1>1. CASE Boot
  <2>1. PICK got \in Scans(cfgFile) :
          /\ roles' = Scanned(got)
          /\ mem' = sync_with_roles(file.app, Listed(Scanned(got)))
    BY <1>1 DEF Boot
  <2>2. roles' \in [Roles -> Copies \cup {0}]
    BY <2>1, ScanTypes DEF TypeOK
  <2>3. mem' \in App
    <3>1. file.app \in App /\ Listed(Scanned(got)) \in SUBSET Roles
      BY DEF TypeOK, Listed
    <3>2. QED
      BY <2>1, <3>1, SyncType
  <2>4. file' \in [readable : BOOLEAN, app : App] /\ writer' \in Ids \cup {NoOne, Main}
    BY <1>1, EmptyTypes DEF Boot, Truncate
  <2>5. policy' \in [reached : BOOLEAN, weekly : BOOLEAN, force : BOOLEAN]
    BY <1>1 DEF Boot, TypeOK
  <2>6. QED
    BY <1>1, <2>2, <2>3, <2>4, <2>5 DEF Boot, TypeOK, Scheds, clock, game, budget
<1>2. CASE WriteDone
  <2>1. file' \in [readable : BOOLEAN, app : App]
    BY <1>2 DEF WriteDone, TypeOK
  <2>2. QED
    BY <1>2, <2>1 DEF WriteDone, TypeOK, clock, config, game, budget
<1>3. CASE WriteFail
  <2>1. mem' \in App /\ roles' \in [Roles -> Copies \cup {0}] /\ sched' \in Scheds
    BY <1>3, EmptyTypes, NothingListed DEF WriteFail, TypeOK, Scheds
  <2>2. QED
    BY <1>3, <2>1 DEF WriteFail, TypeOK, clock, game, budget
<1>4. CASE Tick
  <2>1. day' \in 0..MaxDay /\ slot' \in 0..(Slots - 1)
    BY <1>4, ConstantsAssumption DEF Tick, TypeOK
  <2>2. server' \in [Roles -> SUBSET Flags] /\ refused' \in [Roles -> SUBSET Flags]
    BY <1>4 DEF Tick, TypeOK
  <2>3. QED
    BY <1>4, <2>1, <2>2 DEF Tick, TypeOK, config, budget
<1>5. CASE EditConfig
  <2>1. edits' \in 0..MaxEdits
    BY <1>5, ConstantsAssumption DEF EditConfig, TypeOK
  <2>2. QED
    BY <1>5, <2>1 DEF EditConfig, TypeOK, clock, game
<1>6. ASSUME NEW b \in Bins, TouchBin(b) PROVE TypeOK'
  <2>1. edits' \in 0..MaxEdits
    BY <1>6, ConstantsAssumption DEF TouchBin, TypeOK
  <2>2. QED
    BY <1>6, <2>1 DEF TouchBin, TypeOK, clock, game
<1>7. CASE Crash \/ CtrlC
  <2>1. "down" \in Scheds /\ "exited" \in Scheds
    BY DEF Scheds
  <2>2. QED
    BY <1>7, <2>1, StopTypes DEF Crash, CtrlC
<1>8. CASE UNCHANGED vars
  BY <1>8 DEF vars, TypeOK
<1>9. QED
  BY <1>1, <1>2, <1>3, <1>4, <1>5, <1>6, <1>7, <1>8, TaskStepTypes, MainTypes
     DEF Next, Environment

\* The scheduler's variables always have their types.
THEOREM TypeCorrect == Spec => []TypeOK
<1>1. Init => TypeOK
  <2> SUFFICES ASSUME Init PROVE TypeOK
    OBVIOUS
  <2>1. mem \in App /\ file \in [readable : BOOLEAN, app : App]
        /\ roles \in [Roles -> Copies \cup {0}] /\ task \in [Ids -> TaskState]
    BY EmptyTypes, NothingListed, NoTaskType DEF Init
  <2>2. day \in 0..MaxDay /\ slot \in 0..(Slots - 1) /\ stops \in 0..MaxStops
        /\ edits \in 0..MaxEdits /\ permits \in Nat
    BY ConstantsAssumption DEF Init
  <2>3. QED
    BY <2>1, <2>2 DEF Init, TypeOK, Scheds, Never
<1>2. QED
  BY <1>1, TypeStep, PTL DEF Spec

-----------------------------------------------------------------------------
(* Tasks and rounds.                                                       *)

\* A step of a role task moves that task only, from and to a state between
\* "waiting" and "finished".
LEMMA TaskMoves == ASSUME TypeOK, NEW id \in Ids, TaskStep(id)
                   PROVE  /\ task[id].pc \in {"waiting"} \cup Holding
                          /\ task'[id].pc \in {"finished"} \cup Holding
                          /\ \A i \in Ids : i # id => task'[i] = task[i]
<1>t. task \in [Ids -> TaskState] /\ task[id] \in TaskState
  BY DEF TypeOK
<1>f. ASSUME Finish(id) PROVE task'[id].pc = "finished" /\ \A i \in Ids : i # id => task'[i] = task[i]
  BY <1>t, <1>f DEF Finish, NoTask
<1>g. ASSUME NEW pc \in Holding, Goto(id, pc)
      PROVE  task'[id].pc \in Holding /\ \A i \in Ids : i # id => task'[i] = task[i]
  BY <1>t, <1>g DEF Goto, TaskState
<1>p. {AfterWeekly(task[id]), AfterDaily(task[id]), AfterRefresh(task[id])} \subseteq Holding
  BY DEF AfterWeekly, AfterDaily, AfterRefresh, Holding
<1>1. CASE Acquire(id)
  BY <1>1, <1>g DEF Acquire, At, Holding
<1>2. CASE SelectRoleToken(id)
  BY <1>2, <1>f, <1>g DEF SelectRoleToken, At, Holding
<1>3. CASE Login(id)
  BY <1>t, <1>3, <1>f DEF Login, At, Holding, TaskState
<1>4. CASE RefreshPeriodic(id)
  BY <1>4, <1>g, <1>p DEF RefreshPeriodic, At, Holding
<1>5. CASE DailyBegin(id)
  BY <1>t, <1>5 DEF DailyBegin, At, Holding, TaskState
<1>6. CASE DailyRun(id)
  BY <1>t, <1>6 DEF DailyRun, At, Holding, TaskState
<1>7. CASE DailySave(id)
  <2>1. At(id, "dailysave")
        /\ (\/ Goto(id, AfterDaily(task[id]))
            \/ task' = [task EXCEPT ![id].pc = AfterDaily(task[id]),
                                    ![id].studied = studied[id[1]]])
    BY <1>7 DEF DailySave
  <2>2. QED
    BY <1>t, <1>g, <1>p, <2>1 DEF At, Holding, TaskState
<1>8. CASE WeeklyRun(id)
  BY <1>8, <1>g DEF WeeklyRun, At, Holding
<1>9. CASE WeeklySave(id)
  BY <1>9, <1>g, <1>p DEF WeeklySave, At, Holding
<1>10. CASE PeriodicBegin(id)
  BY <1>t, <1>10 DEF PeriodicBegin, At, Holding, TaskState
<1>11. CASE PeriodicRun(id)
  BY <1>t, <1>11 DEF PeriodicRun, At, Holding, TaskState
<1>12. CASE CarCheck(id)
  BY <1>12, <1>g DEF CarCheck, At, Holding
<1>13. CASE ClaimCars(id)
  BY <1>13, <1>g DEF ClaimCars, At, Holding
<1>14. CASE PeriodicSave(id)
  BY <1>14, <1>g DEF PeriodicSave, At, Holding
<1>15. CASE Disconnect(id)
  BY <1>15, <1>f DEF Disconnect, At, Holding
<1>16. QED
  BY <1>1, <1>2, <1>3, <1>4, <1>5, <1>6, <1>7, <1>8, <1>9, <1>10, <1>11, <1>12, <1>13,
     <1>14, <1>15 DEF TaskStep

\* A step that leaves the tasks, the role list and the position alone.
LEMMA RoundFrame == ASSUME TasksBelongToRound, UNCHANGED <<task, roles, sched>>
                    PROVE  TasksBelongToRound'
BY DEF TasksBelongToRound, Idle, At

\* With no task at all, nothing can belong to the wrong round.
LEMMA NoTasksNoRound == ASSUME \A id \in Ids : task[id].pc = "none"
                        PROVE  TasksBelongToRound
BY DEF TasksBelongToRound, Idle, At

\* Every step keeps the tasks within their round.
LEMMA RoundStep == TypeOK /\ TasksBelongToRound /\ [Next]_vars => TasksBelongToRound'
<1> SUFFICES ASSUME TypeOK, TasksBelongToRound, [Next]_vars PROVE TasksBelongToRound'
  OBVIOUS
<1>n. NoTask.pc = "none"
  BY DEF NoTask
<1>i. ASSUME Idle, UNCHANGED task PROVE TasksBelongToRound'
  BY <1>i, NoTasksNoRound DEF TasksBelongToRound, Idle, At
<1>e. ASSUME task' = [id \in Ids |-> NoTask] PROVE TasksBelongToRound'
  BY <1>e, <1>n DEF TasksBelongToRound, Idle, At
<1>1. ASSUME NEW id \in Ids, TaskStep(id) PROVE TasksBelongToRound'
  <2>1. /\ task[id].pc \in {"waiting"} \cup Holding
        /\ task'[id].pc \in {"finished"} \cup Holding
        /\ \A i \in Ids : i # id => task'[i] = task[i]
    BY <1>1, TaskMoves
  <2>2. UNCHANGED <<roles, sched>>
    BY <1>1 DEF TaskFrame, config, TaskStep, Acquire, SelectRoleToken, Login, RefreshPeriodic,
           DailyBegin, DailyRun, DailySave, WeeklyRun, WeeklySave, PeriodicBegin, PeriodicRun,
           CarCheck, ClaimCars, PeriodicSave, Disconnect
  <2>3. ~At(id, "none") /\ ~At(id, "planned")' /\ ~Idle
    BY <2>1 DEF At, Holding, Idle
  <2>4. QED
    BY <2>1, <2>2, <2>3 DEF TasksBelongToRound, At
<1>2. CASE Start
  BY <1>2, <1>i DEF Start, TasksBelongToRound
<1>3. CASE RoundStart
  BY <1>3, <1>i DEF RoundStart, TasksBelongToRound
<1>4. CASE Collect
  <2>1. PICK fired, st :
          task' = [id \in Ids |->
                      LET p == Plan(st[id[1]], id[1] \in fired) IN
                      IF id[2] <= roles[id[1]] /\ (p.daily \/ p.weekly \/ p.periodic)
                      THEN p ELSE NoTask]
    BY <1>4 DEF Collect
  <2>2. \A rs, x : Plan(rs, x).pc = "planned"
    BY DEF Plan, NoTask
  <2>3. \A id \in Ids : task'[id].pc = "none" \/
                        (task'[id].pc = "planned" /\ id[2] <= roles[id[1]])
    BY <2>1, <2>2, <1>n
  <2>4. /\ sched' = IF \E id \in Ids : task'[id].pc = "planned" THEN "spawning" ELSE "sleeping"
        /\ roles' = roles
    BY <1>4 DEF Collect, config
  <2>5. QED
    BY <2>3, <2>4 DEF TasksBelongToRound, Idle, At
<1>5. ASSUME NEW id \in Ids, Spawn(id) PROVE TasksBelongToRound'
  <2>1. /\ sched = "spawning" /\ At(id, "planned") /\ roles' = roles
        /\ sched' = IF \E i \in Ids \ {id} : At(i, "planned") THEN "spawning" ELSE "joining"
    BY <1>5 DEF Spawn, config
  <2>2. task'[id].pc = "waiting" /\ \A i \in Ids : i # id => task'[i] = task[i]
    BY <1>5 DEF Spawn, Goto, TypeOK, TaskState
  <2>3. QED
    BY <2>1, <2>2 DEF TasksBelongToRound, At
<1>6. CASE Join
  BY <1>6, <1>e DEF Join
<1>7. CASE Wake
  BY <1>7, <1>i DEF Wake, TasksBelongToRound
<1>8. CASE Boot
  BY <1>8, <1>i DEF Boot, TasksBelongToRound
<1>9. CASE WriteDone
  BY <1>9, RoundFrame DEF WriteDone, config
<1>10. CASE WriteFail
  <2>1. CASE sched = "booting"
    BY <1>10, <2>1, <1>i DEF WriteFail, TasksBelongToRound
  <2>2. CASE sched # "booting"
    BY <1>10, <2>2, RoundFrame DEF WriteFail
  <2>3. QED
    BY <2>1, <2>2
<1>11. CASE Tick \/ EditConfig \/ \E b \in Bins : TouchBin(b)
  BY <1>11, RoundFrame DEF Tick, EditConfig, TouchBin, config
<1>12. CASE Crash \/ CtrlC
  BY <1>12, <1>e DEF Crash, CtrlC, Stop
<1>13. CASE UNCHANGED vars
  BY <1>13, RoundFrame DEF vars
<1>14. QED
  BY <1>1, <1>2, <1>3, <1>4, <1>5, <1>6, <1>7, <1>8, <1>9, <1>10, <1>11, <1>12, <1>13
     DEF Next, MainStep, Environment

\* Rescans never overlap a running role task, whatever the number of roles and
\* copies, and whenever crashes, reloads and failing writes happen.
THEOREM RoundsContainTasks == Spec => []TasksBelongToRound
<1>1. Init => TasksBelongToRound
  BY NoTasksNoRound DEF Init, NoTask
<1>2. QED
  BY <1>1, TypeCorrect, RoundStep, PTL DEF Spec

-----------------------------------------------------------------------------
(* The semaphore.                                                          *)

\* The role tasks are finitely many.
LEMMA HoldersFinite == IsFiniteSet(Holders) /\ Cardinality(Holders) \in Nat
<1>1. IsFiniteSet(Ids)
  BY ConstantsAssumption, FS_Product DEF Ids
<1>2. Holders \subseteq Ids
  BY DEF Holders
<1>3. IsFiniteSet(Holders)
  BY <1>1, <1>2, FS_Subset
<1>4. QED
  BY <1>3, FS_CardinalityType

\* A step that moves no task into or out of the semaphore.
LEMMA PermitFrame == ASSUME PermitConservation, Holders' = Holders, permits' = permits
                     PROVE  PermitConservation'
BY DEF PermitConservation

\* A fresh semaphore, and nobody holding it.
LEMMA PermitFresh == ASSUME Holders = {}, permits = Concurrency
                     PROVE  PermitConservation
BY FS_EmptySet, ConstantsAssumption DEF PermitConservation

\* A role task takes a permit in acquire() and gives it back when it ends.
LEMMA TaskPermits == ASSUME TypeOK, NEW id \in Ids, TaskStep(id)
                     PROVE  \/ /\ task[id].pc = "waiting" /\ task'[id].pc \in Holding
                               /\ permits' = permits - 1
                            \/ /\ task[id].pc \in Holding /\ task'[id].pc = "finished"
                               /\ permits' = permits + 1
                            \/ /\ task[id].pc \in Holding /\ task'[id].pc \in Holding
                               /\ permits' = permits
<1>t. task \in [Ids -> TaskState]
  BY DEF TypeOK
<1>0. /\ task[id].pc \in {"waiting"} \cup Holding
      /\ task'[id].pc \in {"finished"} \cup Holding
  BY TaskMoves
<1>1. CASE Acquire(id)
  BY <1>t, <1>1 DEF Acquire, At, Goto, Holding, TaskState
<1>2. ASSUME Finish(id), task[id].pc \in Holding
      PROVE  task'[id].pc = "finished" /\ permits' = permits + 1
  BY <1>t, <1>2 DEF Finish, NoTask
<1>3. CASE SelectRoleToken(id)
  BY <1>t, <1>2, <1>3 DEF SelectRoleToken, At, Goto, Holding, TaskState
<1>4. CASE Login(id)
  BY <1>t, <1>2, <1>4 DEF Login, At, Holding, TaskState
<1>5. CASE Disconnect(id)
  BY <1>2, <1>5 DEF Disconnect, At, Holding
<1>6. CASE permits' = permits /\ task[id].pc \in Holding /\ task'[id].pc # "finished"
  BY <1>0, <1>6
<1>p. {AfterWeekly(task[id]), AfterDaily(task[id]), AfterRefresh(task[id])} \subseteq Holding
  BY DEF AfterWeekly, AfterDaily, AfterRefresh, Holding
<1>h. "finished" \notin Holding
  BY DEF Holding
<1>g. ASSUME NEW pc \in Holding, Goto(id, pc) PROVE task'[id].pc # "finished"
  BY <1>t, <1>h, <1>g DEF Goto, TaskState
<1>7. CASE RefreshPeriodic(id) \/ WeeklyRun(id) \/ WeeklySave(id)
  BY <1>6, <1>7, <1>g, <1>p DEF RefreshPeriodic, WeeklyRun, WeeklySave, At, Holding
<1>8. CASE DailyBegin(id) \/ DailyRun(id)
  <2>1. permits' = permits /\ task[id].pc \in Holding
    BY <1>8 DEF DailyBegin, DailyRun, At, Holding
  <2>2. task'[id].pc \in {"dailyrun", "dailysave"}
    BY <1>t, <1>8 DEF DailyBegin, DailyRun, TaskState
  <2>3. QED
    BY <1>6, <2>1, <2>2
<1>9. CASE DailySave(id)
  <2>1. permits' = permits /\ task[id].pc \in Holding
    BY <1>9 DEF DailySave, At, Holding
  <2>2. \/ Goto(id, AfterDaily(task[id]))
        \/ task' = [task EXCEPT ![id].pc = AfterDaily(task[id]),
                                ![id].studied = studied[id[1]]]
    BY <1>9 DEF DailySave
  <2>3. task'[id].pc = AfterDaily(task[id])
    BY <1>t, <2>2 DEF Goto, TaskState
  <2>4. QED
    BY <1>6, <1>p, <1>h, <2>1, <2>3
<1>10. CASE PeriodicBegin(id) \/ PeriodicRun(id)
  <2>1. permits' = permits /\ task[id].pc \in Holding
    BY <1>10 DEF PeriodicBegin, PeriodicRun, At, Holding
  <2>2. task'[id].pc \in {"periodicrun", "carcheck"}
    BY <1>t, <1>10 DEF PeriodicBegin, PeriodicRun, TaskState
  <2>3. QED
    BY <1>6, <2>1, <2>2
<1>11. CASE CarCheck(id) \/ ClaimCars(id) \/ PeriodicSave(id)
  BY <1>6, <1>11, <1>g DEF CarCheck, ClaimCars, PeriodicSave, At, Holding
<1>12. QED
  BY <1>1, <1>3, <1>4, <1>5, <1>7, <1>8, <1>9, <1>10, <1>11 DEF TaskStep

\* Every step conserves the permits.
LEMMA PermitStep == TypeOK /\ PermitConservation /\ [Next]_vars => PermitConservation'
<1> SUFFICES ASSUME TypeOK, PermitConservation, [Next]_vars PROVE PermitConservation'
  OBVIOUS
<1>n. NoTask.pc = "none" /\ "none" \notin Holding /\ "planned" \notin Holding
      /\ "waiting" \notin Holding /\ "finished" \notin Holding
  BY DEF NoTask, Holding
<1>u. ASSUME UNCHANGED <<task, permits>> PROVE PermitConservation'
  BY <1>u, PermitFrame DEF Holders
<1>1. ASSUME NEW id \in Ids, TaskStep(id) PROVE PermitConservation'
  <2>1. \A i \in Ids : i # id => task'[i] = task[i]
    BY <1>1, TaskMoves
  <2>2. IsFiniteSet(Holders) /\ Cardinality(Holders) \in Nat /\ permits \in Nat /\ Concurrency \in Nat
    BY HoldersFinite, ConstantsAssumption DEF TypeOK
  <2>3. CASE /\ task[id].pc = "waiting" /\ task'[id].pc \in Holding
             /\ permits' = permits - 1
    <3>1. id \notin Holders /\ Holders' = Holders \cup {id}
      BY <1>n, <2>1, <2>3 DEF Holders
    <3>2. Cardinality(Holders') = Cardinality(Holders) + 1
      BY <2>2, <3>1, FS_AddElement
    <3>3. QED
      BY <2>2, <2>3, <3>2 DEF PermitConservation
  <2>4. CASE /\ task[id].pc \in Holding /\ task'[id].pc = "finished"
             /\ permits' = permits + 1
    <3>1. id \in Holders /\ Holders' = Holders \ {id}
      BY <1>n, <2>1, <2>4 DEF Holders
    <3>2. Cardinality(Holders') = Cardinality(Holders) - 1
      BY <2>2, <3>1, FS_RemoveElement
    <3>3. QED
      BY <2>2, <2>4, <3>2 DEF PermitConservation
  <2>5. CASE /\ task[id].pc \in Holding /\ task'[id].pc \in Holding
             /\ permits' = permits
    <3>1. Holders' = Holders
      BY <2>1, <2>5 DEF Holders
    <3>2. QED
      BY <2>5, <3>1, PermitFrame
  <2>6. QED
    BY <1>1, <2>3, <2>4, <2>5, TaskPermits
<1>2. CASE Start \/ RoundStart \/ Wake \/ Boot \/ WriteDone \/ WriteFail
  BY <1>2, <1>u DEF Start, RoundStart, Wake, Boot, WriteDone, WriteFail
<1>3. ASSUME permits' = Concurrency, \A id \in Ids : task'[id].pc \in {"none", "planned"}
      PROVE  PermitConservation'
  <2>1. Holders' = {}
    BY <1>n, <1>3 DEF Holders
  <2>2. Cardinality(Holders') = 0
    BY <2>1, FS_EmptySet
  <2>3. QED
    BY <1>3, <2>2, ConstantsAssumption DEF PermitConservation
<1>4. CASE Collect
  <2>1. PICK fired, st :
          task' = [id \in Ids |->
                      LET p == Plan(st[id[1]], id[1] \in fired) IN
                      IF id[2] <= roles[id[1]] /\ (p.daily \/ p.weekly \/ p.periodic)
                      THEN p ELSE NoTask]
    BY <1>4 DEF Collect
  <2>2. \A rs, x : Plan(rs, x).pc = "planned"
    BY DEF Plan, NoTask
  <2>3. \A id \in Ids : task'[id].pc \in {"none", "planned"}
    BY <2>1, <2>2, <1>n
  <2>4. permits' = Concurrency
    BY <1>4 DEF Collect
  <2>5. QED
    BY <1>3, <2>3, <2>4
<1>5. ASSUME NEW id \in Ids, Spawn(id) PROVE PermitConservation'
  <2>1. task[id].pc = "planned" /\ task'[id].pc = "waiting" /\ permits' = permits
        /\ \A i \in Ids : i # id => task'[i] = task[i]
    BY <1>5 DEF Spawn, At, Goto, TypeOK, TaskState
  <2>2. Holders' = Holders
    BY <1>n, <2>1 DEF Holders
  <2>3. QED
    BY <2>1, <2>2, PermitFrame
<1>6. CASE Join
  <2>1. Holders = {}
    BY <1>6, <1>n DEF Join, Holders
  <2>2. Holders' = {}
    BY <1>6, <1>n DEF Join, Holders
  <2>3. QED
    BY <1>6, <2>1, <2>2, PermitFrame DEF Join
<1>7. CASE Tick \/ EditConfig \/ \E b \in Bins : TouchBin(b)
  BY <1>7, <1>u DEF Tick, EditConfig, TouchBin
<1>8. CASE Crash \/ CtrlC
  BY <1>8, <1>3, <1>n DEF Crash, CtrlC, Stop
<1>9. CASE UNCHANGED vars
  BY <1>9, <1>u DEF vars
<1>10. QED
  BY <1>1, <1>2, <1>4, <1>5, <1>6, <1>7, <1>8, <1>9 DEF Next, MainStep, Environment

\* No path of run_one loses or invents a permit of the round's semaphore, for
\* every number of role tasks and every concurrency.
THEOREM PermitsConserved == Spec => []PermitConservation
<1>1. Init => PermitConservation
  <2> SUFFICES ASSUME Init PROVE PermitConservation
    OBVIOUS
  <2>1. Holders = {}
    BY DEF Init, Holders, NoTask, Holding
  <2>2. QED
    BY <2>1, PermitFresh DEF Init
<1>2. QED
  BY <1>1, TypeCorrect, PermitStep, PTL DEF Spec

-----------------------------------------------------------------------------
(* Entries of the state.                                                   *)

\* What a role task adds to the state is the entry of its own role.
LEMMA TaskKeys == ASSUME TypeOK, NEW id \in Ids, TaskStep(id)
                  PROVE  mem'.keys \subseteq mem.keys \cup {id[1]}
<1>1. \A rs : Put(mem, id[1], rs).keys = mem.keys \cup {id[1]}
  BY DEF Put, TypeOK, App
<1>2. mem' = mem \/ \E rs : mem' = Put(mem, id[1], rs)
  <2>1. CASE Acquire(id) \/ SelectRoleToken(id) \/ Login(id) \/ DailyBegin(id) \/ DailyRun(id)
             \/ WeeklyRun(id) \/ PeriodicBegin(id) \/ PeriodicRun(id) \/ CarCheck(id)
             \/ Disconnect(id)
    BY <2>1 DEF Acquire, SelectRoleToken, Login, DailyBegin, DailyRun, WeeklyRun, PeriodicBegin,
                PeriodicRun, CarCheck, Disconnect
  <2>2. CASE RefreshPeriodic(id)
    BY <2>2 DEF RefreshPeriodic
  <2>3. CASE DailySave(id)
    BY <2>3 DEF DailySave
  <2>4. CASE WeeklySave(id)
    BY <2>4 DEF WeeklySave
  <2>5. CASE ClaimCars(id)
    BY <2>5 DEF ClaimCars
  <2>6. CASE PeriodicSave(id)
    BY <2>6 DEF PeriodicSave
  <2>7. QED
    BY <2>1, <2>2, <2>3, <2>4, <2>5, <2>6 DEF TaskStep
<1>3. QED
  BY <1>1, <1>2

\* A step adds entries only for roles that are listed after it.
LEMMA KeysStep == ASSUME TypeOK, TasksBelongToRound, [Next]_vars,
                         NEW r \in Roles, r \in mem'.keys, r \notin mem.keys
                  PROVE  roles'[r] > 0
<1>s. \A app \in App, keys \in SUBSET Roles : sync_with_roles(app, keys).keys = keys
  BY DEF sync_with_roles, App
<1>l. \A list : r \in Listed(list) => list[r] > 0
  BY DEF Listed
<1>m. \A list : Listed(list) \in SUBSET Roles
  BY DEF Listed
<1>e. EmptyApp.keys = {}
  BY DEF EmptyApp
<1>t. mem \in App /\ file.app \in App
  BY DEF TypeOK
<1>1. ASSUME NEW id \in Ids, TaskStep(id) PROVE roles'[r] > 0
  <2>1. r = id[1]
    BY <1>1, TaskKeys
  <2>2. id[2] <= roles[id[1]]
    BY <1>1, TaskMoves DEF TasksBelongToRound, At, Holding
  <2>3. id[2] \in Nat \ {0} /\ roles[id[1]] \in Nat
    <3>1. id[1] \in Roles /\ id[2] \in Copies
      BY DEF Ids
    <3>2. Copies \subseteq Nat \ {0} /\ roles \in [Roles -> Copies \cup {0}]
      BY ConstantsAssumption DEF TypeOK
    <3>3. id[2] \in Nat \ {0}
      BY <3>1, <3>2
    <3>4. roles[id[1]] \in Copies \cup {0}
      BY <3>1, <3>2
    <3>5. \A x \in Copies \cup {0} : x \in Nat
      BY <3>2
    <3>6. roles[id[1]] \in Nat
      BY <3>4, <3>5, Zenon
    <3>7. QED
      BY <3>3, <3>6, Zenon
  <2>4. roles' = roles
    BY <1>1 DEF TaskFrame, config, TaskStep, Acquire, SelectRoleToken, Login, RefreshPeriodic,
           DailyBegin, DailyRun, DailySave, WeeklyRun, WeeklySave, PeriodicBegin, PeriodicRun,
           CarCheck, ClaimCars, PeriodicSave, Disconnect
  <2>5. QED
    BY <2>1, <2>2, <2>3, <2>4
<1>2. CASE Boot
  <2>1. mem'.keys = Listed(roles')
    BY <1>2, <1>s, <1>m, <1>t DEF Boot
  <2>2. QED
    BY <2>1, <1>l
<1>3. CASE Wake
  <2>1. PICK loaded : Reload(loaded)
    BY <1>3 DEF Wake
  <2>2. mem' = sync_with_roles(mem, Listed(roles'))
    BY <2>1 DEF Reload
  <2>3. mem'.keys = Listed(roles')
    BY <2>2, <1>s, <1>m, <1>t
  <2>4. QED
    BY <2>3, <1>l
<1>4. mem'.keys = mem.keys \/ mem'.keys = {} => FALSE
  OBVIOUS
<1>5. CASE Start \/ RoundStart \/ Collect \/ (\E id \in Ids : Spawn(id)) \/ Join
  <2>1. mem' = mem \/ (\E d : mem' = [mem EXCEPT !.round_date = d])
                   \/ (\E st : mem' = [mem EXCEPT !.st = st])
    BY <1>5 DEF Start, RoundStart, Collect, Spawn, Join
  <2>2. mem'.keys = mem.keys
    BY <1>t, <2>1 DEF App
  <2>3. QED
    BY <1>4, <2>2
<1>6. CASE WriteDone \/ WriteFail
  BY <1>4, <1>6, <1>e DEF WriteDone, WriteFail
<1>7. CASE Tick \/ EditConfig \/ \E b \in Bins : TouchBin(b)
  BY <1>4, <1>7 DEF Tick, EditConfig, TouchBin
<1>8. CASE Crash \/ CtrlC
  BY <1>4, <1>8, <1>e DEF Crash, CtrlC, Stop
<1>9. CASE UNCHANGED vars
  BY <1>4, <1>9 DEF vars
<1>10. QED
  BY <1>1, <1>2, <1>3, <1>5, <1>6, <1>7, <1>8, <1>9 DEF Next, MainStep, Environment

\* get_or_create never brings back a role that a rescan has removed.
THEOREM OrphansStayRemoved == Spec => NoOrphanResurrected
<1>1. TypeOK /\ TasksBelongToRound /\ [Next]_vars
        => [\A r \in Roles : r \in mem'.keys \ mem.keys => roles'[r] > 0]_vars
  BY KeysStep
<1>2. QED
  BY <1>1, TypeCorrect, RoundsContainTasks, PTL DEF Spec, NoOrphanResurrected

-----------------------------------------------------------------------------
(* What a step does to the daily state of the roles and to the copies the  *)
(* tasks work on.                                                          *)

\* The entry of the task's role keeps its flags, is overwritten by the copy, or is
\* marked as claimed.
EntryEffect(id) ==
    LET old == mem.st[id[1]]  new == mem'.st[id[1]] IN
    /\ \A r \in Roles : r # id[1] => mem'.st[r] = mem.st[r]
    /\ mem.keys \subseteq mem'.keys
    /\ new.week = old.week
    /\ \/ new.date = old.date /\ new.done = old.done
       \/ At(id, "dailysave") /\ new.date = task[id].date /\ new.done = task[id].done
       \/ At(id, "carclaim") /\ new.date = old.date /\ new.done = old.done \cup {CarClaimed}

\* The copy is made, worked on, or not there.
CopyEffect(id) ==
    LET r == id[1]  old == task[id]  new == task'[id] IN
    /\ new.status = old.status \/ new.status \subseteq StatusFlags
    /\ \/ new.pc \notin {"dailyrun", "dailysave", "carclaim"} /\ UNCHANGED <<server, refused>>
       \/ /\ new.pc = "carclaim" /\ CarSent \in mem.st[r].done
          /\ mem' = mem /\ UNCHANGED <<server, refused>>
       \/ /\ new.pc = "dailyrun" /\ mem' = mem /\ UNCHANGED <<server, refused>> /\ new.date = day
          /\ new.done = (IF mem.st[r].date = day THEN mem.st[r].done ELSE {}) \cup old.status
       \/ /\ old.pc = "dailyrun" /\ new.pc = "dailysave" /\ mem' = mem
          /\ new.date = old.date /\ old.done \subseteq new.done
          /\ \A q \in Roles : Settled(q) \subseteq Settled(q)'
          /\ new.done \subseteq old.done \cup Flags
          /\ new.done \subseteq old.done \cup BlindFlags \cup Settled(r)'

\* An update of one entry.
LEMMA PutFacts == ASSUME NEW app \in App, NEW r \in Roles, NEW rs
                  PROVE  /\ Put(app, r, rs).st[r] = rs
                         /\ \A q \in Roles : q # r => Put(app, r, rs).st[q] = app.st[q]
                         /\ app.keys \subseteq Put(app, r, rs).keys
BY DEF Put, App

\* save() truncates the file or leaves it.
LEMMA SaveFacts == ASSUME NEW a, Save(a)
                   PROVE  /\ file' = file \/ file' = Torn
                          /\ ~DiskMayFail => file' = Torn /\ writer' = a
BY DEF Save, Truncate

\* Every step of a role task changes the state and the copies in this way.
LEMMA TaskEffects == ASSUME TypeOK, NEW id \in Ids, TaskStep(id)
                     PROVE  /\ UNCHANGED <<day, sched, edits, changed>>
                            /\ file' = file \/ file' = Torn
                            /\ EntryEffect(id) /\ CopyEffect(id)
                            /\ \A i \in Ids : i # id => task'[i] = task[i]
<1>t. /\ id[1] \in Roles /\ mem \in App /\ mem.st[id[1]] \in RoleState /\ task \in [Ids -> TaskState]
      /\ task[id] \in TaskState
  BY DEF TypeOK, Ids, App
<1>1. UNCHANGED <<day, sched, edits, changed>>
  BY DEF TaskStep, Acquire, SelectRoleToken, Login, RefreshPeriodic, DailyBegin, DailyRun,
         DailySave, WeeklyRun, WeeklySave, PeriodicBegin, PeriodicRun, CarCheck, ClaimCars,
         PeriodicSave, Disconnect, TaskFrame, clock, config, budget
<1>2. \A i \in Ids : i # id => task'[i] = task[i]
  BY TaskMoves
<1>m. ASSUME mem' = mem PROVE EntryEffect(id)
  BY <1>m DEF EntryEffect
<1>p. ASSUME NEW rs, mem' = Put(mem, id[1], rs), rs.week = mem.st[id[1]].week,
             \/ rs.date = mem.st[id[1]].date /\ rs.done = mem.st[id[1]].done
             \/ At(id, "dailysave") /\ rs.date = task[id].date /\ rs.done = task[id].done
             \/ /\ At(id, "carclaim") /\ rs.date = mem.st[id[1]].date
                /\ rs.done = mem.st[id[1]].done \cup {CarClaimed}
      PROVE  EntryEffect(id)
  BY <1>t, <1>p, PutFacts DEF EntryEffect
<1>g. ASSUME NEW pc, Goto(id, pc), pc \notin {"dailyrun", "dailysave", "carclaim"},
             UNCHANGED <<server, refused>>
      PROVE  CopyEffect(id)
  BY <1>t, <1>g DEF Goto, CopyEffect, TaskState
<1>f. ASSUME Finish(id), UNCHANGED <<server, refused>> PROVE CopyEffect(id)
  BY <1>t, <1>f DEF Finish, CopyEffect, NoTask
<1>a. {AfterWeekly(task[id]), AfterDaily(task[id]), AfterRefresh(task[id])}
        \subseteq {"daily", "weekly", "periodic", "disconnect"}
  BY DEF AfterWeekly, AfterDaily, AfterRefresh
<1>3. CASE Acquire(id) \/ SelectRoleToken(id) \/ WeeklyRun(id) \/ Disconnect(id)
  <2>1. mem' = mem /\ file' = file /\ UNCHANGED <<server, refused>>
    BY <1>3 DEF Acquire, SelectRoleToken, WeeklyRun, Disconnect, game
  <2>2. Finish(id) \/ Goto(id, "token") \/ Goto(id, "login") \/ Goto(id, "weeklysave")
    BY <1>3 DEF Acquire, SelectRoleToken, WeeklyRun, Disconnect
  <2>3. QED
    BY <1>1, <1>2, <1>m, <1>g, <1>f, <2>1, <2>2
<1>4. CASE Login(id)
  <2>1. mem' = mem /\ file' = file /\ UNCHANGED <<server, refused>>
    BY <1>4 DEF Login, game
  <2>2. CASE task' = [task EXCEPT ![id].pc = "refresh",
                                  ![id].status = server[id[1]] \cap StatusFlags,
                                  ![id].studied = studied[id[1]]]
    <3>1. task'[id].pc = "refresh" /\ task'[id].status \subseteq StatusFlags
      BY <1>t, <2>2 DEF TaskState
    <3>2. QED
      BY <1>1, <1>2, <1>m, <2>1, <3>1 DEF CopyEffect
  <2>3. QED
    BY <1>1, <1>2, <1>4, <1>m, <1>f, <2>1, <2>2 DEF Login
<1>5. CASE RefreshPeriodic(id)
  <2>1. PICK x \in Timer : mem' = Put(mem, id[1], [mem.st[id[1]] EXCEPT !.periodic = x])
    BY <1>5 DEF RefreshPeriodic
  <2>2. EntryEffect(id)
    BY <1>t, <1>p, <2>1 DEF RoleState
  <2>3. QED
    BY <1>1, <1>2, <1>5, <1>g, <1>a, <2>2 DEF RefreshPeriodic, game
<1>6. CASE DailyBegin(id)
  <2> DEFINE rs == ensure_today(mem.st[id[1]], day)
  <2>1. /\ mem' = mem /\ file' = file /\ UNCHANGED <<server, refused>>
        /\ task' = [task EXCEPT ![id].pc = "dailyrun", ![id].date = rs.date,
                                ![id].done = rs.done \cup task[id].status]
    BY <1>6 DEF DailyBegin, game
  <2>2. rs.date = day /\ rs.done = IF mem.st[id[1]].date = day THEN mem.st[id[1]].done ELSE {}
    BY <1>t DEF ensure_today, RoleState
  <2> HIDE DEF rs
  <2>3. /\ task'[id].pc = "dailyrun" /\ task'[id].date = rs.date
        /\ task'[id].done = rs.done \cup task[id].status /\ task'[id].status = task[id].status
    BY <1>t, <2>1 DEF TaskState
  <2>4. CopyEffect(id)
    BY <2>1, <2>2, <2>3 DEF CopyEffect
  <2>5. QED
    BY <1>1, <1>2, <1>m, <2>1, <2>4
<1>7. CASE DailyRun(id)
  <2>2. PICK executed \in SUBSET Todo(id), answered \in SUBSET Todo(id) :
          /\ server' = [server EXCEPT ![id[1]] = @ \cup executed]
          /\ refused' = [refused EXCEPT ![id[1]] = @ \cup (answered \ server'[id[1]])]
          /\ task' = [task EXCEPT ![id].pc = "dailysave",
                         ![id].done = @ \cup answered \cup (Todo(id) \cap BlindFlags)]
    BY <1>7 DEF DailyRun
  <2>3. Todo(id) \subseteq Flags /\ server \in [Roles -> SUBSET Flags]
        /\ refused \in [Roles -> SUBSET Flags]
    BY DEF Todo, TypeOK
  <2>4. /\ task'[id].pc = "dailysave" /\ task'[id].date = task[id].date
        /\ task'[id].done = task[id].done \cup answered \cup (Todo(id) \cap BlindFlags)
        /\ task'[id].status = task[id].status
    BY <1>t, <2>2 DEF TaskState
  <2>5. /\ \A q \in Roles : Settled(q) \subseteq Settled(q)'
        /\ answered \subseteq Settled(id[1])'
    BY <1>t, <2>2, <2>3 DEF Settled
  <2>6. mem' = mem /\ file' = file /\ task[id].pc = "dailyrun"
    BY <1>7 DEF DailyRun, At
  <2>7. CopyEffect(id)
    BY <2>3, <2>4, <2>5, <2>6 DEF CopyEffect
  <2>8. QED
    BY <1>1, <1>2, <1>m, <2>6, <2>7
<1>8. CASE DailySave(id)
  <2> DEFINE rs == [mem.st[id[1]] EXCEPT !.date = task[id].date, !.done = task[id].done]
  <2>1. /\ At(id, "dailysave") /\ UNCHANGED <<server, refused>>
        /\ \/ mem' = Put(mem, id[1], rs) /\ Goto(id, AfterDaily(task[id]))
           \/ /\ \E x \in Timer : mem' = Put(mem, id[1], [rs EXCEPT !.periodic = x])
              /\ task' = [task EXCEPT ![id].pc = AfterDaily(task[id]),
                                      ![id].studied = studied[id[1]]]
    BY <1>8 DEF DailySave, game
  <2>2. /\ rs.date = task[id].date /\ rs.done = task[id].done /\ rs.week = mem.st[id[1]].week
        /\ rs \in RoleState
    BY <1>t DEF RoleState, TaskState
  <2> HIDE DEF rs
  <2>3. ASSUME NEW x \in Timer, mem' = Put(mem, id[1], [rs EXCEPT !.periodic = x])
        PROVE  EntryEffect(id)
    <3> DEFINE q == [rs EXCEPT !.periodic = x]
    <3>1. q.date = task[id].date /\ q.done = task[id].done /\ q.week = mem.st[id[1]].week
      BY <2>2 DEF RoleState
    <3> HIDE DEF q
    <3>2. mem' = Put(mem, id[1], q)
      BY <2>3 DEF q
    <3>3. QED
      BY <1>p, <2>1, <3>1, <3>2
  <2>4. EntryEffect(id)
    BY <1>p, <2>1, <2>2, <2>3
  <2>5. CopyEffect(id)
    <3>1. CASE Goto(id, AfterDaily(task[id]))
      BY <1>g, <1>a, <2>1, <3>1
    <3>2. CASE task' = [task EXCEPT ![id].pc = AfterDaily(task[id]),
                                    ![id].studied = studied[id[1]]]
      <4>1. task'[id].pc = AfterDaily(task[id]) /\ task'[id].status = task[id].status
        BY <1>t, <3>2 DEF TaskState
      <4>2. QED
        BY <1>a, <2>1, <4>1 DEF CopyEffect
    <3>3. QED
      BY <2>1, <3>1, <3>2
  <2>6. QED
    BY <1>1, <1>2, <1>8, <2>4, <2>5, SaveFacts DEF DailySave
<1>9. CASE WeeklySave(id)
  <2>1. EntryEffect(id)
    BY <1>t, <1>p, <1>9 DEF WeeklySave, RoleState
  <2>2. QED
    BY <1>1, <1>2, <1>9, <1>g, <1>a, <2>1, SaveFacts DEF WeeklySave, game
<1>10. CASE PeriodicBegin(id) \/ PeriodicRun(id)
  <2>1. mem' = mem /\ file' = file /\ UNCHANGED <<server, refused>>
    BY <1>10 DEF PeriodicBegin, PeriodicRun, game
  <2>2. task'[id].pc \in {"periodicrun", "carcheck"} /\ task'[id].status = task[id].status
    BY <1>t, <1>10 DEF PeriodicBegin, PeriodicRun, TaskState
  <2>3. QED
    BY <1>1, <1>2, <1>m, <2>1, <2>2 DEF CopyEffect
<1>11. CASE CarCheck(id)
  <2>1. mem' = mem /\ file' = file /\ UNCHANGED <<server, refused>>
    BY <1>11 DEF CarCheck, game
  <2>2. CASE Goto(id, "periodicsave")
    BY <1>1, <1>2, <1>m, <1>g, <2>1, <2>2
  <2>3. CASE Goto(id, "carclaim") /\ CarSent \in mem.st[id[1]].done
    <3>1. task'[id].pc = "carclaim" /\ task'[id].status = task[id].status
      BY <1>t, <2>3 DEF Goto, TaskState
    <3>2. QED
      BY <1>1, <1>2, <1>m, <2>1, <2>3, <3>1 DEF CopyEffect
  <2>4. QED
    BY <1>11, <2>2, <2>3 DEF CarCheck
<1>12. CASE ClaimCars(id)
  <2>1. EntryEffect(id)
    BY <1>t, <1>p, <1>12 DEF ClaimCars, RoleState
  <2>2. QED
    BY <1>1, <1>2, <1>12, <1>g, <2>1, SaveFacts DEF ClaimCars, game
<1>13. CASE PeriodicSave(id)
  <2>1. EntryEffect(id)
    BY <1>t, <1>p, <1>13 DEF PeriodicSave, RoleState
  <2>2. QED
    BY <1>1, <1>2, <1>13, <1>g, <2>1, SaveFacts DEF PeriodicSave, game
<1>14. QED
  BY <1>3, <1>4, <1>5, <1>6, <1>7, <1>8, <1>9, <1>10, <1>11, <1>12, <1>13 DEF TaskStep

\* A plan holds no copy.
LEMMA PlanFacts == ASSUME NEW rs, NEW fired
                   PROVE  Plan(rs, fired).pc = "planned" /\ Plan(rs, fired).status = {}
BY DEF Plan, NoTask

\* What any other step does: entries are kept, forgotten, loaded or rolled over, the file
\* is kept, truncated or filled, and a task that runs is left alone or dropped.
OtherEffect ==
    /\ \A r \in Roles : mem'.st[r] \in {mem.st[r], NewRole, file.app.st[r], Normalised(mem.st[r], day)}
    /\ file'.app \in {file.app, EmptyApp, mem}
    /\ \A id \in Ids : \/ task'[id] = task[id]
                       \/ /\ task'[id].pc \in {"none", "planned", "waiting"}
                          /\ task'[id].status \in {task[id].status, {}}
    /\ \/ mem'.st = mem.st
       \/ \A id \in Ids : task'[id].pc \in {"none", "planned"}
    /\ \/ day' = day /\ UNCHANGED <<server, refused>>
       \/ day' = day + 1 /\ UNCHANGED <<mem, file, task>>

\* A synchronised entry is the old one or a new one.
LEMMA SyncFacts == ASSUME NEW app \in App, NEW keys \in SUBSET Roles
                   PROVE  /\ sync_with_roles(app, keys).keys = keys
                          /\ \A r \in Roles : sync_with_roles(app, keys).st[r]
                                  = IF r \in keys THEN app.st[r] ELSE NewRole
BY DEF sync_with_roles, App

\* Every step but those of the role tasks is of this kind.
LEMMA OtherEffects == ASSUME TypeOK, TasksBelongToRound, [Next]_vars,
                             ~ \E id \in Ids : TaskStep(id)
                      PROVE  OtherEffect
<1>t. mem \in App /\ file.app \in App /\ task \in [Ids -> TaskState] /\ Torn.app = EmptyApp
  BY DEF TypeOK, Torn
<1>e. \A r \in Roles : EmptyApp.st[r] = NewRole
  BY DEF EmptyApp
<1>n. NoTask.pc = "none" /\ NoTask.status = {}
  BY DEF NoTask
<1>i. sched \notin {"spawning", "joining"} => \A id \in Ids : task[id].pc = "none"
  BY DEF TasksBelongToRound, Idle, At
<1>s. ASSUME NEW a, Save(a) PROVE file'.app \in {file.app, EmptyApp, mem}
  BY <1>t, <1>s, SaveFacts
<1>1. CASE Start
  BY <1>1 DEF Start, OtherEffect, clock, game
<1>2. CASE RoundStart
  <2>1. mem'.st = mem.st
    BY <1>t, <1>2 DEF RoundStart, App
  <2>2. UNCHANGED <<day, server, refused, task>> /\ (file' = file \/ Save(Main))
    BY <1>2 DEF RoundStart, clock, game
  <2>3. QED
    BY <1>s, <2>1, <2>2 DEF OtherEffect
<1>3. CASE Collect
  <2> DEFINE st == [r \in Roles |-> IF r \in mem.keys THEN Normalised(mem.st[r], day)
                                                      ELSE mem.st[r]]
  <2>1. PICK fired \in SUBSET Roles :
          task' = [id \in Ids |->
                      LET p == Plan(st[id[1]], id[1] \in fired) IN
                      IF id[2] <= roles[id[1]] /\ (p.daily \/ p.weekly \/ p.periodic)
                      THEN p ELSE NoTask]
    BY <1>3 DEF Collect
  <2>2. mem' = [mem EXCEPT !.st = st] /\ UNCHANGED <<day, server, refused, file>>
    BY <1>3 DEF Collect, clock, game
  <2>3. \A r \in Roles : mem'.st[r] \in {mem.st[r], Normalised(mem.st[r], day)}
    BY <1>t, <2>2 DEF App
  <2> HIDE DEF st
  <2>4. \A id \in Ids : \/ task'[id] = NoTask
                        \/ task'[id] = Plan(st[id[1]], id[1] \in fired)
    BY <2>1
  <2>5. \A id \in Ids : task'[id].pc \in {"none", "planned"} /\ task'[id].status = {}
    BY <1>n, <2>4, PlanFacts
  <2>6. QED
    BY <2>2, <2>3, <2>5 DEF OtherEffect
<1>4. ASSUME NEW id \in Ids, Spawn(id) PROVE OtherEffect
  <2>1. task'[id].pc = "waiting" /\ task'[id].status = task[id].status
        /\ \A i \in Ids : i # id => task'[i] = task[i]
    BY <1>t, <1>4 DEF Spawn, Goto, TaskState
  <2>2. QED
    BY <1>4, <2>1 DEF Spawn, OtherEffect, clock, game
<1>5. CASE Join
  <2>1. UNCHANGED <<day, server, refused, mem>> /\ Save(Main) /\ task' = [id \in Ids |-> NoTask]
    BY <1>5 DEF Join, clock, game
  <2>2. QED
    BY <1>n, <1>s, <2>1 DEF OtherEffect
<1>6. CASE Wake
  <2>1. PICK loaded \in {FALSE} \cup {"config" \in changed} : Reload(loaded)
    BY <1>6 DEF Wake
  <2>2. UNCHANGED <<day, server, refused, task>> /\ \A id \in Ids : task[id].pc = "none"
    BY <1>6, <1>i DEF Wake, clock, game
  <2>3. \/ mem' = mem /\ file' = file
        \/ mem' = sync_with_roles(mem, Listed(roles')) /\ Save(Main)
    BY <2>1 DEF Reload
  <2>4. Listed(roles') \in SUBSET Roles
    BY DEF Listed
  <2>5. \A r \in Roles : mem'.st[r] \in {mem.st[r], NewRole}
    BY <1>t, <2>3, <2>4, SyncFacts
  <2>6. QED
    BY <1>s, <2>2, <2>3, <2>5 DEF OtherEffect
<1>7. CASE Boot
  <2>1. PICK got \in Scans(cfgFile) : mem' = sync_with_roles(file.app, Listed(Scanned(got)))
    BY <1>7 DEF Boot
  <2>2. Listed(Scanned(got)) \in SUBSET Roles
    BY DEF Listed
  <2>3. \A r \in Roles : mem'.st[r] \in {file.app.st[r], NewRole}
    BY <1>t, <2>1, <2>2, SyncFacts
  <2>4. UNCHANGED <<day, server, refused, task>> /\ file' = Torn /\ \A id \in Ids : task[id].pc = "none"
    BY <1>7, <1>i DEF Boot, Truncate, clock, game
  <2>5. QED
    BY <1>t, <2>3, <2>4 DEF OtherEffect
<1>8. CASE WriteDone
  BY <1>8 DEF WriteDone, OtherEffect, clock, game
<1>9. CASE WriteFail
  <2>1. UNCHANGED <<day, server, refused, task, file>>
    BY <1>9 DEF WriteFail, clock, game
  <2>2. mem' = mem \/ (mem' = EmptyApp /\ sched = "booting")
    BY <1>9 DEF WriteFail
  <2>3. QED
    BY <1>e, <1>i, <2>1, <2>2 DEF OtherEffect
<1>10. CASE Tick
  BY <1>10 DEF Tick, OtherEffect
<1>11. CASE EditConfig \/ \E b \in Bins : TouchBin(b)
  BY <1>11 DEF EditConfig, TouchBin, OtherEffect, clock, game
<1>12. CASE Crash \/ CtrlC
  <2>1. UNCHANGED <<day, server, refused, file>> /\ mem' = EmptyApp /\ task' = [id \in Ids |-> NoTask]
    BY <1>12 DEF Crash, CtrlC, Stop, clock, game
  <2>2. QED
    BY <1>e, <1>n, <2>1 DEF OtherEffect
<1>13. CASE UNCHANGED vars
  BY <1>13 DEF vars, OtherEffect
<1>14. QED
  BY <1>1, <1>2, <1>3, <1>4, <1>5, <1>6, <1>7, <1>8, <1>9, <1>10, <1>11, <1>12, <1>13
     DEF Next, MainStep, Environment

-----------------------------------------------------------------------------
(* Marks are earned.                                                       *)

\* Weeks are counted upwards from zero.
LEMMA WeekFacts == ASSUME NEW d \in Nat PROVE Week(d) \in Nat /\ Week(d) <= Week(d + 1)
<1>1. DaysPerWeek \in Nat \ {0}
  BY ConstantsAssumption
<1>2. \A x \in Nat, k \in Nat \ {0} : x \div k \in Nat /\ x \div k <= (x + 1) \div k
  OBVIOUS
<1>3. QED
  BY <1>1, <1>2 DEF Week

\* What the roll-over to day d leaves of an entry.
LEMMA RolledOver == ASSUME NEW rs \in RoleState, NEW d \in Nat
                    PROVE  /\ Normalised(rs, d).date = d
                           /\ Normalised(rs, d).done = IF rs.date = d THEN rs.done ELSE {}
                           /\ Normalised(rs, d).week = Week(d)
                           /\ Normalised(rs, d).study = (rs.study /\ rs.week = Week(d))
                           /\ Normalised(rs, d).periodic = rs.periodic
<1> DEFINE q == ensure_today(rs, d)
<1>1. /\ q.date = d /\ q.done = (IF rs.date = d THEN rs.done ELSE {}) /\ q.week = rs.week
      /\ q.study = rs.study /\ q.periodic = rs.periodic
  BY DEF ensure_today, RoleState
<1>2. q \in RoleState
  BY NormalisedType
<1>3. Week(d) \in Int
  BY WeekType
<1> HIDE DEF q
<1>4. Normalised(rs, d) = ensure_this_week(q, d)
  BY DEF Normalised, q
<1>5. CASE q.week = Week(d)
  BY <1>1, <1>2, <1>4, <1>5 DEF ensure_this_week, RoleState
<1>6. CASE q.week # Week(d)
  BY <1>1, <1>2, <1>3, <1>4, <1>6 DEF ensure_this_week, RoleState
<1>7. QED
  BY <1>5, <1>6

\* An entry that is new, or rolled over today, is not dated in the future.
LEMMA EntryDates == ASSUME TypeOK, NEW rs \in RoleState
                    PROVE  /\ day \in Nat /\ Week(day) \in Nat
                           /\ rs.date \in Int /\ rs.week \in Int
                           /\ NewRole.date <= day /\ NewRole.week <= Week(day)
                           /\ NewRole.done = {}
                           /\ Normalised(rs, day).date <= day
                           /\ Normalised(rs, day).week <= Week(day)
<1>1. day \in Nat /\ MaxDay \in Nat
  BY ConstantsAssumption DEF TypeOK
<1>2. Week(day) \in Nat
  BY <1>1, WeekFacts
<1>3. QED
  BY <1>1, <1>2, RolledOver DEF NewRole, Never, RoleState

\* Nothing is ever dated in the future.
LEMMA DatedStep == TypeOK /\ TypeOK' /\ TasksBelongToRound /\ Dated /\ [Next]_vars => Dated'
<1> SUFFICES ASSUME TypeOK, TypeOK', TasksBelongToRound, Dated, [Next]_vars PROVE Dated'
  OBVIOUS
<1>t. /\ day \in Nat /\ Week(day) \in Nat /\ mem \in App /\ file.app \in App
      /\ task \in [Ids -> TaskState] /\ file.app \in App /\ Torn.app = EmptyApp
      /\ \A r \in Roles : mem.st[r] \in RoleState /\ file.app.st[r] \in RoleState
      /\ \A r \in Roles : EmptyApp.st[r] = NewRole
  <2>1. day \in Nat
    BY ConstantsAssumption DEF TypeOK
  <2>2. QED
    BY <2>1, WeekFacts DEF TypeOK, App, Torn, EmptyApp
<1>n. NewRole.date <= day /\ NewRole.week <= Week(day)
  BY <1>t DEF NewRole, Never
<1>1. ASSUME NEW id \in Ids, TaskStep(id) PROVE Dated'
  <2>1. /\ day' = day /\ EntryEffect(id) /\ CopyEffect(id) /\ (file' = file \/ file' = Torn)
        /\ \A i \in Ids : i # id => task'[i] = task[i]
    BY <1>1, TaskEffects
  <2>2. id[1] \in Roles
    BY DEF Ids
  <2>3. \A r \in Roles : mem'.st[r].date <= day /\ mem'.st[r].week <= Week(day)
    BY <2>1, <2>2 DEF EntryEffect, Dated, At, Copying
  <2>4. \A r \in Roles : file'.app.st[r].date <= day /\ file'.app.st[r].week <= Week(day)
    BY <1>t, <1>n, <2>1 DEF Dated
  <2>5. task'[id].pc \in {"dailyrun", "dailysave"} => task'[id].date <= day
    BY <1>t, <2>1 DEF CopyEffect, Dated, Copying
  <2>6. QED
    BY <2>1, <2>3, <2>4, <2>5 DEF Dated, Copying
<1>2. ASSUME ~ \E id \in Ids : TaskStep(id) PROVE Dated'
  <2>1. OtherEffect
    BY <1>2, OtherEffects
  <2>2. \A r \in Roles : Normalised(mem.st[r], day).date <= day
                         /\ Normalised(mem.st[r], day).week <= Week(day)
    BY <1>t, EntryDates
  <2>3. \A r \in Roles : mem'.st[r].date <= day /\ mem'.st[r].week <= Week(day)
    BY <1>n, <2>1, <2>2 DEF OtherEffect, Dated
  <2>4. \A r \in Roles : file'.app.st[r].date <= day /\ file'.app.st[r].week <= Week(day)
    BY <1>t, <1>n, <2>1 DEF OtherEffect, Dated
  <2>5. \A id \in Ids : Copying(id)' => task'[id].date <= day
    BY <2>1 DEF OtherEffect, Dated, Copying
  <2>6. CASE day' = day
    BY <2>3, <2>4, <2>5, <2>6 DEF Dated
  <2>7. CASE day' = day + 1
    <3>1. Week(day) <= Week(day') /\ Week(day') \in Nat
      BY <1>t, <2>7, WeekFacts
    <3>2. /\ \A r \in Roles : mem'.st[r] \in RoleState /\ file'.app.st[r] \in RoleState
          /\ \A id \in Ids : task'[id] \in TaskState
      BY DEF TypeOK, App
    <3>3. \A r \in Roles : mem'.st[r].date <= day' /\ file'.app.st[r].date <= day'
      BY <1>t, <2>3, <2>4, <2>7, <3>2 DEF RoleState
    <3>4. \A r \in Roles : mem'.st[r].week <= Week(day') /\ file'.app.st[r].week <= Week(day')
      BY <1>t, <2>3, <2>4, <3>1, <3>2 DEF RoleState
    <3>5. \A id \in Ids : Copying(id)' => task'[id].date <= day'
      BY <1>t, <2>5, <2>7, <3>2 DEF TaskState
    <3>6. QED
      BY <3>3, <3>4, <3>5 DEF Dated
  <2>8. QED
    BY <2>1, <2>6, <2>7 DEF OtherEffect
<1>3. QED
  BY <1>1, <1>2

\* Marks and copies stay earned.
LEMMA EarnedStep ==
    TypeOK /\ TasksBelongToRound /\ Dated /\ MarksAreEarned /\ CopiesEarned /\ [Next]_vars
        => MarksAreEarned' /\ CopiesEarned'
<1> SUFFICES ASSUME TypeOK, TasksBelongToRound, Dated, MarksAreEarned, CopiesEarned, [Next]_vars
             PROVE  MarksAreEarned' /\ CopiesEarned'
  OBVIOUS
<1> DEFINE Earned(rs, r) == rs.date = day => Confirmed(rs.done) \subseteq Settled(r)
<1>t. /\ day \in Nat /\ Torn.app = EmptyApp
      /\ \A r \in Roles : mem.st[r] \in RoleState /\ file.app.st[r] \in RoleState
      /\ \A r \in Roles : EmptyApp.st[r] = NewRole /\ NewRole.done = {}
  BY ConstantsAssumption DEF TypeOK, App, Torn, EmptyApp, NewRole
<1>m. \A r \in Roles : Earned(mem.st[r], r) /\ Earned(file.app.st[r], r) /\ Earned(NewRole, r)
  BY <1>t DEF MarksAreEarned, Confirmed
<1>1. ASSUME NEW id \in Ids, TaskStep(id) PROVE MarksAreEarned' /\ CopiesEarned'
  <2>1. /\ day' = day /\ EntryEffect(id) /\ CopyEffect(id) /\ (file' = file \/ file' = Torn)
        /\ \A i \in Ids : i # id => task'[i] = task[i]
    BY <1>1, TaskEffects
  <2>2. id[1] \in Roles /\ \A i \in Ids : i[1] \in Roles
    BY DEF Ids
  <2>3. \A r \in Roles : Settled(r) \subseteq Settled(r)'
    BY <2>1 DEF CopyEffect, Settled
  <2>4. \A r \in Roles : Earned(mem'.st[r], r)
    BY <1>m, <2>1, <2>2 DEF EntryEffect, CopiesEarned, Confirmed, At, Copying
  <2>5. \A r \in Roles : Earned(file'.app.st[r], r)
    BY <1>t, <1>m, <2>1
  <2>6. MarksAreEarned'
    BY <2>1, <2>3, <2>4, <2>5 DEF MarksAreEarned, Confirmed
  <2>7. task'[id].status \subseteq StatusFlags
    BY <2>1 DEF CopyEffect, CopiesEarned
  <2>8. ASSUME task'[id].pc \in {"dailyrun", "dailysave"}, task'[id].date = day
        PROVE  Confirmed(task'[id].done) \subseteq Settled(id[1])'
    <3>1. CASE task'[id].pc = "dailyrun"
      <4>1. task'[id].done = (IF mem.st[id[1]].date = day THEN mem.st[id[1]].done ELSE {})
                                \cup task[id].status /\ UNCHANGED <<server, refused>>
        BY <2>1, <3>1 DEF CopyEffect
      <4>2. Confirmed(task[id].status) = {} /\ Earned(mem.st[id[1]], id[1])
        BY <1>m, <2>2 DEF CopiesEarned, Confirmed
      <4>3. Settled(id[1])' = Settled(id[1])
        BY <4>1 DEF Settled
      <4>4. QED
        BY <4>1, <4>2, <4>3 DEF Confirmed
    <3>2. CASE task'[id].pc = "dailysave"
      <4>1. /\ task[id].pc = "dailyrun" /\ task[id].date = day
            /\ task'[id].done \subseteq task[id].done \cup BlindFlags \cup Settled(id[1])'
        BY <2>1, <2>8, <3>2 DEF CopyEffect
      <4>2. Confirmed(task[id].done) \subseteq Settled(id[1])
        BY <4>1 DEF CopiesEarned, Copying
      <4>3. QED
        BY <2>2, <2>3, <4>1, <4>2 DEF Confirmed
    <3>3. QED
      BY <2>8, <3>1, <3>2
  <2>9. CopiesEarned'
    <3> SUFFICES ASSUME NEW i \in Ids
                 PROVE  /\ task'[i].status \subseteq StatusFlags
                        /\ task'[i].pc \in {"dailyrun", "dailysave"} /\ task'[i].date = day
                             => Confirmed(task'[i].done) \subseteq Settled(i[1])'
      BY <2>1 DEF CopiesEarned, Copying, Confirmed
    <3>1. CASE i = id
      BY <2>7, <2>8, <3>1
    <3>2. CASE i # id
      BY <2>1, <2>2, <2>3, <3>2 DEF CopiesEarned, Copying
    <3>3. QED
      BY <3>1, <3>2
  <2>10. QED
    BY <2>6, <2>9
<1>2. ASSUME ~ \E id \in Ids : TaskStep(id) PROVE MarksAreEarned' /\ CopiesEarned'
  <2>1. OtherEffect
    BY <1>2, OtherEffects
  <2>2. CASE day' = day /\ UNCHANGED <<server, refused>>
    <3>1. \A r \in Roles : Earned(Normalised(mem.st[r], day), r)
      <4>1. \A r \in Roles : Normalised(mem.st[r], day).done \subseteq mem.st[r].done
                             /\ (Normalised(mem.st[r], day).done = {} \/ mem.st[r].date = day)
        BY <1>t, RolledOver
      <4>2. QED
        BY <1>m, <4>1 DEF Confirmed
    <3>2. \A r \in Roles : Earned(mem'.st[r], r) /\ Earned(file'.app.st[r], r)
      BY <1>t, <1>m, <2>1, <3>1 DEF OtherEffect
    <3>3. \A r \in Roles : Settled(r)' = Settled(r)
      BY <2>2 DEF Settled
    <3>4. MarksAreEarned'
      BY <2>2, <3>2, <3>3 DEF MarksAreEarned, Confirmed
    <3>5. \A id \in Ids : Copying(id)' => task'[id] = task[id]
      BY <2>1 DEF OtherEffect, Copying
    <3>6. \A id \in Ids : task'[id].status \subseteq StatusFlags /\ id[1] \in Roles
      BY <2>1 DEF OtherEffect, CopiesEarned, Ids
    <3>7. CopiesEarned'
      BY <2>2, <3>3, <3>5, <3>6 DEF CopiesEarned, Copying, Confirmed
    <3>8. QED
      BY <3>4, <3>7
  <2>3. CASE day' = day + 1 /\ UNCHANGED <<mem, file, task>>
    <3>1. \A r \in Roles : mem'.st[r].date # day' /\ file'.app.st[r].date # day'
      BY <1>t, <2>3 DEF Dated, RoleState
    <3>2. \A id \in Ids : Copying(id)' => task'[id].date # day'
      <4>1. \A id \in Ids : task[id].date \in Int
        BY DEF TypeOK, TaskState
      <4>2. QED
        BY <1>t, <2>3, <4>1 DEF Dated, Copying
    <3>3. MarksAreEarned'
      BY <3>1 DEF MarksAreEarned
    <3>4. CopiesEarned'
      BY <2>3, <3>2 DEF CopiesEarned
    <3>5. QED
      BY <3>3, <3>4
  <2>4. QED
    BY <2>1, <2>2, <2>3 DEF OtherEffect
<1>3. QED
  BY <1>1, <1>2

-----------------------------------------------------------------------------
(* Write backs lose nothing when the tasks of one role exclude each other. *)

\* Two tasks of one role never run at the same time.
LEMMA OneAtATime == ASSUME TypeOK, PermitConservation, Exclusive, NEW i \in Holders, NEW j \in Holders,
                           i[1] = j[1]
                    PROVE  i = j
<1>1. CASE Copies = {1}
  BY <1>1 DEF Holders, Ids
<1>2. CASE Concurrency <= 1
  <2>1. Cardinality(Holders) <= 1 /\ IsFiniteSet(Holders) /\ Cardinality(Holders) \in Nat
    BY <1>2, HoldersFinite, ConstantsAssumption DEF PermitConservation, TypeOK
  <2>2. SUFFICES ASSUME i # j PROVE FALSE
    OBVIOUS
  <2>3. {i, j} \subseteq Holders
    OBVIOUS
  <2>4. IsFiniteSet({i}) /\ Cardinality({i}) = 1
    BY FS_Singleton
  <2>5. {i, j} = {i} \cup {j} /\ j \notin {i}
    BY <2>2
  <2>6. Cardinality({i} \cup {j}) = Cardinality({i}) + 1
    BY <2>4, <2>5, FS_AddElement, Zenon
  <2>7. Cardinality({i, j}) = 2
    BY <2>4, <2>5, <2>6
  <2>8. Cardinality({i, j}) <= Cardinality(Holders)
    BY <2>1, <2>3, FS_Subset
  <2>9. QED
    BY <2>1, <2>7, <2>8
<1>3. QED
  BY <1>1, <1>2 DEF Exclusive

\* While task i holds its permit, a step of another task leaves the flags of its role alone.
LEMMA OthersKeepFlags == ASSUME TypeOK, PermitConservation, Exclusive, NEW id \in Ids, TaskStep(id),
                                NEW i \in Holders, i # id
                         PROVE  /\ mem'.st[i[1]].date = mem.st[i[1]].date
                                /\ mem'.st[i[1]].done = mem.st[i[1]].done
<1>1. EntryEffect(id) /\ i[1] \in Roles
  BY TaskEffects DEF Holders, Ids
<1>2. CASE id \in Holders
  BY <1>1, <1>2, OneAtATime DEF EntryEffect
<1>3. CASE id \notin Holders
  BY <1>1, <1>3 DEF EntryEffect, Holders, Holding, At
<1>4. QED
  BY <1>2, <1>3

\* The copy a task works on stays ahead of memory.
LEMMA AheadStep ==
    TypeOK /\ TasksBelongToRound /\ PermitConservation /\ Dated /\ CopiesAhead /\ [Next]_vars
        => CopiesAhead'
<1> SUFFICES ASSUME TypeOK, TasksBelongToRound, PermitConservation, Dated, CopiesAhead, [Next]_vars,
                    Exclusive, NEW i \in Ids, task'[i].pc \in {"dailyrun", "dailysave"}
             PROVE  /\ mem'.st[i[1]].date <= task'[i].date
                    /\ mem'.st[i[1]].date = task'[i].date
                         => mem'.st[i[1]].done \subseteq task'[i].done
  BY DEF CopiesAhead, Copying, Exclusive
<1>0. i[1] \in Roles
  BY DEF Ids
<1>1. ASSUME task'[i] = task[i] PROVE i \in Holders /\ Copying(i)
  BY <1>1 DEF Copying, Holders, Holding
<1>2. ASSUME NEW id \in Ids, TaskStep(id), i # id
      PROVE  /\ mem'.st[i[1]].date <= task'[i].date
             /\ mem'.st[i[1]].date = task'[i].date => mem'.st[i[1]].done \subseteq task'[i].done
  BY <1>1, <1>2, TaskEffects, OthersKeepFlags DEF CopiesAhead
<1>3. ASSUME TaskStep(i)
      PROVE  /\ mem'.st[i[1]].date <= task'[i].date
             /\ mem'.st[i[1]].date = task'[i].date => mem'.st[i[1]].done \subseteq task'[i].done
  <2>1. CopyEffect(i)
    BY <1>3, TaskEffects
  <2>2. QED
    BY <1>0, <2>1 DEF CopyEffect, Dated, CopiesAhead, Copying
<1>4. ASSUME ~ \E id \in Ids : TaskStep(id)
      PROVE  /\ mem'.st[i[1]].date <= task'[i].date
             /\ mem'.st[i[1]].date = task'[i].date => mem'.st[i[1]].done \subseteq task'[i].done
  BY <1>0, <1>1, <1>4, OtherEffects DEF OtherEffect, CopiesAhead
<1>5. QED
  BY <1>2, <1>3, <1>4

\* Claims keep following dispatches.
LEMMA ClaimsStep ==
    TypeOK /\ TasksBelongToRound /\ PermitConservation /\ CopiesEarned /\ ClaimsFollow /\ [Next]_vars
        => ClaimsFollow'
<1> SUFFICES ASSUME TypeOK, TasksBelongToRound, PermitConservation, CopiesEarned, ClaimsFollow,
                    [Next]_vars, Exclusive
             PROVE  ClaimsFollow'
  BY DEF ClaimsFollow, Exclusive
<1> DEFINE Follows(marks) == CarClaimed \in marks => CarSent \in marks
<1>t. /\ Torn.app = EmptyApp /\ CarClaimed \notin Flags /\ StatusFlags \subseteq Flags /\ day \in Nat
      /\ \A r \in Roles : mem.st[r] \in RoleState
      /\ \A r \in Roles : EmptyApp.st[r] = NewRole /\ NewRole.done = {}
  BY ConstantsAssumption DEF TypeOK, App, Torn, EmptyApp, NewRole
<1>m. \A r \in Roles : Follows(mem.st[r].done) /\ Follows(file.app.st[r].done) /\ Follows(NewRole.done)
  BY <1>t DEF ClaimsFollow
<1>1. ASSUME NEW id \in Ids, TaskStep(id) PROVE ClaimsFollow'
  <2>1. /\ EntryEffect(id) /\ CopyEffect(id) /\ (file' = file \/ file' = Torn) /\ id[1] \in Roles
        /\ \A i \in Ids : i # id => task'[i] = task[i]
    BY <1>1, TaskEffects DEF Ids
  <2>2. \A r \in Roles : Follows(mem'.st[r].done) /\ Follows(file'.app.st[r].done)
    BY <1>t, <1>m, <2>1 DEF EntryEffect, ClaimsFollow, At, Copying
  <2>3. task'[id].pc \in {"dailyrun", "dailysave"} => Follows(task'[id].done)
    BY <1>t, <1>m, <2>1 DEF CopyEffect, ClaimsFollow, CopiesEarned, Copying
  <2>4. task'[id].pc = "carclaim" => CarSent \in mem'.st[id[1]].done
    BY <2>1 DEF CopyEffect
  <2>5. ASSUME NEW i \in Ids, i # id, task'[i].pc = "carclaim" PROVE CarSent \in mem'.st[i[1]].done
    <3>1. i \in Holders /\ At(i, "carclaim")
      BY <2>1, <2>5 DEF Holders, Holding, At
    <3>2. QED
      BY <1>1, <2>5, <3>1, OthersKeepFlags DEF ClaimsFollow
  <2>6. \A i \in Ids : i # id /\ task'[i].pc \in {"dailyrun", "dailysave"} => Follows(task'[i].done)
    BY <2>1 DEF ClaimsFollow, Copying
  <2>7. QED
    BY <2>2, <2>3, <2>4, <2>5, <2>6 DEF ClaimsFollow, Copying, At, Exclusive
<1>2. ASSUME ~ \E id \in Ids : TaskStep(id) PROVE ClaimsFollow'
  <2>1. OtherEffect
    BY <1>2, OtherEffects
  <2>2. \A r \in Roles : Follows(Normalised(mem.st[r], day).done)
    BY <1>t, <1>m, RolledOver
  <2>3. \A r \in Roles : Follows(mem'.st[r].done) /\ Follows(file'.app.st[r].done)
    BY <1>t, <1>m, <2>1, <2>2 DEF OtherEffect
  <2>4. \A i \in Ids : task'[i].pc \in {"dailyrun", "dailysave"} => Follows(task'[i].done)
    BY <2>1 DEF OtherEffect, ClaimsFollow, Copying
  <2>5. \A i \in Ids : task'[i].pc = "carclaim" => CarSent \in mem'.st[i[1]].done
    BY <2>1 DEF OtherEffect, ClaimsFollow, At
  <2>6. QED
    BY <2>3, <2>4, <2>5 DEF ClaimsFollow, Copying, At, Exclusive
<1>3. QED
  BY <1>1, <1>2

\* Tasks step only while the process lives.
LEMMA TasksAreAlive == ASSUME TypeOK, TasksBelongToRound, NEW id \in Ids, TaskStep(id)
                       PROVE  sched \in {"spawning", "joining"}
BY TaskMoves DEF TasksBelongToRound, Idle, At, Holding

\* A stopped process holds nothing.
LEMMA DownStep == TypeOK /\ TasksBelongToRound /\ DownEmpty /\ [Next]_vars => DownEmpty'
<1> SUFFICES ASSUME TypeOK, TasksBelongToRound, DownEmpty, [Next]_vars PROVE DownEmpty'
  OBVIOUS
<1>1. ASSUME NEW id \in Ids, TaskStep(id) PROVE DownEmpty'
  BY <1>1, TasksAreAlive, TaskEffects DEF DownEmpty, Alive
<1>2. CASE MainStep \/ Boot
  BY <1>2 DEF MainStep, Start, RoundStart, Collect, Spawn, Join, Wake, Boot, DownEmpty, Alive
<1>3. CASE WriteDone \/ WriteFail
  BY <1>3 DEF WriteDone, WriteFail, DownEmpty, Alive
<1>4. CASE Environment \/ UNCHANGED vars
  BY <1>4 DEF Environment, Tick, EditConfig, TouchBin, Crash, CtrlC, Stop, vars, DownEmpty, Alive
<1>5. QED
  BY <1>1, <1>2, <1>3, <1>4 DEF Next

\* No step of a living process takes a mark of the same day from an entry that stays.
LEMMA ProgressStep ==
    ASSUME TypeOK, TasksBelongToRound, Dated, CopiesAhead, DownEmpty, [Next]_vars, Exclusive,
           NEW r \in mem.keys \cap mem'.keys
    PROVE  /\ mem.st[r].date <= mem'.st[r].date
           /\ mem.st[r].date = mem'.st[r].date => mem.st[r].done \subseteq mem'.st[r].done
<1> DEFINE Goal == /\ mem.st[r].date <= mem'.st[r].date
                   /\ mem.st[r].date = mem'.st[r].date => mem.st[r].done \subseteq mem'.st[r].done
<1>t. r \in Roles /\ mem \in App /\ file.app \in App /\ mem.st[r] \in RoleState /\ day \in Nat
      /\ mem.st[r].date \in Int /\ EmptyApp.keys = {}
  BY ConstantsAssumption DEF TypeOK, App, RoleState, EmptyApp
<1>s. ASSUME mem'.st[r] = mem.st[r] PROVE Goal
  BY <1>t, <1>s
<1>1. ASSUME NEW id \in Ids, TaskStep(id) PROVE Goal
  <2>1. EntryEffect(id)
    BY <1>1, TaskEffects
  <2>2. CASE r # id[1]
    BY <1>s, <1>t, <2>1, <2>2 DEF EntryEffect
  <2>3. CASE r = id[1]
    BY <1>t, <2>1, <2>3 DEF EntryEffect, CopiesAhead, Copying, At
  <2>4. QED
    BY <2>2, <2>3
<1>2. CASE Collect
  <2>1. mem'.st[r] = Normalised(mem.st[r], day)
    BY <1>2, <1>t DEF Collect, App
  <2>2. QED
    BY <1>t, <2>1, RolledOver DEF Dated
<1>3. CASE Wake
  <2>1. PICK loaded \in {FALSE} \cup {"config" \in changed} : Reload(loaded)
    BY <1>3 DEF Wake
  <2>2. mem' = mem \/ mem' = sync_with_roles(mem, Listed(roles'))
    BY <2>1 DEF Reload
  <2>3. Listed(roles') \in SUBSET Roles
    BY DEF Listed
  <2>4. mem'.st[r] = mem.st[r]
    BY <1>t, <2>2, <2>3, SyncFacts
  <2>5. QED
    BY <1>s, <2>4
<1>4. CASE Start \/ RoundStart \/ (\E id \in Ids : Spawn(id)) \/ Join
  <2>1. mem'.st = mem.st
    BY <1>t, <1>4 DEF Start, RoundStart, Spawn, Join, App
  <2>2. QED
    BY <1>s, <2>1
<1>5. CASE Boot
  BY <1>5, <1>t DEF Boot, DownEmpty, Alive
<1>6. CASE WriteDone \/ WriteFail
  BY <1>s, <1>t, <1>6 DEF WriteDone, WriteFail
<1>7. CASE Tick \/ EditConfig \/ (\E b \in Bins : TouchBin(b)) \/ UNCHANGED vars
  BY <1>s, <1>7 DEF Tick, EditConfig, TouchBin, vars
<1>8. CASE Crash \/ CtrlC
  BY <1>t, <1>8 DEF Crash, CtrlC, Stop
<1>9. QED
  BY <1>1, <1>2, <1>3, <1>4, <1>5, <1>6, <1>7, <1>8 DEF Next, MainStep, Environment

-----------------------------------------------------------------------------
(* The file and memory.                                                    *)

\* The file is truncated or filled, or the entries are kept or rolled over.
FileEffect ==
    \/ file'.app.keys = {}
    \/ file'.app = mem'
    \/ /\ Alive /\ file' = file /\ mem'.keys = mem.keys
       /\ \A r \in mem.keys : mem'.st[r] \in {mem.st[r], Normalised(mem.st[r], day)}

\* As long as no save fails, or nothing is edited, every step but those of the tasks is
\* of this kind.
LEMMA FileEffects == ASSUME TypeOK, TasksBelongToRound, FileKeys, [Next]_vars, Alive',
                            DiskMayFail => edits' = 0, ~ \E id \in Ids : TaskStep(id)
                     PROVE  FileEffect
<1>t. mem \in App /\ mem.keys \subseteq Roles /\ Torn.app.keys = {}
  BY DEF TypeOK, App, Torn, EmptyApp
<1>s. ASSUME NEW a, Save(a), Alive, mem' = mem \/ ~DiskMayFail PROVE FileEffect
  BY <1>s, <1>t, SaveFacts DEF FileEffect
<1>q. ASSUME Alive, file' = file, mem' = mem PROVE FileEffect
  BY <1>q DEF FileEffect
<1>1. CASE Start \/ (\E id \in Ids : Spawn(id)) \/ Join
  BY <1>1, <1>q, <1>s DEF Start, Spawn, Join, Alive
<1>2. CASE RoundStart
  <2>1. mem'.st = mem.st /\ mem'.keys = mem.keys
    BY <1>t, <1>2 DEF RoundStart, App
  <2>2. Alive /\ (file' = file \/ file' = Torn)
    BY <1>2, SaveFacts DEF RoundStart, Alive
  <2>3. QED
    BY <1>t, <2>1, <2>2 DEF FileEffect
<1>3. CASE Collect
  <2>1. Alive /\ file' = file /\ mem' = [mem EXCEPT !.st = [r \in Roles |->
              IF r \in mem.keys THEN Normalised(mem.st[r], day) ELSE mem.st[r]]]
    BY <1>3 DEF Collect, Alive
  <2>2. mem'.keys = mem.keys /\ \A r \in mem.keys : mem'.st[r] = Normalised(mem.st[r], day)
    BY <1>t, <2>1 DEF App
  <2>3. QED
    BY <2>1, <2>2 DEF FileEffect
<1>4. CASE Wake
  <2>1. PICK loaded \in {FALSE} \cup {"config" \in changed} : Reload(loaded)
    BY <1>4 DEF Wake
  <2>2. Alive /\ edits' = edits
    BY <1>4 DEF Wake, Alive, budget
  <2>3. CASE mem' = mem /\ file' = file
    BY <1>q, <2>2, <2>3
  <2>4. CASE ~(mem' = mem /\ file' = file)
    <3>1. Save(Main) /\ changed # {}
      BY <2>1, <2>4 DEF Reload
    <3>2. ~DiskMayFail
      BY <2>2, <3>1 DEF FileKeys
    <3>3. QED
      BY <1>s, <2>2, <3>1, <3>2
  <2>5. QED
    BY <2>3, <2>4
<1>5. CASE Boot
  BY <1>5, <1>t DEF Boot, Truncate, FileEffect
<1>6. CASE WriteDone
  BY <1>6 DEF WriteDone, FileEffect
<1>7. CASE WriteFail
  BY <1>7, <1>q DEF WriteFail, Alive
<1>8. CASE Tick \/ EditConfig \/ (\E b \in Bins : TouchBin(b)) \/ UNCHANGED vars
  BY <1>8, <1>q DEF Tick, EditConfig, TouchBin, vars, Alive
<1>9. CASE Crash \/ CtrlC
  BY <1>9 DEF Crash, CtrlC, Stop, Alive
<1>10. QED
  BY <1>1, <1>2, <1>3, <1>4, <1>5, <1>6, <1>7, <1>8, <1>9 DEF Next, MainStep, Environment

\* Edits are counted, and files change only by edits.
LEMMA EditsStep == ASSUME TypeOK, TypeOK', FileKeys, [Next]_vars
                   PROVE  (edits' = 0 => changed' = {}) /\ (edits' = 0 => edits = 0)
<1>1. edits \in Nat /\ edits' \in Nat
  BY ConstantsAssumption DEF TypeOK
<1>2. ASSUME NEW id \in Ids, TaskStep(id) PROVE edits' = edits /\ changed' = changed
  BY <1>2, TaskEffects
<1>3. CASE Start \/ RoundStart \/ Collect \/ (\E id \in Ids : Spawn(id)) \/ Join
  BY <1>3 DEF Start, RoundStart, Collect, Spawn, Join, FileKeys, config, budget
<1>4. CASE Wake
  <2>1. changed' \subseteq changed /\ edits' = edits
    BY <1>4 DEF Wake, Reload, budget
  <2>2. QED
    BY <2>1 DEF FileKeys
<1>5. CASE Boot \/ WriteDone \/ WriteFail
  BY <1>5 DEF Boot, WriteDone, WriteFail, FileKeys, config, budget
<1>6. CASE EditConfig \/ \E b \in Bins : TouchBin(b)
  BY <1>1, <1>6 DEF EditConfig, TouchBin
<1>7. CASE Tick \/ Crash \/ CtrlC \/ UNCHANGED vars
  BY <1>7 DEF Tick, Crash, CtrlC, Stop, vars, FileKeys, config, budget
<1>8. QED
  BY <1>2, <1>3, <1>4, <1>5, <1>6, <1>7 DEF Next, MainStep, Environment, FileKeys

\* The file keeps no entry that memory drops.
LEMMA FileKeysStep == TypeOK /\ TypeOK' /\ TasksBelongToRound /\ FileKeys /\ [Next]_vars => FileKeys'
<1> SUFFICES ASSUME TypeOK, TypeOK', TasksBelongToRound, FileKeys, [Next]_vars PROVE FileKeys'
  OBVIOUS
<1>1. SUFFICES ASSUME Alive', DiskMayFail => edits' = 0 PROVE file'.app.keys \subseteq mem'.keys
  BY EditsStep DEF FileKeys
<1>2. Alive /\ file' = file => file.app.keys \subseteq mem.keys
  BY <1>1, EditsStep DEF FileKeys
<1>3. ASSUME NEW id \in Ids, TaskStep(id) PROVE file'.app.keys \subseteq mem'.keys
  <2>1. Alive /\ (file' = file \/ file' = Torn) /\ mem.keys \subseteq mem'.keys /\ Torn.app.keys = {}
    BY <1>3, TasksAreAlive, TaskEffects DEF EntryEffect, Alive, Torn, EmptyApp
  <2>2. QED
    BY <1>2, <2>1
<1>4. ASSUME ~ \E id \in Ids : TaskStep(id) PROVE file'.app.keys \subseteq mem'.keys
  BY <1>1, <1>2, <1>4, FileEffects DEF FileEffect
<1>5. QED
  BY <1>3, <1>4

\* A copy is written back together with a truncation of the file, unless the disk fails.
LEMMA WriteBackSaves == ASSUME TypeOK, NEW id \in Ids, TaskStep(id), At(id, "dailysave"), ~DiskMayFail
                        PROVE  file' = Torn
BY SaveFacts DEF TaskStep, Acquire, SelectRoleToken, Login, RefreshPeriodic, DailyBegin, DailyRun,
     DailySave, WeeklyRun, WeeklySave, PeriodicBegin, PeriodicRun, CarCheck, ClaimCars, PeriodicSave,
     Disconnect, At

\* The file does not get ahead of memory.
LEMMA FileStep ==
    TypeOK /\ TypeOK' /\ TasksBelongToRound /\ Dated /\ CopiesAhead /\ FileKeys /\ FileNotAhead
        /\ [Next]_vars => FileNotAhead'
<1> SUFFICES ASSUME TypeOK, TypeOK', TasksBelongToRound, Dated, CopiesAhead, FileKeys, FileNotAhead,
                    [Next]_vars, Alive', DiskMayFail => Exclusive /\ edits' = 0,
                    NEW r \in file'.app.keys \cap mem'.keys, file'.app.st[r].date = day'
             PROVE  mem'.st[r].date = day' /\ file'.app.st[r].done \subseteq mem'.st[r].done
  BY DEF FileNotAhead, Exclusive
<1>t. r \in Roles /\ mem.st[r] \in RoleState /\ file.app.st[r] \in RoleState /\ day \in Nat
      /\ Torn.app.keys = {} /\ mem'.st[r] \in RoleState
  BY ConstantsAssumption DEF TypeOK, App, Torn, EmptyApp
<1>1. ASSUME Alive, file' = file, day' = day
      PROVE  r \in mem.keys /\ mem.st[r].date = day /\ file.app.st[r].done \subseteq mem.st[r].done
  <2>1. r \in mem.keys
    BY <1>1, EditsStep DEF FileKeys
  <2>2. QED
    BY <1>1, <2>1, EditsStep DEF FileNotAhead
<1>2. ASSUME NEW id \in Ids, TaskStep(id)
      PROVE  mem'.st[r].date = day' /\ file'.app.st[r].done \subseteq mem'.st[r].done
  <2>1. /\ Alive /\ day' = day /\ EntryEffect(id) /\ file' = file
        /\ (At(id, "dailysave") => DiskMayFail)
    BY <1>t, <1>2, TasksAreAlive, TaskEffects, WriteBackSaves DEF Alive
  <2>2. mem.st[r].date = day /\ file.app.st[r].done \subseteq mem.st[r].done
    BY <1>1, <2>1
  <2>3. CASE r = id[1] /\ At(id, "dailysave")
    <3>1. Copying(id) /\ Exclusive /\ task[id].date \in Int
      BY <2>1, <2>3 DEF Copying, At, TypeOK, TaskState
    <3>2. mem.st[r].date <= task[id].date /\ task[id].date <= day
          /\ (mem.st[r].date = task[id].date => mem.st[r].done \subseteq task[id].done)
      BY <2>3, <3>1 DEF CopiesAhead, Dated
    <3>3. task[id].date = day
      BY <1>t, <2>2, <3>1, <3>2
    <3>4. QED
      BY <2>1, <2>2, <2>3, <3>2, <3>3 DEF EntryEffect
  <2>4. CASE ~(r = id[1] /\ At(id, "dailysave"))
    BY <1>t, <2>1, <2>2, <2>4 DEF EntryEffect
  <2>5. QED
    BY <2>3, <2>4
<1>3. ASSUME ~ \E id \in Ids : TaskStep(id)
      PROVE  mem'.st[r].date = day' /\ file'.app.st[r].done \subseteq mem'.st[r].done
  <2>1. FileEffect /\ OtherEffect
    BY <1>3, FileEffects, OtherEffects
  <2>2. CASE file'.app = mem'
    BY <2>2
  <2>3. CASE /\ Alive /\ file' = file /\ mem'.keys = mem.keys
             /\ \A q \in mem.keys : mem'.st[q] \in {mem.st[q], Normalised(mem.st[q], day)}
    <3>1. day' = day
      BY <1>t, <2>1, <2>3 DEF OtherEffect, Dated, RoleState
    <3>2. QED
      BY <1>1, <1>t, <2>3, <3>1, RolledOver
  <2>4. QED
    BY <2>1, <2>2, <2>3 DEF FileEffect
<1>4. QED
  BY <1>2, <1>3

\* Entries with the same fields are equal.
LEMMA SameEntry == ASSUME NEW a \in RoleState, NEW b \in RoleState,
                          a.date = b.date, a.done = b.done, a.periodic = b.periodic,
                          a.week = b.week, a.study = b.study
                   PROVE  a = b
BY DEF RoleState

\* Rolling over twice on one day is rolling over once.
LEMMA RolledTwice == ASSUME NEW rs \in RoleState, NEW d \in Nat
                     PROVE  Normalised(Normalised(rs, d), d) = Normalised(rs, d)
<1> DEFINE q == Normalised(rs, d)  p == Normalised(q, d)
<1>1. q \in RoleState /\ p \in RoleState
  BY NormalisedType
<1>2. /\ q.date = d /\ q.week = Week(d)
      /\ p.date = d /\ p.done = (IF q.date = d THEN q.done ELSE {}) /\ p.week = Week(d)
      /\ p.study = (q.study /\ q.week = Week(d)) /\ p.periodic = q.periodic
  BY <1>1, RolledOver
<1> HIDE DEF q, p
<1>3. p.study = q.study
  BY <1>1, <1>2 DEF RoleState
<1>4. p = q
  BY <1>1, <1>2, <1>3, SameEntry
<1>5. QED
  BY <1>4 DEF q, p

\* Entries that agree today agree tomorrow.
LEMMA RolledNextDay == ASSUME NEW a \in RoleState, NEW b \in RoleState, NEW d \in Nat,
                              a.date <= d, b.date <= d, a.week <= Week(d), b.week <= Week(d),
                              Normalised(a, d) = Normalised(b, d)
                       PROVE  Normalised(a, d + 1) = Normalised(b, d + 1)
<1> DEFINE p == Normalised(a, d + 1)  q == Normalised(b, d + 1)
<1>1. p \in RoleState /\ q \in RoleState
  BY NormalisedType
<1>2. Week(d) \in Nat /\ Week(d + 1) \in Nat /\ Week(d) <= Week(d + 1) /\ d + 1 \in Nat
  BY WeekFacts
<1>3. a.periodic = b.periodic /\ (a.study /\ a.week = Week(d)) = (b.study /\ b.week = Week(d))
  BY RolledOver
<1>4. a.date # d + 1 /\ b.date # d + 1 /\ a.week \in Int /\ b.week \in Int
  BY DEF RoleState
<1>5. (a.study /\ a.week = Week(d + 1)) = (b.study /\ b.week = Week(d + 1))
  <2>1. CASE Week(d + 1) = Week(d)
    BY <1>3, <2>1
  <2>2. CASE Week(d + 1) # Week(d)
    BY <1>2, <1>4, <2>2
  <2>3. QED
    BY <2>1, <2>2
<1>6. /\ p.date = d + 1 /\ p.done = {} /\ p.week = Week(d + 1) /\ p.periodic = a.periodic
      /\ p.study = (a.study /\ a.week = Week(d + 1))
      /\ q.date = d + 1 /\ q.done = {} /\ q.week = Week(d + 1) /\ q.periodic = b.periodic
      /\ q.study = (b.study /\ b.week = Week(d + 1))
  BY <1>2, <1>4, RolledOver
<1> HIDE DEF p, q
<1>7. p = q
  BY <1>1, <1>3, <1>5, <1>6, SameEntry
<1>8. QED
  BY <1>7 DEF p, q

Agreed == /\ file.readable /\ file.app.keys = mem.keys
          /\ \A r \in Roles : Normalised(file.app.st[r], day) = Normalised(mem.st[r], day)

\* Between rounds every step keeps the file and memory in agreement or is a save.
LEMMA DurableStep == TypeOK /\ TasksBelongToRound /\ Dated /\ Durable /\ [Next]_vars => Durable'
<1> SUFFICES ASSUME TypeOK, TasksBelongToRound, Dated, Durable, [Next]_vars,
                    writer' = NoOne, ~DiskMayFail, sched' \in {"booting", "round", "collect", "sleeping"}
             PROVE  Agreed'
  BY DEF Durable, Agreed
<1>t. /\ day \in Nat /\ mem \in App /\ file.app \in App
      /\ \A r \in Roles : mem.st[r] \in RoleState /\ file.app.st[r] \in RoleState
  BY ConstantsAssumption DEF TypeOK, App
<1>s. ASSUME NEW a, Save(a), a # NoOne PROVE FALSE
  BY <1>s, SaveFacts
<1>n. Main # NoOne
  BY DEF Main, NoOne
<1>d. writer = NoOne /\ sched \in {"booting", "round", "collect", "sleeping"} => Agreed
  BY DEF Durable, Agreed
<1>q. ASSUME Agreed, UNCHANGED <<file, mem, day>> PROVE Agreed'
  BY <1>q DEF Agreed
<1>1. ASSUME NEW id \in Ids, TaskStep(id) PROVE FALSE
  BY <1>1, TasksAreAlive, TaskEffects
<1>2. CASE Start
  BY <1>2, <1>d, <1>q DEF Start, clock
<1>3. CASE RoundStart
  <2>1. UNCHANGED <<file, mem, day>> /\ writer = NoOne /\ sched = "round"
    BY <1>3, <1>n, <1>s DEF RoundStart, clock
  <2>2. QED
    BY <1>d, <1>q, <2>1
<1>4. CASE Collect
  <2>1. /\ mem' = [mem EXCEPT !.st = [r \in Roles |->
              IF r \in mem.keys THEN Normalised(mem.st[r], day) ELSE mem.st[r]]]
        /\ UNCHANGED <<file, day>> /\ Agreed
    BY <1>4, <1>d DEF Collect, clock
  <2>2. mem'.keys = mem.keys /\ \A r \in Roles : mem'.st[r] \in {mem.st[r], Normalised(mem.st[r], day)}
    BY <1>t, <2>1 DEF App
  <2>3. \A r \in Roles : Normalised(mem'.st[r], day) = Normalised(mem.st[r], day)
    BY <1>t, <2>2, RolledTwice
  <2>4. QED
    BY <2>1, <2>2, <2>3 DEF Agreed
<1>5. CASE (\E id \in Ids : Spawn(id)) \/ Join \/ Boot
  BY <1>5, <1>n, <1>s DEF Spawn, Join, Boot, Truncate
<1>6. CASE Wake
  <2>1. PICK loaded \in {FALSE} \cup {"config" \in changed} : Reload(loaded)
    BY <1>6 DEF Wake
  <2>2. UNCHANGED <<file, mem>>
    BY <1>n, <1>s, <2>1 DEF Reload
  <2>3. QED
    BY <1>6, <1>d, <1>q, <2>2 DEF Wake, clock
<1>7. CASE WriteDone
  BY <1>7 DEF WriteDone, Agreed
<1>8. CASE WriteFail
  BY <1>8 DEF WriteFail
<1>9. CASE Tick
  <2>1. UNCHANGED <<file, mem>> /\ Agreed /\ day' \in {day, day + 1}
    BY <1>9, <1>d DEF Tick
  <2>2. CASE day' = day
    BY <1>q, <2>1, <2>2
  <2>3. CASE day' = day + 1
    <3>1. \A r \in Roles : Normalised(file.app.st[r], day + 1) = Normalised(mem.st[r], day + 1)
      BY <1>t, <2>1, RolledNextDay DEF Agreed, Dated
    <3>2. QED
      BY <2>1, <2>3, <3>1 DEF Agreed
  <2>4. QED
    BY <2>1, <2>2, <2>3
<1>10. CASE EditConfig \/ (\E b \in Bins : TouchBin(b)) \/ UNCHANGED vars
  BY <1>10, <1>d, <1>q DEF EditConfig, TouchBin, vars, clock
<1>11. CASE Crash \/ CtrlC
  BY <1>11 DEF Crash, CtrlC, Stop
<1>12. QED
  BY <1>1, <1>2, <1>3, <1>4, <1>5, <1>6, <1>7, <1>8, <1>9, <1>10, <1>11
     DEF Next, MainStep, Environment

-----------------------------------------------------------------------------
(* The theorems about the state and its file.                              *)

\* The inductive invariant of the state.
StateInv ==
    /\ TypeOK /\ TasksBelongToRound /\ PermitConservation /\ Dated
    /\ MarksAreEarned /\ CopiesEarned /\ CopiesAhead /\ ClaimsFollow
    /\ FileKeys /\ FileNotAhead /\ Durable /\ DownEmpty

\* It holds when the process has never run.
LEMMA StateInit == Init /\ TypeOK /\ TasksBelongToRound /\ PermitConservation => StateInv
<1> SUFFICES ASSUME Init, TypeOK, TasksBelongToRound, PermitConservation PROVE StateInv
  OBVIOUS
<1>t. /\ \A r \in Roles : EmptyApp.st[r] = NewRole
      /\ NewRole.date = -1 /\ NewRole.week = -1 /\ NewRole.done = {}
      /\ \A id \in Ids : task[id] = NoTask
      /\ NoTask.pc = "none" /\ NoTask.status = {}
      /\ mem = EmptyApp /\ file.app = EmptyApp /\ day = 0 /\ sched = "down"
      /\ edits = 0 /\ changed = {}
  BY DEF Init, EmptyApp, NewRole, NoTask, Never
<1>1. Week(0) \in Nat
  BY WeekFacts
<1>2. Dated
  BY <1>1, <1>t DEF Dated, Copying
<1>3. MarksAreEarned /\ CopiesEarned /\ CopiesAhead /\ ClaimsFollow
  BY <1>t DEF MarksAreEarned, CopiesEarned, CopiesAhead, ClaimsFollow, Copying, At
<1>4. FileKeys /\ FileNotAhead /\ Durable /\ DownEmpty
  BY <1>t DEF FileKeys, FileNotAhead, Durable, DownEmpty, Alive
<1>5. QED
  BY <1>2, <1>3, <1>4 DEF StateInv

\* Every step keeps it.
LEMMA StateStep == StateInv /\ [Next]_vars => StateInv'
BY TypeStep, RoundStep, PermitStep, DatedStep, EarnedStep, AheadStep, ClaimsStep, FileKeysStep,
   FileStep, DurableStep, DownStep DEF StateInv

\* It holds in every reachable state.
THEOREM StateInvariant == Spec => []StateInv
<1>1. Init /\ TypeOK /\ TasksBelongToRound /\ PermitConservation => StateInv
  BY StateInit
<1>2. StateInv /\ [Next]_vars => StateInv'
  BY StateStep
<1>3. QED
  BY <1>1, <1>2, TypeCorrect, RoundsContainTasks, PermitsConserved, PTL DEF Spec

\* A mark of today that follows an answer was settled on the server today, in memory and in
\* state.json.
THEOREM MarksAlwaysEarned == Spec => []MarksAreEarned
<1>1. StateInv => MarksAreEarned
  BY DEF StateInv
<1>2. QED
  BY <1>1, StateInvariant, PTL

\* Cars are never reported claimed on a day whose dispatch is not recorded.
THEOREM ClaimsFollowSends == Spec => []ClaimFollowsSend
<1>1. StateInv => ClaimFollowsSend
  BY DEF StateInv, ClaimsFollow, ClaimFollowsSend
<1>2. QED
  BY <1>1, StateInvariant, PTL

\* state.json never holds a mark of today that the running process lacks.
THEOREM FileNeverAhead == Spec => []FileNotAhead
<1>1. StateInv => FileNotAhead
  BY DEF StateInv
<1>2. QED
  BY <1>1, StateInvariant, PTL

\* A restart between rounds finds in state.json what memory holds.
THEOREM IdleStateDurable == Spec => []IdleDurable
<1>1. StateInv => IdleDurable
  BY DEF StateInv, Durable, IdleDurable
<1>2. QED
  BY <1>1, StateInvariant, PTL

\* No step of the running process takes a mark of the same day from an entry that stays.
THEOREM ProgressAlwaysKept == Spec => ProgressKept
<1>1. StateInv /\ [Next]_vars =>
        [Exclusive =>
          \A r \in mem.keys \cap mem'.keys :
             /\ mem.st[r].date <= mem'.st[r].date
             /\ mem.st[r].date = mem'.st[r].date => mem.st[r].done \subseteq mem'.st[r].done]_vars
  BY ProgressStep DEF StateInv
<1>2. QED
  BY <1>1, StateInvariant, PTL DEF Spec, ProgressKept
=============================================================================
