--------------------------- MODULE BatchScheduler ---------------------------
(***************************************************************************)
(* koc_batch: the resident scheduler (scheduler.rs), the state it shares   *)
(* between role tasks and keeps in state.json (state.rs), the reload of    *)
(* its configuration (ConfigWatcher in config.rs) and its exit             *)
(* (koc_batch.rs).                                                         *)
(*                                                                         *)
(* The main loop starts a round, plans the roles that need work, spawns    *)
(* one task per plan behind a semaphore, joins them, flushes the state and *)
(* sleeps.  Every block of the code that runs under the state's lock is    *)
(* one action; whatever another task, the clock, the operator or a crash   *)
(* may do between two of them is interleaved.  A save is two steps, since  *)
(* fs::write truncates the file before it fills it.                        *)
(***************************************************************************)
EXTENDS Integers, FiniteSets

CONSTANTS
    Roles,         \* normalised role keys "bin_path:serverId"
    Bins,          \* bin files
    BinOf,         \* the bin each role is listed in
    Copies,        \* 1..n: how often one bin may be listed in config.yaml
    Configs,       \* possible contents of config.yaml: [Bins -> Nat]
    Concurrency,   \* config.concurrency
    Flags,         \* completion flags of RoleDailyState a daily run may set
    CoreFlags,     \* the flags all_done() looks at
    StatusFlags,   \* the flags also set from the role info read at login
    BlindFlags,    \* the flags set whatever the command answered
    CarSent,       \* car_send_done
    CarClaimed,    \* car_claimed_today, which the periodic phase sets
    CarWindow,     \* <<weekday, slot>> pairs in which cars may be sent
    DaysPerWeek, Slots, ScheduleSlot, FridaySlot, Friday, WeeklyDay,
    StudyEnabled, Maintenance,
    DiskMayFail,   \* may fs::write return an error
    MaxDay,        \* bound: last day of the clock
    MaxStops,      \* bound: crashes and Ctrl+C
    MaxEdits       \* bound: changes of config.yaml and of bin files

ASSUME ConstantsAssumption ==
    /\ IsFiniteSet(Roles) /\ IsFiniteSet(Copies)
    /\ BinOf \in [Roles -> Bins]
    /\ "config" \notin Bins
    /\ Copies \subseteq Nat \ {0}
    /\ Configs \subseteq [Bins -> Copies \cup {0}]
    /\ Concurrency \in Nat
    /\ CoreFlags \cup StatusFlags \cup BlindFlags \subseteq Flags
    /\ CarClaimed \notin Flags
    /\ DaysPerWeek \in Nat \ {0}
    /\ Slots \in Nat \ {0}
    /\ {ScheduleSlot, FridaySlot} \subseteq Nat
    /\ StudyEnabled \in BOOLEAN /\ DiskMayFail \in BOOLEAN
    /\ Maintenance \subseteq [weekday : Nat, start : Nat, end : Nat]
    /\ {MaxDay, MaxStops, MaxEdits} \subseteq Nat

VARIABLES
    day, slot,     \* Local::now(): the day and the time of day
    mem,           \* AppState behind the RwLock
    file,          \* state.json: readable or torn, and what load() returns
    writer,        \* who is inside fs::write, holding the lock
    cfgFile,       \* config.yaml
    cfg,           \* ConfigWatcher.current
    changed,       \* files whose mtime differs from the one last seen
    roles,         \* Scheduler.roles: how often each role is listed
    sched,         \* where the main loop is
    policy,        \* TimeWindowPolicy of this round, and force_all
    permits,       \* free permits of the round's semaphore
    task,          \* the spawned role tasks
    server,        \* flags the game server has completed today, per role
    refused,       \* history: flags it refused today because they cannot be done
    studied,       \* week of the last quiz completed on the server, per role
    stops, edits   \* bounded counters of the environment

vars == <<day, slot, mem, file, writer, cfgFile, cfg, changed, roles, sched,
          policy, permits, task, server, refused, studied, stops, edits>>

clock == <<day, slot>>
config == <<cfgFile, cfg, changed, roles>>
game == <<server, refused, studied>>
budget == <<stops, edits>>

-----------------------------------------------------------------------------
(* Time windows.                                                           *)

Weekday(d) == d % DaysPerWeek
Week(d) == d \div DaysPerWeek

effective_daily_start(d) ==
    IF Weekday(d) = Friday THEN FridaySlot ELSE ScheduleSlot

daily_time_reached_at(d, s) == s >= effective_daily_start(d)

maintenance_hit(d, s) ==
    \E w \in Maintenance : w.weekday = Weekday(d) /\ w.start <= s /\ s < w.end

is_car_send_window(d, s) == <<Weekday(d), s>> \in CarWindow

-----------------------------------------------------------------------------
(* AppState.  A role without an entry behaves exactly like a new entry, so *)
(* st is total and keys says which entries exist.                          *)

Never == -1
Timer == {"due", "later"}
Ids == Roles \X Copies
NoOne == <<>>
Main == <<"main">>

NewRole == [date |-> Never, done |-> {}, periodic |-> "due",
            week |-> Never, study |-> FALSE]
EmptyApp == [round_date |-> Never, keys |-> {}, st |-> [r \in Roles |-> NewRole]]
Torn == [readable |-> FALSE, app |-> EmptyApp]

Marks == Flags \cup {CarClaimed}
RoleState == [date : Int, done : SUBSET Marks, periodic : Timer,
              week : Int, study : BOOLEAN]
App == [round_date : Int, keys : SUBSET Roles, st : [Roles -> RoleState]]

all_done(rs) == CoreFlags \subseteq rs.done

\* Faulty: forgets to clear the flags of yesterday
KeepFlags(rs, d) == [rs EXCEPT !.date = d]

ensure_today(rs, d) ==
    IF rs.date = d THEN rs ELSE [rs EXCEPT !.date = d, !.done = {}]

ensure_this_week(rs, d) ==
    IF rs.week = Week(d) THEN rs
    ELSE [rs EXCEPT !.week = Week(d), !.study = FALSE]

Normalised(rs, d) == ensure_this_week(ensure_today(rs, d), d)

\* get_or_create, then an update of the entry
Put(app, r, rs) == [app EXCEPT !.keys = @ \cup {r}, !.st[r] = rs]

Listed(list) == {r \in Roles : list[r] > 0}

sync_with_roles(app, keys) ==
    [app EXCEPT !.keys = keys,
                !.st = [r \in Roles |-> IF r \in keys THEN app.st[r] ELSE NewRole]]

\* fs::write by actor a opens and truncates the file; WriteDone fills it
Truncate(a) == writer' = a /\ file' = Torn

\* save() whose result is ignored: the file may also fail to open
Save(a) == Truncate(a) \/ (DiskMayFail /\ UNCHANGED <<file, writer>>)

-----------------------------------------------------------------------------
(* Role tasks.                                                             *)

NoTask == [pc |-> "none", daily |-> FALSE, weekly |-> FALSE, periodic |-> FALSE,
           status |-> {}, studied |-> Never, date |-> Never, done |-> {},
           timer |-> "due"]

Holding == {"token", "login", "refresh", "daily", "dailyrun", "dailysave",
            "weekly", "weeklysave", "periodic", "periodicrun", "carcheck",
            "carclaim", "periodicsave", "disconnect"}
Pcs == {"none", "planned", "waiting", "finished"} \cup Holding

TaskState == [pc : Pcs, daily : BOOLEAN, weekly : BOOLEAN, periodic : BOOLEAN,
              status : SUBSET Flags, studied : Int, date : Int,
              done : SUBSET Marks, timer : Timer]

AfterWeekly(t) == IF t.periodic THEN "periodic" ELSE "disconnect"
AfterDaily(t) == IF t.weekly THEN "weekly" ELSE AfterWeekly(t)
AfterRefresh(t) == IF t.daily THEN "daily" ELSE AfterDaily(t)

At(id, pc) == task[id].pc = pc
Goto(id, pc) == task' = [task EXCEPT ![id].pc = pc]

\* Faulty: the permit is forgotten
FinishKeepingPermit(id) ==
    /\ task' = [task EXCEPT ![id] = [NoTask EXCEPT !.pc = "finished"]]
    /\ UNCHANGED permits

\* the task ends and its permit is dropped
Finish(id) ==
    /\ task' = [task EXCEPT ![id] = [NoTask EXCEPT !.pc = "finished"]]
    /\ permits' = permits + 1

Idle == \A id \in Ids : At(id, "none")

-----------------------------------------------------------------------------
(* RoleRunner::run_one and the closure that acquires its permit.           *)

\* Variables no role task changes
TaskFrame == UNCHANGED <<clock, config, sched, policy, budget>>

\* Faulty: runs without waiting for a permit
AcquireUnbounded(id) ==
    /\ At(id, "waiting")
    /\ permits' = permits - 1
    /\ Goto(id, "token")
    /\ UNCHANGED <<mem, file, writer, game>> /\ TaskFrame

Acquire(id) ==
    /\ At(id, "waiting")
    /\ permits > 0
    /\ permits' = permits - 1
    /\ Goto(id, "token")
    /\ UNCHANGED <<mem, file, writer, game>> /\ TaskFrame

SelectRoleToken(id) ==
    /\ At(id, "token")
    /\ \/ Goto(id, "login") /\ UNCHANGED permits
       \/ Finish(id)
    /\ UNCHANGED <<mem, file, writer, game>> /\ TaskFrame

\* Faulty: a failed login is retried for ever within the task
LoginForever(id) ==
    /\ At(id, "login")
    /\ Goto(id, "refresh") \/ Goto(id, "token")
    /\ UNCHANGED <<mem, file, writer, permits, game>> /\ TaskFrame

\* A successful login carries the role info: the server's view at this moment
Login(id) ==
    /\ At(id, "login")
    /\ \/ /\ task' = [task EXCEPT ![id].pc = "refresh",
                                  ![id].status = server[id[1]] \cap StatusFlags,
                                  ![id].studied = studied[id[1]]]
          /\ UNCHANGED permits
       \/ Finish(id)
    /\ UNCHANGED <<mem, file, writer, game>> /\ TaskFrame

\* update_periodic_state after login: in memory, not saved
RefreshPeriodic(id) ==
    /\ At(id, "refresh")
    /\ writer = NoOne
    /\ \E t \in Timer :
          mem' = Put(mem, id[1], [mem.st[id[1]] EXCEPT !.periodic = t])
    /\ Goto(id, AfterRefresh(task[id]))
    /\ UNCHANGED <<file, writer, permits, game>> /\ TaskFrame

\* Clone the daily state, roll it over to today, take over the login's status
DailyBegin(id) ==
    /\ At(id, "daily")
    /\ writer = NoOne
    /\ LET rs == ensure_today(mem.st[id[1]], day) IN
       task' = [task EXCEPT ![id].pc = "dailyrun", ![id].date = rs.date,
                            ![id].done = rs.done \cup task[id].status]
    /\ UNCHANGED <<mem, file, writer, permits, game>> /\ TaskFrame

\* What run_daily_tasks_stateful still has to do
Todo(id) ==
    Flags \ (task[id].done \cup (IF is_car_send_window(day, slot) THEN {} ELSE {CarSent}))

\* The server executes some of the commands.  Some come back with a done result: a
\* success, or the refusal of what was done already or cannot be done; the answers to the
\* others are lost, or other errors.
DailyRun(id) ==
    /\ At(id, "dailyrun")
    /\ \E executed \in SUBSET Todo(id) : \E answered \in SUBSET Todo(id) :
          /\ server' = [server EXCEPT ![id[1]] = @ \cup executed]
          /\ refused' = [refused EXCEPT ![id[1]] = @ \cup (answered \ server'[id[1]])]
          /\ task' = [task EXCEPT ![id].pc = "dailysave",
                         ![id].done = @ \cup answered \cup (Todo(id) \cap BlindFlags)]
    /\ UNCHANGED <<mem, file, writer, permits, studied>> /\ TaskFrame

\* Refresh the role info if the server answers, write the flags back, save
DailySave(id) ==
    /\ At(id, "dailysave")
    /\ writer = NoOne
    /\ LET r == id[1]
           rs == [mem.st[r] EXCEPT !.date = task[id].date, !.done = task[id].done]
       IN \/ /\ mem' = Put(mem, r, rs)
             /\ Goto(id, AfterDaily(task[id]))
          \/ /\ \E t \in Timer : mem' = Put(mem, r, [rs EXCEPT !.periodic = t])
             /\ task' = [task EXCEPT ![id].pc = AfterDaily(task[id]),
                                     ![id].studied = studied[r]]
    /\ Save(id)
    /\ UNCHANGED <<permits, game>> /\ TaskFrame

\* run_study unless the role info says this week's quiz is complete; its
\* result is ignored
WeeklyRun(id) ==
    /\ At(id, "weekly")
    /\ writer # id
    /\ \/ UNCHANGED studied
       \/ /\ task[id].studied # Week(day)
          /\ studied' = [studied EXCEPT ![id[1]] = Week(day)]
    /\ Goto(id, "weeklysave")
    /\ UNCHANGED <<mem, file, writer, permits, server, refused>> /\ TaskFrame

WeeklySave(id) ==
    /\ At(id, "weeklysave")
    /\ writer = NoOne
    /\ mem' = Put(mem, id[1], [mem.st[id[1]] EXCEPT !.study = TRUE])
    /\ Goto(id, AfterWeekly(task[id]))
    /\ Save(id)
    /\ UNCHANGED <<permits, game>> /\ TaskFrame

PeriodicBegin(id) ==
    /\ At(id, "periodic")
    /\ writer = NoOne
    /\ task' = [task EXCEPT ![id].pc = "periodicrun",
                            ![id].timer = mem.st[id[1]].periodic]
    /\ UNCHANGED <<mem, file, writer, permits, game>> /\ TaskFrame

PeriodicRun(id) ==
    /\ At(id, "periodicrun")
    /\ \E t \in Timer :
          task' = [task EXCEPT ![id].pc = "carcheck", ![id].timer = t]
    /\ UNCHANGED <<mem, file, writer, permits, game>> /\ TaskFrame

\* Faulty: claims whether or not cars were sent
CarCheckAlways(id) ==
    /\ At(id, "carcheck")
    /\ writer = NoOne
    /\ Goto(id, "periodicsave") \/ Goto(id, "carclaim")
    /\ UNCHANGED <<mem, file, writer, permits, game>> /\ TaskFrame

\* can_claim: cars were sent today, not yet claimed, and their time has come
CarCheck(id) ==
    /\ At(id, "carcheck")
    /\ writer = NoOne
    /\ \/ Goto(id, "periodicsave")
       \/ /\ slot >= ScheduleSlot
          /\ CarSent \in mem.st[id[1]].done
          /\ CarClaimed \notin mem.st[id[1]].done
          /\ Goto(id, "carclaim")
    /\ UNCHANGED <<mem, file, writer, permits, game>> /\ TaskFrame

ClaimCars(id) ==
    /\ At(id, "carclaim")
    /\ writer = NoOne
    /\ mem' = Put(mem, id[1], [mem.st[id[1]] EXCEPT !.done = @ \cup {CarClaimed}])
    /\ Goto(id, "periodicsave")
    /\ Save(id)
    /\ UNCHANGED <<permits, game>> /\ TaskFrame

\* Faulty: replaces the whole entry instead of its periodic part
PeriodicSaveEntry(id) ==
    /\ At(id, "periodicsave")
    /\ writer = NoOne
    /\ mem' = Put(mem, id[1], [NewRole EXCEPT !.periodic = task[id].timer])
    /\ Goto(id, "disconnect")
    /\ Save(id)
    /\ UNCHANGED <<permits, game>> /\ TaskFrame

PeriodicSave(id) ==
    /\ At(id, "periodicsave")
    /\ writer = NoOne
    /\ mem' = Put(mem, id[1], [mem.st[id[1]] EXCEPT !.periodic = task[id].timer])
    /\ Goto(id, "disconnect")
    /\ Save(id)
    /\ UNCHANGED <<permits, game>> /\ TaskFrame

Disconnect(id) ==
    /\ At(id, "disconnect")
    /\ writer # id
    /\ Finish(id)
    /\ UNCHANGED <<mem, file, writer, game>> /\ TaskFrame

TaskStep(id) ==
    \/ Acquire(id) \/ SelectRoleToken(id) \/ Login(id) \/ RefreshPeriodic(id)
    \/ DailyBegin(id) \/ DailyRun(id) \/ DailySave(id)
    \/ WeeklyRun(id) \/ WeeklySave(id)
    \/ PeriodicBegin(id) \/ PeriodicRun(id) \/ CarCheck(id) \/ ClaimCars(id)
    \/ PeriodicSave(id) \/ Disconnect(id)

-----------------------------------------------------------------------------
(* scan_roles: a bin copy whose server list cannot be fetched is skipped.  *)
(* got says how many copies of each bin were scanned.                      *)

Scanned(got) == [r \in Roles |-> got[BinOf[r]]]

\* the outcomes of scanning configuration c
Scans(c) == {got \in [Bins -> Copies \cup {0}] : \A b \in Bins : got[b] <= c[b]}

BinsOf(c) == {b \in Bins : c[b] > 0}

-----------------------------------------------------------------------------
(* Scheduler::init, run and execute_round.                                 *)

\* init: load, scan, sync, save; an unreadable bin (an Err of scan_roles)
\* ends the process and leaves everything as it was
Boot ==
    /\ sched \in {"down", "exited"}
    /\ \E got \in Scans(cfgFile) :
          /\ roles' = Scanned(got)
          /\ mem' = sync_with_roles(file.app, Listed(Scanned(got)))
    /\ cfg' = cfgFile
    /\ changed' = {}
    /\ Truncate(Main)
    /\ sched' = "booting"
    /\ policy' = [policy EXCEPT !.force = TRUE]
    /\ UNCHANGED <<clock, cfgFile, permits, task, game, budget>>

\* init returns and run() begins
Start ==
    /\ sched = "booting"
    /\ writer = NoOne
    /\ sched' = "round"
    /\ UNCHANGED <<clock, mem, file, writer, config, policy, permits, task, game, budget>>

\* The policy is fixed here, by one reading of the clock
RoundStart ==
    /\ sched = "round"
    /\ writer = NoOne
    /\ policy' = [policy EXCEPT !.reached = daily_time_reached_at(day, slot),
                                !.weekly = Weekday(day) = WeeklyDay,
                                !.force = @ /\ ~maintenance_hit(day, slot)]
    /\ \/ /\ mem.round_date = day
          /\ UNCHANGED <<mem, file, writer>>
       \/ /\ mem.round_date # day
          /\ mem' = [mem EXCEPT !.round_date = day]
          /\ Save(Main)
    /\ sched' = IF maintenance_hit(day, slot) THEN "sleeping" ELSE "collect"
    /\ UNCHANGED <<clock, config, permits, task, game, budget>>

\* Faulty: one completed flag is taken for all of them
PlanUntouched(rs, fired) ==
    [NoTask EXCEPT !.pc = "planned", !.daily = policy.reached /\ rs.done = {},
                   !.periodic = fired \/ rs.periodic = "due"]

\* The plan of a role with state rs; fired says a periodic timer has expired
Plan(rs, fired) ==
    LET reached == policy.reached
        weekly == StudyEnabled /\ policy.weekly /\ reached
    IN IF policy.force
       THEN [NoTask EXCEPT !.pc = "planned", !.daily = reached,
                           !.weekly = weekly, !.periodic = TRUE]
       ELSE [NoTask EXCEPT !.pc = "planned",
                !.daily = reached /\ (\/ ~all_done(rs)
                                      \/ is_car_send_window(day, slot) /\ CarSent \notin rs.done),
                !.weekly = weekly /\ ~rs.study,
                !.periodic = fired \/ rs.periodic = "due"]

\* PendingPlanner::collect, and the semaphore of the round
Collect ==
    /\ sched = "collect"
    /\ writer = NoOne
    /\ LET st == [r \in Roles |-> IF r \in mem.keys THEN Normalised(mem.st[r], day)
                                                    ELSE mem.st[r]]
       IN /\ mem' = [mem EXCEPT !.st = st]
          /\ \E fired \in SUBSET Roles :
                task' = [id \in Ids |->
                            LET p == Plan(st[id[1]], id[1] \in fired) IN
                            IF id[2] <= roles[id[1]] /\ (p.daily \/ p.weekly \/ p.periodic)
                            THEN p ELSE NoTask]
    /\ policy' = [policy EXCEPT !.force = FALSE]
    /\ permits' = Concurrency
    /\ sched' = IF \E id \in Ids : task'[id].pc = "planned" THEN "spawning" ELSE "sleeping"
    /\ UNCHANGED <<clock, file, writer, config, game, budget>>

Spawn(id) ==
    /\ sched = "spawning"
    /\ At(id, "planned")
    /\ Goto(id, "waiting")
    /\ sched' = IF \E i \in Ids \ {id} : At(i, "planned") THEN "spawning" ELSE "joining"
    /\ UNCHANGED <<clock, mem, file, writer, config, policy, permits, game, budget>>

\* Faulty: the handles are dropped and the tasks run on
JoinDetached ==
    /\ sched = "joining"
    /\ writer = NoOne
    /\ Save(Main)
    /\ sched' = "sleeping"
    /\ UNCHANGED <<clock, mem, config, policy, permits, task, game, budget>>

\* All handles joined: flush the state
Join ==
    /\ sched = "joining"
    /\ \A id \in Ids : task[id].pc \in {"none", "finished"}
    /\ writer = NoOne
    /\ task' = [id \in Ids |-> NoTask]
    /\ Save(Main)
    /\ sched' = "sleeping"
    /\ UNCHANGED <<clock, mem, config, policy, permits, game, budget>>

\* check_reload: config.yaml's mtime is consumed only when it loads, a bin's
\* at once; then scan_roles and, if it succeeds, sync and save
Reload(loaded) ==
    /\ cfg' = IF loaded THEN cfgFile ELSE cfg
    /\ changed' = changed \ (BinsOf(cfg') \cup (IF loaded THEN {"config"} ELSE {}))
    /\ IF loaded \/ changed \cap BinsOf(cfg') # {}
       THEN \E got \in Scans(cfg') :
               /\ roles' = Scanned(got)
               /\ \/ /\ got # cfg'     \* a bin could not be read: Err
                     /\ UNCHANGED <<mem, file, writer>>
                  \/ /\ mem' = sync_with_roles(mem, Listed(roles'))
                     /\ Save(Main)
       ELSE UNCHANGED <<roles, mem, file, writer>>

Wake ==
    /\ sched = "sleeping"
    /\ writer = NoOne
    /\ \E loaded \in {FALSE} \cup {"config" \in changed} : Reload(loaded)
    /\ sched' = "round"
    /\ UNCHANGED <<clock, cfgFile, policy, permits, task, game, budget>>

\* fs::write returns
WriteDone ==
    /\ writer # NoOne
    /\ file' = [readable |-> TRUE, app |-> mem]
    /\ writer' = NoOne
    /\ UNCHANGED <<clock, mem, config, sched, policy, permits, task, game, budget>>

\* fs::write fails: ignored, except by init, which ends the process
WriteFail ==
    /\ DiskMayFail
    /\ writer # NoOne
    /\ writer' = NoOne
    /\ IF sched = "booting" THEN sched' = "down" /\ mem' = EmptyApp /\ roles' = Scanned([b \in Bins |-> 0])
                            ELSE UNCHANGED <<sched, mem, roles>>
    /\ UNCHANGED <<clock, file, cfgFile, cfg, changed, policy, permits, task, game, budget>>

MainStep == Start \/ RoundStart \/ Collect \/ (\E id \in Ids : Spawn(id)) \/ Join \/ Wake

-----------------------------------------------------------------------------
(* The environment: the clock, the operator, crashes.                      *)

Tick ==
    /\ \/ slot + 1 < Slots /\ slot' = slot + 1 /\ UNCHANGED <<day, server, refused>>
       \/ /\ slot + 1 = Slots /\ day < MaxDay
          /\ slot' = 0 /\ day' = day + 1
          /\ server' = [r \in Roles |-> {}] /\ refused' = [r \in Roles |-> {}]
    /\ UNCHANGED <<mem, file, writer, config, sched, policy, permits, task, studied, budget>>

EditConfig ==
    /\ edits < MaxEdits
    /\ edits' = edits + 1
    /\ cfgFile' \in Configs
    /\ changed' = changed \cup {"config"}
    /\ UNCHANGED <<clock, mem, file, writer, cfg, roles, sched, policy, permits, task, game, stops>>

TouchBin(b) ==
    /\ edits < MaxEdits
    /\ edits' = edits + 1
    /\ changed' = changed \cup {b}
    /\ UNCHANGED <<clock, mem, file, writer, cfgFile, cfg, roles, sched, policy, permits, task, game, stops>>

\* The process is gone, with its memory and its tasks; the file stays
Stop(how) ==
    /\ stops < MaxStops
    /\ stops' = stops + 1
    /\ sched' = how
    /\ mem' = EmptyApp
    /\ writer' = NoOne
    /\ roles' = Scanned([b \in Bins |-> 0])
    /\ task' = [id \in Ids |-> NoTask]
    /\ permits' = Concurrency
    /\ UNCHANGED <<clock, file, cfgFile, cfg, changed, policy, game, edits>>

Crash == sched \notin {"down", "exited"} /\ Stop("down")

\* select! in main drops run() and the runtime drops every spawned task at
\* its next await; a running fs::write has no await and completes first
CtrlC ==
    /\ sched \notin {"down", "exited", "booting"}
    /\ writer = NoOne
    /\ Stop("exited")

Environment == Tick \/ EditConfig \/ (\E b \in Bins : TouchBin(b)) \/ Crash \/ CtrlC

-----------------------------------------------------------------------------

Init ==
    /\ day = 0 /\ slot = 0
    /\ mem = EmptyApp
    /\ file = [readable |-> TRUE, app |-> EmptyApp]
    /\ writer = NoOne
    /\ cfgFile \in Configs /\ cfg = cfgFile /\ changed = {}
    /\ roles = Scanned([b \in Bins |-> 0])
    /\ sched = "down"
    /\ policy = [reached |-> FALSE, weekly |-> FALSE, force |-> FALSE]
    /\ permits = Concurrency
    /\ task = [id \in Ids |-> NoTask]
    /\ server = [r \in Roles |-> {}] /\ refused = [r \in Roles |-> {}]
    /\ studied = [r \in Roles |-> Never]
    /\ stops = 0 /\ edits = 0

Next ==
    \/ \E id \in Ids : TaskStep(id)
    \/ MainStep \/ Boot \/ WriteDone \/ WriteFail
    \/ Environment

Spec == Init /\ [][Next]_vars

\* tokio polls every ready task; every network call of a role task is bounded
\* by a timeout; a write returns.  Nothing is assumed of the environment.
Fairness ==
    /\ WF_vars(MainStep) /\ WF_vars(Boot) /\ WF_vars(WriteDone)
    /\ \A id \in Ids : WF_vars(TaskStep(id))

FairSpec == Spec /\ Fairness

-----------------------------------------------------------------------------
(* Properties.                                                             *)

Scheds == {"down", "exited", "booting", "round", "collect", "spawning",
           "joining", "sleeping"}

\* Every variable has the type of the Rust field it stands for.
TypeOK ==
    /\ day \in 0..MaxDay /\ slot \in 0..(Slots - 1)
    /\ mem \in App
    /\ file \in [readable : BOOLEAN, app : App]
    /\ writer \in Ids \cup {NoOne, Main}
    /\ cfgFile \in Configs /\ cfg \in Configs
    /\ changed \in SUBSET (Bins \cup {"config"})
    /\ roles \in [Roles -> Copies \cup {0}]
    /\ sched \in Scheds
    /\ policy \in [reached : BOOLEAN, weekly : BOOLEAN, force : BOOLEAN]
    /\ permits \in Nat
    /\ task \in [Ids -> TaskState]
    /\ server \in [Roles -> SUBSET Flags] /\ refused \in [Roles -> SUBSET Flags]
    /\ studied \in [Roles -> Int]
    /\ stops \in 0..MaxStops /\ edits \in 0..MaxEdits

Alive == sched \notin {"down", "exited"}
Holders == {id \in Ids : task[id].pc \in Holding}

\* The semaphore neither loses nor invents a permit on any path of run_one
\* (token error, login error, normal end): the role tasks that are past
\* acquire() and the free permits always make up config.concurrency.
PermitConservation == permits + Cardinality(Holders) = Concurrency

\* A role task exists only while its round runs, and only for a role that the
\* current role list still names: rescans never overlap a running task.
TasksBelongToRound ==
    /\ sched \notin {"spawning", "joining"} => Idle
    /\ sched = "joining" => \A id \in Ids : ~At(id, "planned")
    /\ \A id \in Ids : ~At(id, "none") => id[2] <= roles[id[1]]

\* A role removed by sync_with_roles is never written back by get_or_create:
\* an entry appears only for a role that is listed at that moment.
NoOrphanResurrected ==
    [][\A r \in Roles : r \in mem'.keys \ mem.keys => roles'[r] > 0]_vars

\* What the server did today, or said today that it cannot be done.
Settled(r) == server[r] \cup refused[r]

\* A flag that follows the result of its command and is dated today was settled today:
\* the server did it, or refused it as impossible.  No mark of an earlier day is ever
\* taken for one of today, in memory or in state.json, however midnight, crashes and
\* lost answers fall between the steps of a run.
MarksAreEarned ==
    \A r \in Roles, app \in {mem, file.app} :
        app.st[r].date = day =>
            app.st[r].done \ (BlindFlags \cup StatusFlags \cup {CarClaimed})
                \subseteq Settled(r)

\* Two tasks of one role never run at the same time: every bin is listed once, or
\* the tasks of a round run one after the other.  Otherwise the later of two write
\* backs may drop the marks of the earlier.
Exclusive == Copies = {1} \/ Concurrency <= 1

\* While the process lives, a role that stays in the state never loses a flag
\* of the same day, and its date never moves back: the copy a task works on
\* and writes back never overwrites newer marks.
ProgressKept ==
    [][Exclusive =>
          \A r \in mem.keys \cap mem'.keys :
             /\ mem.st[r].date <= mem'.st[r].date
             /\ mem.st[r].date = mem'.st[r].date => mem.st[r].done \subseteq mem'.st[r].done
      ]_vars

\* Between rounds a restart loses nothing: what load() would return, rolled
\* over to the current day and week, is what memory holds, rolled over alike
\* (provided the disk accepts writes).
IdleDurable ==
    sched = "sleeping" /\ writer = NoOne /\ ~DiskMayFail =>
        /\ file.readable
        /\ file.app.keys = mem.keys
        /\ \A r \in Roles :
              Normalised(file.app.st[r], day) = Normalised(mem.st[r], day)

\* state.json never holds a mark of today that the running process has lost,
\* so a later save cannot erase it.  If writes may fail, a role that is removed
\* from the configuration and added again can be ahead in the file.
FileNotAhead ==
    Alive /\ (DiskMayFail => Exclusive /\ edits = 0) =>
        \A r \in file.app.keys \cap mem.keys :
            file.app.st[r].date = day =>
                /\ mem.st[r].date = day
                /\ file.app.st[r].done \subseteq mem.st[r].done

\* Cars are reported claimed for a day only on top of that day's dispatch: the
\* claim of the periodic phase never marks a daily state that was rolled over
\* or overwritten after can_claim looked at it.
ClaimFollowsSend ==
    Exclusive => \A r \in Roles : CarClaimed \in mem.st[r].done => CarSent \in mem.st[r].done

\* Every round ends: a spawned round is joined, flushed and left.
RoundsEnd == sched = "spawning" ~> sched \in {"sleeping", "down", "exited"}

\* Errors are retried: as long as a listed role is past the daily start and
\* outside maintenance, again and again either its flags of today are complete
\* or a task of it asks for a token.
UnfinishedIsRetried ==
    \A r \in Roles :
        <>[](/\ roles[r] > 0 /\ daily_time_reached_at(day, slot)
             /\ ~maintenance_hit(day, slot))
        => []<>(\/ mem.st[r].date = day /\ all_done(mem.st[r])
                \/ At(<<r, 1>>, "token"))

-----------------------------------------------------------------------------
(* Inductive invariants behind the properties of the state.                *)

\* The task works on its copy of the daily state.
Copying(id) == task[id].pc \in {"dailyrun", "dailysave"}

Confirmed(marks) == marks \ (BlindFlags \cup StatusFlags \cup {CarClaimed})

\* Nothing is dated in the future.
Dated ==
    /\ \A r \in Roles : mem.st[r].date <= day /\ file.app.st[r].date <= day
    /\ \A r \in Roles : mem.st[r].week <= Week(day) /\ file.app.st[r].week <= Week(day)
    /\ \A id \in Ids : Copying(id) => task[id].date <= day

\* The marks of a copy are earned as well.
CopiesEarned ==
    \A id \in Ids :
        /\ task[id].status \subseteq StatusFlags
        /\ Copying(id) /\ task[id].date = day => Confirmed(task[id].done) \subseteq Settled(id[1])

\* A copy has every mark of the same day that memory has, and is not older.
CopiesAhead ==
    Exclusive => \A id \in Ids : Copying(id) =>
        /\ mem.st[id[1]].date <= task[id].date
        /\ mem.st[id[1]].date = task[id].date => mem.st[id[1]].done \subseteq task[id].done

\* A claim follows the dispatch in the file and in the copies too, and a task about to
\* claim still finds the dispatch it saw.
ClaimsFollow ==
    Exclusive =>
        /\ \A r \in Roles, app \in {mem, file.app} :
              CarClaimed \in app.st[r].done => CarSent \in app.st[r].done
        /\ \A id \in Ids :
              /\ Copying(id) /\ CarClaimed \in task[id].done => CarSent \in task[id].done
              /\ At(id, "carclaim") => CarSent \in mem.st[id[1]].done

\* The file has no entry that memory has dropped.
FileKeys ==
    /\ edits = 0 => changed = {}
    /\ Alive /\ (DiskMayFail => edits = 0) => file.app.keys \subseteq mem.keys

\* While no task runs, the file and memory agree up to the roll-over.
Durable ==
    writer = NoOne /\ ~DiskMayFail /\ sched \in {"booting", "round", "collect", "sleeping"} =>
        /\ file.readable /\ file.app.keys = mem.keys
        /\ \A r \in Roles : Normalised(file.app.st[r], day) = Normalised(mem.st[r], day)

\* A stopped process holds nothing.
DownEmpty == ~Alive => mem = EmptyApp
=============================================================================
