----------------------------- MODULE DailyTasks -----------------------------
(***************************************************************************)
(* GameClient::run_daily_tasks_stateful (kpi.rs), round after round of one *)
(* day: which commands a task sends, when its flag of RoleDailyState is    *)
(* set, and the formations that the battle tasks switch to and back.       *)
(*                                                                         *)
(* A task t of List has a flag t.name and a rule:                          *)
(*   "result"  one command; marked if its result is done (do_task!)        *)
(*   "all"     several commands; marked if all results are done            *)
(*   "best"    several commands; marked whatever they return               *)
(*   "arena"   as "best", given up at the first refusal                    *)
(*   "always"  run in every round, and marked                              *)
(* t.uses is how often the server lets it be done in a day, t.status what  *)
(* the role info says of it ("done": finished or not, "count": how often), *)
(* t.team the formation it fights in (0: none), t.gate that it needs a     *)
(* level, t.optional that the day or the configuration may leave it out.   *)
(* A command is executed and answered; refused, because its uses are up or *)
(* because the role does not meet a condition (no club, no card, too few   *)
(* items), both with an error code that counts as done; executed without   *)
(* an answer; or not executed.  The last two and a crash are faults, at    *)
(* most MaxFaults.                                                         *)
(***************************************************************************)
EXTENDS Integers, Sequences

CONSTANTS
    List,        \* the tasks in their order
    Teams,       \* formations of the role
    Starts,      \* what may have been done, by hand, before the first round
    MaxFaults    \* bound: failing commands and crashes

Tasks == {List[i] : i \in 1..Len(List)}
Names == {t.name : t \in Tasks}

ASSUME DailyAssumption ==
    /\ List \in Seq(Tasks)
    /\ \A t \in Tasks : t.uses \in Nat \ {0} /\ t.team \in Teams \cup {0}
    /\ \A i, j \in 1..Len(List) : List[i].name = List[j].name => i = j
    /\ \A count \in Starts :
          count \in [Names -> Nat] /\ \A t \in Tasks : count[t.name] <= t.uses
    /\ 0 \notin Teams /\ MaxFaults \in Nat

VARIABLES
    server,    \* done: how often each task was done today; team: the formation
    setup,     \* the role's level, the tasks left out, whether formations are configured
    status,    \* get_daily_task_status: done, as of the login
    daily,     \* flags set in the run's copy of RoleDailyState
    saved,     \* flags set in the state file
    at,        \* index of the task, 0 between rounds
    left,      \* commands of the task still to send, -1 before it starts
    all_done,  \* all results of the task so far are done
    unmet,     \* history: commands of the task so far that were refused for a condition
    team,      \* original: formation read at the start (0: unknown); switched
    before,    \* the formation at the start of the round
    broken,    \* a formation command of this round failed
    faults

vars == <<server, setup, status, daily, saved, at, left, all_done, unmet, team, before, broken, faults>>

Fault(n) == faults + n <= MaxFaults /\ faults' = faults + n
Answered == faults' = faults
Task == List[at]
Doing == at \in 1..Len(List)

Offered(t) == t.name \notin setup.without
Locked(t) == t.gate /\ setup.low

-----------------------------------------------------------------------------

\* The role info of the login and the formation, if formations are configured.
Login ==
    /\ at = 0 /\ at' = 1 /\ status' = server.done /\ before' = server.team
    /\ \/ setup.formations /\ Answered /\ team' = [original |-> server.team, switched |-> FALSE]
       \/ setup.formations /\ Fault(1) /\ team' = [original |-> 0, switched |-> FALSE]
       \/ ~setup.formations /\ Answered /\ team' = [original |-> 0, switched |-> FALSE]
    /\ broken' = FALSE
    /\ UNCHANGED <<server, setup, daily, saved, left, all_done, unmet>>

\* The flag is set before the task runs: done on the server, or locked.
Premarked(t) == Offered(t) /\ t.status # "none" /\ status[t.name] = t.uses

Remaining(t) == IF t.status = "count" THEN t.uses - status[t.name] ELSE t.uses

Idle(t) ==
    \/ ~Offered(t)
    \/ t.name \in daily /\ t.rule # "always"
    \/ Premarked(t) /\ t.rule # "always"
    \/ Locked(t)

\* The task has nothing to do; its flag may be set all the same.
Skip ==
    /\ Doing /\ left = -1 /\ Idle(Task)
    /\ at' = at + 1
    /\ daily' = IF Premarked(Task) \/ (Offered(Task) /\ Locked(Task)) THEN daily \cup {Task.name} ELSE daily
    /\ UNCHANGED <<server, setup, status, saved, left, all_done, unmet, team, before, broken, faults>>

\* switch_to_context_formation: no switch from an unknown formation or to the one
\* that was read; a switch without an answer counts as not made.
Begin ==
    /\ Doing /\ left = -1 /\ ~Idle(Task)
    /\ left' = Remaining(Task) /\ all_done' = TRUE /\ unmet' = 0
    /\ IF Task.team = 0 \/ team.original \in {0, Task.team}
       THEN Answered /\ UNCHANGED <<server, team, broken>>
       ELSE \E executed, answered \in BOOLEAN :
               /\ answered => executed
               /\ Fault(IF answered THEN 0 ELSE 1) /\ broken' = (broken \/ ~answered)
               /\ server' = IF executed THEN [server EXCEPT !.team = Task.team] ELSE server
               /\ team' = [team EXCEPT !.switched = answered]
    /\ UNCHANGED <<setup, status, daily, saved, at, before>>

\* The commands of the task are used up: the server refuses the next one.
Exhausted == server.done[Task.name] >= Task.uses
Done(s) == [s EXCEPT !.done[Task.name] = @ + 1]

\* The server does the command and answers.
Executed == ~Exhausted /\ Answered /\ server' = Done(server) /\ UNCHANGED unmet

\* The server refuses with one of DONE_ERROR_CODES: the uses are up, or a condition is
\* not met.  Nothing is done, and is_done_result takes both for done.
Refused ==
    /\ Answered /\ UNCHANGED server
    /\ \/ Exhausted /\ UNCHANGED unmet
       \/ unmet' = unmet + 1

\* No answer, or another error; the command may have been executed.
Failed == Fault(1) /\ UNCHANGED unmet /\ (server' = server \/ (~Exhausted /\ server' = Done(server)))

\* Faulty: only a success is a done result.
CommandOkOnly ==
    /\ Doing /\ left > 0 /\ left' = left - 1
    /\ \/ Executed /\ UNCHANGED all_done
       \/ (Refused \/ Failed) /\ all_done' = FALSE
    /\ UNCHANGED <<setup, status, daily, saved, at, team, before, broken>>

\* Faulty: the last result decides.
CommandLastDecides ==
    /\ Doing /\ left > 0 /\ left' = left - 1
    /\ \/ (Executed \/ Refused) /\ all_done' = TRUE
       \/ Failed /\ all_done' = FALSE
    /\ UNCHANGED <<setup, status, daily, saved, at, team, before, broken>>

\* One command.  The arena gives up when the uses are up, and when it cannot be entered
\* or the list of opponents not be read.
Command ==
    /\ Doing /\ left > 0
    /\ \/ Executed /\ left' = left - 1 /\ UNCHANGED all_done
       \/ /\ Refused /\ UNCHANGED all_done
          /\ \/ left' = left - 1 /\ (Task.rule = "arena" => ~Exhausted)
             \/ Task.rule = "arena" /\ left' = 0
       \/ /\ Failed /\ all_done' = FALSE
          /\ \/ left' = left - 1
             \/ Task.rule = "arena" /\ left' = 0
    /\ UNCHANGED <<setup, status, daily, saved, at, team, before, broken>>

Marked(t) == t.rule \in {"best", "arena", "always"} \/ all_done

\* Faulty: the flag of a battle is set only if every fight succeeded, and only then
\* is the formation restored.
FinishOnSuccess ==
    /\ Doing /\ left = 0 /\ left' = -1 /\ at' = at + 1
    /\ daily' = IF all_done THEN daily \cup {Task.name} ELSE daily
    /\ Answered /\ UNCHANGED broken
    /\ server' = IF team.switched /\ all_done THEN [server EXCEPT !.team = team.original] ELSE server
    /\ team' = [team EXCEPT !.switched = FALSE] /\ all_done' = TRUE
    /\ unmet' = 0 /\ UNCHANGED <<setup, status, saved, before>>

\* restore_context_formation (only after a switch that was answered; an error is
\* reported), then the flag.
Finish ==
    /\ Doing /\ left = 0 /\ left' = -1 /\ at' = at + 1
    /\ daily' = IF Marked(Task) THEN daily \cup {Task.name} ELSE daily
    /\ \/ ~team.switched /\ Answered /\ UNCHANGED <<server, broken>>
       \/ team.switched /\ Answered /\ server' = [server EXCEPT !.team = team.original] /\ UNCHANGED broken
       \/ /\ team.switched /\ Fault(1) /\ broken' = TRUE
          /\ server' \in {server, [server EXCEPT !.team = team.original]}
    /\ team' = [team EXCEPT !.switched = FALSE] /\ all_done' = TRUE
    /\ unmet' = 0 /\ UNCHANGED <<setup, status, saved, before>>

\* The flags are written back after the whole list.
RoundEnds ==
    /\ at = Len(List) + 1 /\ at' = 0 /\ saved' = daily
    /\ UNCHANGED <<server, setup, status, daily, left, all_done, unmet, team, before, broken, faults>>

\* The process stops within the list: the flags of this round are lost.
Crash ==
    /\ at # 0 /\ Fault(1) /\ at' = 0 /\ daily' = saved /\ left' = -1 /\ all_done' = TRUE
    /\ team' = [team EXCEPT !.switched = FALSE] /\ broken' = TRUE
    /\ unmet' = 0 /\ UNCHANGED <<server, setup, status, saved, before>>

Init ==
    /\ \E formation \in Teams, count \in Starts :
          server = [done |-> count, team |-> formation]
    /\ setup \in [low : BOOLEAN, formations : BOOLEAN,
                  without : {{}, {t.name : t \in {u \in Tasks : u.optional}}}]
    /\ status = server.done /\ daily = {} /\ saved = {} /\ at = 0 /\ left = -1 /\ all_done = TRUE /\ unmet = 0
    /\ team = [original |-> 0, switched |-> FALSE] /\ before = server.team
    /\ broken = FALSE /\ faults = 0

Next == Login \/ Skip \/ Begin \/ Command \/ Finish \/ RoundEnds \/ Crash

Spec == Init /\ [][Next]_vars

\* The scheduler starts a round again and again while flags are missing, and every
\* command returns, with its answer or by its timeout.
FairSpec == Spec /\ WF_vars(Next)

-----------------------------------------------------------------------------
(* Properties.                                                             *)

\* Every variable has the type of the value it stands for.
TypeOK ==
    /\ server \in [done : [Names -> Nat], team : Teams]
    /\ setup \in [low : BOOLEAN, formations : BOOLEAN, without : SUBSET Names]
    /\ status \in [Names -> Nat] /\ daily \in SUBSET Names /\ saved \in SUBSET daily
    /\ at \in 0..Len(List) + 1 /\ left \in Nat \cup {-1} /\ all_done \in BOOLEAN
    /\ unmet \in Nat
    /\ team \in [original : Teams \cup {0}, switched : BOOLEAN] /\ before \in Teams
    /\ broken \in BOOLEAN /\ faults \in 0..MaxFaults

Checked == {t \in Tasks : t.rule \in {"result", "all"}}

\* A flag that follows the results is set only when every command of its task is accounted
\* for: executed, today, or refused because it cannot be done.  A command that failed
\* otherwise, in the middle of several too, leaves the flag unset.
Earned(t) == Locked(t) \/ server.done[t.name] + unmet >= t.uses

ResultMarksEarned ==
    [][\A t \in Checked : t.name \in daily' \ daily => Earned(t)]_vars

\* A battle is fought in its formation, and the formation of the role is back between
\* tasks, unless a formation command of the round failed.
FormationsKept ==
    Doing /\ ~broken =>
        IF left > 0 /\ Task.team # 0 /\ team.original # 0 THEN server.team = Task.team
        ELSE team.switched \/ server.team = before

\* Every task whose flag follows the results is marked in the end, and saved: a lost
\* answer is made good by the refusal of the next try.
EventuallyMarked ==
    <>(\A t \in Checked : Offered(t) => t.name \in saved)

-----------------------------------------------------------------------------
(* The inductive invariants behind ResultMarksEarned and FormationsKept.    *)

\* The role info of the login is not ahead of the server, and the server does
\* nothing more often than it allows.
Counts ==
    \A t \in Tasks : status[t.name] <= server.done[t.name] /\ server.done[t.name] <= t.uses

\* As long as all results are done, the commands still to send make up what the
\* server has neither done nor refused.
Earning ==
    /\ left # -1 => Doing
    /\ left # -1 /\ all_done /\ Task.rule # "arena" =>
          server.done[Task.name] + unmet + left >= Task.uses

\* The formation read is the one the round started in; it is the role's own between
\* tasks, and the task's after a switch.  An unknown formation is never left.
Formation ==
    /\ team.switched => team.original # 0
    /\ at # 0 => team.original \in {0, before}
    /\ at # 0 /\ ~broken =>
          IF team.switched
          THEN left # -1 /\ Doing /\ Task.team # 0 /\ server.team = Task.team
          ELSE /\ server.team = before
               /\ left # -1 => Doing /\ (Task.team = 0 \/ team.original \in {0, Task.team})
=============================================================================
