-------------------------- MODULE DailyTasksProofs --------------------------
(***************************************************************************)
(* Proofs about DailyTasks, for every list of tasks, every set of          *)
(* formations and any number of faults.                                    *)
(***************************************************************************)
EXTENDS DailyTasks, TLAPS

\* A task of the list is a task, and its flag is a flag.
LEMMA TaskFacts ==
    ASSUME TypeOK, Doing
    PROVE  /\ Task \in Tasks /\ Task.name \in Names
           /\ Task.uses \in Nat \ {0} /\ Task.team \in Teams \cup {0}
  BY DailyAssumption DEF Doing, Task, Tasks, Names

\* A flag belongs to one task of the list.
LEMMA NamesDiffer ==
    ASSUME NEW t \in Tasks, NEW u \in Tasks, t.name = u.name
    PROVE  t = u
  BY DailyAssumption DEF Tasks

\* The bounds are numbers, and no formation is zero.
LEMMA Bounds == Len(List) \in Nat /\ MaxFaults \in Nat /\ 0 \notin Teams
  BY DailyAssumption

\* What a role has done in the morning is counted within the limits.
LEMMA InitCorrect == Init => TypeOK /\ Counts /\ Earning /\ Formation
  <1> SUFFICES ASSUME Init PROVE TypeOK /\ Counts /\ Earning /\ Formation
    OBVIOUS
  <1>1. PICK formation \in Teams, count \in Starts : server = [done |-> count, team |-> formation]
    BY DEF Init
  <1>2. count \in [Names -> Nat] /\ \A t \in Tasks : count[t.name] <= t.uses
    BY DailyAssumption
  <1>3. {t.name : t \in {u \in Tasks : u.optional}} \in SUBSET Names
    BY DEF Names
  <1>4. server \in [done : [Names -> Nat], team : Teams]
    BY <1>1, <1>2
  <1>5. TypeOK
    <2>1. setup \in [low : BOOLEAN, formations : BOOLEAN, without : SUBSET Names]
      BY <1>3 DEF Init
    <2>2. team \in [original : Teams \cup {0}, switched : BOOLEAN]
      BY DEF Init
    <2>3. status \in [Names -> Nat] /\ before \in Teams
      BY <1>4 DEF Init
    <2>4. at \in 0..Len(List) + 1 /\ faults \in 0..MaxFaults
      BY Bounds DEF Init
    <2> QED
      BY <1>4, <2>1, <2>2, <2>3, <2>4 DEF Init, TypeOK
  <1>6. Counts
    BY <1>1, <1>2, DailyAssumption DEF Init, Counts, Names
  <1>7. Earning /\ Formation
    BY DEF Init, Earning, Formation
  <1> QED
    BY <1>5, <1>6, <1>7

\* What a command leaves of the server: unchanged, or one more of a task that the
\* server still allows.
LEMMA CommandServer ==
    ASSUME Command
    PROVE  \/ server' = server
           \/ server' = Done(server) /\ ~Exhausted
  BY DEF Command, Executed, Refused, Failed

\* Every step keeps the types.
LEMMA TypesKept == TypeOK /\ Counts /\ Formation /\ [Next]_vars => TypeOK'
  <1> SUFFICES ASSUME TypeOK, Counts, Formation, [Next]_vars PROVE TypeOK'
    OBVIOUS
  <1> DEFINE Server == [done : [Names -> Nat], team : Teams]
             Team == [original : Teams \cup {0}, switched : BOOLEAN]
  <1>1. CASE Login
    <2>1. team' \in Team
      <3>1. \/ team' = [original |-> server.team, switched |-> FALSE]
            \/ team' = [original |-> 0, switched |-> FALSE]
        BY <1>1 DEF Login
      <3>2. [original |-> server.team, switched |-> FALSE] \in Team
        <4>1. server.team \in Teams \cup {0} /\ FALSE \in BOOLEAN
          BY DEF TypeOK
        <4> QED
          BY ONLY <4>1
      <3>3. [original |-> 0, switched |-> FALSE] \in Team
        OBVIOUS
      <3> QED
        BY <3>1, <3>2, <3>3
    <2>2. at' \in 0..Len(List) + 1 /\ faults' \in 0..MaxFaults
      BY <1>1, Bounds DEF TypeOK, Login, Fault, Answered
    <2>3. status' \in [Names -> Nat] /\ before' \in Teams
      BY <1>1 DEF TypeOK, Login
    <2> QED
      BY <1>1, <2>1, <2>2, <2>3 DEF TypeOK, Login
  <1>2. CASE Skip
    <2>1. at' \in 0..Len(List) + 1
      BY <1>2, Bounds DEF TypeOK, Skip, Doing
    <2>2. daily' \in SUBSET Names /\ saved' \in SUBSET daily'
      BY <1>2, TaskFacts DEF TypeOK, Skip
    <2> QED
      BY <1>2, <2>1, <2>2 DEF TypeOK, Skip
  <1>3. CASE Begin
    <2>1. Doing /\ Task \in Tasks /\ Task.name \in Names /\ Task.uses \in Nat \ {0}
          /\ Task.team \in Teams \cup {0}
      BY <1>3, TaskFacts DEF Begin
    <2>2. Remaining(Task) \in Nat
      <3>1. status[Task.name] \in Nat /\ server.done[Task.name] \in Nat
        BY <2>1 DEF TypeOK
      <3>2. status[Task.name] <= Task.uses
        BY <2>1, <3>1 DEF Counts
      <3> QED
        BY <2>1, <3>1, <3>2 DEF Remaining
    <2>3. server' \in Server /\ team' \in Team
      <3>1. CASE Task.team = 0 \/ team.original \in {0, Task.team}
        BY <1>3, <3>1 DEF Begin, TypeOK
      <3>2. CASE ~(Task.team = 0 \/ team.original \in {0, Task.team})
        <4>1. server' = server \/ server' = [server EXCEPT !.team = Task.team]
          BY <1>3, <3>2 DEF Begin
        <4>2. server' \in Server
          BY <2>1, <3>2, <4>1 DEF TypeOK
        <4>3. team' = [team EXCEPT !.switched = TRUE] \/ team' = [team EXCEPT !.switched = FALSE]
          BY <1>3, <3>2 DEF Begin
        <4>4. team' \in Team
          BY <4>3 DEF TypeOK
        <4> QED
          BY <4>2, <4>4
      <3> QED
        BY <3>1, <3>2
    <2>4. faults' \in 0..MaxFaults
      BY <1>3, Bounds DEF Begin, TypeOK, Fault, Answered
    <2>5. broken' \in BOOLEAN
      <3>1. broken' = broken \/ \E answered \in BOOLEAN : broken' = (broken \/ ~answered)
        BY <1>3 DEF Begin
      <3> QED
        BY <3>1, Zenon DEF TypeOK
    <2> QED
      BY <1>3, <2>2, <2>3, <2>4, <2>5 DEF Begin, TypeOK
  <1>4. CASE Command
    <2>1. Task.name \in Names
      BY <1>4, TaskFacts DEF Command
    <2>2. Done(server) \in Server
      <3>1. server.done \in [Names -> Nat] /\ server.team \in Teams
        BY DEF TypeOK
      <3>2. [server.done EXCEPT ![Task.name] = @ + 1] \in [Names -> Nat]
        BY <2>1, <3>1
      <3>3. Done(server) = [server EXCEPT !.done = [server.done EXCEPT ![Task.name] = @ + 1]]
        BY DEF Done
      <3> QED
        BY <3>2, <3>3 DEF TypeOK
    <2>3. server' \in Server
      BY <1>4, <2>2, CommandServer DEF TypeOK
    <2>4. left' \in Nat
      BY <1>4 DEF Command, TypeOK
    <2>5. faults' \in 0..MaxFaults /\ unmet' \in Nat
      BY <1>4, Bounds DEF Command, Executed, Refused, Failed, TypeOK, Fault, Answered
    <2>6. all_done' \in BOOLEAN
      BY <1>4 DEF Command, TypeOK
    <2> QED
      BY <1>4, <2>3, <2>4, <2>5, <2>6 DEF Command, TypeOK
  <1>5. CASE Finish
    <2>1. Task.name \in Names
      BY <1>5, TaskFacts DEF Finish
    <2>2. server' = server \/ (team.switched /\ server' = [server EXCEPT !.team = team.original])
      BY <1>5 DEF Finish
    <2>3. server' \in Server
      BY <2>2 DEF TypeOK, Formation
    <2>4. team' \in Team
      BY <1>5 DEF Finish, TypeOK
    <2>5. at' \in 0..Len(List) + 1
      BY <1>5, Bounds DEF Finish, TypeOK, Doing
    <2>6. faults' \in 0..MaxFaults
      BY <1>5, Bounds DEF Finish, TypeOK, Fault, Answered
    <2>7. daily' \in SUBSET Names /\ saved' \in SUBSET daily'
      BY <1>5, <2>1 DEF Finish, TypeOK
    <2>8. broken' \in BOOLEAN
      BY <1>5 DEF Finish, TypeOK
    <2> QED
      BY <1>5, <2>3, <2>4, <2>5, <2>6, <2>7, <2>8 DEF Finish, TypeOK
  <1>6. CASE RoundEnds
    BY <1>6, Bounds DEF TypeOK, RoundEnds
  <1>7. CASE Crash
    <2>1. team' \in Team
      BY <1>7 DEF TypeOK, Crash
    <2>2. at' \in 0..Len(List) + 1 /\ faults' \in 0..MaxFaults
      BY <1>7, Bounds DEF TypeOK, Crash, Fault
    <2> QED
      BY <1>7, <2>1, <2>2 DEF TypeOK, Crash
  <1>8. CASE UNCHANGED vars
    BY <1>8 DEF TypeOK, vars
  <1> QED
    BY <1>1, <1>2, <1>3, <1>4, <1>5, <1>6, <1>7, <1>8 DEF Next

\* A command counts for its own task only.
LEMMA DoneFacts ==
    ASSUME TypeOK, Doing
    PROVE  /\ Done(server).done[Task.name] = server.done[Task.name] + 1
           /\ Done(server).team = server.team
           /\ \A t \in Tasks : t # Task => Done(server).done[t.name] = server.done[t.name]
  <1>1. Task \in Tasks /\ Task.name \in Names
    BY TaskFacts
  <1>2. server.done \in [Names -> Nat] /\ server \in [done : [Names -> Nat], team : Teams]
    BY DEF TypeOK
  <1>3. Done(server).done = [server.done EXCEPT ![Task.name] = @ + 1]
        /\ Done(server).team = server.team
    BY <1>2 DEF Done
  <1>4. \A t \in Tasks : t.name \in Names /\ (t # Task => t.name # Task.name)
    BY <1>1, NamesDiffer DEF Names
  <1> QED
    BY <1>1, <1>2, <1>3, <1>4

\* The server's counts stay within their limits.
LEMMA CountsKept == TypeOK /\ Counts /\ [Next]_vars => Counts'
  <1> SUFFICES ASSUME TypeOK, Counts, [Next]_vars, NEW t \in Tasks
               PROVE  /\ status'[t.name] <= server'.done[t.name]
                      /\ server'.done[t.name] <= t.uses
    BY DEF Counts
  <1>0. t.name \in Names /\ t.uses \in Nat /\ status[t.name] \in Nat
        /\ server.done[t.name] \in Nat /\ status[t.name] <= server.done[t.name]
        /\ server.done[t.name] <= t.uses
    BY DailyAssumption DEF TypeOK, Counts, Names
  <1>1. CASE Login
    BY <1>0, <1>1 DEF Login
  <1>2. CASE server'.done = server.done /\ status' = status
    BY <1>0, <1>2
  <1>3. CASE Begin \/ Finish
    <2>1. status' = status /\ \/ server' = server
                              \/ \E x : server' = [server EXCEPT !.team = x]
      BY <1>3 DEF Begin, Finish
    <2>2. server'.done = server.done
      BY <2>1 DEF TypeOK
    <2> QED
      BY <1>2, <2>1, <2>2
  <1>4. CASE Command
    <2>1. Doing /\ status' = status
      BY <1>4 DEF Command
    <2>2. CASE server' = server
      BY <1>2, <2>1, <2>2
    <2>3. CASE server' = Done(server) /\ ~Exhausted
      <3>1. CASE t = Task
        BY <1>0, <2>1, <2>3, <3>1, DoneFacts DEF Exhausted
      <3>2. CASE t # Task
        BY <1>0, <2>1, <2>3, <3>2, DoneFacts
      <3> QED
        BY <3>1, <3>2
    <2> QED
      BY <1>4, <2>2, <2>3, CommandServer
  <1>5. CASE Skip \/ RoundEnds \/ Crash \/ UNCHANGED vars
    BY <1>2, <1>5 DEF Skip, RoundEnds, Crash, vars
  <1> QED
    BY <1>1, <1>3, <1>4, <1>5 DEF Next

\* The commands still to send make up what the server has neither done nor refused.
LEMMA EarningKept == TypeOK /\ Counts /\ Earning /\ [Next]_vars => Earning'
  <1> SUFFICES ASSUME TypeOK, Counts, Earning, [Next]_vars PROVE Earning'
    OBVIOUS
  <1>1. CASE Login \/ Skip \/ Finish \/ Crash
    <2>1. left' = -1
      <3>1. Login => left = -1
        BY Bounds DEF Login, Earning, Doing
      <3> QED
        BY <1>1, <3>1 DEF Login, Skip, Finish, Crash
    <2> QED
      BY <2>1 DEF Earning
  <1>2. CASE RoundEnds
    <2>1. left = -1
      BY <1>2, Bounds DEF RoundEnds, Earning, Doing
    <2> QED
      BY <1>2, <2>1 DEF RoundEnds, Earning
  <1>3. CASE Begin
    <2>1. Doing /\ Task \in Tasks /\ Task.name \in Names /\ Task.uses \in Nat
      BY <1>3, TaskFacts DEF Begin
    <2>2. status[Task.name] \in Nat /\ server.done[Task.name] \in Nat
          /\ status[Task.name] <= server.done[Task.name]
      BY <2>1 DEF TypeOK, Counts
    <2>3. at' = at /\ left' = Remaining(Task)
          /\ (server' = server \/ \E x : server' = [server EXCEPT !.team = x])
      BY <1>3 DEF Begin
    <2>4. server'.done = server.done
      BY <2>3 DEF TypeOK
    <2>5. Doing' /\ Task' = Task
      BY <2>1, <2>3 DEF Doing, Task
    <2>6. server.done[Task.name] + Remaining(Task) >= Task.uses
      BY <2>1, <2>2 DEF Remaining
    <2>7. unmet' = 0 /\ Remaining(Task) \in Int
      BY <1>3, <2>1, <2>2 DEF Begin, Remaining
    <2> QED
      BY <2>2, <2>3, <2>4, <2>5, <2>6, <2>7 DEF Earning
  <1>4. CASE Command
    <2>1. Doing /\ left > 0 /\ left \in Nat /\ at' = at
      BY <1>4 DEF Command, TypeOK
    <2>2. Task.name \in Names /\ Task.uses \in Nat /\ server.done[Task.name] \in Nat
      BY <2>1, TaskFacts DEF TypeOK
    <2>3. Doing' /\ Task' = Task
      BY <2>1 DEF Doing, Task
    <2>4. ASSUME all_done', Task.rule # "arena"
          PROVE  server'.done[Task.name] + unmet' + left' >= Task.uses
      <3>1. all_done /\ left' = left - 1 /\ (Executed \/ Refused)
        BY <1>4, <2>4 DEF Command
      <3>2. server.done[Task.name] + unmet + left >= Task.uses /\ unmet \in Nat
        BY <2>1, <2>4, <3>1 DEF Earning, TypeOK
      <3>3. CASE Executed
        <4>1. server'.done[Task.name] = server.done[Task.name] + 1 /\ unmet' = unmet
          BY <2>1, <3>3, DoneFacts DEF Executed
        <4> QED
          BY <2>1, <2>2, <3>1, <3>2, <4>1
      <3>4. CASE Refused
        <4>1. server' = server /\ (unmet' = unmet + 1 \/ (Exhausted /\ unmet' = unmet))
          BY <3>4 DEF Refused
        <4> QED
          BY <2>1, <2>2, <3>1, <3>2, <4>1 DEF Exhausted
      <3> QED
        BY <3>1, <3>3, <3>4
    <2> QED
      BY <2>3, <2>4 DEF Earning
  <1>5. CASE UNCHANGED vars
    BY <1>5 DEF vars, Earning, Doing, Task
  <1> QED
    BY <1>1, <1>2, <1>3, <1>4, <1>5 DEF Next

\* A flag that follows the results is set only when it is earned.
LEMMA MarksStand ==
    ASSUME TypeOK, Counts, Earning, [Next]_vars, NEW t \in Checked, t.name \in daily' \ daily
    PROVE  Earned(t)
  <1>1. t \in Tasks /\ t.name \in Names /\ t.uses \in Nat
    BY DailyAssumption DEF Checked, Names
  <1>2. server.done[t.name] \in Nat /\ status[t.name] \in Nat /\ unmet \in Nat
    BY <1>1 DEF TypeOK
  <1>3. status[t.name] <= server.done[t.name]
    BY <1>1 DEF Counts
  <1>4. CASE Skip
    <2>1. t.name = Task.name /\ Task \in Tasks /\ (Premarked(Task) \/ Locked(Task))
      BY <1>4, TaskFacts DEF Skip
    <2>2. t = Task
      BY <1>1, <2>1, NamesDiffer
    <2>3. Locked(t) \/ status[t.name] = t.uses
      BY <2>1, <2>2 DEF Premarked
    <2> QED
      BY <1>1, <1>2, <1>3, <2>3 DEF Earned
  <1>5. CASE Finish
    <2>1. t.name = Task.name /\ Task \in Tasks /\ Marked(Task) /\ left = 0
      BY <1>5, TaskFacts DEF Finish
    <2>2. t = Task
      BY <1>1, <2>1, NamesDiffer
    <2>3. all_done /\ Task.rule # "arena"
      BY <2>1, <2>2 DEF Marked, Checked
    <2> QED
      BY <1>1, <1>2, <2>1, <2>2, <2>3 DEF Earning, Earned
  <1>6. CASE Login \/ Begin \/ Command \/ RoundEnds \/ Crash \/ UNCHANGED vars
    <2>1. daily' = daily \/ daily' = saved
      BY <1>6 DEF Login, Begin, Command, RoundEnds, Crash, vars
    <2> QED
      BY <2>1 DEF TypeOK
  <1> QED
    BY <1>4, <1>5, <1>6 DEF Next

\* The formation is switched for a battle and put back after it.
LEMMA FormationStays == TypeOK /\ Counts /\ Earning /\ Formation /\ [Next]_vars => Formation'
  <1> SUFFICES ASSUME TypeOK, Counts, Earning, Formation, [Next]_vars PROVE Formation'
    OBVIOUS
  <1>1. CASE Login
    <2>1. left = -1
      BY <1>1, Bounds DEF Login, Earning, Doing
    <2>2. \/ team' = [original |-> server.team, switched |-> FALSE]
          \/ team' = [original |-> 0, switched |-> FALSE]
      BY <1>1 DEF Login
    <2>3. ~team'.switched /\ team'.original \in {0, server.team}
      BY <2>2
    <2> QED
      BY <1>1, <2>1, <2>3 DEF Login, Formation
  <1>2. CASE Skip
    <2>1. Doing /\ left = -1 /\ left' = left /\ server' = server /\ team' = team
          /\ before' = before /\ broken' = broken
      BY <1>2 DEF Skip
    <2>2. at # 0
      BY <2>1 DEF Doing
    <2> QED
      BY <2>1, <2>2 DEF Formation
  <1>3. CASE Begin
    <2>1. Doing /\ left = -1 /\ at' = at /\ before' = before /\ Task.team \in Teams \cup {0}
      BY <1>3, TaskFacts DEF Begin
    <2>2. Doing' /\ Task' = Task /\ at # 0
      BY <2>1 DEF Doing, Task
    <2>3. CASE Task.team = 0 \/ team.original \in {0, Task.team}
      <3>1. server' = server /\ team' = team /\ broken' = broken
        BY <1>3, <2>3 DEF Begin
      <3> QED
        BY <2>1, <2>2, <2>3, <3>1 DEF Formation
    <2>4. CASE ~(Task.team = 0 \/ team.original \in {0, Task.team})
      <3>1. PICK executed \in BOOLEAN, answered \in BOOLEAN :
                /\ answered => executed
                /\ broken' = (broken \/ ~answered)
                /\ server' = IF executed THEN [server EXCEPT !.team = Task.team] ELSE server
                /\ team' = [team EXCEPT !.switched = answered]
        BY <1>3, <2>4 DEF Begin
      <3>2. team'.original = team.original /\ team'.switched = answered
        BY <3>1 DEF TypeOK
      <3>3. team.original \in {0, before}
        BY <2>2 DEF Formation
      <3>4. CASE answered
        <4>1. server'.team = Task.team
          BY <3>1, <3>4 DEF TypeOK
        <4>2. left' # -1
          <5>1. Task \in Tasks /\ Task.name \in Names /\ Task.uses \in Nat
            BY <2>1, TaskFacts
          <5>2. status[Task.name] \in Nat /\ server.done[Task.name] \in Nat
            BY <5>1 DEF TypeOK
          <5>3. status[Task.name] <= Task.uses
            BY <5>1, <5>2 DEF Counts
          <5>4. Remaining(Task) \in Nat
            BY <5>1, <5>2, <5>3 DEF Remaining
          <5> QED
            BY <1>3, <5>4 DEF Begin
        <4> QED
          BY <2>1, <2>2, <2>4, <3>2, <3>3, <3>4, <4>1, <4>2 DEF Formation
      <3>5. CASE ~answered
        BY <2>1, <2>2, <3>1, <3>2, <3>3, <3>5 DEF Formation
      <3> QED
        BY <3>4, <3>5
    <2> QED
      BY <2>3, <2>4
  <1>4. CASE Command
    <2>1. Doing /\ left > 0 /\ left' # -1 /\ at' = at /\ before' = before /\ team' = team
          /\ broken' = broken
      BY <1>4 DEF Command, TypeOK
    <2>2. Doing' /\ Task' = Task /\ server'.team = server.team
      BY <1>4, <2>1, CommandServer, DoneFacts DEF Doing, Task
    <2> QED
      BY <2>1, <2>2 DEF Formation, TypeOK
  <1>5. CASE Finish
    <2>1. Doing /\ left' = -1 /\ at' = at + 1 /\ before' = before /\ at # 0
      BY <1>5 DEF Finish, Doing
    <2>2. team'.original = team.original /\ team'.switched = FALSE
      BY <1>5 DEF Finish, TypeOK
    <2>3. team.original \in {0, before}
      BY <2>1 DEF Formation
    <2>4. ASSUME ~broken' PROVE server'.team = before
      <3>1. \/ ~team.switched /\ server' = server /\ broken' = broken
            \/ team.switched /\ server' = [server EXCEPT !.team = team.original] /\ broken' = broken
        BY <1>5, <2>4 DEF Finish
      <3>2. CASE ~team.switched /\ server' = server /\ broken' = broken
        BY <2>1, <2>4, <3>2 DEF Formation
      <3>3. CASE team.switched /\ server' = [server EXCEPT !.team = team.original]
        BY <2>3, <3>3 DEF Formation, TypeOK
      <3> QED
        BY <3>1, <3>2, <3>3
    <2> QED
      BY <2>1, <2>2, <2>3, <2>4 DEF Formation
  <1>6. CASE RoundEnds
    BY <1>6 DEF RoundEnds, Formation
  <1>7. CASE Crash
    <2>1. at' = 0 /\ team'.switched = FALSE
      BY <1>7 DEF Crash, TypeOK
    <2> QED
      BY <2>1 DEF Formation
  <1>8. CASE UNCHANGED vars
    BY <1>8 DEF vars, Formation, Doing, Task
  <1> QED
    BY <1>1, <1>2, <1>3, <1>4, <1>5, <1>6, <1>7, <1>8 DEF Next

-----------------------------------------------------------------------------

\* The inductive invariant of a day's rounds.
IInv == TypeOK /\ Counts /\ Earning /\ Formation

\* It holds in every state, whatever fails and wherever the process stops.
THEOREM DailyInvariant == Spec => []IInv
  <1>1. Init => IInv
    BY InitCorrect DEF IInv
  <1>2. IInv /\ [Next]_vars => IInv'
    BY TypesKept, CountsKept, EarningKept, FormationStays DEF IInv
  <1> QED
    BY <1>1, <1>2, PTL DEF Spec

\* do_task! and its relatives set a flag that follows the results only when every command
\* of its task was executed or refused with a code that says it cannot be done.
THEOREM MarksAlwaysEarned == Spec => ResultMarksEarned
  <1>1. IInv /\ [Next]_vars => [\A t \in Checked : t.name \in daily' \ daily => Earned(t)]_vars
    BY MarksStand DEF IInv
  <1> QED
    BY <1>1, DailyInvariant, PTL DEF Spec, ResultMarksEarned

\* switch_to_context_formation and restore_context_formation: battles are fought in
\* their formation, and the role's own is back between tasks.
THEOREM FormationsAlwaysKept == Spec => []FormationsKept
  <1>1. IInv => FormationsKept
    <2> SUFFICES ASSUME IInv, Doing, ~broken
                 PROVE  IF left > 0 /\ Task.team # 0 /\ team.original # 0
                        THEN server.team = Task.team
                        ELSE team.switched \/ server.team = before
      BY DEF FormationsKept
    <2>1. at # 0 /\ Formation
      BY DEF Doing, IInv
    <2> QED
      BY <2>1 DEF Formation, IInv, TypeOK
  <1> QED
    BY <1>1, DailyInvariant, PTL
=============================================================================
