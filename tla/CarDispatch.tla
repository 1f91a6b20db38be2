----------------------------- MODULE CarDispatch ----------------------------
(***************************************************************************)
(* The club vehicles of one role: claim_all_cars and smart_send_car        *)
(* (kpi.rs), the daily step that runs both, and the later claim of         *)
(* RoleRunner::run_one (scheduler.rs), against the game server's cars.     *)
(*                                                                         *)
(* Time is counted in slots of Slots to a day; a phase takes no time.  A   *)
(* command is executed and answered, executed without an answer, or not    *)
(* executed; everything but the first is a fault, of which there are at    *)
(* most MaxFaults, a crash of the process included.                        *)
(***************************************************************************)
EXTENDS Integers, FiniteSets, FiniteSetsExt, Sequences

CONSTANTS
    Cars,          \* the role's cars
    Guards,        \* legion members but the role, best first
    Self,          \* the role as a legion member
    GuardMax,      \* cars a member may guard (4)
    Slots,         \* slots of a day
    SendSlot,      \* slot of schedule_time
    LastSlot,      \* the send window ends before this slot (20:00)
    Ripe,          \* slots until a car can be claimed (4 h)
    Prices,        \* CAR_RESEARCH_COSTS
    Starts,        \* states of the server at the start
    MaxTime,       \* bound: slots of a run
    MaxFaults      \* bound: failing commands and crashes

Members == {Guards[i] : i \in 1..Len(Guards)} \cup {Self}
Nobody == "nobody"
Colors == {"low", "red"}
Rewards == {"none", "ticket", "prize"}
Car == [sent : Nat, color : Colors, reward : Rewards, refreshes : Nat]

\* The role's cars on the server, and how many cars each member guards
Garage == [car : [Cars -> Car], tickets : Nat, helping : [Members -> 0..GuardMax], sends : Nat,
           sendDay : Int, level : 0..Len(Prices), pieces : Nat, start : Nat]

ASSUME CarAssumption ==
    /\ IsFiniteSet(Cars) /\ GuardMax \in Nat /\ Ripe \in Nat \ {0}
    /\ Slots \in Nat \ {0} /\ SendSlot \in 0..Slots /\ LastSlot \in 0..Slots
    /\ MaxTime \in Nat /\ MaxFaults \in Nat /\ Prices \in Seq(Nat)
    /\ Guards \in Seq(Members) /\ Nobody \notin Members
    /\ Starts \subseteq Garage

VARIABLES
    server,   \* the cars, tickets and parts the server keeps, and the guards' counts
    daily,    \* RoleDailyState: car_send_done, car_claimed_today, next_car_claim_time
    pc,       \* where the phase is
    phase,    \* "daily" or "periodic"
    l,        \* local variables of the phase
    now,      \* the time
    faults,   \* faults so far
    blind,    \* the guards' counts could not be read
    unread    \* the car list could not be read

vars == <<server, daily, pc, phase, l, now, faults, blind, unread>>

Day(t) == t \div Slots
NewDay == [sent |-> FALSE, claimed |-> FALSE, next |-> 0]
\* A car at home: its grade and its rewards are the server's choice.
Home(color, reward) == [sent |-> 0, color |-> color, reward |-> reward, refreshes |-> 0]

NoLocals == [todo |-> {}, list |-> [c \in {} |-> 0], next |-> 0, level |-> 0, pieces |-> 0,
             tickets |-> 0, count |-> [m \in {} |-> 0], guards |-> <<>>,
             car |-> Nobody, now |-> Home("low", "none"), guard |-> Nobody]

Fault(n) == faults + n <= MaxFaults /\ faults' = faults + n
Answered == faults' = faults
Cost(b) == IF b THEN 0 ELSE 1

-----------------------------------------------------------------------------
(* The game server.                                                        *)

CarClaimed(s, c, color, reward) == [s EXCEPT !.car[c] = Home(color, reward)]

CarRefreshed(s, c, color, reward) ==
    [s EXCEPT !.car[c].color = color, !.car[c].reward = reward, !.car[c].refreshes = @ + 1,
              !.tickets = IF s.car[c].refreshes = 0 THEN @ ELSE @ - 1]

CanRefresh(s, c) == s.car[c].refreshes = 0 \/ s.tickets > 0

CarSent(s, c, guard) ==
    [s EXCEPT !.car[c].sent = now,
              !.sends = (IF s.sendDay = Day(now) THEN @ ELSE 0) + 1, !.sendDay = Day(now),
              !.helping = [m \in Members |-> IF m = guard THEN s.helping[m] + 1 ELSE s.helping[m]]]

Researched(s) == [s EXCEPT !.level = @ + 1, !.pieces = @ - Prices[s.level + 1]]
CanResearch(s) == s.level < Len(Prices) /\ s.pieces >= Prices[s.level + 1]

-----------------------------------------------------------------------------
(* When a phase starts.                                                    *)

is_car_send_window == Day(now) % 7 <= 2 /\ now % Slots < LastSlot
DailyReached == now % Slots >= SendSlot
can_claim_car(sent) == sent # 0 /\ now - sent >= Ripe

SendDue == DailyReached /\ is_car_send_window /\ ~daily.sent
ClaimDue == DailyReached /\ ~daily.claimed /\ daily.next > 0 /\ now >= daily.next

StartDaily ==
    /\ pc = "idle" /\ SendDue
    /\ pc' = "claim_read" /\ phase' = "daily" /\ unread' = FALSE
    /\ UNCHANGED <<server, daily, l, now, faults, blind>>

\* The periodic phase follows the daily one.
StartPeriodic ==
    /\ pc = "idle" /\ ~SendDue /\ ClaimDue
    /\ pc' = "claim_read" /\ phase' = "periodic"
    /\ UNCHANGED <<server, daily, l, now, faults, blind, unread>>

\* A round is run in every slot; ensure_today resets the marks.
Tick ==
    /\ pc = "idle" /\ ~SendDue /\ ~ClaimDue /\ now < server.start + MaxTime
    /\ now' = now + 1
    /\ daily' = IF Day(now + 1) # Day(now) THEN NewDay ELSE daily
    /\ UNCHANGED <<server, pc, phase, l, faults, blind, unread>>

\* The process stops in a phase: its marks were not saved.
Crash ==
    /\ pc # "idle" /\ Fault(1) /\ pc' = "idle" /\ l' = NoLocals
    /\ UNCHANGED <<server, daily, phase, now, blind, unread>>

-----------------------------------------------------------------------------
(* claim_all_cars                                                          *)

\* The earliest time a car of the list can be claimed, 0 if none is out.
NextClaim(list) ==
    LET times == {list[c].sent + Ripe : c \in {d \in Cars : list[d].sent # 0}}
    IN  IF times = {} THEN 0 ELSE Min(times)

ReadCars ==
    /\ pc = "claim_read" /\ pc' = "claim"
    /\ \/ Fault(1) /\ unread' = TRUE /\ UNCHANGED l
       \/ /\ Answered /\ UNCHANGED unread
          /\ l' = [l EXCEPT !.todo = {c \in Cars : can_claim_car(server.car[c].sent)},
                            !.next = NextClaim(server.car), !.level = server.level]
    /\ UNCHANGED <<server, daily, phase, now, blind>>

\* car_claim, then the parts are counted (none if that fails).
Claim(c) ==
    /\ pc = "claim" /\ c \in l.todo
    /\ \E executed, answered, counted \in BOOLEAN, color \in Colors, reward \in Rewards :
          /\ answered => executed
          /\ ~answered => counted
          /\ Fault(Cost(answered) + Cost(counted))
          /\ server' = IF executed THEN CarClaimed(server, c, color, reward) ELSE server
          /\ l' = [l EXCEPT !.todo = @ \ {c}, !.pieces = IF answered /\ counted THEN server.pieces ELSE 0]
          /\ pc' = IF answered THEN "research" ELSE "claim"
    /\ UNCHANGED <<daily, phase, now, blind, unread>>

Affordable == l.level < Len(Prices) /\ l.pieces >= Prices[l.level + 1]

\* car_research while the parts last; the parts are counted again if possible.
Research ==
    /\ pc = "research" /\ Affordable /\ CanResearch(server)
    /\ server' = Researched(server)
    /\ \E answered, counted \in BOOLEAN :
          /\ ~answered => counted
          /\ Fault(Cost(answered) + Cost(counted))
          /\ pc' = IF answered THEN "research" ELSE "claim"
          /\ l' = IF answered THEN [l EXCEPT !.level = @ + 1, !.pieces = IF counted THEN server'.pieces ELSE @]
                  ELSE l
    /\ UNCHANGED <<daily, phase, now, blind, unread>>

\* Faulty: a refused upgrade is tried again.
ResearchRefusedRetries ==
    /\ pc = "research" /\ Affordable /\ ~CanResearch(server)
    /\ Answered /\ UNCHANGED <<server, daily, pc, phase, l, now, blind, unread>>

\* The upgrade is refused (the count of parts was old) or fails.
ResearchRefused ==
    /\ pc = "research" /\ Affordable /\ pc' = "claim"
    /\ \/ ~CanResearch(server) /\ Answered
       \/ Fault(1)
    /\ UNCHANGED <<server, daily, phase, l, now, blind, unread>>

ResearchOver ==
    /\ pc = "research" /\ ~Affordable /\ pc' = "claim"
    /\ UNCHANGED <<server, daily, phase, l, now, faults, blind, unread>>

\* In the daily phase the cars are sent next.
ClaimsToSend ==
    /\ pc = "claim" /\ l.todo = {} /\ phase = "daily" /\ pc' = "send_read"
    /\ UNCHANGED <<server, daily, phase, l, now, faults, blind, unread>>

\* In the periodic phase the claim is marked, whatever became of it.
PeriodicEnds ==
    /\ pc = "claim" /\ l.todo = {} /\ phase = "periodic" /\ pc' = "idle"
    /\ daily' = [daily EXCEPT !.claimed = TRUE, !.next = l.next] /\ l' = NoLocals
    /\ UNCHANGED <<server, phase, now, faults, blind, unread>>

-----------------------------------------------------------------------------
(* smart_send_car                                                          *)

effective_send_cnt(s) == IF s.sendDay >= Day(now) THEN s.sends ELSE 0

Sendable(s) ==
    IF ~is_car_send_window \/ effective_send_cnt(s) >= Cardinality(Cars) THEN {}
    ELSE {c \in Cars : s.car[c].sent = 0}

\* The car list (nothing is sent without it), then the tickets, the guards' counts
\* and the guards.  Without the role info there are no tickets and the role itself
\* is among the guards.
SendRead ==
    /\ pc = "send_read" /\ pc' = "send"
    /\ \/ Fault(1) /\ UNCHANGED <<l, blind>>
       \/ Answered /\ Sendable(server) = {} /\ UNCHANGED <<l, blind>>
       \/ \E role, counts, legion \in BOOLEAN :
             /\ Sendable(server) # {} /\ Fault(Cost(role) + Cost(counts) + Cost(legion))
             /\ blind' = (blind \/ ~counts)
             /\ l' = [l EXCEPT !.todo = Sendable(server), !.list = server.car,
                       !.tickets = IF role THEN server.tickets ELSE 0,
                       !.count = [m \in Members |-> IF counts THEN server.helping[m] ELSE 0],
                       !.guards = CASE ~legion -> <<>>
                                    [] legion /\ role -> Guards
                                    [] OTHER -> Append(Guards, Self)]
    /\ UNCHANGED <<server, daily, phase, now, unread>>

\* The best guard that has not reached the limit
Guard ==
    LET free == {i \in 1..Len(l.guards) : l.count[l.guards[i]] < GuardMax}
    IN  IF free = {} THEN Nobody ELSE l.guards[Min(free)]

\* Wednesday waits for a big prize, Monday and Tuesday for tickets too.
ShouldSend(car) == car.reward = "prize" \/ (Day(now) % 7 # 2 /\ car.reward = "ticket")

\* Faulty: the guard's count is not kept.
TakeCarUncounted(c) ==
    /\ pc = "send" /\ c \in l.todo
    /\ l' = [l EXCEPT !.todo = @ \ {c}, !.car = c, !.now = l.list[c],
                      !.guard = IF l.list[c].color = "red" THEN Guard ELSE Nobody]
    /\ pc' = IF ShouldSend(l.list[c]) THEN "dispatch" ELSE "refresh"
    /\ UNCHANGED <<server, daily, phase, now, faults, blind, unread>>

\* The next car: a red one gets a guard, and one with good rewards is sent at once.
TakeCar(c) ==
    /\ pc = "send" /\ c \in l.todo
    /\ LET car == l.list[c]
           guard == IF car.color = "red" THEN Guard ELSE Nobody
       IN  /\ l' = [l EXCEPT !.todo = @ \ {c}, !.car = c, !.now = car, !.guard = guard,
                       !.count = [m \in DOMAIN @ |-> IF m = guard THEN l.count[m] + 1 ELSE l.count[m]]]
           /\ pc' = IF ShouldSend(car) THEN "dispatch" ELSE "refresh"
    /\ UNCHANGED <<server, daily, phase, now, faults, blind, unread>>

Free == l.now.refreshes = 0

Refresh ==
    /\ pc = "refresh" /\ (Free \/ l.tickets > 0) /\ CanRefresh(server, l.car) /\ Answered
    /\ \E color \in Colors, reward \in Rewards :
          server' = CarRefreshed(server, l.car, color, reward)
    /\ l' = [l EXCEPT !.now = server'.car[l.car], !.tickets = IF Free THEN @ ELSE @ - 1]
    /\ pc' = IF ShouldSend(l'.now) THEN "dispatch" ELSE "refresh"
    /\ UNCHANGED <<daily, phase, now, blind, unread>>

\* A refused or failed refresh leaves the car at home.
RefreshFails ==
    /\ pc = "refresh" /\ (Free \/ l.tickets > 0) /\ pc' = "send"
    /\ \/ ~CanRefresh(server, l.car) /\ Answered /\ UNCHANGED server
       \/ Fault(1) /\ UNCHANGED server
       \/ /\ Fault(1) /\ CanRefresh(server, l.car)
          /\ \E color \in Colors, reward \in Rewards :
                server' = CarRefreshed(server, l.car, color, reward)
    /\ UNCHANGED <<daily, phase, l, now, blind, unread>>

\* Without tickets the car is sent as it is.
RefreshOver ==
    /\ pc = "refresh" /\ ~Free /\ l.tickets = 0 /\ pc' = "dispatch"
    /\ UNCHANGED <<server, daily, phase, l, now, faults, blind, unread>>

\* car_send; what became of it is only reported.
Dispatch ==
    /\ pc = "dispatch" /\ pc' = "send"
    /\ \E executed, answered \in BOOLEAN :
          /\ answered => executed
          /\ Fault(Cost(answered))
          /\ server' = IF executed THEN CarSent(server, l.car, l.guard) ELSE server
    /\ UNCHANGED <<daily, phase, l, now, blind, unread>>

\* Faulty: the cars that were out before are forgotten.
SendEndsLate ==
    /\ pc = "send" /\ l.todo = {} /\ pc' = "idle"
    /\ daily' = [daily EXCEPT !.sent = TRUE, !.next = now + Ripe]
    /\ l' = NoLocals
    /\ UNCHANGED <<server, phase, now, faults, blind, unread>>

\* The dispatch is marked, and the next claim is the earlier of what claim_all_cars
\* found and four hours from now.
SendEnds ==
    /\ pc = "send" /\ l.todo = {} /\ pc' = "idle"
    /\ daily' = [daily EXCEPT !.sent = TRUE,
                    !.next = IF l.next > 0 /\ l.next < now + Ripe THEN l.next ELSE now + Ripe]
    /\ l' = NoLocals
    /\ UNCHANGED <<server, phase, now, faults, blind, unread>>

-----------------------------------------------------------------------------

Init ==
    /\ server \in Starts /\ daily = NewDay /\ pc = "idle" /\ phase = "daily" /\ l = NoLocals
    /\ now \in {server.start} /\ faults = 0 /\ blind = FALSE /\ unread = FALSE

Next ==
    \/ StartDaily \/ StartPeriodic \/ Tick \/ Crash
    \/ ReadCars \/ (\E c \in Cars : Claim(c)) \/ Research \/ ResearchRefused \/ ResearchOver
    \/ ClaimsToSend \/ PeriodicEnds
    \/ SendRead \/ (\E c \in Cars : TakeCar(c)) \/ Refresh \/ RefreshFails \/ RefreshOver
    \/ Dispatch \/ SendEnds

Spec == Init /\ [][Next]_vars

\* The role's task is polled and every command returns, with its answer or by its
\* timeout.
FairSpec == Spec /\ WF_vars(Next)

-----------------------------------------------------------------------------
(* Properties.                                                             *)

Out == {c \in Cars : server.car[c].sent # 0}

\* Every variable has the type of the value it stands for; counts are not negative.
TypeOK ==
    /\ pc \in {"idle", "claim_read", "claim", "research", "send_read", "send", "refresh", "dispatch"}
    /\ phase \in {"daily", "periodic"}
    /\ server \in [car : [Cars -> Car], tickets : Nat, helping : [Members -> Nat], sends : Nat,
                   sendDay : Int, level : 0..Len(Prices), pieces : Nat, start : Nat]
    /\ daily \in [sent : BOOLEAN, claimed : BOOLEAN, next : Nat]
    /\ l \in [todo : SUBSET Cars, list : [{} -> Car] \cup [Cars -> Car], next : Nat,
              level : 0..Len(Prices), pieces : Nat, tickets : Nat,
              count : [{} -> Nat] \cup [Members -> Nat], guards : Seq(Members),
              car : Cars \cup {Nobody}, now : Car, guard : Members \cup {Nobody}]
    /\ now \in Nat /\ faults \in 0..MaxFaults /\ blind \in BOOLEAN /\ unread \in BOOLEAN

\* No legion member guards more cars than allowed, however the cars of one dispatch
\* share the guards, unless their counts could not be read (README.md: "each guard
\* is limited to 4 assignments").
GuardLimit == ~blind => \A m \in Members : server.helping[m] <= GuardMax

\* After the dispatch the next claim is set no later than the first car that is out
\* can be claimed, unless the list could not be read.
ClaimScheduledInTime ==
    pc = "idle" /\ daily.sent /\ ~daily.claimed /\ ~unread =>
        \A c \in Out : daily.next <= server.car[c].sent + Ripe

\* A phase ends: neither the refresh loop nor the upgrade loop runs for ever on a
\* count that is out of date.
PhaseEnds == pc # "idle" ~> pc = "idle"

\* README.md: "Claim automatically 4 hours after dispatch".  A car this program sent is
\* back one slot after it can be claimed, for rounds run in every slot.
ClaimedFourHoursLater ==
    \A c \in Out : server.car[c].sent >= server.start => now <= server.car[c].sent + Ripe + 1

-----------------------------------------------------------------------------
(* Inductive invariants behind the properties.                             *)

\* A car is being sent, or is still to be.
Sending == pc \in {"refresh", "dispatch"} \/ (pc = "send" /\ l.todo # {})

\* Local variables hold what their phase put there.
LocalsSet ==
    /\ pc \in {"idle", "claim_read"} => l = NoLocals
    /\ pc = "send_read" => l.todo = {}
    /\ Sending => l.list \in [Cars -> Car] /\ l.count \in [Members -> Nat]
    /\ pc \in {"refresh", "dispatch"} => l.car \in Cars

\* Only a dispatch that is not yet marked is under way.
PhaseKnown ==
    /\ pc \in {"send_read", "send", "refresh", "dispatch"} => phase = "daily"
    /\ pc # "idle" /\ phase = "daily" => ~daily.sent

\* The local counts include every car a member guards, the one being sent too, and
\* stay within the limit.
CountsCover ==
    ~blind /\ Sending => \A m \in Members :
        /\ l.count[m] <= GuardMax
        /\ server.helping[m] + (IF pc # "send" /\ l.guard = m THEN 1 ELSE 0) <= l.count[m]

\* A car that is out was sent just now or was seen when the list was read.
OutKnown ==
    ~unread =>
        /\ (pc = "idle" \/ phase = "periodic") /\ daily.sent /\ ~daily.claimed =>
              \A c \in Out : daily.next <= server.car[c].sent + Ripe
        /\ phase = "daily" /\ pc \notin {"idle", "claim_read"} =>
              \A c \in Out : \/ server.car[c].sent = now
                             \/ l.next > 0 /\ l.next <= server.car[c].sent + Ripe
=============================================================================
