# Verification of koc_core

TLA+ specifications of koc_core: the resident batch scheduler with its persistent
state, the WebSocket client every game command goes through, the daily, periodic
and car commands of a role, the recording proxy with its inspector, and the pure
functions underneath (codec, packets, text and window handling). The TLC
configurations check them on small instances; the proof modules prove every safety
property of the modules with state for every instance, with TLAPS, and what the
maintenance windows, the dream shop, the command filter and the reader of capture
files compute for every input.
`PROJECT.json` relates every definition to the lines of the repository it models.

## 1. The system

`koc_batch` is a resident process. It reads `config.yaml`, which names *bin*
files (accounts); each account has roles on game servers. Every
`check_interval_secs` it runs a round: it plans which roles need work, spawns one
tokio task per role behind a semaphore, joins them and saves `state.json`. A role
task logs in over a WebSocket of its own and runs daily, weekly and periodic
commands. `koc_cli` offers the same commands one at a time. `koc_proxy` is a
recording relay between a game client and the server.

| component | state | operations | interacts by |
|---|---|---|---|
| scheduler main loop (`scheduler.rs`) | `roles`, `bin_cache`, position in the round, policy | `init`, `run`, `execute_round`, `scan_roles` | spawns role tasks, takes the state lock, polls the watcher |
| role runner (`scheduler.rs`, `RoleRunner`) | its plan, clones of the daily and periodic state | `run_one` | semaphore permit, state lock, one client |
| persistent state (`state.rs`) | `AppState` behind an `RwLock`; `state.json` | `load`, `save`, `next_round`, `sync_with_roles`, `get_or_create`, `ensure_today`, `ensure_this_week` | shared by the loop and all role tasks |
| configuration reload (`config.rs`) | `current`, mtimes last seen | `check_reload` | polled by the main loop; the operator edits the files |
| main (`koc_batch.rs`) | - | start, `select!` of `run` and Ctrl+C | drops the scheduler |
| WebSocket client (`websocket.rs`) | `seq`, `ack`, `pending`, two channels, three tasks | `connect`, `send`, `send_with_response`, `disconnect` | mpsc and oneshot channels, locks, timers |
| login (`kpi.rs`) | role info cached at login | `login`, role info | calls of the client |
| daily tasks (`kpi.rs`, `error_codes.rs`) | the run's copy of `RoleDailyState`, the formation to restore | `run_daily_tasks_stateful` | commands; the runner writes the copy back |
| periodic tasks (`kpi.rs`) | `RolePeriodicState`, local energy, floor and box counts | `run_periodic_tasks`, `run_tower_climb`, `run_evotower_climb`, `run_mergebox_tail` | commands |
| cars (`kpi.rs`, `scheduler.rs`) | `car_send_done`, `car_claimed_today`, `next_car_claim_time`, local tickets, parts and guard counts | `claim_all_cars`, `smart_send_car` | commands; both phases of the runner |
| dream shop (`kpi.rs`) | - | purchases of a list | commands |
| quiz (`study.rs`) | the week's mark | `run_study` | commands |
| proxy relay (`proxy.rs`, `koc_proxy.rs`) | connections, two semaphores, a bounded channel, shutdown flag | accept, relay of two directions, capture, shutdown | sockets; the channel to the analyzer |
| inspector (`proxy_capture.rs`, `koc_proxy.rs`) | pending requests, command catalogue | `inspect`, `observe`, reading of capture files | the channel from the relay, files |
| codec and packets (`bon.rs`, `protocol.rs`, `crypto.rs`) | string tables, decoder limits | encode, decode, encrypt, decrypt | calls |
| configuration windows (`config.rs`) | - | normalisation of maintenance windows | calls |
| command line tools (`koc_cli.rs`, `cli_*.rs`) | - | one-shot command sequences | calls of the client |
| tokens, HTTP, logging | - | I/O | calls |

What makes it hard:

- role tasks work on clones of shared state for minutes and write them back,
  while other tasks, midnight and the main loop change it;
- every `save` truncates the file and fills it; the process may stop anywhere;
- the configuration, the bins and the role list change while the process runs,
  and a rescan may fail for one bin only;
- plans, the completion status of the login and `can_claim` are used long after
  they were computed, perhaps on another day;
- answers of the server may be late, lost or repeated, and race the timeout; the
  channels of the client are bounded;
- a command may be executed although its answer is lost, so local counts of
  energy, boxes, parts and guards and the flags of the day go out of step with the
  server, and loops and marks are decided by them;
- formations are switched and have to be put back through every error;
- the proxy's two directions, its analyzer and its shutdown race, and everything
  it keeps is limited.

What makes the components correct: marks of today stand for what was done or refused
as impossible today and are never lost by a write back; a restart between rounds loses nothing; tasks stay within
their round and the permits add up; a removed role stays removed; rounds end and
unfinished roles are tried again; an answer reaches the call it belongs to, the
pending map is exact, every call returns, and a disconnect ends the tasks it
started; a flag that follows results is set only when every command is accounted
for, and in the end is set; formations are restored; what the state notes of the server is true;
loops end; guards and cars are handled within the rules; the proxy keeps its
permits, its order and its counts, and stops; the inspector credits responses to
the right command; conversions are undone by their inverses. `PROJECT.json` lists
the hazards one by one, at their lines.

## 2. The modules

### BatchScheduler

One module for the scheduler, the state, the reload and the process, because they
share the lock, the file and the role list. Each block of code that runs under the
state's lock is one action; everything between two locks is interleaved.

| code | model |
|---|---|
| `AppState` in memory / `state.json` | `mem` / `file`, with `st` total and `keys` the existing entries: a role without an entry behaves as `RoleState::default()` |
| flags of `RoleDailyState` | a set of marks with a `date`; `CoreFlags` are those of `all_done`, `StatusFlags` those also set from the login's role info, `BlindFlags` those set whatever the command answered |
| timers of `RolePeriodicState` | `due` or `later`; time may make any timer fire (`fired` in `Collect`) |
| `save` | `Truncate`, then `WriteDone` or `WriteFail`; `writer` holds the lock meanwhile |
| `TimeWindowPolicy`, `force_all` | `policy`, fixed in `RoundStart` by one reading of the clock |
| role tasks | `task[<<role, copy>>]`, a copy per listing of its bin; one action per locked block or command sequence of `run_one` |
| semaphore | `permits`, created by `Collect`, taken in `Acquire`, given back in `Finish` |
| `check_reload`, `scan_roles`, `sync_with_roles` | `Wake`, `Reload`, `Scans`: each bin copy may fail to be scanned |
| Ctrl+C, kill, midnight, edits | `CtrlC`, `Crash`, `Tick`, `EditConfig`, `TouchBin` |

`server` and `studied` are what the game server has completed today and this
week. A command of the daily run is executed or not, and its answer is a *done
result* or not. A done result is a success or one of `DONE_ERROR_CODES`
(`error_codes.rs` 92-125), which stand for two things: the uses are up, or a
condition is not met (no club, no card, too low a level, too few items), and then
nothing was done. `do_task!` sets the flag in every such case, as `src/README.md`
826-831 says. `refused` is a history variable: what the server has refused today.
`DailyRun` is one step: a midnight inside it only dates marks with
yesterday, which no property about today depends on.

### WebSocketClient and RequestReply

`WebSocketClient` has one action per lock acquisition or channel operation of
`send`, `send_with_response`, the write, read and heartbeat tasks and
`disconnect`. Packets are their sequence numbers, answers `ok` or `err`. The
server answers commands it received, at any time, repeatedly, with one result
each, and pushes frames with or without a number of its own; the link may be lost
with data in flight. `GameClient::login` may drop the client without
`disconnect` (`DropClient`).

`RequestReply` is the promise to the callers: a call settles at most once, with
the server's answer to it, a timeout or a closed channel. `ServiceSpec` states
that the client implements it, with `answer` mapped to what the server has said
about the call's number.

`seq` is a natural number: a connection would have to issue 2^32 commands before
`u32` mattered.

### DailyTasks

`run_daily_tasks_stateful` over the rounds of one day, for any list of tasks. A
task has a rule that says when its flag is set, as in the code: by one result, by
all results, whatever the results, with the arena's early end, or in every round;
whether the role info tells if it was done or how often, the formation it fights
in, a level and whether the day or the configuration leaves it out. The tasks of
the code that differ only in their command are one task of the list: `MCDailyTasks`
has one of every kind. A command is executed (`Executed`), refused with a code that
counts as done because its uses are up or a condition is not met (`Refused`), or it
fails, executed without an answer or not executed (`Failed`). `unmet` is a history
variable: how many commands of the task in progress were refused for a condition.
`daily` is the copy of the flags, `saved` what the round
wrote back; a crash loses the difference.

### PeriodicTasks

One run of `run_periodic_tasks`: the claims of hangup, bottle and legacy, then
`run_tower_climb`, `run_evotower_climb` and `run_mergebox_tail`, with the local
copies (`climb`, `info`) beside the server's values. Every error code the code
tells apart is an action (`FightBlocked` 1500040, `FightExhausted` 1500020,
`FightCleared` 1500010, `FightLimited` 200400). Times are counted in the 1800 s
one energy takes. The legacy claim may be refused with a code that counts as done, and
`legacy_last_claim` is set all the same (`kpi.rs` 2026): the server's timer is then
`closed` or `fresh`. A run starts with any legacy timer of the state that an earlier
run can have left, the one after a lost answer included. A role below the level
of the legacy claim has its timer set without a claim. Rewards of the evo tower's chapters and tasks follow a fight and
change nothing else, so they are part of it.

### CarDispatch

The cars of one role: `claim_all_cars` with the upgrade loop, `smart_send_car` with
guards and refreshes, the daily step that runs both and the later claim of
`run_one`. The server keeps cars, tickets, parts and how many cars each legion
member guards; rewards are its choice. A phase takes no time; time passes in slots
between rounds. The order in which the cars of a list are handled is left open.
As in the code, a guard is chosen for a car that is red in the list as it was read,
not for one that turns red by a refresh.

### ProxyRelay

`run_relay` with the connection limit, `relay_connection`, `relay_direction` in
both directions, `prepare_record` and `enqueue_record` with the byte budget and the
channel, the analyzer thread and the command that waits for a signal. A frame is
its number, the request it answers, its length and whether it closes. Writing a
frame and queueing its copy is one step (`Forward`): both directions of a
connection are polled by one task, and there is no await between the two.

### CaptureInspector

`Inspector::inspect` and `CommandCatalog::observe` over records taken in order.
Bodies are their shapes. The variables `open`, `peak`, `answered` and `counted` are
not in the code: they follow the same records without any limit, and the
properties compare the two.

### Totals

The sum of a family of numbers, for the permits of the relay and the totals of the
catalogue, in a form that can be proved about (section 4).

### Functions

`BonCodec` (encoder and limited decoder), `GameProtocol` (packets, both
encryptions, base64), `CaptureShapes` (redaction and shapes), `CaptureText` (the
reader of capture files), `WildcardFilter` (the inspector's filter),
`MaintenanceWindows` and `DreamShop` are operators. Each holds a reference definition,
and `MCPureFunctions` gives them inputs. The last four are written to be proved about:
a loop is the function that gives what its variables hold after each turn (`reading`,
`scanning`, `merging`, `purchasing`), and a stable sort gives each element the place
that the number of elements up to it says. `FunctionInputs` states their properties of
a variable `input`, for the run and for the theorems. The other modules recurse as the
code does. Words of `BonCodec` have `WordBytes` bytes
instead of four, so that the borders of 32 and 64 bits are near; a string is the
bytes of its text, and what is read as one goes through `from_utf8_lossy`, which puts
three bytes for what is not UTF-8; a key that is not a string becomes a JSON text,
which is kept as the value it was made from (`KeyOf`); LZ4 frames are external, a mark before the data. A list of the dream
shop names no good twice; section 5 says what happens otherwise.

### How the modules fit together

`BatchScheduler` has the phases of a role as steps with arbitrary outcomes:
`DailyRun`, `PeriodicRun` and `ClaimCars`. `DailyTasks`, `PeriodicTasks` and
`CarDispatch` open one such step each, against a server of their own; the
assumption of `RoundsEnd` that a phase ends is what `RunEnds` and `PhaseEnds` check.
`WebSocketClient` and `RequestReply` say what a command may come back with, which
is the fault model of those modules: answered (by a result or an error code),
executed without an answer, or not executed. `ProxyRelay` puts records into the channel, and `CaptureOrder` is what
`CaptureInspector` relies on when it matches responses to requests.

### Faulty variants

A definition marked "Faulty:" stands before the definition it varies and is used
by nothing. It is a plausible mistake in that code (a dropped guard, a missing
reset, a forgotten permit). `PROJECT.json` names for every checked property a
variant under which TLC finds that property violated.

## 3. The runs

| run | instance | shows |
|---|---|---|
| `scheduler_rounds` | two roles of one bin, two permits, two days, each the end of a week | `MarksAreEarned`, `IdleDurable`, `ProgressKept` |
| `scheduler_reload` | two roles, two bins, one permit; three configurations, one with a bin listed twice; one edit, one stop, a disk that may fail; the one flag is `hangup_reward`, set whatever the answer | `TypeOK`, `PermitConservation`, `TasksBelongToRound`, `FileNotAhead`, `NoOrphanResurrected` |
| `scheduler_live` | one role listed twice, one permit, two days of three slots with dispatch and maintenance windows and a Friday; fair scheduling | `ClaimFollowsSend`, `RoundsEnd`, `UnfinishedIsRetried` |
| `client_calls` | two calls and one `send`, one-slot write channel, two frames | `AnswersMatch`, `RegistrationExact`, `AckNeverRetreats`, `ServiceSpec` |
| `client_live` | one call and one `send`, fair scheduling | `CallsSettle`, `DisconnectEndsTasks` |
| `daily_marks` | six tasks, one of every kind, three formations, two faults | `ResultMarksEarned`, `FormationsKept`, `EventuallyMarked` |
| `periodic_climbs` | sections of two floors, three floors, energy up to two, legacy timers that differ from the server's, three faults | `FormationRestored`, `NotesAreTrue`, `RunEnds` |
| `cars_dispatch` | two cars, two guards for one car each, one ticket, half a day in slots of four hours, two faults | `GuardLimit`, `ClaimScheduledInTime`, `PhaseEnds` |
| `cars_claim` | the same without faults, one car out since the day before | refutes `ClaimedFourHoursLater` (section 5) |
| `proxy_relay` | two clients, one connection, budget of two bytes, one-slot channel, two frames | `PermitsConserved`, `EveryFrameAccounted`, `CaptureOrder`, `CommandStops`, `HalfClosedEnds` |
| `inspector_limits` | six of fourteen kinds of records, two pending, two commands, three shapes, one code | `MatchingIsRight`, `ResponsesAttributed`, `CatalogConsistent` |
| `functions` | every stream of five bytes out of ten, two of which are a character in one order only, arrays that repeat a string, integers around the word borders, nested values, all masks, patterns of five characters on commands of four, files of six cut in every way, triples of windows, shops of two merchants | `RoundTripsKept`, `DecodeBounded`, `CaptureTextRight`, `BodiesRedacted`, `MaintenanceKept`, `PurchasesRight` |

Bounds. `MaxDay`, `MaxStops`, `MaxEdits`, `MaxFrames`, `MaxFaults`, `MaxTime` and
`MaxRecords` cap the environment. One midnight suffices for stale copies, because a
daily copy lives within one round and carries one date. One stop and one edit fall
between any two steps of a round; a second one meets a state the first already
reaches. Two roles give contention for one permit, and two tasks of one role come
from the bin that is listed twice. For the client, two calls are what confusing
answers takes, one slot makes every enqueue contend, and two frames allow a late or
repeated answer next to a pushed message.
In the role's modules two or three faults cover a switch and its restoration both
failing, a lost answer followed by a failed refresh, and a crash after a lost
answer; energy, floors and parts are small because a loop's turn depends only on
whether they are used up. Two cars and guards for one car each make the second car
meet a used-up guard. In the proxy a budget of two bytes is exhausted by one frame
of two or by two empty ones, each of which costs a permit, and one slot of the
channel fills with the first. In the inspector six records fill the pending map
and let a number be used again after it was evicted.
The streams of `functions` are short, and the decoder's limits are as tight: a
string, a reference to it and one value more already exceed them.
`SYMMETRY` is used only in runs without liveness, over roles of one bin and over
calls, which no definition tells apart.

`CHECK_DEADLOCK FALSE` is set where the system really stops: a dropped client, the
end of a periodic run, of the time or of the records bounded by the model, a proxy
command that has returned, a function that was given its input. The scheduler and
the daily rounds never stop by themselves, and deadlock is checked there.

Fairness. *Scheduler:* weak fairness of the main loop, of every role task, of the
boot and of a write's return. tokio polls every ready task, each network call of
the phases modelled has a timeout, and `fs::write` returns. That a phase ends is
what `RunEnds` and `PhaseEnds` check. *Client:* weak fairness of callers (their
timers fire) and tasks, and strong fairness of `Submit` and `Disconnected`, because
a tokio mpsc channel serves waiting senders in turn while a heartbeat may take the
slot. *Daily, periodic and car phases:* weak fairness of the next step as a whole:
the role's task is polled, and every command returns, with its answer or by its
timeout. In `daily_marks` it also says that the scheduler runs a round again while
flags are missing. The bound on faults is the assumption that commands stop failing
at some time. *Proxy:* weak fairness of every step that is ready or has a timeout
in the code; none of reading a frame, of accepting a client and of the signal.
Nothing is assumed of the server, the operator, the peers or the link.

## 4. The proofs

A proof module belongs to each module with state, and `FunctionProofs` to the
functions that can be proved about. The theorems hold for every set
of roles, bins, flags, calls, cars, members, connections and records, every list of
tasks, every bound, limit and capacity, under the named assumption of the module it
is about:

| assumption | says |
|---|---|
| `ConstantsAssumption` | roles and copies are finite, a configuration lists each bin a number of times, the car claim is a mark of its own |
| `ClientAssumption` | capacities are positive |
| `DailyAssumption` | no two tasks share a flag, no role has done a task more often than it may |
| `PeriodicAssumption` | sections have floors, the formations of the climbs exist, a run starts with role info of its type |
| `CarAssumption` | cars are finite, guards are members of the legion, a run starts with a garage of its type |
| `RelayAssumption` | the ranges that the command checks; connections are finite |
| `InspectorAssumption` | records have the fields of a record, limits are natural numbers, the pending map has room for one |

| theorem | argument |
|---|---|
| `BatchSchedulerProofs!TypeCorrect` | one step per action; `TypeOK` is split into what role tasks change and what they leave alone |
| `RoundsContainTasks` | `TasksBelongToRound` is inductive with `TypeOK`: only `Collect` makes tasks, from the current list, and only `Join` or a stop leaves the round |
| `PermitsConserved` | `PermitConservation` is inductive with `TypeOK`; the set of holders gains or loses exactly one task with each change of `permits` (finite-set theorems) |
| `OrphansStayRemoved` | a task writes its own role's entry, and by `TasksBelongToRound` that role is listed; every other new entry comes from `sync_with_roles` |
| `StateInvariant`, and from it `MarksAlwaysEarned`, `ClaimsFollowSends`, `FileNeverAhead`, `IdleStateDurable` | the invariant `StateInv` below, one step per action |
| `ProgressAlwaysKept` | a write back replaces an entry by a copy that, by `CopiesAhead`, has every mark of its day |
| `WebSocketClientProofs!TypeCorrect` | one step per action |
| `Inductive`, `AnswersMatchAlways`, `RegistrationAlwaysExact` | the invariant `IInv` below |
| `AckAlwaysAdvances` | `FramesInOrder`: frames in flight are numbered upwards from the acknowledged number, so the oldest one raises it or carries none |
| `ClientImplementsService` | under `IInv` every step is a step of `RequestReply` or a stutter |
| `DailyTasksProofs!DailyInvariant`, `MarksAlwaysEarned`, `FormationsAlwaysKept` | `IInv` of that module, below; one step per action |
| `PeriodicTypes`, `FormationsRestored`, `NotesAlwaysTrue` | types, `FormationKnown`, `ReadingsOld` and `WaitsBounded`, below |
| `CarTypes`, `GuardsWithinLimit`, `ClaimsScheduled` | types, `LocalsSet`, `PhaseKnown`, `CountsCover` and `OutKnown`, below |
| `RelayTypes`, `PermitsAlwaysConserved`, `FramesAlwaysAccounted`, `CaptureKeepsOrder` | types, `NotBegun`, `InHand` and `PastRead`, and sums as counted units, below |
| `InspectorTypes`, `MatchingAlwaysRight`, `ResponsesAlwaysAttributed`, `CatalogAlwaysConsistent` | `Matched`, `Good` and `Attributed`, below |
| `FunctionProofs!WindowsAlwaysRight` | `MergedFirst` holds after each turn of the merge; the days are put together one by one |
| `PurchasesAlwaysRight` | `FrontKept`: before each purchase the goods up to its place are still where they were |
| `CaptureTextAlwaysRight` | filter: `ScanInv` (returning to an earlier star would gain nothing), and `Weight` grows with every turn; reader: `ReadInv`, and every turn goes on in the file or leaves the loop |

*Client.* `AnswersMatch` alone is not inductive: that the answer in a oneshot
channel is right depends on the frame it came from, on the server having answered
that number once, and on no two calls sharing a number. Hence `IInv` adds
`NumbersUnique`, `OutcomeAtEnd`, `ServerIsCausal`, `AnswersInFlight` and, for the
pending map, `RegisteredEarly` (no answer arrives before the entry exists) to
`RegistrationExact` and `AnswersMatch`.

*Scheduler.* What memory and the file hold depends on the copies that role tasks
carry. `StateInv` says of them what the properties say of memory: nothing is dated in
the future (`Dated`), the marks of a copy that follow an answer are among what the server
did or refused today (`Settled`, `CopiesEarned`), a copy has
every mark of its day that memory has (`CopiesAhead`), a claim follows its dispatch
in copies and in the file, and a task about to claim still finds the dispatch it saw
(`ClaimsFollow`). For the file it adds that no entry outlives its removal from memory
(`FileKeys`), that file and memory agree while no task runs (`Durable`) and that a
stopped process holds nothing (`DownEmpty`).

Three of the scheduler's properties carry conditions, because they fail without
them. `CopiesAhead` needs that two tasks of one role never overlap: each bin is
listed once, or there is one permit (`Exclusive`). With a bin listed twice and two
permits the later write back drops marks of the earlier task, so `ProgressKept` and
`ClaimFollowsSend` are stated under `Exclusive`. `FileNotAhead` holds for every
configuration on a disk that does not fail; on one that may fail it is stated under
`Exclusive` and without edits of the configuration, because a failed save that
should have removed a role leaves its old entry in the file, and a later edit brings
the role back into memory without its marks.

What is refused as impossible is part of `MarksAreEarned` because the code, and
`src/README.md` 826-831, mark it. The property is about the day: the marks in memory,
the file and the copies outlive midnight, what was settled does not, and
no mark of yesterday may be dated today.

*Daily tasks.* `ResultMarksEarned` is an action property: a flag is set only in a step
in which what the server did today and what it refused for a condition in this run of
the task (`Earned`) make up the uses of the task. It cannot be an invariant, since a
refusal is not remembered after the task; the state that a reader could look at later
does not tell a mark for a refusal from one for nothing. It needs `Counts` (the role
info is never ahead of the server) and `Earning` (while every result was done, what the
server did, what it refused for a condition and the commands still to send add up to
what the task needs): a flag set at the end of a task is then earned. `FormationsKept` needs `Formation`: the formation that was read
is the one the round started in, and a switched formation is the one of the task in
progress.

*Periodic tasks.* `NotesAreTrue` says of a legacy timer that is not due that the server
has nothing to claim: it was claimed, in this run or an earlier one, or the claim is
refused for a condition. That the claim was made is not said, since the code sets the
timer on a refusal too; roles below the level of the claim are left out. It needs that what was read of the tower is old at worst,
with floors that only rise and energy that only falls (`ReadingsOld`), and that the
next climbs are never put off too far (`WaitsBounded`). `FormationRestored` needs that
a climb that switched the formation knows the one to go back to (`FormationKnown`).

*Cars.* `GuardLimit` is about the server, and the code keeps its own counts:
`CountsCover` says that they include every car a member guards, the one being sent
too. `ClaimScheduledInTime` needs `OutKnown`: a car that is out was sent just now or
was seen when the list was read.

*Relay.* The budgets are sums over connections and queued records. `Totals` defines a
sum as the number of units of a family, a set; the first part of `FunctionProofs` proves
from the theorems on finite sets what adding, removing or changing one member does to
it, so that no induction over data is needed. `EveryFrameAccounted` and `CaptureOrder` need what a
frame in hand looks like (`InHand`: its number was given out, its direction has
captured only earlier ones, a request is not yet delivered and an answer's request
is), that what was delivered or captured was read (`PastRead`), and that a direction
has not begun before its connection (`NotBegun`).

*Inspector.* `Matched` adds to `MatchingIsRight` that `peak` is at least the number of
open requests, which is why a map that never was full has lost nothing. `Good` says
of a catalogue what `CatalogConsistent` says, with the finiteness of everything that is
summed; each operation of the catalogue is shown to take a good catalogue to a good
one that has counted one event more. `ResponsesAttributed` needs `Covered`: the
responses of a command and its requests that still wait are no more than its requests,
and a command that waits without an entry came when the catalogue was full. Such a
command cannot get an entry by its response, so no entry has more responses than
requests.

*Functions.* The library states induction over numbers with an operator as parameter,
which the provers cannot instantiate. `Induction` states it for a set instead: a set
of numbers that has 0 and with each number the next has them all, from the smallest
number outside it (`Smallest`, from the well-foundedness of `<`). On it rest `LoopRuns`
(a function defined by turns exists and takes every turn) and `Ranks` (counting what
comes first numbers a finite set from 1 on without gaps), the form of the loops and the
sorts of these modules.

- *Windows.* After the first i intervals the merged ones cover the same minutes, are
  separated, and the last of them starts no later than any interval still to come
  (`MergedFirst`); the sort is needed for the last part. A time written back reads as
  the same minute (`TimeWritten`), and a day's windows are hit on that day only.
- *Dream shop.* The sort sends the purchases of a merchant from the last place to the
  first, each place once (`SentInOrder`; without a good named twice no place is asked for
  twice). A purchase moves only goods behind its place, so the front that the later
  ones look at is kept whatever fails (`FrontKept`). When none fails, each place that is
  taken out moves the goods behind it up by one (`IsWithout`).
- *Filter.* `ScanInv` says of the loop's indices that the pattern matches the command
  if and only if the rest of the pattern matches the rest of the command from the last
  star on, with what that star stands for at least as long as tried so far. `Weight`, which
  counts the text of the last star before the place in the pattern, rises with every
  turn and stays below `MaxTurns`, so the loop has ended by then.
- *Reader.* `ReadInv` says where the reader stands: the line in progress begins after a
  line's end, holds no newline and is within the limit, the lines before it are neither
  invalid nor too long, and those that are not blank were given to the callback in their
  order. A line is found too long as soon as a part of it is, wherever the buffers cut it.

The hypotheses are the types of the inputs: `WindowsInput`, `ShopInput` (lists that name
no good twice), `FilterInput` (commands without a star) and `FileInput`.

TLC checked every strengthening on the instances of section 3 before it was proved.

Only model-checked: the liveness properties, which are out of the prover's reach
(`RoundsEnd`, `UnfinishedIsRetried`, `CallsSettle`, `DisconnectEndsTasks`,
`EventuallyMarked`, `RunEnds`, `PhaseEnds`, `CommandStops`, `HalfClosedEnds`), and of
`functions` the properties of operators that recurse over nested values or byte
streams, which TLAPS does not handle: `RoundTripsKept`, `DecodeBounded` and
`BodiesRedacted`.

## 5. Where the code and its documentation differ

Shown by a run:

- `ClaimedFourHoursLater` (`cars_claim`): README line 424 says the cars are claimed
  "automatically 4 hours after dispatch". `claim_all_cars` computes the next claim
  from the list it fetched before claiming (`kpi.rs` 3356), so a car that was just
  claimed still counts as out. The time it gives is in the past, the periodic phase
  of the same run claims at once, finds nothing and sets `car_claimed_today`
  (`scheduler.rs` 340). The cars sent that day are not claimed that day.

Met while modelling, in the models as the code has it, without a run of their own:

- Ctrl+C drops running role tasks (`koc_batch.rs` 47); README line 379 says it
  waits for the current task. `CtrlC` stops the process in any state.
- A failed quiz is marked done for the week (`scheduler.rs` 282; README 441).
- A crash inside `fs::write` leaves a truncated `state.json`, which `load` replaces
  by the empty state (`state.rs` 184; README 445). The state `Torn` is that file.
- A server list that cannot be fetched during a rescan removes the state of roles
  that are still configured (`scheduler.rs` 433; README 448).
- The completion status is that of the login; after midnight yesterday's completion
  marks a task of today (`kpi.rs` 1619).
- Nothing receives from `WebSocketClient::messages`, so the read task stops after
  200 messages and later calls time out (`websocket.rs` 124).
- A login that returns early drops the client without `disconnect`; its heartbeat
  keeps the connection after the role's permit is free (`kpi.rs` 72).
- `concurrency: 0` is accepted and makes every round wait for ever
  (`scheduler.rs` 586); the runs use positive numbers.
- With a bin listed twice two tasks of one role run at once, and the later write back
  of its copy drops marks of the earlier one (`scheduler.rs` 236); and after a save
  that failed, a role that is removed and added again starts without the marks that
  `state.json` still holds for it (`state.rs` 184). The conditions of `ProgressKept`
  and `FileNotAhead` leave these cases out (section 4).
- A changed bin's mtime is recorded before the rescan, so a rescan that fails is not
  repeated (`config.rs` 735).
- A command that is refused for a condition marks its task and is not tried again
  that day, even if the condition comes to hold later (`error_codes.rs` 108-124), and a
  legacy claim refused so sets its timer (`kpi.rs` 2026). That is what README lines
  826-831 say; `ResultMarksEarned`, `MarksAreEarned` and `NotesAreTrue` count it as
  such. A role that reaches the level of the legacy claim after its timer was set
  for being below (`kpi.rs` 2031) waits for that timer; a run of `PeriodicTasks` has
  one level.
- Tasks with several fights are marked whatever the fights returned (the rules
  "best" and "arena" of `DailyTasks`); `ResultMarksEarned` is about the others.
- The merge box loop counts openings it saw answered. After a lost answer it asks
  for a box more than there are and takes every refusal for a full grid
  (`kpi.rs` 2474-2497): `RunEnds` has the exception `CountsLostBox`.
- `purchase_list` may name a good of the dream shop twice. Both purchases ask for the
  same place, and if the server moves the goods behind a bought one up, the second meets
  the next good (`kpi.rs` 2908): `PurchasesRight` is about lists without repetitions.
- The decoder charges a string by the bytes it reads, but its text can be three times
  as long (`from_utf8_lossy`, `bon.rs` 109), and a reference is charged by the text;
  binary values are charged by their bytes and become base64 text of up to four times
  as many; the JSON text of a key that is not a string is charged nowhere (`bon.rs` 392).
  `DecodeBounded` therefore bounds text by a multiple of the limit (`Growth`), and leaves
  the texts of such keys out.
- `write_i64` is wrong for negative multiples of 2^32 that need more than 32 bits
  (`bon.rs` 151): the high half is one too low. The inputs of `functions`
  leave them out.

## 6. Not modelled, and the plan

- Command line tools: sequences of commands that keep no state between calls. The
  car and daily tools call the modelled functions; `cli_tower`, `cli_evotower` and
  `cli_monthly` have loops of their own.
- Login tokens, `wx_login`, HTTP, TLS and certificates of the proxy, logging: I/O
  with external services, without state of the program.
- `hortor_crypto` is a standard cipher; question matching of the quiz is a lookup.
- In the modelled parts, `normalize_role_keys`, `round_count`, display names,
  formation names, pauses between commands and log-only state are left out.

Next: the reading of the configuration that resolves formations, the quiz, and the
loops of the command line tools that are not shared with the scheduler
(`cli_evotower`, `cli_monthly`).
