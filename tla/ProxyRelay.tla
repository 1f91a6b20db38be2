----------------------------- MODULE ProxyRelay -----------------------------
(***************************************************************************)
(* The koc_proxy relay (proxy.rs, koc_proxy.rs): the accept loop with its  *)
(* connection limit, one task per connection that relays two directions,   *)
(* the copies of frames for the analyzer under a byte budget and a bounded *)
(* channel, the analyzer, and shutdown with its grace periods.             *)
(*                                                                         *)
(* A frame is [n, re, size, close]: its frame_index, the request a server  *)
(* frame answers (0 for none), its length and whether it is a close frame. *)
(* The peers are the environment: what they send is chosen when it is read.*)
(***************************************************************************)
EXTENDS Sequences, Totals

CONSTANTS
    Conns,            \* clients that connect
    MaxConnections,   \* config.max_connections
    ByteBudget,       \* config.max_capture_queue_bytes
    Capacity,         \* channel_capacity of the capture channel
    Kinds,            \* lengths and kinds of the frames that peers send
    MaxFrames         \* bound: frames read on all connections

\* The ranges that run_relay_command and run_relay accept.
ValidConfig ==
    /\ MaxConnections \in 1..256
    /\ Capacity \in 1..4096
    /\ ByteBudget \in Nat \ {0}

ASSUME RelayAssumption ==
    /\ ValidConfig /\ IsFiniteSet(Conns)
    /\ Kinds \subseteq [size : Nat, close : BOOLEAN] /\ MaxFrames \in Nat

VARIABLES
    main,        \* run_relay_command: "select", "join", "done"
    relay,       \* run_relay: "accept", "grace", "abort", "ended", "failed"
    shutdown,    \* the value of the shutdown watch channel
    analyzer,    \* the analyzer thread: "run", "ended", "failed"
    conn,        \* per client: its place in relay_connection
    half,        \* per client and direction: relay_direction
    index,       \* per client: frame_index
    delivered,   \* per client: requests that have reached the server
    slots,       \* free permits of connection_limit
    bytes,       \* free permits of capture_budget
    captured,    \* every record ever put into the capture channel
    taken,       \* how many of them the analyzer has taken out
    dropped      \* CaptureDropCounters

vars == <<main, relay, shutdown, analyzer, conn, half, index, delivered,
          slots, bytes, captured, taken, dropped>>
process == <<main, relay, shutdown, analyzer>>
capture == <<bytes, captured, taken, dropped>>

Directions == {"c2s", "s2c"}
Frame == [n : Nat, re : Nat, size : Nat, close : BOOLEAN]
NoFrame == [n |-> 0, re |-> 0, size |-> 0, close |-> FALSE]
HalfState == [pc : {"read", "forward", "closing", "ended", "cut"}, frame : Frame, held : BOOLEAN]

Queued == Len(captured) - taken
Over == {"ended", "cut"}

\* Permits a record holds: payload_bytes = message.len().max(1)
Cost(f) == IF f.size = 0 THEN 1 ELSE f.size
\* Permits that come back when the future of a direction is dropped
HeldBy(h) == IF h.pc = "forward" /\ h.held THEN Cost(h.frame) ELSE 0

FramesRead == Total([c \in Conns |-> index[c] - 1])

Reading == [pc |-> "read", frame |-> NoFrame, held |-> FALSE]
Ended == [pc |-> "ended", frame |-> NoFrame, held |-> FALSE]
\* A direction that ended with a frame that it had read and not delivered; held
\* remembers that a copy of it had been made, which is dropped with it.
Cut(h) == [h EXCEPT !.pc = "cut"]

Active(c) == conn[c] \in {"setup", "relay"}

-----------------------------------------------------------------------------
(* The accept loop.                                                        *)

Accept(c) ==
    /\ relay = "accept" /\ conn[c] = "new"
    /\ IF slots > 0
       THEN conn' = [conn EXCEPT ![c] = "setup"] /\ slots' = slots - 1
       ELSE conn' = [conn EXCEPT ![c] = "rejected"] /\ slots' = slots
    /\ UNCHANGED <<process, half, index, delivered, capture>>

AcceptFails ==
    /\ relay = "accept" /\ relay' = "failed"
    /\ UNCHANGED <<main, shutdown, analyzer, conn, half, index, delivered, slots, capture>>

ShutdownSeen ==
    /\ relay = "accept" /\ shutdown /\ relay' = "grace"
    /\ UNCHANGED <<main, shutdown, analyzer, conn, half, index, delivered, slots, capture>>

\* All tasks were joined within the grace period, or after abort_all.
RelayEnds ==
    /\ relay \in {"grace", "abort"} /\ \A c \in Conns : ~Active(c)
    /\ relay' = "ended"
    /\ UNCHANGED <<main, shutdown, analyzer, conn, half, index, delivered, slots, capture>>

GraceExpires ==
    /\ relay = "grace" /\ \E c \in Conns : Active(c)
    /\ relay' = "abort"
    /\ UNCHANGED <<main, shutdown, analyzer, conn, half, index, delivered, slots, capture>>

\* abort_all, or the JoinSet dropped by an early return, drops the task's future:
\* its connection permit and the records in its hands are released.
AbortedHalf(h) == IF h.pc = "forward" THEN Cut(h) ELSE IF h.pc \in Over THEN h ELSE Ended

Abort(c) ==
    /\ relay \in {"abort", "failed"} /\ Active(c)
    /\ conn' = [conn EXCEPT ![c] = "ended"] /\ slots' = slots + 1
    /\ half' = [half EXCEPT ![c] = [d \in Directions |-> AbortedHalf(half[c][d])]]
    /\ bytes' = bytes + HeldBy(half[c]["c2s"]) + HeldBy(half[c]["s2c"])
    /\ UNCHANGED <<process, index, delivered, captured, taken, dropped>>

-----------------------------------------------------------------------------
(* One connection: relay_connection.                                       *)

\* The client's handshake and the upstream connection succeed.
Connect(c) ==
    /\ conn[c] = "setup" /\ conn' = [conn EXCEPT ![c] = "relay"]
    /\ half' = [half EXCEPT ![c] = [d \in Directions |-> Reading]]
    /\ UNCHANGED <<process, index, delivered, slots, capture>>

\* The handshake, the target or the upstream connection fails or times out.
SetupFails(c) ==
    /\ conn[c] = "setup"
    /\ conn' = [conn EXCEPT ![c] = "ended"] /\ slots' = slots + 1
    /\ UNCHANGED <<process, half, index, delivered, capture>>

\* Faulty: both directions are joined and neither is told of the other's end.
NeverTold(c) == FALSE

\* connection_shutdown_tx.send(true) follows the end of the first direction.
ConnectionShutdown(c) == \E d \in Directions : half[c][d].pc \in Over

\* The second direction did not end within CLOSE_GRACE_PERIOD and is dropped.
SecondExpires(c, d) ==
    /\ conn[c] = "relay" /\ ConnectionShutdown(c) /\ half[c][d].pc \notin Over
    /\ half' = [half EXCEPT ![c][d] = AbortedHalf(@)]
    /\ bytes' = bytes + HeldBy(half[c][d])
    /\ UNCHANGED <<process, conn, index, delivered, slots, captured, taken, dropped>>

ConnectionEnds(c) ==
    /\ conn[c] = "relay" /\ \A d \in Directions : half[c][d].pc \in Over
    /\ conn' = [conn EXCEPT ![c] = "ended"] /\ slots' = slots + 1
    /\ UNCHANGED <<process, half, index, delivered, capture>>

-----------------------------------------------------------------------------
(* One direction: relay_direction.                                         *)

At(c, d, pc) == conn[c] = "relay" /\ half[c][d].pc = pc

\* What a peer can send: the client anything, the server an answer to what has
\* reached it or a notification.
Arrivals(c, d) ==
    {[n |-> index[c], re |-> r, size |-> k.size, close |-> k.close] :
        r \in IF d = "c2s" THEN {0} ELSE delivered[c] \cup {0}, k \in Kinds}

\* Faulty: an exhausted budget is not counted.
prepare_silently(c, d, f) ==
    LET copy == analyzer = "run" /\ Cost(f) <= bytes
    IN  /\ half' = [half EXCEPT ![c][d] = [pc |-> "forward", frame |-> f, held |-> copy]]
        /\ bytes' = IF copy THEN bytes - Cost(f) ELSE bytes
        /\ dropped' = [dropped EXCEPT !.analyzer_closed = @ + (IF analyzer = "run" THEN 0 ELSE 1)]

\* prepare_record: a copy is made if the analyzer is there and the budget allows.
prepare_record(c, d, f) ==
    LET copy == analyzer = "run" /\ Cost(f) <= bytes
    IN  /\ half' = [half EXCEPT ![c][d] = [pc |-> "forward", frame |-> f, held |-> copy]]
        /\ bytes' = IF copy THEN bytes - Cost(f) ELSE bytes
        /\ dropped' = [queue_full |-> dropped.queue_full + (IF analyzer = "run" /\ ~copy THEN 1 ELSE 0),
                       analyzer_closed |-> dropped.analyzer_closed + (IF analyzer = "run" THEN 0 ELSE 1)]

ReadFrame(c, d) ==
    /\ At(c, d, "read") /\ FramesRead < MaxFrames
    /\ index' = [index EXCEPT ![c] = @ + 1]
    /\ \E f \in Arrivals(c, d) : prepare_record(c, d, f)
    /\ UNCHANGED <<process, conn, delivered, slots, captured, taken>>

\* The peer closed the stream, or reading it failed.
StreamEnds(c, d) ==
    /\ At(c, d, "read") /\ half' = [half EXCEPT ![c][d] = Ended]
    /\ UNCHANGED <<process, conn, index, delivered, slots, capture>>

\* The shutdown of the process or of the connection is seen: send_close follows.
SeeShutdown(c, d) ==
    /\ At(c, d, "read")
    /\ shutdown \/ ConnectionShutdown(c)
    /\ half' = [half EXCEPT ![c][d].pc = "closing"]
    /\ UNCHANGED <<process, conn, index, delivered, slots, capture>>

\* send_close returns, with the close frame sent, refused or timed out.
CloseSent(c, d) ==
    /\ At(c, d, "closing") /\ half' = [half EXCEPT ![c][d] = Ended]
    /\ UNCHANGED <<process, conn, index, delivered, slots, capture>>

Record(c, d) == [conn |-> c, dir |-> d, frame |-> half[c][d].frame]

\* Faulty: a record that does not fit keeps its permits.
enqueue_leaking(c, d) ==
    LET h == half[c][d] IN
    IF h.held /\ analyzer = "run" /\ Queued < Capacity
    THEN captured' = Append(captured, Record(c, d)) /\ UNCHANGED <<bytes, dropped>>
    ELSE /\ UNCHANGED <<captured, bytes>>
         /\ dropped' = [queue_full |-> dropped.queue_full + (IF h.held /\ analyzer = "run" THEN 1 ELSE 0),
                        analyzer_closed |-> dropped.analyzer_closed + (IF h.held /\ analyzer # "run" THEN 1 ELSE 0)]

\* enqueue_record: try_send, whose failures drop the record and its permits.
enqueue_record(c, d) ==
    LET h == half[c][d] IN
    IF h.held /\ analyzer = "run" /\ Queued < Capacity
    THEN captured' = Append(captured, Record(c, d)) /\ UNCHANGED <<bytes, dropped>>
    ELSE /\ bytes' = bytes + HeldBy(h) /\ UNCHANGED captured
         /\ dropped' = [queue_full |-> dropped.queue_full + (IF h.held /\ analyzer = "run" THEN 1 ELSE 0),
                        analyzer_closed |-> dropped.analyzer_closed + (IF h.held /\ analyzer # "run" THEN 1 ELSE 0)]

\* Faulty: the record is queued by a later step than the write.
ForwardThenRecord(c, d) ==
    /\ At(c, d, "forward")
    /\ LET f == half[c][d].frame IN
       IF d = "c2s" /\ f.n \notin delivered[c]
       THEN /\ delivered' = [delivered EXCEPT ![c] = @ \cup {f.n}]
            /\ UNCHANGED <<half, bytes, captured, dropped>>
       ELSE /\ enqueue_record(c, d) /\ UNCHANGED delivered
            /\ half' = [half EXCEPT ![c][d] = IF f.close THEN Ended ELSE Reading]
    /\ UNCHANGED <<process, conn, index, slots, taken>>

\* The frame is written and its record queued in one poll of the connection's
\* task, which also runs the other direction.  A close frame counts as written
\* when the writer is already closed, and ends the direction.
Forward(c, d) ==
    /\ At(c, d, "forward")
    /\ enqueue_record(c, d)
    /\ LET f == half[c][d].frame
           Sent(reached) == delivered' = IF reached /\ d = "c2s"
                                         THEN [delivered EXCEPT ![c] = @ \cup {f.n}] ELSE delivered
       IN  /\ half' = [half EXCEPT ![c][d] = IF f.close THEN Ended ELSE Reading]
           /\ Sent(TRUE) \/ (f.close /\ Sent(FALSE))
    /\ UNCHANGED <<process, conn, index, slots, taken>>

\* Flushing or writing fails or times out: the direction ends with an error and
\* the frame's record is dropped.
ForwardFails(c, d) ==
    /\ At(c, d, "forward")
    /\ half' = [half EXCEPT ![c][d] = Cut(@)]
    /\ bytes' = bytes + HeldBy(half[c][d])
    /\ UNCHANGED <<process, conn, index, delivered, slots, captured, taken, dropped>>

Direction(c, d) ==
    \/ ReadFrame(c, d) \/ StreamEnds(c, d) \/ SeeShutdown(c, d) \/ CloseSent(c, d)
    \/ Forward(c, d) \/ ForwardFails(c, d) \/ SecondExpires(c, d)

-----------------------------------------------------------------------------
(* The analyzer and the command.                                           *)

\* Permits of the records in the channel, which it gives back when it is dropped
QueuedBytes == Total([i \in taken + 1 .. Len(captured) |-> Cost(captured[i].frame)])

\* into_record gives the permits back before the record is processed.
Process ==
    /\ analyzer = "run" /\ Queued > 0
    /\ taken' = taken + 1 /\ bytes' = bytes + Cost(captured[taken + 1].frame)
    /\ UNCHANGED <<process, conn, half, index, delivered, slots, captured, dropped>>

\* Processing a record fails: the receiver is dropped with all it holds.
ProcessFails ==
    /\ analyzer = "run" /\ Queued > 0 /\ analyzer' = "failed"
    /\ taken' = Len(captured) /\ bytes' = bytes + QueuedBytes
    /\ UNCHANGED <<main, relay, shutdown, conn, half, index, delivered, slots, captured, dropped>>

\* All senders are gone and the channel is empty: finish().
AnalyzerEnds ==
    /\ analyzer = "run" /\ Queued = 0
    /\ relay \in {"ended", "failed"} /\ \A c \in Conns : ~Active(c)
    /\ analyzer' = "ended"
    /\ UNCHANGED <<main, relay, shutdown, conn, half, index, delivered, slots, capture>>

RelayOver == relay \in {"ended", "failed"}
AnalyzerOver == analyzer \in {"ended", "failed"}

\* Ctrl+C or SIGTERM
Signal ==
    /\ main = "select" /\ main' = "join" /\ shutdown' = TRUE
    /\ UNCHANGED <<relay, analyzer, conn, half, index, delivered, slots, capture>>

RelayReturns ==
    /\ main = "select" /\ RelayOver /\ main' = "join"
    /\ UNCHANGED <<relay, shutdown, analyzer, conn, half, index, delivered, slots, capture>>

\* Faulty: the relay is not told that the analyzer is gone.
AnalyzerReturnsQuietly ==
    /\ main = "select" /\ AnalyzerOver /\ main' = "join"
    /\ UNCHANGED <<relay, shutdown, analyzer, conn, half, index, delivered, slots, capture>>

AnalyzerReturns ==
    /\ main = "select" /\ AnalyzerOver /\ main' = "join" /\ shutdown' = TRUE
    /\ UNCHANGED <<relay, analyzer, conn, half, index, delivered, slots, capture>>

CommandEnds ==
    /\ main = "join" /\ RelayOver /\ AnalyzerOver /\ main' = "done"
    /\ UNCHANGED <<relay, shutdown, analyzer, conn, half, index, delivered, slots, capture>>

-----------------------------------------------------------------------------

Init ==
    /\ main = "select" /\ relay = "accept" /\ shutdown = FALSE /\ analyzer = "run"
    /\ conn = [c \in Conns |-> "new"]
    /\ half = [c \in Conns |-> [d \in Directions |-> Ended]]
    /\ index = [c \in Conns |-> 1] /\ delivered = [c \in Conns |-> {}]
    /\ slots = MaxConnections /\ bytes = ByteBudget
    /\ captured = <<>> /\ taken = 0
    /\ dropped = [queue_full |-> 0, analyzer_closed |-> 0]

Connection(c) ==
    \/ Connect(c) \/ SetupFails(c) \/ ConnectionEnds(c) \/ Abort(c)
    \/ \E d \in Directions : Direction(c, d)

RelayStep == ShutdownSeen \/ RelayEnds \/ GraceExpires
AnalyzerStep == Process \/ ProcessFails \/ AnalyzerEnds
MainStep == RelayReturns \/ AnalyzerReturns \/ CommandEnds

Next ==
    \/ \E c \in Conns : Accept(c) \/ Connection(c)
    \/ AcceptFails \/ RelayStep \/ AnalyzerStep \/ Signal \/ MainStep

Spec == Init /\ [][Next]_vars

\* The runtime polls ready tasks, and every wait of the code but that for the
\* next frame, the next client and the signal has a timeout.
Fairness ==
    /\ \A c \in Conns :
          /\ WF_vars(Connect(c) \/ SetupFails(c))
          /\ WF_vars(ConnectionEnds(c)) /\ WF_vars(Abort(c))
          /\ \A d \in Directions :
                /\ WF_vars(SeeShutdown(c, d))
                /\ WF_vars(Forward(c, d) \/ ForwardFails(c, d))
                /\ WF_vars(CloseSent(c, d)) /\ WF_vars(SecondExpires(c, d))
    /\ WF_vars(RelayStep) /\ WF_vars(AnalyzerStep) /\ WF_vars(MainStep)

FairSpec == Spec /\ Fairness

-----------------------------------------------------------------------------
(* Properties.                                                             *)

\* Every variable has the type of the value it stands for.
TypeOK ==
    /\ main \in {"select", "join", "done"}
    /\ relay \in {"accept", "grace", "abort", "ended", "failed"}
    /\ shutdown \in BOOLEAN /\ analyzer \in {"run", "ended", "failed"}
    /\ conn \in [Conns -> {"new", "rejected", "setup", "relay", "ended"}]
    /\ half \in [Conns -> [Directions -> HalfState]]
    /\ index \in [Conns -> Nat \ {0}] /\ delivered \in [Conns -> SUBSET Nat]
    /\ slots \in 0..MaxConnections /\ bytes \in 0..ByteBudget
    /\ captured \in Seq([conn : Conns, dir : Directions, frame : Frame])
    /\ taken \in 0..Len(captured)
    /\ dropped \in [queue_full : Nat, analyzer_closed : Nat]

\* Permits of the copies in the hands of the directions
HeldBytes == Total([p \in Conns \X Directions |-> HeldBy(half[p[1]][p[2]])])

\* Both semaphores are conserved on every path, through rejected clients, failed
\* handshakes, failed writes, expired grace periods, aborted tasks and a failing
\* analyzer: free permits and those of open connections make up max_connections,
\* free bytes and those of copies in hand and in the channel make up the budget.
PermitsConserved ==
    /\ slots + Cardinality({c \in Conns : Active(c)}) = MaxConnections
    /\ bytes + QueuedBytes + HeldBytes = ByteBudget

\* Copies whose frame was read and is not yet, or was never, written.
Unwritten == {p \in Conns \X Directions :
                 half[p[1]][p[2]].pc \in {"forward", "cut"} /\ half[p[1]][p[2]].held}

\* Every frame read is queued for the analyzer or counted as dropped, once: what
\* is missing in the printed statistics is at most the frame in the hands of a
\* direction, or the one with which it failed.
EveryFrameAccounted ==
    FramesRead
      = Len(captured) + dropped.queue_full + dropped.analyzer_closed + Cardinality(Unwritten)

\* The capture keeps the order of the conversation although frames are queued
\* after they were written and the directions race: on one connection an answer
\* never precedes the request it answers, and each direction keeps its order.
CaptureOrder ==
    \A i, j \in 1..Len(captured) :
        LET p == captured[i]  q == captured[j] IN
        p.conn = q.conn =>
            /\ p.dir = "c2s" /\ q.dir = "s2c" /\ q.frame.re = p.frame.n => i < j
            /\ p.dir = q.dir /\ p.frame.n < q.frame.n => i < j

\* The command ends once it was told to stop or one of its two tasks has ended,
\* whatever the peers do: clients that never finish the handshake are aborted.  What
\* was captured has then been analysed, unless the analyzer itself failed.
CommandStops == main = "join" ~> (main = "done" /\ (analyzer = "ended" => Queued = 0))

\* A connection whose first direction has ended ends.
HalfClosedEnds ==
    \A c \in Conns : (conn[c] = "relay" /\ \E d \in Directions : half[c][d].pc \in Over)
                         ~> conn[c] = "ended"

-----------------------------------------------------------------------------
(* What an induction needs besides the properties.                         *)

\* No direction has begun before its connection is set up.
NotBegun ==
    \A c \in Conns : conn[c] \in {"new", "setup"} => \A d \in Directions : half[c][d] = Ended

\* A frame in hand has a number that was given out, its direction has captured only
\* earlier ones, a request is not yet delivered and an answer's request is.
InHand ==
    \A c \in Conns, d \in Directions : half[c][d].pc = "forward" =>
        LET f == half[c][d].frame IN
        /\ f.n \in 1 .. index[c] - 1
        /\ IF d = "c2s" THEN f.n \notin delivered[c] ELSE f.re \in delivered[c] \cup {0}
        /\ \A i \in 1 .. Len(captured) :
              captured[i].conn = c /\ captured[i].dir = d => captured[i].frame.n < f.n

\* What was delivered or captured was read, and captured answers answer what was
\* delivered.
PastRead ==
    /\ \A c \in Conns : \A n \in delivered[c] : n < index[c]
    /\ \A i \in 1 .. Len(captured) :
          LET p == captured[i] IN
          /\ p.frame.n < index[p.conn]
          /\ p.dir = "s2c" => p.frame.re \in delivered[p.conn] \cup {0}
=============================================================================
