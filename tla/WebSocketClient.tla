--------------------------- MODULE WebSocketClient --------------------------
(***************************************************************************)
(* One game connection (websocket.rs): callers that number, register and   *)
(* enqueue commands, the write task, the read task that matches responses  *)
(* to the pending map and forwards every message, the heartbeat task, and  *)
(* disconnect.  The server and the link are the environment.               *)
(*                                                                         *)
(* Each lock acquisition and each channel operation of the code is a step  *)
(* of its own, so timeouts, late, missing and repeated answers and the     *)
(* loss of the link fall anywhere between them.                            *)
(***************************************************************************)
EXTENDS Integers, Sequences

CONSTANTS
    Calls,       \* calls of send_with_response
    Fires,       \* calls of send, which wait for no answer
    OutCap,      \* capacity of the write channel (100 in the code)
    MsgCap,      \* capacity of the message channel (200 in the code)
    MaxFrames    \* bound: frames the server sends

ASSUME ClientAssumption ==
    /\ Calls \cap Fires = {}
    /\ OutCap \in Nat \ {0} /\ MsgCap \in Nat \ {0} /\ MaxFrames \in Nat

VARIABLES
    seq,         \* next sequence number
    ack,         \* the server's latest sequence number
    pending,     \* keys of the pending map
    caller,      \* per call: its position and its sequence number
    oneshot,     \* per call: what the read task put into its oneshot channel
    outcome,     \* per call: how it returned
    out,         \* the write channel
    wtask,       \* the write task
    rtask,       \* the read task
    beat,        \* the heartbeat task
    msgs,        \* messages in the channel to the caller
    client,      \* the WebSocketClient value
    link,        \* the TCP connection
    received,    \* sequence numbers the server has received
    replied,     \* the server's answers: <<seq, code>> pairs
    inbound,     \* frames on their way to the read task
    sent         \* number of frames the server has sent

vars == <<seq, ack, pending, caller, oneshot, outcome, out, wtask, rtask, beat,
          msgs, client, link, received, replied, inbound, sent>>

callers == <<caller, oneshot, outcome>>
serverSide == <<received, replied, inbound, sent, link>>
tasks == <<wtask, rtask, beat, msgs>>

Users == Calls \cup Fires
Answers == {"ok", "err"}

\* Packets in the write channel: a command, a heartbeat (seq 0), or the empty
\* packet that ends the write task
Cmd(n) == [kind |-> "cmd", seq |-> n]
Heartbeat == [kind |-> "beat", seq |-> 0]
Poison == [kind |-> "end", seq |-> 0]

At(c, pc) == caller[c].pc = pc
Goto(c, pc) == caller' = [caller EXCEPT ![c].pc = pc]

Return(c, how) ==
    /\ Goto(c, "done")
    /\ outcome' = [outcome EXCEPT ![c] = how]

\* sender.send(p).await: blocks while the channel is full, fails once the write
\* task is gone
Enqueue(p) == wtask = "run" /\ Len(out) < OutCap /\ out' = Append(out, p)
ChannelClosed == wtask = "ended"

-----------------------------------------------------------------------------
(* send and send_with_response.                                            *)

\* Faulty: reads the counter without advancing it
NumberReused(c) ==
    /\ client = "open"
    /\ At(c, "idle")
    /\ caller' = [caller EXCEPT ![c] = [pc |-> "numbered", seq |-> seq]]
    /\ outcome' = [outcome EXCEPT ![c] = "open"]
    /\ UNCHANGED <<seq, ack, pending, oneshot, out, tasks, client, serverSide>>

\* Take a sequence number
Number(c) ==
    /\ client = "open"
    /\ At(c, "idle")
    /\ caller' = [caller EXCEPT ![c] = [pc |-> "numbered", seq |-> seq]]
    /\ outcome' = [outcome EXCEPT ![c] = "open"]
    /\ seq' = seq + 1
    /\ UNCHANGED <<ack, pending, oneshot, out, tasks, client, serverSide>>

\* Insert the oneshot sender into the pending map
Register(c) ==
    /\ c \in Calls
    /\ At(c, "numbered")
    /\ pending' = pending \cup {caller[c].seq}
    /\ Goto(c, "registered")
    /\ UNCHANGED <<seq, ack, oneshot, outcome, out, tasks, client, serverSide>>

\* Hand the packet to the write task; an error returns at once and leaves the
\* entry in the pending map
Submit(c) ==
    /\ At(c, IF c \in Calls THEN "registered" ELSE "numbered")
    /\ \/ /\ Enqueue(Cmd(caller[c].seq))
          /\ IF c \in Calls THEN Goto(c, "waiting") /\ UNCHANGED outcome
                            ELSE Return(c, "sent")
       \/ ChannelClosed /\ Return(c, "closed") /\ UNCHANGED out
    /\ UNCHANGED <<seq, ack, pending, oneshot, tasks, client, serverSide>>

\* select!: the oneshot is ready
Receive(c) ==
    /\ c \in Calls
    /\ At(c, "waiting")
    /\ oneshot[c] # "none"
    /\ Return(c, oneshot[c])
    /\ UNCHANGED <<seq, ack, pending, oneshot, out, tasks, client, serverSide>>

\* Faulty: the timer is looked at only once the answer is there
ExpireLate(c) ==
    /\ At(c, "waiting")
    /\ c \in Calls /\ oneshot[c] # "none"
    /\ Goto(c, "expired")
    /\ UNCHANGED <<seq, ack, pending, oneshot, outcome, out, tasks, client, serverSide>>

\* select!: the timer is ready (it may win against a ready oneshot)
Expire(c) ==
    /\ At(c, "waiting")
    /\ Goto(c, "expired")
    /\ UNCHANGED <<seq, ack, pending, oneshot, outcome, out, tasks, client, serverSide>>

\* Faulty: leaves the entry behind
UnregisterNothing(c) ==
    /\ At(c, "expired")
    /\ Return(c, "timeout")
    /\ UNCHANGED <<seq, ack, pending, oneshot, out, tasks, client, serverSide>>

\* Remove the entry and return the timeout error
Unregister(c) ==
    /\ At(c, "expired")
    /\ pending' = pending \ {caller[c].seq}
    /\ Return(c, "timeout")
    /\ UNCHANGED <<seq, ack, oneshot, out, tasks, client, serverSide>>

CallerStep(c) ==
    Register(c) \/ Submit(c) \/ Receive(c) \/ Expire(c) \/ Unregister(c)

-----------------------------------------------------------------------------
(* The spawned tasks.                                                      *)

\* The write task sends one packet; the empty packet and a send error end it.
\* A packet written to a lost link may vanish without an error.  recv() never
\* returns None: the heartbeat task holds a sender until the channel is closed
\* or disconnect has aborted it, and then the empty packet is on its way.
WriteStep ==
    /\ wtask = "run"
    /\ out # <<>>
    /\ \/ /\ Head(out).kind = "end" \/ link = "down"
          /\ wtask' = "ended" /\ out' = <<>> /\ UNCHANGED received
       \/ /\ Head(out).kind # "end"
          /\ out' = Tail(out)
          /\ received' = IF link = "up" THEN received \cup ({Head(out).seq} \ {0}) ELSE received
          /\ UNCHANGED wtask
    /\ UNCHANGED <<seq, ack, pending, callers, rtask, beat, msgs, client,
                   replied, inbound, sent, link>>

\* The call whose registered sequence number is n
CallOf(n) == {c \in Calls : caller[c].seq = n}

\* Faulty: takes over the number of frames that carry none
ReadFrameAckAll ==
    /\ rtask = "read"
    /\ inbound # <<>>
    /\ ack' = Head(inbound).seq
    /\ inbound' = Tail(inbound)
    /\ rtask' = "forward"
    /\ UNCHANGED <<seq, pending, callers, out, wtask, beat, msgs, client,
                   received, replied, sent, link>>

\* Faulty: gives an answer to the oldest pending call, whatever it names
ReadFrameInTurn ==
    /\ rtask = "read"
    /\ inbound # <<>>
    /\ LET f == Head(inbound)
           hit == {n \in pending : f.resp # 0 /\ \A m \in pending : n <= m}
       IN /\ ack' = IF f.seq > 0 THEN f.seq ELSE ack
          /\ pending' = pending \ hit
          /\ oneshot' = [c \in Calls |-> IF caller[c].seq \in hit THEN f.code ELSE oneshot[c]]
    /\ inbound' = Tail(inbound)
    /\ rtask' = "forward"
    /\ UNCHANGED <<seq, caller, outcome, out, wtask, beat, msgs, client,
                   received, replied, sent, link>>

\* Read one frame: track the server's seq, complete a pending call.  A frame
\* that is not binary or does not parse is skipped, as if it had not been sent.
ReadFrame ==
    /\ rtask = "read"
    /\ inbound # <<>>
    /\ LET f == Head(inbound) IN
       /\ ack' = IF f.seq > 0 THEN f.seq ELSE ack
       /\ pending' = pending \ {f.resp}
       /\ oneshot' = [c \in Calls |->
                        IF f.resp \in pending /\ c \in CallOf(f.resp) THEN f.code
                        ELSE oneshot[c]]
    /\ inbound' = Tail(inbound)
    /\ rtask' = "forward"
    /\ UNCHANGED <<seq, caller, outcome, out, wtask, beat, msgs, client,
                   received, replied, sent, link>>

\* Forward the message: waits for room while the receiver lives.  Nothing in
\* the repository takes messages out of this channel.
Forward ==
    /\ rtask = "forward"
    /\ \/ client # "dropped" /\ msgs < MsgCap /\ msgs' = msgs + 1
       \/ client = "dropped" /\ UNCHANGED msgs
    /\ rtask' = "read"
    /\ UNCHANGED <<seq, ack, pending, callers, out, wtask, beat, client, serverSide>>

\* The stream ends or fails, with or without frames that were not read.  The
\* pending map is left as it is.
ReadEnd ==
    /\ rtask = "read"
    /\ link = "down"
    /\ rtask' = "ended"
    /\ UNCHANGED <<seq, ack, pending, callers, out, wtask, beat, msgs, client, serverSide>>

BeatStep ==
    /\ beat = "run"
    /\ \/ Enqueue(Heartbeat) /\ UNCHANGED beat
       \/ ChannelClosed /\ beat' = "ended" /\ UNCHANGED out
    /\ UNCHANGED <<seq, ack, pending, callers, wtask, rtask, msgs, client, serverSide>>

-----------------------------------------------------------------------------
(* disconnect, and the drop of the client with or without it.              *)

Quiet == \A c \in Users : caller[c].pc \in {"idle", "done"}

\* Faulty: the heartbeat is not aborted
DisconnectBeating ==
    /\ client = "open"
    /\ Quiet
    /\ client' = "closing"
    /\ UNCHANGED <<seq, ack, pending, callers, out, tasks, serverSide>>

Disconnect ==
    /\ client = "open"
    /\ Quiet
    /\ client' = "closing"
    /\ beat' = IF beat = "run" THEN "aborted" ELSE beat
    /\ UNCHANGED <<seq, ack, pending, callers, out, wtask, rtask, msgs, serverSide>>

\* The empty packet is in the channel, or the channel is closed
Disconnected ==
    /\ client = "closing"
    /\ Enqueue(Poison) \/ (ChannelClosed /\ UNCHANGED out)
    /\ client' = "dropped"
    /\ UNCHANGED <<seq, ack, pending, callers, tasks, serverSide>>

\* GameClient::login returns early with an error: no disconnect
DropClient ==
    /\ client = "open"
    /\ Quiet
    /\ client' = "dropped"
    /\ UNCHANGED <<seq, ack, pending, callers, out, tasks, serverSide>>

-----------------------------------------------------------------------------
(* The server and the link (external).                                     *)

\* A frame with the server's own number (0 on messages it does not number)
SendFrame(n, resp, code) ==
    /\ link = "up"
    /\ sent < MaxFrames
    /\ sent' = sent + 1
    /\ inbound' = Append(inbound, [seq |-> n, resp |-> resp, code |-> code])

\* Answer a received command; an answer may be repeated
Reply(n, resp, code) ==
    /\ resp \in received
    /\ \A a \in Answers \ {code} : <<resp, a>> \notin replied
    /\ replied' = replied \cup {<<resp, code>>}
    /\ SendFrame(n, resp, code)
    /\ UNCHANGED <<seq, ack, pending, callers, out, tasks, client, received, link>>

Push(n) ==
    /\ SendFrame(n, 0, "ok")
    /\ UNCHANGED <<seq, ack, pending, callers, out, tasks, client, received, replied, link>>

LinkLost ==
    /\ link = "up"
    /\ link' = "down"
    /\ UNCHANGED <<seq, ack, pending, callers, out, tasks, client, received, replied, inbound, sent>>

ServerStep ==
    \/ \E n \in {0, sent + 1} : Push(n)
    \/ \E n \in {0, sent + 1}, resp \in received, code \in Answers : Reply(n, resp, code)

-----------------------------------------------------------------------------

Init ==
    /\ seq = 1 /\ ack = 0 /\ pending = {}
    /\ caller = [c \in Users |-> [pc |-> "idle", seq |-> 0]]
    /\ oneshot = [c \in Calls |-> "none"]
    /\ outcome = [c \in Users |-> "idle"]
    /\ out = <<>> /\ wtask = "run" /\ rtask = "read" /\ beat = "run"
    /\ msgs = 0 /\ client = "open" /\ link = "up"
    /\ received = {} /\ replied = {} /\ inbound = <<>> /\ sent = 0

Next ==
    \/ \E c \in Users : Number(c) \/ CallerStep(c)
    \/ WriteStep \/ ReadFrame \/ Forward \/ ReadEnd \/ BeatStep
    \/ Disconnect \/ Disconnected \/ DropClient
    \/ ServerStep \/ LinkLost

Spec == Init /\ [][Next]_vars

\* The runtime polls ready tasks and timers fire; the socket accepts data or
\* fails; the channel serves waiting senders in turn (hence strong fairness
\* where a heartbeat may take the free slot).  The server is not assumed to
\* answer, nor callers to call.
Fairness ==
    /\ \A c \in Users : WF_vars(CallerStep(c)) /\ SF_vars(Submit(c))
    /\ SF_vars(Disconnected)
    /\ WF_vars(WriteStep)
    /\ WF_vars(ReadFrame) /\ WF_vars(Forward) /\ WF_vars(ReadEnd)

FairSpec == Spec /\ Fairness

-----------------------------------------------------------------------------
(* Properties.                                                             *)

Frame == [seq : Nat, resp : Nat, code : Answers]
Packet == [kind : {"cmd", "beat", "end"}, seq : Nat]

\* Every variable has the type of the Rust value it stands for.
TypeOK ==
    /\ seq \in Nat /\ ack \in Nat /\ pending \in SUBSET Nat
    /\ caller \in [Users -> [pc : {"idle", "numbered", "registered", "waiting",
                                   "expired", "done"}, seq : Nat]]
    /\ oneshot \in [Calls -> Answers \cup {"none"}]
    /\ outcome \in [Users -> {"idle", "open", "sent", "timeout", "closed"} \cup Answers]
    /\ out \in Seq(Packet)
    /\ wtask \in {"run", "ended"}
    /\ rtask \in {"read", "forward", "ended"}
    /\ beat \in {"run", "aborted", "ended"}
    /\ msgs \in Nat
    /\ client \in {"open", "closing", "dropped"}
    /\ link \in {"up", "down"}
    /\ received \in SUBSET Nat
    /\ replied \in SUBSET (Nat \X Answers)
    /\ inbound \in Seq(Frame)
    /\ sent \in Nat

\* The server's answer to a call, by its sequence number.
ServerAnswer(c) ==
    IF \E a \in Answers : <<caller[c].seq, a>> \in replied
    THEN CHOOSE a \in Answers : <<caller[c].seq, a>> \in replied
    ELSE "none"

\* A call that returns an answer returns the one the server gave to its own
\* command, never that of an earlier call whose answer came late or twice.
AnswersMatch ==
    \A c \in Calls : outcome[c] \in Answers => <<caller[c].seq, outcome[c]>> \in replied

\* No answer was delivered to the call, and it is under way or failed in Submit.
MayBePending(c) ==
    /\ oneshot[c] = "none"
    /\ caller[c].pc \in {"registered", "waiting", "expired"} \/ outcome[c] = "closed"

\* The pending map holds exactly the calls an answer can still complete: a
\* waiting call is registered or its answer is already in its oneshot channel,
\* and the only entry that outlives its call is that of a call whose packet
\* could not be handed to the write task.
RegistrationExact ==
    /\ \A c \in Calls : At(c, "waiting") => caller[c].seq \in pending \/ oneshot[c] # "none"
    /\ \A n \in pending : \E c \in Calls : caller[c].seq = n /\ MayBePending(c)

\* The acknowledged server sequence number never goes back, although some
\* frames carry none.
AckNeverRetreats == [][ack' >= ack]_vars

\* Every call returns: by its answer, its timeout or the closed channel.
CallsSettle == \A c \in Users : outcome[c] = "open" ~> outcome[c] # "open"

\* disconnect ends the write task and leaves no heartbeat behind.
DisconnectEndsTasks == client = "closing" ~> (wtask = "ended" /\ beat # "run")

-----------------------------------------------------------------------------
(* The inductive invariant behind AnswersMatch, RegistrationExact and the  *)
(* refinement, and the one behind AckNeverRetreats.                        *)

\* A sequence number is given to one call only.
NumbersUnique ==
    /\ seq > 0
    /\ \A u \in Users : caller[u].seq < seq /\ (At(u, "idle") <=> caller[u].seq = 0)
    /\ \A u, v \in Users : caller[u].seq = caller[v].seq /\ caller[u].seq # 0 => u = v

\* A call has no outcome before it ends, and has one when it has ended.
OutcomeAtEnd ==
    \A u \in Users :
        /\ At(u, "idle") <=> outcome[u] = "idle"
        /\ ~At(u, "idle") /\ ~At(u, "done") <=> outcome[u] = "open"

\* The server has seen only numbers that were given out, and gives one answer.
ServerIsCausal ==
    /\ \A i \in 1..Len(out) : out[i].seq < seq
    /\ \A n \in received : 0 < n /\ n < seq
    /\ \A p \in replied : p[1] \in received
    /\ \A p, q \in replied : p[1] = q[1] => p = q

\* Answers on the way and in oneshot channels are answers the server gave.
AnswersInFlight ==
    /\ \A i \in 1..Len(inbound) :
          inbound[i].resp # 0 => <<inbound[i].resp, inbound[i].code>> \in replied
    /\ \A c \in Calls : oneshot[c] # "none" => <<caller[c].seq, oneshot[c]>> \in replied

\* A call is registered before its packet is handed over, and no answer reaches
\* it before that.
RegisteredEarly ==
    \A c \in Calls :
        /\ At(c, "numbered") => oneshot[c] = "none"
        /\ At(c, "registered") => caller[c].seq \in pending \/ oneshot[c] # "none"

IInv ==
    /\ TypeOK /\ NumbersUnique /\ OutcomeAtEnd /\ ServerIsCausal /\ AnswersInFlight
    /\ RegisteredEarly /\ RegistrationExact /\ AnswersMatch

\* The frames on the way are numbered upwards from the last one read.
FramesInOrder ==
    /\ ack <= sent
    /\ \A i \in 1..Len(inbound) :
          inbound[i].seq <= sent /\ (inbound[i].seq # 0 => ack < inbound[i].seq)
    /\ \A i, j \in 1..Len(inbound) :
          i < j /\ inbound[i].seq # 0 /\ inbound[j].seq # 0
             => inbound[i].seq < inbound[j].seq

-----------------------------------------------------------------------------
\* The client implements the request/reply service.
Service == INSTANCE RequestReply WITH
    outcome <- [c \in Calls |-> outcome[c]],
    answer <- [c \in Calls |-> ServerAnswer(c)]

ServiceSpec == Service!Spec
=============================================================================
