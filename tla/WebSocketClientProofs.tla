----------------------- MODULE WebSocketClientProofs ------------------------
(***************************************************************************)
(* Proofs about WebSocketClient for every number of calls and every        *)
(* channel capacity.                                                       *)
(***************************************************************************)
EXTENDS WebSocketClient, TLAPS

\* A channel stays a sequence of its element type when one is put in.
LEMMA PutIn == ASSUME NEW S, NEW q \in Seq(S), NEW e \in S
               PROVE  Append(q, e) \in Seq(S)
OBVIOUS

\* The first element of a channel has its type, and so have the others.
LEMMA TakeOut == ASSUME NEW S, NEW q \in Seq(S), q # <<>>
                 PROVE  Head(q) \in S /\ Tail(q) \in Seq(S)
OBVIOUS

\* Every step of the client, its server and its link preserves the types.
LEMMA TypeStep == TypeOK /\ [Next]_vars => TypeOK'
<1> SUFFICES ASSUME TypeOK, [Next]_vars
             PROVE  TypeOK'
  OBVIOUS
<1> USE DEF TypeOK, callers, serverSide, tasks
<1>1. ASSUME NEW c \in Users, Number(c) PROVE TypeOK'
  BY <1>1 DEF Number, At
<1>2. ASSUME NEW c \in Users, Register(c) PROVE TypeOK'
  BY <1>2 DEF Register, At, Goto, Users
<1>3. ASSUME NEW c \in Users, Submit(c) PROVE TypeOK'
  <2>1. Cmd(caller[c].seq) \in Packet
    BY DEF Cmd, Packet
  <2>2. caller' \in [Users -> [pc : {"idle", "numbered", "registered", "waiting",
                                 "expired", "done"}, seq : Nat]]
    <3>1. PICK pc \in {"waiting", "done"} : caller' = [caller EXCEPT ![c].pc = pc]
      BY <1>3 DEF Submit, Goto, Return
    <3>2. QED
      BY <3>1
  <2>3. out' \in Seq(Packet)
    <3>1. Append(out, Cmd(caller[c].seq)) \in Seq(Packet)
      BY <2>1, PutIn
    <3>2. out' \in {out, Append(out, Cmd(caller[c].seq))}
      BY <1>3 DEF Submit, Enqueue
    <3>3. QED
      BY <3>1, <3>2
  <2>4. outcome' \in [Users -> {"idle", "open", "sent", "timeout", "closed"} \cup Answers]
    BY <1>3 DEF Submit, Return
  <2>5. QED
    BY <1>3, <2>2, <2>3, <2>4 DEF Submit
<1>4. ASSUME NEW c \in Users, Receive(c) PROVE TypeOK'
  <2>1. c \in Calls /\ oneshot[c] \in Answers
    BY <1>4 DEF Receive
  <2>2. QED
    BY <1>4, <2>1 DEF Receive, At, Goto, Return
<1>5. ASSUME NEW c \in Users, Expire(c) PROVE TypeOK'
  BY <1>5 DEF Expire, At, Goto
<1>6. ASSUME NEW c \in Users, Unregister(c) PROVE TypeOK'
  BY <1>6 DEF Unregister, At, Goto, Return
<1>7. ASSUME WriteStep PROVE TypeOK'
  <2>1. Head(out) \in Packet /\ Tail(out) \in Seq(Packet) /\ <<>> \in Seq(Packet)
    BY <1>7, TakeOut DEF WriteStep
  <2>2. out' \in Seq(Packet)
    BY <1>7, <2>1 DEF WriteStep
  <2>3. received' \in SUBSET Nat
    BY <1>7, <2>1 DEF WriteStep, Packet
  <2>4. QED
    BY <1>7, <2>2, <2>3 DEF WriteStep
<1>9. ASSUME ReadFrame PROVE TypeOK'
  <2>1. Head(inbound) \in Frame /\ inbound' \in Seq(Frame)
    BY <1>9, TakeOut DEF ReadFrame
  <2>2. oneshot' \in [Calls -> Answers \cup {"none"}]
    BY <1>9, <2>1 DEF ReadFrame, Frame
  <2>3. ack' \in Nat /\ pending' \in SUBSET Nat
    BY <1>9, <2>1 DEF ReadFrame, Frame
  <2>4. QED
    BY <1>9, <2>1, <2>2, <2>3 DEF ReadFrame
<1>10. ASSUME Forward PROVE TypeOK'
  BY <1>10 DEF Forward
<1>11. ASSUME ReadEnd PROVE TypeOK'
  BY <1>11 DEF ReadEnd
<1>12. ASSUME BeatStep PROVE TypeOK'
  <2>1. Heartbeat \in Packet
    BY DEF Heartbeat, Packet
  <2>2. out' \in Seq(Packet)
    <3>1. Append(out, Heartbeat) \in Seq(Packet)
      BY <2>1, PutIn
    <3>2. out' \in {out, Append(out, Heartbeat)}
      BY <1>12 DEF BeatStep, Enqueue
    <3>3. QED
      BY <3>1, <3>2
  <2>3. QED
    BY <1>12, <2>2 DEF BeatStep
<1>13. ASSUME Disconnect PROVE TypeOK'
  BY <1>13 DEF Disconnect
<1>14. ASSUME Disconnected PROVE TypeOK'
  <2>1. Poison \in Packet
    BY DEF Poison, Packet
  <2>2. out' \in Seq(Packet)
    <3>1. Append(out, Poison) \in Seq(Packet)
      BY <2>1, PutIn
    <3>2. out' \in {out, Append(out, Poison)}
      BY <1>14 DEF Disconnected, Enqueue
    <3>3. QED
      BY <3>1, <3>2
  <2>3. QED
    BY <1>14, <2>2 DEF Disconnected
<1>15. ASSUME DropClient PROVE TypeOK'
  BY <1>15 DEF DropClient
<1>16. ASSUME NEW n \in {0, sent + 1}, Push(n) PROVE TypeOK'
  BY <1>16 DEF Push, SendFrame, Frame, Answers
<1>17. ASSUME NEW n \in {0, sent + 1}, NEW resp \in received, NEW code \in Answers,
              Reply(n, resp, code)
       PROVE TypeOK'
  <2>0. n \in Nat /\ resp \in Nat
    OBVIOUS
  <2>1. [seq |-> n, resp |-> resp, code |-> code] \in Frame
    BY <2>0 DEF Frame
  <2>2. inbound' \in Seq(Frame)
    <3>1. Append(inbound, [seq |-> n, resp |-> resp, code |-> code]) \in Seq(Frame)
      BY <2>1, PutIn
    <3>2. QED
      BY <1>17, <3>1 DEF Reply, SendFrame
  <2>3. replied' \in SUBSET (Nat \X Answers)
    <3>1. <<resp, code>> \in Nat \X Answers
      OBVIOUS
    <3>2. replied' = replied \cup {<<resp, code>>}
      BY <1>17 DEF Reply
    <3>3. QED
      BY <3>1, <3>2
  <2>4. QED
    BY <1>17, <2>2, <2>3 DEF Reply, SendFrame
<1>18. ASSUME LinkLost PROVE TypeOK'
  BY <1>18 DEF LinkLost
<1>19. CASE UNCHANGED vars
  BY <1>19 DEF vars
<1>20. QED
  BY <1>1, <1>2, <1>3, <1>4, <1>5, <1>6, <1>7, <1>9, <1>10, <1>11, <1>12,
     <1>13, <1>14, <1>15, <1>16, <1>17, <1>18, <1>19
     DEF Next, CallerStep, ServerStep

\* The client's variables always have their types.
THEOREM TypeCorrect == Spec => []TypeOK
<1>1. Init => TypeOK
  BY ClientAssumption DEF Init, TypeOK, Users, Answers, Packet, Frame
<1>2. QED
  BY <1>1, TypeStep, PTL DEF Spec

-----------------------------------------------------------------------------
(* The inductive invariant.                                                *)

Core ==
    /\ NumbersUnique /\ OutcomeAtEnd /\ ServerIsCausal /\ AnswersInFlight
    /\ RegisteredEarly /\ RegistrationExact /\ AnswersMatch

coreVars == <<seq, pending, caller, oneshot, outcome, out, received, replied, inbound>>

\* Core depends on these variables only.
LEMMA CoreFrame == ASSUME Core, UNCHANGED coreVars
                   PROVE  Core'
<1>0. UNCHANGED <<seq, pending, caller, oneshot, outcome, out, received, replied, inbound>>
  BY DEF coreVars
<1>1. NumbersUnique' /\ OutcomeAtEnd'
  BY <1>0 DEF Core, NumbersUnique, OutcomeAtEnd, At
<1>2. ServerIsCausal'
  BY <1>0 DEF Core, ServerIsCausal
<1>3. AnswersInFlight' /\ AnswersMatch'
  BY <1>0 DEF Core, AnswersInFlight, AnswersMatch
<1>4. RegisteredEarly'
  BY <1>0 DEF Core, RegisteredEarly, At
<1>5. RegistrationExact'
  BY <1>0 DEF Core, RegistrationExact, MayBePending, At
<1>6. QED
  BY <1>1, <1>2, <1>3, <1>4, <1>5 DEF Core

\* Taking a number keeps numbers unique and leaves every answer where it was.
LEMMA NumberStep == ASSUME TypeOK, Core, NEW c \in Users, Number(c)
                    PROVE  Core'
<1> USE DEF TypeOK, Core, Number, At, callers, tasks, serverSide
<1>0. caller[c].seq = 0 /\ caller'[c] = [pc |-> "numbered", seq |-> seq] /\ seq' = seq + 1
      /\ (\A u \in Users \ {c} : caller'[u] = caller[u])
  BY DEF NumbersUnique
<1>1. NumbersUnique'
  BY <1>0 DEF NumbersUnique
<1>2. OutcomeAtEnd'
  BY <1>0 DEF OutcomeAtEnd
<1>3. ServerIsCausal'
  <2>1. \A i \in 1..Len(out) : out[i].seq \in Nat
    <3>1. out \in Seq(Packet)
      OBVIOUS
    <3> HIDE DEF TypeOK, Core, Number
    <3>2. \A i \in 1..Len(out) : out[i] \in Packet
      BY <3>1
    <3>3. QED
      BY <3>2 DEF Packet
  <2>2. \A i \in 1..Len(out) : out[i].seq < seq + 1
    <3>1. \A i \in 1..Len(out) : out[i].seq < seq
      BY DEF ServerIsCausal
    <3>2. seq \in Nat
      OBVIOUS
    <3> HIDE DEF TypeOK, Core, Number
    <3>3. QED
      BY <2>1, <3>1, <3>2
  <2>3. \A n \in received : 0 < n /\ n < seq + 1
    <3>1. \A n \in received : n \in Nat /\ 0 < n /\ n < seq
      BY DEF ServerIsCausal
    <3>2. seq \in Nat
      OBVIOUS
    <3> HIDE DEF TypeOK, Core, Number
    <3>3. QED
      BY <3>1, <3>2
  <2>4. UNCHANGED <<out, received, replied>>
    OBVIOUS
  <2>5. (\A p \in replied : p[1] \in received) /\ (\A p, q \in replied : p[1] = q[1] => p = q)
    BY DEF ServerIsCausal
  <2> HIDE DEF TypeOK, Core, Number
  <2>6. QED
    BY <1>0, <2>2, <2>3, <2>4, <2>5 DEF ServerIsCausal
<1>4. c \in Calls => oneshot[c] = "none"
  <2>1. <<0, oneshot[c]>> \notin replied
    BY DEF ServerIsCausal
  <2>2. QED
    BY <1>0, <2>1 DEF AnswersInFlight
<1>5. AnswersInFlight'
  BY <1>0, <1>4 DEF AnswersInFlight, Users
<1>6. RegisteredEarly'
  BY <1>0, <1>4 DEF RegisteredEarly, Users
<1>7. RegistrationExact'
  <2>1. \A d \in Calls : At(d, "waiting")' => d # c /\ At(d, "waiting")
    BY <1>0 DEF Users
  <2>2. ASSUME NEW n \in pending
        PROVE  \E d \in Calls : (caller[d].seq = n /\ MayBePending(d))'
    <3>1. PICK d \in Calls : caller[d].seq = n /\ MayBePending(d)
      BY <2>2 DEF RegistrationExact
    <3>2. d # c
      BY <3>1 DEF OutcomeAtEnd, MayBePending
    <3>3. QED
      BY <3>1, <3>2, <1>0 DEF Users, MayBePending
  <2>3. QED
    BY <1>0, <2>1, <2>2 DEF RegistrationExact, Users
<1>8. AnswersMatch'
  BY <1>0 DEF AnswersMatch, Users, Answers
<1>9. QED
  BY <1>1, <1>2, <1>3, <1>5, <1>6, <1>7, <1>8

\* A call c moves to pc with the outcome how, and no number, answer or frame
\* changes.
Moves(c, pc, how) ==
    /\ caller' = [caller EXCEPT ![c].pc = pc]
    /\ outcome' = [outcome EXCEPT ![c] = how]
    /\ ~At(c, "idle") /\ pc # "idle" /\ how # "idle"
    /\ pc # "done" <=> how = "open"
    /\ UNCHANGED <<seq, oneshot, received, replied, inbound>>

\* What a move leaves as it was.
LEMMA MoveFrame == ASSUME TypeOK, NEW c \in Users, NEW pc, NEW how, Moves(c, pc, how)
                   PROVE  /\ caller'[c].pc = pc /\ outcome'[c] = how
                          /\ \A u \in Users : caller'[u].seq = caller[u].seq
                          /\ \A u \in Users : u # c => caller'[u] = caller[u]
                                                       /\ outcome'[u] = outcome[u]
BY DEF TypeOK, Moves

\* A move keeps the parts of the invariant that do not speak of the pending map.
LEMMA MoveStep == ASSUME TypeOK, Core, NEW c \in Users, NEW pc, NEW how, Moves(c, pc, how)
                  PROVE  NumbersUnique' /\ OutcomeAtEnd' /\ AnswersInFlight'
<1>0. /\ caller'[c].pc = pc /\ outcome'[c] = how
      /\ \A u \in Users : caller'[u].seq = caller[u].seq
      /\ \A u \in Users : u # c => caller'[u] = caller[u] /\ outcome'[u] = outcome[u]
  BY MoveFrame
<1>1. NumbersUnique'
  <2>1. NumbersUnique /\ seq' = seq /\ caller[c].pc # "idle" /\ pc # "idle"
    BY DEF Core, Moves, At
  <2>2. QED
    BY <1>0, <2>1 DEF NumbersUnique, At
<1>2. OutcomeAtEnd'
  <2>1. OutcomeAtEnd /\ pc # "idle" /\ how # "idle" /\ (pc # "done" <=> how = "open")
    BY DEF Core, Moves
  <2>2. QED
    BY <1>0, <2>1 DEF OutcomeAtEnd, At
<1>3. AnswersInFlight'
  BY <1>0 DEF AnswersInFlight, Core, Moves, Users
<1>4. QED
  BY <1>1, <1>2, <1>3

\* ServerIsCausal survives a packet that carries a number given out before.
LEMMA OutStep == ASSUME TypeOK, Core, NEW p \in Packet, p.seq < seq,
                        out' \in {out, Append(out, p)},
                        UNCHANGED <<seq, received, replied>>
                 PROVE  ServerIsCausal'
<1>1. ServerIsCausal /\ out \in Seq(Packet)
  BY DEF Core, TypeOK
<1>2. \A i \in 1..Len(out') : out'[i].seq < seq
  <2>1. CASE out' = out
    BY <1>1, <2>1 DEF ServerIsCausal
  <2>2. CASE out' = Append(out, p)
    <3>1. ASSUME NEW i \in 1..Len(out') PROVE out'[i].seq < seq
      <4>1. CASE i \in 1..Len(out)
        <5>1. out'[i] = out[i]
          BY <1>1, <2>2, <4>1
        <5>2. QED
          BY <1>1, <4>1, <5>1 DEF ServerIsCausal
      <4>2. CASE i = Len(out) + 1
        <5>1. out'[i] = p
          BY <1>1, <2>2, <4>2
        <5>2. QED
          BY <5>1
      <4>3. QED
        BY <1>1, <2>2, <3>1, <4>1, <4>2
    <3>2. QED
      BY <3>1
  <2>3. QED
    BY <2>1, <2>2
<1>3. QED
  BY <1>1, <1>2 DEF ServerIsCausal

\* An entry of the pending map that belongs to another call than the moving one
\* still belongs to it after the move.
LEMMA OtherEntry == ASSUME TypeOK, Core, NEW c \in Users, NEW pc, NEW how, Moves(c, pc, how),
                           NEW d \in Calls, d # c, MayBePending(d)
                    PROVE  MayBePending(d)' /\ caller'[d].seq = caller[d].seq
BY MoveFrame DEF Moves, MayBePending, Users

\* The owner of an entry of the pending map.
LEMMA EntryOwner == ASSUME Core, NEW n \in pending
                    PROVE  \E d \in Calls : caller[d].seq = n /\ MayBePending(d)
BY DEF Core, RegistrationExact

\* Registering only adds the caller's own number to the pending map.
LEMMA RegisterStep == ASSUME TypeOK, Core, NEW c \in Users, Register(c)
                      PROVE  Core'
<1>0. /\ c \in Calls /\ caller[c].pc = "numbered" /\ outcome[c] = "open"
      /\ pending' = pending \cup {caller[c].seq}
      /\ UNCHANGED <<seq, oneshot, outcome, out, received, replied, inbound>>
  BY DEF Register, At, Core, OutcomeAtEnd, serverSide
<1>1. Moves(c, "registered", "open")
  BY <1>0 DEF Moves, Register, Goto, At, TypeOK
<1>2. /\ caller'[c].pc = "registered"
      /\ \A u \in Users : caller'[u].seq = caller[u].seq
      /\ \A u \in Users : u # c => caller'[u] = caller[u]
  BY <1>1, MoveFrame
<1>3. NumbersUnique' /\ OutcomeAtEnd' /\ AnswersInFlight'
  BY <1>1, MoveStep
<1>4. ServerIsCausal'
  BY <1>0 DEF Core, ServerIsCausal
<1>5. RegisteredEarly'
  BY <1>0, <1>2 DEF Core, RegisteredEarly, Users, At
<1>6. RegistrationExact'
  <2>1. \A d \in Calls : At(d, "waiting")' => caller'[d].seq \in pending' \/ oneshot'[d] # "none"
    BY <1>0, <1>2 DEF Core, RegistrationExact, Users, At
  <2>2. oneshot[c] = "none"
    BY <1>0 DEF Core, RegisteredEarly, At
  <2>3. ASSUME NEW n \in pending'
        PROVE  \E d \in Calls : caller'[d].seq = n /\ MayBePending(d)'
    <3>1. CASE n = caller[c].seq
      BY <3>1, <2>2, <1>0, <1>2 DEF MayBePending
    <3>2. CASE n \in pending /\ n # caller[c].seq
      <4>1. PICK d \in Calls : caller[d].seq = n /\ MayBePending(d)
        BY <3>2, EntryOwner
      <4>2. QED
        BY <3>2, <4>1, <1>1, OtherEntry
    <3>3. QED
      BY <1>0, <3>1, <3>2
  <2>4. QED
    BY <2>1, <2>3 DEF RegistrationExact
<1>7. AnswersMatch'
  BY <1>0, <1>2 DEF Core, AnswersMatch, Users
<1>8. QED
  BY <1>3, <1>4, <1>5, <1>6, <1>7 DEF Core

\* Handing over the packet, or failing to.
LEMMA SubmitStep == ASSUME TypeOK, Core, NEW c \in Users, Submit(c)
                    PROVE  Core'
<1>0. /\ caller[c].pc \in {"registered", "numbered"}
      /\ c \in Calls => caller[c].pc = "registered"
      /\ UNCHANGED <<seq, pending, oneshot, received, replied, inbound>>
  BY DEF Submit, At, serverSide
<1>1. outcome[c] = "open"
  BY <1>0 DEF Core, OutcomeAtEnd, At
<1>2. PICK pc \in {"waiting", "done"}, how \in {"open", "sent", "closed"} :
         /\ Moves(c, pc, how)
         /\ c \in Calls => how # "sent"
  <2>1. CASE c \in Calls /\ Goto(c, "waiting") /\ UNCHANGED outcome
    BY <1>0, <1>1, <2>1 DEF Moves, Goto, At, TypeOK
  <2>2. CASE c \notin Calls /\ Return(c, "sent")
    BY <1>0, <1>1, <2>2 DEF Moves, Goto, Return, At
  <2>3. CASE Return(c, "closed")
    BY <1>0, <1>1, <2>3 DEF Moves, Goto, Return, At
  <2>4. QED
    BY <2>1, <2>2, <2>3 DEF Submit
<1>3. /\ caller'[c].pc = pc /\ outcome'[c] = how /\ (pc # "done" <=> how = "open")
      /\ \A u \in Users : caller'[u].seq = caller[u].seq
      /\ \A u \in Users : u # c => caller'[u] = caller[u] /\ outcome'[u] = outcome[u]
  BY <1>2, MoveFrame DEF Moves
<1>4. NumbersUnique' /\ OutcomeAtEnd' /\ AnswersInFlight'
  BY <1>2, MoveStep
<1>5. ServerIsCausal'
  <2>1. Cmd(caller[c].seq) \in Packet /\ Cmd(caller[c].seq).seq < seq
    BY DEF Cmd, Packet, TypeOK, Core, NumbersUnique
  <2>2. out' \in {out, Append(out, Cmd(caller[c].seq))}
    BY DEF Submit, Enqueue
  <2>3. QED
    BY <1>0, <2>1, <2>2, OutStep
<1>6. RegisteredEarly'
  BY <1>0, <1>3 DEF Core, RegisteredEarly, Users, At
<1>7. RegistrationExact'
  <2>1. ASSUME NEW d \in Calls, At(d, "waiting")'
        PROVE  caller'[d].seq \in pending' \/ oneshot'[d] # "none"
    <3>1. CASE d = c
      BY <3>1, <1>0, <1>3 DEF Core, RegisteredEarly, At
    <3>2. CASE d # c
      BY <2>1, <3>2, <1>0, <1>3 DEF Core, RegistrationExact, Users, At
    <3>3. QED
      BY <3>1, <3>2
  <2>2. ASSUME NEW n \in pending'
        PROVE  \E d \in Calls : caller'[d].seq = n /\ MayBePending(d)'
    <3>1. PICK d \in Calls : caller[d].seq = n /\ MayBePending(d)
      BY <1>0, EntryOwner
    <3>2. CASE d = c
      BY <3>1, <3>2, <1>0, <1>2, <1>3 DEF MayBePending
    <3>3. CASE d # c
      BY <3>1, <3>3, <1>2, OtherEntry
    <3>4. QED
      BY <3>2, <3>3
  <2>3. QED
    BY <2>1, <2>2 DEF RegistrationExact
<1>8. AnswersMatch'
  BY <1>0, <1>2, <1>3 DEF Core, AnswersMatch, Users, Answers
<1>9. QED
  BY <1>4, <1>5, <1>6, <1>7, <1>8 DEF Core

\* A call that takes its answer has left the pending map before.
LEMMA ReceiveStep == ASSUME TypeOK, Core, NEW c \in Users, Receive(c)
                     PROVE  Core'
<1>0. /\ c \in Calls /\ caller[c].pc = "waiting" /\ oneshot[c] \in Answers
      /\ UNCHANGED <<seq, pending, oneshot, out, received, replied, inbound>>
  BY DEF Receive, At, TypeOK, serverSide
<1>1. Moves(c, "done", oneshot[c])
  BY <1>0 DEF Moves, Receive, Return, Goto, At, Answers
<1>2. /\ caller'[c].pc = "done" /\ outcome'[c] = oneshot[c]
      /\ \A u \in Users : caller'[u].seq = caller[u].seq
      /\ \A u \in Users : u # c => caller'[u] = caller[u] /\ outcome'[u] = outcome[u]
  BY <1>1, MoveFrame
<1>3. NumbersUnique' /\ OutcomeAtEnd' /\ AnswersInFlight'
  BY <1>1, MoveStep
<1>4. ServerIsCausal'
  BY <1>0 DEF Core, ServerIsCausal
<1>5. RegisteredEarly'
  BY <1>0, <1>2 DEF Core, RegisteredEarly, Users, At
<1>6. RegistrationExact'
  <2>1. \A d \in Calls : At(d, "waiting")' => caller'[d].seq \in pending' \/ oneshot'[d] # "none"
    BY <1>0, <1>2 DEF Core, RegistrationExact, Users, At
  <2>2. ASSUME NEW n \in pending'
        PROVE  \E d \in Calls : caller'[d].seq = n /\ MayBePending(d)'
    <3>1. PICK d \in Calls : caller[d].seq = n /\ MayBePending(d)
      BY <1>0, EntryOwner
    <3>2. d # c
      BY <3>1, <1>0 DEF MayBePending, Answers
    <3>3. QED
      BY <3>1, <3>2, <1>1, OtherEntry
  <2>3. QED
    BY <2>1, <2>2 DEF RegistrationExact
<1>7. AnswersMatch'
  <2>1. <<caller[c].seq, oneshot[c]>> \in replied
    BY <1>0 DEF Core, AnswersInFlight, Answers
  <2>2. QED
    BY <2>1, <1>0, <1>2 DEF Core, AnswersMatch, Users
<1>8. QED
  BY <1>3, <1>4, <1>5, <1>6, <1>7 DEF Core

\* The timer fires: the call is still entitled to its entry.
LEMMA ExpireStep == ASSUME TypeOK, Core, NEW c \in Users, Expire(c)
                    PROVE  Core'
<1>0. /\ caller[c].pc = "waiting" /\ outcome[c] = "open"
      /\ UNCHANGED <<seq, pending, oneshot, outcome, out, received, replied, inbound>>
  BY DEF Expire, At, Core, OutcomeAtEnd, serverSide
<1>1. Moves(c, "expired", "open")
  BY <1>0 DEF Moves, Expire, Goto, At, TypeOK
<1>2. /\ caller'[c].pc = "expired"
      /\ \A u \in Users : caller'[u].seq = caller[u].seq
      /\ \A u \in Users : u # c => caller'[u] = caller[u]
  BY <1>1, MoveFrame
<1>3. NumbersUnique' /\ OutcomeAtEnd' /\ AnswersInFlight'
  BY <1>1, MoveStep
<1>4. ServerIsCausal'
  BY <1>0 DEF Core, ServerIsCausal
<1>5. RegisteredEarly'
  BY <1>0, <1>2 DEF Core, RegisteredEarly, Users, At
<1>6. RegistrationExact'
  <2>1. \A d \in Calls : At(d, "waiting")' => caller'[d].seq \in pending' \/ oneshot'[d] # "none"
    BY <1>0, <1>2 DEF Core, RegistrationExact, Users, At
  <2>2. ASSUME NEW n \in pending'
        PROVE  \E d \in Calls : caller'[d].seq = n /\ MayBePending(d)'
    <3>1. PICK d \in Calls : caller[d].seq = n /\ MayBePending(d)
      BY <1>0, EntryOwner
    <3>2. CASE d = c
      BY <3>1, <3>2, <1>0, <1>2 DEF MayBePending
    <3>3. CASE d # c
      BY <3>1, <3>3, <1>1, OtherEntry
    <3>4. QED
      BY <3>2, <3>3
  <2>3. QED
    BY <2>1, <2>2 DEF RegistrationExact
<1>7. AnswersMatch'
  BY <1>0, <1>2 DEF Core, AnswersMatch, Users
<1>8. QED
  BY <1>3, <1>4, <1>5, <1>6, <1>7 DEF Core

\* Removing the entry takes away the caller's own number only.
LEMMA UnregisterStep == ASSUME TypeOK, Core, NEW c \in Users, Unregister(c)
                        PROVE  Core'
<1>0. /\ caller[c].pc = "expired" /\ pending' = pending \ {caller[c].seq}
      /\ UNCHANGED <<seq, oneshot, out, received, replied, inbound>>
  BY DEF Unregister, At, serverSide
<1>1. Moves(c, "done", "timeout")
  BY <1>0 DEF Moves, Unregister, Return, Goto, At
<1>2. /\ caller'[c].pc = "done" /\ outcome'[c] = "timeout"
      /\ \A u \in Users : caller'[u].seq = caller[u].seq
      /\ \A u \in Users : u # c => caller'[u] = caller[u] /\ outcome'[u] = outcome[u]
  BY <1>1, MoveFrame
<1>3. NumbersUnique' /\ OutcomeAtEnd' /\ AnswersInFlight'
  BY <1>1, MoveStep
<1>4. ServerIsCausal'
  BY <1>0 DEF Core, ServerIsCausal
<1>5. \A d \in Calls : d # c => caller[d].seq # caller[c].seq
  BY <1>0 DEF Core, NumbersUnique, At, Users
<1>6. RegisteredEarly'
  BY <1>0, <1>2, <1>5 DEF Core, RegisteredEarly, Users, At
<1>7. RegistrationExact'
  <2>1. \A d \in Calls : At(d, "waiting")' => caller'[d].seq \in pending' \/ oneshot'[d] # "none"
    BY <1>0, <1>2, <1>5 DEF Core, RegistrationExact, Users, At
  <2>2. ASSUME NEW n \in pending'
        PROVE  \E d \in Calls : caller'[d].seq = n /\ MayBePending(d)'
    <3>1. n \in pending /\ n # caller[c].seq
      BY <1>0
    <3>2. PICK d \in Calls : caller[d].seq = n /\ MayBePending(d)
      BY <3>1, EntryOwner
    <3>3. QED
      BY <3>1, <3>2, <1>1, OtherEntry
  <2>3. QED
    BY <2>1, <2>2 DEF RegistrationExact
<1>8. AnswersMatch'
  BY <1>0, <1>2 DEF Core, AnswersMatch, Users, Answers
<1>9. QED
  BY <1>3, <1>4, <1>6, <1>7, <1>8 DEF Core

\* The parts of the invariant that a step of a spawned task or of the server
\* leaves alone.
calling == <<seq, pending, caller, oneshot, outcome>>

\* The parts that speak of the callers depend on these variables only.
LEMMA CallingFrame == ASSUME Core, UNCHANGED calling
                      PROVE  /\ NumbersUnique' /\ OutcomeAtEnd' /\ RegisteredEarly'
                             /\ RegistrationExact'
<1>0. UNCHANGED <<seq, pending, caller, oneshot, outcome>>
  BY DEF calling
<1>1. NumbersUnique' /\ OutcomeAtEnd'
  BY <1>0 DEF Core, NumbersUnique, OutcomeAtEnd, At
<1>2. RegisteredEarly'
  BY <1>0 DEF Core, RegisteredEarly, At
<1>3. RegistrationExact'
  BY <1>0 DEF Core, RegistrationExact, MayBePending, At
<1>4. QED
  BY <1>1, <1>2, <1>3

\* The write task delivers only numbers that were given out.
LEMMA WriteStepCore == ASSUME TypeOK, Core, WriteStep
                       PROVE  Core'
<1>0. UNCHANGED calling /\ UNCHANGED <<replied, inbound>>
  BY DEF WriteStep, calling, callers
<1>1. NumbersUnique' /\ OutcomeAtEnd' /\ RegisteredEarly' /\ RegistrationExact'
  BY <1>0, CallingFrame
<1>2. ServerIsCausal'
  <2>1. out \in Seq(Packet) /\ out # <<>> /\ received \subseteq Nat /\ seq \in Nat
        /\ ServerIsCausal /\ seq' = seq
    BY <1>0 DEF WriteStep, TypeOK, Core, calling
  <2>2. Head(out) = out[1] /\ 1 \in 1..Len(out) /\ Head(out) \in Packet
    BY <2>1
  <2>3. Head(out).seq < seq /\ Head(out).seq \in Nat
    BY <2>1, <2>2 DEF ServerIsCausal, Packet
  <2>4. out' = <<>> \/ out' = Tail(out)
    BY DEF WriteStep
  <2>5. received' \in {received, received \cup ({Head(out).seq} \ {0})}
    BY DEF WriteStep
  <2>6. \A i \in 1..Len(out') : out'[i].seq < seq
    <3>1. CASE out' = <<>>
      BY <3>1
    <3>2. CASE out' = Tail(out)
      <4>1. ASSUME NEW i \in 1..Len(out') PROVE out'[i] = out[i + 1] /\ i + 1 \in 1..Len(out)
        BY <2>1, <3>2, <4>1
      <4>2. QED
        BY <2>1, <4>1 DEF ServerIsCausal
    <3>3. QED
      BY <2>4, <3>1, <3>2
  <2>7. \A n \in received' : 0 < n /\ n < seq
    BY <2>1, <2>3, <2>5 DEF ServerIsCausal
  <2>8. \A p \in replied : p[1] \in received'
    BY <2>1, <2>5 DEF ServerIsCausal
  <2>9. QED
    BY <1>0, <2>1, <2>6, <2>7, <2>8 DEF ServerIsCausal
<1>3. AnswersInFlight' /\ AnswersMatch'
  BY <1>0 DEF Core, AnswersInFlight, AnswersMatch, calling
<1>4. QED
  BY <1>1, <1>2, <1>3 DEF Core

\* Heartbeats and the closing packet carry no number.
LEMMA PacketStepCore == ASSUME TypeOK, Core, BeatStep \/ Disconnected
                        PROVE  Core'
<1>0. UNCHANGED calling /\ UNCHANGED <<received, replied, inbound>>
  BY DEF BeatStep, Disconnected, calling, callers, serverSide
<1>1. NumbersUnique' /\ OutcomeAtEnd' /\ RegisteredEarly' /\ RegistrationExact'
  BY <1>0, CallingFrame
<1>2. PICK p \in {Heartbeat, Poison} : out' \in {out, Append(out, p)}
  BY DEF BeatStep, Disconnected, Enqueue
<1>3. ServerIsCausal'
  <2>1. p \in Packet /\ p.seq < seq
    BY DEF Heartbeat, Poison, Packet, Core, NumbersUnique
  <2>2. QED
    BY <1>0, <1>2, <2>1, OutStep DEF calling
<1>4. AnswersInFlight' /\ AnswersMatch'
  BY <1>0 DEF Core, AnswersInFlight, AnswersMatch, calling
<1>5. QED
  BY <1>1, <1>3, <1>4 DEF Core

\* A frame that answers a pending call reaches the one call that waits for it.
LEMMA ReadFrameCore == ASSUME TypeOK, Core, ReadFrame
                       PROVE  Core'
<1> DEFINE f == Head(inbound)
           hit(d) == f.resp \in pending /\ caller[d].seq = f.resp
<1>0. /\ UNCHANGED <<seq, caller, outcome, out, received, replied>>
      /\ pending' = pending \ {f.resp}
      /\ inbound' = Tail(inbound)
      /\ inbound \in Seq(Frame) /\ inbound # <<>>
      /\ \A d \in Calls : oneshot'[d] = IF hit(d) THEN f.code ELSE oneshot[d]
  BY DEF ReadFrame, TypeOK, CallOf
<1>1. f = inbound[1] /\ 1 \in 1..Len(inbound) /\ f \in Frame
  BY <1>0
<1>2. f.code \in Answers /\ f.resp \in Nat /\ f.code # "none"
  BY <1>1 DEF Frame, Answers
<1>3. ASSUME NEW d \in Calls, hit(d)
      PROVE  /\ MayBePending(d) /\ caller[d].seq # 0
             /\ <<caller[d].seq, f.code>> \in replied
  <2>1. PICK e \in Calls : caller[e].seq = f.resp /\ MayBePending(e)
    BY <1>3, EntryOwner
  <2>2. ~At(e, "idle")
    BY <2>1 DEF MayBePending, Core, OutcomeAtEnd, At, Users
  <2>3. caller[e].seq # 0
    BY <2>2 DEF Core, NumbersUnique, Users
  <2>4. d = e
    BY <1>3, <2>1, <2>3 DEF Core, NumbersUnique, Users
  <2>5. <<f.resp, f.code>> \in replied
    BY <1>1, <2>1, <2>3 DEF Core, AnswersInFlight
  <2>6. QED
    BY <1>3, <2>1, <2>3, <2>4, <2>5
<1> HIDE DEF f, hit
<1>4. NumbersUnique' /\ OutcomeAtEnd' /\ ServerIsCausal' /\ AnswersMatch'
  BY <1>0 DEF Core, NumbersUnique, OutcomeAtEnd, ServerIsCausal, AnswersMatch, At
<1>5. AnswersInFlight'
  <2>1. ASSUME NEW i \in 1..Len(inbound'), inbound'[i].resp # 0
        PROVE  <<inbound'[i].resp, inbound'[i].code>> \in replied
    <3>1. inbound'[i] = inbound[i + 1] /\ i + 1 \in 1..Len(inbound)
      BY <1>0, <2>1
    <3>2. QED
      BY <2>1, <3>1 DEF Core, AnswersInFlight
  <2>2. \A d \in Calls : oneshot'[d] # "none" => <<caller[d].seq, oneshot'[d]>> \in replied
    BY <1>0, <1>3 DEF Core, AnswersInFlight
  <2>3. QED
    BY <1>0, <2>1, <2>2 DEF AnswersInFlight
<1>6. \A d \in Calls : caller[d].seq \in pending /\ caller[d].seq \notin pending' => hit(d)
  BY <1>0 DEF hit
<1>7. RegisteredEarly'
  <2>1. ASSUME NEW d \in Calls, At(d, "numbered") PROVE ~hit(d)
    <3>1. SUFFICES ASSUME hit(d) PROVE FALSE
      OBVIOUS
    <3>2. MayBePending(d)
      BY <1>3, <3>1
    <3>3. QED
      BY <2>1, <3>2 DEF MayBePending, At, Core, OutcomeAtEnd, Users
  <2>2. QED
    BY <1>0, <1>2, <1>6, <2>1 DEF Core, RegisteredEarly, At
<1>8. RegistrationExact'
  <2>1. ASSUME NEW d \in Calls, At(d, "waiting")
        PROVE  caller[d].seq \in pending' \/ oneshot'[d] # "none"
    BY <1>0, <1>2, <1>6, <2>1 DEF Core, RegistrationExact
  <2>2. ASSUME NEW n \in pending'
        PROVE  \E d \in Calls : caller'[d].seq = n /\ MayBePending(d)'
    <3>1. PICK d \in Calls : caller[d].seq = n /\ MayBePending(d)
      BY <1>0, EntryOwner
    <3>2. ~hit(d)
      BY <1>0, <3>1 DEF hit
    <3>3. QED
      BY <1>0, <3>1, <3>2 DEF MayBePending
  <2>3. QED
    BY <1>0, <2>1, <2>2 DEF RegistrationExact, At
<1>9. QED
  BY <1>4, <1>5, <1>7, <1>8 DEF Core

\* A frame that names no call, or one whose answer the server has given, is an
\* answer the server gave.
LEMMA FrameStep == ASSUME TypeOK, Core, NEW f \in Frame,
                          inbound' = Append(inbound, f),
                          replied \subseteq replied',
                          f.resp # 0 => <<f.resp, f.code>> \in replied',
                          UNCHANGED <<caller, oneshot, outcome>>
                   PROVE  AnswersInFlight' /\ AnswersMatch'
<1>1. inbound \in Seq(Frame) /\ AnswersInFlight /\ AnswersMatch
  BY DEF TypeOK, Core
<1>2. ASSUME NEW i \in 1..Len(inbound'), inbound'[i].resp # 0
      PROVE  <<inbound'[i].resp, inbound'[i].code>> \in replied'
  <2>1. CASE i \in 1..Len(inbound)
    <3>1. inbound'[i] = inbound[i]
      BY <1>1, <2>1
    <3>2. QED
      BY <1>1, <1>2, <2>1, <3>1 DEF AnswersInFlight
  <2>2. CASE i = Len(inbound) + 1
    <3>1. inbound'[i] = f
      BY <1>1, <2>2
    <3>2. QED
      BY <1>2, <3>1
  <2>3. Len(inbound) \in Nat /\ Len(inbound') = Len(inbound) + 1 /\ i \in 1..(Len(inbound) + 1)
    BY <1>1, <1>2
  <2>4. i \in 1..Len(inbound) \/ i = Len(inbound) + 1
    BY <2>3
  <2>5. QED
    BY <2>1, <2>2, <2>4
<1>3. QED
  BY <1>1, <1>2 DEF AnswersInFlight, AnswersMatch

\* A push names no call.
LEMMA PushCore == ASSUME TypeOK, Core, NEW n \in {0, sent + 1}, Push(n)
                  PROVE  Core'
<1>0. UNCHANGED calling /\ UNCHANGED <<out, received, replied>>
  BY DEF Push, calling, callers
<1>1. NumbersUnique' /\ OutcomeAtEnd' /\ RegisteredEarly' /\ RegistrationExact'
  BY <1>0, CallingFrame
<1>2. ServerIsCausal'
  BY <1>0 DEF Core, ServerIsCausal, calling
<1>3. [seq |-> n, resp |-> 0, code |-> "ok"] \in Frame
  BY DEF Frame, Answers, TypeOK
<1>4. inbound' = Append(inbound, [seq |-> n, resp |-> 0, code |-> "ok"])
  BY DEF Push, SendFrame
<1>5. AnswersInFlight' /\ AnswersMatch'
  BY <1>0, <1>3, <1>4, FrameStep DEF calling
<1>6. QED
  BY <1>1, <1>2, <1>5 DEF Core

\* The server answers a command it has received, with one answer.
LEMMA ReplyCore == ASSUME TypeOK, Core, NEW n \in {0, sent + 1}, NEW resp \in received,
                          NEW code \in Answers, Reply(n, resp, code)
                   PROVE  Core'
<1>0. UNCHANGED calling /\ UNCHANGED <<out, received>>
  BY DEF Reply, calling, callers
<1>1. NumbersUnique' /\ OutcomeAtEnd' /\ RegisteredEarly' /\ RegistrationExact'
  BY <1>0, CallingFrame
<1>2. /\ replied' = replied \cup {<<resp, code>>}
      /\ \A a \in Answers \ {code} : <<resp, a>> \notin replied
      /\ inbound' = Append(inbound, [seq |-> n, resp |-> resp, code |-> code])
  BY DEF Reply, SendFrame
<1>3. ServerIsCausal'
  <2>1. ServerIsCausal /\ replied \subseteq Nat \X Answers
    BY DEF Core, TypeOK
  <2>2. \A p \in replied' : p[1] \in received
    BY <1>2, <2>1 DEF ServerIsCausal
  <2>3. ASSUME NEW p \in replied, p[1] = resp PROVE p = <<resp, code>>
    <3>1. p = <<p[1], p[2]>> /\ p[2] \in Answers
      BY <2>1
    <3>2. p[2] = code
      BY <1>2, <2>3, <3>1
    <3>3. QED
      BY <2>3, <3>1, <3>2
  <2>4. \A p, q \in replied' : p[1] = q[1] => p = q
    BY <1>2, <2>1, <2>3 DEF ServerIsCausal
  <2>5. QED
    BY <1>0, <2>1, <2>2, <2>4 DEF ServerIsCausal, calling
<1>4. n \in Nat /\ resp \in Nat
  BY DEF TypeOK
<1>5. [seq |-> n, resp |-> resp, code |-> code] \in Frame
  BY <1>4 DEF Frame
<1>6. AnswersInFlight' /\ AnswersMatch'
  BY <1>0, <1>2, <1>5, FrameStep DEF calling
<1>7. QED
  BY <1>1, <1>3, <1>6 DEF Core

\* Every step preserves the invariant.
LEMMA CoreStep == TypeOK /\ Core /\ [Next]_vars => Core'
<1> SUFFICES ASSUME TypeOK, Core, [Next]_vars PROVE Core'
  OBVIOUS
<1>1. ASSUME NEW c \in Users, Number(c) \/ CallerStep(c) PROVE Core'
  BY <1>1, NumberStep, RegisterStep, SubmitStep, ReceiveStep, ExpireStep, UnregisterStep
     DEF CallerStep
<1>2. CASE Forward \/ ReadEnd \/ Disconnect \/ DropClient \/ LinkLost
  <2>1. UNCHANGED coreVars
    BY <1>2 DEF Forward, ReadEnd, Disconnect, DropClient, LinkLost, coreVars,
                callers, serverSide
  <2>2. QED
    BY <2>1, CoreFrame
<1>3. CASE ServerStep
  BY <1>3, PushCore, ReplyCore DEF ServerStep
<1>4. CASE UNCHANGED vars
  BY <1>4, CoreFrame DEF vars, coreVars
<1>5. QED
  BY <1>1, <1>2, <1>3, <1>4, WriteStepCore, ReadFrameCore, PacketStepCore DEF Next

\* The invariant holds in the state WebSocketClient::connect leaves behind.
LEMMA CoreInit == Init => Core
<1> SUFFICES ASSUME Init PROVE Core
  OBVIOUS
<1>1. \A u \in Users : caller[u] = [pc |-> "idle", seq |-> 0] /\ outcome[u] = "idle"
  BY DEF Init
<1>2. NumbersUnique /\ OutcomeAtEnd
  BY <1>1 DEF Init, NumbersUnique, OutcomeAtEnd, At
<1>3. ServerIsCausal /\ AnswersInFlight
  BY DEF Init, ServerIsCausal, AnswersInFlight
<1>4. RegisteredEarly /\ RegistrationExact /\ AnswersMatch
  BY <1>1 DEF Init, RegisteredEarly, RegistrationExact, AnswersMatch, At, Users, Answers
<1>5. QED
  BY <1>2, <1>3, <1>4 DEF Core

\* The inductive invariant is one.
THEOREM Inductive == Spec => []IInv
<1>1. Init => TypeOK /\ Core
  BY CoreInit, ClientAssumption DEF Init, TypeOK, Users, Answers, Packet, Frame
<1>2. TypeOK /\ Core /\ [Next]_vars => TypeOK' /\ Core'
  BY TypeStep, CoreStep
<1>3. TypeOK /\ Core => IInv
  BY DEF IInv, Core
<1>4. QED
  BY <1>1, <1>2, <1>3, PTL DEF Spec

\* A call of send_with_response that returns an answer returns the server's
\* answer to its own command.
THEOREM AnswersMatchAlways == Spec => []AnswersMatch
BY Inductive, PTL DEF IInv

\* The pending map holds exactly the calls an answer can still complete.
THEOREM RegistrationAlwaysExact == Spec => []RegistrationExact
BY Inductive, PTL DEF IInv

-----------------------------------------------------------------------------
(* The acknowledged server number.                                         *)

\* The frames FramesInOrder speaks of only change when the server sends one or
\* the read task takes one.
LEMMA OrderFrame == ASSUME FramesInOrder, UNCHANGED <<ack, inbound, sent>>
                    PROVE  FramesInOrder'
BY DEF FramesInOrder

\* A frame numbered above all earlier ones keeps the order.
LEMMA OrderSend == ASSUME TypeOK, FramesInOrder, NEW f \in Frame, f.seq \in {0, sent + 1},
                          inbound' = Append(inbound, f), sent' = sent + 1, UNCHANGED ack
                   PROVE  FramesInOrder'
<1>1. inbound \in Seq(Frame) /\ sent \in Nat /\ ack \in Nat /\ Len(inbound) \in Nat
  BY DEF TypeOK
<1>2. Len(inbound') = Len(inbound) + 1
  BY <1>1
<1>3. \A i \in 1..Len(inbound) : inbound'[i] = inbound[i] /\ inbound[i].seq \in Nat
  <2>1. ASSUME NEW i \in 1..Len(inbound) PROVE inbound'[i] = inbound[i] /\ inbound[i] \in Frame
    BY <1>1
  <2>2. QED
    BY <2>1 DEF Frame
<1>4. inbound'[Len(inbound) + 1] = f
  BY <1>1
<1>5. ack' <= sent'
  BY <1>1 DEF FramesInOrder
<1>6. ASSUME NEW i \in 1..Len(inbound')
      PROVE  /\ inbound'[i].seq <= sent'
             /\ inbound'[i].seq # 0 => ack' < inbound'[i].seq
  <2>1. CASE i \in 1..Len(inbound)
    BY <1>1, <1>3, <2>1 DEF FramesInOrder
  <2>2. CASE i = Len(inbound) + 1
    BY <1>1, <1>4, <2>2 DEF FramesInOrder
  <2>3. QED
    BY <1>1, <1>2, <2>1, <2>2
<1>7. ASSUME NEW i \in 1..Len(inbound'), NEW j \in 1..Len(inbound'), i < j,
             inbound'[i].seq # 0, inbound'[j].seq # 0
      PROVE  inbound'[i].seq < inbound'[j].seq
  <2>0. i \in 1..Len(inbound)
    BY <1>1, <1>2, <1>7
  <2>1. CASE j \in 1..Len(inbound)
    BY <1>3, <1>7, <2>0, <2>1 DEF FramesInOrder
  <2>2. CASE j = Len(inbound) + 1
    <3>1. inbound'[j].seq = sent + 1
      BY <1>4, <1>7, <2>2
    <3>2. inbound'[i].seq <= sent /\ inbound'[i].seq \in Nat
      BY <1>3, <2>0 DEF FramesInOrder
    <3>3. QED
      BY <1>1, <3>1, <3>2
  <2>3. QED
    BY <1>1, <1>2, <2>1, <2>2
<1>8. QED
  BY <1>5, <1>6, <1>7 DEF FramesInOrder

\* Reading takes the oldest frame, whose number is the least.
LEMMA OrderRead == ASSUME TypeOK, FramesInOrder, ReadFrame
                   PROVE  FramesInOrder' /\ ack' >= ack
<1>1. inbound \in Seq(Frame) /\ inbound # <<>> /\ sent \in Nat /\ ack \in Nat
      /\ Len(inbound) \in Nat /\ sent' = sent /\ inbound' = Tail(inbound)
  BY DEF TypeOK, ReadFrame
<1>2. Head(inbound) = inbound[1] /\ 1 \in 1..Len(inbound)
  BY <1>1
<1>3. \A i \in 1..Len(inbound) : inbound[i].seq \in Nat
  <2>1. \A i \in 1..Len(inbound) : inbound[i] \in Frame
    BY <1>1
  <2>2. QED
    BY <2>1 DEF Frame
<1>4. ack' = IF inbound[1].seq > 0 THEN inbound[1].seq ELSE ack
  BY <1>2 DEF ReadFrame
<1>5. \A i \in 1..Len(inbound') : inbound'[i] = inbound[i + 1] /\ i + 1 \in 1..Len(inbound)
  BY <1>1
<1>6. ack' >= ack /\ ack' <= sent'
  BY <1>1, <1>2, <1>3, <1>4 DEF FramesInOrder
<1>7. ASSUME NEW i \in 1..Len(inbound')
      PROVE  /\ inbound'[i].seq <= sent'
             /\ inbound'[i].seq # 0 => ack' < inbound'[i].seq
  <2>1. /\ inbound[i + 1].seq <= sent
        /\ inbound[i + 1].seq # 0 => ack < inbound[i + 1].seq
    BY <1>5 DEF FramesInOrder
  <2>2. inbound[i + 1].seq # 0 /\ inbound[1].seq # 0 => inbound[1].seq < inbound[i + 1].seq
    <3>1. 1 < i + 1
      BY <1>7
    <3>2. QED
      BY <1>2, <1>5, <3>1 DEF FramesInOrder
  <2>3. QED
    BY <1>1, <1>2, <1>3, <1>4, <1>5, <2>1, <2>2
<1>8. ASSUME NEW i \in 1..Len(inbound'), NEW j \in 1..Len(inbound'), i < j,
             inbound'[i].seq # 0, inbound'[j].seq # 0
      PROVE  inbound'[i].seq < inbound'[j].seq
  <2>1. i + 1 < j + 1
    BY <1>8
  <2>2. QED
    BY <1>5, <1>8, <2>1 DEF FramesInOrder
<1>9. QED
  BY <1>6, <1>7, <1>8 DEF FramesInOrder

\* Every step keeps the order and does not lower the acknowledged number.
LEMMA OrderStep == TypeOK /\ FramesInOrder /\ [Next]_vars => FramesInOrder' /\ ack' >= ack
<1> SUFFICES ASSUME TypeOK, FramesInOrder, [Next]_vars PROVE FramesInOrder' /\ ack' >= ack
  OBVIOUS
<1>0. ack \in Nat
  BY DEF TypeOK
<1>1. ASSUME NEW n \in {0, sent + 1}, NEW resp \in Nat, NEW code \in Answers,
             SendFrame(n, resp, code), UNCHANGED ack
      PROVE  FramesInOrder' /\ ack' >= ack
  <2>1. n \in Nat
    BY DEF TypeOK
  <2>2. [seq |-> n, resp |-> resp, code |-> code] \in Frame
    BY <2>1 DEF Frame
  <2>3. FramesInOrder'
    BY <1>1, <2>2, OrderSend DEF SendFrame
  <2>4. QED
    BY <1>0, <1>1, <2>3
<1>2. CASE ServerStep
  <2>1. ASSUME NEW n \in {0, sent + 1}, Push(n) PROVE FramesInOrder' /\ ack' >= ack
    <3>1. SendFrame(n, 0, "ok") /\ UNCHANGED ack /\ "ok" \in Answers
      BY <2>1 DEF Push, Answers
    <3>2. QED
      BY <1>1, <3>1
  <2>2. ASSUME NEW n \in {0, sent + 1}, NEW resp \in received, NEW code \in Answers,
               Reply(n, resp, code)
        PROVE  FramesInOrder' /\ ack' >= ack
    <3>1. SendFrame(n, resp, code) /\ UNCHANGED ack /\ resp \in Nat
      BY <2>2 DEF Reply, TypeOK
    <3>2. QED
      BY <1>1, <3>1
  <2>3. QED
    BY <1>2, <2>1, <2>2 DEF ServerStep
<1>3. CASE ReadFrame
  BY <1>3, OrderRead
<1>4. CASE UNCHANGED <<ack, inbound, sent>>
  BY <1>0, <1>4, OrderFrame
<1>5. ASSUME NEW c \in Users, Number(c) \/ CallerStep(c)
      PROVE  UNCHANGED <<ack, inbound, sent>>
  BY <1>5 DEF CallerStep, Number, Register, Submit, Receive, Expire, Unregister, serverSide
<1>6. CASE WriteStep \/ Forward \/ ReadEnd \/ BeatStep
  BY <1>4, <1>6 DEF WriteStep, Forward, ReadEnd, BeatStep, serverSide
<1>7. CASE Disconnect \/ Disconnected \/ DropClient \/ LinkLost
  BY <1>4, <1>7 DEF Disconnect, Disconnected, DropClient, LinkLost, serverSide
<1>8. CASE UNCHANGED vars
  BY <1>4, <1>8 DEF vars
<1>9. QED
  BY <1>2, <1>3, <1>4, <1>5, <1>6, <1>7, <1>8 DEF Next

\* The acknowledged number that every packet repeats to the server never goes
\* back.
THEOREM AckAlwaysAdvances == Spec => AckNeverRetreats
<1>1. Init => FramesInOrder
  BY DEF Init, FramesInOrder
<1>2. QED
  BY <1>1, TypeCorrect, OrderStep, PTL DEF Spec, AckNeverRetreats

-----------------------------------------------------------------------------
(* The client implements the request/reply service.                        *)

\* The answer of a call is the one the server gave to its number ...
LEMMA AnswerIs == ASSUME Core, NEW c \in Calls, NEW a \in Answers,
                         <<caller[c].seq, a>> \in replied
                  PROVE  ServerAnswer(c) = a
<1>1. \A b \in Answers : <<caller[c].seq, b>> \in replied => b = a
  BY DEF Core, ServerIsCausal
<1>2. (CHOOSE b \in Answers : <<caller[c].seq, b>> \in replied) = a
  BY <1>1
<1>3. QED
  BY <1>2 DEF ServerAnswer

\* ... and none before.
LEMMA NoAnswer == ASSUME NEW c \in Calls, \A a \in Answers : <<caller[c].seq, a>> \notin replied
                  PROVE  ServerAnswer(c) = "none"
BY DEF ServerAnswer

\* The answers depend on the numbers and on what the server has said.
LEMMA AnswerFrame == ASSUME UNCHANGED replied, NEW c \in Calls, caller'[c].seq = caller[c].seq
                     PROVE  ServerAnswer(c)' = ServerAnswer(c)
BY DEF ServerAnswer

settled == [c \in Calls |-> outcome[c]]
answers == [c \in Calls |-> ServerAnswer(c)]

\* A move of a call is no step of the service, or settles the call.
LEMMA MoveService == ASSUME TypeOK, Core, NEW c \in Users, NEW pc, NEW how, Moves(c, pc, how),
                            outcome[c] = "open",
                            c \in Calls => how \in {"open", "timeout", "closed"} \cup Answers,
                            how \in Answers /\ c \in Calls => <<caller[c].seq, how>> \in replied
                     PROVE  [Service!Next]_(Service!vars)
<1>0. /\ outcome'[c] = how
      /\ \A u \in Users : caller'[u].seq = caller[u].seq
      /\ \A u \in Users : u # c => outcome'[u] = outcome[u]
  BY MoveFrame
<1>1. answers' = answers
  BY <1>0, AnswerFrame DEF answers, Moves, Users
<1>2. CASE c \notin Calls \/ how = "open"
  <2>1. settled' = settled
    BY <1>0, <1>2 DEF settled, Users
  <2>2. QED
    BY <1>1, <2>1 DEF Service!vars, settled, answers
<1>3. CASE c \in Calls /\ how # "open"
  <2>1. settled' = [settled EXCEPT ![c] = how]
    BY <1>0, <1>3 DEF settled, Users
  <2>2. how \in Answers => answers[c] = how
    BY <1>3, AnswerIs DEF answers
  <2>3. settled[c] = "open"
    BY <1>3 DEF settled
  <2>4. Service!Settle(c, how)
    BY <1>1, <2>1, <2>2, <2>3 DEF Service!Settle, Service!Answers, Answers, settled, answers
  <2>5. how \in Service!Outcomes \ {"idle", "open"}
    BY <1>3 DEF Service!Outcomes, Service!Answers, Answers
  <2>6. QED
    BY <1>3, <2>4, <2>5 DEF Service!Next
<1>4. QED
  BY <1>2, <1>3

\* Taking a number begins a call.
LEMMA NumberService == ASSUME TypeOK, Core, NEW c \in Users, Number(c)
                       PROVE  [Service!Next]_(Service!vars)
<1>0. /\ caller[c].seq = 0 /\ outcome[c] = "idle" /\ caller'[c].seq = seq /\ outcome'[c] = "open"
      /\ \A u \in Users : u # c => caller'[u] = caller[u] /\ outcome'[u] = outcome[u]
      /\ replied' = replied
  BY DEF Number, At, Core, NumbersUnique, OutcomeAtEnd, TypeOK, serverSide
<1>1. \A a \in Answers : <<0, a>> \notin replied /\ <<seq, a>> \notin replied
  <2>1. seq \in Nat /\ 0 \notin received /\ seq \notin received
    BY DEF Core, ServerIsCausal, TypeOK
  <2>2. QED
    BY <2>1 DEF Core, ServerIsCausal
<1>2. c \in Calls => ServerAnswer(c) = "none" /\ ServerAnswer(c)' = "none"
  BY <1>0, <1>1 DEF ServerAnswer
<1>3. \A d \in Calls : d # c => ServerAnswer(d)' = ServerAnswer(d)
  BY <1>0, AnswerFrame DEF Users
<1>4. answers' = answers
  BY <1>2, <1>3 DEF answers
<1>5. CASE c \notin Calls
  <2>1. settled' = settled
    BY <1>0, <1>5 DEF settled, Users
  <2>2. QED
    BY <1>4, <2>1 DEF Service!vars, settled, answers
<1>6. CASE c \in Calls
  <2>1. settled' = [settled EXCEPT ![c] = "open"] /\ settled[c] = "idle"
    BY <1>0, <1>6 DEF settled, Users
  <2>2. Service!Begin(c)
    BY <1>4, <2>1 DEF Service!Begin, settled, answers
  <2>3. QED
    BY <1>6, <2>2 DEF Service!Next
<1>7. QED
  BY <1>5, <1>6

\* The first answer to a call's command answers the call; repeated answers and
\* answers to fire-and-forget commands are no step of the service.
LEMMA ReplyService == ASSUME TypeOK, Core, Core', NEW n, NEW resp \in received,
                             NEW code \in Answers, Reply(n, resp, code)
                      PROVE  [Service!Next]_(Service!vars)
<1>0. /\ replied' = replied \cup {<<resp, code>>} /\ UNCHANGED <<caller, outcome>>
      /\ \A a \in Answers \ {code} : <<resp, a>> \notin replied
  BY DEF Reply, callers
<1>1. settled' = settled
  BY <1>0 DEF settled
<1>2. \A d \in Calls : caller[d].seq # resp => ServerAnswer(d)' = ServerAnswer(d)
  BY <1>0 DEF ServerAnswer
<1>3. CASE <<resp, code>> \in replied
  <2>1. answers' = answers
    BY <1>0, <1>3 DEF answers, ServerAnswer
  <2>2. QED
    BY <1>1, <2>1 DEF Service!vars, settled, answers
<1>4. CASE \A d \in Calls : caller[d].seq # resp
  <2>1. answers' = answers
    BY <1>2, <1>4 DEF answers
  <2>2. QED
    BY <1>1, <2>1 DEF Service!vars, settled, answers
<1>5. ASSUME NEW d \in Calls, caller[d].seq = resp, <<resp, code>> \notin replied
      PROVE  [Service!Next]_(Service!vars)
  <2>1. resp # 0
    BY DEF Core, ServerIsCausal
  <2>2. \A e \in Calls : e # d => caller[e].seq # resp
    BY <1>5, <2>1 DEF Core, NumbersUnique, Users
  <2>3. outcome[d] # "idle"
    BY <1>5, <2>1 DEF Core, NumbersUnique, OutcomeAtEnd, Users
  <2>4. ServerAnswer(d) = "none"
    BY <1>0, <1>5, NoAnswer
  <2>5. ServerAnswer(d)' = code
    <3>1. <<caller'[d].seq, code>> \in replied'
      BY <1>0, <1>5
    <3>2. \A b \in Answers : <<caller'[d].seq, b>> \in replied' => b = code
      BY <1>0, <1>5
    <3>3. (CHOOSE b \in Answers : <<caller'[d].seq, b>> \in replied') = code
      BY <3>1, <3>2
    <3>4. QED
      BY <3>1, <3>3 DEF ServerAnswer
  <2>6. answers' = [answers EXCEPT ![d] = code]
    BY <1>2, <2>2, <2>5 DEF answers
  <2>7. settled[d] # "idle" /\ answers[d] = "none"
    BY <2>3, <2>4 DEF settled, answers
  <2>8. Service!Answer(d, code)
    BY <1>1, <2>6, <2>7 DEF Service!Answer, settled, answers
  <2>9. QED
    BY <2>8 DEF Service!Next, Service!Answers, Answers
<1>6. QED
  BY <1>3, <1>4, <1>5

\* A step that touches neither numbers, outcomes nor answers is none of the
\* service's.
LEMMA QuietService == ASSUME UNCHANGED <<caller, outcome, replied>>
                      PROVE  [Service!Next]_(Service!vars)
BY DEF Service!vars, ServerAnswer

\* WebSocketClient implements RequestReply: under every interleaving of callers,
\* tasks, timers, late and repeated answers, a call settles once, with its own
\* answer, a timeout or a closed channel.
THEOREM ClientImplementsService == Spec => ServiceSpec
<1>1. Init => Service!Init
  <2> SUFFICES ASSUME Init PROVE Service!Init
    OBVIOUS
  <2>1. \A c \in Calls : outcome[c] = "idle" /\ ServerAnswer(c) = "none"
    BY DEF Init, ServerAnswer, Users
  <2>2. QED
    BY <2>1 DEF Service!Init
<1>2. IInv /\ IInv' /\ [Next]_vars => [Service!Next]_(Service!vars)
  <2> SUFFICES ASSUME TypeOK, Core, Core', [Next]_vars PROVE [Service!Next]_(Service!vars)
    BY DEF IInv, Core
  <2>1. ASSUME NEW c \in Users, CallerStep(c) PROVE [Service!Next]_(Service!vars)
    <3>1. CASE Register(c) \/ Expire(c)
      <4>1. UNCHANGED <<outcome, replied>> /\ \A u \in Users : caller'[u].seq = caller[u].seq
        <5>1. UNCHANGED <<outcome, replied>>
          BY <3>1 DEF Register, Expire, serverSide
        <5>2. \E pc \in {"registered", "expired"} : caller' = [caller EXCEPT ![c].pc = pc]
          BY <3>1 DEF Register, Expire, Goto
        <5>3. QED
          BY <5>1, <5>2 DEF TypeOK
      <4>2. settled' = settled /\ answers' = answers
        BY <4>1, AnswerFrame DEF settled, answers, Users
      <4>3. QED
        BY <4>2 DEF Service!vars, settled, answers
    <3>2. CASE Submit(c)
      <4>1. outcome[c] = "open"
        BY <3>2 DEF Submit, At, Core, OutcomeAtEnd
      <4>2. CASE c \in Calls /\ Goto(c, "waiting") /\ UNCHANGED outcome
        <5>1. UNCHANGED <<outcome, replied>> /\ \A u \in Users : caller'[u].seq = caller[u].seq
          BY <3>2, <4>2 DEF Submit, Goto, TypeOK, serverSide
        <5>2. settled' = settled /\ answers' = answers
          BY <5>1, AnswerFrame DEF settled, answers, Users
        <5>3. QED
          BY <5>2 DEF Service!vars, settled, answers
      <4>3. ASSUME NEW how \in {"sent", "closed"}, Return(c, how), c \in Calls => how = "closed"
            PROVE  [Service!Next]_(Service!vars)
        <5>1. Moves(c, "done", how)
          BY <3>2, <4>3 DEF Moves, Submit, Return, Goto, At, serverSide
        <5>2. QED
          BY <4>1, <4>3, <5>1, MoveService DEF Answers
      <4>4. QED
        BY <3>2, <4>2, <4>3 DEF Submit
    <3>3. CASE Receive(c)
      <4>1. c \in Calls /\ oneshot[c] \in Answers /\ outcome[c] = "open"
        BY <3>3 DEF Receive, At, TypeOK, Core, OutcomeAtEnd
      <4>2. Moves(c, "done", oneshot[c])
        BY <3>3, <4>1 DEF Moves, Receive, Return, Goto, At, Answers, serverSide
      <4>3. <<caller[c].seq, oneshot[c]>> \in replied
        BY <4>1 DEF Core, AnswersInFlight, Answers
      <4>4. QED
        BY <4>1, <4>2, <4>3, MoveService
    <3>4. CASE Unregister(c)
      <4>1. outcome[c] = "open"
        BY <3>4 DEF Unregister, At, Core, OutcomeAtEnd
      <4>2. Moves(c, "done", "timeout")
        BY <3>4 DEF Moves, Unregister, Return, Goto, At, serverSide
      <4>3. QED
        BY <4>1, <4>2, MoveService DEF Answers
    <3>5. QED
      BY <2>1, <3>1, <3>2, <3>3, <3>4 DEF CallerStep
  <2>2. CASE WriteStep \/ ReadFrame \/ Forward \/ ReadEnd \/ BeatStep
    BY <2>2, QuietService DEF WriteStep, ReadFrame, Forward, ReadEnd, BeatStep,
                              callers, serverSide
  <2>3. CASE Disconnect \/ Disconnected \/ DropClient \/ LinkLost
    BY <2>3, QuietService DEF Disconnect, Disconnected, DropClient, LinkLost, callers, serverSide
  <2>4. CASE ServerStep
    <3>1. ASSUME NEW n, Push(n) PROVE [Service!Next]_(Service!vars)
      BY <3>1, QuietService DEF Push, callers
    <3>2. QED
      BY <2>4, <3>1, ReplyService DEF ServerStep
  <2>5. CASE UNCHANGED vars
    BY <2>5, QuietService DEF vars
  <2>6. QED
    BY <2>1, <2>2, <2>3, <2>4, <2>5, NumberService DEF Next
<1>3. QED
  BY <1>1, <1>2, Inductive, PTL DEF Spec, ServiceSpec, Service!Spec
=============================================================================
