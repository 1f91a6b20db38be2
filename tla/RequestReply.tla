---------------------------- MODULE RequestReply ----------------------------
(***************************************************************************)
(* What WebSocketClient::send_with_response promises its callers           *)
(* (websocket.rs): a call settles at most once, with the answer the server *)
(* gave to this very call, with a timeout, or with a closed channel.       *)
(***************************************************************************)
CONSTANT Calls

VARIABLES
    outcome,   \* per call: "idle", "open" or how it settled
    answer     \* per call: the server's answer to it, "none" before

vars == <<outcome, answer>>

Answers == {"ok", "err"}
Outcomes == {"idle", "open", "timeout", "closed"} \cup Answers

Init ==
    /\ outcome = [c \in Calls |-> "idle"]
    /\ answer = [c \in Calls |-> "none"]

Begin(c) ==
    /\ outcome[c] = "idle"
    /\ outcome' = [outcome EXCEPT ![c] = "open"]
    /\ UNCHANGED answer

\* The server answers a call it has received, whether or not it is still open
Answer(c, a) ==
    /\ outcome[c] # "idle"
    /\ answer[c] = "none"
    /\ answer' = [answer EXCEPT ![c] = a]
    /\ UNCHANGED outcome

Settle(c, how) ==
    /\ outcome[c] = "open"
    /\ how \in Answers => answer[c] = how
    /\ outcome' = [outcome EXCEPT ![c] = how]
    /\ UNCHANGED answer

Next ==
    \E c \in Calls :
        \/ Begin(c)
        \/ \E a \in Answers : Answer(c, a)
        \/ \E how \in Outcomes \ {"idle", "open"} : Settle(c, how)

Spec == Init /\ [][Next]_vars
=============================================================================
