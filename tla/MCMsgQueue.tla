----------------------------- MODULE MCMsgQueue -----------------------------
(* Instances of MsgQueue for TLC.                                          *)
EXTENDS MsgQueue
CONSTANTS t1, t2, q2, x

TwoTasksPrio == (t1 :> 1) @@ (t2 :> 2)
WaitQueues ==
    {SendQ(q) : q \in MsgQueues} \cup {RecvQ(q) : q \in MsgQueues} \cup {SetQ(s) : s \in Sets}

(* Two regions are explored.  In one the tasks use the first queue alone,  *)
(* and one of them is suspended at any point.  In the other they share a   *)
(* core and wait for nothing but the set, and one is deleted, exits and is *)
(* created again, while two queues of one slot join and leave the set.     *)
OneQueue ==
    /\ len[q2] = 0 /\ \A i \in DOMAIN buf[q2] : buf[q2][i] = x
    /\ \A t \in Tasks : state[t] \notin {"FREE", "TERMINATED", "DELETED"} /\ stage[t] # "exit"
TwoQueues ==
    /\ \A q \in MsgQueues : len[q] <= 1 /\ \A i \in DOMAIN buf[q] : buf[q][i] = x
    /\ \A q \in MsgQueues : waitq[SendQ(q)] = << >> /\ waitq[RecvQ(q)] = << >>
    /\ Cardinality(oncpu) <= 1 /\ \A t \in Tasks : state[t] # "SUSPENDED"

MCSpec == Init /\ [][Next /\ (OneQueue' \/ TwoQueues')]_vars
=============================================================================
