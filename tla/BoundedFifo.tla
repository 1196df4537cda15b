---------------------------- MODULE BoundedFifo -----------------------------
(***************************************************************************)
(* What a message queue promises: while it is open, messages come out in   *)
(* the order they went in, each once, and there are never more than cap.   *)
(***************************************************************************)
EXTENDS Naturals, Sequences

CONSTANTS Channels, Payloads

VARIABLES
    cap,    (* the capacity of each channel; 0: closed                     *)
    chan    (* the messages in it, oldest first                            *)

FifoInit ==
    /\ cap = [c \in Channels |-> 0]
    /\ chan = [c \in Channels |-> << >>]

Open(c) ==
    /\ cap[c] = 0 /\ cap'[c] \in Nat \ {0}
    /\ cap' = [cap EXCEPT ![c] = cap'[c]]
    /\ UNCHANGED chan

Put(c, m) ==
    /\ Len(chan[c]) < cap[c]
    /\ chan' = [chan EXCEPT ![c] = Append(@, m)]
    /\ UNCHANGED cap

Get(c) ==
    /\ chan[c] # << >>
    /\ chan' = [chan EXCEPT ![c] = Tail(@)]
    /\ UNCHANGED cap

Close(c) ==
    /\ cap[c] > 0
    /\ cap' = [cap EXCEPT ![c] = 0]
    /\ chan' = [chan EXCEPT ![c] = << >>]

FifoNext ==
    \E c \in Channels :
        \/ Open(c) \/ Get(c) \/ Close(c)
        \/ \E m \in Payloads : Put(c, m)

FifoSpec == FifoInit /\ [][FifoNext]_<<cap, chan>>
=============================================================================
