----------------------------- MODULE Countdown ------------------------------
(***************************************************************************)
(* What software timers promise: an armed timer counts its period down by  *)
(* one each tick, and at zero stops or, if it is periodic, starts over.    *)
(***************************************************************************)
EXTENDS Naturals

CONSTANT Timers

VARIABLES
    left,       (* ticks until the timer expires; 0: it is not armed       *)
    period,
    periodic

(* a period of 0 counts as 1                                               *)
Span(p) == IF p = 0 THEN 1 ELSE p

CountdownInit ==
    /\ left = [t \in Timers |-> 0]
    /\ period = [t \in Timers |-> 0]
    /\ periodic = [t \in Timers |-> FALSE]

(* the timer is given to someone else, or to nobody                        *)
Assign(t) ==
    /\ period' = [period EXCEPT ![t] = period'[t]]
    /\ periodic' = [periodic EXCEPT ![t] = periodic'[t]]
    /\ left' = [left EXCEPT ![t] = 0]

Arm(t) ==
    /\ left' = [left EXCEPT ![t] = Span(period[t])]
    /\ UNCHANGED <<period, periodic>>

Disarm(t) ==
    /\ left' = [left EXCEPT ![t] = 0]
    /\ UNCHANGED <<period, periodic>>

Retime(t) ==
    /\ period' = [period EXCEPT ![t] = period'[t]]
    /\ left' = [left EXCEPT ![t] = IF @ > 0 THEN period'[t] ELSE 0]
    /\ UNCHANGED periodic

CountDown ==
    /\ left' = [t \in Timers |->
                   CASE left[t] = 0 -> 0
                     [] left[t] = 1 -> IF periodic[t] THEN Span(period[t]) ELSE 0
                     [] OTHER       -> left[t] - 1]
    /\ UNCHANGED <<period, periodic>>

CountdownNext ==
    \/ CountDown
    \/ \E t \in Timers : Assign(t) \/ Arm(t) \/ Disarm(t) \/ Retime(t)

CountdownSpec == CountdownInit /\ [][CountdownNext]_<<left, period, periodic>>
=============================================================================
