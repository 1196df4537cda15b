------------------------------- MODULE MCMutex -------------------------------
(* Instances of Mutex for TLC.                                             *)
EXTENDS Mutex, TLC
CONSTANTS t1, t2, t3

(* a low, a middle and a high task                                         *)
ThreePrio == (t1 :> 0) @@ (t2 :> 1) @@ (t3 :> 2)
TwoPrio   == (t1 :> 0) @@ (t2 :> 1)

(* of two mutexes one is locked again while it is held                     *)
OneRecursive == \A m \in Mutexes \ Pool : recursive'[m] = 0
MCSpec == Init /\ [][Next /\ OneRecursive]_vars
=============================================================================
