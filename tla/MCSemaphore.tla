---------------------------- MODULE MCSemaphore -----------------------------
(* Instances of Semaphore for TLC.                                         *)
EXTENDS Semaphore, TLC
CONSTANTS t1, t2, t3

(* two tasks of equal priority under one of a higher priority              *)
PrioOfTasks == (t1 :> 1) @@ (t2 :> 1) @@ (t3 :> 2)
TopPairPrio == (t1 :> 2) @@ (t2 :> 2) @@ (t3 :> 1)
TwoTasksPrio == (t1 :> 1) @@ (t2 :> 2)
=============================================================================
