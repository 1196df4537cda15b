---------------------------- MODULE MCScheduler -----------------------------
(* Instances of Scheduler for TLC.                                         *)
EXTENDS Scheduler
CONSTANTS t1, t2, t3

ThreePolicies == (t1 :> "HYBRID") @@ (t2 :> "RR") @@ (t3 :> "EDF")
NoDeadlines   == (t1 :> "PRIORITY") @@ (t2 :> "PRIORITY") @@ (t3 :> "CFS")
OneHigh       == (t1 :> 1) @@ (t2 :> 0) @@ (t3 :> 0)
LastPinned    == (t1 :> 2) @@ (t2 :> 2) @@ (t3 :> 1)
FirstPinned   == (t1 :> 0) @@ (t2 :> 2) @@ (t3 :> 2)
=============================================================================
