------------------------------ MODULE Services ------------------------------
(***************************************************************************)
(* The parts of the system whose state belongs to them alone, side by side.*)
(* A behaviour exercises one of them: what is said of a part is said of it *)
(* whatever the others do.  The application that calls the file system, the*)
(* shell and its editor have the file system in common.                    *)
(***************************************************************************)
EXTENDS Boot, Clock, TimerWheel, Deadlines, LoadBalance, Mutex, KernelLock, Interrupts,
        TlsfHeap, MemPool, LinkedList, LineEditor, Vim

CONSTANT Parts      (* those to exercise                                   *)

VARIABLE part       (* the one this behaviour exercises: not program state *)

servicesVars == <<bootVars, clockVars, timerVars, deadlineVars, balanceVars, vars, kernelLockVars, irqVars, heapVars,
                  poolVars, listPtrs, lineVars, vfsVars, shellVars, vimVars, part>>

(* Init and Next are those of Mutex, as its proofs name them.              *)
ServicesInit ==
    /\ BootInit /\ ClockInit /\ WheelInit /\ DeadlineInit /\ BalanceInit /\ Init /\ LockInit /\ InterruptInit
    /\ HeapInit /\ PoolInit /\ ListInit /\ LineInit /\ VfsInit /\ ShellInit /\ VimInit
    /\ part \in Parts /\ (part # "interrupts" => nesting)
    /\ part # "boot" => ~bootSync /\ ~schedRun
    /\ part # "clock" => spins

ServicesNext ==
    /\ \/ part = "boot" /\ BootStep
       \/ part = "clock" /\ ClockStep
       \/ part = "timers" /\ WheelNext
       \/ part = "deadlines" /\ DeadlineStep
       \/ part = "balance" /\ BalanceStep
       \/ part = "mutex" /\ Next
       \/ part = "sections" /\ KernelLockStep
       \/ part = "interrupts" /\ InterruptStep
       \/ part = "heap" /\ HeapStep
       \/ part = "pool" /\ PoolStep
       \/ part = "list" /\ ListStep
       \/ part = "files" /\ FsStep /\ UNCHANGED mounts
       \/ part = "shell" /\ ShellStep
       \/ part = "editor" /\ VimStep
       \/ part = "line" /\ LineStep
    /\ part # "boot" => UNCHANGED bootVars
    /\ part # "clock" => UNCHANGED clockVars
    /\ part # "timers" => UNCHANGED timerVars
    /\ part # "deadlines" => UNCHANGED deadlineVars
    /\ part # "balance" => UNCHANGED balanceVars
    /\ part # "mutex" => UNCHANGED vars
    /\ part # "sections" => UNCHANGED kernelLockVars
    /\ part # "interrupts" => UNCHANGED irqVars
    /\ part # "heap" => UNCHANGED heapVars
    /\ part # "pool" => UNCHANGED poolVars
    /\ part # "list" => UNCHANGED listPtrs
    /\ part # "line" => UNCHANGED lineVars
    /\ part \notin {"files", "shell", "editor"} => UNCHANGED vfsVars
    /\ part \notin {"shell", "editor"} => UNCHANGED shellVars
    /\ part # "editor" => UNCHANGED vimVars
    /\ UNCHANGED part

ServicesSpec == ServicesInit /\ [][ServicesNext]_servicesVars

(* The commands of the shell leave nothing open (Shell).  An application   *)
(* may.                                                                    *)
CommandsFinish == part # "files" => NothingLeft

(* No timer of the wheel is lost, timers expire when they should, and are  *)
(* reported as they expire (TimerWheel).                                   *)
TimersExact == [](part = "timers" => ArmedOnce) /\ IsCountdown /\ TickReports

(* The heap's blocks tile it and its lists hold the free ones (TlsfHeap);  *)
(* a block of a pool is with one user or in the pool's stack (MemPool).    *)
MemoryKept == (part = "heap" => HeapSound) /\ BlocksShared

(* What the operator names is what he gets (Shell).                        *)
PathsKept == part \in {"files", "shell", "editor"} => PathsLead
=============================================================================
