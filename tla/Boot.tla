--------------------------------- MODULE Boot ---------------------------------
(***************************************************************************)
(* From reset to the first tasks: arch/riscv/startup.S, main of the shell, *)
(* cgrtos_init, cgrtos_start and cgrtos_start_secondary.  Memory may be    *)
(* what a warm reset leaves: the flag that releases the secondary harts and*)
(* g_sched_run may hold what an earlier boot wrote.  It ends when hart 0   *)
(* enters its first task: from there on Scheduler and LoadBalance tell.    *)
(***************************************************************************)
EXTENDS Integers, Sequences, FiniteSets, SequencesExt

CONSTANTS
    Harts, StackHarts, BuiltCores,  (* those that leave reset, that have a *)
                    (* stack (MAX_CORES), that run (CONFIG_NUM_CORES)      *)
    BootTasks,      (* the tasks, in the order of the table                *)
    Daemon,         (* the one that cgrtos_timer_init makes                *)
    BootPinned,     (* those bound to core 0: the task of the shell        *)
    StealFrom       (* CONFIG_LB_STEAL_MIN                                 *)

Idle == "idle"
NoneYet == "none"

ASSUME BootAssumption ==
    /\ 0 \in BuiltCores /\ BuiltCores \subseteq StackHarts /\ StackHarts \subseteq Harts
    /\ Harts \subseteq Nat /\ StealFrom \in Nat \ {0}
    /\ BootTasks \in Seq(ToSet(BootTasks)) /\ IsInjective(BootTasks)
    /\ {Idle, NoneYet} \cap ToSet(BootTasks) = {}
    /\ BootPinned \subseteq ToSet(BootTasks) /\ Daemon \in ToSet(BootTasks) \ BootPinned

VARIABLES
    point,          (* how far each hart has come                          *)
                    (* (of a secondary, g_hart_stage)                      *)
    bootSync, schedRun, bssClean,   (* the flags, and whether .bss is wiped*)
    idlesMade, bootOnline,          (* g_idle, g_secondary_online          *)
    bootCurrent, first,             (* g_current, the task to start with   *)
    stolen,                         (* what each idle task would take      *)
    bootState, listedOn,            (* state and ready list of each task   *)
    bootMsip                        (* the software interrupts that wait   *)

bootVars == <<point, bootSync, schedRun, bssClean, idlesMade, bootOnline, bootCurrent,
              first, stolen, bootState, listedOn, bootMsip>>
bootFlags == <<bootSync, schedRun, bssClean, idlesMade, bootOnline>>
taskParts == <<bootCurrent, first, stolen, bootState, listedOn>>

AllTasks == ToSet(BootTasks)
NoList == -1

BootInit ==
    /\ point = [h \in Harts |-> "reset"]
    /\ bootSync \in BOOLEAN /\ schedRun \in BOOLEAN /\ bssClean = FALSE
    /\ idlesMade = FALSE /\ bootOnline = {} /\ bootMsip = {}
    /\ bootCurrent = [c \in BuiltCores |-> NoneYet] /\ first = NoneYet
    /\ stolen = [c \in BuiltCores |-> NoneYet]
    /\ bootState = [t \in AllTasks |-> "FREE"] /\ listedOn = [t \in AllTasks |-> NoList]

Passes(h, from, to) == point[h] = from /\ point' = [point EXCEPT ![h] = to]

-----------------------------------------------------------------------------
(* Hart 0.  A bug form: the flag of an earlier boot stays.                 *)
LeaveMagic ==
    /\ Passes(0, "reset", "wiping")
    /\ UNCHANGED <<bootFlags, taskParts, bootMsip>>

InvalidateMagic ==
    /\ Passes(0, "reset", "wiping") /\ bootSync' = FALSE
    /\ UNCHANGED <<schedRun, bssClean, idlesMade, bootOnline, taskParts, bootMsip>>

WipeBss ==
    /\ Passes(0, "wiping", "clean") /\ bssClean' = TRUE /\ schedRun' = FALSE
    /\ UNCHANGED <<bootSync, idlesMade, bootOnline, taskParts, bootMsip>>

ReleaseSecondaries ==
    /\ Passes(0, "clean", "main") /\ bootSync' = TRUE
    /\ UNCHANGED <<schedRun, bssClean, idlesMade, bootOnline, taskParts, bootMsip>>

(* It waits a while for the others, and goes on without them.              *)
KickSecondaries == bootSync' = TRUE /\ bootMsip' = BuiltCores \ {0}

KernelInit ==
    /\ Passes(0, "main", "creating") /\ KickSecondaries
    /\ schedRun' = FALSE /\ bootOnline' = {}
    /\ UNCHANGED <<bssClean, idlesMade, taskParts>>

(* main and cgrtos_timer_init make their tasks: while no other core is     *)
(* online they go to core 0.                                               *)
CreateAtBoot(t) ==
    /\ point[0] = IF t = Daemon THEN "daemon" ELSE "creating"
    /\ LET next == SelectInSeq(BootTasks, LAMBDA u : bootState[u] = "FREE" /\ (u = Daemon <=> t = Daemon))
       IN  next # 0 /\ t = BootTasks[next]
    /\ bootState' = [bootState EXCEPT ![t] = "READY"] /\ listedOn' = [listedOn EXCEPT ![t] = 0]
    /\ point' = [point EXCEPT ![0] = IF t = Daemon THEN "publishing" ELSE @]
    /\ UNCHANGED <<bootFlags, bootCurrent, first, stolen, bootMsip>>

InitIdleTasks ==
    /\ Passes(0, "creating", "daemon") /\ \A t \in AllTasks \ {Daemon} : bootState[t] # "FREE"
    /\ idlesMade' = TRUE /\ bootCurrent' = [c \in BuiltCores |-> Idle]
    /\ UNCHANGED <<bootSync, schedRun, bssClean, bootOnline, first, stolen, bootState, listedOn, bootMsip>>

Publish ==
    /\ Passes(0, "publishing", "choosing") /\ schedRun' = TRUE
    /\ UNCHANGED <<bootSync, bssClean, idlesMade, bootOnline, taskParts, bootMsip>>

(* The first task of the table that is READY and may run here: the others  *)
(* are already at work, and no lock is held.                               *)
ChooseFirst ==
    /\ Passes(0, "choosing", "taking")
    /\ first' = LET found == SelectInSeq(BootTasks, LAMBDA t : bootState[t] = "READY")
                IN  IF found = 0 THEN Idle ELSE BootTasks[found]
    /\ UNCHANGED <<bootFlags, bootCurrent, stolen, bootState, listedOn, bootMsip>>

(* It leaves its list only if it is still READY.                           *)
StartFirst ==
    /\ Passes(0, "taking", "up")
    /\ bootCurrent' = [bootCurrent EXCEPT ![0] = first]
    /\ bootState' = [t \in AllTasks |-> IF t = first THEN "RUNNING" ELSE bootState[t]]
    /\ listedOn' = [t \in AllTasks |-> IF t = first /\ bootState[t] = "READY" THEN NoList ELSE listedOn[t]]
    /\ UNCHANGED <<bootFlags, first, stolen, bootMsip>>

-----------------------------------------------------------------------------
(* The other harts.  A hart without a stack stops at once.                 *)
HartStarts(h) ==
    /\ h # 0 /\ Passes(h, "reset", IF h \in StackHarts THEN "delaying" ELSE "dead")
    /\ UNCHANGED <<bootFlags, taskParts, bootMsip>>

(* 800000 turns last longer than hart 0 needs to invalidate the flag.      *)
DelayEnds(h) ==
    /\ point[0] # "reset" /\ Passes(h, "delaying", "polling")
    /\ UNCHANGED <<bootFlags, taskParts, bootMsip>>

SeesMagic(h) ==
    /\ bootSync /\ Passes(h, "polling", "inC")
    /\ UNCHANGED <<bootFlags, taskParts, bootMsip>>

(* cgrtos_start_secondary: a hart the build does not use sleeps for ever.  *)
StartSecondary(h) ==
    /\ h \in BuiltCores \ {0} /\ schedRun /\ Passes(h, "inC", "up")
    /\ bootCurrent' = [bootCurrent EXCEPT ![h] = Idle] /\ bootOnline' = bootOnline \cup {h}
    /\ UNCHANGED <<bootSync, schedRun, bssClean, idlesMade, first, stolen, bootState, listedOn, bootMsip>>

-----------------------------------------------------------------------------
(* A core that is up before hart 0 is: its idle task takes a task of a core*)
(* that has several, chosen without a lock, and its traps switch.          *)
Listed(c) == {t \in AllTasks : listedOn[t] = c}
WhileBooting(c) == c # 0 /\ point[c] = "up" /\ point[0] # "up"

StealAtIdle(c) ==
    /\ WhileBooting(c) /\ bootCurrent[c] = Idle /\ stolen[c] = NoneYet
    /\ schedRun /\ Listed(c) = {} /\ Cardinality(Listed(0)) >= StealFrom
    /\ \E t \in Listed(0) \ BootPinned : stolen' = [stolen EXCEPT ![c] = t]
    /\ UNCHANGED <<point, bootFlags, bootCurrent, first, bootState, listedOn, bootMsip>>

MigrateHere(c) ==
    /\ WhileBooting(c) /\ bootCurrent[c] = Idle /\ stolen[c] # NoneYet
    /\ bootState' = [bootState EXCEPT ![stolen[c]] = "READY"]
    /\ listedOn' = [listedOn EXCEPT ![stolen[c]] = c]
    /\ stolen' = [stolen EXCEPT ![c] = NoneYet] /\ bootMsip' = bootMsip \cup {c}
    /\ UNCHANGED <<point, bootFlags, bootCurrent, first>>

Switched(c) ==
    LET cur  == bootCurrent[c]
        next == IF Listed(c) = {} THEN cur ELSE CHOOSE t \in Listed(c) : TRUE
    IN  /\ bootCurrent' = [bootCurrent EXCEPT ![c] = next]
        /\ bootState' = [t \in AllTasks |-> IF t = next THEN "RUNNING"
                                             ELSE IF t = cur THEN "READY" ELSE bootState[t]]
        /\ listedOn' = [t \in AllTasks |-> IF t = next THEN NoList ELSE IF t = cur THEN c ELSE listedOn[t]]
        /\ UNCHANGED <<point, bootFlags, first, stolen>>

(* The software interrupt marks the core, and a time slice may end.        *)
HandleIpi(c) == WhileBooting(c) /\ c \in bootMsip /\ bootMsip' = bootMsip \ {c} /\ Switched(c)
SliceEnds(c) == WhileBooting(c) /\ Listed(c) # {} /\ Switched(c) /\ UNCHANGED bootMsip

BootStep ==
    \/ InvalidateMagic \/ WipeBss \/ ReleaseSecondaries \/ KernelInit \/ InitIdleTasks
    \/ Publish \/ ChooseFirst \/ StartFirst
    \/ \E t \in AllTasks : CreateAtBoot(t)
    \/ \E h \in Harts : HartStarts(h) \/ DelayEnds(h) \/ SeesMagic(h) \/ StartSecondary(h)
    \/ \E c \in BuiltCores : StealAtIdle(c) \/ MigrateHere(c) \/ HandleIpi(c) \/ SliceEnds(c)

(***************************************************************************)
(* Properties                                                              *)
(***************************************************************************)
(* No hart runs C, whatever memory held, before hart 0 has wiped it, none  *)
(* that the build leaves out comes up, and none does before the idle tasks *)
(* are made; and while the cores come up in any order, a task has one core *)
(* if it is RUNNING and is in one list if it is READY.                     *)
BootSound ==
    /\ \A h \in Harts : point[h] \in {"inC", "up"} => bssClean
    /\ \A h \in Harts : point[h] = "up" => h \in BuiltCores /\ idlesMade
    /\ \A t \in AllTasks :
        /\ Cardinality({c \in BuiltCores : bootCurrent[c] = t}) = IF bootState[t] = "RUNNING" THEN 1 ELSE 0
        /\ bootState[t] = "READY" <=> listedOn[t] # NoList
=============================================================================
