------------------------------ MODULE KernelLock ------------------------------
(***************************************************************************)
(* The critical section of kernel/cgrtos.c that guards every kernel object *)
(* (interrupts of this core masked, then the spin lock g_klock, with a     *)
(* nesting count per core), the lock of the console in hal/hal_core.c      *)
(* (the same with a lock of its own), and the request to look at the EDF   *)
(* order again, which kernel/scheduler.c puts off while a section is open. *)
(* A core number is read before interrupts are masked: that read is a step *)
(* of its own.                                                             *)
(***************************************************************************)
EXTENDS Integers, FiniteSets

CONSTANTS
    LockCores,      (* harts 0..n                                          *)
    Callers,        (* tasks that call the kernel                          *)
    NoCaller,       (* what a core runs that runs its idle task            *)
    HomeOf,         (* the core of each task at the start                  *)
    Printers, Kickers,  (* the contexts that print, and that make EDF tasks READY *)
    Roams,          (* whether a preempted task may resume elsewhere       *)
    MaxCrit         (* bound on the nesting of sections                    *)

ASSUME LockAssumption ==
    /\ LockCores \subseteq Nat /\ Callers # {} /\ Callers \cap LockCores = {} /\ NoCaller \notin Callers
    /\ HomeOf \in [Callers -> LockCores] /\ Roams \in BOOLEAN /\ MaxCrit \in Nat \ {0}

VARIABLES
    coreOf, running,    (* the core of each task, and who has each core    *)
    inIsr, irqOn,       (* g_in_isr[c] > 0, and mstatus.MIE of each core   *)
    at, reg, depth,     (* of each context: the point it has reached, the  *)
                        (* core number it holds, the sections it is in     *)
    critNest, critSaved, klock,     (* g_crit_nest, g_crit_saved, g_klock  *)
    conSaved, conLock,  (* g_console_irq_saved, g_console_lock             *)
    kickPending, yieldPending, msip,    (* g_edf_kick_pending,             *)
                        (* g_yield_pending, the software interrupt lines   *)
    look                (* the cores that have still to look: history      *)

kernelLockVars == <<coreOf, running, inIsr, irqOn, at, reg, depth, critNest, critSaved, klock,
              conSaved, conLock, kickPending, yieldPending, msip, look>>
sectionVars == <<critNest, critSaved, klock>>
consoleVars == <<conSaved, conLock>>
kickVars    == <<kickPending, yieldPending, msip, look>>
placeVars   == <<coreOf, running, inIsr>>

(* A context is a task or, named by its core, an interrupt handler.        *)
Contexts == Callers \cup LockCores

LockInit ==
    /\ coreOf = HomeOf
    /\ LET first == CHOOSE t \in Callers : TRUE
       IN  running = [c \in LockCores |-> IF c = HomeOf[first] THEN first ELSE NoCaller]
    /\ inIsr = [c \in LockCores |-> FALSE] /\ irqOn = [c \in LockCores |-> TRUE]
    /\ at = [x \in Contexts |-> "out"] /\ depth = [x \in Contexts |-> 0]
    /\ reg = [x \in Contexts |-> 0]
    /\ critNest = [c \in LockCores |-> 0] /\ critSaved = [c \in LockCores |-> FALSE]
    /\ klock = FALSE
    /\ conSaved = [c \in LockCores |-> FALSE] /\ conLock = FALSE
    /\ kickPending = FALSE /\ yieldPending = [c \in LockCores |-> FALSE]
    /\ msip = {} /\ look = {}

(* arch_cpu_id, were x to call it now                                      *)
CpuId(x) == IF x \in LockCores THEN x ELSE coreOf[x]

Executes(x) ==
    IF x \in LockCores THEN inIsr[x] ELSE running[coreOf[x]] = x /\ ~inIsr[coreOf[x]]

GoesTo(x, point) == at' = [at EXCEPT ![x] = point]
Caller(x) == IF depth[x] > 0 THEN "in" ELSE "out"
Free(x) == Executes(x) /\ at[x] \in {"out", "in"}

(* cgrtos_in_critical                                                      *)
InCritical(c) == critNest[c] > 0

(* ipi_hw_send to each of cs, board_ipi_clear                              *)
IpiSend(cs) == msip' = msip \cup cs
IpiClear(c) == c \in msip /\ msip' = msip \ {c}

(* cgrtos_enter_critical: read the core, look at its count, mask, lock     *)
EnterRead(x) ==
    /\ Free(x) /\ depth[x] < MaxCrit
    /\ reg' = [reg EXCEPT ![x] = CpuId(x)] /\ GoesTo(x, "entering")
    /\ UNCHANGED <<placeVars, irqOn, depth, sectionVars, consoleVars, kickVars>>

EnterTest(x) ==
    /\ Executes(x) /\ at[x] = "entering"
    /\ IF critNest[reg[x]] = 0
       THEN GoesTo(x, "masking") /\ UNCHANGED <<critNest, depth>>
       ELSE /\ critNest' = [critNest EXCEPT ![reg[x]] = @ + 1]
            /\ depth' = [depth EXCEPT ![x] = @ + 1] /\ GoesTo(x, "in")
    /\ reg' = IF critNest[reg[x]] = 0 THEN reg ELSE [reg EXCEPT ![x] = 0]
    /\ UNCHANGED <<placeVars, irqOn, critSaved, klock, consoleVars, kickVars>>

EnterMask(x) ==
    /\ Executes(x) /\ at[x] = "masking"
    /\ critSaved' = [critSaved EXCEPT ![reg[x]] = irqOn[CpuId(x)]]
    /\ irqOn' = [irqOn EXCEPT ![CpuId(x)] = FALSE]
    /\ GoesTo(x, "spinning")
    /\ UNCHANGED <<placeVars, reg, depth, critNest, klock, consoleVars, kickVars>>

EnterLock(x) ==
    /\ Executes(x) /\ at[x] = "spinning"
    /\ ~klock /\ klock' = TRUE
    /\ critNest' = [critNest EXCEPT ![reg[x]] = @ + 1]
    /\ depth' = [depth EXCEPT ![x] = @ + 1] /\ GoesTo(x, "in")
    /\ reg' = [reg EXCEPT ![x] = 0]
    /\ UNCHANGED <<placeVars, irqOn, critSaved, consoleVars, kickVars>>

(* A bug form: every exit gives the lock back.                             *)
ExitUnlocks(x) ==
    LET c == CpuId(x) IN
    /\ Executes(x) /\ at[x] = "in" /\ InCritical(c)
    /\ critNest' = [critNest EXCEPT ![c] = @ - 1]
    /\ depth' = [depth EXCEPT ![x] = @ - 1]
    /\ klock' = FALSE /\ irqOn' = [irqOn EXCEPT ![c] = critSaved[c]]
    /\ GoesTo(x, IF critNest[c] = 1 THEN "flushing" ELSE "in")
    /\ UNCHANGED <<placeVars, reg, critSaved, consoleVars, kickVars>>

(* cgrtos_exit_critical, up to the flush                                   *)
ExitCritical(x) ==
    LET c == CpuId(x) IN
    /\ Executes(x) /\ at[x] = "in" /\ InCritical(c)
    /\ critNest' = [critNest EXCEPT ![c] = @ - 1]
    /\ depth' = [depth EXCEPT ![x] = @ - 1]
    /\ IF critNest[c] = 1
       THEN klock' = FALSE /\ irqOn' = [irqOn EXCEPT ![c] = critSaved[c]] /\ GoesTo(x, "flushing")
       ELSE UNCHANGED <<klock, irqOn, at>>
    /\ UNCHANGED <<placeVars, reg, critSaved, consoleVars, kickVars>>

(* sched_edf_kick_request: an EDF task has become READY                    *)
KickRequest(x) ==
    /\ x \in Kickers /\ Free(x) /\ look' = LockCores
    /\ IF InCritical(CpuId(x)) \/ inIsr[CpuId(x)]
       THEN /\ kickPending' = TRUE /\ yieldPending' = [yieldPending EXCEPT ![CpuId(x)] = TRUE]
            /\ UNCHANGED at
       ELSE kickPending' = FALSE /\ GoesTo(x, "kicking") /\ UNCHANGED yieldPending
    /\ UNCHANGED <<placeVars, irqOn, reg, depth, sectionVars, consoleVars, msip>>

(* cgrtos_sched_edf_kick_flush                                             *)
Flush(x) ==
    /\ Executes(x) /\ at[x] = "flushing"
    /\ kickPending' = FALSE
    /\ yieldPending' = IF kickPending /\ inIsr[CpuId(x)] THEN [c \in LockCores |-> TRUE] ELSE yieldPending
    /\ GoesTo(x, IF kickPending /\ ~inIsr[CpuId(x)] THEN "kicking" ELSE Caller(x))
    /\ UNCHANGED <<placeVars, irqOn, reg, depth, sectionVars, consoleVars, msip, look>>

(* sched_mcedf_kick_all                                                    *)
KickAll(x) ==
    /\ Executes(x) /\ at[x] = "kicking"
    /\ yieldPending' = [c \in LockCores |-> TRUE] /\ IpiSend(LockCores \ {CpuId(x)})
    /\ GoesTo(x, Caller(x))
    /\ UNCHANGED <<placeVars, irqOn, reg, depth, sectionVars, consoleVars, kickPending, look>>

(* hal_console_lock: read the core, mask, lock; and hal_console_unlock     *)
ConsoleRead(x) ==
    /\ x \in Printers /\ Free(x)
    /\ reg' = [reg EXCEPT ![x] = CpuId(x)] /\ GoesTo(x, "conmask")
    /\ UNCHANGED <<placeVars, irqOn, depth, sectionVars, consoleVars, kickVars>>

ConsoleMask(x) ==
    /\ Executes(x) /\ at[x] = "conmask"
    /\ conSaved' = [conSaved EXCEPT ![reg[x]] = irqOn[CpuId(x)]]
    /\ irqOn' = [irqOn EXCEPT ![CpuId(x)] = FALSE]
    /\ GoesTo(x, "conspin") /\ reg' = [reg EXCEPT ![x] = 0]
    /\ UNCHANGED <<placeVars, depth, sectionVars, conLock, kickVars>>

ConsoleLock(x) ==
    /\ Executes(x) /\ at[x] = "conspin"
    /\ ~conLock /\ conLock' = TRUE
    /\ GoesTo(x, "printing")
    /\ UNCHANGED <<placeVars, irqOn, reg, depth, sectionVars, conSaved, kickVars>>

ConsoleUnlock(x) ==
    /\ Executes(x) /\ at[x] = "printing"
    /\ conLock' = FALSE
    /\ irqOn' = [irqOn EXCEPT ![CpuId(x)] = conSaved[CpuId(x)]]
    /\ GoesTo(x, Caller(x))
    /\ UNCHANGED <<placeVars, reg, depth, sectionVars, conSaved, kickVars>>

(* cgrtos_isr_enter, in the handler of a device or of the software         *)
(* interrupt, which marks the core                                         *)
IsrEnter(c) ==
    /\ irqOn[c] /\ ~inIsr[c]
    /\ inIsr' = [inIsr EXCEPT ![c] = TRUE] /\ irqOn' = [irqOn EXCEPT ![c] = FALSE]
    /\ \/ IpiClear(c) /\ yieldPending' = [yieldPending EXCEPT ![c] = TRUE]
       \/ UNCHANGED <<msip, yieldPending>>
    /\ UNCHANGED <<coreOf, running, at, reg, depth, sectionVars, consoleVars, kickPending, look>>

(* The tail of every trap: a marked core looks and may switch.             *)
Switches(c) ==
    /\ yieldPending' = [yieldPending EXCEPT ![c] = FALSE] /\ look' = look \ {c}
    /\ \E next \in Callers \cup {NoCaller} :
        /\ next \in Callers => /\ \A d \in LockCores \ {c} : running[d] # next
                               /\ Roams \/ coreOf[next] = c
        /\ running' = [running EXCEPT ![c] = next]
        /\ coreOf' = IF next \in Callers THEN [coreOf EXCEPT ![next] = c] ELSE coreOf
    /\ UNCHANGED <<at, reg, depth, sectionVars, consoleVars, kickPending, msip>>

IsrExit(c) ==
    /\ inIsr[c] /\ at[c] = "out"
    /\ inIsr' = [inIsr EXCEPT ![c] = FALSE] /\ irqOn' = [irqOn EXCEPT ![c] = TRUE]
    /\ IF yieldPending[c]
       THEN Switches(c)
       ELSE UNCHANGED <<coreOf, running, at, reg, depth, sectionVars, consoleVars, kickVars>>

(* cgrtos_sched_yield of a task, and the idle task that sees the mark      *)
Yield(c) ==
    /\ irqOn[c] /\ ~inIsr[c]
    /\ IF running[c] = NoCaller THEN yieldPending[c] ELSE at[running[c]] = "out"
    /\ Switches(c) /\ UNCHANGED <<inIsr, irqOn>>

KernelLockStep ==
    \/ \E x \in Contexts :
        \/ EnterRead(x) \/ EnterTest(x) \/ EnterMask(x) \/ EnterLock(x) \/ ExitCritical(x)
        \/ KickRequest(x) \/ Flush(x) \/ KickAll(x)
        \/ ConsoleRead(x) \/ ConsoleMask(x) \/ ConsoleLock(x) \/ ConsoleUnlock(x)
    \/ \E c \in LockCores : IsrEnter(c) \/ IsrExit(c) \/ Yield(c)

LockSpec == LockInit /\ [][KernelLockStep]_kernelLockVars

(***************************************************************************)
(* Properties                                                              *)
(***************************************************************************)
(* The section excludes: of all tasks and handlers of all cores one at     *)
(* most is inside (cgrtos_enter_critical, the protection of every wait     *)
(* queue and owner).                                                       *)
OneInside == Cardinality({x \in Contexts : depth[x] > 0}) <= 1

(* Of tasks that stay on their core: the section excludes, and so does the *)
(* console; the core of whoever is in either is masked for as long, and    *)
(* unmasked again when its task is in neither; and a core that has to look *)
(* at the EDF order is marked, or will be by who holds the request.        *)
SectionsHold ==
    /\ OneInside
    /\ Cardinality({x \in Contexts : at[x] = "printing"}) <= 1
    /\ \A x \in Contexts : depth[x] > 0 \/ at[x] = "printing" => ~irqOn[CpuId(x)]
    /\ \A t \in Callers : Executes(t) /\ at[t] = "out" => irqOn[coreOf[t]]
    /\ \A c \in look : yieldPending[c] \/ kickPending \/ \E x \in Contexts : at[x] = "kicking"
=============================================================================
