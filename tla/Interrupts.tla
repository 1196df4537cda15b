------------------------------ MODULE Interrupts ------------------------------
(***************************************************************************)
(* External interrupts on one core: the priority groups of kernel/irq.c,   *)
(* the entry and the register accesses of arch/riscv/plic.c, reached by    *)
(* tasks through hal/hal_core.c, and the tail of the trap in startup.S.    *)
(* The controller itself is external: it delivers the enabled source of    *)
(* the highest priority above the threshold, and holds a source back from  *)
(* its claim to its completion.                                            *)
(***************************************************************************)
EXTENDS Devices

CONSTANTS
    Sources,        (* 1..CONFIG_IRQ_MAX_SOURCES                           *)
    MaxIrqPrio,     (* CONFIG_IRQ_PRIORITY_MAX                             *)
    SyscallMax,     (* CONFIG_IRQ_SYSCALL_MAX_PRIO                         *)
    SyscallMaxes,   (* what cgrtos_irq_set_syscall_max_priority is given   *)
    IrqTasks,       (* tasks of this core                                  *)
    Extras,         (* descriptors a board registers of its own            *)
    Outcomes,       (* which drivers work, per class, when the board starts *)
    WakeWhileNesting (* whether handlers wake tasks where handlers nest    *)

ASSUME InterruptAssumption ==
    /\ Sources \subseteq Nat \ {0} /\ MaxIrqPrio \in Nat /\ SyscallMax \in 0..MaxIrqPrio
    /\ WakeWhileNesting \in BOOLEAN /\ SyscallMaxes \subseteq Nat
    /\ Extras \subseteq Devs /\ Outcomes \subseteq [DevClasses -> BOOLEAN]

None == 0 - 1

VARIABLES
    sourcePrio, sourceOn, sourcePending, inService, threshold,  (* the     *)
                        (* controller's registers, and what it holds back  *)
    handlers,           (* the sources with an entry in g_irq_handlers     *)
    sysMax,             (* g_syscall_max_prio                              *)
    frames,             (* the entries of arch_handle_external under way,  *)
                        (* the innermost last                              *)
    marked,             (* g_yield_pending of this core                    *)
    current, parked,    (* the task, and the entries left on each other's stack *)
    nesting             (* CONFIG_IRQ_NESTING: the build's choice          *)

plicVars == <<sourcePrio, sourceOn, sourcePending, inService, threshold>>
irqVars  == <<deviceVars, plicVars, handlers, sysMax, frames, marked, current, parked, nesting>>
taskVars == <<marked, current, parked>>

InterruptInit ==
    /\ DeviceInit
    /\ sourcePrio = [s \in Sources |-> 0] /\ sourceOn = {} /\ sourcePending = {}
    /\ inService = {} /\ threshold = 0
    /\ handlers = {} /\ sysMax = SyscallMax
    /\ frames = << >> /\ marked = FALSE
    /\ current = (CHOOSE t \in IrqTasks : TRUE) /\ parked = [t \in IrqTasks |-> << >>]
    /\ nesting \in BOOLEAN

Inner == Last(frames)
Outer == Front(frames)

(* plic_hw_set_priority, plic_hw_enable and plic_hw_disable, of sources    *)
(* and priorities that there are                                           *)
PlicSetPriority(s, p) ==
    /\ s \in Sources /\ p \in 0..MaxIrqPrio
    /\ sourcePrio' = [sourcePrio EXCEPT ![s] = p]
PlicEnable(s)  == s \in Sources /\ sourceOn' = sourceOn \cup {s}
PlicDisable(s) == s \in Sources /\ sourceOn' = sourceOn \ {s}

(* plic_hw_set_threshold, plic_hw_complete                                 *)
PlicSetThreshold(p) == threshold' = p
PlicComplete(s) == inService' = inService \ {s}

(* cgrtos_irq_init, plic_hw_init                                           *)
IrqInit  == handlers' = {} /\ sysMax' = SyscallMax
PlicInit == threshold' = 0 /\ IrqInit

(* cgrtos_init: the board starts, and with it the controller, if there is one *)
Boot(worked) ==
    /\ BoardInit(worked)
    /\ IF "IRQC" \in {DevClass[d] : d \in ToSet(devs')}
       THEN PlicInit ELSE UNCHANGED <<threshold, handlers, sysMax>>
    /\ UNCHANGED <<sourcePrio, sourceOn, sourcePending, inService, frames, taskVars, nesting>>

(* hal_irqc_set_priority, hal_irqc_enable and hal_irqc_disable, which      *)
(* serialise the tasks of all cores                                        *)
IrqcSetPriority(s, p) == HasDevice("IRQC") /\ PlicSetPriority(s, p)
IrqcEnable(s)  == HasDevice("IRQC") /\ PlicEnable(s)
IrqcDisable(s) == HasDevice("IRQC") /\ PlicDisable(s)

(* hal_irqc_set_threshold                                                  *)
IrqcSetThreshold(p) == HasDevice("IRQC") /\ PlicSetThreshold(p)

(* cgrtos_irq_configure.  A source is not reconfigured under its own       *)
(* handler: the controller would not see its completion.                   *)
Configure(s, p, enable) ==
    /\ s \notin inService
    /\ IrqcSetPriority(s, p)
    /\ IF enable THEN IrqcEnable(s) ELSE IrqcDisable(s)
    /\ UNCHANGED <<deviceVars, sourcePending, inService, threshold, handlers, sysMax, frames,
                   taskVars, nesting>>

(* cgrtos_irq_register, cgrtos_irq_unregister                              *)
RegisterHandler(s) ==
    /\ s \in Sources /\ handlers' = handlers \cup {s}
    /\ UNCHANGED <<deviceVars, plicVars, sysMax, frames, taskVars, nesting>>
UnregisterHandler(s) ==
    /\ s \in Sources /\ handlers' = handlers \ {s}
    /\ UNCHANGED <<deviceVars, plicVars, sysMax, frames, taskVars, nesting>>

(* cgrtos_irq_set_syscall_max_priority, called by tasks                    *)
SetSyscallMax(p) ==
    /\ frames = << >>
    /\ sysMax' = IF p > MaxIrqPrio THEN MaxIrqPrio ELSE p
    /\ UNCHANGED <<deviceVars, plicVars, handlers, frames, taskVars, nesting>>

(* A device raises its line, on a machine that works (external).           *)
RaiseLine(s) ==
    /\ s \notin inService /\ bootResult = "OK" /\ sourcePending' = sourcePending \cup {s}
    /\ UNCHANGED <<deviceVars, sourcePrio, sourceOn, inService, threshold, handlers, sysMax,
                   frames, taskVars, nesting>>

(* The sources the controller would interrupt for, the best of them first, *)
(* and the lowest of equals (external).                                    *)
Delivered == {s \in sourcePending \cap sourceOn : sourcePrio[s] > threshold}
PlicClaim ==
    CHOOSE s \in Delivered : \A r \in Delivered :
        sourcePrio[r] < sourcePrio[s] \/ (sourcePrio[r] = sourcePrio[s] /\ s <= r)

(* A priority of 0 that another core has just written counts as 1.         *)
Level(s) == IF sourcePrio[s] = 0 THEN 1 ELSE sourcePrio[s]

(* A bug form: the handler runs at the threshold it interrupted.           *)
EnterExternalOpen ==
    LET s == PlicClaim IN
    /\ Delivered # {} /\ HasDevice("IRQC") /\ FindDevice("IRQC") \in ready
    /\ nesting \/ frames = << >>
    /\ sourcePending' = sourcePending \ {s} /\ inService' = inService \cup {s}
    /\ frames' = Append(frames, [irq |-> s, saved |-> threshold, level |-> Level(s),
                                 section |-> None, woken |-> FALSE])
    /\ UNCHANGED <<threshold, deviceVars, sourcePrio, sourceOn, handlers, sysMax, taskVars, nesting>>

(* arch_handle_external up to the handler                                  *)
EnterExternal ==
    LET s == PlicClaim IN
    /\ Delivered # {} /\ HasDevice("IRQC") /\ FindDevice("IRQC") \in ready
    /\ nesting \/ frames = << >>
    /\ sourcePending' = sourcePending \ {s} /\ inService' = inService \cup {s}
    /\ frames' = Append(frames, [irq |-> s, saved |-> threshold, level |-> Level(s),
                                 section |-> None, woken |-> FALSE])
    /\ PlicSetThreshold(Level(s))
    /\ UNCHANGED <<deviceVars, sourcePrio, sourceOn, handlers, sysMax, taskVars, nesting>>

(* The handler that cgrtos_irq_dispatch calls; it may call the kernel if   *)
(* its source is of the lower group.                                       *)
InHandler == frames # << >> /\ Inner.irq \in handlers
MayCallKernel == InHandler /\ Inner.level <= sysMax
TopBecomes(f) == frames' = Append(Outer, f)

(* cgrtos_enter_critical_from_isr, cgrtos_exit_critical_from_isr           *)
EnterFromIsr ==
    /\ MayCallKernel /\ Inner.section = None
    /\ TopBecomes([Inner EXCEPT !.section = threshold]) /\ IrqcSetThreshold(sysMax)
    /\ UNCHANGED <<deviceVars, sourcePrio, sourceOn, sourcePending, inService, handlers, sysMax,
                   taskVars, nesting>>
ExitFromIsr ==
    /\ frames # << >> /\ Inner.section # None
    /\ IrqcSetThreshold(Inner.section) /\ TopBecomes([Inner EXCEPT !.section = None])
    /\ UNCHANGED <<deviceVars, sourcePrio, sourceOn, sourcePending, inService, handlers, sysMax,
                   taskVars, nesting>>

(* cgrtos_isr_notify_woken for a task worth a switch: into *woken, which   *)
(* portYIELD_FROM_ISR looks at last, or at once                            *)
NotifyWoken(deferred) ==
    /\ MayCallKernel /\ (nesting => WakeWhileNesting)
    /\ IF deferred THEN TopBecomes([Inner EXCEPT !.woken = TRUE]) /\ UNCHANGED marked
                   ELSE marked' = TRUE /\ UNCHANGED frames
    /\ UNCHANGED <<deviceVars, plicVars, handlers, sysMax, current, parked, nesting>>
YieldFromIsr ==
    /\ frames # << >> /\ Inner.woken
    /\ marked' = TRUE /\ TopBecomes([Inner EXCEPT !.woken = FALSE])
    /\ UNCHANGED <<deviceVars, plicVars, handlers, sysMax, current, parked, nesting>>

(* The tail of a trap with `rest' still to be finished on this task's      *)
(* stack: a marked core goes on with the stack of the task it picks.       *)
TrapTail(rest) ==
    IF marked
    THEN \E t \in IrqTasks :
            LET left == [parked EXCEPT ![current] = rest]
            IN  /\ marked' = FALSE /\ current' = t
                /\ frames' = left[t] /\ parked' = [left EXCEPT ![t] = << >>]
    ELSE frames' = rest /\ UNCHANGED taskVars

(* arch_handle_external after the handler, and the tail of its trap        *)
LeaveExternal ==
    /\ frames # << >> /\ Inner.section = None /\ ~Inner.woken
    /\ PlicSetThreshold(Inner.saved) /\ PlicComplete(Inner.irq)
    /\ TrapTail(Outer)
    /\ UNCHANGED <<deviceVars, sourcePrio, sourceOn, sourcePending, handlers, sysMax, nesting>>

(* A task yields.                                                          *)
YieldTrap ==
    /\ frames = << >> /\ frozen
    /\ \E t \in IrqTasks \ {current} :
        /\ current' = t /\ frames' = parked[t] /\ parked' = [parked EXCEPT ![t] = << >>]
    /\ UNCHANGED <<deviceVars, plicVars, handlers, sysMax, marked, nesting>>

InterruptStep ==
    \/ \E worked \in Outcomes : Boot(worked)
    \/ \E d \in Extras : Register(d) /\ UNCHANGED <<plicVars, handlers, sysMax, frames, taskVars, nesting>>
    \/ \E s \in Sources :
        \/ \E p \in 0..MaxIrqPrio, enable \in BOOLEAN : Configure(s, p, enable)
        \/ RegisterHandler(s) \/ UnregisterHandler(s) \/ RaiseLine(s)
    \/ \E p \in SyscallMaxes : SetSyscallMax(p)
    \/ EnterExternal \/ EnterFromIsr \/ ExitFromIsr
    \/ \E deferred \in BOOLEAN : NotifyWoken(deferred)
    \/ YieldFromIsr \/ LeaveExternal \/ YieldTrap

(***************************************************************************)
(* Properties                                                              *)
(***************************************************************************)
(* A switch waits for the end of the interrupt: no task is switched out    *)
(* with a handler of its core half-way on its stack (portYIELD_FROM_ISR,   *)
(* the tail of trap_vector).                                               *)
HandlersFinish == \A t \in IrqTasks : parked[t] = << >>

(* The threshold that the innermost of n entries runs under                *)
Held(n) ==
    CASE n = 0 -> 0
      [] n > 0 /\ frames[n].section # None -> sysMax
      [] OTHER -> frames[n].level

(* Handlers interrupt each other upwards only, and each runs under, and    *)
(* gives back, the threshold it should; every claim is completed or still  *)
(* being served; and while a handler is in a section of the kernel no      *)
(* other that may call the kernel runs on its core, whatever is configured *)
(* and raised meanwhile (arch_handle_external, kernel/irq.c).              *)
InterruptsNest ==
    /\ \A i \in 2..Len(frames) : frames[i - 1].level < frames[i].level
    /\ threshold = Held(Len(frames))
    /\ \A i \in DOMAIN frames : frames[i].saved = Held(i - 1)
    /\ inService = {frames[i].irq : i \in DOMAIN frames}
    /\ \A i \in DOMAIN frames : frames[i].section # None =>
          \A j \in i + 1..Len(frames) : frames[j].level > sysMax
    /\ HandlersFinish /\ DevicesFound
=============================================================================
