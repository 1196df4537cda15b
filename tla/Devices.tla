------------------------------- MODULE Devices --------------------------------
(***************************************************************************)
(* The device registry of hal/hal_core.c and the start of the board: a     *)
(* table of descriptors with a shortcut per class, filled and initialised  *)
(* by hal_board_init and frozen by it.                                     *)
(***************************************************************************)
EXTENDS Integers, Sequences, FiniteSets, SequencesExt

CONSTANTS
    Devs, NoDev,        (* descriptors, and NULL                           *)
    DevName, DevClass,  (* dev->name and dev->class of each                *)
    BoardDevs,          (* the descriptors of hal_board_init, in order     *)
    MaxDevs             (* HAL_DEVICE_MAX                                  *)

DevClasses == {"CPU", "CONSOLE", "TIMER", "IRQC", "IPI"}

ASSUME DeviceAssumption ==
    /\ NoDev \notin Devs /\ DevClass \in [Devs -> DevClasses] /\ DOMAIN DevName = Devs
    /\ BoardDevs \in Seq(Devs) /\ MaxDevs \in Nat

VARIABLES
    devs,           (* g_devs[0 .. g_dev_count - 1]                        *)
    byClass,        (* g_by_class                                          *)
    regFlag, ready, (* who has HAL_DEV_F_REG, HAL_DEV_F_READY              *)
    frozen,         (* g_registry_frozen and g_board_inited                *)
    bootResult      (* what hal_board_init returned                        *)

deviceVars == <<devs, byClass, regFlag, ready, frozen, bootResult>>

(* What the steps of the start pass on to each other.                      *)
Table == [devs |-> devs, byClass |-> byClass, reg |-> regFlag, ready |-> ready, st |-> "OK"]

DeviceInit ==
    /\ devs = << >> /\ byClass = [k \in DevClasses |-> NoDev]
    /\ regFlag = {} /\ ready = {} /\ frozen = FALSE /\ bootResult = "none"

(* str_eq of two names                                                     *)
SameName(d, e) == DevName[d] = DevName[e]

(* cache_device: the first of a class stays                                *)
Cached(shortcut, d) ==
    IF shortcut[DevClass[d]] = NoDev THEN [shortcut EXCEPT ![DevClass[d]] = d] ELSE shortcut

(* A bug form: the last of a class takes over.                             *)
CachedLast(shortcut, d) == [shortcut EXCEPT ![DevClass[d]] = d]

(* hal_device_find                                                         *)
FindIn(tab, k) ==
    LET at == SelectInSeq(tab.devs, LAMBDA d : DevClass[d] = k)
    IN  IF tab.byClass[k] # NoDev THEN tab.byClass[k]
        ELSE IF at = 0 THEN NoDev ELSE tab.devs[at]

Failing(tab, st) == [tab EXCEPT !.st = IF @ = "OK" THEN st ELSE @]

(* hal_device_register of a well-formed descriptor                         *)
Registered(tab, d) ==
    LET twin == SelectInSeq(tab.devs, LAMBDA e : SameName(d, e)) IN
    CASE frozen -> Failing(tab, "STATE")
      [] ~frozen /\ twin # 0 -> [tab EXCEPT !.byClass = Cached(@, tab.devs[twin])]
      [] ~frozen /\ twin = 0 /\ Len(tab.devs) >= MaxDevs -> Failing(tab, "STATE")
      [] OTHER -> [tab EXCEPT !.devs = Append(@, d), !.reg = @ \cup {d}, !.byClass = Cached(@, d)]

(* The class's driver initialises its device, or fails to.                 *)
Initialised(tab, k, worked) ==
    LET d == FindIn(tab, k) IN
    CASE d = NoDev -> Failing(tab, "NODEV")
      [] d # NoDev /\ ~worked -> Failing(tab, "IO")
      [] OTHER -> [tab EXCEPT !.ready = @ \cup {d}, !.byClass = Cached(@, d)]

(* hal_cpu_init, hal_console_init, hal_irqc_init, hal_timer_init           *)
CpuInit(tab, worked)     == Initialised(tab, "CPU", worked)
ConsoleInit(tab, worked) == Initialised(tab, "CONSOLE", worked)
IrqcInit(tab, worked)    == Initialised(tab, "IRQC", worked)
TimerInit(tab, worked)   == Initialised(tab, "TIMER", worked)

(* An IPI device is optional.                                              *)
IpiInit(tab, worked) ==
    IF FindIn(tab, "IPI") = NoDev THEN tab ELSE Initialised(tab, "IPI", worked)

Becomes(tab) ==
    /\ devs' = tab.devs /\ byClass' = tab.byClass /\ regFlag' = tab.reg /\ ready' = tab.ready

(* hal_board_init: what works of the drivers is the machine's choice       *)
BoardInit(worked) ==
    LET listed[i \in 0..Len(BoardDevs)] ==
            IF i = 0 THEN Table ELSE Registered(listed[i - 1], BoardDevs[i])
        basic    == IrqcInit(ConsoleInit(CpuInit(listed[Len(BoardDevs)], worked["CPU"]),
                                         worked["CONSOLE"]), worked["IRQC"])
        complete == IpiInit(TimerInit(basic, worked["TIMER"]), worked["IPI"])
    IN  /\ ~frozen /\ frozen' = TRUE
        /\ Becomes(complete) /\ bootResult' = complete.st

(* A board registers a device of its own before, or in vain after.         *)
Register(d) == Becomes(Registered(Table, d)) /\ UNCHANGED <<frozen, bootResult>>

(* hal_device_find for a class, and the driver's operation behind it       *)
FindDevice(k) == FindIn(Table, k)
HasDevice(k) == FindDevice(k) # NoDev

(* A class is served by the first device registered for it, names are      *)
(* unique, and a start that reports success has left no class of the board *)
(* without an initialised device (hal_device_register, hal_board_init).    *)
DevicesFound ==
    /\ \A i, j \in DOMAIN devs : SameName(devs[i], devs[j]) => i = j
    /\ regFlag = ToSet(devs) /\ ready \subseteq regFlag
    /\ \A k \in DevClasses, i \in DOMAIN devs :
          DevClass[devs[i]] = k => \E j \in 1..i : FindDevice(k) = devs[j] /\ DevClass[devs[j]] = k
    /\ bootResult = "OK" => \A d \in ToSet(BoardDevs) : FindDevice(DevClass[d]) \in ready
=============================================================================
