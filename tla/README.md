# CG-RTOS in TLA+

CG-RTOS (`kernel/`, `arch/`, `hal/`, `cli/`) is a preemptive symmetric
multiprocessing real-time kernel in C: fixed-priority, round-robin, CFS-like,
hybrid and EDF scheduling, blocking IPC objects, software timers, a TLSF heap, a
RAM file system and a shell with an editor. This directory holds TLA+
specifications of it, the TLC configurations that check them on small instances,
and machine-checked proofs.

All paths below are relative to the repository. Unless stated otherwise the
default build for RISC-V is meant: two cores, 31 priorities, `CONFIG_USE_DPCP`,
`CONFIG_MUTEX_DETECT_DEADLOCK`, `CONFIG_USE_EDF` and
`CONFIG_USE_PREEMPT_THRESH` on (`kernel/cgrtos_config.h`).

## 1. Inventory

| Component | State it keeps | Operations | What makes it correct |
|---|---|---|---|
| Blocking core (`scheduler.c`, `task.c`) | `task->state/prio/base_prio/block_obj/wake_ok`, each object's `wait_q`, `g_delayed_list` | block, unblock, pop the highest waiter, expire, suspend, resume, delete, exit, create, set priority, switch | a task is in a wait queue iff it is BLOCKED on that object, once; a wake-up reports what happened; suspended and deleted tasks stay so |
| Semaphore (`ipc.c`) | `count`, `max_count`, `wait_q` | create, take, take from ISR, give, give from ISR, delete | tokens are neither lost nor made up; nobody sleeps while there is a token |
| Mutex (`ipc.c`, `task.c`) | `owner`, `recursive`, `ceiling_*`, `saved_prio` | create, set ceiling, lock, unlock, delete, forced release | mutual exclusion, no forgotten waiter, no wait cycle, priority boosts that last exactly as long as they are due |
| Message queue (`ipc.c`) | ring `buf` with `head`, `tail`, `cnt`; `send_wait_q`, `recv_wait_q` | create, send, receive, ISR forms, delete | messages in order, each once; nobody sleeps beside room or a message |
| Event group (`ipc.c`) | `flags`, `wait_q`, each waiter's mask and options | set, clear, wait (any/all, clear on exit), delete | nobody sleeps on flags that are there |
| Task notification (`task.c`) | `notify_value`, `notify_pending`, `block_reason` | notify, notify from ISR, wait | no notification missed |
| Stream and message buffer (`stream_buffer.c`) | ring of bytes, trigger level, waiters | send, receive, ISR forms, reset, delete | byte order, message boundaries, no lost wake-up |
| Queue set (`queue_set.c`) | table of members, ring of ready indices, `wait_q`, each member's `qset` | create, add, remove, poke, select, delete | table, links and ring agree; nobody sleeps in select beside a ready member |
| Scheduler (`scheduler.c`) | per-core, per-priority ready queues and bitmaps, `g_current`, `g_yield_pending`, load-balance state | add/remove ready, pick next, yield, switch, tick, load balance, affinity | a task runs on one core at a time; the lists hold the READY tasks; the highest ready task runs; balancing settles |
| Delays and deadlines (`scheduler.c`, `task.c`) | delayed list, EDF release wheel, absolute deadlines | delay, delay until, arm, release, set period/deadline | wake-ups and releases at their tick, none lost; earliest deadline first |
| Clock (`arch/riscv/clint.c`, `task.c`) | `mtime`, `mtimecmp`, `g_ticks` | tick interrupt, delay in microseconds | the alarm is always ahead by a tick at most; a delay ends when it should |
| Critical section (`cgrtos.c`, `hal_core.c`) | `g_klock`, nesting and saved interrupt mask per core, console lock | spin lock, enter, exit, ISR entry and exit, EDF kick | exclusion over all cores, interrupts restored at the outermost exit |
| Software timers (`timer.c`) | timing wheel, `rounds`, node pool, command queue, daemon | create, start, stop, change period, delete, tick, daemon | a timer expires a period after it was armed, and again if periodic; no node is lost |
| TLSF heap (`mem.c`) | block headers, free lists, bitmaps | malloc, free | blocks tile the pool, no two free neighbours, lists hold the free ones |
| Fixed pools (`mempool.c`) | stack of free blocks | create, alloc, free, delete | a block is handed out once |
| List (`list.c`) | doubly linked list | insert at the end, sorted, remove | pointers, order and count agree |
| RAM file system, VFS (`fs.c`, `vfs.c`) | inodes, descriptors, directory handles, mounts | open, read, write, seek, unlink, mkdir, rename, mount | contents kept per file, names unique, tree shape, longest mount |
| Interrupts (`irq.c`, `plic.c`) | handler table, priority groups, threshold, nesting | configure, register, dispatch, sections in handlers | a claim is completed, thresholds nest, no switch half-way |
| Start (`startup.S`, `cgrtos.c`, `cli_main.c`) | `boot_sync`, `g_sched_run`, `g_secondary_online`, idle tasks | reset, init, start, start of a secondary core | no core runs ahead of what it needs; each first task starts once |
| HAL (`hal/`) | device registry, console lock | register, find, freeze, init | what was registered is found; registry frozen after the start |
| Shell (`cli/`) | line and history, working directory, open files, editor text with undo | line editing and completion, file commands, editor | cursor inside the line, commands leave nothing open, undo restores the text |
| Trace and log; object queries, safety checks, MPU, strings; assembly; boards, demo, tests | event ring, counters, registers | - | not modelled (section 6) |

How they interact. Everything the kernel shares is changed under one lock,
`g_klock`, taken by `cgrtos_enter_critical` with interrupts off; ready queues have
a second lock, `g_ready_lock`. A blocking call enters the section, finds that it
cannot proceed, links the caller into the object's wait queue and possibly the
delayed list, leaves the section and only then traps (`cgrtos_sched_yield`); the
call continues, in a section of its own or none, when the task is switched to
again. The tick handler on core 0 expires delays, turns the timing wheel and the
EDF wheel, and asks for switches. Interrupt handlers call the `_from_isr`
operations at any time on any core. Objects wake tasks through
`cgrtos_sched_unblock`, which makes the task ready on some core and may send it
an inter-processor interrupt. `cgrtos_task_delete` reaches into the mutexes, the
wait queues and the delayed list. The shell is one task over the mount table over
the file system; it shares nothing else with the kernel's objects.

What is hard: the gap between leaving the section and the trap, in which another
core may wake, suspend or delete the caller, or pick it from the ready queue; the
gap between being woken and running; wake-ups that report through a flag in the
task; priorities that change while a task is in a queue ordered by priority;
timeouts that race wake-ups; deletion in several sections; wheels and rings at
their limits; handlers that nest; cores that start in any order over memory that
a warm reset left. PROJECT.json lists these hazards with the line where each
bites.

## 2. Modules and their correspondence with the code

One action is one section under `g_klock` unless said otherwise. A blocking call
is a section that blocks (after which the task's `stage` is "yield" until its core
traps), a switch away, and, once the task is switched to again (`stage` "wait"),
an action that stands for the rest of the call. Interrupt forms of a call are an
action possible at any time. `PROJECT.json` maps every definition to its lines.

| Module | What it models | State and code |
|---|---|---|
| `TaskWait` | blocking core: block, unblock, pop, expire, suspend, resume, delete, create, exit, set priority, switch | `state`, `prio`, `basePrio`, `blockObj`, `wakeOk` are the fields of the task; `waitq` the `wait_q` of each object; `timed` membership of `g_delayed_list`; `oncpu` the tasks in `g_current`. No specification of its own |
| `Semaphore` | `cgrtos_sem_*` over `TaskWait` | `count`, `max`; `granted` and `outstanding` are history |
| `Mutex` | `cgrtos_mutex_*` with inheritance, ceiling, recursion, the deadlock check, and `cgrtos_task_delete` in its three sections with the forced release | `owner`, `recursive`, `ceiling`, `saved`, `applied`; `held` is history |
| `EventGroup`, `TaskNotify`, `StreamBuffer`; `Signals` | the three families of signals, and the specification that runs one of them on the shared tasks | `flags` and `want`; `value`, `posted`, `sleeping`; the ring `ringOf` with its indices, `sent` is history |
| `QueueSet` | `cgrtos_queue_set_*` over `TaskWait` | `members` the table, `ready` the ring of indices, `qset` the back pointers |
| `MsgQueue` | `cgrtos_queue_*`, in or out of a set; the specification that runs `QueueSet` too | `buf`, `head`, `tail`, `cnt`, `len` |
| `BoundedFifo` | abstract: a bounded FIFO channel | what `MsgQueue` implements, with `chan` the messages between `tail` and `head` |
| `Scheduler` | ready lists, pick, switch, stickiness, forced yield, wake-up across cores, all policies, the calls that move tasks, scheduler suspension | `ready` is `g_ready`, `g_cfs_ready`, `g_edf_global`; `current`, `pending`, `force` are per core; a call that holds `g_klock` across several sections of `g_ready_lock` is several steps (`klock`) |
| `LoadBalance` | the choice of a core at creation, the balancer of the tick, stealing by an idle core | `spot`, `place`, `runtime`; the loads are computed as in the code |
| `Deadlines` | the tick in its sections, the delayed list, the EDF release wheel, periods, deadlines, delays; a release in the steps it takes without `g_klock` | the lists in order, the wheel slot by slot with rounds; `phase` says how far the tick, and the release of `Head(due)`, has come; `relinked` is history |
| `Clock` | `mtime`, `mtimecmp`, the tick of hart 0, `cgrtos_delay_us` and its relatives | the instants at which each is read are steps |
| `KernelLock` | enter and exit of the critical section step by step, `g_klock`, the console lock, ISR entry and exit, the put-off EDF kick | `critNest`, `critSaved`, `klock`; `reg` is the core number a context has read |
| `Interrupts`, `Devices` | `irq.c`, the PLIC's entry, nesting, the tail of the trap; the device registry and the start of the board | `frames` is the stack of handlers, `threshold`, `inService`; `devs`, `byClass`, `frozen` |
| `Boot` | reset to the first task of hart 0, on every hart, with warm memory | `point` is how far each hart has come |
| `TimerWheel` | `kernel/timer.c`: the tick's walk node by node, the calls, the daemon | `wheel` the list of each slot, `nodes` the nodes taken from the pool, `cmds` and `daemon` the queue and the command in hand |
| `Countdown` | abstract: a timer counts its period down | what `TimerWheel` implements, with `left` computed from slot, rounds and cursor |
| `TlsfHeap`, `MemPool`, `LinkedList` | `mem.c`, `mempool.c`, `list.c` | headers by address, lists by class, sizes in words of `Word`; the stack of free blocks; `next`, `prev`, `val`. `taken`, `lent`, `order` are history |
| `RamFs`, `Vfs` | `fs.c` under `vfs.c` | the tables `inodeKind`, `entries`, `cells`, `fds`, `handles`; `written` is history. A name is an atom with its beginnings (`Stems`): a copy into a buffer that is too short for it leaves the one that fits |
| `Shell`, `Vim`, `LineEditor` | `cli/`: commands as sequences of VFS calls that may fail or be interrupted, the editor, the command line | `job` is the command and its locals; `vim`; `edit` |
| `Services` | the parts whose state is their own, one per behaviour | `part` says which |
| `*Proofs` | the theorems | extend the module they are about; `KernelProofs` has the lemmas on the steps of `KernelLock`, `Deadlines` and `TimerWheel`, `ServicesProofs` what follows for the whole |
| `MC*` | the constants of the instances | |

Choices made throughout:

- Handles passed to a call are live (documented precondition); every other
  misuse that the code guards against is a guard here too.
- What applications may do beyond that is a constant: `Suspendable`,
  `Deletable`, `Reprioritized`, `Retimed` name the tasks others suspend, delete,
  re-prioritise or give a deadline; `DeleteHeld`, `DeleteInSet`, `JoinWhileWaited`, `Remote`,
  `Balance`, `IsrTimers`, `Roams`, `WakeWhileNesting`, `Resettable`, `BootPinned`,
  `IndexShort` switch on a behaviour. Where the code does not cope with one, the passing runs
  keep it off and section 5 says what goes wrong with it on.
- Timeouts in `TaskWait` are finite or for ever; a finite one may end at any time
  after the block, which covers every number of ticks. `Deadlines` counts them.
- `TaskWait` lets a core pick any READY task and assumes that a task executes on
  one core; `Scheduler` is where the pick is modelled and `OnOneCore` checked,
  under the conditions section 5 gives.
- The lengths at which the code cuts or refuses (`NameMax`, `PathMax`, `MpMax`,
  `PathDepth`) and the width of its sizes (`Word`) are constants, small enough in the
  instances to be reached.
- A section is one step everywhere but in `KernelLock`, whose `SectionsHold` is
  what the others rely on; `KernelProofs` proves it.
- Idle tasks are `NoTask`. Identifiers, names, statistics, stack checks and
  tracing are left out. In `Scheduler` a CFS or EDF task is queued at any place
  and a deadline is urgent or not, which covers whatever the numbers say;
  `LoadBalance` and `Deadlines` have the numbers.
- "Bug form" definitions are not part of any specification: each is a plausible
  mistake, listed under "mutants", that shows its property can fail.

## 3. What the runs check

| Run | Instance | Properties | Shows |
|---|---|---|---|
| `Sem` | 3 tasks (two equal, one higher), 2 cores, 1 semaphore, interrupts; the lowest suspended, deleted, created, re-prioritised | `SemTypeOK`, `QueueMembership`, `NoIdleToken`, `PassMeansTokenUndisturbed`, `TokenConservation`, `GiveWakesHighest`, `TopWaiterServed` | no token is lost, made up or left idle; results are true; highest first, FIFO among equals |
| `SemStalePass` | 2 tasks, one suspended | `PassMeansToken` is violated | section 5, 1 |
| `Signals` | 2 tasks of unlike priority and interrupts; events or notifications with a task suspended, deleted, created again; or a stream, with a trigger up to one above its size, and a message buffer | `NoIdleFlagWaiter`, `NotifiedWakes`, `RingHoldsSent`, `NoIdleParty` | nobody sleeps on what is there; bytes and messages arrive as sent |
| `MutexKilled` | 2 tasks, 2 mutexes nested in any order, one task suspended, deleted, exiting, re-prioritised | `HoldersAgree`, `FreeHasNoWaiters`, `NoWaitCycle` | exclusion, no forgotten waiter, no cycle, through the three sections of a delete |
| `MutexExitLost` | 2 tasks, one exits | `ExitGetsThere` is violated | section 5, 2 |
| `Queues` | 2 tasks, an interrupt, 2 queues, 1 set, in two regions (`MCMsgQueue`): one queue with a task suspended at any point, or two queues and the set with selectors deleted and created | `NoIdlePeer`, `NoIdleSelector`, `SetIsSound`, `IsFifo` | the ring is a FIFO; nobody sleeps beside what it waits for; table, links and ring agree |
| `Sched` | a HYBRID, an RR and a pinned EDF task, all blocking, 2 cores; the first moved, re-prioritised, suspended, deleted | `QueuedIffReady`, `OnOneCore` | lists hold exactly the READY tasks; a task woken before its core has left it is picked by no other core |
| `SchedBalance` | a pinned PRIORITY task over a PRIORITY and a CFS task that are balanced, scheduler suspension | `TopmostRuns` | the topmost task gets its core |
| `SchedStaleForce` | the same without balancing | `StickyUnlessYielded` is violated | section 5, 3 |
| `Services` | 15 parts, one per behaviour (below) | `BootSound`, `DelayExact`, `MutexTypeOK`, `OwnerCovers`, `BoostEnds`, `SectionsHold`, `InterruptsNest`, `DelaysKept`, `EarliestFirst`, `MemoryKept`, `ListIsSequence`, `FilesHold`, `CommandsFinish`, `PathsKept`, `UndoHolds`, `SavedIsShown`, `LineKept`, `TimersExact`, `BalanceConverges` | each part keeps its promise |
| `SectionRoams` | `sections` with tasks that migrate | `OneInside` is violated | section 5, 4 |
| `SwitchNested` | `interrupts` with handlers that wake tasks where handlers nest | `HandlersFinish` is violated | section 5, 5 |

The parts of `Services`. A behaviour exercises one part and leaves the others
alone, so what is checked of a part is checked of it in any company with which it
shares no state (the file system is shared by "files", "shell" and "editor").

| Part | Instance and what it assumes |
|---|---|
| boot | 4 harts of which 3 have a stack and 2 are built in, 3 tasks, both flags warm or cold; the first task of the table is bound to core 0, as in `cli_main.c` |
| clock | 2 units of `mtime` per tick, delays of 2 ticks and 2.5, boards that may and may not spin; the delay is longer than the time hart 0 needs to its first tick |
| timers | 2 timers, wheel of 2 slots, periods 1 and 3, of which 3 can be changed to 1, 3 nodes (one to spare), queue of 1, interrupts that stop, start and change; periods are no multiples of the wheel |
| deadlines | 2 EDF jobs, one of which also waits for an object (`ObjectWaiters`, which have no period: a release would make such a job READY and leave it in the queue of the object) and the other of which has its period and deadline set (`Retimed`), wheel of 2 slots, 2 ticks; calls between any two steps of a tick and of a release; a behaviour ends where a release is overtaken (`relinked`) |
| balance | 5 tasks: two round robin of unlike rank, two CFS, one EDF bound to core 1 |
| mutex | 3 tasks of 3 priorities, 1 recursive mutex under inheritance or a ceiling |
| sections | 2 tasks pinned to core 0, 2 cores, handlers on both, nesting 2, a handler that prints and a task that kicks |
| interrupts | 2 sources of 3 priorities, handlers with sections, reconfiguration by tasks, boards whose drivers fail; a source is not reconfigured under its own handler, `cgrtos_irq_set_syscall_max_priority` is called by tasks only, handlers that nest wake nobody |
| heap, pool, list | 24 units in words of 32, with requests of 1 and 6, and of 31, which wraps; pools of 2 and 3 blocks; 3 items with 3 keys |
| files, shell, editor | 3 inodes, 2 descriptors, 2 handles, files of at most 3 bytes, paths of two components, names of 1 and 2 characters, which fit (7 in section 5 is what else happens), 2 mounts; mount points are cut to 4 characters and the shell's paths to 8, which both occur; what is open is not removed; the editor has 2 undo entries, a clipboard of 1 and does 4 pieces of work |
| line | lines of 3 characters, a history of 2, 3 lines entered |

Why the bounds are enough. Races over one object need a waiter, a competitor for
it and a third that disturbs: three tasks, or two and an interrupt, which is a
caller that never blocks. A ring of two wraps in both directions of fullness and
lets one message overtake another if order were lost. Two mutexes are what a
cycle needs. Two cores are what the code has. A wheel of two slots with periods
1 and 3 has timers in the same slot with different rounds; 3 nodes for 2 timers
is the code's pool with one timer unused. A heap of 24 units has neighbours on
both sides of a block and lists of two classes. Three inodes are a root, a
directory and a file in it. `MaxCount`, `MaxRecursive`, `MaxLen`, `MaxSuspend`,
`MaxCrit`, `MaxTicks`, `MaxMtime`, `MaxWork`, `MaxEntered` and `MaxInUse` bound
counters and are reached. `Queues` and `Services` disable the deadlock check
because all tasks may be deleted or asleep, or a bound reached, with nothing left
to do; the others keep it.

Fairness. `Sem`: an interrupt that keeps giving is never held off for ever, since
every section ends (weak fairness of that action only). `SchedBalance`: a tick or
a switch request that waits for interrupts to be enabled is taken when they are,
which hardware guarantees each time (strong fairness of `Tick` and `Trap`), and a
call that holds `g_klock` finishes. Nothing is assumed of tasks.
`BalanceConverges` is an action property and needs none.

## 4. What is proved

Each theorem holds for every set of tasks and objects and every value of the
bounds, under the assumptions named in the modules (`WaitAssumption`,
`SemAssumption`, ...: the tasks are a finite set, the objects of two kinds are
apart, priorities are numbers). A behaviour that section 5 shows the code not to
cope with is excluded by the same constant as in the runs, written as the
theorem's `ASSUME`.

| Module | Theorem | States | Under |
|---|---|---|---|
| `SemaphoreProofs` | `SemTypeCorrect`, `WaitersConsistent`, `TokensDoNotIdle`, `PassIsHonest`, `TokensConserved` | `SemTypeOK`, `QueueMembership`, `NoIdleToken`, `PassMeansTokenUndisturbed`, `TokenConservation` | no condition |
| | `GiveIsByPriority` | `GiveWakesHighest` | `Reprioritized = {}` (18) |
| `MutexProofs` | `MutexTypeCorrect`, `NoWaiterForgotten` | `MutexTypeOK`, `FreeHasNoWaiters` | no condition |
| | `HoldersAreOwners`, `LockIsExclusive` | `HoldersAgree`; no two undisturbed tasks hold one mutex | `~DeleteHeld` (section 5, "Kernel objects") |
| | `OwnersNeverLoop` | `NoWaitCycle` | `Cardinality(Tasks) <= DetectDepth` (19) |
| | `OwnerIsBoosted`, `BoostIsUndone` | `OwnerCovers`, `BoostEnds` | `OneLock`: a single mutex, `~DeleteHeld`, `Reprioritized = Deletable = {}` (section 5, "Kernel objects") |
| `SignalsProofs` | `SignalsInvariant`, `FlagWaitersWake`, `PostedWakes` | the invariant below, `NoIdleFlagWaiter`, `NotifiedWakes` | no condition |
| | `StreamInvariant`, `BytesKept`, `PartiesWake` | the invariant below, `RingHoldsSent`, `NoIdleParty` | no condition |
| `SchedulerProofs` | `ListsMatchStates` | `QueuedIffReady` | `Undisturbed`: no task is moved or suspended by a call, or calls leave a task that runs elsewhere alone and nothing balances (13, 15) |
| | `ExecutesOnce` | `OnOneCore` | `Settled`: neither of those, no scheduler suspension, EDF tasks pinned or a single one (14, 15) |
| `MsgQueueProofs` | `RingImplementsFifo` | `IsFifo`, the refinement of `BoundedFifo` | no condition |
| | `TableLinksRingAgree` | `SetIsSound` | `~DeleteInSet` (11) |
| | `NoPeerIdles` | `NoIdlePeer` | `Deletable = {}` (17) |
| | `NoSelectorIdles` | `NoIdleSelector` | `Deletable = {}`, `~JoinWhileWaited`, `~DeleteInSet` (11, 12, 17) |
| `ServicesProofs` | `PointersAreSequence`, `BlocksLentOnce` | `ListIsSequence`; `BlocksShared`, a part of `MemoryKept` | no condition |
| | `DelaysEndInTime`, `CommandLineKept` | `DelayExact`, `LineKept` | no condition |
| | `DeadlinesInOrder` | `EarliestFirst` | no condition; it speaks of what comes before a release is overtaken (8) |
| | `SleepersAndReleases` | `DelaysKept` | `RoomForAll`: no more EDF tasks than `MaxRelease` (20); it speaks of what comes before a release is overtaken (8) |
| | `TimersCountDown` | `TimersExact`, with the refinement of `Countdown` | `SpareNode`: more nodes than timers; `NoMultiple`: no period is a multiple of the wheel (10) |
| | `HandlersNest` | `InterruptsNest` | `~WakeWhileNesting` (5), `NamesTellClass`: devices of one name are of one class (21) |
| | `CoresStartSoundly` | `BootSound` | `FirstIsPinned`: the first task is bound to core 0 (16); `TwoCores`: the build has at most one other core (22) |
| `KernelProofs` | `LockInvariant`, `SectionExcludes` | the invariant below, `SectionsHold` | `~Roams` (4) |

**The blocking core.** `TaskWaitProofs` is what the objects' proofs share.
`WaitInv` joins the types with `QueueMembership` (a task is in the queue of an
object exactly when it is BLOCKED on it), `LinkedOnce` (and is there once),
`DelayedIsBlocked` (only a blocked task is in the delayed list) and
`BlockedInCall` (a blocked task is inside a call on that object). None is
inductive alone: that unlinking a task once empties the queue of it needs
`LinkedOnce`, which at a block needs `QueueMembership`, which at a timeout needs
`DelayedIsBlocked`. `BlockPreserves`, `WakePreserves` and `PopLemma` say
what block, wake and pop do to it for any object, `ExpirePreserves` to
`SwitchPreserves` that no action of the core breaks it; an object's proof then
treats its own operations only. `AddKeepsOrder`, `RemoveKeepsOrder`, `PopKeepsOrder`
and `PurgeKeepsOrder` say that each operation on a wait list leaves it in order of
priority.

**Semaphores.** `SemInv` adds that a free slot has no waiter, that no task waits
beside a token, and `BlockedNotGranted`: the grant of an earlier wait is gone
when a task blocks. `PassIsHonest` follows with what a wake-up writes to
`wake_ok`. `TokenConservation` needs `TokenInv`: a task that was granted a token
is still inside a take on the semaphore it came from, so that a token in flight
is counted at one semaphore only, and leaves when the task does.
`GiveWakesHighest` is a property of steps; `OrderInv` says that each wait list is in
order of priority.

**Mutexes.** `MutexInv` adds `FreeUnwaited` and `FreeIsFlat` (no owner: no
waiter, no depth), `ArgIsObject`, `Agreement` (who believes he holds a mutex
owns it to that depth), `PassMeansOwner` (the pass of a woken waiter means that
the unlock, or the second section of a delete, made it the owner) and
`OwnerKnows`. The delete of a task is three steps in it, with the forced release
between; `DeleteHeld` is needed because a mutex that is deleted while held
leaves its owner with a belief and without a mutex.
That no cycle of waiters arises is stated for induction without walks: `Loopless`,
every group of tasks has one that waits for nobody of the group. A hand-over keeps
it because an heir waits for nobody (`PassedEdges`); a lock that blocks adds an
edge, and if that closed a group, the walk of `mutex_would_deadlock` would stay
among its other tasks and, having more steps than there are of them, meet one
twice (`CheckedEdge`, by the pigeonhole principle), which is a group without
the newcomer (`NoRepeat`). `WalkExists` shows that the recursive functions exist.
The priorities have an invariant of their own, `PrioInv`. The owner is the only task
whose priority may be another than the one it was created with (`Unboosted`), so the
waiters stay in order and an heir is at least as urgent as those behind it: that is why a
hand-over of an inheriting mutex, which boosts nobody, still covers them. `LockKnows` says what
is to be put back: `saved` is the owner's own priority, and a ceiling is
applied exactly while there is an owner. Both fail with a second mutex, whose release
puts back a priority that the first one's waiters have raised.

**Signals.** `SignalsInv` adds `FlagsAwaited` and `PostAwaited`, and for their
sake `FreeGroupIsIdle`, `RunHasNoArg` and `SleeperInCall` (who is in
`notify_wait` waits for no object). `Aside` describes what a step of another
family or of the core may do to a task; `AsideKeeps` shows that such a step
keeps the invariant, so each family is treated once. The walk of `set_bits` over
a queue is `EmptiedQueues` in the model, so the theorem covers any number of
waiters.

**Stream and message buffers.** `StreamInv` is proved beside `SignalsInv`: for each
buffer `BufferOK` (the head is the tail advanced by `avail`, modulo the size; the
bytes between them are `Holds`, what was sent and not received, each message behind
its length), for each task `Party` (what it may sleep on, and only while it would not
do) and `PendOK` (its locals). Three groups of lemmas carry it. Sequences: a
concatenation of frames taken apart again (`FlatEmpty` and those after it), where the
folds of the community modules are replaced by the recursive function they stand
for. Numbers: the bytes of a length, read back by the loop of
`cgrtos_message_buffer_recv`, give that length, for every base and number of bytes;
this is induction over a recursive function, done by the least place at which it
would fail. Rings: bytes written at the head lengthen the ring by exactly them
(`RingWritten`), bytes taken at the tail leave the rest (`RingTaken`), wrapped or
not. `Calm` then says what an operation may do to a buffer that others sleep on: wake
the queue or leave the condition as it was. The property of writers leaves out the
buffers in `Resettable`: a reset wakes nobody, as its `@warning` says.

**Message queues and sets.** Three invariants, one for each kind of state. `RingInv`
has the two indices of the ring together with its counter (`Indices`: the head is
the tail advanced by the counter, modulo the length, which `WrapLemma` states without
a modulus); from it each push and pop, wrapped or not, is a `Put` or `Get` of
`BoundedFifo` on `Contents`, and every other step leaves the channel or opens or
closes it (`RingStep`). `SetInv` adds to `SetIsSound` that a table holds nobody twice
(`MembersOnce`: otherwise a remove would leave the object a member) and that a free slot
is empty (`ClosedSetIsEmpty`). `CoreInv`
joins `WaitInv` and `RingInv` with `ArgKept`, a waiter's local names the queue it is
in, and `Unwaited`, nobody waits for an object that does not exist: create would
not wake him. That nobody idles is a balance of two numbers, what there is to
fetch and how many woken tasks are coming for it, over any number of tasks. `Fed`
lists the four ways a step may keep it: there is nothing to fetch, both sides are kept, one
more on both, one less on both. A step is described by what it does to
each task (`Calm`, `Stays`), from which the sets of the woken follow
(`OthersKeep`); `FedServed` turns the four into cardinalities once, and
one lemma per operation says which applies to each queue. `Alive` is
where the deletion of a task has to be excluded.

**The scheduler.** `QueueInv` is three parts: the fields' types; `CallOK`, that
the task a call has in hand between two of its sections is on no other core; and
`Placed`, that every task is in the list `Where` says it belongs to, once, and in no
other. `QueuedIffReady` is the last part read off. It is not inductive without
the others: a call that took a task out and puts it back two sections later
relies on nobody having put it elsewhere. `ExecutesOnce` needs `PlaceInv`, eight
facts about tasks and the core they are on: a RUNNING task is current on `run_cpu`; a READY
task that is still current (woken before its core has left it) is looked for
on that core only; an EDF task does not change core; a slot of a deleted task
is kept until its core has left it; a caller in a section runs. The global EDF pick
gives seats to tasks in list order (`PickEdf`); `SeatsExist` shows that the
recursive function it is written with exists for a list of any length, by
the least element of the places at which it would fail: induction without the
library's induction theorems.

**Critical sections.** `LockInv` says for each point of enter and exit what its
context knows: `AtHome` (the core number it read is its own, for which tasks
must keep their core), `BusyRuns`, `MaskedIff` (interrupts are off exactly from
the mask to the restoring write), `NestIsDepth`, `LockHeld`, `ConsoleHeld`,
`SavedRight` and `Looked` (a kick that was put off is still owed).
`SectionExcludes` is what justifies one section being one step in the other
modules.

**Lists and pools.** `ListInv` says of every item what follows and precedes it in
`order`, and that an item outside has neither; `ListIsSequence` alone would let an
item be in the sequence twice. `LinkedIn` and `LinkedOut` treat an insertion at any
place and a removal from any place once; that the walk of a sorted insertion stops
where the sequence says it should is `ScanIs`, again by the least place where it
would fail, for both orders. The delayed list, the CFS and EDF lists and the release
wheel are sequences in the other models because of this theorem. `PoolInv` is
`BlocksShared` with the types. Of `MemoryKept` the other part, the heap, is only
checked.

**Clock.** `DelayExact` speaks of a sleeper when he wakes; `InTime` says at each
earlier point how much time is left: `mtime` now, or the tick that is due next, and a
tick's worth for every tick he still waits for, do not exceed the end of his delay
by more than `lost`, the time hart 0 or the task was held up. The tick kept
back by `cgrtos_delay_us` is what lets this start with the count of a tick that has
not yet come.

**Start of the cores.** `BootInv` has what a hart may rely on from how far it and
hart 0 have come (`FlagsOK`: whatever a warm reset left in `g_sched_run` is not read
before it is wiped, because the other flag is taken back before any hart polls it) and
one place for every task (`TaskPlaced`: not made, in one list, or on one
core). `PinnedStay` is why the task that `cgrtos_start` picks without a lock is still
there when it is taken; `StolenWait`, that what an idle task has chosen without a lock stays in
the list of core 0 until it is moved, is where a third core would interfere.

**Interrupts and devices.** `IrqInv` describes the stack of handlers frame by frame:
the levels rise, each frame has saved the threshold that the ones below it held
(`HeldIn`), and the sources in service are those of the stack. `InterruptsNest` says
it of the top only. `DevInv` says of the table that each name is there once and that
each class has its first device in `byClass`; registering a list of any length keeps
it, by the least place at which it would fail.

**Delays and deadlines.** `JobInv` joins the types with `SleepersOK` (the delayed list
is in order, has each job once, holds only blocked jobs and every delayed one, and
nobody in it is overdue once a tick has woken its sleepers), `EdfOK` (the same of the
list of READY jobs, whose keys are their deadlines unless the job is in `staleOrder`),
`WheelOK` (an entry will be released at the tick it was promised, up to one before or
a turn after) and `DueOK`. Calls fall between any two steps of a release, so each list is
right for all jobs but the one in hand (`InHand`), and the calls may not change who that
is. When that job is put back after it has gone elsewhere, `relinked` is set, and the
invariant is proved up to there (`DeadlineStepKeeps`); 8 below shows what comes then. The two lists share lemmas on insertion in order and
removal (`ListKept`). Waking the sleepers and advancing the wheel are recursive
functions over the lists; they are shown to exist for any length (`StepsExist`) and
followed entry by entry. The wheel is arithmetic: an entry put `delta` ticks ahead
of the cursor is met after `delta \div ReleaseSlots` turns and the rest of a turn,
and each tick brings every entry nearer by one, whether its slot is passed or not.
`PeriodicOK`, that no periodic job is off the wheel for good, is kept apart: it alone
needs `RoomForAll`, and it is what fails without it.

**Timers.** `WheelInv` describes the wheel by the set of timers that are on it, the slot of
each and the turns it still waits (`Described`): a timer has one node or none, an active one
has one, and as many nodes are taken as timers are linked. From slot, turns and
cursor follows `left`, the value of `Countdown`. A call takes a node off or puts
one `p` ticks ahead (`PutAhead`), by the same arithmetic as the release wheel of the EDF
tasks; a tick brings every timer that it leaves alone nearer by one (`TickNearer`). The
tick's walk over the slot is followed node by node (`WalkOK`): what is behind it is
done, what is before it is as the tick found it. This is where `NoMultiple` comes
in: a timer that is put back must not land in the slot that is being walked. `SpareNode`
says that the node taken before the old one is freed is there. Without either the
theorem is false, as 10 below shows.

**Command line.** `LineInv` reads the ring of the history back: `hist_get(v)` is, for
each `v` still held, the line entered `v` lines before the latest (`HistHolds`), and what
is on view is that line unless Delete has cut it. `LineKept` alone is not inductive:
the step after next shows lines it says nothing of. Where a push wraps around
the ring is `HistIndexIs`, the one lemma on `%`. That a completion of any directory
gives back text (`Completed`) and that its common start exists (`CommonStart`, a
greatest number) holds for every set of names.

Some models are written as they are for the sake of proof. Notification words and
event flags are sets of bits; a delay sets `blockObj` as the code does; the EDF
pick, the waking of sleepers, the advance of the release wheel and the start of the
board are recursive functions over a list and not RECURSIVE operators or folds; a
search is the first place of a match. Runs and mutants use the same definitions.

What stays with TLC. Liveness under fairness (`TopWaiterServed`,
`TopmostRuns`): the provers do not handle ENABLED. That the
balancer's moves converge (`BalanceConverges`), the walks over heaps and directories
(the heap's part of `MemoryKept`, `FilesHold`), and the properties of the shell's
commands, its paths and its editor (`CommandsFinish`, `PathsKept`, `UndoHolds`,
`SavedIsShown`) are checked on the instances of section 3 and not proved.

## 5. What the models show about the code

With a run ("findings" in PROJECT.json):

1. A waiter that is suspended and resumed leaves its call with the `wake_ok` of an
   earlier wait, and may report success without a token (`SemStalePass`).
2. A task preempted inside `cgrtos_task_exit` after it wrote TERMINATED is never
   run again and never reclaimed (`MutexExitLost`).
3. `g_force_yield` is cleared only when the task that leaves is RUNNING; after a
   task blocks, the next one loses its core at its first tick to anything in the
   lists, or to idle (`SchedStaleForce`).
4. `cgrtos_enter_critical` reads its core number before it masks interrupts; a
   task resumed on another core joins the section of that core's task without the
   lock (`SectionRoams`).
5. A handler that wakes a task and is then interrupted by a source of higher
   priority is switched out half-way by the tail of that trap (`SwitchNested`).

With an instance, or a property, that is one step away from a run:

6. `Services` breaks `GrantedIsHeld` (module `TlsfHeap`): a request near the end of
   32 bits, or near a multiple of them, becomes small or 0 when `cgrtos_malloc` casts
   and aligns it (`mem.c:511`), and the smallest block is granted for it, where
   `mem.c:496` promises NULL. `cgrtos_stream_buffer_create` passes on any size it is
   given, and `cgrtos_calloc` clears the size it was asked for.
7. `Services` with `Paths <- MLong` and `NameMax = 1` breaks `NamesDiffer` (module
   `RamFs`): `cgrtos_fs_rename` looks an overlong name up as it is, finds nothing, and
   stores it cut, beside another of that name (`fs.c:1077`, `fs.c:1102`), although
   `fs.c:1047` forbids to overwrite a target and `dir_add_child` leaves it to its
   callers that no name doubles (`fs.c:418`). A target one level deeper than the
   stack of `path_resolve` doubles as well: the lookup gives up before it sees that the
   name is there (`fs.c:329`).
8. `Services` breaks `ReleaseSpares` (module `Deadlines`): the release of an EDF job looks
   at its state without a lock, unlinks it in one section and links it in another
   (`scheduler.c:503-506`). A job that by then runs, is suspended or sleeps is made READY
   all the same: it executes and is in the list, or is READY and on the delayed list.
   `scheduler.c:482` says that such jobs are spared.
9. `Services` with `IndexShort = TRUE` breaks `UndoHolds`: an undo that has changed the
   text and finds no memory for the index of the lines fails and keeps its entry
   (`cli_vim.c:528`, `cli_vim.c:534`); the next undo does it again.
10. `Services` with a timer period that is a multiple of the wheel breaks
   `TimersExact`: two periodic timers that expire in the same tick, and the one
   that was put back first is unlinked with the second node (`timer.c:562-581`).
   With as many nodes as timers it breaks too: the tick takes a node before it
   frees one.
11. `Queues` with `DeleteInSet = TRUE` breaks `SetIsSound`: a deleted queue stays in
   the table of its set (`ipc.c:1376`).
12. `Queues` with `JoinWhileWaited = TRUE` breaks `NoIdleSelector`: `qs_add` of a
   filled object wakes no one (`queue_set.c:171-204`).
13. `Sched` with `Remote = TRUE` breaks `QueuedIffReady`: the state of a task that
   runs on another core may change between check and write of a call, so it is
   linked twice (`task.c:565-579`).
14. `Sched` with two unpinned EDF tasks breaks `OnOneCore`: the global list seats a
    task that was woken before its core left it on the other core.
15. `SchedBalance` with unpinned tasks that block breaks `OnOneCore`, and with
    managed ones `QueuedIffReady`: the balancer does not take `g_klock`; the
    stealing of an idle core looks at its victim without a lock
    (`scheduler.c:2085`).
16. `Services` with `BootPinned = {}` (as in `demo/main.c`) breaks `BootSound`: the
    task that `cgrtos_start` picks is stolen meanwhile and runs on two cores
    (`cgrtos.c:497`).
17. `Queues` with `Deletable = {t2}`, the task that is woken first, breaks
    `NoIdleSelector`: a task that is deleted after its wake-up and before its second
    try takes the wake-up with it (`task.c:330-345` unlinks a READY task and tells
    nobody), and the next waiter sleeps on beside the ready member. Receivers and
    senders of a queue try again in the same way (`ipc.c:1181`, `ipc.c:1277`).
18. `Sem` with creation priorities between which `NewPrios` moves a waiter breaks
    `GiveWakesHighest`: `cgrtos_task_set_priority` does not sort the queue again
    (`task.c:569`), so the head is no longer the highest. In `Sem` itself the task
    that is moved stays below the others.
19. `MutexKilled` with `DetectDepth = 1` breaks `NoWaitCycle`: a cycle longer than the
    walk is not seen. The walk of the code ends after 16 owners (`ipc.c:112`) while
    `CONFIG_MAX_TASKS` is 64; the comment on it (`ipc.c:100`) says so.
20. `Services` with `MaxRelease = 1` and two periodic jobs (`ObjectWaiters = {}`) breaks
    `DelaysKept`: who is due in a tick that has no room left is taken off the wheel and
    never armed again (`scheduler.c:548-555`). The room is 16 while
    `CONFIG_MAX_TASKS` is 64; the `@warning` there (`scheduler.c:521`) gives the 16 and
    not what becomes of the seventeenth.
21. `Services` with two devices of one name and unlike classes breaks
    `InterruptsNest`: `hal_device_register` reports success for a name that is there
    (`hal_core.c:242`), so the second is never found under its class and
    `hal_board_init` still succeeds.
22. `Services` with `BuiltCores = {0, 1, 2}` breaks `BootSound`: two idle cores choose the
    same task of core 0 without a lock, and the second takes it off the core the first
    has seated it on (`scheduler.c:2073`, `scheduler.c:2085`). The build allows four
    cores (`cgrtos_config.h:118`).

From the reading, not from an instance:

- Kernel objects. With nested inheriting mutexes releasing one drops the boost of
  the other (`ipc.c:690`); `cgrtos_task_set_priority` drops a boost (`task.c:569`);
  a forced release of a
  ceiling mutex leaves `ceiling_applied` set (`ipc.c:960`, `MutexKilled` uses
  inheritance only) and does not reach static mutexes (`ipc.c:953`); a task
  suspended or deleted while it runs elsewhere may block before its core traps and
  so lose that state (`scheduler.c:1312`); between the sections of a delete the
  victim may lock again (`task.c:331`); a woken sender or receiver tries again
  with timeout 0, so a wait without timeout may return empty-handed
  (`ipc.c:1184`), as the comment there says; an event-group wait without timeout
  returns 0 if the flags are cleared before it runs (`ipc.c:1671`).
- Interrupts. A handler that disables its own source loses the completion
  (`plic.c:331`); `cgrtos_enter_critical_from_isr` can lower the threshold
  (`irq.c:225`); the syscall maximum may change while a section is open;
  `hal_console_lock` reads its core number before it masks (`hal_core.c:472`); the
  registry is frozen even if an init failed; the ring of trace events is advanced
  by several cores under local masking only (`trace.c:49`).
- Memory. The lazy init of the heap is outside the section (`mem.c`); a pool's
  checks are outside it too, so a delete can race an alloc; `list.c:136` documents
  the other order among equals than `list_insert_sorted_asc` has.
- Signals. `cgrtos_stream_buffer_create` accepts a trigger above the size
  (`stream_buffer.c:192-211`). No stream ever holds that much: its reader sleeps until
  he times out, and with a full ring its writer does too. `Signals` has such buffers, and
  `NoIdleParty` says that this is the only way for both sides to sleep.
- Deadlines. A release also walks and changes `g_delayed_list` without `g_klock`
  (`cgrtos_sched_unblock` from `scheduler.c:502`), beside whoever walks it under the
  lock; what a torn list does is not modelled, and a call of a task is one step for
  the release. A job that waits for an object when its period comes is made READY and
  stays in the object's queue; so jobs that wait for objects have no period in the model.
- Names and paths. `cgrtos_snprintf` cuts and never returns a negative number
  (`string.c:240-258`), so the tests of `cli_path.c:253` and `cli_path.c:257` never
  fail: a working directory and an argument that are too long together name another
  file. `rm -r` joins the path of each child the same way (`cli_fs.c:355-357`); cut at
  a slash, the child is the directory itself. `vfs_mount` compares the whole mount
  point and stores it cut (`vfs.c:311`). `Shell` and `Vfs` cut as the code does;
  `PathsKept` and `CommandsFinish` speak of the path that is left, and where nothing was
  cut that is the one the operator named.
- File system. Unlinking an open file leaves its descriptor on an inode that the
  next file gets, and a directory can be renamed into its own subtree
  (`fs.c:1057`); `end` wraps for a write near 2^32; the position of a directory
  handle is stale after a removal; the last mount can be unmounted.
- Shell. `cp a a` truncates the file it copies; an aborted `fbench` leaves its
  file; `rm -r` may remove the working directory. In the editor, `:e` that fails
  for memory names the file over an empty text, the index of lines is stale after
  an allocation failed (`Vim` reads the lines off the text), arrow keys in INSERT mode type letters, a key that follows
  Esc at once is dropped, and a deletion in visual mode goes on when the clipboard
  overflows.

## 6. Not modelled

Trace and log are output; object queries, safety checks, the MPU and the string
functions have no protocol of their own; register saving, device registers, the
GIC and the ARM64 start are assembly or hardware access with the same shape as
what is modelled; board files, the demo and the test programs are applications.
The deadline half of the ceiling protocol (`ceiling_rel`) is left out of `Mutex`.
In the shell, md, mw, help, stat, df, pwd and the drawing of the screen are left
out. TLC's reach bounds how large a composition can be: the parts of `Services`
run side by side and not on top of each other; that an interrupt wakes a task
which a balancer has moved is covered piece by piece (`KernelLock`, `Interrupts`,
`Scheduler`, `LoadBalance`) under the conditions named above.
