----------------------------- MODULE TimerWheel -----------------------------
(***************************************************************************)
(* The software timers of kernel/timer.c: a wheel of slots that the tick   *)
(* walks, each slot a list of nodes from a fixed pool, and the daemon      *)
(* "Tmr Svc" that gets expiries and the requests of interrupts through a   *)
(* message queue and carries them out later.                               *)
(*                                                                         *)
(* Each action is one section under g_klock.  The queue is a channel of    *)
(* BoundedFifo, which MsgQueue implements; its receiver is the daemon only.*)
(* The callback of a timer is the application's; its calls are among those *)
(* of the tasks.                                                           *)
(***************************************************************************)
EXTENDS Integers, Sequences, FiniteSets, SequencesExt

CONSTANTS
    Timers,     (* the slots of g_timers                                   *)
    Slots,      (* CONFIG_TIMER_WHEEL_SLOTS, a power of two                *)
    PoolSize,   (* the nodes of g_wheel_pool; the code has one per timer   *)
    QueueLen,   (* CONFIG_TIMER_QUEUE_LEN                                  *)
    Periods,    (* the periods the application asks for                    *)
    NewPeriods, (* those that it changes a period to                       *)
    IsrTimers   (* the timers that interrupts make requests about          *)

ASSUME WheelAssumption ==
    /\ Slots \in Nat \ {0} /\ PoolSize \in Nat /\ QueueLen \in Nat \ {0}
    /\ Periods \subseteq Nat \ {0} /\ NewPeriods \subseteq Periods /\ IsrTimers \subseteq Timers

VARIABLES
    used,       (* g_timer_used_slot; a used timer has its callback        *)
    active,     (* timer->active                                           *)
    period,     (* timer->period                                           *)
    periodic,   (* timer->periodic                                         *)
    wheel,      (* g_wheel: per slot, the nodes from the head on           *)
    cursor,     (* g_wheel_cursor                                          *)
    nodes,      (* how many nodes of the pool are taken                    *)
    cmds,       (* g_timer_cmd_q, oldest first                             *)
    daemon      (* the command the daemon has received and not executed,   *)
                (* as a sequence of one or none                            *)

wheelVars == <<active, wheel, nodes>>
timerVars      == <<wheelVars, used, period, periodic, cursor, cmds, daemon>>

Cmd(c, t, p) == [cmd |-> c, timer |-> t, period |-> p]
Commands ==
    {Cmd(c, t, 0) : c \in {"EXPIRE", "START", "STOP"}, t \in Timers}
        \cup {Cmd("CHANGE", t, p) : t \in Timers, p \in Periods}

Entry(t, r) == [timer |-> t, rounds |-> r]

WheelTypeOK ==
    /\ used \in [Timers -> BOOLEAN] /\ active \in [Timers -> BOOLEAN]
    /\ period \in [Timers -> Periods \cup {0}] /\ periodic \in [Timers -> BOOLEAN]
    /\ wheel \in [0..(Slots - 1) -> Seq([timer : Timers, rounds : Nat])]
    /\ cursor \in 0..(Slots - 1)
    /\ nodes \in 0..PoolSize
    /\ cmds \in Seq(Commands) /\ Len(cmds) <= QueueLen
    /\ daemon \in Seq(Commands) /\ Len(daemon) <= 1

(* cgrtos_timer_init                                                       *)
WheelInit ==
    /\ used = [t \in Timers |-> FALSE] /\ active = [t \in Timers |-> FALSE]
    /\ period = [t \in Timers |-> 0] /\ periodic = [t \in Timers |-> FALSE]
    /\ wheel = [s \in 0..(Slots - 1) |-> << >>]
    /\ cursor = 0 /\ nodes = 0
    /\ cmds = << >> /\ daemon = << >>

-----------------------------------------------------------------------------
(* The wheel.                                                              *)

InSlot(t, s) == \E i \in 1..Len(wheel[s]) : wheel[s][i].timer = t
Linked(t)    == {s \in 0..(Slots - 1) : InSlot(t, s)}

(* wheel_remove_entry: the wheel without the first node of t, and the      *)
(* nodes then taken                                                        *)
Unarmed(t) ==
    IF Linked(t) = {} THEN wheel
    ELSE [wheel EXCEPT ![Min(Linked(t))] = RemoveFirstMatch(@, LAMBDA e : e.timer = t)]
NodesWithout(t) == IF Linked(t) = {} THEN nodes ELSE nodes - 1

Span(ticks) == IF ticks = 0 THEN 1 ELSE ticks

(* Bug form: the turns are rounded up                                      *)
RoundsUp(ticks) == (Span(ticks) + Slots - 1) \div Slots

(* wheel_insert: where a timer goes that expires in ticks                  *)
Rounds(ticks)   == (Span(ticks) - 1) \div Slots
SlotFor(at, ticks) == (at + Span(ticks)) % Slots

(* w with a node for t at the head of its slot                             *)
WithEntry(w, at, t, ticks) ==
    [w EXCEPT ![SlotFor(at, ticks)] = <<Entry(t, Rounds(ticks))>> \o @]

(* wheel_entry_alloc: whether there is a node when so many are taken       *)
HasNode(taken) == taken < PoolSize

(* wheel_insert for a timer; with the pool used up it ends up unlinked     *)
Insert(t, ticks) ==
    IF HasNode(NodesWithout(t))
    THEN /\ wheel' = WithEntry(Unarmed(t), cursor, t, ticks)
         /\ nodes' = NodesWithout(t) + 1
    ELSE /\ wheel' = Unarmed(t)
         /\ nodes' = NodesWithout(t)

(* timer_cmd_from_isr and the tick: a full queue drops the command         *)
Posted(queue, c) == IF Len(queue) < QueueLen THEN Append(queue, c) ELSE queue

(* One node of the slot the cursor has come to.  A walk has                *)
(*   front    the list before the node it has come to,                     *)
(*   prev     whether it has passed a node that stays,                     *)
(*   and the active, wheel, nodes and cmds so far.                         *)
(* Without prev, unlinking the node drops all that was put before it.      *)
Passed(w, e) ==
    [w EXCEPT !.front = Append(@, Entry(e.timer, e.rounds - 1)), !.prev = TRUE]

(* Bug form: a one-shot timer is left active                               *)
ExpiredStaysActive(w, e, at) ==
    LET gone == [w EXCEPT !.front = IF w.prev THEN @ ELSE << >>, !.nodes = @ - 1]
    IN  IF ~w.active[e.timer] THEN gone
        ELSE [gone EXCEPT !.cmds = Posted(@, Cmd("EXPIRE", e.timer, 0))]

Expired(w, e, at) ==
    LET t      == e.timer
        before == IF w.prev THEN w.front ELSE << >>
        gone   == [w EXCEPT !.front = before, !.nodes = @ - 1]
        told   == [gone EXCEPT !.cmds = Posted(@, Cmd("EXPIRE", t, 0))]
    IN  IF ~w.active[t] THEN gone
        ELSE IF ~periodic[t] THEN [told EXCEPT !.active[t] = FALSE]
        ELSE IF ~HasNode(w.nodes) THEN told
        ELSE IF SlotFor(at, period[t]) = at
             THEN [told EXCEPT !.nodes = @ + 1,
                               !.front = <<Entry(t, Rounds(period[t]))>> \o @]
             ELSE [told EXCEPT !.nodes = @ + 1,
                               !.wheel = WithEntry(@, at, t, period[t])]

Walk(at) ==
    LET list == wheel[at]
        walk[i \in 0..Len(list)] ==
            IF i = 0
            THEN [front |-> << >>, prev |-> FALSE, active |-> active,
                  wheel |-> wheel, nodes |-> nodes, cmds |-> cmds]
            ELSE IF list[i].rounds > 0
            THEN Passed(walk[i - 1], list[i])
            ELSE Expired(walk[i - 1], list[i], at)
    IN  walk[Len(list)]

(* cgrtos_timer_process_tick                                               *)
Tick ==
    LET at == (cursor + 1) % Slots
        w  == Walk(at)
    IN  /\ cursor' = at
        /\ wheel' = [w.wheel EXCEPT ![at] = w.front]
        /\ active' = w.active
        /\ nodes' = w.nodes
        /\ cmds' = w.cmds
        /\ UNCHANGED <<used, period, periodic, daemon>>

-----------------------------------------------------------------------------
(* The calls, from tasks or the daemon.                                    *)

(* timer_alloc, timer_free_slot                                            *)
TimerAlloc(t)    == ~used[t] /\ used' = [used EXCEPT ![t] = TRUE]
TimerFreeSlot(t) == used[t] /\ used' = [used EXCEPT ![t] = FALSE]

(* cgrtos_timer_create                                                     *)
TimerCreate(t, p, auto) ==
    /\ TimerAlloc(t)
    /\ period' = [period EXCEPT ![t] = p]
    /\ periodic' = [periodic EXCEPT ![t] = auto]
    /\ active' = [active EXCEPT ![t] = FALSE]
    /\ UNCHANGED <<wheel, nodes, cursor, cmds, daemon>>

(* cgrtos_timer_start, which is cgrtos_timer_reset as well                 *)
Start(t) ==
    /\ active' = [active EXCEPT ![t] = TRUE]
    /\ Insert(t, period[t])
    /\ UNCHANGED <<used, period, periodic, cursor>>

(* cgrtos_timer_stop                                                       *)
Stop(t) ==
    /\ active' = [active EXCEPT ![t] = FALSE]
    /\ wheel' = Unarmed(t)
    /\ nodes' = NodesWithout(t)
    /\ UNCHANGED <<used, period, periodic, cursor>>

(* cgrtos_timer_change_period                                              *)
Change(t, p) ==
    /\ period' = [period EXCEPT ![t] = p]
    /\ IF active[t] THEN Insert(t, p) ELSE UNCHANGED <<wheel, nodes>>
    /\ UNCHANGED <<used, active, periodic, cursor>>

(* cgrtos_timer_delete; commands for the timer stay in the queue           *)
TimerDelete(t) ==
    /\ TimerFreeSlot(t)
    /\ period' = [period EXCEPT ![t] = 0]
    /\ periodic' = [periodic EXCEPT ![t] = FALSE]
    /\ active' = [active EXCEPT ![t] = FALSE]
    /\ wheel' = Unarmed(t)
    /\ nodes' = NodesWithout(t)
    /\ UNCHANGED <<cursor, cmds, daemon>>

TaskCall(t) ==
    /\ used[t]
    /\ Start(t) \/ Stop(t) \/ \E p \in NewPeriods : Change(t, p)
    /\ UNCHANGED <<cmds, daemon>>

(* timer_cmd_from_isr, for the *_from_isr variants; a reset is a start     *)
PostCommand(c) ==
    /\ used[c.timer] /\ c.timer \in IsrTimers
    /\ cmds' = Posted(cmds, c)
    /\ UNCHANGED <<wheelVars, used, period, periodic, cursor, daemon>>

StartFromIsr(t) == PostCommand(Cmd("START", t, 0))
StopFromIsr(t)  == PostCommand(Cmd("STOP", t, 0))
ChangePeriodFromIsr(t, p) == PostCommand(Cmd("CHANGE", t, p))

(* timer_daemon_entry: a command is received ...                            *)
DaemonReceives ==
    /\ daemon = << >> /\ cmds # << >>
    /\ daemon' = <<Head(cmds)>>
    /\ cmds' = Tail(cmds)
    /\ UNCHANGED <<wheelVars, used, period, periodic, cursor>>

(* ... and carried out, whatever has become of the timer                   *)
DaemonExecutes ==
    /\ daemon # << >>
    /\ LET c == Head(daemon)
       IN  \/ c.cmd = "EXPIRE" /\ UNCHANGED <<wheelVars, used, period, periodic, cursor>>
           \/ c.cmd = "START"  /\ Start(c.timer)
           \/ c.cmd = "STOP"   /\ Stop(c.timer)
           \/ c.cmd = "CHANGE" /\ Change(c.timer, c.period)
    /\ daemon' = << >>
    /\ UNCHANGED cmds

WheelNext ==
    \/ Tick \/ DaemonReceives \/ DaemonExecutes
    \/ \E t \in Timers : TaskCall(t) \/ TimerDelete(t)
    \/ \E t \in Timers, p \in Periods, auto \in BOOLEAN : TimerCreate(t, p, auto)
    \/ \E t \in Timers : StartFromIsr(t) \/ StopFromIsr(t)
    \/ \E t \in Timers, p \in NewPeriods : ChangePeriodFromIsr(t, p)

-----------------------------------------------------------------------------
(* A timer has one node on the wheel at most, every active timer has one,  *)
(* and the nodes taken from the pool are those on the wheel: no timer goes *)
(* silent while it is active, and no node is lost.  (And every variable    *)
(* keeps to its type, the bounds of the two queues included.)              *)
ArmedOnce ==
    /\ WheelTypeOK
    /\ \A t \in Timers : active[t] => Linked(t) # {}
    /\ \A t \in Timers : Cardinality(Linked(t)) <= 1
    /\ \A s \in 0..(Slots - 1) : \A i, j \in 1..Len(wheel[s]) :
         wheel[s][i].timer = wheel[s][j].timer => i = j
    /\ nodes = Cardinality({t \in Timers : Linked(t) # {}})

(* the ticks until t expires, by where its node lies                       *)
Left(t) ==
    IF ~active[t] \/ Linked(t) = {} THEN 0
    ELSE LET s == CHOOSE s \in Linked(t) : TRUE
             i == CHOOSE i \in 1..Len(wheel[s]) : wheel[s][i].timer = t
         IN  (wheel[s][i].rounds * Slots) + ((s - cursor - 1) % Slots) + 1

(* Slots and rounds are countdowns: whatever is started, stopped, retimed, *)
(* deleted and created again meanwhile, a timer expires exactly its period *)
(* after it was armed, and again if it is periodic.                        *)
Ideal == INSTANCE Countdown WITH left <- [t \in Timers |-> Left(t)]
IsCountdown == Ideal!CountdownSpec

(* A tick reports every timer that is due, once, as far as the queue has   *)
(* room, and nothing else.                                                 *)
TickReport ==
    cursor' # cursor =>
        LET due   == {t \in Timers : Left(t) = 1}
            fits  == QueueLen - Len(cmds)
            fresh == SubSeq(cmds', Len(cmds) + 1, Len(cmds'))
        IN  /\ IsPrefix(cmds, cmds')
            /\ ToSet(fresh) \subseteq {Cmd("EXPIRE", t, 0) : t \in due}
            /\ Cardinality(ToSet(fresh)) = Len(fresh)
            /\ Len(fresh) = IF Cardinality(due) <= fits THEN Cardinality(due) ELSE fits
TickReports == [][TickReport]_timerVars
=============================================================================
