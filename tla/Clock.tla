-------------------------------- MODULE Clock --------------------------------
(***************************************************************************)
(* The tick that arch/riscv/clint.c makes of mtime and mtimecmp on hart 0, *)
(* and the delays of kernel/task.c that count in both: cgrtos_delay_us     *)
(* sleeps whole ticks and spins for the rest.  The task that delays has    *)
(* the highest priority; what holds it or the tick up is that interrupts   *)
(* are masked, that the handler itself takes time, or that the task is     *)
(* interrupted between two reads.  Deadlines has the lists it sleeps in.   *)
(***************************************************************************)
EXTENDS Integers

CONSTANTS
    MtimePerTick,   (* portMTIME_PER_TICK                                  *)
    DelaySpans,     (* arguments of delay_us and delay_ms, in mtime        *)
    UsLimit,        (* the longest that delay_ms turns into microseconds   *)
    BusyUs,         (* CONFIG_DELAY_BUSY_US: boards that may spin          *)
    Increments,     (* arguments of delay_until, in ticks                  *)
    MaxMtime        (* bound on mtime                                      *)

ASSUME ClockAssumption ==
    /\ MtimePerTick \in Nat \ {0} /\ DelaySpans \subseteq Nat /\ UsLimit \in Nat
    /\ BusyUs \subseteq BOOLEAN /\ Increments \subseteq Nat \ {0} /\ MaxMtime \in Nat

VARIABLES
    mtime, mtimecmp, tickNo,    (* the clock, the alarm, g_ticks           *)
    tickMasked,     (* hart 0 has its interrupts off                       *)
    alarmSet,       (* in the handler, the alarm it wrote; else 0          *)
    spins,          (* whether this board may spin                         *)
    sleeper,        (* where the task is in its delay                      *)
    until, wakeTick,    (* t_end, and the tick it sleeps until             *)
    prevWake,       (* *prev_wake of its periodic loop                     *)
    lost            (* history: what held this sleep up so far             *)

clockVars == <<mtime, mtimecmp, tickNo, tickMasked, alarmSet, spins, sleeper, until, wakeTick, prevWake, lost>>
hartVars  == <<mtime, mtimecmp, tickNo, tickMasked, alarmSet, spins>>

Ringing == mtime >= mtimecmp

ClockInit ==
    /\ mtime = 0 /\ mtimecmp = MtimePerTick /\ tickNo = 0 /\ tickMasked = FALSE /\ alarmSet = 0
    /\ spins \in BusyUs /\ sleeper = "idle" /\ until = 0 /\ wakeTick = 0 /\ prevWake = 0 /\ lost = 0

TimePasses ==
    /\ mtime < MaxMtime
    /\ Ringing => tickMasked \/ alarmSet # 0
    /\ mtime' = mtime + 1
    /\ lost' = IF sleeper \in {"counted", "woken"} \/ (sleeper = "asleep" /\ (alarmSet # 0 \/ Ringing))
               THEN lost + 1 ELSE lost
    /\ UNCHANGED <<mtimecmp, tickNo, tickMasked, alarmSet, spins, sleeper, until, wakeTick, prevWake>>

Mask == alarmSet = 0 /\ tickMasked' = ~tickMasked
        /\ UNCHANGED <<mtime, mtimecmp, tickNo, alarmSet, spins, sleeper, until, wakeTick, prevWake, lost>>

(* arch_handle_timer: clint_schedule_next sets the alarm a tick from now,  *)
SetAlarm ==
    /\ Ringing /\ ~tickMasked /\ alarmSet = 0
    /\ mtimecmp' = mtime + MtimePerTick /\ alarmSet' = mtime + MtimePerTick
    /\ UNCHANGED <<mtime, tickNo, tickMasked, spins, sleeper, until, wakeTick, prevWake, lost>>

(* and again if that has passed; then the tick counts, and wakes the task. *)
CountTick ==
    /\ alarmSet # 0 /\ alarmSet' = 0
    /\ mtimecmp' = IF mtime >= alarmSet THEN mtime + MtimePerTick ELSE mtimecmp
    /\ tickNo' = tickNo + 1
    /\ IF sleeper \in {"asleep", "dozing"} /\ wakeTick <= tickNo'
       THEN sleeper' = (IF sleeper = "asleep" THEN "woken" ELSE "idle") /\ wakeTick' = 0
       ELSE UNCHANGED <<sleeper, wakeTick>>
    /\ UNCHANGED <<mtime, tickMasked, spins, until, prevWake, lost>>

-----------------------------------------------------------------------------
(* The task runs when interrupts are on and it is not interrupted.         *)
Runs(point) == ~tickMasked /\ ~Ringing /\ alarmSet = 0 /\ sleeper = point

(* cgrtos_delay and cgrtos_delay_until_tick, to be woken for good          *)
Doze(tick) == sleeper' = "dozing" /\ wakeTick' = tick

(* cgrtos_delay_us, up to its loop                                         *)
DelayUs(d) ==
    /\ Runs("idle") /\ d > 0
    /\ sleeper' = "looping" /\ until' = mtime + d
    /\ UNCHANGED <<hartVars, wakeTick, prevWake, lost>>

(* cgrtos_delay_ms: to the nearest tick where spinning is not allowed or   *)
(* microseconds would overflow; 0 is a yield                               *)
DelayMs(d) ==
    IF spins /\ d <= UsLimit THEN DelayUs(d)
    ELSE LET n == (2 * d + MtimePerTick) \div (2 * MtimePerTick) IN
         /\ Runs("idle") /\ n > 0
         /\ Doze(tickNo + n) /\ UNCHANGED <<hartVars, until, prevWake, lost>>

(* Bug form: no tick is kept back                                          *)
CoarseAll(remain) == remain \div MtimePerTick

(* the ticks to sleep when remain is left: one is kept back                *)
Coarse(remain) == IF remain < 2 * MtimePerTick THEN 0 ELSE (remain \div MtimePerTick) - 1

LoopAgain ==
    /\ Runs("looping")
    /\ LET remain == IF until > mtime THEN until - mtime ELSE 0
       IN  /\ sleeper' = IF remain = 0 THEN "idle" ELSE IF Coarse(remain) = 0 THEN "spinning" ELSE "counted"
           /\ wakeTick' = Coarse(remain) /\ until' = IF remain = 0 THEN 0 ELSE until
    /\ lost' = 0
    /\ UNCHANGED <<hartVars, prevWake>>

(* cgrtos_delay of that many ticks, counted from g_ticks as it is now      *)
FallAsleep ==
    /\ Runs("counted") /\ sleeper' = "asleep" /\ wakeTick' = tickNo + wakeTick
    /\ UNCHANGED <<hartVars, until, prevWake, lost>>

WakesUp ==
    /\ Runs("woken") /\ sleeper' = "looping"
    /\ UNCHANGED <<hartVars, until, wakeTick, prevWake, lost>>

(* delay_busy_until_mtime                                                  *)
SpinEnds ==
    /\ Runs("spinning") /\ mtime >= until /\ sleeper' = "idle" /\ until' = 0
    /\ UNCHANGED <<hartVars, wakeTick, prevWake, lost>>

(* cgrtos_delay_until: a deadline that has passed is not waited for        *)
DelayUntilNext(n) ==
    /\ Runs("idle") /\ prevWake <= tickNo /\ prevWake' = prevWake + n
    /\ IF prevWake' > tickNo THEN Doze(prevWake') ELSE UNCHANGED <<sleeper, wakeTick>>
    /\ UNCHANGED <<hartVars, until, lost>>

ClockStep ==
    \/ TimePasses \/ Mask \/ SetAlarm \/ CountTick
    \/ LoopAgain \/ FallAsleep \/ WakesUp \/ SpinEnds
    \/ \E d \in DelaySpans : DelayUs(d) \/ DelayMs(d)
    \/ \E n \in Increments : DelayUntilNext(n)

(***************************************************************************)
(* Properties                                                              *)
(***************************************************************************)
(* A delay in microseconds never sleeps past its end, unless the ticks and *)
(* the task were held up for longer than the tick it keeps back; it spins  *)
(* for less than two ticks; and the alarm is never further off than a tick,*)
(* so that the clock cannot stop.                                          *)
DelayExact ==
    /\ sleeper \in {"asleep", "woken"} =>
         mtime <= until + (IF lost > MtimePerTick THEN lost - MtimePerTick ELSE 0)
    /\ sleeper = "spinning" => until < mtime + 2 * MtimePerTick
    /\ mtimecmp <= mtime + MtimePerTick
=============================================================================
