---------------------------- MODULE LoadBalance -----------------------------
(***************************************************************************)
(* Where kernel/scheduler.c puts READY tasks: on the core least loaded     *)
(* when they are created, and from the busier to the other core when the   *)
(* balancer of the tick or the stealing of an idle core moves them.  The   *)
(* code has this for cores 0 and 1 only.  Module Scheduler has the lists   *)
(* that a migration changes; here are the loads that decide on it.         *)
(***************************************************************************)
EXTENDS Integers, FiniteSets, FiniteSetsExt

CONSTANTS
    Movers,         (* task control blocks 1..n of g_tasks                 *)
    Kind, Rank,     (* task->policy and task->prio of each                 *)
    Home,           (* task->cpu_aff of each; 2 for 0xFF                   *)
    PrioScale, CfsWeight, Hysteresis, StealMin, (* CONFIG_LB_*             *)
    TimerPrio,      (* CONFIG_TIMER_TASK_PRIO                              *)
    BalancePeriod,  (* CONFIG_LOAD_BALANCE_PERIOD                          *)
    MaxMoves,       (* how many tasks a pass may move: 4                   *)
    MaxRuntime      (* bound on vruntime                                   *)

ASSUME BalanceAssumption ==
    /\ Movers \subseteq Nat
    /\ Kind \in [Movers -> {"PRIORITY", "CFS", "EDF"}] /\ Rank \in [Movers -> Nat]
    /\ Home \in [Movers -> 0..2]
    /\ {PrioScale, CfsWeight, BalancePeriod} \subseteq Nat \ {0}

VARIABLES
    spot,       (* "out" (not READY and not running), "ready", "running"   *)
    place,      (* the target core of each task                            *)
    runtime,    (* task->vruntime                                          *)
    lbTick,     (* g_lb_tick modulo the period                             *)
    stopped     (* whether the scheduler is suspended                      *)

balanceVars == <<spot, place, runtime, lbTick, stopped>>

BalanceInit ==
    /\ spot = [t \in Movers |-> "out"]
    /\ place = [t \in Movers |-> IF Home[t] = 2 THEN 0 ELSE Home[t]]
    /\ runtime = [t \in Movers |-> 0]
    /\ lbTick = 0 /\ stopped = FALSE

(* sched_task_weight                                                       *)
Weight(t) == CASE Kind[t] = "EDF" -> 0
               [] Kind[t] = "CFS" -> CfsWeight
               [] OTHER -> (Rank[t] + 1) * PrioScale

(* sched_task_migratable                                                   *)
Migratable(t) ==
    spot[t] = "ready" /\ Home[t] = 2 /\ Kind[t] # "EDF" /\ Rank[t] < TimerPrio - 1

(* cgrtos_sched_core_load, were the tasks placed so                        *)
CoreLoad(at, c) ==
    MapThenSumSet(Weight, {t \in Movers : spot[t] # "out" /\ at[t] = c})

(* cgrtos_sched_least_loaded_core                                          *)
LeastLoaded == IF CoreLoad(place, 1) < CoreLoad(place, 0) THEN 1 ELSE 0

(* cgrtos_sched_ready_count: the EDF tasks count as one, wherever it is    *)
ReadyCount(c) ==
    Cardinality({t \in Movers : spot[t] = "ready" /\ place[t] = c /\ Kind[t] # "EDF"})
      + (IF \E t \in Movers : spot[t] = "ready" /\ Kind[t] = "EDF" /\ Home[t] \in {2, c}
         THEN 1 ELSE 0)

Victims(at, src) == {t \in Movers : Migratable(t) /\ at[t] = src}

(* Bug form: the heaviest task goes                                        *)
PickHeaviest(at, src) ==
    CHOOSE t \in Victims(at, src) : \A u \in Victims(at, src) : Weight(t) >= Weight(u)

(* sched_pick_victim: the lightest, of equals that which has run most, and *)
(* of those the last in the table                                          *)
PickVictim(at, src) ==
    CHOOSE t \in Victims(at, src) : \A u \in Victims(at, src) :
        \/ Weight(t) < Weight(u)
        \/ Weight(t) = Weight(u) /\ runtime[t] > runtime[u]
        \/ Weight(t) = Weight(u) /\ runtime[t] = runtime[u] /\ t >= u

(* cgrtos_sched_load_balance: tasks go from the core that was the busier   *)
(* as long as that is by more than the hysteresis                          *)
Balanced ==
    LET busy == IF CoreLoad(place, 0) >= CoreLoad(place, 1) THEN 0 ELSE 1
        pass[n \in 0..MaxMoves] ==
            IF n = 0 THEN place
            ELSE LET at == pass[n - 1]
                 IN  IF /\ CoreLoad(at, busy) - CoreLoad(at, 1 - busy) > Hysteresis
                        /\ Victims(at, busy) # {}
                     THEN [at EXCEPT ![PickVictim(at, busy)] = 1 - busy]
                     ELSE at
    IN  pass[MaxMoves]

-----------------------------------------------------------------------------
(* a task is created or woken; what is created goes where there is less    *)
Appears(t) ==
    /\ spot[t] = "out"
    /\ \E c \in {place[t], IF Home[t] = 2 THEN LeastLoaded ELSE Home[t]} :
         place' = [place EXCEPT ![t] = c]
    /\ spot' = [spot EXCEPT ![t] = "ready"]
    /\ UNCHANGED <<runtime, lbTick, stopped>>

(* a switch of core c                                                      *)
GetsCore(t, c) ==
    /\ ~stopped /\ spot[t] = "ready"
    /\ place[t] = c \/ (Kind[t] = "EDF" /\ Home[t] \in {2, c})
    /\ spot' = [u \in Movers |-> IF u = t THEN "running"
                                 ELSE IF spot[u] = "running" /\ place[u] = c THEN "ready"
                                 ELSE spot[u]]
    /\ place' = [place EXCEPT ![t] = c]
    /\ UNCHANGED <<runtime, lbTick, stopped>>

Blocks(t) ==
    /\ spot[t] = "running"
    /\ spot' = [spot EXCEPT ![t] = "out"]
    /\ UNCHANGED <<place, runtime, lbTick, stopped>>

(* what the tick of core 0 does about loads                                *)
BalanceTick ==
    /\ lbTick' = (lbTick + 1) % BalancePeriod
    /\ runtime' = [t \in Movers |-> IF spot[t] = "running" /\ Kind[t] = "CFS"
                                       /\ runtime[t] < MaxRuntime
                                    THEN runtime[t] + 1 ELSE runtime[t]]
    /\ place' = IF lbTick' = 0 /\ ~stopped THEN Balanced ELSE place
    /\ UNCHANGED <<spot, stopped>>

(* cgrtos_sched_idle_steal on core c                                       *)
Steal(c) ==
    /\ ~stopped /\ ReadyCount(c) = 0 /\ ReadyCount(1 - c) >= StealMin
    /\ Victims(place, 1 - c) # {}
    /\ place' = [place EXCEPT ![PickVictim(place, 1 - c)] = c]
    /\ UNCHANGED <<spot, runtime, lbTick, stopped>>

HoldScheduler == stopped' = ~stopped /\ UNCHANGED <<spot, place, runtime, lbTick>>

BalanceStep ==
    \/ \E t \in Movers : Appears(t) \/ Blocks(t) \/ \E c \in 0..1 : GetsCore(t, c)
    \/ BalanceTick \/ HoldScheduler
    \/ \E c \in 0..1 : Steal(c)

-----------------------------------------------------------------------------
(* What a pass of the balancer does: it goes on until the difference is    *)
(* within the hysteresis, four tasks have gone or none is left to go; all  *)
(* went the same way, lightest first; and the core that was the busier     *)
(* ends lighter by less than twice the last to go.  (It may well end       *)
(* lighter by more than it was heavier before.)                            *)
BalanceConverges ==
    [][(lbTick' = 0 /\ lbTick # 0 /\ ~stopped) =>
        LET busy  == IF CoreLoad(place, 0) >= CoreLoad(place, 1) THEN 0 ELSE 1
            moved == {t \in Movers : place'[t] # place[t]}
            gap   == CoreLoad(place', busy) - CoreLoad(place', 1 - busy)
        IN  /\ moved \subseteq Victims(place, busy) /\ Cardinality(moved) <= MaxMoves
            /\ \A t \in moved, u \in Victims(place', busy) : Weight(t) <= Weight(u)
            /\ \/ gap <= Hysteresis
               \/ Cardinality(moved) = MaxMoves
               \/ Victims(place', busy) = {}
            /\ moved # {} => \E t \in moved : gap > Hysteresis - 2 * Weight(t)]_balanceVars
=============================================================================
