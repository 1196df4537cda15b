---------------------------- MODULE KernelProofs ----------------------------
(***************************************************************************)
(* The critical section, for any number of cores, of tasks that stay on    *)
(* their core, and of nested sections; the delayed list and the release    *)
(* wheel of the EDF tasks; the wheel of the software timers.  What is      *)
(* shown here of the steps of the last two, ServicesProofs shows of the    *)
(* whole.                                                                  *)
(***************************************************************************)
EXTENDS KernelLock, TimerWheel, Deadlines, TaskWaitProofs

Points == {"out", "in", "entering", "masking", "spinning", "flushing", "kicking",
           "conmask", "conspin", "printing"}

LockTypeOK ==
    /\ running \in [LockCores -> Callers \cup {NoCaller}]
    /\ inIsr \in [LockCores -> BOOLEAN] /\ irqOn \in [LockCores -> BOOLEAN]
    /\ at \in [Contexts -> Points] /\ depth \in [Contexts -> Nat] /\ reg \in [Contexts -> Int]
    /\ critNest \in [LockCores -> Nat] /\ critSaved \in [LockCores -> BOOLEAN] /\ klock \in BOOLEAN
    /\ conSaved \in [LockCores -> BOOLEAN] /\ conLock \in BOOLEAN
    /\ kickPending \in BOOLEAN /\ yieldPending \in [LockCores -> BOOLEAN]
    /\ look \in SUBSET LockCores

(* Every task has its core, and no other has it.                           *)
AtHome ==
    /\ coreOf = HomeOf
    /\ \A c \in LockCores : running[c] \in Callers => HomeOf[running[c]] = c

(* What the point a context has reached says of the sections it is in and  *)
(* of the core number it holds.                                            *)
PointsAgree ==
    \A x \in Contexts :
        /\ at[x] \in {"out", "masking", "spinning", "flushing", "kicking"} => depth[x] = 0
        /\ at[x] = "in" => depth[x] > 0
        /\ at[x] \in {"entering", "masking", "spinning", "conmask"} => reg[x] = CpuId(x)

(* Whoever has masked a core runs there; it is masked for him or for a     *)
(* handler.                                                                *)
Busy(x) == depth[x] > 0 \/ at[x] \in {"spinning", "conspin", "printing"}
BusyRuns == \A x \in Contexts : Busy(x) => Executes(x)
MaskedIff ==
    \A c \in LockCores :
        irqOn[c] <=> ~inIsr[c] /\ (running[c] \in Callers => ~Busy(running[c]))

(* The count of a core is that of its one context inside.                  *)
NestIsDepth ==
    /\ \A x \in Contexts : depth[x] > 0 => critNest[CpuId(x)] = depth[x]
    /\ \A c \in LockCores : critNest[c] > 0 => \E x \in Contexts : CpuId(x) = c /\ depth[x] > 0

LockHeld ==
    /\ \A x \in Contexts : depth[x] > 0 => klock
    /\ \A x, y \in Contexts : depth[x] > 0 /\ depth[y] > 0 => x = y
ConsoleHeld ==
    /\ \A x \in Contexts : at[x] = "printing" => conLock
    /\ \A x, y \in Contexts : at[x] = "printing" /\ at[y] = "printing" => x = y

(* What is saved is what has to be restored.                               *)
SavedRight ==
    \A x \in Contexts :
        /\ at[x] = "spinning" \/ depth[x] > 0 => (critSaved[CpuId(x)] <=> x \in Callers)
        /\ at[x] \in {"conspin", "printing"} =>
              (conSaved[CpuId(x)] <=> x \in Callers /\ depth[x] = 0)

Looked == \A c \in look : yieldPending[c] \/ kickPending \/ \E x \in Contexts : at[x] = "kicking"

LockInv ==
    /\ LockTypeOK /\ AtHome /\ PointsAgree /\ BusyRuns /\ MaskedIff
    /\ NestIsDepth /\ LockHeld /\ ConsoleHeld /\ SavedRight /\ Looked

(***************************************************************************)
(* Where a context runs.                                                   *)
(***************************************************************************)
(* arch_cpu_id of any context is a core.                                   *)
LEMMA CpuIdType ==
    ASSUME LockAssumption, AtHome
    PROVE  \A x \in Contexts : CpuId(x) \in LockCores /\ CpuId(x) \in Int
<1>1. \A x \in Contexts : CpuId(x) \in LockCores
  BY DEF LockAssumption, AtHome, Contexts, CpuId
<1>2. LockCores \subseteq Int
  BY DEF LockAssumption
<1> QED
  BY <1>1, <1>2

(* A core executes one context at a time: a task or its handler.           *)
LEMMA OneExecutes ==
    ASSUME LockAssumption, AtHome, NEW x \in Contexts, NEW y \in Contexts,
           Executes(x), Executes(y), CpuId(x) = CpuId(y)
    PROVE  x = y
BY DEF LockAssumption, AtHome, Contexts, CpuId, Executes

(* A step that moves no task and enters no handler leaves every context    *)
(* where it is.                                                            *)
LEMMA StaysPut ==
    ASSUME LockAssumption, AtHome, UNCHANGED placeVars
    PROVE  /\ AtHome'
           /\ \A x \in Contexts : CpuId(x)' = CpuId(x) /\ Executes(x)' = Executes(x)
BY DEF LockAssumption, AtHome, Contexts, CpuId, Executes, placeVars

(* Whoever executes is alone with his core: the count of the core is his,  *)
(* and so is the mask.                                                     *)
LEMMA CoreIsHis ==
    ASSUME LockAssumption, LockInv, NEW x \in Contexts, Executes(x)
    PROVE  /\ critNest[CpuId(x)] = depth[x]
           /\ irqOn[CpuId(x)] <=> x \in Callers /\ ~Busy(x)
           /\ \A y \in Contexts : Busy(y) /\ CpuId(y) = CpuId(x) => y = x
<1> USE DEF LockInv
<1>1. CpuId(x) \in LockCores
  BY CpuIdType
<1>2. \A y \in Contexts : Busy(y) /\ CpuId(y) = CpuId(x) => y = x
  BY OneExecutes DEF BusyRuns
<1>3. critNest[CpuId(x)] = depth[x]
  <2>1. CASE depth[x] > 0
    BY <2>1 DEF NestIsDepth
  <2>2. CASE ~(depth[x] > 0)
    <3>1. \A y \in Contexts : CpuId(y) = CpuId(x) => ~(depth[y] > 0)
      BY <1>2, <2>2 DEF Busy
    <3>2. ~(critNest[CpuId(x)] > 0)
      BY <1>1, <3>1 DEF NestIsDepth
    <3>3. critNest[CpuId(x)] \in Nat /\ depth[x] \in Nat
      BY <1>1 DEF LockTypeOK
    <3> QED
      BY <2>2, <3>2, <3>3
  <2> QED
    BY <2>1, <2>2
<1>4. irqOn[CpuId(x)] <=> x \in Callers /\ ~Busy(x)
  BY <1>1 DEF MaskedIff, LockAssumption, AtHome, Contexts, CpuId, Executes
<1> QED
  BY <1>2, <1>3, <1>4

(* A step of his keeps the masks right if it does so on his core.          *)
LEMMA MaskIsHis ==
    ASSUME LockAssumption, LockInv, NEW x \in Contexts, Executes(x), UNCHANGED placeVars,
           irqOn' \in [LockCores -> BOOLEAN],
           \A c \in LockCores : c # CpuId(x) => irqOn'[c] = irqOn[c],
           \A y \in Contexts : y # x => Busy(y)' = Busy(y),
           irqOn'[CpuId(x)] <=> x \in Callers /\ ~Busy(x)'
    PROVE  MaskedIff'
<1> USE DEF LockInv
<1>1. ASSUME NEW c \in LockCores
      PROVE  irqOn'[c] <=> ~inIsr'[c] /\ (running'[c] \in Callers => ~Busy(running[c])')
  <2>1. CASE c = CpuId(x)
    <3>1. CASE x \in LockCores
      BY <2>1, <3>1 DEF LockAssumption, CpuId, Executes, placeVars
    <3>2. CASE x \in Callers
      <4>1. ~inIsr'[c] /\ running'[c] = x
        BY <2>1, <3>2 DEF LockAssumption, CpuId, Executes, placeVars
      <4> QED
        BY <2>1, <3>2, <4>1 DEF Busy
    <3> QED
      BY <3>1, <3>2 DEF Contexts
  <2>2. CASE c # CpuId(x)
    <3>1. running[c] \in Callers => running[c] # x /\ running[c] \in Contexts
      BY <2>2 DEF LockAssumption, AtHome, Contexts, CpuId
    <3> QED
      BY <2>2, <3>1 DEF MaskedIff, Busy, placeVars
  <2> QED
    BY <2>1, <2>2
<1> QED
  BY <1>1 DEF MaskedIff, Busy

(* cgrtos_enter_critical: the core is read.                                *)
LEMMA EnterReadKeeps ==
    ASSUME LockAssumption, LockInv, NEW x \in Contexts, EnterRead(x)
    PROVE  LockInv'
<1> USE DEF LockInv, EnterRead, GoesTo, placeVars, sectionVars, consoleVars, kickVars, Free
<1>1. AtHome' /\ \A y \in Contexts : CpuId(y)' = CpuId(y) /\ Executes(y)' = Executes(y)
  BY StaysPut
<1>2. \A y \in Contexts : CpuId(y) \in LockCores /\ CpuId(y) \in Int
  BY CpuIdType
<1>3. /\ critNest[CpuId(x)] = depth[x]
      /\ irqOn[CpuId(x)] <=> x \in Callers /\ ~Busy(x)
      /\ \A y \in Contexts : Busy(y) /\ CpuId(y) = CpuId(x) => y = x
  BY CoreIsHis
<1>4. Executes(x)
  BY DEF Executes
<1>5. LockTypeOK'
  BY <1>2, <1>4 DEF LockTypeOK, Points, LockAssumption
<1>6. PointsAgree'
  BY <1>1, <1>2, <1>3 DEF PointsAgree, LockTypeOK
<1>7. BusyRuns'
  BY <1>1, <1>4 DEF BusyRuns, Busy, LockTypeOK
<1>8. MaskedIff'
  BY <1>3, <1>4 DEF MaskedIff, Busy, LockTypeOK, Contexts
<1>9. NestIsDepth'
  BY <1>1, <1>3, <1>4 DEF NestIsDepth, LockTypeOK
<1>10. LockHeld' /\ ConsoleHeld'
  BY DEF LockHeld, ConsoleHeld, LockTypeOK
<1>11. SavedRight'
  BY <1>1, <1>3, <1>4 DEF SavedRight, LockTypeOK
<1>12. Looked'
  BY DEF Looked, LockTypeOK
<1> QED
  BY <1>1, <1>5, <1>6, <1>7, <1>8, <1>9, <1>10, <1>11, <1>12

(* its count is looked at, and counts on if the section is entered already.*)
LEMMA EnterTestKeeps ==
    ASSUME LockAssumption, LockInv, NEW x \in Contexts, EnterTest(x)
    PROVE  LockInv'
<1> USE DEF LockInv, EnterTest, GoesTo, placeVars, sectionVars, consoleVars, kickVars
<1>1. AtHome' /\ \A y \in Contexts : CpuId(y)' = CpuId(y) /\ Executes(y)' = Executes(y)
  BY StaysPut
<1>2. \A y \in Contexts : CpuId(y) \in LockCores /\ CpuId(y) \in Int
  BY CpuIdType
<1>3. /\ critNest[CpuId(x)] = depth[x]
      /\ irqOn[CpuId(x)] <=> x \in Callers /\ ~Busy(x)
      /\ \A y \in Contexts : Busy(y) /\ CpuId(y) = CpuId(x) => y = x
  BY CoreIsHis
<1>4. Executes(x) /\ reg[x] = CpuId(x)
  BY DEF PointsAgree
<1>5. LockTypeOK'
  BY <1>2, <1>4 DEF LockTypeOK, Points, LockAssumption
<1>6. PointsAgree'
  BY <1>1, <1>2, <1>3 DEF PointsAgree, LockTypeOK
<1>7. BusyRuns'
  BY <1>1, <1>4 DEF BusyRuns, Busy, LockTypeOK
<1>8. MaskedIff'
  BY <1>3, <1>4 DEF MaskedIff, Busy, LockTypeOK, Contexts
<1>9. NestIsDepth'
  <2>1. CASE critNest[reg[x]] = 0
    BY <1>1, <2>1 DEF NestIsDepth, LockTypeOK
  <2>2. CASE critNest[reg[x]] # 0
    <3>1. /\ critNest' = [critNest EXCEPT ![CpuId(x)] = @ + 1]
          /\ depth' = [depth EXCEPT ![x] = @ + 1]
          /\ depth[x] > 0
      BY <1>2, <1>3, <1>4, <2>2 DEF LockTypeOK
    <3> QED
      BY <1>1, <1>2, <1>3, <3>1 DEF NestIsDepth, LockTypeOK, Busy
  <2> QED
    BY <2>1, <2>2
<1>10. LockHeld' /\ ConsoleHeld'
  <2>1. critNest[reg[x]] # 0 => depth[x] > 0
    BY <1>3, <1>4 DEF LockTypeOK
  <2> QED
    BY <2>1 DEF LockHeld, ConsoleHeld, LockTypeOK
<1>11. SavedRight'
  BY <1>1, <1>3, <1>4 DEF SavedRight, LockTypeOK
<1>12. Looked'
  BY DEF Looked, LockTypeOK
<1> QED
  BY <1>1, <1>5, <1>6, <1>7, <1>8, <1>9, <1>10, <1>11, <1>12

(* the core is masked, and what was before is saved.                       *)
LEMMA EnterMaskKeeps ==
    ASSUME LockAssumption, LockInv, NEW x \in Contexts, EnterMask(x)
    PROVE  LockInv'
<1> USE DEF LockInv, EnterMask, GoesTo, placeVars, sectionVars, consoleVars, kickVars
<1>1. AtHome' /\ \A y \in Contexts : CpuId(y)' = CpuId(y) /\ Executes(y)' = Executes(y)
  BY StaysPut
<1>2. \A y \in Contexts : CpuId(y) \in LockCores /\ CpuId(y) \in Int
  BY CpuIdType
<1>3. /\ critNest[CpuId(x)] = depth[x]
      /\ irqOn[CpuId(x)] <=> x \in Callers /\ ~Busy(x)
      /\ \A y \in Contexts : Busy(y) /\ CpuId(y) = CpuId(x) => y = x
  BY CoreIsHis
<1>4. Executes(x) /\ reg[x] = CpuId(x)
  BY DEF PointsAgree
<1>5. LockTypeOK'
  BY <1>2, <1>4 DEF LockTypeOK, Points, LockAssumption
<1>6. PointsAgree'
  BY <1>1, <1>2, <1>3 DEF PointsAgree, LockTypeOK
<1>7. BusyRuns'
  BY <1>1, <1>4 DEF BusyRuns, Busy, LockTypeOK
<1>8. MaskedIff'
  <2>1. irqOn' \in [LockCores -> BOOLEAN] /\ (irqOn'[CpuId(x)] <=> x \in Callers /\ ~Busy(x)')
    BY <1>2, <1>3, <1>4 DEF Busy, LockTypeOK, PointsAgree, SavedRight
  <2>2. \A c \in LockCores : c # CpuId(x) => irqOn'[c] = irqOn[c]
    BY DEF LockTypeOK
  <2>3. \A y \in Contexts : y # x => Busy(y)' = Busy(y)
    BY DEF LockTypeOK, Busy
  <2> QED
    BY <1>4, <2>1, <2>2, <2>3, MaskIsHis
<1>9. NestIsDepth'
  BY <1>1, <1>3, <1>4 DEF NestIsDepth, LockTypeOK
<1>10. LockHeld' /\ ConsoleHeld'
  BY DEF LockHeld, ConsoleHeld, LockTypeOK
<1>11. SavedRight'
  BY <1>1, <1>2, <1>3, <1>4 DEF SavedRight, LockTypeOK, PointsAgree, Busy
<1>12. Looked'
  BY DEF Looked, LockTypeOK
<1> QED
  BY <1>1, <1>5, <1>6, <1>7, <1>8, <1>9, <1>10, <1>11, <1>12

(* the spin lock.                                                          *)
LEMMA EnterLockKeeps ==
    ASSUME LockAssumption, LockInv, NEW x \in Contexts, EnterLock(x)
    PROVE  LockInv'
<1> USE DEF LockInv, EnterLock, GoesTo, placeVars, sectionVars, consoleVars, kickVars
<1>1. AtHome' /\ \A y \in Contexts : CpuId(y)' = CpuId(y) /\ Executes(y)' = Executes(y)
  BY StaysPut
<1>2. \A y \in Contexts : CpuId(y) \in LockCores /\ CpuId(y) \in Int
  BY CpuIdType
<1>3. /\ critNest[CpuId(x)] = depth[x]
      /\ irqOn[CpuId(x)] <=> x \in Callers /\ ~Busy(x)
      /\ \A y \in Contexts : Busy(y) /\ CpuId(y) = CpuId(x) => y = x
  BY CoreIsHis
<1>4. Executes(x) /\ reg[x] = CpuId(x)
  BY DEF PointsAgree
<1>5. LockTypeOK'
  BY <1>2, <1>4 DEF LockTypeOK, Points, LockAssumption
<1>6. PointsAgree'
  BY <1>1, <1>2, <1>3 DEF PointsAgree, LockTypeOK
<1>7. BusyRuns'
  BY <1>1, <1>4 DEF BusyRuns, Busy, LockTypeOK
<1>8. MaskedIff'
  BY <1>3, <1>4 DEF MaskedIff, Busy, LockTypeOK, Contexts
<1>9. NestIsDepth'
  BY <1>1, <1>2, <1>3, <1>4 DEF NestIsDepth, LockTypeOK, PointsAgree, Busy
<1>10. LockHeld' /\ ConsoleHeld'
  BY DEF LockHeld, ConsoleHeld, LockTypeOK
<1>11. SavedRight'
  BY <1>1, <1>3, <1>4 DEF SavedRight, LockTypeOK
<1>12. Looked'
  BY DEF Looked, LockTypeOK
<1> QED
  BY <1>1, <1>5, <1>6, <1>7, <1>8, <1>9, <1>10, <1>11, <1>12

(* cgrtos_exit_critical: the last exit gives the lock back and unmasks.    *)
LEMMA ExitCriticalKeeps ==
    ASSUME LockAssumption, LockInv, NEW x \in Contexts, ExitCritical(x)
    PROVE  LockInv'
<1> USE DEF LockInv, ExitCritical, GoesTo, placeVars, sectionVars, consoleVars, kickVars, InCritical
<1>1. AtHome' /\ \A y \in Contexts : CpuId(y)' = CpuId(y) /\ Executes(y)' = Executes(y)
  BY StaysPut
<1>2. \A y \in Contexts : CpuId(y) \in LockCores /\ CpuId(y) \in Int
  BY CpuIdType
<1>3. /\ critNest[CpuId(x)] = depth[x]
      /\ irqOn[CpuId(x)] <=> x \in Callers /\ ~Busy(x)
      /\ \A y \in Contexts : Busy(y) /\ CpuId(y) = CpuId(x) => y = x
  BY CoreIsHis
<1>4. Executes(x)
  BY DEF Executes
<1>5. LockTypeOK'
  <2>1. depth[x] \in Nat /\ depth[x] > 0 /\ critNest[CpuId(x)] \in Nat /\ critNest[CpuId(x)] > 0
    BY <1>2, <1>3 DEF PointsAgree, LockTypeOK
  <2>2. depth[x] - 1 \in Nat /\ critNest[CpuId(x)] - 1 \in Nat
    BY <2>1
  <2>3. depth' \in [Contexts -> Nat] /\ critNest' \in [LockCores -> Nat]
    BY <2>2 DEF LockTypeOK
  <2>4. klock' \in BOOLEAN /\ at' \in [Contexts -> Points] /\ irqOn' \in [LockCores -> BOOLEAN]
    BY <1>2 DEF LockTypeOK, Points
  <2> QED
    BY <2>3, <2>4 DEF LockTypeOK
<1>6. PointsAgree'
  BY <1>1, <1>2, <1>3 DEF PointsAgree, LockTypeOK
<1>7. BusyRuns'
  BY <1>1, <1>4 DEF BusyRuns, Busy, LockTypeOK
<1>8. MaskedIff'
  <2>1. depth[x] \in Nat /\ depth[x] > 0 /\ (critSaved[CpuId(x)] <=> x \in Callers)
    BY <1>3 DEF PointsAgree, LockTypeOK, SavedRight
  <2>2. irqOn' \in [LockCores -> BOOLEAN] /\ (irqOn'[CpuId(x)] <=> x \in Callers /\ ~Busy(x)')
    BY <1>2, <1>3, <2>1 DEF Busy, LockTypeOK
  <2>3. \A c \in LockCores : c # CpuId(x) => irqOn'[c] = irqOn[c]
    BY DEF LockTypeOK
  <2>4. \A y \in Contexts : y # x => Busy(y)' = Busy(y)
    BY DEF LockTypeOK, Busy
  <2> QED
    BY <1>4, <2>2, <2>3, <2>4, MaskIsHis
<1>9. NestIsDepth'
  <2>1. depth[x] \in Nat /\ depth[x] > 0
    BY DEF PointsAgree, LockTypeOK
  <2> QED
    BY <1>1, <1>2, <1>3, <1>4, <2>1 DEF NestIsDepth, LockTypeOK, Busy
<1>10. LockHeld' /\ ConsoleHeld'
  <2>1. depth[x] \in Nat /\ depth[x] > 0
    BY DEF PointsAgree, LockTypeOK
  <2> QED
    BY <1>3, <2>1 DEF LockHeld, ConsoleHeld, LockTypeOK
<1>11. SavedRight'
  BY <1>1, <1>3, <1>4 DEF SavedRight, LockTypeOK
<1>12. Looked'
  BY DEF Looked, LockTypeOK
<1> QED
  BY <1>1, <1>5, <1>6, <1>7, <1>8, <1>9, <1>10, <1>11, <1>12

(* sched_edf_kick_request, at once or put off.                             *)
LEMMA KickRequestKeeps ==
    ASSUME LockAssumption, LockInv, NEW x \in Contexts, KickRequest(x)
    PROVE  LockInv'
<1> USE DEF LockInv, KickRequest, GoesTo, placeVars, sectionVars, consoleVars, kickVars, Free, InCritical
<1>1. AtHome' /\ \A y \in Contexts : CpuId(y)' = CpuId(y) /\ Executes(y)' = Executes(y)
  BY StaysPut
<1>2. \A y \in Contexts : CpuId(y) \in LockCores /\ CpuId(y) \in Int
  BY CpuIdType
<1>3. /\ critNest[CpuId(x)] = depth[x]
      /\ irqOn[CpuId(x)] <=> x \in Callers /\ ~Busy(x)
      /\ \A y \in Contexts : Busy(y) /\ CpuId(y) = CpuId(x) => y = x
  BY CoreIsHis
<1>4. Executes(x)
  BY DEF Executes
<1>5. LockTypeOK'
  BY <1>2, <1>4 DEF LockTypeOK, Points, LockAssumption
<1>6. PointsAgree'
  BY <1>1, <1>2, <1>3 DEF PointsAgree, LockTypeOK
<1>7. BusyRuns'
  BY <1>1, <1>4 DEF BusyRuns, Busy, LockTypeOK
<1>8. MaskedIff'
  BY <1>3, <1>4 DEF MaskedIff, Busy, LockTypeOK, Contexts
<1>9. NestIsDepth'
  BY <1>1, <1>3, <1>4 DEF NestIsDepth, LockTypeOK
<1>10. LockHeld' /\ ConsoleHeld'
  BY DEF LockHeld, ConsoleHeld, LockTypeOK
<1>11. SavedRight'
  BY <1>1, <1>3, <1>4 DEF SavedRight, LockTypeOK
<1>12. Looked'
  BY DEF Looked, LockTypeOK
<1> QED
  BY <1>1, <1>5, <1>6, <1>7, <1>8, <1>9, <1>10, <1>11, <1>12

(* cgrtos_sched_edf_kick_flush.                                            *)
LEMMA FlushKeeps ==
    ASSUME LockAssumption, LockInv, NEW x \in Contexts, Flush(x)
    PROVE  LockInv'
<1> USE DEF LockInv, Flush, GoesTo, placeVars, sectionVars, consoleVars, kickVars, Caller
<1>1. AtHome' /\ \A y \in Contexts : CpuId(y)' = CpuId(y) /\ Executes(y)' = Executes(y)
  BY StaysPut
<1>2. \A y \in Contexts : CpuId(y) \in LockCores /\ CpuId(y) \in Int
  BY CpuIdType
<1>3. /\ critNest[CpuId(x)] = depth[x]
      /\ irqOn[CpuId(x)] <=> x \in Callers /\ ~Busy(x)
      /\ \A y \in Contexts : Busy(y) /\ CpuId(y) = CpuId(x) => y = x
  BY CoreIsHis
<1>4. Executes(x)
  BY DEF Executes
<1>5. LockTypeOK'
  BY <1>2, <1>4 DEF LockTypeOK, Points, LockAssumption
<1>6. PointsAgree'
  BY <1>1, <1>2, <1>3 DEF PointsAgree, LockTypeOK
<1>7. BusyRuns'
  BY <1>1, <1>4 DEF BusyRuns, Busy, LockTypeOK
<1>8. MaskedIff'
  BY <1>3, <1>4 DEF MaskedIff, Busy, LockTypeOK, Contexts
<1>9. NestIsDepth'
  BY <1>1, <1>3, <1>4 DEF NestIsDepth, LockTypeOK
<1>10. LockHeld' /\ ConsoleHeld'
  BY DEF LockHeld, ConsoleHeld, LockTypeOK
<1>11. SavedRight'
  BY <1>1, <1>3, <1>4 DEF SavedRight, LockTypeOK
<1>12. Looked'
  BY DEF Looked, LockTypeOK
<1> QED
  BY <1>1, <1>5, <1>6, <1>7, <1>8, <1>9, <1>10, <1>11, <1>12

(* sched_mcedf_kick_all.                                                   *)
LEMMA KickAllKeeps ==
    ASSUME LockAssumption, LockInv, NEW x \in Contexts, KickAll(x)
    PROVE  LockInv'
<1> USE DEF LockInv, KickAll, GoesTo, placeVars, sectionVars, consoleVars, kickVars, Caller, IpiSend
<1>1. AtHome' /\ \A y \in Contexts : CpuId(y)' = CpuId(y) /\ Executes(y)' = Executes(y)
  BY StaysPut
<1>2. \A y \in Contexts : CpuId(y) \in LockCores /\ CpuId(y) \in Int
  BY CpuIdType
<1>3. /\ critNest[CpuId(x)] = depth[x]
      /\ irqOn[CpuId(x)] <=> x \in Callers /\ ~Busy(x)
      /\ \A y \in Contexts : Busy(y) /\ CpuId(y) = CpuId(x) => y = x
  BY CoreIsHis
<1>4. Executes(x)
  BY DEF Executes
<1>5. LockTypeOK'
  BY <1>2, <1>4 DEF LockTypeOK, Points, LockAssumption
<1>6. PointsAgree'
  BY <1>1, <1>2, <1>3 DEF PointsAgree, LockTypeOK
<1>7. BusyRuns'
  BY <1>1, <1>4 DEF BusyRuns, Busy, LockTypeOK
<1>8. MaskedIff'
  BY <1>3, <1>4 DEF MaskedIff, Busy, LockTypeOK, Contexts
<1>9. NestIsDepth'
  BY <1>1, <1>3, <1>4 DEF NestIsDepth, LockTypeOK
<1>10. LockHeld' /\ ConsoleHeld'
  BY DEF LockHeld, ConsoleHeld, LockTypeOK
<1>11. SavedRight'
  BY <1>1, <1>3, <1>4 DEF SavedRight, LockTypeOK
<1>12. Looked'
  BY DEF Looked, LockTypeOK
<1> QED
  BY <1>1, <1>5, <1>6, <1>7, <1>8, <1>9, <1>10, <1>11, <1>12

(* hal_console_lock: the core is read.                                     *)
LEMMA ConsoleReadKeeps ==
    ASSUME LockAssumption, LockInv, NEW x \in Contexts, ConsoleRead(x)
    PROVE  LockInv'
<1> USE DEF LockInv, ConsoleRead, GoesTo, placeVars, sectionVars, consoleVars, kickVars, Free
<1>1. AtHome' /\ \A y \in Contexts : CpuId(y)' = CpuId(y) /\ Executes(y)' = Executes(y)
  BY StaysPut
<1>2. \A y \in Contexts : CpuId(y) \in LockCores /\ CpuId(y) \in Int
  BY CpuIdType
<1>3. /\ critNest[CpuId(x)] = depth[x]
      /\ irqOn[CpuId(x)] <=> x \in Callers /\ ~Busy(x)
      /\ \A y \in Contexts : Busy(y) /\ CpuId(y) = CpuId(x) => y = x
  BY CoreIsHis
<1>4. Executes(x)
  BY DEF Executes
<1>5. LockTypeOK'
  BY <1>2, <1>4 DEF LockTypeOK, Points, LockAssumption
<1>6. PointsAgree'
  BY <1>1, <1>2, <1>3 DEF PointsAgree, LockTypeOK
<1>7. BusyRuns'
  BY <1>1, <1>4 DEF BusyRuns, Busy, LockTypeOK
<1>8. MaskedIff'
  BY <1>3, <1>4 DEF MaskedIff, Busy, LockTypeOK, Contexts
<1>9. NestIsDepth'
  BY <1>1, <1>3, <1>4 DEF NestIsDepth, LockTypeOK
<1>10. LockHeld' /\ ConsoleHeld'
  BY DEF LockHeld, ConsoleHeld, LockTypeOK
<1>11. SavedRight'
  BY <1>1, <1>3, <1>4 DEF SavedRight, LockTypeOK
<1>12. Looked'
  BY DEF Looked, LockTypeOK
<1> QED
  BY <1>1, <1>5, <1>6, <1>7, <1>8, <1>9, <1>10, <1>11, <1>12

(* the core is masked.                                                     *)
LEMMA ConsoleMaskKeeps ==
    ASSUME LockAssumption, LockInv, NEW x \in Contexts, ConsoleMask(x)
    PROVE  LockInv'
<1> USE DEF LockInv, ConsoleMask, GoesTo, placeVars, sectionVars, consoleVars, kickVars
<1>1. AtHome' /\ \A y \in Contexts : CpuId(y)' = CpuId(y) /\ Executes(y)' = Executes(y)
  BY StaysPut
<1>2. \A y \in Contexts : CpuId(y) \in LockCores /\ CpuId(y) \in Int
  BY CpuIdType
<1>3. /\ critNest[CpuId(x)] = depth[x]
      /\ irqOn[CpuId(x)] <=> x \in Callers /\ ~Busy(x)
      /\ \A y \in Contexts : Busy(y) /\ CpuId(y) = CpuId(x) => y = x
  BY CoreIsHis
<1>4. Executes(x) /\ reg[x] = CpuId(x)
  BY DEF PointsAgree
<1>5. LockTypeOK'
  BY <1>2, <1>4 DEF LockTypeOK, Points, LockAssumption
<1>6. PointsAgree'
  BY <1>1, <1>2, <1>3 DEF PointsAgree, LockTypeOK
<1>7. BusyRuns'
  BY <1>1, <1>4 DEF BusyRuns, Busy, LockTypeOK
<1>8. MaskedIff'
  <2>1. irqOn' \in [LockCores -> BOOLEAN] /\ (irqOn'[CpuId(x)] <=> x \in Callers /\ ~Busy(x)')
    BY <1>2, <1>3, <1>4 DEF Busy, LockTypeOK, PointsAgree, SavedRight
  <2>2. \A c \in LockCores : c # CpuId(x) => irqOn'[c] = irqOn[c]
    BY DEF LockTypeOK
  <2>3. \A y \in Contexts : y # x => Busy(y)' = Busy(y)
    BY DEF LockTypeOK, Busy
  <2> QED
    BY <1>4, <2>1, <2>2, <2>3, MaskIsHis
<1>9. NestIsDepth'
  BY <1>1, <1>3, <1>4 DEF NestIsDepth, LockTypeOK
<1>10. LockHeld' /\ ConsoleHeld'
  BY DEF LockHeld, ConsoleHeld, LockTypeOK
<1>11. SavedRight'
  BY <1>1, <1>2, <1>3, <1>4 DEF SavedRight, LockTypeOK, PointsAgree, Busy
<1>12. Looked'
  BY DEF Looked, LockTypeOK
<1> QED
  BY <1>1, <1>5, <1>6, <1>7, <1>8, <1>9, <1>10, <1>11, <1>12

(* the lock of the console.                                                *)
LEMMA ConsoleLockKeeps ==
    ASSUME LockAssumption, LockInv, NEW x \in Contexts, ConsoleLock(x)
    PROVE  LockInv'
<1> USE DEF LockInv, ConsoleLock, GoesTo, placeVars, sectionVars, consoleVars, kickVars
<1>1. AtHome' /\ \A y \in Contexts : CpuId(y)' = CpuId(y) /\ Executes(y)' = Executes(y)
  BY StaysPut
<1>2. \A y \in Contexts : CpuId(y) \in LockCores /\ CpuId(y) \in Int
  BY CpuIdType
<1>3. /\ critNest[CpuId(x)] = depth[x]
      /\ irqOn[CpuId(x)] <=> x \in Callers /\ ~Busy(x)
      /\ \A y \in Contexts : Busy(y) /\ CpuId(y) = CpuId(x) => y = x
  BY CoreIsHis
<1>4. Executes(x)
  BY DEF Executes
<1>5. LockTypeOK'
  BY <1>2, <1>4 DEF LockTypeOK, Points, LockAssumption
<1>6. PointsAgree'
  BY <1>1, <1>2, <1>3 DEF PointsAgree, LockTypeOK
<1>7. BusyRuns'
  BY <1>1, <1>4 DEF BusyRuns, Busy, LockTypeOK
<1>8. MaskedIff'
  BY <1>3, <1>4 DEF MaskedIff, Busy, LockTypeOK, Contexts
<1>9. NestIsDepth'
  BY <1>1, <1>3, <1>4 DEF NestIsDepth, LockTypeOK
<1>10. LockHeld' /\ ConsoleHeld'
  BY DEF LockHeld, ConsoleHeld, LockTypeOK
<1>11. SavedRight'
  BY <1>1, <1>3, <1>4 DEF SavedRight, LockTypeOK
<1>12. Looked'
  BY DEF Looked, LockTypeOK
<1> QED
  BY <1>1, <1>5, <1>6, <1>7, <1>8, <1>9, <1>10, <1>11, <1>12

(* hal_console_unlock.                                                     *)
LEMMA ConsoleUnlockKeeps ==
    ASSUME LockAssumption, LockInv, NEW x \in Contexts, ConsoleUnlock(x)
    PROVE  LockInv'
<1> USE DEF LockInv, ConsoleUnlock, GoesTo, placeVars, sectionVars, consoleVars, kickVars, Caller
<1>1. AtHome' /\ \A y \in Contexts : CpuId(y)' = CpuId(y) /\ Executes(y)' = Executes(y)
  BY StaysPut
<1>2. \A y \in Contexts : CpuId(y) \in LockCores /\ CpuId(y) \in Int
  BY CpuIdType
<1>3. /\ critNest[CpuId(x)] = depth[x]
      /\ irqOn[CpuId(x)] <=> x \in Callers /\ ~Busy(x)
      /\ \A y \in Contexts : Busy(y) /\ CpuId(y) = CpuId(x) => y = x
  BY CoreIsHis
<1>4. Executes(x)
  BY DEF Executes
<1>5. LockTypeOK'
  BY <1>2, <1>4 DEF LockTypeOK, Points, LockAssumption
<1>6. PointsAgree'
  BY <1>1, <1>2, <1>3 DEF PointsAgree, LockTypeOK
<1>7. BusyRuns'
  BY <1>1, <1>4 DEF BusyRuns, Busy, LockTypeOK
<1>8. MaskedIff'
  <2>1. irqOn' \in [LockCores -> BOOLEAN] /\ (irqOn'[CpuId(x)] <=> x \in Callers /\ ~Busy(x)')
    BY <1>2, <1>3, <1>4 DEF Busy, LockTypeOK, PointsAgree, SavedRight
  <2>2. \A c \in LockCores : c # CpuId(x) => irqOn'[c] = irqOn[c]
    BY DEF LockTypeOK
  <2>3. \A y \in Contexts : y # x => Busy(y)' = Busy(y)
    BY DEF LockTypeOK, Busy
  <2> QED
    BY <1>4, <2>1, <2>2, <2>3, MaskIsHis
<1>9. NestIsDepth'
  BY <1>1, <1>3, <1>4 DEF NestIsDepth, LockTypeOK
<1>10. LockHeld' /\ ConsoleHeld'
  BY DEF LockHeld, ConsoleHeld, LockTypeOK
<1>11. SavedRight'
  BY <1>1, <1>3, <1>4 DEF SavedRight, LockTypeOK
<1>12. Looked'
  BY DEF Looked, LockTypeOK
<1> QED
  BY <1>1, <1>5, <1>6, <1>7, <1>8, <1>9, <1>10, <1>11, <1>12

(***************************************************************************)
(* Interrupts and the switch of tasks.                                     *)
(***************************************************************************)
(* The switch: the tail of a trap, or a yield, of a task that is in no     *)
(* section of either kind, on a core without a handler afterwards.         *)
LEMMA SwitchesKeeps ==
    ASSUME LockAssumption, ~Roams, LockInv, NEW c \in LockCores,
           ~Busy(c),
           running[c] \in Callers => ~Busy(running[c]),
           Switches(c),
           inIsr' = [inIsr EXCEPT ![c] = FALSE], irqOn' = [irqOn EXCEPT ![c] = TRUE]
    PROVE  LockInv'
<1> USE DEF LockInv, Switches, sectionVars, consoleVars
<1>1. /\ coreOf' = coreOf
      /\ running' \in [LockCores -> Callers \cup {NoCaller}]
      /\ \A d \in LockCores : d # c => running'[d] = running[d]
      /\ running'[c] \in Callers => HomeOf[running'[c]] = c
  <2>1. PICK next \in Callers \cup {NoCaller} :
           /\ next \in Callers => Roams \/ coreOf[next] = c
           /\ running' = [running EXCEPT ![c] = next]
           /\ coreOf' = IF next \in Callers THEN [coreOf EXCEPT ![next] = c] ELSE coreOf
    OBVIOUS
  <2> QED
    BY <2>1 DEF LockTypeOK, AtHome, LockAssumption
<1>2. AtHome'
  BY <1>1 DEF AtHome
<1>3. \A x \in Contexts : CpuId(x)' = CpuId(x) /\ Busy(x)' = Busy(x) /\ CpuId(x) \in LockCores
  BY <1>1, CpuIdType DEF CpuId, Busy
<1>4. \A x \in Contexts : Busy(x) => CpuId(x) # c
  BY DEF BusyRuns, Executes, CpuId, Contexts, LockAssumption, AtHome
<1>5. LockTypeOK'
  BY <1>1 DEF LockTypeOK
<1>6. PointsAgree'
  BY <1>3 DEF PointsAgree
<1>7. BusyRuns'
  BY <1>1, <1>3, <1>4 DEF BusyRuns, Executes, CpuId, LockTypeOK
<1>8. MaskedIff'
  <2>1. running'[c] \in Callers => ~Busy(running'[c])
    BY <1>1, <1>4 DEF CpuId, LockAssumption, AtHome, Contexts
  <2> QED
    BY <1>1, <2>1 DEF MaskedIff, LockTypeOK, Busy
<1>9. NestIsDepth' /\ SavedRight'
  BY <1>3 DEF NestIsDepth, SavedRight
<1>10. LockHeld' /\ ConsoleHeld'
  BY DEF LockHeld, ConsoleHeld
<1>11. Looked'
  BY DEF Looked, LockTypeOK
<1> QED
  BY <1>2, <1>5, <1>6, <1>7, <1>8, <1>9, <1>10, <1>11

(* cgrtos_isr_enter.                                                       *)
LEMMA IsrEnterKeeps ==
    ASSUME LockAssumption, LockInv, NEW c \in LockCores, IsrEnter(c)
    PROVE  LockInv'
<1> USE DEF LockInv, IsrEnter, IpiClear, sectionVars, consoleVars
<1>1. AtHome'
  BY DEF AtHome
<1>2. \A x \in Contexts : CpuId(x)' = CpuId(x) /\ CpuId(x) \in LockCores
  BY CpuIdType DEF CpuId
<1>3. \A x \in Contexts : Busy(x) => CpuId(x) # c
  BY DEF BusyRuns, MaskedIff, Executes, CpuId, Contexts, LockAssumption, AtHome
<1>4. LockTypeOK'
  BY DEF LockTypeOK
<1>5. PointsAgree'
  BY <1>2 DEF PointsAgree
<1>6. BusyRuns'
  BY <1>3 DEF BusyRuns, Executes, CpuId, Busy, LockTypeOK
<1>7. MaskedIff'
  BY DEF MaskedIff, LockTypeOK, Busy
<1>8. NestIsDepth' /\ SavedRight'
  BY <1>2 DEF NestIsDepth, SavedRight
<1>9. LockHeld' /\ ConsoleHeld'
  BY DEF LockHeld, ConsoleHeld
<1>10. Looked'
  BY DEF Looked, LockTypeOK
<1> QED
  BY <1>1, <1>4, <1>5, <1>6, <1>7, <1>8, <1>9, <1>10

(* The tail of a trap.                                                     *)
LEMMA IsrExitKeeps ==
    ASSUME LockAssumption, ~Roams, LockInv, NEW c \in LockCores, IsrExit(c)
    PROVE  LockInv'
<1> USE DEF LockInv, IsrExit
<1>1. running[c] \in Callers => ~Busy(running[c])
  BY DEF BusyRuns, Executes, LockAssumption, AtHome, Contexts
<1>2. CASE yieldPending[c]
  <2>1. ~Busy(c)
    BY DEF Busy, PointsAgree, Contexts
  <2> QED
    BY <1>1, <1>2, <2>1, SwitchesKeeps
<1>3. CASE ~yieldPending[c]
  <2> USE <1>3 DEF sectionVars, consoleVars, kickVars
  <2>1. AtHome'
    BY DEF AtHome
  <2>2. \A x \in Contexts : CpuId(x)' = CpuId(x) /\ CpuId(x) \in LockCores
    BY CpuIdType DEF CpuId
  <2>3. ~Busy(c)
    BY DEF Busy, PointsAgree, Contexts
  <2>4. LockTypeOK'
    BY DEF LockTypeOK
  <2>5. PointsAgree'
    BY <2>2 DEF PointsAgree
  <2>6. BusyRuns'
    BY <2>3 DEF BusyRuns, Executes, CpuId, Busy, LockTypeOK
  <2>7. MaskedIff'
    BY <1>1 DEF MaskedIff, LockTypeOK, Busy
  <2>8. NestIsDepth' /\ SavedRight'
    BY <2>2 DEF NestIsDepth, SavedRight
  <2>9. LockHeld' /\ ConsoleHeld'
    BY DEF LockHeld, ConsoleHeld
  <2>10. Looked'
    BY DEF Looked, LockTypeOK
  <2> QED
    BY <2>1, <2>4, <2>5, <2>6, <2>7, <2>8, <2>9, <2>10
<1> QED
  BY <1>2, <1>3

(* A yield, and the idle task that sees the mark.                          *)
LEMMA YieldKeeps ==
    ASSUME LockAssumption, ~Roams, LockInv, NEW c \in LockCores, Yield(c)
    PROVE  LockInv'
<1> USE DEF LockInv, Yield
<1>1. running[c] \in Callers => ~Busy(running[c])
  BY DEF MaskedIff
<1>2. inIsr' = [inIsr EXCEPT ![c] = FALSE] /\ irqOn' = [irqOn EXCEPT ![c] = TRUE]
  BY DEF LockTypeOK
<1>3. ~Busy(c)
  BY DEF BusyRuns, Executes, Contexts
<1> QED
  BY <1>1, <1>2, <1>3, SwitchesKeeps

(***************************************************************************)
(* The invariant, and what it says.                                        *)
(***************************************************************************)
LEMMA LockInvInit ==
    ASSUME LockAssumption, LockInit
    PROVE  LockInv
<1> USE DEF LockInit
<1>1. AtHome
  BY DEF AtHome
<1>2. \A x \in Contexts : ~Busy(x) /\ depth[x] = 0 /\ at[x] = "out"
  BY DEF Busy
<1>3. LockTypeOK
  <2>1. PICK first \in Callers :
           running = [c \in LockCores |-> IF c = HomeOf[first] THEN first ELSE NoCaller]
    BY DEF LockAssumption
  <2>2. running \in [LockCores -> Callers \cup {NoCaller}]
    BY <2>1
  <2>3. /\ at \in [Contexts -> Points] /\ depth \in [Contexts -> Nat] /\ reg \in [Contexts -> Int]
        /\ critNest \in [LockCores -> Nat]
    BY DEF Points
  <2>4. /\ inIsr \in [LockCores -> BOOLEAN] /\ irqOn \in [LockCores -> BOOLEAN]
        /\ critSaved \in [LockCores -> BOOLEAN] /\ conSaved \in [LockCores -> BOOLEAN]
        /\ yieldPending \in [LockCores -> BOOLEAN]
    OBVIOUS
  <2>5. klock \in BOOLEAN /\ conLock \in BOOLEAN /\ kickPending \in BOOLEAN /\ look \in SUBSET LockCores
    OBVIOUS
  <2> QED
    BY <2>2, <2>3, <2>4, <2>5 DEF LockTypeOK
<1>4. MaskedIff
  BY <1>2, <1>3 DEF MaskedIff, LockTypeOK, Contexts
<1>5. PointsAgree /\ BusyRuns /\ NestIsDepth /\ LockHeld /\ ConsoleHeld /\ SavedRight
  <2>1. \A c \in LockCores : critNest[c] = 0
    OBVIOUS
  <2> QED
    BY <1>2, <2>1 DEF PointsAgree, BusyRuns, NestIsDepth, LockHeld, ConsoleHeld, SavedRight
<1>6. Looked
  BY DEF Looked
<1> QED
  BY <1>1, <1>3, <1>4, <1>5, <1>6 DEF LockInv

LEMMA LockInvStep ==
    ASSUME LockAssumption, ~Roams, LockInv, [KernelLockStep]_kernelLockVars
    PROVE  LockInv'
<1>1. CASE UNCHANGED kernelLockVars
  BY <1>1 DEF kernelLockVars, LockInv, LockTypeOK, AtHome, PointsAgree, BusyRuns, Busy, MaskedIff,
       NestIsDepth, LockHeld, ConsoleHeld, SavedRight, Looked, CpuId, Executes
<1>2. ASSUME NEW x \in Contexts,
             \/ EnterRead(x) \/ EnterTest(x) \/ EnterMask(x) \/ EnterLock(x) \/ ExitCritical(x)
             \/ KickRequest(x) \/ Flush(x) \/ KickAll(x)
             \/ ConsoleRead(x) \/ ConsoleMask(x) \/ ConsoleLock(x) \/ ConsoleUnlock(x)
      PROVE  LockInv'
  BY <1>2, EnterReadKeeps, EnterTestKeeps, EnterMaskKeeps, EnterLockKeeps, ExitCriticalKeeps,
     KickRequestKeeps, FlushKeeps, KickAllKeeps, ConsoleReadKeeps, ConsoleMaskKeeps,
     ConsoleLockKeeps, ConsoleUnlockKeeps
<1>3. ASSUME NEW c \in LockCores, IsrEnter(c) \/ IsrExit(c) \/ Yield(c)
      PROVE  LockInv'
  BY <1>3, IsrEnterKeeps, IsrExitKeeps, YieldKeeps
<1> QED
  BY <1>1, <1>2, <1>3 DEF KernelLockStep

(* Every reachable state satisfies it.                                     *)
THEOREM LockInvariant ==
    ASSUME ~Roams
    PROVE  LockSpec => []LockInv
<1>1. LockInit => LockInv
  BY LockInvInit, LockAssumption
<1>2. LockInv /\ [KernelLockStep]_kernelLockVars => LockInv'
  BY LockInvStep, LockAssumption
<1> QED
  BY <1>1, <1>2, PTL DEF LockSpec

(* A set of which any two members are equal has one at most.               *)
LEMMA AtMostOne ==
    ASSUME NEW S, \A x, y \in S : x = y
    PROVE  Cardinality(S) <= 1
<1>1. CASE S = {}
  BY <1>1, FS_EmptySet
<1>2. CASE S # {}
  <2>1. PICK x \in S : TRUE
    BY <1>2
  <2>2. S = {x}
    BY <2>1
  <2> QED
    BY <2>2, FS_Singleton
<1> QED
  BY <1>1, <1>2

(* Of any number of tasks that stay on their core, and of the handlers of  *)
(* any number of cores, one at most is in the critical section and one     *)
(* prints; the core of either is masked, and unmasked when it is through;  *)
(* no request to look at the EDF order is lost (cgrtos_enter_critical,     *)
(* hal_console_lock, sched_edf_kick_request).                              *)
THEOREM SectionExcludes ==
    ASSUME ~Roams
    PROVE  LockSpec => []SectionsHold
<1>1. ASSUME LockAssumption, LockInv
      PROVE  SectionsHold
  <2> USE <1>1 DEF LockInv
  <2>1. OneInside
    <3>1. \A x, y \in {z \in Contexts : depth[z] > 0} : x = y
      BY DEF LockHeld
    <3> QED
      BY <3>1, AtMostOne DEF OneInside
  <2>2. Cardinality({x \in Contexts : at[x] = "printing"}) <= 1
    <3>1. \A x, y \in {z \in Contexts : at[z] = "printing"} : x = y
      BY DEF ConsoleHeld
    <3> QED
      BY <3>1, AtMostOne
  <2>3. ASSUME NEW x \in Contexts, depth[x] > 0 \/ at[x] = "printing"
        PROVE  ~irqOn[CpuId(x)]
    <3>1. Busy(x)
      BY <2>3 DEF Busy
    <3> QED
      BY <3>1, CoreIsHis DEF BusyRuns
  <2>4. ASSUME NEW t \in Callers, Executes(t), at[t] = "out"
        PROVE  irqOn[coreOf[t]]
    <3>1. t \in Contexts /\ CpuId(t) = coreOf[t]
      BY DEF Contexts, CpuId, LockAssumption
    <3>2. ~Busy(t)
      BY <2>4, <3>1 DEF Busy, PointsAgree
    <3> QED
      BY <2>4, <3>1, <3>2, CoreIsHis
  <2> QED
    BY <2>1, <2>2, <2>3, <2>4 DEF SectionsHold, Looked
<1> QED
  BY <1>1, LockInvariant, LockAssumption, PTL

-----------------------------------------------------------------------------
(* Sequences: an item put in or taken out, the first that is looked for,   *)
(* and what is computed item by item.                                      *)

PlacedAt(S, s, p, i, r) ==
    /\ r \in Seq(S) /\ Len(r) = Len(s) + 1
    /\ \A k \in 1..(Len(s) + 1) : r[k] = IF k < p THEN s[k] ELSE IF k = p THEN i ELSE s[k - 1]

LEMMA InsertAtIs ==
    ASSUME NEW S, NEW s \in Seq(S), NEW p \in 1..(Len(s) + 1), NEW i \in S
    PROVE  PlacedAt(S, s, p, i, InsertAt(s, p, i))
<1> DEFINE r == InsertAt(s, p, i)
<1>1. /\ r \in Seq(S) /\ Len(r) = Len(s) + 1
      /\ \A k \in 1..Len(r) : r[k] = IF k < p THEN s[k] ELSE IF k = p THEN i ELSE s[k - 1]
  <2> DEFINE a == SubSeq(s, 1, p - 1)
             b == SubSeq(s, p, Len(s))
             upto == a \o <<i>>
  <2>0. \A k \in 1..Len(s) : s[k] \in S
    BY ElementOfSeq
  <2>1. /\ a \in Seq(S) /\ Len(a) = p - 1
        /\ \A k \in 1..(p - 1) : a[k] = s[k]
    <3>1. \A k \in 1..(p - 1) : s[k] \in S
      BY <2>0
    <3>2. /\ SubSeq(s, 1, p - 1) \in Seq(S)
          /\ Len(SubSeq(s, 1, p - 1)) = IF 1 <= p - 1 THEN p - 1 - 1 + 1 ELSE 0
          /\ \A k \in 1..(p - 1 - 1 + 1) : SubSeq(s, 1, p - 1)[k] = s[1 + k - 1]
      BY <3>1, SubSeqProperties
    <3> QED
      BY <3>2
  <2>2. /\ b \in Seq(S) /\ Len(b) = Len(s) - p + 1
        /\ \A k \in 1..(Len(s) - p + 1) : b[k] = s[p + k - 1]
    <3>1. \A k \in p..Len(s) : s[k] \in S
      BY <2>0
    <3>2. /\ SubSeq(s, p, Len(s)) \in Seq(S)
          /\ Len(SubSeq(s, p, Len(s))) = IF p <= Len(s) THEN Len(s) - p + 1 ELSE 0
          /\ \A k \in 1..(Len(s) - p + 1) : SubSeq(s, p, Len(s))[k] = s[p + k - 1]
      BY <3>1, SubSeqProperties
    <3> QED
      BY <3>2
  <2>3. r = upto \o b /\ <<i>> \in Seq(S) /\ Len(<<i>>) = 1 /\ <<i>>[1] = i
    BY DEF InsertAt
  <2> HIDE DEF a, b, r
  <2>4. /\ upto \in Seq(S) /\ Len(upto) = p
        /\ \A k \in 1..p : upto[k] = IF k < p THEN s[k] ELSE i
    <3>1. /\ upto \in Seq(S) /\ Len(upto) = Len(a) + Len(<<i>>)
          /\ \A k \in 1..Len(a) + Len(<<i>>) :
                upto[k] = IF k <= Len(a) THEN a[k] ELSE <<i>>[k - Len(a)]
      BY <2>1, <2>3, ConcatProperties
    <3> QED
      BY <2>1, <2>3, <3>1
  <2> HIDE DEF upto
  <2>5. /\ r \in Seq(S) /\ Len(r) = Len(upto) + Len(b)
        /\ \A k \in 1..Len(upto) + Len(b) :
              r[k] = IF k <= Len(upto) THEN upto[k] ELSE b[k - Len(upto)]
    BY <2>2, <2>3, <2>4, ConcatProperties
  <2>6. /\ r \in Seq(S) /\ Len(r) = Len(s) + 1
        /\ \A k \in 1..Len(r) : r[k] = IF k <= p THEN upto[k] ELSE b[k - p]
    BY <2>2, <2>4, <2>5
  <2>7. ASSUME NEW k \in 1..Len(r)
        PROVE  r[k] = IF k < p THEN s[k] ELSE IF k = p THEN i ELSE s[k - 1]
    <3>1. CASE k <= p
      BY <2>4, <2>6, <3>1
    <3>2. CASE k > p
      <4>0. PICK n \in Nat : n = Len(s)
        OBVIOUS
      <4>3. k \in 1..(n + 1) /\ k > p
        BY <2>6, <3>2, <4>0
      <4>4. k - p \in 1..(n - p + 1) /\ p + (k - p) - 1 = k - 1
        BY <4>3
      <4>1. k - p \in 1..(Len(s) - p + 1) /\ p + (k - p) - 1 = k - 1
        BY <4>0, <4>4
      <4>2. b[k - p] = s[k - 1]
        BY <2>2, <4>1
      <4> QED
        BY <2>6, <3>2, <4>2
    <3> QED
      BY <2>6, <3>1, <3>2
  <2> QED
    BY <2>6, <2>7
<1> QED
  BY <1>1 DEF PlacedAt

TakenOut(S, s, p, r) ==
    /\ r \in Seq(S) /\ Len(r) = Len(s) - 1
    /\ \A k \in 1..(Len(s) - 1) : r[k] = IF k < p THEN s[k] ELSE s[k + 1]

LEMMA RemoveAtIs ==
    ASSUME NEW S, NEW s \in Seq(S), NEW p \in 1..Len(s)
    PROVE  TakenOut(S, s, p, RemoveAt(s, p))
<1> DEFINE r == RemoveAt(s, p)
<1>1. /\ r \in Seq(S) /\ Len(r) = Len(s) - 1
      /\ \A k \in 1..Len(r) : r[k] = IF k < p THEN s[k] ELSE s[k + 1]
  <2> DEFINE a == SubSeq(s, 1, p - 1)
             b == SubSeq(s, p + 1, Len(s))
  <2>0. \A k \in 1..Len(s) : s[k] \in S
    BY ElementOfSeq
  <2>1. /\ a \in Seq(S) /\ Len(a) = p - 1
        /\ \A k \in 1..(p - 1) : a[k] = s[k]
    <3>1. \A k \in 1..(p - 1) : s[k] \in S
      BY <2>0
    <3>2. /\ SubSeq(s, 1, p - 1) \in Seq(S)
          /\ Len(SubSeq(s, 1, p - 1)) = IF 1 <= p - 1 THEN p - 1 - 1 + 1 ELSE 0
          /\ \A k \in 1..(p - 1 - 1 + 1) : SubSeq(s, 1, p - 1)[k] = s[1 + k - 1]
      BY <3>1, SubSeqProperties
    <3> QED
      BY <3>2
  <2>2. /\ b \in Seq(S) /\ Len(b) = Len(s) - p
        /\ \A k \in 1..(Len(s) - p) : b[k] = s[p + k]
    <3>1. \A k \in (p + 1)..Len(s) : s[k] \in S
      BY <2>0
    <3>2. /\ SubSeq(s, p + 1, Len(s)) \in Seq(S)
          /\ Len(SubSeq(s, p + 1, Len(s))) =
                 IF p + 1 <= Len(s) THEN Len(s) - (p + 1) + 1 ELSE 0
          /\ \A k \in 1..(Len(s) - (p + 1) + 1) :
                 SubSeq(s, p + 1, Len(s))[k] = s[p + 1 + k - 1]
      BY <3>1, SubSeqProperties
    <3> QED
      BY <3>2
  <2>3. r = a \o b
    BY DEF RemoveAt
  <2> HIDE DEF a, b, r
  <2>4. /\ r \in Seq(S) /\ Len(r) = Len(a) + Len(b)
        /\ \A k \in 1..Len(a) + Len(b) :
              r[k] = IF k <= Len(a) THEN a[k] ELSE b[k - Len(a)]
    BY <2>1, <2>2, <2>3, ConcatProperties
  <2>5. /\ r \in Seq(S) /\ Len(r) = Len(s) - 1
        /\ \A k \in 1..Len(r) : r[k] = IF k < p THEN a[k] ELSE b[k - p + 1]
    BY <2>1, <2>2, <2>4
  <2>6. ASSUME NEW k \in 1..Len(r)
        PROVE  r[k] = IF k < p THEN s[k] ELSE s[k + 1]
    <3>1. CASE k < p
      <4>1. k \in 1..(p - 1)
        BY <2>5, <3>1
      <4> QED
        BY <2>1, <2>5, <3>1, <4>1
    <3>2. CASE k >= p
      <4>1. k - p + 1 \in 1..(Len(s) - p) /\ p + (k - p + 1) = k + 1
        BY <2>5, <3>2
      <4>2. b[k - p + 1] = s[k + 1]
        BY <2>2, <4>1
      <4> QED
        BY <2>5, <3>2, <4>2
    <3> QED
      BY <2>5, <3>1, <3>2
  <2> QED
    BY <2>5, <2>6
<1> QED
  BY <1>1 DEF TakenOut

LEMMA FoundFirst ==
    ASSUME NEW I \in SUBSET (Nat \ {0}), NEW n, n = IF I # {} THEN Min(I) ELSE 0
    PROVE  (n = 0 <=> I = {}) /\ (n # 0 => n \in I /\ \A i \in I : n <= i)
<1>1. CASE I # {}
  <2>1. PICK m \in I : \A i \in I : m <= i
    BY <1>1, LeastNat
  <2>2. Min(I) \in I /\ \A i \in I : Min(I) <= i
    BY <2>1 DEF Min
  <2> QED
    BY <1>1, <2>2
<1> QED
  BY <1>1

(* Induction up to n, for the numbers in P.                                *)
LEMMA UpTo ==
    ASSUME NEW n \in Nat, NEW P, 0 \in P, \A i \in 0..n : i # n /\ i \in P => i + 1 \in P
    PROVE  \A i \in 0..n : i \in P
<1> DEFINE Failed == {m \in 0..n : m \notin P}
<1>1. SUFFICES Failed = {}
  OBVIOUS
<1>2. SUFFICES ASSUME Failed # {} PROVE FALSE
  OBVIOUS
<1>3. Failed \in SUBSET Nat
  OBVIOUS
<1>4. PICK m \in Failed : \A k \in Failed : m <= k
  BY <1>2, <1>3, LeastNat
<1>5. m # 0 /\ m \in 0..n /\ m \notin P
  OBVIOUS
<1>6. m - 1 \in 0..n /\ m - 1 # n /\ (m - 1) + 1 = m /\ ~(m <= m - 1)
  BY <1>5
<1>7. m - 1 \in P
  BY <1>4, <1>6
<1> QED
  BY <1>5, <1>6, <1>7

(* What is computed in n steps, each from the last one's result.           *)
StepsOf(f, n, start, step) == f[0] = start /\ \A i \in 1..n : f[i] = step[<<i, f[i - 1]>>]

LEMMA StepsExist ==
    ASSUME NEW n \in Nat, NEW S, NEW start \in S, NEW step \in [(1..n) \X S -> S]
    PROVE  \E f \in [0..n -> S] : StepsOf(f, n, start, step)
<1> DEFINE Given(m) == \E f \in [0..m -> S] : StepsOf(f, m, start, step)
           P == {m \in 0..n : Given(m)}
<1>1. Given(0)
  <2>1. PICK f : f = [i \in 0..0 |-> start]
    OBVIOUS
  <2>2. f \in [0..0 -> S] /\ f[0] = start /\ 1..0 = {}
    BY <2>1
  <2>3. StepsOf(f, 0, start, step)
    BY <2>2 DEF StepsOf
  <2> QED
    BY <2>2, <2>3
<1>2. ASSUME NEW m \in 0..n, m # n, Given(m) PROVE Given(m + 1)
  <2>1. PICK f \in [0..m -> S] : StepsOf(f, m, start, step)
    BY <1>2
  <2>2. m + 1 \in 1..n /\ m \in 0..m
    BY <1>2
  <2>3. PICK x : x = step[<<m + 1, f[m]>>]
    OBVIOUS
  <2>4. x \in S
    BY <2>2, <2>3
  <2>5. PICK g : g = [i \in 0..(m + 1) |-> IF i = m + 1 THEN x ELSE f[i]]
    OBVIOUS
  <2>6. g \in [0..(m + 1) -> S]
    <3>1. \A i \in 0..(m + 1) : i = m + 1 \/ i \in 0..m
      OBVIOUS
    <3> QED
      BY <2>4, <2>5, <3>1
  <2>7. \A i \in 0..m : g[i] = f[i]
    BY <2>5
  <2>8. g[m + 1] = step[<<m + 1, g[m]>>]
    <3>1. g[m + 1] = x
      BY <2>5
    <3> QED
      BY <2>2, <2>3, <2>7, <3>1
  <2>9. StepsOf(g, m + 1, start, step)
    <3>1. g[0] = start
      BY <2>1, <2>7 DEF StepsOf
    <3>2. ASSUME NEW i \in 1..(m + 1) PROVE g[i] = step[<<i, g[i - 1]>>]
      <4>1. CASE i = m + 1
        BY <2>8, <4>1
      <4>2. CASE i # m + 1
        <5>1. i \in 1..m /\ i \in 0..m /\ i - 1 \in 0..m
          BY <4>2
        <5>2. f[i] = step[<<i, f[i - 1]>>]
          BY <2>1, <5>1 DEF StepsOf
        <5> QED
          BY <2>7, <5>1, <5>2
      <4> QED
        BY <4>1, <4>2
    <3> QED
      BY <3>1, <3>2 DEF StepsOf
  <2> QED
    BY <2>6, <2>9
<1> HIDE DEF Given
<1>3. 0 \in P /\ \A i \in 0..n : i # n /\ i \in P => i + 1 \in P
  BY <1>1, <1>2
<1> HIDE DEF P
<1>4. \A i \in 0..n : i \in P
  BY <1>3, UpTo
<1>5. n \in P
  BY <1>4
<1> QED
  BY <1>5 DEF P, Given

LEMMA Concatenated ==
    ASSUME NEW S, NEW s \in Seq(S), NEW t \in Seq(S)
    PROVE  s \o t \in Seq(S) /\ Len(s \o t) = Len(s) + Len(t)
OBVIOUS

-----------------------------------------------------------------------------
(* The lists of jobs by key: the delayed list and the EDF list.            *)
KeyedJobs == [job : Jobs, key : Nat]
OneEach(list) == \A i, k \in 1..Len(list) : list[i].job = list[k].job => i = k
ListKept(list) == list \in Seq(KeyedJobs) /\ OneEach(list) /\ Sorted(list)

LEMMA InSet ==
    ASSUME NEW S, NEW list \in Seq(S)
    PROVE  ToSet(list) = {list[i] : i \in 1..Len(list)}
BY DEF ToSet

(* What is left without job j.                                             *)
LEMMA WithoutIs ==
    ASSUME NEW S, NEW list \in Seq(S), OneEach(list), NEW j, NEW r, r = Without(list, j)
    PROVE  /\ r \in Seq(S) /\ OneEach(r) /\ (Sorted(list) => Sorted(r))
           /\ ToSet(r) = {e \in ToSet(list) : e.job # j}
<1> DEFINE I == {i \in 1..Len(list) : list[i].job = j}
           p == IF I # {} THEN Min(I) ELSE 0
<1>1. r = IF I # {} THEN RemoveAt(list, p) ELSE list
  BY DEF Without, RemoveFirstMatch, SelectInSeq
<1>2. I \in SUBSET (Nat \ {0})
  OBVIOUS
<1>3. (p = 0 <=> I = {}) /\ (p # 0 => p \in I)
  <2> HIDE DEF I
  <2> QED
    BY <1>2, FoundFirst
<1>4. CASE I = {}
  <2>1. r = list
    BY <1>1, <1>4
  <2>2. \A i \in 1..Len(list) : list[i].job # j
    BY <1>4
  <2>3. \A e \in ToSet(list) : e.job # j
    BY <2>2, InSet
  <2> QED
    BY <2>1, <2>3
<1>5. CASE I # {}
  <2>1. p \in 1..Len(list) /\ list[p].job = j /\ r = RemoveAt(list, p)
    BY <1>1, <1>3, <1>5
  <2> HIDE DEF p, I
  <2>2. PICK n \in Nat : n = Len(list)
    OBVIOUS
  <2>3. /\ r \in Seq(S) /\ Len(r) = n - 1
        /\ \A k \in 1..(n - 1) : r[k] = IF k < p THEN list[k] ELSE list[k + 1]
    <3>1. TakenOut(S, list, p, RemoveAt(list, p))
      BY <2>1, RemoveAtIs
    <3> QED
      BY <2>1, <2>2, <3>1 DEF TakenOut
  <2>4. \A k \in 1..(n - 1) : k \in 1..n /\ k + 1 \in 1..n
    BY <2>2
  <2>5. OneEach(r)
    <3> SUFFICES ASSUME NEW i \in 1..(n - 1), NEW k \in 1..(n - 1), r[i].job = r[k].job PROVE i = k
      BY <2>3 DEF OneEach
    <3>1. PICK a \in 1..n : a = (IF i < p THEN i ELSE i + 1) /\ r[i] = list[a]
      BY <2>3, <2>4
    <3>2. PICK b \in 1..n : b = (IF k < p THEN k ELSE k + 1) /\ r[k] = list[b]
      BY <2>3, <2>4
    <3>3. a = b
      BY <2>2, <3>1, <3>2 DEF OneEach
    <3> QED
      BY <2>1, <2>2, <3>1, <3>2, <3>3
  <2>6. ASSUME Sorted(list) PROVE Sorted(r)
    <3> SUFFICES ASSUME NEW i \in 1..(n - 1), NEW k \in 1..(n - 1), i <= k PROVE r[i].key <= r[k].key
      BY <2>3 DEF Sorted
    <3>1. PICK a \in 1..n : a = (IF i < p THEN i ELSE i + 1) /\ r[i] = list[a]
      BY <2>3, <2>4
    <3>2. PICK b \in 1..n : b = (IF k < p THEN k ELSE k + 1) /\ r[k] = list[b]
      BY <2>3, <2>4
    <3>3. a <= b
      BY <2>1, <2>2, <3>1, <3>2
    <3> QED
      BY <2>2, <2>6, <3>1, <3>2, <3>3 DEF Sorted
  <2>7. ASSUME NEW i \in 1..(n - 1) PROVE r[i] \in ToSet(list) /\ r[i].job # j
    <3>1. PICK a \in 1..n : a = (IF i < p THEN i ELSE i + 1) /\ r[i] = list[a]
      BY <2>3, <2>4
    <3>2. a # p
      BY <2>1, <3>1
    <3>3. list[a].job # j
      BY <2>1, <2>2, <3>2 DEF OneEach
    <3> QED
      BY <2>2, <3>1, <3>3, InSet
  <2>8. ASSUME NEW a \in 1..n, list[a].job # j PROVE \E i \in 1..(n - 1) : r[i] = list[a]
    <3>1. a # p
      BY <2>1, <2>8
    <3>2. CASE a < p
      <4>1. a \in 1..(n - 1) /\ r[a] = list[a]
        BY <2>1, <2>2, <2>3, <3>2
      <4> QED
        BY <4>1
    <3>3. CASE a > p
      <4>1. a - 1 \in 1..(n - 1) /\ ~(a - 1 < p) /\ (a - 1) + 1 = a
        BY <2>1, <2>2, <3>3
      <4>2. r[a - 1] = list[a]
        BY <2>3, <4>1
      <4> QED
        BY <4>1, <4>2
    <3> QED
      BY <2>1, <3>1, <3>2, <3>3
  <2>9. ToSet(r) = {r[i] : i \in 1..(n - 1)} /\ ToSet(list) = {list[i] : i \in 1..n}
    BY <2>2, <2>3, InSet
  <2>10. ToSet(r) = {e \in ToSet(list) : e.job # j}
    <3>1. \A e \in ToSet(r) : e \in ToSet(list) /\ e.job # j
      BY <2>7, <2>9
    <3>2. \A e \in ToSet(list) : e.job # j => e \in ToSet(r)
      BY <2>8, <2>9
    <3> QED
      BY <3>1, <3>2
  <2> QED
    BY <2>3, <2>5, <2>6, <2>10
<1> QED
  BY <1>4, <1>5

(* e stands at p in the order of the keys, and has no other place.         *)
PutIn(list, e, p, r) ==
    /\ p \in 1..(Len(list) + 1)
    /\ \A x \in ToSet(list) : x.job # e.job
    /\ \A i \in 1..Len(list) : i < p => list[i].key <= e.key
    /\ \A i \in 1..Len(list) : p <= i => e.key <= list[i].key
    /\ r \in Seq(KeyedJobs) /\ Len(r) = Len(list) + 1
    /\ \A k \in 1..(Len(list) + 1) : r[k] = IF k < p THEN list[k] ELSE IF k = p THEN e ELSE list[k - 1]

LEMMA PutInIs ==
    ASSUME NEW list, ListKept(list), NEW e \in KeyedJobs, NEW p, NEW r, PutIn(list, e, p, r)
    PROVE  ListKept(r) /\ ToSet(r) = ToSet(list) \cup {e}
<1> USE DEF PutIn
<1>1. list \in Seq(KeyedJobs) /\ OneEach(list) /\ Sorted(list)
  BY DEF ListKept
<1>2. PICK n \in Nat : n = Len(list)
  BY <1>1
<1>3. ToSet(list) = {list[i] : i \in 1..n} /\ ToSet(r) = {r[k] : k \in 1..(n + 1)}
  BY <1>1, <1>2, InSet
<1>4. \A i \in 1..n : list[i].key \in Nat /\ list[i].job # e.job
  <2>1. \A i \in 1..n : list[i] \in KeyedJobs
    BY <1>1, <1>2
  <2>2. \A x \in KeyedJobs : x.key \in Nat
    BY DEF KeyedJobs
  <2> QED
    BY <1>3, <2>1, <2>2
<1>5. ASSUME NEW k \in 1..(n + 1)
      PROVE  \/ k < p /\ k \in 1..n /\ r[k] = list[k]
             \/ k = p /\ r[k] = e
             \/ k > p /\ k - 1 \in 1..n /\ p <= k - 1 /\ r[k] = list[k - 1]
  <2>1. r[k] = IF k < p THEN list[k] ELSE IF k = p THEN e ELSE list[k - 1]
    BY <1>2
  <2> QED
    BY <1>2, <2>1
<1>6. OneEach(r)
  <2> SUFFICES ASSUME NEW i \in 1..(n + 1), NEW k \in 1..(n + 1), r[i].job = r[k].job PROVE i = k
    BY <1>2 DEF OneEach
  <2>1. \A a, b \in 1..n : list[a].job = list[b].job => a = b
    BY <1>1, <1>2 DEF OneEach
  <2>2. \/ i < p /\ i \in 1..n /\ r[i] = list[i]
        \/ i = p /\ r[i] = e
        \/ i > p /\ i - 1 \in 1..n /\ r[i] = list[i - 1]
    BY <1>5
  <2>3. \/ k < p /\ k \in 1..n /\ r[k] = list[k]
        \/ k = p /\ r[k] = e
        \/ k > p /\ k - 1 \in 1..n /\ r[k] = list[k - 1]
    BY <1>5
  <2> QED
    BY <1>4, <2>1, <2>2, <2>3
<1>7. Sorted(r)
  <2> SUFFICES ASSUME NEW i \in 1..(n + 1), NEW k \in 1..(n + 1), i <= k PROVE r[i].key <= r[k].key
    BY <1>2 DEF Sorted
  <2>0. e.key \in Nat
    BY DEF KeyedJobs
  <2>1. \A a, b \in 1..n : a <= b => list[a].key <= list[b].key
    BY <1>1, <1>2 DEF Sorted
  <2>2. \/ i < p /\ i \in 1..n /\ r[i] = list[i] /\ list[i].key <= e.key
        \/ i = p /\ r[i] = e
        \/ i > p /\ i - 1 \in 1..n /\ p <= i - 1 /\ r[i] = list[i - 1]
    BY <1>2, <1>5
  <2>3. \/ k < p /\ k \in 1..n /\ r[k] = list[k]
        \/ k = p /\ r[k] = e
        \/ k > p /\ k - 1 \in 1..n /\ p <= k - 1 /\ r[k] = list[k - 1] /\ e.key <= list[k - 1].key
    BY <1>2, <1>5
  <2>4. CASE i < p /\ i \in 1..n /\ r[i] = list[i] /\ list[i].key <= e.key
    <3>1. k < p => r[i].key <= r[k].key
      BY <2>1, <2>3, <2>4
    <3>2. k = p => r[i].key <= r[k].key
      BY <2>3, <2>4
    <3>3. k > p => r[i].key <= r[k].key
      BY <2>1, <2>3, <2>4
    <3> QED
      BY <3>1, <3>2, <3>3
  <2>5. CASE i = p /\ r[i] = e
    <3>1. CASE k = p
      BY <2>0, <2>3, <2>5, <3>1
    <3>2. CASE k > p
      BY <2>3, <2>5, <3>2
    <3> QED
      BY <2>5, <3>1, <3>2
  <2>6. CASE i > p /\ i - 1 \in 1..n /\ p <= i - 1 /\ r[i] = list[i - 1]
    <3>1. k > p /\ i - 1 <= k - 1
      BY <2>6
    <3> QED
      BY <2>1, <2>3, <2>6, <3>1
  <2> QED
    BY <2>2, <2>4, <2>5, <2>6
<1>8. ToSet(r) = ToSet(list) \cup {e}
  <2>1. \A k \in 1..(n + 1) : r[k] \in ToSet(list) \cup {e}
    BY <1>3, <1>5
  <2>2. e \in ToSet(r)
    <3>1. p \in 1..(n + 1) /\ r[p] = e
      BY <1>2
    <3> QED
      BY <1>3, <3>1
  <2>3. ASSUME NEW a \in 1..n PROVE list[a] \in ToSet(r)
    <3>1. CASE a < p
      <4>1. a \in 1..(n + 1) /\ r[a] = list[a]
        BY <1>2, <3>1
      <4> QED
        BY <1>3, <4>1
    <3>2. CASE ~(a < p)
      <4>1. a + 1 \in 1..(n + 1) /\ ~(a + 1 < p) /\ a + 1 # p /\ (a + 1) - 1 = a
        BY <1>2, <3>2
      <4>2. r[a + 1] = list[a]
        BY <1>2, <4>1
      <4> QED
        BY <1>3, <4>1, <4>2
    <3> QED
      BY <3>1, <3>2
  <2>4. ToSet(r) \subseteq ToSet(list) \cup {e}
    BY <1>3, <2>1
  <2>5. ToSet(list) \subseteq ToSet(r)
    BY <1>3, <2>3
  <2> QED
    BY <2>2, <2>4, <2>5
<1> QED
  BY <1>6, <1>7, <1>8 DEF ListKept

LEMMA PlacedIs ==
    ASSUME NEW list, ListKept(list), NEW j \in Jobs, NEW k \in Nat, NEW p \in 0..Len(list),
           \A x \in ToSet(list) : x.job # j,
           \A i \in 1..Len(list) : p = 0 \/ i < p => list[i].key <= k,
           p # 0 => \A i \in 1..Len(list) : p <= i => k <= list[i].key
    PROVE  /\ ListKept(Placed(list, j, k, p))
           /\ ToSet(Placed(list, j, k, p)) = ToSet(list) \cup {[job |-> j, key |-> k]}
<1> DEFINE e == [job |-> j, key |-> k]
           r == Placed(list, j, k, p)
           q == IF p = 0 THEN Len(list) + 1 ELSE p
<1>1. list \in Seq(KeyedJobs)
  BY DEF ListKept
<1>2. PICK n \in Nat : n = Len(list)
  BY <1>1
<1>3. e \in KeyedJobs /\ e.job = j /\ e.key = k
  BY DEF KeyedJobs
<1>4. r = IF p = 0 THEN Append(list, e) ELSE InsertAt(list, p, e)
  BY DEF Placed
<1> HIDE DEF e, r
<1>5. /\ r \in Seq(KeyedJobs) /\ Len(r) = n + 1
      /\ \A i \in 1..(n + 1) : r[i] = IF i < q THEN list[i] ELSE IF i = q THEN e ELSE list[i - 1]
  <2>1. CASE p = 0
    BY <1>1, <1>2, <1>3, <1>4, <2>1
  <2>2. CASE p # 0
    <3>1. p \in 1..(Len(list) + 1) /\ r = InsertAt(list, p, e)
      BY <1>2, <1>4, <2>2
    <3>2. /\ InsertAt(list, p, e) \in Seq(KeyedJobs) /\ Len(InsertAt(list, p, e)) = Len(list) + 1
          /\ \A i \in 1..(Len(list) + 1) :
                InsertAt(list, p, e)[i] = IF i < p THEN list[i] ELSE IF i = p THEN e ELSE list[i - 1]
      <4>1. e \in KeyedJobs /\ p \in 1..(Len(list) + 1)
        BY <1>3, <3>1
      <4>2. PlacedAt(KeyedJobs, list, p, e, InsertAt(list, p, e))
        BY <1>1, <4>1, InsertAtIs
      <4> QED
        BY <4>2, Zenon DEF PlacedAt
    <3> QED
      BY <1>2, <2>2, <3>1, <3>2
  <2> QED
    BY <2>1, <2>2
<1>6. q \in 1..(n + 1) /\ \A x \in ToSet(list) : x.job # e.job
  BY <1>2, <1>3
<1>7. /\ \A i \in 1..n : i < q => list[i].key <= e.key
      /\ \A i \in 1..n : q <= i => e.key <= list[i].key
  BY <1>2, <1>3
<1> HIDE DEF q
<1>8. ListKept(r) /\ ToSet(r) = ToSet(list) \cup {e}
  <2>1. /\ q \in 1..(Len(list) + 1) /\ \A x \in ToSet(list) : x.job # e.job
        /\ \A i \in 1..Len(list) : i < q => list[i].key <= e.key
        /\ \A i \in 1..Len(list) : q <= i => e.key <= list[i].key
        /\ r \in Seq(KeyedJobs) /\ Len(r) = Len(list) + 1
        /\ \A i \in 1..(Len(list) + 1) :
              r[i] = IF i < q THEN list[i] ELSE IF i = q THEN e ELSE list[i - 1]
    BY <1>2, <1>5, <1>6, <1>7
  <2>2. PutIn(list, e, q, r)
    BY <2>1, Zenon DEF PutIn
  <2> QED
    BY <1>3, <2>2, PutInIs
<1> QED
  BY <1>8 DEF e, r

(* Where the walk stops, everything before it has been passed.             *)
LEMMA KeptInOrder ==
    ASSUME NEW list, ListKept(list)
    PROVE  /\ list \in Seq(KeyedJobs) /\ \A i \in 1..Len(list) : list[i].key \in Nat
           /\ \A i, k \in 1..Len(list) : i <= k => list[i].key <= list[k].key
<1>1. \A x \in KeyedJobs : x.key \in Nat
  BY DEF KeyedJobs
<1>2. list \in Seq(KeyedJobs) /\ \A i \in 1..Len(list) : list[i] \in KeyedJobs
  BY DEF ListKept
<1> QED
  BY <1>1, <1>2 DEF ListKept, Sorted

(* The two ways to put a job in.                                           *)
Inserted(list, r, j, k) ==
    /\ ListKept(r)
    /\ ToSet(r) = {e \in ToSet(list) : e.job # j} \cup {[job |-> j, key |-> k]}

LEMMA DelayedInsertIs ==
    ASSUME NEW list, ListKept(list), NEW j \in Jobs, NEW k \in Nat
    PROVE  Inserted(list, DelayedInsert(list, j, k), j, k)
<1> DEFINE rest == Without(list, j)
           I == {i \in 1..Len(rest) : rest[i].key > k}
           p == IF I # {} THEN Min(I) ELSE 0
<1>1. /\ ListKept(rest) /\ ToSet(rest) = {e \in ToSet(list) : e.job # j}
  BY WithoutIs DEF ListKept
<1>2. DelayedInsert(list, j, k) = Placed(rest, j, k, p)
  BY DEF DelayedInsert, SelectInSeq
<1> HIDE DEF rest
<1>3. /\ rest \in Seq(KeyedJobs) /\ \A i \in 1..Len(rest) : rest[i].key \in Nat
      /\ \A a, b \in 1..Len(rest) : a <= b => rest[a].key <= rest[b].key
  BY <1>1, KeptInOrder
<1>4. PICK n \in Nat : n = Len(rest)
  BY <1>3
<1>5. I \in SUBSET (Nat \ {0})
  OBVIOUS
<1>6. (p = 0 <=> I = {}) /\ (p # 0 => p \in I /\ \A i \in I : p <= i)
  <2> HIDE DEF I
  <2> QED
    BY <1>5, FoundFirst
<1> HIDE DEF p
<1>7. p \in 0..n /\ (p # 0 => p \in 1..n /\ rest[p].key > k)
  BY <1>4, <1>6
<1>8. \A i \in 1..n : p = 0 \/ i < p => rest[i].key <= k
  <2> SUFFICES ASSUME NEW i \in 1..n, p = 0 \/ i < p PROVE rest[i].key <= k
    OBVIOUS
  <2>1. i \notin I
    BY <1>6, <1>7
  <2> QED
    BY <1>3, <1>4, <2>1
<1>9. p # 0 => \A i \in 1..n : p <= i => k <= rest[i].key
  <2> SUFFICES ASSUME p # 0, NEW i \in 1..n, p <= i PROVE k <= rest[i].key
    OBVIOUS
  <2>1. rest[p].key <= rest[i].key /\ rest[i].key \in Nat /\ rest[p].key \in Nat /\ rest[p].key > k
    BY <1>3, <1>4, <1>7
  <2> QED
    BY <2>1
<1>10. /\ ListKept(Placed(rest, j, k, p))
       /\ ToSet(Placed(rest, j, k, p)) = ToSet(rest) \cup {[job |-> j, key |-> k]}
  BY <1>1, <1>4, <1>7, <1>8, <1>9, PlacedIs
<1> QED
  BY <1>1, <1>2, <1>10 DEF Inserted

LEMMA EdfInsertIs ==
    ASSUME NEW list, ListKept(list), NEW j \in Jobs, NEW k \in Nat
    PROVE  Inserted(list, EdfInsert(list, j, k), j, k)
<1> DEFINE rest == Without(list, j)
           I == {i \in 1..Len(rest) : rest[i].key >= k}
           p == IF I # {} THEN Min(I) ELSE 0
<1>1. /\ ListKept(rest) /\ ToSet(rest) = {e \in ToSet(list) : e.job # j}
  BY WithoutIs DEF ListKept
<1>2. EdfInsert(list, j, k) = Placed(rest, j, k, p)
  BY DEF EdfInsert, SelectInSeq
<1> HIDE DEF rest
<1>3. /\ rest \in Seq(KeyedJobs) /\ \A i \in 1..Len(rest) : rest[i].key \in Nat
      /\ \A a, b \in 1..Len(rest) : a <= b => rest[a].key <= rest[b].key
  BY <1>1, KeptInOrder
<1>4. PICK n \in Nat : n = Len(rest)
  BY <1>3
<1>5. I \in SUBSET (Nat \ {0})
  OBVIOUS
<1>6. (p = 0 <=> I = {}) /\ (p # 0 => p \in I /\ \A i \in I : p <= i)
  <2> HIDE DEF I
  <2> QED
    BY <1>5, FoundFirst
<1> HIDE DEF p
<1>7. p \in 0..n /\ (p # 0 => p \in 1..n /\ rest[p].key >= k)
  BY <1>4, <1>6
<1>8. \A i \in 1..n : p = 0 \/ i < p => rest[i].key <= k
  <2> SUFFICES ASSUME NEW i \in 1..n, p = 0 \/ i < p PROVE rest[i].key <= k
    OBVIOUS
  <2>1. i \notin I
    BY <1>6, <1>7
  <2> QED
    BY <1>3, <1>4, <2>1
<1>9. p # 0 => \A i \in 1..n : p <= i => k <= rest[i].key
  <2> SUFFICES ASSUME p # 0, NEW i \in 1..n, p <= i PROVE k <= rest[i].key
    OBVIOUS
  <2>1. rest[p].key <= rest[i].key /\ rest[i].key \in Nat /\ rest[p].key \in Nat /\ rest[p].key >= k
    BY <1>3, <1>4, <1>7
  <2> QED
    BY <2>1
<1>10. /\ ListKept(Placed(rest, j, k, p))
       /\ ToSet(Placed(rest, j, k, p)) = ToSet(rest) \cup {[job |-> j, key |-> k]}
  BY <1>1, <1>4, <1>7, <1>8, <1>9, PlacedIs
<1> QED
  BY <1>1, <1>2, <1>10 DEF Inserted

-----------------------------------------------------------------------------
(* The invariant, part by part: the jobs that sleep, the READY jobs, the   *)
(* release wheel, the promise to periodic jobs, and the tick's own list.   *)
RelEntries == [job : Jobs, rounds : Nat]

JobTypes ==
    /\ ticks \in 0..MaxTicks /\ relinked \in BOOLEAN
    /\ phase \in {"idle", "counted", "woken", "release", "unblock", "remove", "add", "rearm"}
    /\ due \in Seq(Jobs) /\ mode \in [Jobs -> Modes]
    /\ deadline \in [Jobs -> Nat] /\ jobPeriod \in [Jobs -> JobPeriods \cup {0}]
    /\ relWheel \in [Slot -> Seq(RelEntries)] /\ relCursor \in Slot
    /\ arming \in SUBSET Jobs /\ staleOrder \in SUBSET Jobs /\ when \in [Jobs -> Nat]

SleepersOK ==
    /\ ListKept(delayed)
    /\ \A e \in ToSet(delayed) :
         /\ mode[e.job] \in {"delay", "object"} /\ e.key >= ticks
         /\ phase # "counted" => e.key > ticks
    /\ \A j \in Jobs \ InHand : mode[j] = "delay" => HasEntry(delayed, j)

EdfOK ==
    /\ ListKept(edfq)
    /\ \A e \in ToSet(edfq) :
         /\ e.job \in EdfJobs /\ mode[e.job] = "ready"
         /\ e.job \in staleOrder \/ e.key = deadline[e.job]
    /\ \A j \in EdfJobs \ InHand : mode[j] = "ready" => HasEntry(edfq, j)

WaitersOK ==
    /\ \A j \in Jobs : mode[j] = "object" => j \in ObjectWaiters
    /\ \A j \in ObjectWaiters : jobPeriod[j] = 0

Timely(s, e) == ReleaseTick(s, e.rounds) \in (when[e.job] - 1)..(when[e.job] + ReleaseSlots)
WheelOK ==
    \A s \in Slot : /\ OneEach(relWheel[s])
                    /\ \A e \in ToSet(relWheel[s]) : e.job \in EdfJobs /\ Timely(s, e)

NotForgotten(j) == OnWheel(j) \/ j \in arming \/ j \in ToSet(due)
PeriodicOK == \A j \in EdfJobs : mode[j] # "free" /\ jobPeriod[j] > 0 => NotForgotten(j)

DueOK == /\ phase \in {"idle", "counted", "woken"} => due = << >>
         /\ phase \in {"unblock", "remove", "add", "rearm"} => due # << >>

JobInv == JobTypes /\ SleepersOK /\ EdfOK /\ WaitersOK /\ WheelOK /\ DueOK

LEMMA JobInvKeepsDelays == ASSUME DeadlineAssumption, JobInv, PeriodicOK PROVE DelaysKept
<1>1. DeadlineTypeOK
  <2>1. delayed \in Seq(KeyedJobs) /\ edfq \in Seq(KeyedJobs)
    BY DEF JobInv, SleepersOK, EdfOK, ListKept
  <2> QED
    BY <2>1 DEF JobInv, JobTypes, DeadlineTypeOK, KeyedJobs, RelEntries
<1>2. Sorted(delayed) /\ \A i, k \in 1..Len(delayed) : delayed[i].job = delayed[k].job => i = k
  BY DEF JobInv, SleepersOK, ListKept, OneEach
<1>3. \A e \in ToSet(delayed) :
         mode[e.job] \in {"delay", "object"} /\ (phase # "counted" => e.key > ticks)
  BY DEF JobInv, SleepersOK
<1>4. \A j \in Jobs \ InHand : mode[j] = "delay" => HasEntry(delayed, j)
  BY DEF JobInv, SleepersOK
<1>5. \A j \in EdfJobs : (mode[j] # "free" /\ jobPeriod[j] > 0) =>
         OnWheel(j) \/ j \in arming \/ j \in ToSet(due)
  BY Zenon DEF PeriodicOK, NotForgotten
<1>6. \A s \in Slot : \A e \in ToSet(relWheel[s]) :
         ReleaseTick(s, e.rounds) \in (when[e.job] - 1)..(when[e.job] + ReleaseSlots)
  BY Zenon DEF JobInv, WheelOK, Timely
<1> QED
  BY <1>1, <1>2, <1>3, <1>4, <1>5, <1>6, Zenon DEF DelaysKept

LEMMA JobInvEarliest == ASSUME DeadlineAssumption, JobInv PROVE EarliestFirst
<1>1. EdfOK
  BY DEF JobInv
<1>2. /\ \A j \in EdfJobs : HasEntry(edfq, j) => mode[j] = "ready"
      /\ \A j \in EdfJobs \ InHand : mode[j] = "ready" => HasEntry(edfq, j)
  BY <1>1 DEF EdfOK, HasEntry
<1>3. ASSUME NEW i \in 1..Len(edfq), NEW k \in 1..Len(edfq), i < k,
             {edfq[i].job, edfq[k].job} \cap staleOrder = {}
      PROVE  deadline[edfq[i].job] <= deadline[edfq[k].job]
  <2>1. edfq[i].key <= edfq[k].key
    BY <1>1, <1>3, KeptInOrder DEF EdfOK
  <2>2. edfq[i] \in ToSet(edfq) /\ edfq[k] \in ToSet(edfq)
    BY <1>1, InSet DEF EdfOK, ListKept
  <2>3. edfq[i].key = deadline[edfq[i].job] /\ edfq[k].key = deadline[edfq[k].job]
    BY <1>1, <1>3, <2>2 DEF EdfOK
  <2> QED
    BY <2>1, <2>3
<1> QED
  BY <1>2, <1>3 DEF EarliestFirst

LEMMA EmptyKept == ListKept(<< >>) /\ ToSet(<< >>) = {}
<1>1. << >> \in Seq(KeyedJobs) /\ Len(<< >>) = 0 /\ 1..0 = {}
  OBVIOUS
<1> QED
  BY <1>1, InSet DEF ListKept, OneEach, Sorted

LEMMA JobInvInit == ASSUME DeadlineAssumption, DeadlineInit PROVE JobInv /\ PeriodicOK
<1> USE DEF DeadlineInit
<1>1. JobTypes
  <2>1. /\ 0 \in 0..MaxTicks /\ 0 \in Slot /\ << >> \in Seq(Jobs) /\ << >> \in Seq(RelEntries)
    BY DEF Slot, DeadlineAssumption
  <2> QED
    BY <2>1 DEF JobTypes, Modes
<1>2. SleepersOK /\ EdfOK
  BY EmptyKept DEF SleepersOK, EdfOK, DeadlineAssumption
<1>3. WaitersOK /\ PeriodicOK /\ DueOK
  BY DEF WaitersOK, PeriodicOK, DueOK, DeadlineAssumption
<1>4. WheelOK
  <2>1. \A s \in Slot : relWheel[s] = << >>
    OBVIOUS
  <2> QED
    BY <2>1, EmptyKept DEF WheelOK, ListKept
<1> QED
  BY <1>1, <1>2, <1>3, <1>4 DEF JobInv

(* A job goes to sleep, or is taken off the delayed list, or was not on it.*)
LEMMA FallsAsleep ==
    ASSUME JobTypes, SleepersOK, NEW j \in Jobs, NEW m \in {"delay", "object"}, NEW k \in Nat, k > ticks,
           mode' = [mode EXCEPT ![j] = m], delayed' = DelayedInsert(delayed, j, k),
           UNCHANGED <<ticks, phase>>, InHand \subseteq InHand' \cup {j}
    PROVE  SleepersOK'
<1>1. Inserted(delayed, delayed', j, k)
  BY DelayedInsertIs DEF SleepersOK
<1>2. ListKept(delayed') /\ ToSet(delayed') = {e \in ToSet(delayed) : e.job # j} \cup {[job |-> j, key |-> k]}
  BY <1>1 DEF Inserted
<1>3. \A i \in Jobs : mode'[i] = IF i = j THEN m ELSE mode[i]
  BY DEF JobTypes
<1>4. ticks \in Nat /\ \A e \in ToSet(delayed) : e.job \in Jobs
  <2>1. \A e \in ToSet(delayed) : e \in KeyedJobs
    BY InSet DEF SleepersOK, ListKept
  <2> QED
    BY <2>1 DEF KeyedJobs, JobTypes
<1>5. \A e \in ToSet(delayed') :
         /\ mode'[e.job] \in {"delay", "object"} /\ e.key >= ticks
         /\ phase # "counted" => e.key > ticks
  <2> SUFFICES ASSUME NEW e \in ToSet(delayed')
               PROVE  /\ mode'[e.job] \in {"delay", "object"} /\ e.key >= ticks
                      /\ phase # "counted" => e.key > ticks
    OBVIOUS
  <2>1. CASE e = [job |-> j, key |-> k]
    BY <1>3, <1>4, <2>1
  <2>2. CASE e \in ToSet(delayed) /\ e.job # j
    BY <1>3, <1>4, <2>2 DEF SleepersOK
  <2> QED
    BY <1>2, <2>1, <2>2
<1>6. \A i \in Jobs \ InHand' : mode'[i] = "delay" => HasEntry(delayed', i)
  <2> SUFFICES ASSUME NEW i \in Jobs \ InHand', mode'[i] = "delay"
               PROVE  \E e \in ToSet(delayed') : e.job = i
    BY DEF HasEntry
  <2>1. CASE i = j
    <3>1. [job |-> j, key |-> k] \in ToSet(delayed') /\ [job |-> j, key |-> k].job = i
      BY <1>2, <2>1
    <3> QED
      BY <3>1, Zenon
  <2>2. CASE i # j
    BY <1>2, <1>3, <2>2 DEF SleepersOK, HasEntry
  <2> QED
    BY <2>1, <2>2
<1> QED
  BY <1>2, <1>5, <1>6 DEF SleepersOK

LEMMA GetsUp ==
    ASSUME JobTypes, SleepersOK, NEW j \in Jobs, NEW m \in Modes, m # "delay",
           mode' = [mode EXCEPT ![j] = m],
           \/ delayed' = Without(delayed, j)
           \/ delayed' = delayed /\ (mode[j] \notin {"delay", "object"} \/ ~HasEntry(delayed, j)),
           UNCHANGED ticks, phase' = "counted" <=> phase = "counted", InHand \subseteq InHand' \cup {j}
    PROVE  SleepersOK'
<1>1. \A e \in ToSet(delayed) : e.job \in Jobs
  <2>1. \A e \in ToSet(delayed) : e \in KeyedJobs
    BY InSet DEF SleepersOK, ListKept
  <2> QED
    BY <2>1 DEF KeyedJobs
<1>2. ListKept(delayed') /\ ToSet(delayed') = {e \in ToSet(delayed) : e.job # j}
  <2>1. CASE delayed' = Without(delayed, j)
    BY <2>1, WithoutIs DEF SleepersOK, ListKept
  <2>2. CASE delayed' = delayed /\ (mode[j] \notin {"delay", "object"} \/ ~HasEntry(delayed, j))
    BY <2>2 DEF SleepersOK, HasEntry
  <2> QED
    BY <2>1, <2>2
<1>3. \A i \in Jobs : mode'[i] = IF i = j THEN m ELSE mode[i]
  BY DEF JobTypes
<1>4. \A e \in ToSet(delayed') :
         /\ mode'[e.job] \in {"delay", "object"} /\ e.key >= ticks
         /\ phase # "counted" => e.key > ticks
  BY <1>1, <1>2, <1>3 DEF SleepersOK
<1>5. \A i \in Jobs \ InHand' : mode'[i] = "delay" => HasEntry(delayed', i)
  BY <1>2, <1>3 DEF SleepersOK, HasEntry
<1> QED
  BY <1>2, <1>4, <1>5 DEF SleepersOK

(* A job becomes READY, or leaves the EDF list, or was not on it.          *)
LEMMA BecomesReady ==
    ASSUME DeadlineAssumption, JobTypes, EdfOK, NEW j \in Jobs, NEW d \in Nat, AddReadyJob(j, d),
           deadline' \in [Jobs -> Nat], j \in EdfJobs => deadline'[j] = d,
           \A i \in Jobs : i # j => deadline'[i] = deadline[i], InHand \subseteq InHand' \cup {j}
    PROVE  EdfOK'
<1>1. /\ mode' = [mode EXCEPT ![j] = "ready"] /\ staleOrder' = staleOrder \ {j}
      /\ edfq' = IF j \in EdfJobs THEN EdfInsert(edfq, j, d) ELSE edfq
  BY DEF AddReadyJob
<1>2. \A i \in Jobs : mode'[i] = IF i = j THEN "ready" ELSE mode[i]
  BY <1>1 DEF JobTypes
<1>3. \A e \in ToSet(edfq) : e.job \in EdfJobs /\ e.job \in Jobs
  BY DEF EdfOK, DeadlineAssumption
<1>4. CASE j \in EdfJobs
  <2>1. Inserted(edfq, edfq', j, d)
    BY <1>1, <1>4, EdfInsertIs DEF EdfOK
  <2>2. ListKept(edfq') /\ ToSet(edfq') = {e \in ToSet(edfq) : e.job # j} \cup {[job |-> j, key |-> d]}
    BY <2>1 DEF Inserted
  <2>3. ASSUME NEW e \in ToSet(edfq')
        PROVE  /\ e.job \in EdfJobs /\ mode'[e.job] = "ready"
               /\ e.job \in staleOrder' \/ e.key = deadline'[e.job]
    <3>1. CASE e = [job |-> j, key |-> d]
      BY <1>2, <1>4, <3>1
    <3>2. CASE e \in ToSet(edfq) /\ e.job # j
      BY <1>1, <1>2, <1>3, <3>2 DEF EdfOK
    <3> QED
      BY <2>2, <3>1, <3>2
  <2>4. ASSUME NEW i \in EdfJobs \ InHand', mode'[i] = "ready" PROVE \E e \in ToSet(edfq') : e.job = i
    <3>1. CASE i = j
      <4>1. [job |-> j, key |-> d] \in ToSet(edfq') /\ [job |-> j, key |-> d].job = i
        BY <2>2, <3>1
      <4> QED
        BY <4>1, Zenon
    <3>2. CASE i # j
      BY <1>2, <2>2, <2>4, <3>2 DEF EdfOK, HasEntry, DeadlineAssumption
    <3> QED
      BY <3>1, <3>2
  <2> QED
    BY <2>2, <2>3, <2>4 DEF EdfOK, HasEntry
<1>5. CASE j \notin EdfJobs
  BY <1>1, <1>2, <1>3, <1>5 DEF EdfOK, HasEntry, DeadlineAssumption
<1> QED
  BY <1>4, <1>5

LEMMA LeavesReady ==
    ASSUME DeadlineAssumption, JobTypes, EdfOK, NEW j \in Jobs, NEW m \in Modes, m # "ready",
           mode' = [mode EXCEPT ![j] = m],
           \/ edfq' = Without(edfq, j) /\ staleOrder' = staleOrder \ {j}
           \/ UNCHANGED <<edfq, staleOrder>> /\ mode[j] # "ready",
           UNCHANGED deadline, InHand \subseteq InHand' \cup {j}
    PROVE  EdfOK'
<1>1. \A e \in ToSet(edfq) : e.job \in Jobs
  BY DEF EdfOK, DeadlineAssumption
<1>2. ListKept(edfq') /\ ToSet(edfq') = {e \in ToSet(edfq) : e.job # j}
  <2>1. CASE edfq' = Without(edfq, j)
    BY <2>1, WithoutIs DEF EdfOK, ListKept
  <2>2. CASE edfq' = edfq /\ mode[j] # "ready"
    BY <2>2 DEF EdfOK
  <2> QED
    BY <2>1, <2>2
<1>3. \A i \in Jobs : mode'[i] = IF i = j THEN m ELSE mode[i]
  BY DEF JobTypes
<1>4. staleOrder \ {j} \subseteq staleOrder'
  OBVIOUS
<1>5. ASSUME NEW e \in ToSet(edfq')
      PROVE  /\ e.job \in EdfJobs /\ mode'[e.job] = "ready"
             /\ e.job \in staleOrder' \/ e.key = deadline'[e.job]
  BY <1>1, <1>2, <1>3, <1>4 DEF EdfOK
<1>6. ASSUME NEW i \in EdfJobs \ InHand', mode'[i] = "ready" PROVE HasEntry(edfq', i)
  BY <1>2, <1>3, <1>6 DEF EdfOK, HasEntry, DeadlineAssumption
<1> QED
  BY <1>2, <1>5, <1>6 DEF EdfOK

-----------------------------------------------------------------------------
(* The wheel's arithmetic.                                                 *)
LEMMA Divided ==
    ASSUME NEW x \in Int, NEW n \in Nat \ {0}
    PROVE  /\ x \div n \in Int /\ x % n \in 0..(n - 1) /\ x = n * (x \div n) + (x % n)
           /\ x \in Nat => x \div n \in Nat
<1>1. x \div n \in Int /\ x % n \in 0..(n - 1) /\ x = n * (x \div n) + (x % n)
  OBVIOUS
<1>2. ASSUME x \in Nat PROVE x \div n \in Nat
  BY <1>2
<1> QED
  BY <1>1, <1>2

LEMMA Multiples ==
    ASSUME NEW a \in Int, NEW b \in Int, NEW n \in Nat \ {0}
    PROVE  /\ n * a \in Int /\ n * a = a * n /\ n * (a - b) = (n * a) - (n * b) /\ n * (a + 1) = (n * a) + n
           /\ a >= 1 => n * a >= n
           /\ a <= 0 - 1 => n * a <= 0 - n
<1>1. n * a \in Int /\ n * a = a * n /\ n * (a - b) = (n * a) - (n * b) /\ n * (a + 1) = (n * a) + n
  OBVIOUS
<1>2. ASSUME a >= 1 PROVE n * a >= n
  BY <1>2
<1>3. ASSUME a <= 0 - 1 PROVE n * a <= 0 - n
  BY <1>3
<1> QED
  BY <1>1, <1>2, <1>3

LEMMA RemainderIs ==
    ASSUME NEW x \in Int, NEW n \in Nat \ {0}, NEW q \in Int, NEW r \in 0..(n - 1), x = n * q + r
    PROVE  x % n = r
<1>1. PICK a \in Int : a = x \div n
  BY Divided
<1>2. PICK b \in 0..(n - 1) : b = x % n
  BY Divided
<1>3. x = n * a + b
  BY <1>1, <1>2, Divided
<1>4. n * (a - q) = (n * a) - (n * q) /\ n * a \in Int /\ n * q \in Int
  BY <1>1, Multiples
<1>5. n * (a - q) = r - b
  BY <1>3, <1>4
<1>6. /\ a - q >= 1 => n * (a - q) >= n
      /\ a - q <= 0 - 1 => n * (a - q) <= 0 - n
  BY <1>1, Multiples
<1>7. a - q = 0
  BY <1>1, <1>2, <1>5, <1>6
<1>8. n * (a - q) = 0
  BY <1>1, <1>7
<1> QED
  BY <1>2, <1>5, <1>8

(* The steps from cursor c to the slot s that comes up next.               *)
LEMMA Distance ==
    ASSUME NEW n \in Nat \ {0}, NEW c \in 0..(n - 1), NEW s \in 0..(n - 1)
    PROVE  (s - c - 1) % n = IF s > c THEN s - c - 1 ELSE s - c - 1 + n
<1>1. CASE s > c
  <2>1. s - c - 1 \in 0..(n - 1) /\ s - c - 1 = n * 0 + (s - c - 1)
    BY <1>1
  <2>2. (s - c - 1) % n = s - c - 1
    BY <2>1, RemainderIs
  <2> QED
    BY <1>1, <2>2
<1>2. CASE ~(s > c)
  <2>1. s - c - 1 + n \in 0..(n - 1) /\ s - c - 1 = n * (0 - 1) + (s - c - 1 + n)
    BY <1>2
  <2>2. (s - c - 1) % n = s - c - 1 + n
    BY <2>1, RemainderIs
  <2> QED
    BY <1>2, <2>2
<1> QED
  BY <1>1, <1>2

LEMMA NextSlot ==
    ASSUME NEW n \in Nat \ {0}, NEW c \in 0..(n - 1)
    PROVE  (c + 1) % n = IF c = n - 1 THEN 0 ELSE c + 1
<1>1. CASE c = n - 1
  <2>1. c + 1 = n * 1 + 0 /\ 0 \in 0..(n - 1)
    BY <1>1
  <2>2. (c + 1) % n = 0
    BY <2>1, RemainderIs
  <2> QED
    BY <1>1, <2>2
<1>2. CASE c # n - 1
  <2>1. c + 1 = n * 0 + (c + 1) /\ c + 1 \in 0..(n - 1)
    BY <1>2
  <2>2. (c + 1) % n = c + 1
    BY <2>1, RemainderIs
  <2> QED
    BY <1>2, <2>2
<1> QED
  BY <1>1, <1>2

(* An entry put d ticks away from cursor c.                                *)
LEMMA PutAway ==
    ASSUME NEW n \in Nat \ {0}, NEW c \in 0..(n - 1), NEW d \in Nat
    PROVE  \E q \in Nat, s \in 0..(n - 1), w \in 0..(n - 1) :
              /\ q = d \div n /\ s = (c + d) % n /\ w = (s - c - 1) % n
              /\ q * n \in Int /\ (q * n) + w \in {d - 1, d + n - 1}
<1>1. PICK q \in Nat, r \in 0..(n - 1) : q = d \div n /\ r = d % n /\ d = n * q + r
  <2>1. d \in Int
    OBVIOUS
  <2>2. d \div n \in Nat /\ d % n \in 0..(n - 1) /\ d = n * (d \div n) + (d % n)
    BY <2>1, Divided
  <2> QED
    BY <2>2, Zenon
<1>2. PICK s \in 0..(n - 1) : s = (c + d) % n
  BY Divided
<1>3. s = IF c + r <= n - 1 THEN c + r ELSE c + r - n
  <2>1. CASE c + r <= n - 1
    <3>1. c + d = n * q + (c + r) /\ c + r \in 0..(n - 1)
      BY <1>1, <2>1
    <3>2. (c + d) % n = c + r
      BY <1>1, <3>1, RemainderIs
    <3> QED
      BY <1>2, <2>1, <3>2
  <2>2. CASE ~(c + r <= n - 1)
    <3>1. n * (q + 1) = (n * q) + n /\ n * q \in Int
      BY <1>1, Multiples
    <3>2. c + d = n * (q + 1) + (c + r - n) /\ c + r - n \in 0..(n - 1)
      BY <1>1, <2>2, <3>1
    <3>3. (c + d) % n = c + r - n
      <4>1. PICK a \in Int, b \in 0..(n - 1), x \in Int : a = q + 1 /\ b = c + r - n /\ x = c + d
        BY <1>1, <3>2
      <4>2. x % n = b
        BY <3>2, <4>1, RemainderIs
      <4> QED
        BY <4>1, <4>2
    <3> QED
      BY <1>2, <2>2, <3>3
  <2> QED
    BY <2>1, <2>2
<1>4. (s - c - 1) % n = IF s > c THEN s - c - 1 ELSE s - c - 1 + n
  BY <1>2, Distance
<1>5. (s - c - 1) % n = IF r = 0 THEN n - 1 ELSE r - 1
  BY <1>1, <1>3, <1>4
<1>6. q * n = n * q /\ n * q \in Int
  BY <1>1, Multiples
<1>7. PICK w \in 0..(n - 1) : w = (s - c - 1) % n /\ w = IF r = 0 THEN n - 1 ELSE r - 1
  BY <1>1, <1>5
<1>8. q * n \in Int /\ (q * n) + w \in {d - 1, d + n - 1}
  BY <1>1, <1>6, <1>7
<1> QED
  BY <1>1, <1>2, <1>7, <1>8

-----------------------------------------------------------------------------
(* Off the wheel, and on it again.                                         *)
LEMMA OffWheel ==
    ASSUME JobTypes, WheelOK, NEW j \in Jobs
    PROVE  /\ Disarmed(j) \in [Slot -> Seq(RelEntries)]
           /\ \A s \in Slot : /\ OneEach(Disarmed(j)[s])
                              /\ ToSet(Disarmed(j)[s]) = {e \in ToSet(relWheel[s]) : e.job # j}
<1>1. ASSUME NEW s \in Slot
      PROVE  /\ Disarmed(j)[s] \in Seq(RelEntries) /\ OneEach(Disarmed(j)[s])
             /\ ToSet(Disarmed(j)[s]) = {e \in ToSet(relWheel[s]) : e.job # j}
  <2>1. Disarmed(j)[s] = Without(relWheel[s], j)
    BY DEF Disarmed
  <2>2. relWheel[s] \in Seq(RelEntries) /\ OneEach(relWheel[s])
    BY DEF JobTypes, WheelOK
  <2> QED
    BY <2>1, <2>2, WithoutIs
<1>2. DOMAIN Disarmed(j) = Slot /\ Disarmed(j) = [s \in Slot |-> Disarmed(j)[s]]
  BY DEF Disarmed
<1> QED
  BY <1>1, <1>2

(* An entry for a new job at the end of a slot.                            *)
LEMMA AppendedOne ==
    ASSUME NEW S, NEW list \in Seq(S), NEW e \in S, OneEach(list), \A x \in ToSet(list) : x.job # e.job
    PROVE  /\ Append(list, e) \in Seq(S) /\ OneEach(Append(list, e))
           /\ ToSet(Append(list, e)) = ToSet(list) \cup {e}
<1>0. PICK r : r = Append(list, e)
  OBVIOUS
<1>1. PICK n \in Nat : n = Len(list)
  OBVIOUS
<1>2. r \in Seq(S) /\ Len(r) = n + 1 /\ r[n + 1] = e /\ \A i \in 1..n : r[i] = list[i]
  BY <1>0, <1>1
<1>3. \A i \in 1..(n + 1) : i \in 1..n \/ i = n + 1
  BY <1>1
<1>4. ToSet(list) = {list[i] : i \in 1..n} /\ ToSet(r) = {r[i] : i \in 1..(n + 1)}
  <2>1. ToSet(list) = {list[i] : i \in 1..Len(list)}
    BY InSet
  <2>2. ToSet(r) = {r[i] : i \in 1..Len(r)}
    BY DEF ToSet
  <2> QED
    BY <1>1, <1>2, <2>1, <2>2
<1>5. \A i \in 1..n : list[i].job # e.job
  BY <1>4
<1>6. OneEach(r)
  <2> SUFFICES ASSUME NEW i \in 1..(n + 1), NEW k \in 1..(n + 1), r[i].job = r[k].job PROVE i = k
    BY <1>2 DEF OneEach
  <2>1. \A a, b \in 1..n : list[a].job = list[b].job => a = b
    BY <1>1 DEF OneEach
  <2> QED
    BY <1>2, <1>3, <1>5, <2>1
<1>7. ToSet(r) \subseteq ToSet(list) \cup {e}
  BY <1>2, <1>3, <1>4
<1>8. ToSet(list) \subseteq ToSet(r)
  <2>1. \A i \in 1..n : i \in 1..(n + 1)
    BY <1>1
  <2> QED
    BY <1>2, <1>4, <2>1
<1>9. e \in ToSet(r)
  <2>1. n + 1 \in 1..(n + 1)
    BY <1>1
  <2> QED
    BY <1>2, <1>4, <2>1
<1> QED
  BY <1>0, <1>2, <1>6, <1>7, <1>8, <1>9

(* How far an entry in slot s with n rounds to go is from its release.     *)
Away(s, n, c, late) == (n * ReleaseSlots) + ((s - c - 1) % ReleaseSlots) + late
Late == IF phase \in {"counted", "woken"} THEN 0 ELSE 1

LEMMA TickIsAway ==
    ASSUME DeadlineAssumption, NEW s \in Slot, NEW n \in Nat, ticks \in Nat, relCursor \in Slot
    PROVE  ReleaseTick(s, n) = ticks + Away(s, n, relCursor, Late) /\ Away(s, n, relCursor, Late) \in Int
<1>1. PICK a \in Int : a = n * ReleaseSlots
  BY Multiples DEF DeadlineAssumption
<1>2. s - relCursor - 1 \in Int /\ ReleaseSlots \in Nat \ {0}
  BY DEF Slot, DeadlineAssumption
<1>3. PICK w \in Int : w = (s - relCursor - 1) % ReleaseSlots
  <2>1. PICK x \in Int : x = s - relCursor - 1
    BY <1>2
  <2>2. x % ReleaseSlots \in Int
    BY <1>2, <2>1, Divided
  <2> QED
    BY <2>1, <2>2
<1>4. PICK l \in {0, 1} : l = Late
  BY DEF Late
<1>5. ReleaseTick(s, n) = ticks + a + w + l
  BY <1>1, <1>3, <1>4 DEF ReleaseTick, Late
<1>6. Away(s, n, relCursor, Late) = a + w + l
  BY <1>1, <1>3, <1>4 DEF Away
<1> QED
  BY <1>5, <1>6

(* An entry armed for tick goal is released then, but for a tick or a turn.*)
LEMMA ArmedInTime ==
    ASSUME DeadlineAssumption, NEW goal \in Nat, NEW now \in Nat, NEW delta \in Nat, goal = now + delta,
           NEW c \in Slot, NEW s, s = (c + delta) % ReleaseSlots, NEW late \in {0, 1}
    PROVE  s \in Slot /\ Turns(delta) \in Nat
           /\ now + Away(s, Turns(delta), c, late) \in (goal - 1)..(goal + ReleaseSlots)
<1>1. PICK n \in Nat \ {0} : n = ReleaseSlots /\ Slot = 0..(n - 1)
  BY DEF DeadlineAssumption, Slot
<1>2. c \in 0..(n - 1)
  BY <1>1
<1>3. PICK q \in Nat, t \in 0..(n - 1), w \in 0..(n - 1) :
              /\ q = delta \div n /\ t = (c + delta) % n /\ w = (t - c - 1) % n
              /\ q * n \in Int /\ (q * n) + w \in {delta - 1, delta + n - 1}
  BY <1>2, PutAway
<1>4. t = s /\ s \in Slot /\ Turns(delta) = q
  BY <1>1, <1>3 DEF Turns
<1>5. PICK a \in Int : a = q * n
  BY <1>3
<1>6. Away(s, Turns(delta), c, late) = a + w + late
  BY <1>1, <1>3, <1>4, <1>5 DEF Away
<1>7. a + w = delta - 1 \/ a + w = delta + n - 1
  BY <1>3, <1>5
<1>8. now + (a + w + late) \in (goal - 1)..(goal + n)
  BY <1>7
<1> QED
  BY <1>1, <1>3, <1>4, <1>6, <1>8

(* After the call, the wheel has what it had of other jobs, and a periodic *)
(* EDF job is on it, in time.                                              *)
LEMMA Armed ==
    ASSUME DeadlineAssumption, JobTypes, WheelOK, NEW j \in Jobs, Arm(j),
           UNCHANGED <<ticks, relCursor>>,
           phase' \in {"counted", "woken"} <=> phase \in {"counted", "woken"}
    PROVE  /\ relWheel' \in [Slot -> Seq(RelEntries)] /\ when' \in [Jobs -> Nat] /\ WheelOK'
           /\ \A i \in Jobs : i # j /\ OnWheel(i) => OnWheel(i)'
           /\ j \in EdfJobs /\ jobPeriod[j] # 0 => OnWheel(j)'
<1>1. relCursor \in Slot /\ ticks \in Nat /\ deadline[j] \in Nat
  BY DEF JobTypes
<1>2. PICK goal \in Nat : goal = IF deadline[j] < ticks THEN ticks ELSE deadline[j]
  BY <1>1
<1>3. PICK delta \in Nat : delta = goal - ticks /\ goal = ticks + delta
  BY <1>1, <1>2
<1>4. PICK slot : slot = (relCursor + delta) % ReleaseSlots
  OBVIOUS
<1>5. PICK e : e = [job |-> j, rounds |-> Turns(delta)]
  OBVIOUS
<1>6. PICK off : off = Disarmed(j)
  OBVIOUS
<1>7. PICK late \in {0, 1} : late = Late
  BY DEF Late
<1>8. /\ slot \in Slot /\ Turns(delta) \in Nat
      /\ ticks + Away(slot, Turns(delta), relCursor, late) \in (goal - 1)..(goal + ReleaseSlots)
  BY <1>1, <1>3, <1>4, ArmedInTime
<1>9. e \in RelEntries /\ e.job = j /\ e.rounds = Turns(delta)
  BY <1>5, <1>8 DEF RelEntries
<1>10. /\ off \in [Slot -> Seq(RelEntries)]
       /\ \A s \in Slot : OneEach(off[s]) /\ ToSet(off[s]) = {x \in ToSet(relWheel[s]) : x.job # j}
  BY <1>6, OffWheel
<1>11. \A s \in Slot, n \in Nat : ReleaseTick(s, n)' = ReleaseTick(s, n)
  BY DEF ReleaseTick
<1>12. \A s \in Slot : \A x \in ToSet(off[s]) :
         x.job # j /\ x.job \in EdfJobs /\ x.job \in Jobs /\ x.rounds \in Nat /\ Timely(s, x)
  <2> SUFFICES ASSUME NEW s \in Slot, NEW x \in ToSet(off[s])
               PROVE  x.job # j /\ x.job \in EdfJobs /\ x.job \in Jobs /\ x.rounds \in Nat /\ Timely(s, x)
    OBVIOUS
  <2>1. x.job # j /\ x \in ToSet(relWheel[s])
    BY <1>10
  <2>2. relWheel[s] \in Seq(RelEntries)
    BY DEF JobTypes
  <2>3. x \in RelEntries
    BY <2>1, <2>2, InSet
  <2> QED
    BY <2>1, <2>3 DEF RelEntries, WheelOK
<1>13. CASE ~(j \in EdfJobs /\ jobPeriod[j] # 0)
  <2>1. relWheel' = off /\ when' = when
    BY <1>6, <1>13 DEF Arm
  <2>2. \A s \in Slot : \A x \in ToSet(off[s]) : Timely(s, x)'
    BY <1>11, <1>12, <2>1 DEF Timely
  <2>3. WheelOK'
    BY <1>10, <1>12, <2>1, <2>2 DEF WheelOK
  <2>4. \A i \in Jobs : i # j /\ OnWheel(i) => OnWheel(i)'
    BY <1>10, <2>1 DEF OnWheel
  <2> QED
    BY <1>10, <1>13, <2>1, <2>3, <2>4 DEF JobTypes
<1>14. CASE j \in EdfJobs /\ jobPeriod[j] # 0
  <2>1. relWheel' = [off EXCEPT ![slot] = Append(@, e)] /\ when' = [when EXCEPT ![j] = goal]
    BY <1>2, <1>3, <1>4, <1>5, <1>6, <1>14 DEF Arm
  <2>2. PICK r : r = Append(off[slot], e)
    OBVIOUS
  <2>3. r \in Seq(RelEntries) /\ OneEach(r) /\ ToSet(r) = ToSet(off[slot]) \cup {e}
    <3>1. PICK list : list = off[slot]
      OBVIOUS
    <3>2. list \in Seq(RelEntries)
      BY <1>8, <1>10, <3>1
    <3>4. OneEach(list)
      BY <1>8, <1>10, <3>1
    <3>5. \A x \in ToSet(list) : x.job # e.job
      BY <1>8, <1>9, <1>12, <3>1
    <3>3. r \in Seq(RelEntries) /\ OneEach(r) /\ ToSet(r) = ToSet(list) \cup {e}
      <4>1. e \in RelEntries
        BY <1>9
      <4>2. r = Append(list, e)
        BY <2>2, <3>1
      <4>3. /\ Append(list, e) \in Seq(RelEntries) /\ OneEach(Append(list, e))
            /\ ToSet(Append(list, e)) = ToSet(list) \cup {e}
        BY <3>2, <3>4, <3>5, <4>1, AppendedOne
      <4> QED
        BY <4>2, <4>3
    <3> QED
      BY <3>1, <3>3
  <2>4. /\ relWheel' \in [Slot -> Seq(RelEntries)] /\ relWheel'[slot] = r
        /\ \A s \in Slot : s # slot => relWheel'[s] = off[s]
    BY <1>8, <1>10, <2>1, <2>2, <2>3
  <2>5. /\ when' \in [Jobs -> Nat] /\ when'[j] = goal /\ \A i \in Jobs : i # j => when'[i] = when[i]
    BY <2>1 DEF JobTypes
  <2>6. \A s \in Slot : \A x \in ToSet(off[s]) : Timely(s, x)'
    BY <1>11, <1>12, <2>5 DEF Timely
  <2>7. Timely(slot, e)'
    <3>1. ReleaseTick(slot, e.rounds)' \in (goal - 1)..(goal + ReleaseSlots)
      BY <1>1, <1>7, <1>8, <1>9, <1>11, TickIsAway
    <3> QED
      BY <1>9, <2>5, <3>1 DEF Timely
  <2>8. WheelOK'
    <3> SUFFICES ASSUME NEW s \in Slot
                 PROVE  OneEach(relWheel'[s]) /\ \A x \in ToSet(relWheel'[s]) : x.job \in EdfJobs /\ Timely(s, x)'
      BY DEF WheelOK
    <3>1. CASE s = slot
      <4>1. OneEach(relWheel'[s]) /\ ToSet(relWheel'[s]) = ToSet(off[slot]) \cup {e}
        BY <2>3, <2>4, <3>1
      <4>2. \A x \in ToSet(off[slot]) : x.job \in EdfJobs /\ Timely(s, x)'
        BY <1>8, <1>12, <2>6, <3>1
      <4>3. e.job \in EdfJobs /\ Timely(s, e)'
        BY <1>9, <1>14, <2>7, <3>1
      <4> QED
        BY <4>1, <4>2, <4>3
    <3>2. CASE s # slot
      BY <1>10, <1>12, <2>4, <2>6, <3>2
    <3> QED
      BY <3>1, <3>2
  <2>9. \A i \in Jobs : i # j /\ OnWheel(i) => OnWheel(i)'
    <3> SUFFICES ASSUME NEW i \in Jobs, i # j, NEW s \in Slot, NEW x \in ToSet(relWheel[s]), x.job = i
                 PROVE  \E y \in ToSet(relWheel'[s]) : y.job = i
      BY DEF OnWheel
    <3>1. x \in ToSet(off[s])
      BY <1>10
    <3>2. x \in ToSet(relWheel'[s])
      BY <2>3, <2>4, <3>1
    <3> QED
      BY <3>2
  <2>10. OnWheel(j)'
    <3>1. e \in ToSet(relWheel'[slot]) /\ e.job = j
      BY <1>9, <2>3, <2>4
    <3> QED
      BY <1>8, <3>1 DEF OnWheel
  <2> QED
    BY <2>4, <2>5, <2>8, <2>9, <2>10
<1> QED
  BY <1>13, <1>14

-----------------------------------------------------------------------------
(* The calls of tasks.  First what a step does not touch.                  *)
LEMMA SleepersFrame ==
    ASSUME SleepersOK, UNCHANGED <<delayed, mode, ticks>>, phase' = "counted" <=> phase = "counted",
           InHand \subseteq InHand'
    PROVE  SleepersOK'
BY DEF SleepersOK

LEMMA EdfFrame ==
    ASSUME EdfOK, UNCHANGED <<edfq, mode, deadline, staleOrder>>, InHand \subseteq InHand'
    PROVE  EdfOK'
BY DEF EdfOK

LEMMA WheelFrame ==
    ASSUME WheelOK, UNCHANGED <<relWheel, when, relCursor, ticks>>,
           phase' \in {"counted", "woken"} <=> phase \in {"counted", "woken"}
    PROVE  WheelOK'
<1>1. \A s \in Slot : \A n : ReleaseTick(s, n)' = ReleaseTick(s, n)
  BY DEF ReleaseTick
<1>2. \A s \in Slot : \A e : Timely(s, e)' = Timely(s, e)
  BY <1>1 DEF Timely
<1> QED
  BY <1>2 DEF WheelOK

LEMMA PeriodicFrame ==
    ASSUME PeriodicOK,
           \A i \in EdfJobs : mode'[i] # "free" /\ jobPeriod'[i] > 0 =>
              \/ mode[i] # "free" /\ jobPeriod[i] > 0 /\ (NotForgotten(i) => NotForgotten(i)')
              \/ NotForgotten(i)'
    PROVE  PeriodicOK'
BY DEF PeriodicOK

LEMMA RememberedFrame ==
    ASSUME UNCHANGED <<relWheel, due>>, arming \subseteq arming', NEW i, NotForgotten(i)
    PROVE  NotForgotten(i)'
<1>1. OnWheel(i)' = OnWheel(i)
  BY DEF OnWheel
<1> QED
  BY <1>1 DEF NotForgotten

(* A job that lives goes from one mode to another, and nothing else        *)
(* happens to it.                                                          *)
Moves(j, m) ==
    /\ mode' = [mode EXCEPT ![j] = m] /\ mode[j] # "free"
    /\ m = "object" => j \in ObjectWaiters
    /\ staleOrder' \in SUBSET staleOrder
    /\ UNCHANGED <<ticks, phase, due, deadline, jobPeriod, relVars, arming, relinked>>

LEMMA JobMoves ==
    ASSUME DeadlineAssumption, JobInv, NEW j \in Jobs, NEW m \in Modes, Moves(j, m), SleepersOK', EdfOK'
    PROVE  JobInv' /\ (PeriodicOK => PeriodicOK')
<1> USE DEF Moves
<1>1. JobTypes'
  BY DEF JobInv, JobTypes, relVars
<1>2. WaitersOK'
  BY DEF JobInv, JobTypes, WaitersOK
<1>3. WheelOK'
  BY WheelFrame DEF JobInv, relVars
<1>4. DueOK'
  BY DEF JobInv, DueOK
<1>5. ASSUME PeriodicOK PROVE PeriodicOK'
  <2>1. \A i \in EdfJobs : NotForgotten(i) => NotForgotten(i)'
    BY RememberedFrame DEF relVars
  <2>2. \A i \in EdfJobs : mode'[i] # "free" => mode[i] # "free"
    BY DEF JobInv, JobTypes, DeadlineAssumption
  <2> QED
    BY <1>5, <2>1, <2>2, PeriodicFrame
<1> QED
  BY <1>1, <1>2, <1>3, <1>4, <1>5 DEF JobInv

LEMMA DispatchKeeps ==
    ASSUME DeadlineAssumption, JobInv, NEW j \in Jobs, Dispatch(j)
    PROVE  JobInv' /\ (PeriodicOK => PeriodicOK')
<1> USE DEF Dispatch, Elsewhere
<1>hand. InHand' = InHand
  BY DEF InHand
<1> USE <1>hand
<1>1. Moves(j, "running") /\ "running" \in Modes
  BY DEF Moves, Modes
<1>2. SleepersOK'
  BY <1>1, GetsUp DEF JobInv
<1>3. EdfOK'
  BY <1>1, LeavesReady DEF JobInv
<1> QED
  BY <1>1, <1>2, <1>3, JobMoves

LEMMA PreemptKeeps ==
    ASSUME DeadlineAssumption, JobInv, NEW j \in Jobs, Preempt(j)
    PROVE  JobInv' /\ (PeriodicOK => PeriodicOK')
<1> USE DEF Preempt, Elsewhere
<1>hand. InHand' = InHand
  BY DEF InHand
<1> USE <1>hand
<1>1. Moves(j, "ready") /\ "ready" \in Modes /\ AddReadyJob(j, deadline[j])
  BY DEF Moves, Modes, AddReadyJob
<1>2. SleepersOK'
  BY <1>1, GetsUp DEF JobInv, Moves
<1>3. deadline \in [Jobs -> Nat] /\ deadline[j] \in Nat /\ deadline' = deadline
  BY DEF JobInv, JobTypes
<1>4. EdfOK'
  BY <1>1, <1>3, BecomesReady DEF JobInv
<1> QED
  BY <1>1, <1>2, <1>4, JobMoves

LEMMA ResumeKeeps ==
    ASSUME DeadlineAssumption, JobInv, NEW j \in Jobs, ResumeJob(j)
    PROVE  JobInv' /\ (PeriodicOK => PeriodicOK')
<1> USE DEF ResumeJob, Elsewhere
<1>hand. InHand' = InHand
  BY DEF InHand
<1> USE <1>hand
<1>1. Moves(j, "ready") /\ "ready" \in Modes /\ AddReadyJob(j, deadline[j])
  BY DEF Moves, Modes, AddReadyJob
<1>2. SleepersOK'
  BY <1>1, GetsUp DEF JobInv, Moves
<1>3. deadline \in [Jobs -> Nat] /\ deadline[j] \in Nat /\ deadline' = deadline
  BY DEF JobInv, JobTypes
<1>4. EdfOK'
  BY <1>1, <1>3, BecomesReady DEF JobInv
<1> QED
  BY <1>1, <1>2, <1>4, JobMoves

LEMMA SignalKeeps ==
    ASSUME DeadlineAssumption, JobInv, NEW j \in Jobs, Signal(j)
    PROVE  JobInv' /\ (PeriodicOK => PeriodicOK')
<1> USE DEF Signal, Elsewhere
<1>hand. InHand' = InHand
  BY DEF InHand
<1> USE <1>hand
<1>1. /\ Moves(j, "ready") /\ "ready" \in Modes /\ AddReadyJob(j, deadline[j])
      /\ delayed' = Without(delayed, j)
  BY DEF Moves, Modes, AddReadyJob, UnblockJob, DelayedRemove
<1>2. SleepersOK'
  BY <1>1, GetsUp DEF JobInv, Moves
<1>3. deadline \in [Jobs -> Nat] /\ deadline[j] \in Nat /\ deadline' = deadline
  BY DEF JobInv, JobTypes
<1>4. EdfOK'
  BY <1>1, <1>3, BecomesReady DEF JobInv
<1> QED
  BY <1>1, <1>2, <1>4, JobMoves

LEMMA SleepUntilKeeps ==
    ASSUME DeadlineAssumption, JobInv, NEW j \in Jobs, NEW m \in {"delay", "object"}, NEW k \in Nat, k > ticks,
           SleepUntil(j, m, k), m = "object" => j \in ObjectWaiters
    PROVE  JobInv' /\ (PeriodicOK => PeriodicOK')
<1> USE DEF SleepUntil, Elsewhere
<1>hand. InHand' = InHand
  BY DEF InHand
<1> USE <1>hand
<1>1. Moves(j, m) /\ m \in Modes /\ m # "ready"
  BY DEF Moves, Modes
<1>2. SleepersOK'
  BY FallsAsleep DEF JobInv
<1>3. EdfOK'
  BY <1>1, LeavesReady DEF JobInv
<1> QED
  BY <1>1, <1>2, <1>3, JobMoves

LEMMA AwaitForeverKeeps ==
    ASSUME DeadlineAssumption, JobInv, NEW j \in Jobs, AwaitForever(j)
    PROVE  JobInv' /\ (PeriodicOK => PeriodicOK')
<1> USE DEF AwaitForever, Elsewhere
<1>hand. InHand' = InHand
  BY DEF InHand
<1> USE <1>hand
<1>1. Moves(j, "object") /\ "object" \in Modes /\ delayed' = Without(delayed, j)
  BY DEF Moves, Modes, DelayedRemove
<1>2. SleepersOK'
  BY <1>1, GetsUp DEF JobInv, Moves
<1>3. EdfOK'
  BY <1>1, LeavesReady DEF JobInv
<1> QED
  BY <1>1, <1>2, <1>3, JobMoves

LEMMA SuspendKeeps ==
    ASSUME DeadlineAssumption, JobInv, NEW j \in Jobs, SuspendJob(j)
    PROVE  JobInv' /\ (PeriodicOK => PeriodicOK')
<1> USE DEF SuspendJob, Elsewhere
<1>hand. InHand' = InHand
  BY DEF InHand
<1> USE <1>hand
<1>1. /\ Moves(j, "suspended") /\ "suspended" \in Modes
      /\ delayed' = IF mode[j] \in {"delay", "object"} THEN Without(delayed, j) ELSE delayed
  BY DEF Moves, Modes, DelayedRemove
<1>2. SleepersOK'
  BY <1>1, GetsUp DEF JobInv, Moves
<1>3. EdfOK'
  BY <1>1, LeavesReady DEF JobInv
<1> QED
  BY <1>1, <1>2, <1>3, JobMoves

LEMMA CreateKeeps ==
    ASSUME DeadlineAssumption, JobInv, NEW j \in Jobs, CreateJob(j)
    PROVE  JobInv' /\ (PeriodicOK => PeriodicOK')
<1> USE DEF CreateJob, Elsewhere
<1>hand. InHand' = InHand
  BY DEF InHand
<1> USE <1>hand
<1>1. /\ mode' = [mode EXCEPT ![j] = "ready"] /\ staleOrder' = staleOrder \ {j}
      /\ AddReadyJob(j, ticks) /\ delayed' = delayed /\ mode[j] = "free"
  BY DEF AddReadyJob
<1>2. JobTypes'
  BY <1>1 DEF JobInv, JobTypes, Modes, relVars
<1>3. SleepersOK'
  BY <1>1, GetsUp DEF JobInv, Modes
<1>4. EdfOK'
  <2>1. /\ ticks \in Nat /\ deadline' \in [Jobs -> Nat] /\ (j \in EdfJobs => deadline'[j] = ticks)
        /\ \A i \in Jobs : i # j => deadline'[i] = deadline[i]
    BY DEF JobInv, JobTypes
  <2> QED
    BY <1>1, <2>1, BecomesReady DEF JobInv
<1>5. WaitersOK'
  BY <1>1 DEF JobInv, JobTypes, WaitersOK, DeadlineAssumption
<1>6. WheelOK' /\ DueOK'
  BY WheelFrame DEF JobInv, DueOK, relVars
<1>7. ASSUME PeriodicOK PROVE PeriodicOK'
  <2>1. \A i \in EdfJobs : NotForgotten(i) => NotForgotten(i)'
    BY RememberedFrame DEF relVars
  <2>2. \A i \in EdfJobs : i # j => mode'[i] = mode[i] /\ jobPeriod'[i] = jobPeriod[i]
    BY <1>1 DEF JobInv, JobTypes, DeadlineAssumption
  <2>3. ~(jobPeriod'[j] > 0)
    BY DEF JobInv, JobTypes
  <2> QED
    BY <1>7, <2>1, <2>2, <2>3, PeriodicFrame
<1> QED
  BY <1>2, <1>3, <1>4, <1>5, <1>6, <1>7 DEF JobInv

LEMMA DeleteKeeps ==
    ASSUME DeadlineAssumption, JobInv, NEW j \in Jobs, DeleteJob(j)
    PROVE  JobInv' /\ (PeriodicOK => PeriodicOK')
<1> USE DEF DeleteJob, Elsewhere
<1>hand. InHand' = InHand
  BY DEF InHand
<1> USE <1>hand
<1>1. /\ Disarmed(j) \in [Slot -> Seq(RelEntries)]
      /\ \A s \in Slot : /\ OneEach(Disarmed(j)[s])
                         /\ ToSet(Disarmed(j)[s]) = {e \in ToSet(relWheel[s]) : e.job # j}
  BY OffWheel DEF JobInv
<1>2. JobTypes'
  BY <1>1 DEF JobInv, JobTypes, Modes
<1>3. SleepersOK'
  BY GetsUp DEF JobInv, Modes, DelayedRemove
<1>4. EdfOK'
  BY LeavesReady DEF JobInv, Modes
<1>5. WaitersOK'
  BY DEF JobInv, JobTypes, WaitersOK, DeadlineAssumption
<1>6. WheelOK'
  <2>1. \A s \in Slot : \A n : ReleaseTick(s, n)' = ReleaseTick(s, n)
    BY DEF ReleaseTick
  <2>2. \A s \in Slot : \A e : Timely(s, e)' = Timely(s, e)
    BY <2>1 DEF Timely
  <2> QED
    BY <1>1, <2>2 DEF JobInv, WheelOK
<1>7. DueOK'
  BY DEF JobInv, DueOK
<1>8. ASSUME PeriodicOK PROVE PeriodicOK'
  <2>1. \A i \in EdfJobs : i # j /\ OnWheel(i) => OnWheel(i)'
    BY <1>1 DEF OnWheel
  <2>2. \A i \in EdfJobs : i # j /\ NotForgotten(i) => NotForgotten(i)'
    BY <2>1 DEF NotForgotten
  <2>3. \A i \in EdfJobs : i # j => mode'[i] = mode[i] /\ jobPeriod'[i] = jobPeriod[i]
    BY DEF JobInv, JobTypes, DeadlineAssumption
  <2>4. ~(jobPeriod'[j] > 0)
    BY DEF JobInv, JobTypes
  <2> QED
    BY <1>8, <2>2, <2>3, <2>4, PeriodicFrame
<1> QED
  BY <1>2, <1>3, <1>4, <1>5, <1>6, <1>7, <1>8 DEF JobInv

LEMMA SetPeriodKeeps ==
    ASSUME DeadlineAssumption, JobInv, NEW j \in Jobs, NEW p \in JobPeriods, SetPeriod(j, p)
    PROVE  JobInv' /\ (PeriodicOK => PeriodicOK')
<1> USE DEF SetPeriod, Elsewhere
<1>hand. InHand' = InHand
  BY DEF InHand
<1> USE <1>hand
<1>0. p \in Nat /\ ticks \in Nat
  BY DEF JobInv, JobTypes, DeadlineAssumption
<1>1. /\ deadline' \in [Jobs -> Nat] /\ arming' \in SUBSET Jobs /\ staleOrder' \in SUBSET Jobs
      /\ jobPeriod' \in [Jobs -> JobPeriods \cup {0}]
      /\ staleOrder \subseteq staleOrder' /\ arming \subseteq arming'
      /\ \A i \in Jobs : i # j => deadline'[i] = deadline[i] /\ jobPeriod'[i] = jobPeriod[i]
      /\ j \in staleOrder' \/ deadline'[j] = deadline[j] \/ mode[j] # "ready"
      /\ j \in EdfJobs /\ jobPeriod'[j] > 0 => j \in arming'
  <2>1. /\ jobPeriod' = [jobPeriod EXCEPT ![j] = p] /\ jobPeriod' \in [Jobs -> JobPeriods \cup {0}]
        /\ jobPeriod'[j] = p /\ \A i \in Jobs : i # j => jobPeriod'[i] = jobPeriod[i]
    BY DEF JobInv, JobTypes
  <2>2. CASE j \in EdfJobs /\ p > 0
    <3>1. /\ deadline' \in [Jobs -> Nat] /\ \A i \in Jobs : i # j => deadline'[i] = deadline[i]
      BY <1>0, <2>2 DEF JobInv, JobTypes
    <3>2. /\ arming' = arming \cup {j} /\ arming \in SUBSET Jobs /\ staleOrder \in SUBSET Jobs
          /\ staleOrder' = IF mode[j] = "ready" THEN staleOrder \cup {j} ELSE staleOrder
      BY <2>2 DEF JobInv, JobTypes
    <3> QED
      BY <2>1, <3>1, <3>2
  <2>3. CASE ~(j \in EdfJobs /\ p > 0)
    <3>1. UNCHANGED <<deadline, arming, staleOrder>>
      BY <2>3
    <3> QED
      BY <2>1, <2>3, <3>1 DEF JobInv, JobTypes
  <2> QED
    BY <2>2, <2>3
<1>2. JobTypes'
  BY <1>1 DEF JobInv, JobTypes, relVars
<1>3. SleepersOK'
  BY SleepersFrame DEF JobInv, listVars
<1>4. EdfOK'
  <2>1. \A e \in ToSet(edfq) : e.job \in Jobs
    BY DEF JobInv, EdfOK, DeadlineAssumption
  <2>2. edfq' = edfq /\ mode' = mode
    BY DEF listVars
  <2>3. ASSUME NEW e \in ToSet(edfq) PROVE e.job \in staleOrder' \/ e.key = deadline'[e.job]
    <3>1. mode[e.job] = "ready" /\ (e.job \in staleOrder \/ e.key = deadline[e.job])
      BY DEF JobInv, EdfOK
    <3> QED
      BY <1>1, <2>1, <3>1
  <2> QED
    BY <2>2, <2>3 DEF JobInv, EdfOK
<1>5. WaitersOK'
  BY <1>1 DEF JobInv, WaitersOK, DeadlineAssumption
<1>6. WheelOK' /\ DueOK'
  BY WheelFrame DEF JobInv, DueOK, relVars
<1>7. ASSUME PeriodicOK PROVE PeriodicOK'
  <2>1. \A i \in EdfJobs : NotForgotten(i) => NotForgotten(i)'
    BY <1>1, RememberedFrame DEF relVars
  <2>2. \A i \in EdfJobs : i # j => mode'[i] = mode[i] /\ jobPeriod'[i] = jobPeriod[i]
    BY <1>1 DEF DeadlineAssumption
  <2>3. j \in EdfJobs /\ jobPeriod'[j] > 0 => NotForgotten(j)'
    BY <1>1 DEF NotForgotten
  <2> QED
    BY <1>7, <2>1, <2>2, <2>3, PeriodicFrame
<1> QED
  BY <1>2, <1>3, <1>4, <1>5, <1>6, <1>7 DEF JobInv

LEMMA SetDeadlineKeeps ==
    ASSUME DeadlineAssumption, JobInv, NEW j \in Jobs, NEW d \in Nat, SetDeadline(j, d)
    PROVE  JobInv' /\ (PeriodicOK => PeriodicOK')
<1> USE DEF SetDeadline, Elsewhere
<1>hand. InHand' = InHand
  BY DEF InHand
<1> USE <1>hand
<1>1. /\ deadline' \in [Jobs -> Nat] /\ deadline'[j] = d
      /\ \A i \in Jobs : i # j => deadline'[i] = deadline[i]
      /\ arming' \in SUBSET Jobs /\ arming \subseteq arming'
  BY DEF JobInv, JobTypes
<1>2. mode' = mode /\ staleOrder' \in SUBSET staleOrder
  BY DEF JobInv, JobTypes, AddReadyJob
<1>3. JobTypes'
  BY <1>1, <1>2 DEF JobInv, JobTypes, relVars
<1>4. SleepersOK'
  BY <1>2, SleepersFrame DEF JobInv
<1>5. EdfOK'
  <2>1. CASE mode[j] = "ready"
    BY <1>1, <2>1, BecomesReady DEF JobInv
  <2>2. CASE mode[j] # "ready"
    <3>1. \A e \in ToSet(edfq) : e.job \in Jobs /\ e.job # j
      BY <2>2 DEF JobInv, EdfOK, DeadlineAssumption
    <3> QED
      BY <1>1, <1>2, <2>2, <3>1 DEF JobInv, EdfOK
  <2> QED
    BY <2>1, <2>2
<1>6. WaitersOK'
  BY <1>2 DEF JobInv, WaitersOK
<1>7. WheelOK' /\ DueOK'
  BY WheelFrame DEF JobInv, DueOK, relVars
<1>8. ASSUME PeriodicOK PROVE PeriodicOK'
  <2>1. \A i \in EdfJobs : NotForgotten(i) => NotForgotten(i)'
    BY <1>1, RememberedFrame DEF relVars
  <2> QED
    BY <1>2, <1>8, <2>1, PeriodicFrame
<1> QED
  BY <1>3, <1>4, <1>5, <1>6, <1>7, <1>8 DEF JobInv

LEMMA ArmAfterCallKeeps ==
    ASSUME DeadlineAssumption, JobInv, NEW j \in Jobs, ArmAfterCall(j)
    PROVE  JobInv' /\ (PeriodicOK => PeriodicOK')
<1> USE DEF ArmAfterCall, Elsewhere
<1>hand. InHand' = InHand
  BY DEF InHand
<1> USE <1>hand
<1>1. /\ relWheel' \in [Slot -> Seq(RelEntries)] /\ when' \in [Jobs -> Nat] /\ WheelOK'
      /\ \A i \in Jobs : i # j /\ OnWheel(i) => OnWheel(i)'
      /\ j \in EdfJobs /\ jobPeriod[j] # 0 => OnWheel(j)'
  BY Armed DEF JobInv
<1>2. JobTypes'
  BY <1>1 DEF JobInv, JobTypes, listVars
<1>3. SleepersOK' /\ EdfOK'
  BY SleepersFrame, EdfFrame DEF JobInv, listVars
<1>4. WaitersOK' /\ DueOK'
  BY DEF JobInv, WaitersOK, DueOK
<1>5. ASSUME PeriodicOK PROVE PeriodicOK'
  <2>1. \A i \in EdfJobs : i # j /\ NotForgotten(i) => NotForgotten(i)'
    BY <1>1 DEF NotForgotten, DeadlineAssumption
  <2>2. j \in EdfJobs /\ jobPeriod[j] > 0 => NotForgotten(j)'
    BY <1>1 DEF NotForgotten, JobInv, JobTypes
  <2> QED
    BY <1>5, <2>1, <2>2, PeriodicFrame
<1> QED
  BY <1>1, <1>2, <1>3, <1>4, <1>5 DEF JobInv

-----------------------------------------------------------------------------
(* The tick.                                                               *)
LEMMA CountKeeps ==
    ASSUME DeadlineAssumption, JobInv, Count
    PROVE  JobInv' /\ (PeriodicOK => PeriodicOK')
<1> USE DEF Count
<1>hand. InHand' = InHand
  BY DEF InHand
<1> USE <1>hand
<1>0. ticks \in 0..MaxTicks /\ MaxTicks \in Nat
  BY DEF JobInv, JobTypes, DeadlineAssumption
<1>1. JobTypes'
  BY <1>0 DEF JobInv, JobTypes, relVars
<1>2. SleepersOK'
  <2>1. \A e \in ToSet(delayed) : mode[e.job] \in {"delay", "object"} /\ e.key > ticks /\ e.key \in Nat
    <3>1. \A e \in ToSet(delayed) : e \in KeyedJobs
      BY InSet DEF JobInv, SleepersOK, ListKept
    <3> QED
      BY <3>1 DEF JobInv, SleepersOK, KeyedJobs
  <2>2. \A e \in ToSet(delayed) : e.key >= ticks + 1
    BY <1>0, <2>1
  <2> QED
    BY <2>1, <2>2 DEF JobInv, SleepersOK, listVars
<1>3. EdfOK' /\ WaitersOK'
  BY EdfFrame DEF JobInv, WaitersOK, listVars
<1>4. WheelOK'
  <2>1. ASSUME NEW s \in Slot, NEW e \in ToSet(relWheel[s]) PROVE Timely(s, e)'
    <3>1. relWheel[s] \in Seq(RelEntries) /\ Timely(s, e) /\ relCursor \in Slot
      BY DEF JobInv, JobTypes, WheelOK
    <3>2. e.rounds \in Nat
      <4>1. e \in RelEntries
        BY <3>1, InSet
      <4> QED
        BY <4>1 DEF RelEntries
    <3>3. PICK n \in Nat : n = e.rounds
      BY <3>2
    <3>4. ReleaseTick(s, n) = ticks + Away(s, n, relCursor, Late) /\ Away(s, n, relCursor, Late) \in Int
      <4>1. ticks \in Nat /\ relCursor \in Slot /\ n \in Nat /\ s \in Slot
        BY <1>0, <3>1
      <4> HIDE DEF Count
      <4> QED
        BY <4>1, TickIsAway
    <3>5. PICK a, w : a = n * ReleaseSlots /\ w = (s - relCursor - 1) % ReleaseSlots
      OBVIOUS
    <3>6. a \in Int /\ w \in Int
      <4>1. ReleaseSlots \in Nat \ {0} /\ s - relCursor - 1 \in Int
        BY <3>1 DEF Slot, DeadlineAssumption
      <4>2. a \in Int
        BY <3>5, <4>1, Multiples
      <4> QED
        BY <3>5, <4>1, <4>2, Divided
    <3>7. ReleaseTick(s, n) = ticks + a + w + 1 /\ ReleaseTick(s, n)' = (ticks + 1) + a + w + 0
      BY <3>5 DEF ReleaseTick, relVars
    <3>8. ReleaseTick(s, n)' = ReleaseTick(s, n)
      BY <1>0, <3>6, <3>7
    <3> QED
      BY <3>1, <3>3, <3>8 DEF Timely, relVars
  <2> QED
    BY <2>1 DEF JobInv, WheelOK, relVars
<1>5. DueOK'
  BY DEF JobInv, DueOK
<1>6. ASSUME PeriodicOK PROVE PeriodicOK'
  <2>1. \A i \in EdfJobs : NotForgotten(i) => NotForgotten(i)'
    BY RememberedFrame DEF relVars
  <2> QED
    BY <1>6, <2>1, PeriodicFrame
<1> QED
  BY <1>1, <1>2, <1>3, <1>4, <1>5, <1>6 DEF JobInv

LEMMA TickEndsKeeps ==
    ASSUME DeadlineAssumption, JobInv, TickEnds
    PROVE  JobInv' /\ (PeriodicOK => PeriodicOK')
<1> USE DEF TickEnds
<1>hand. InHand' = InHand
  BY DEF InHand
<1> USE <1>hand
<1>1. JobTypes'
  BY DEF JobInv, JobTypes, relVars, listVars
<1>2. SleepersOK' /\ EdfOK' /\ WheelOK' /\ WaitersOK' /\ DueOK'
  BY SleepersFrame, EdfFrame, WheelFrame DEF JobInv, WaitersOK, DueOK, relVars, listVars
<1>3. ASSUME PeriodicOK PROVE PeriodicOK'
  <2>1. \A i \in EdfJobs : NotForgotten(i) => NotForgotten(i)'
    BY RememberedFrame DEF relVars
  <2> QED
    BY <1>3, <2>1, PeriodicFrame
<1> QED
  BY <1>1, <1>2, <1>3 DEF JobInv

(* The jobs due are those at the head and those behind it.                 *)
LEMMA HeadAndTail ==
    ASSUME NEW S, NEW s \in Seq(S), s # << >>
    PROVE  Head(s) \in S /\ Tail(s) \in Seq(S) /\ ToSet(s) \subseteq {Head(s)} \cup ToSet(Tail(s))
<1>1. Head(s) \in S /\ Tail(s) \in Seq(S) /\ Len(Tail(s)) = Len(s) - 1 /\ Len(s) \in Nat \ {0}
  OBVIOUS
<1>2. Head(s) = s[1] /\ \A i \in 1..(Len(s) - 1) : Tail(s)[i] = s[i + 1]
  OBVIOUS
<1>3. PICK t \in Seq(S) : t = Tail(s)
  BY <1>1, Zenon
<1>4. PICK n \in Nat : n = Len(s) /\ Len(t) = n - 1
  <2>1. Len(s) \in Nat
    BY <1>1
  <2> QED
    BY <1>1, <1>3, <2>1, Zenon
<1>5. ToSet(s) = {s[i] : i \in 1..n}
  BY <1>4 DEF ToSet
<1>6. ToSet(t) = {t[i] : i \in 1..(n - 1)}
  BY <1>4 DEF ToSet
<1>7. ASSUME NEW i \in 1..n PROVE s[i] \in {Head(s)} \cup ToSet(t)
  <2>1. CASE i = 1
    BY <1>2, <2>1
  <2>2. CASE i # 1
    <3>1. i - 1 \in 1..(n - 1) /\ (i - 1) + 1 = i
      BY <2>2
    <3>2. t[i - 1] = s[i]
      BY <1>2, <1>3, <1>4, <3>1
    <3> QED
      BY <1>6, <3>1, <3>2
  <2> QED
    BY <2>1, <2>2
<1>8. ToSet(s) \subseteq {Head(s)} \cup ToSet(t)
  BY <1>5, <1>7
<1> QED
  BY <1>1, <1>3, <1>8

LEMMA ReleaseBeginsKeeps ==
    ASSUME DeadlineAssumption, JobInv, ReleaseBegins
    PROVE  JobInv' /\ (PeriodicOK => PeriodicOK')
<1> USE DEF ReleaseBegins
<1>1. PICK j \in Jobs : j = Head(due)
  BY HeadAndTail DEF JobInv, JobTypes
<1>2. Tail(due) \in Seq(Jobs) /\ ToSet(due) \subseteq {j} \cup ToSet(Tail(due))
  BY <1>1, HeadAndTail DEF JobInv, JobTypes
<1>hand. InHand \subseteq InHand'
  BY DEF InHand
<1>3. CASE j \notin EdfJobs \/ jobPeriod[j] = 0
  <2>1. /\ due' = Tail(due)
        /\ UNCHANGED <<phase, mode, deadline, listVars, staleOrder, ticks, jobPeriod, relVars, arming, relinked>>
    BY <1>1, <1>3
  <2>2. JobTypes'
    BY <1>2, <2>1 DEF JobInv, JobTypes, relVars
  <2>3. SleepersOK' /\ EdfOK' /\ WheelOK' /\ WaitersOK' /\ DueOK'
    BY <1>hand, <2>1, SleepersFrame, EdfFrame, WheelFrame DEF JobInv, WaitersOK, DueOK, relVars, listVars
  <2>4. ASSUME PeriodicOK PROVE PeriodicOK'
    <3>1. \A i : OnWheel(i)' = OnWheel(i)
      BY <2>1 DEF OnWheel, relVars
    <3>2. \A i \in EdfJobs : i # j /\ NotForgotten(i) => NotForgotten(i)'
      BY <1>2, <2>1, <3>1 DEF NotForgotten
    <3>3. ~(j \in EdfJobs /\ jobPeriod[j] > 0)
      BY <1>3
    <3> QED
      BY <2>1, <2>4, <3>2, <3>3, PeriodicFrame
  <2> QED
    BY <2>2, <2>3, <2>4 DEF JobInv
<1>4. CASE j \in EdfJobs /\ jobPeriod[j] # 0
  <2>1. PICK d : d = ticks + jobPeriod[j]
    OBVIOUS
  <2>2. d \in Nat
    <3>1. ticks \in Nat
      BY DEF JobInv, JobTypes
    <3>2. jobPeriod[j] \in JobPeriods \cup {0} /\ JobPeriods \subseteq Nat
      BY DEF JobInv, JobTypes, DeadlineAssumption
    <3>3. PICK p \in Nat : p = jobPeriod[j]
      BY <3>2
    <3>4. ticks + p \in Nat
      BY <3>1
    <3> QED
      BY <2>1, <3>3, <3>4
  <2>3. /\ deadline' = [deadline EXCEPT ![j] = d] /\ due' = due
        /\ phase' \in {"unblock", "remove", "add", "rearm"}
        /\ staleOrder' = IF mode[j] = "ready" THEN staleOrder \cup {j} ELSE staleOrder
        /\ UNCHANGED <<mode, listVars, ticks, jobPeriod, relVars, arming, relinked>>
    BY <1>1, <1>4, <2>1 DEF Branch
  <2>4. /\ deadline' \in [Jobs -> Nat] /\ deadline'[j] = d
        /\ \A i \in Jobs : i # j => deadline'[i] = deadline[i]
    BY <2>2, <2>3 DEF JobInv, JobTypes
  <2>5. JobTypes'
    <3>1. staleOrder' \in SUBSET Jobs
      BY <2>3 DEF JobInv, JobTypes
    <3> QED
      BY <2>3, <2>4, <3>1 DEF JobInv, JobTypes, relVars
  <2>6. SleepersOK'
    BY <1>hand, <2>3, SleepersFrame DEF JobInv, listVars
  <2>7. EdfOK'
    <3>1. \A e \in ToSet(edfq) : e.job \in Jobs /\ mode[e.job] = "ready"
      BY DEF JobInv, EdfOK, DeadlineAssumption
    <3>2. \A e \in ToSet(edfq) : e.job \in staleOrder' \/ e.key = deadline'[e.job]
      BY <2>3, <2>4, <3>1 DEF JobInv, EdfOK
    <3> QED
      BY <1>hand, <2>3, <3>2 DEF JobInv, EdfOK, listVars
  <2>8. WaitersOK' /\ DueOK'
    BY <2>3 DEF JobInv, WaitersOK, DueOK
  <2>9. WheelOK'
    BY <2>3, WheelFrame DEF JobInv, relVars
  <2>10. ASSUME PeriodicOK PROVE PeriodicOK'
    <3>1. \A i \in EdfJobs : NotForgotten(i) => NotForgotten(i)'
      BY <2>3, RememberedFrame DEF relVars
    <3> QED
      BY <2>3, <2>10, <3>1, PeriodicFrame
  <2> QED
    BY <2>5, <2>6, <2>7, <2>8, <2>9, <2>10 DEF JobInv
<1> QED
  BY <1>3, <1>4

(* The steps of a release leave the wheel alone, and who is due.           *)
LEMMA WithinRelease ==
    ASSUME DeadlineAssumption, JobInv, JobTypes', SleepersOK', EdfOK',
           {phase, phase'} \subseteq {"unblock", "remove", "add", "rearm"},
           UNCHANGED <<ticks, due, jobPeriod, relVars, arming>>,
           \A i \in Jobs : mode'[i] \in {mode[i], "ready"} /\ (mode[i] = "free" => mode'[i] = "free")
    PROVE  JobInv' /\ (PeriodicOK => PeriodicOK')
<1>1. WaitersOK' /\ DueOK'
  BY DEF JobInv, WaitersOK, DueOK
<1>2. WheelOK'
  BY WheelFrame DEF JobInv, relVars
<1>3. ASSUME PeriodicOK PROVE PeriodicOK'
  <2>1. \A i \in EdfJobs : NotForgotten(i) => NotForgotten(i)'
    BY RememberedFrame DEF relVars
  <2> QED
    BY <1>3, <2>1, PeriodicFrame DEF DeadlineAssumption
<1> QED
  BY <1>1, <1>2, <1>3 DEF JobInv

LEMMA ReleaseUnblockKeeps ==
    ASSUME DeadlineAssumption, JobInv, ReleaseUnblock
    PROVE  JobInv' /\ (PeriodicOK => PeriodicOK')
<1> USE DEF ReleaseUnblock
<1>1. PICK j \in Jobs : j = Head(due)
  BY HeadAndTail DEF JobInv, JobTypes, DueOK
<1>2. JobTypes'
  BY DEF JobInv, JobTypes, relVars
<1>3. EdfOK'
  BY EdfFrame DEF JobInv, InHand
<1>4. SleepersOK'
  <2>1. CASE mode[j] \in {"delay", "object"}
    <3>1. delayed' = Without(delayed, j) /\ InHand = {} /\ InHand' = {j}
      BY <1>1, <2>1 DEF DelayedRemove, InHand
    <3>2. ListKept(delayed') /\ ToSet(delayed') = {e \in ToSet(delayed) : e.job # j}
      BY <3>1, WithoutIs DEF JobInv, SleepersOK, ListKept
    <3>3. \A i \in Jobs \ InHand' : mode[i] = "delay" => HasEntry(delayed', i)
      BY <3>1, <3>2 DEF JobInv, SleepersOK, HasEntry
    <3> QED
      BY <3>2, <3>3 DEF JobInv, SleepersOK
  <2>2. CASE mode[j] \notin {"delay", "object"}
    BY <1>1, <2>2, SleepersFrame DEF JobInv, InHand
  <2> QED
    BY <2>1, <2>2
<1> QED
  BY <1>2, <1>3, <1>4, WithinRelease

LEMMA ReleaseRemoveKeeps ==
    ASSUME DeadlineAssumption, JobInv, ReleaseRemove
    PROVE  JobInv' /\ (PeriodicOK => PeriodicOK')
<1> USE DEF ReleaseRemove
<1>1. PICK j \in Jobs : j = Head(due)
  BY HeadAndTail DEF JobInv, JobTypes, DueOK
<1>2. JobTypes'
  BY DEF JobInv, JobTypes, relVars
<1>3. SleepersOK'
  BY SleepersFrame DEF JobInv, InHand
<1>4. InHand = {} /\ InHand' = {j}
  BY <1>1 DEF InHand
<1>5. EdfOK'
  <2>1. CASE mode[j] = "ready"
    <3>1. ListKept(edfq') /\ ToSet(edfq') = {e \in ToSet(edfq) : e.job # j}
      BY <1>1, <2>1, WithoutIs DEF JobInv, EdfOK, ListKept
    <3>2. \A i \in EdfJobs \ InHand' : mode[i] = "ready" => HasEntry(edfq', i)
      BY <1>4, <3>1 DEF JobInv, EdfOK, HasEntry
    <3> QED
      BY <3>1, <3>2 DEF JobInv, EdfOK
  <2>2. CASE mode[j] # "ready"
    BY <1>1, <1>4, <2>2, EdfFrame DEF JobInv
  <2> QED
    BY <2>1, <2>2
<1> QED
  BY <1>2, <1>3, <1>5, WithinRelease

LEMMA ReleaseAddKeeps ==
    ASSUME DeadlineAssumption, JobInv, ReleaseAdd, ~relinked'
    PROVE  JobInv' /\ (PeriodicOK => PeriodicOK')
<1> USE DEF ReleaseAdd
<1>1. PICK j \in Jobs : j = Head(due)
  BY HeadAndTail DEF JobInv, JobTypes, DueOK
<1>2. InHand = {j} /\ InHand' = {}
  BY <1>1 DEF InHand
<1>3. CASE mode[j] = "free"
  <2>1. UNCHANGED <<mode, edfq, delayed, deadline, staleOrder, relinked>>
    BY <1>1, <1>3
  <2>2. JobTypes'
    BY <2>1 DEF JobInv, JobTypes, relVars
  <2>3. SleepersOK' /\ EdfOK'
    <3>1. mode[j] # "delay" /\ mode[j] # "ready"
      BY <1>3
    <3>2. SleepersOK'
      BY <1>2, <2>1, <3>1 DEF JobInv, SleepersOK
    <3>3. EdfOK'
      BY <1>2, <2>1, <3>1 DEF JobInv, EdfOK
    <3> QED
      BY <3>2, <3>3
  <2> QED
    BY <2>1, <2>2, <2>3, WithinRelease
<1>4. CASE mode[j] # "free"
  <2>1. /\ AddReadyJob(j, deadline[j]) /\ mode' = [mode EXCEPT ![j] = "ready"] /\ staleOrder' = staleOrder \ {j}
        /\ ~HasEntry(delayed, j) /\ delayed' = delayed /\ deadline' = deadline
    BY <1>1, <1>4 DEF AddReadyJob
  <2>2. \A i \in Jobs : mode'[i] = IF i = j THEN "ready" ELSE mode[i]
    BY <2>1 DEF JobInv, JobTypes
  <2>3. JobTypes'
    BY <2>1 DEF JobInv, JobTypes, Modes, relVars
  <2>4. SleepersOK'
    BY <1>2, <2>1, GetsUp DEF JobInv, Modes
  <2>5. EdfOK'
    <3>1. deadline \in [Jobs -> Nat] /\ deadline[j] \in Nat
      BY DEF JobInv, JobTypes
    <3> QED
      BY <1>2, <2>1, <3>1, BecomesReady DEF JobInv
  <2> QED
    BY <1>4, <2>2, <2>3, <2>4, <2>5, WithinRelease
<1> QED
  BY <1>3, <1>4

LEMMA RearmKeeps ==
    ASSUME DeadlineAssumption, JobInv, Rearm
    PROVE  JobInv' /\ (PeriodicOK => PeriodicOK')
<1> USE DEF Rearm
<1>hand. InHand' = InHand
  BY DEF InHand
<1> USE <1>hand
<1>0. due # << >> /\ due \in Seq(Jobs)
  BY DEF JobInv, JobTypes, DueOK
<1>1. PICK j \in Jobs : j = Head(due)
  BY <1>0, HeadAndTail
<1>2. Tail(due) \in Seq(Jobs) /\ ToSet(due) \subseteq {j} \cup ToSet(Tail(due))
  BY <1>0, <1>1, HeadAndTail
<1>3. /\ relWheel' \in [Slot -> Seq(RelEntries)] /\ when' \in [Jobs -> Nat] /\ WheelOK'
      /\ \A i \in Jobs : i # j /\ OnWheel(i) => OnWheel(i)'
      /\ j \in EdfJobs /\ jobPeriod[j] # 0 => OnWheel(j)'
  BY <1>1, Armed DEF JobInv
<1>4. JobTypes'
  BY <1>2, <1>3 DEF JobInv, JobTypes, listVars
<1>5. SleepersOK' /\ EdfOK'
  BY SleepersFrame, EdfFrame DEF JobInv, listVars
<1>6. WaitersOK' /\ DueOK'
  BY DEF JobInv, WaitersOK, DueOK
<1>7. ASSUME PeriodicOK PROVE PeriodicOK'
  <2>1. \A i \in EdfJobs : i # j /\ NotForgotten(i) => NotForgotten(i)'
    BY <1>2, <1>3 DEF NotForgotten, DeadlineAssumption
  <2>2. j \in EdfJobs /\ jobPeriod[j] > 0 => NotForgotten(j)'
    BY <1>3 DEF NotForgotten, JobInv, JobTypes
  <2> QED
    BY <1>7, <2>1, <2>2, PeriodicFrame
<1> QED
  BY <1>3, <1>4, <1>5, <1>6, <1>7 DEF JobInv

(* A list cut after its n-th entry.                                        *)
CutAt(list, n, up, rest) == up = SubSeq(list, 1, n) /\ rest = SubSeq(list, n + 1, Len(list))

LEMMA CutIs ==
    ASSUME NEW list, ListKept(list), NEW n \in 0..Len(list), NEW up, NEW rest, CutAt(list, n, up, rest)
    PROVE  /\ up \in Seq(KeyedJobs) /\ Len(up) = n /\ \A i \in 1..n : up[i] = list[i]
           /\ ListKept(rest)
           /\ \A e \in ToSet(rest) : \E i \in (n + 1)..Len(list) : e = list[i]
           /\ ToSet(list) \subseteq ToSet(up) \cup ToSet(rest) /\ ToSet(up) \subseteq ToSet(list)
           /\ \A a \in ToSet(up), b \in ToSet(rest) : a.job # b.job
<1>1. PICK m \in Nat : m = Len(list) /\ list \in Seq(KeyedJobs)
  BY DEF ListKept
<1>2. n \in 0..m /\ \A i \in 1..m : list[i] \in KeyedJobs
  BY <1>1
<1>3. up \in Seq(KeyedJobs) /\ Len(up) = n /\ \A i \in 1..n : up[i] = list[i]
  <2>1. \A i \in 1..n : list[i] \in KeyedJobs
    BY <1>2
  <2>2. /\ SubSeq(list, 1, n) \in Seq(KeyedJobs)
        /\ Len(SubSeq(list, 1, n)) = IF 1 <= n THEN n - 1 + 1 ELSE 0
        /\ \A i \in 1..(n - 1 + 1) : SubSeq(list, 1, n)[i] = list[1 + i - 1]
    BY <2>1, SubSeqProperties
  <2> QED
    BY <2>2 DEF CutAt
<1>4. rest \in Seq(KeyedJobs) /\ Len(rest) = m - n /\ \A i \in 1..(m - n) : rest[i] = list[n + i]
  <2>1. \A i \in (n + 1)..m : list[i] \in KeyedJobs
    BY <1>2
  <2>2. /\ SubSeq(list, n + 1, m) \in Seq(KeyedJobs)
        /\ Len(SubSeq(list, n + 1, m)) = IF n + 1 <= m THEN m - (n + 1) + 1 ELSE 0
        /\ \A i \in 1..(m - (n + 1) + 1) : SubSeq(list, n + 1, m)[i] = list[n + 1 + i - 1]
    BY <2>1, SubSeqProperties
  <2>3. rest = SubSeq(list, n + 1, m)
    BY <1>1 DEF CutAt
  <2>4. IF n + 1 <= m THEN m - (n + 1) + 1 = m - n ELSE m - n = 0
    BY <1>2
  <2>5. \A i \in 1..(m - n) : i \in 1..(m - (n + 1) + 1) /\ n + 1 + i - 1 = n + i
    BY <1>2
  <2> QED
    BY <2>2, <2>3, <2>4, <2>5
<1>5. /\ ToSet(up) = {up[i] : i \in 1..n} /\ ToSet(rest) = {rest[i] : i \in 1..(m - n)}
      /\ ToSet(list) = {list[i] : i \in 1..m}
  <2>1. ToSet(up) = {up[i] : i \in 1..n}
    BY <1>3 DEF ToSet
  <2>2. ToSet(rest) = {rest[i] : i \in 1..(m - n)}
    BY <1>4 DEF ToSet
  <2>3. ToSet(list) = {list[i] : i \in 1..m}
    BY <1>1 DEF ToSet
  <2> QED
    BY <2>1, <2>2, <2>3
<1>6. \A i \in 1..(m - n) : n + i \in (n + 1)..m /\ n + i \in 1..m
  BY <1>2
<1>7. /\ \A i, k \in 1..m : list[i].job = list[k].job => i = k
      /\ \A i, k \in 1..m : i <= k => list[i].key <= list[k].key
  BY <1>1 DEF ListKept, OneEach, Sorted
<1>8. ListKept(rest)
  <2>1. \A i, k \in 1..(m - n) : rest[i].job = rest[k].job => i = k
    <3> SUFFICES ASSUME NEW i \in 1..(m - n), NEW k \in 1..(m - n), rest[i].job = rest[k].job PROVE i = k
      OBVIOUS
    <3>1. list[n + i].job = list[n + k].job
      BY <1>4
    <3>2. n + i = n + k
      BY <1>6, <1>7, <3>1
    <3> QED
      BY <3>2
  <2>2. \A i, k \in 1..(m - n) : i <= k => rest[i].key <= rest[k].key
    <3> SUFFICES ASSUME NEW i \in 1..(m - n), NEW k \in 1..(m - n), i <= k PROVE rest[i].key <= rest[k].key
      OBVIOUS
    <3>1. n + i <= n + k
      OBVIOUS
    <3>2. list[n + i].key <= list[n + k].key
      BY <1>6, <1>7, <3>1
    <3> QED
      BY <1>4, <3>2
  <2> QED
    BY <1>4, <2>1, <2>2 DEF ListKept, OneEach, Sorted
<1>9. \A e \in ToSet(rest) : \E i \in (n + 1)..m : e = list[i]
  BY <1>4, <1>5, <1>6
<1>10. ToSet(list) \subseteq ToSet(up) \cup ToSet(rest)
  <2> SUFFICES ASSUME NEW i \in 1..m PROVE list[i] \in ToSet(up) \cup ToSet(rest)
    BY <1>5
  <2>1. CASE i <= n
    <3>1. i \in 1..n
      BY <2>1
    <3> QED
      BY <1>3, <1>5, <3>1
  <2>2. CASE ~(i <= n)
    <3>1. i - n \in 1..(m - n) /\ n + (i - n) = i
      BY <1>2, <2>2
    <3>2. rest[i - n] = list[i]
      BY <1>4, <3>1
    <3> QED
      BY <1>5, <3>1, <3>2
  <2> QED
    BY <2>1, <2>2
<1>11. ToSet(up) \subseteq ToSet(list)
  <2>1. \A i \in 1..n : i \in 1..m
    BY <1>2
  <2> QED
    BY <1>3, <1>5, <2>1
<1>12. \A a \in ToSet(up), b \in ToSet(rest) : a.job # b.job
  <2> SUFFICES ASSUME NEW a \in ToSet(up), NEW b \in ToSet(rest), a.job = b.job PROVE FALSE
    OBVIOUS
  <2>0. PICK i \in 1..n, k \in 1..(m - n) : a = up[i] /\ b = rest[k]
    BY <1>5
  <2>1. i \in 1..m /\ n + k \in 1..m /\ i # n + k
    BY <1>2
  <2> QED
    BY <1>3, <1>4, <1>7, <2>0, <2>1
<1> QED
  BY <1>1, <1>3, <1>8, <1>9, <1>10, <1>11, <1>12

(* Some jobs of a list, one after the other, put in the EDF list.          *)
KeptLists == {l \in Seq(KeyedJobs) : ListKept(l)}
ReadiedStep(f, up, those, i) ==
    IF up[i].job \in those THEN EdfInsert(f[i - 1], up[i].job, deadline[up[i].job]) ELSE f[i - 1]
Readies(f, up, n, those) == f = [i \in 0..n |-> IF i = 0 THEN edfq ELSE ReadiedStep(f, up, those, i)]

LEMMA ReadiesExist ==
    ASSUME JobTypes, EdfOK, NEW n \in Nat, NEW up \in Seq(KeyedJobs), Len(up) = n, NEW those \in SUBSET Jobs
    PROVE  \E f : Readies(f, up, n, those)
<1> DEFINE step == [x \in (1..n) \X KeptLists |->
              IF up[x[1]].job \in those THEN EdfInsert(x[2], up[x[1]].job, deadline[up[x[1]].job]) ELSE x[2]]
<1>1. step \in [(1..n) \X KeptLists -> KeptLists]
  <2> SUFFICES ASSUME NEW i \in 1..n, NEW l \in KeptLists
               PROVE  (IF up[i].job \in those THEN EdfInsert(l, up[i].job, deadline[up[i].job]) ELSE l) \in KeptLists
    OBVIOUS
  <2>1. CASE up[i].job \notin those
    BY <2>1
  <2>2. CASE up[i].job \in those
    <3>1. PICK j \in Jobs, d \in Nat : j = up[i].job /\ d = deadline[j]
      BY <2>2 DEF JobTypes
    <3>2. Inserted(l, EdfInsert(l, j, d), j, d)
      BY EdfInsertIs DEF KeptLists
    <3> QED
      BY <2>2, <3>1, <3>2 DEF Inserted, KeptLists, ListKept
  <2> QED
    BY <2>1, <2>2
<1>2. edfq \in KeptLists
  BY DEF EdfOK, KeptLists, ListKept
<1> HIDE DEF step
<1>3. PICK f \in [0..n -> KeptLists] : StepsOf(f, n, edfq, step)
  BY <1>1, <1>2, StepsExist
<1>4. \A i \in 1..n : f[i] = ReadiedStep(f, up, those, i)
  <2> SUFFICES ASSUME NEW i \in 1..n PROVE f[i] = ReadiedStep(f, up, those, i)
    OBVIOUS
  <2>1. f[i - 1] \in KeptLists
    <3>1. i - 1 \in 0..n
      OBVIOUS
    <3> QED
      BY <3>1
  <2>2. f[i] = step[<<i, f[i - 1]>>]
    BY <1>3 DEF StepsOf
  <2> QED
    BY <2>1, <2>2 DEF step, ReadiedStep
<1>5. Readies(f, up, n, those)
  <2>1. f[0] = edfq /\ \A i \in 0..n : i = 0 \/ i \in 1..n
    BY <1>3 DEF StepsOf
  <2>2. \A i \in 0..n : f[i] = IF i = 0 THEN edfq ELSE ReadiedStep(f, up, those, i)
    BY <1>4, <2>1
  <2> QED
    BY <2>2 DEF Readies
<1> QED
  BY <1>5

(* What the list then holds.                                               *)
Readied(l, up, those, i) ==
    /\ ListKept(l)
    /\ \A e \in ToSet(l) : e \in ToSet(edfq) \/ (e.job \in those /\ e.key = deadline[e.job])
    /\ \A e \in ToSet(edfq) : \E x \in ToSet(l) : x.job = e.job
    /\ \A k \in 1..i : up[k].job \in those => \E x \in ToSet(l) : x.job = up[k].job

LEMMA ReadiesIs ==
    ASSUME JobTypes, EdfOK, NEW n \in Nat, NEW up \in Seq(KeyedJobs), Len(up) = n, NEW those \in SUBSET Jobs,
           NEW f, Readies(f, up, n, those)
    PROVE  Readied(f[n], up, those, n)
<1> DEFINE P == {i \in 0..n : Readied(f[i], up, those, i)}
<1>1. 0 \in P
  <2>1. f[0] = edfq /\ 1..0 = {}
    BY DEF Readies
  <2> QED
    BY <2>1 DEF Readied, EdfOK
<1>2. ASSUME NEW i \in 0..n, i # n, i \in P PROVE i + 1 \in P
  <2>1. i + 1 \in 1..n /\ i + 1 \in 0..n /\ (i + 1) - 1 = i
    BY <1>2
  <2>2. f[i + 1] = IF up[i + 1].job \in those THEN EdfInsert(f[i], up[i + 1].job, deadline[up[i + 1].job]) ELSE f[i]
    <3>1. PICK m : m = i + 1 /\ m \in 0..n /\ m # 0 /\ m - 1 = i
      BY <2>1
    <3>2. f[m] = ReadiedStep(f, up, those, m)
      BY <3>1 DEF Readies
    <3> QED
      BY <3>1, <3>2 DEF ReadiedStep
  <2>3. Readied(f[i], up, those, i)
    BY <1>2
  <2>4. \A k \in 1..(i + 1) : k \in 1..i \/ k = i + 1
    OBVIOUS
  <2>5. CASE up[i + 1].job \notin those
    BY <2>1, <2>2, <2>3, <2>4, <2>5 DEF Readied
  <2>6. CASE up[i + 1].job \in those
    <3>1. PICK j \in Jobs, d \in Nat : j = up[i + 1].job /\ d = deadline[j]
      BY <2>6 DEF JobTypes
    <3>2. PICK l, r : l = f[i] /\ r = f[i + 1]
      OBVIOUS
    <3>3. Inserted(l, r, j, d)
      <4>1. r = EdfInsert(l, j, d) /\ ListKept(l)
        BY <2>2, <2>3, <2>6, <3>1, <3>2 DEF Readied
      <4> QED
        BY <4>1, EdfInsertIs
    <3>4. ListKept(r) /\ ToSet(r) = {e \in ToSet(l) : e.job # j} \cup {[job |-> j, key |-> d]}
      BY <3>3 DEF Inserted
    <3>5. \A e \in ToSet(r) : e \in ToSet(edfq) \/ (e.job \in those /\ e.key = deadline[e.job])
      BY <2>3, <2>6, <3>1, <3>2, <3>4 DEF Readied
    <3>6. \E x \in ToSet(r) : x.job = j
      <4>1. [job |-> j, key |-> d] \in ToSet(r) /\ [job |-> j, key |-> d].job = j
        BY <3>4
      <4> QED
        BY <4>1, Zenon
    <3>7. ASSUME NEW e \in ToSet(l) PROVE \E x \in ToSet(r) : x.job = e.job
      BY <3>4, <3>6
    <3>8. \A e \in ToSet(edfq) : \E x \in ToSet(r) : x.job = e.job
      <4> SUFFICES ASSUME NEW e \in ToSet(edfq) PROVE \E x \in ToSet(r) : x.job = e.job
        OBVIOUS
      <4>1. PICK y \in ToSet(l) : y.job = e.job
        BY <2>3, <3>2 DEF Readied
      <4> QED
        BY <3>7, <4>1
    <3>9. \A k \in 1..(i + 1) : up[k].job \in those => \E x \in ToSet(r) : x.job = up[k].job
      <4> SUFFICES ASSUME NEW k \in 1..(i + 1), up[k].job \in those PROVE \E x \in ToSet(r) : x.job = up[k].job
        OBVIOUS
      <4>1. CASE k = i + 1
        BY <3>1, <3>6, <4>1
      <4>2. CASE k \in 1..i
        <5>1. PICK y \in ToSet(l) : y.job = up[k].job
          BY <2>3, <3>2, <4>2 DEF Readied
        <5> QED
          BY <3>7, <5>1
      <4> QED
        BY <2>4, <4>1, <4>2
    <3>10. Readied(r, up, those, i + 1)
      BY <3>4, <3>5, <3>8, <3>9, Zenon DEF Readied
    <3> QED
      BY <2>1, <3>2, <3>10
  <2> QED
    BY <2>5, <2>6
<1> HIDE DEF P
<1>3. \A i \in 0..n : i \in P
  BY <1>1, <1>2, UpTo
<1>4. n \in P
  BY <1>3
<1> QED
  BY <1>4 DEF P

LEMMA WakeSleepersKeeps ==
    ASSUME DeadlineAssumption, JobInv, WakeSleepers
    PROVE  JobInv' /\ (PeriodicOK => PeriodicOK')
<1> DEFINE stop == SelectInSeq(delayed, LAMBDA e : ~Overdue(e))
           n == IF stop = 0 THEN Len(delayed) ELSE stop - 1
           up == SubSeq(delayed, 1, n)
           rest == SubSeq(delayed, n + 1, Len(delayed))
           woken == {e.job : e \in {x \in ToSet(up) : mode[x.job] \in {"delay", "object"}}}
           readied[i \in 0..Len(up)] ==
               IF i = 0 THEN edfq
               ELSE IF up[i].job \in woken \cap EdfJobs
                    THEN EdfInsert(readied[i - 1], up[i].job, deadline[up[i].job])
                    ELSE readied[i - 1]
<1>1. /\ phase = "counted" /\ phase' = "woken" /\ delayed' = rest /\ edfq' = readied[n]
      /\ mode' = [j \in Jobs |-> IF j \in woken THEN "ready" ELSE mode[j]]
      /\ staleOrder' = staleOrder \ woken
      /\ UNCHANGED <<ticks, due, deadline, jobPeriod, relVars, arming, relinked>>
  BY Zenon DEF WakeSleepers
<1>2. /\ JobTypes /\ SleepersOK /\ EdfOK /\ WaitersOK /\ WheelOK /\ DueOK /\ ListKept(delayed)
      /\ ticks \in Nat
  BY DEF JobInv, SleepersOK, JobTypes
<1>3. PICK m \in Nat : m = Len(delayed)
  BY <1>2 DEF ListKept
<1>4. \A i \in 1..m : n < i => delayed[i].key > ticks
  <2> DEFINE I == {i \in 1..m : ~(delayed[i].key <= ticks)}
  <2>1. stop = IF I # {} THEN Min(I) ELSE 0
    BY <1>3 DEF SelectInSeq, Overdue
  <2>2. I \in SUBSET (Nat \ {0})
    OBVIOUS
  <2>3. (stop = 0 <=> I = {}) /\ (stop # 0 => stop \in I /\ \A i \in I : stop <= i)
    <3> HIDE DEF I, stop
    <3> QED
      BY <2>1, <2>2, FoundFirst
  <2> HIDE DEF stop
  <2> SUFFICES ASSUME NEW i \in 1..m, n < i PROVE delayed[i].key > ticks
    OBVIOUS
  <2>4. stop # 0 /\ stop \in 1..m /\ stop <= i /\ ~(delayed[stop].key <= ticks)
    BY <1>3, <2>3
  <2>5. delayed[stop].key <= delayed[i].key /\ delayed[i].key \in Nat /\ delayed[stop].key \in Nat
    BY <1>2, <1>3, <2>4, KeptInOrder
  <2> QED
    BY <1>2, <2>4, <2>5
<1>5. n \in 0..m
  <2> DEFINE I == {i \in 1..m : ~(delayed[i].key <= ticks)}
  <2>1. stop = IF I # {} THEN Min(I) ELSE 0
    BY <1>3 DEF SelectInSeq, Overdue
  <2>2. I \in SUBSET (Nat \ {0})
    OBVIOUS
  <2>3. stop # 0 => stop \in I
    <3> HIDE DEF I, stop
    <3> QED
      BY <2>1, <2>2, FoundFirst
  <2> HIDE DEF stop
  <2> QED
    BY <1>3, <2>3
<1> HIDE DEF stop, n
<1>6. CutAt(delayed, n, up, rest)
  BY DEF CutAt
<1> HIDE DEF up, rest
<1>7. /\ up \in Seq(KeyedJobs) /\ Len(up) = n /\ ListKept(rest)
      /\ \A e \in ToSet(rest) : \E i \in (n + 1)..m : e = delayed[i]
      /\ ToSet(delayed) \subseteq ToSet(up) \cup ToSet(rest) /\ ToSet(up) \subseteq ToSet(delayed)
      /\ \A a \in ToSet(up), b \in ToSet(rest) : a.job # b.job
  BY <1>2, <1>3, <1>5, <1>6, CutIs
<1>8. \A e \in ToSet(delayed) : e.job \in Jobs /\ mode[e.job] \in {"delay", "object"}
  <2>1. \A e \in ToSet(delayed) : e \in KeyedJobs
    BY <1>2, InSet DEF ListKept
  <2> QED
    BY <1>2, <2>1 DEF KeyedJobs, SleepersOK
<1>9. \A j : j \in woken <=> \E e \in ToSet(up) : e.job = j
  BY <1>7, <1>8
<1>10. \A j \in woken : j \in Jobs /\ mode[j] \in {"delay", "object"}
  BY <1>7, <1>8, <1>9
<1>11. PICK those : those = woken \cap EdfJobs
  OBVIOUS
<1>12. Readies(readied, up, n, those)
  <2> HIDE DEF woken
  <2>1. those \in SUBSET Jobs /\ n \in Nat
    BY <1>5, <1>10, <1>11
  <2>2. PICK f : Readies(f, up, n, those)
    BY <1>2, <1>7, <2>1, ReadiesExist
  <2>3. f = [i \in 0..Len(up) |->
               IF i = 0 THEN edfq
               ELSE IF up[i].job \in woken \cap EdfJobs
                    THEN EdfInsert(f[i - 1], up[i].job, deadline[up[i].job])
                    ELSE f[i - 1]]
    BY <1>7, <1>11, <2>2, Zenon DEF Readies, ReadiedStep
  <2>4. readied = [i \in 0..Len(up) |->
               IF i = 0 THEN edfq
               ELSE IF up[i].job \in woken \cap EdfJobs
                    THEN EdfInsert(readied[i - 1], up[i].job, deadline[up[i].job])
                    ELSE readied[i - 1]]
    BY <2>3, Zenon
  <2> HIDE DEF readied
  <2> QED
    BY <1>7, <1>11, <2>4, Zenon DEF Readies, ReadiedStep
<1> HIDE DEF readied, woken
<1>13. Readied(edfq', up, those, n)
  <2>1. those \in SUBSET Jobs /\ n \in Nat
    BY <1>5, <1>10, <1>11
  <2>2. Readied(readied[n], up, those, n)
    BY <1>2, <1>7, <1>12, <2>1, ReadiesIs
  <2> QED
    BY <1>1, <2>2
<1>14. \A j \in Jobs : mode'[j] = IF j \in woken THEN "ready" ELSE mode[j]
  BY <1>1
<1>15. JobTypes'
  <2>1. mode' \in [Jobs -> Modes] /\ phase' \in {"idle", "woken"}
    BY <1>1, <1>2 DEF JobTypes, Modes
  <2> QED
    BY <1>1, <1>2, <2>1 DEF JobTypes, relVars
<1>hand. InHand = {} /\ InHand' = {}
  BY <1>1 DEF InHand
<1>16. SleepersOK'
  <2>1. \A e \in ToSet(rest) : mode'[e.job] \in {"delay", "object"} /\ e.key > ticks /\ e.key >= ticks
    <3> SUFFICES ASSUME NEW e \in ToSet(rest)
                 PROVE  mode'[e.job] \in {"delay", "object"} /\ e.key > ticks /\ e.key >= ticks
      OBVIOUS
    <3>1. PICK i \in (n + 1)..m : e = delayed[i]
      BY <1>7
    <3>2. i \in 1..m /\ n < i
      BY <1>5, <3>1
    <3>3. e \in ToSet(delayed) /\ e.key \in Nat
      <4>1. delayed \in Seq(KeyedJobs)
        BY <1>2 DEF ListKept
      <4>2. delayed[i].key \in Nat
        BY <1>2, <1>3, <3>2, KeptInOrder
      <4> QED
        BY <1>3, <3>1, <3>2, <4>1, <4>2, InSet
    <3>4. e.job \notin woken
      BY <1>7, <1>9
    <3>5. mode'[e.job] \in {"delay", "object"}
      BY <1>8, <1>14, <3>3, <3>4
    <3>6. e.key > ticks /\ e.key >= ticks
      BY <1>2, <1>4, <3>1, <3>2, <3>3
    <3> QED
      BY <3>5, <3>6
  <2>2. ASSUME NEW j \in Jobs, mode'[j] = "delay" PROVE \E e \in ToSet(rest) : e.job = j
    <3>1. j \notin woken /\ mode[j] = "delay"
      BY <1>14, <2>2
    <3>2. PICK e \in ToSet(delayed) : e.job = j
      BY <1>2, <1>hand, <3>1 DEF SleepersOK, HasEntry
    <3> QED
      BY <1>7, <1>9, <3>1, <3>2
  <2> QED
    BY <1>1, <1>7, <2>1, <2>2 DEF SleepersOK, HasEntry
<1>17. EdfOK'
  <2>1. \A e \in ToSet(edfq) : e.job \in EdfJobs /\ e.job \in Jobs /\ mode[e.job] = "ready" /\ e.job \notin woken
    BY <1>2, <1>10 DEF EdfOK, DeadlineAssumption
  <2>2. ASSUME NEW e \in ToSet(edfq')
        PROVE  /\ e.job \in EdfJobs /\ mode'[e.job] = "ready"
               /\ e.job \in staleOrder' \/ e.key = deadline'[e.job]
    <3>1. CASE e \in ToSet(edfq)
      BY <1>1, <1>2, <1>14, <2>1, <3>1 DEF EdfOK
    <3>2. CASE e.job \in those /\ e.key = deadline[e.job]
      BY <1>1, <1>10, <1>11, <1>14, <3>2
    <3> QED
      BY <1>13, <3>1, <3>2 DEF Readied
  <2>3. ASSUME NEW i \in EdfJobs, mode'[i] = "ready" PROVE \E e \in ToSet(edfq') : e.job = i
    <3>1. i \in Jobs
      BY DEF DeadlineAssumption
    <3>2. CASE i \in woken
      <4>1. PICK e \in ToSet(up) : e.job = i
        BY <1>9, <3>2
      <4>2. PICK k \in 1..n : e = up[k]
        BY <1>7, InSet
      <4> QED
        BY <1>11, <1>13, <3>2, <4>1, <4>2 DEF Readied
    <3>3. CASE i \notin woken
      <4>1. PICK e \in ToSet(edfq) : e.job = i
        BY <1>2, <1>14, <1>hand, <2>3, <3>1, <3>3 DEF EdfOK, HasEntry
      <4>2. PICK x \in ToSet(edfq') : x.job = e.job
        BY <1>13 DEF Readied
      <4> QED
        BY <4>1, <4>2
    <3> QED
      BY <3>2, <3>3
  <2> QED
    BY <1>13, <2>2, <2>3 DEF EdfOK, HasEntry, Readied
<1>18. WaitersOK'
  BY <1>1, <1>2, <1>14 DEF WaitersOK
<1>19. WheelOK' /\ DueOK'
  BY <1>1, <1>2, WheelFrame DEF DueOK, relVars
<1>20. ASSUME PeriodicOK PROVE PeriodicOK'
  <2>1. \A i \in EdfJobs : NotForgotten(i) => NotForgotten(i)'
    BY <1>1, RememberedFrame DEF relVars
  <2>2. \A i \in Jobs : mode'[i] # "free" => mode[i] # "free"
    BY <1>10, <1>14
  <2> QED
    BY <1>1, <1>20, <2>1, <2>2, PeriodicFrame DEF DeadlineAssumption
<1> QED
  BY <1>15, <1>16, <1>17, <1>18, <1>19, <1>20 DEF JobInv

(* The cursor at the next slot: an entry there has one turn less to go,    *)
(* and all are as far from their releases as before.                       *)
LEMMA CursorMoves ==
    ASSUME DeadlineAssumption, relCursor \in Slot, ticks \in Nat, phase = "woken", phase' = "release",
           relCursor' = (relCursor + 1) % ReleaseSlots, ticks' = ticks
    PROVE  /\ relCursor' \in Slot
           /\ \A s \in Slot, n \in Nat :
                 /\ s # relCursor' => ReleaseTick(s, n)' = ReleaseTick(s, n)
                 /\ s = relCursor' /\ n # 0 => ReleaseTick(s, n - 1)' = ReleaseTick(s, n)
<1>1. PICK m \in Nat \ {0} : m = ReleaseSlots /\ Slot = 0..(m - 1)
  BY DEF DeadlineAssumption, Slot
<1>2. PICK c \in 0..(m - 1), t \in 0..(m - 1) : /\ c = relCursor /\ t = relCursor'
                                                /\ t = IF c = m - 1 THEN 0 ELSE c + 1
  <2>1. PICK c \in 0..(m - 1) : c = relCursor
    BY <1>1
  <2>2. (c + 1) % m = IF c = m - 1 THEN 0 ELSE c + 1
    BY NextSlot
  <2> QED
    BY <1>1, <2>1, <2>2
<1>3. ASSUME NEW s \in Slot, NEW n \in Nat
      PROVE  /\ s # relCursor' => ReleaseTick(s, n)' = ReleaseTick(s, n)
             /\ s = relCursor' /\ n # 0 => ReleaseTick(s, n - 1)' = ReleaseTick(s, n)
  <2>1. PICK a \in Int : a = n * m
    BY Multiples
  <2>2. PICK b \in Int : b = (n - 1) * m
    BY Multiples
  <2>3. b + m = a
    BY <2>1, <2>2
  <2>4. PICK v \in Int : v = (s - c - 1) % m /\ v = IF s > c THEN s - c - 1 ELSE s - c - 1 + m
    <3>1. (s - c - 1) % m = IF s > c THEN s - c - 1 ELSE s - c - 1 + m
      BY <1>1, Distance
    <3>2. s \in Int
      BY <1>1
    <3>3. (IF s > c THEN s - c - 1 ELSE s - c - 1 + m) \in Int
      BY <3>2
    <3> QED
      BY <3>1, <3>3
  <2>5. PICK w \in Int : w = (s - t - 1) % m /\ w = IF s > t THEN s - t - 1 ELSE s - t - 1 + m
    <3>1. (s - t - 1) % m = IF s > t THEN s - t - 1 ELSE s - t - 1 + m
      BY <1>1, Distance
    <3>2. s \in Int
      BY <1>1
    <3>3. (IF s > t THEN s - t - 1 ELSE s - t - 1 + m) \in Int
      BY <3>2
    <3> QED
      BY <3>1, <3>3
  <2>6. /\ ReleaseTick(s, n) = ticks + a + v + 0 /\ ReleaseTick(s, n)' = ticks + a + w + 1
        /\ ReleaseTick(s, n - 1)' = ticks + b + w + 1
    BY <1>1, <1>2, <2>1, <2>2, <2>4, <2>5 DEF ReleaseTick
  <2>7. /\ s # t => v = w + 1
        /\ s = t => v = 0 /\ w = m - 1
    BY <1>1, <1>2, <2>4, <2>5
  <2>8. s # relCursor' => ReleaseTick(s, n)' = ReleaseTick(s, n)
    <3> SUFFICES ASSUME s # t PROVE ticks + a + w + 1 = ticks + a + v + 0
      BY <1>2, <2>6
    <3> QED
      BY <2>7
  <2>9. s = relCursor' => ReleaseTick(s, n - 1)' = ReleaseTick(s, n)
    <3> SUFFICES ASSUME s = t PROVE ticks + b + w + 1 = ticks + a + v + 0
      BY <1>2, <2>6
    <3> QED
      BY <2>3, <2>7
  <2> QED
    BY <2>8, <2>9
<1> QED
  BY <1>1, <1>2, <1>3

LEMMA TurnLess ==
    ASSUME NEW e \in RelEntries, e.rounds # 0
    PROVE  /\ [e EXCEPT !.rounds = @ - 1] \in RelEntries
           /\ [e EXCEPT !.rounds = @ - 1].job = e.job /\ [e EXCEPT !.rounds = @ - 1].rounds = e.rounds - 1
<1>1. PICK j \in Jobs, n \in Nat : e = [job |-> j, rounds |-> n] /\ n # 0
  BY DEF RelEntries
<1>2. [e EXCEPT !.rounds = @ - 1] = [job |-> j, rounds |-> n - 1]
  BY <1>1
<1>3. n - 1 \in Nat
  BY <1>1
<1>4. [job |-> j, rounds |-> n - 1] \in RelEntries
  BY <1>3 DEF RelEntries
<1> QED
  BY <1>1, <1>2, <1>4

(* The entries of the slot that stay, with a turn less to go.              *)
LaterStep(f, here, i) ==
    IF here[i].rounds = 0 THEN f[i - 1] ELSE Append(f[i - 1], [here[i] EXCEPT !.rounds = @ - 1])
Laters(f, here, n) == f = [i \in 0..n |-> IF i = 0 THEN << >> ELSE LaterStep(f, here, i)]

LEMMA LatersExist ==
    ASSUME NEW here \in Seq(RelEntries), NEW n, n = Len(here)
    PROVE  \E f : Laters(f, here, n)
<1> DEFINE S == Seq(RelEntries)
           step == [x \in (1..n) \X S |-> IF here[x[1]].rounds = 0 THEN x[2]
                                          ELSE Append(x[2], [here[x[1]] EXCEPT !.rounds = @ - 1])]
<1>1. step \in [(1..n) \X S -> S]
  <2> SUFFICES ASSUME NEW i \in 1..n, NEW l \in S
               PROVE  (IF here[i].rounds = 0 THEN l ELSE Append(l, [here[i] EXCEPT !.rounds = @ - 1])) \in S
    OBVIOUS
  <2>1. CASE here[i].rounds = 0
    BY <2>1
  <2>2. CASE here[i].rounds # 0
    <3>1. PICK e \in RelEntries : e = here[i] /\ e.rounds # 0
      BY <2>2
    <3>2. [e EXCEPT !.rounds = @ - 1] \in RelEntries
      BY <3>1, TurnLess
    <3>3. Append(l, [e EXCEPT !.rounds = @ - 1]) \in S
      BY <3>2
    <3> QED
      BY <2>2, <3>1, <3>3
  <2> QED
    BY <2>1, <2>2
<1>2. << >> \in S /\ n \in Nat
  OBVIOUS
<1> HIDE DEF step, S
<1>3. PICK f \in [0..n -> S] : StepsOf(f, n, << >>, step)
  BY <1>1, <1>2, StepsExist
<1>4. \A i \in 1..n : f[i] = LaterStep(f, here, i)
  <2> SUFFICES ASSUME NEW i \in 1..n PROVE f[i] = LaterStep(f, here, i)
    OBVIOUS
  <2>1. f[i - 1] \in S
    <3>1. i - 1 \in 0..n
      BY <1>2
    <3> QED
      BY <3>1
  <2>2. f[i] = step[<<i, f[i - 1]>>]
    BY <1>3 DEF StepsOf
  <2> QED
    BY <2>1, <2>2 DEF step, LaterStep
<1>5. Laters(f, here, n)
  <2>1. f[0] = << >> /\ \A i \in 0..n : i = 0 \/ i \in 1..n
    BY <1>2, <1>3 DEF StepsOf
  <2>2. \A i \in 0..n : f[i] = IF i = 0 THEN << >> ELSE LaterStep(f, here, i)
    BY <1>4, <2>1
  <2> QED
    BY <2>2 DEF Laters
<1> QED
  BY <1>5

Delayed(l, here, i) ==
    /\ l \in Seq(RelEntries) /\ OneEach(l)
    /\ \A x \in ToSet(l) : \E k \in 1..i : /\ here[k].rounds # 0 /\ x.job = here[k].job
                                           /\ x.rounds = here[k].rounds - 1
    /\ \A k \in 1..i : here[k].rounds # 0 => \E x \in ToSet(l) : x.job = here[k].job

LEMMA LatersIs ==
    ASSUME NEW here \in Seq(RelEntries), OneEach(here), NEW n, n = Len(here), NEW f, Laters(f, here, n)
    PROVE  Delayed(f[n], here, n)
<1> DEFINE P == {i \in 0..n : Delayed(f[i], here, i)}
<1>0. n \in Nat /\ \A i, k \in 1..n : here[i].job = here[k].job => i = k
  BY DEF OneEach
<1>1. 0 \in P
  <2>1. f[0] = << >> /\ 1..0 = {} /\ ToSet(<< >>) = {}
    BY <1>0, EmptyKept DEF Laters
  <2>2. << >> \in Seq(RelEntries) /\ OneEach(<< >>)
    BY EmptyKept DEF ListKept
  <2>3. Delayed(<< >>, here, 0)
    BY <2>1, <2>2 DEF Delayed
  <2> QED
    BY <1>0, <2>1, <2>3
<1>2. ASSUME NEW i \in 0..n, i # n, i \in P PROVE i + 1 \in P
  <2>1. i + 1 \in 1..n /\ i + 1 \in 0..n /\ (i + 1) - 1 = i
    BY <1>0, <1>2
  <2>2. f[i + 1] = IF here[i + 1].rounds = 0 THEN f[i]
                   ELSE Append(f[i], [here[i + 1] EXCEPT !.rounds = @ - 1])
    <3>1. i + 1 # 0
      OBVIOUS
    <3>2. f[i + 1] = LaterStep(f, here, i + 1)
      BY <2>1, <3>1 DEF Laters
    <3> QED
      BY <2>1, <3>2, Zenon DEF LaterStep
  <2>3. Delayed(f[i], here, i)
    BY <1>2
  <2>4. \A k \in 1..(i + 1) : k \in 1..i \/ k = i + 1
    OBVIOUS
  <2>5. \A k \in 1..i : k \in 1..(i + 1) /\ k \in 1..n /\ k # i + 1
    BY <1>0
  <2>6. CASE here[i + 1].rounds = 0
    BY <2>1, <2>2, <2>3, <2>4, <2>5, <2>6 DEF Delayed
  <2>7. CASE here[i + 1].rounds # 0
    <3>1. PICK h \in RelEntries : h = here[i + 1] /\ h.rounds # 0
      BY <2>1, <2>7
    <3>2. PICK e : e = [h EXCEPT !.rounds = @ - 1]
      OBVIOUS
    <3>3. e \in RelEntries /\ e.job = h.job /\ e.rounds = h.rounds - 1
      BY <3>1, <3>2, TurnLess
    <3>4. PICK l \in Seq(RelEntries) : l = f[i]
      BY <2>3 DEF Delayed
    <3>5. Delayed(l, here, i)
      BY <2>3, <3>4
    <3>6. OneEach(l)
      BY <3>5 DEF Delayed
    <3>7. \A x \in ToSet(l) : x.job # e.job
      BY <1>0, <2>1, <2>5, <3>1, <3>3, <3>5 DEF Delayed
    <3>8. /\ Append(l, e) \in Seq(RelEntries) /\ OneEach(Append(l, e))
          /\ ToSet(Append(l, e)) = ToSet(l) \cup {e}
      <4>1. e \in RelEntries
        BY <3>3
      <4> QED
        BY <3>6, <3>7, <4>1, AppendedOne
    <3>9. PICK r : r = Append(l, e)
      OBVIOUS
    <3>10. r \in Seq(RelEntries) /\ OneEach(r) /\ ToSet(r) = ToSet(l) \cup {e}
      BY <3>8, <3>9
    <3>11. \A x \in ToSet(r) : \E k \in 1..(i + 1) : /\ here[k].rounds # 0 /\ x.job = here[k].job
                                                     /\ x.rounds = here[k].rounds - 1
      <4> SUFFICES ASSUME NEW x \in ToSet(r)
                   PROVE  \E k \in 1..(i + 1) : /\ here[k].rounds # 0 /\ x.job = here[k].job
                                                /\ x.rounds = here[k].rounds - 1
        OBVIOUS
      <4>1. CASE x \in ToSet(l)
        BY <2>5, <3>5, <4>1 DEF Delayed
      <4>2. CASE x = e
        <5>1. i + 1 \in 1..(i + 1)
          OBVIOUS
        <5> QED
          BY <3>1, <3>3, <4>2, <5>1
      <4> QED
        BY <3>10, <4>1, <4>2
    <3>12. \A k \in 1..(i + 1) : here[k].rounds # 0 => \E x \in ToSet(r) : x.job = here[k].job
      BY <2>4, <3>1, <3>3, <3>5, <3>10 DEF Delayed
    <3>13. Delayed(r, here, i + 1)
      BY <3>10, <3>11, <3>12 DEF Delayed
    <3>14. f[i + 1] = r
      BY <2>2, <2>7, <3>1, <3>2, <3>4, <3>9
    <3> QED
      BY <2>1, <3>13, <3>14
  <2> QED
    BY <2>6, <2>7
<1> HIDE DEF P
<1>3. \A i \in 0..n : i \in P
  BY <1>0, <1>1, <1>2, UpTo
<1>4. n \in P
  BY <1>0, <1>3
<1> QED
  BY <1>4 DEF P

(* The jobs taken along for release.                                       *)
TakenStep(f, here, i) ==
    IF here[i].rounds = 0 /\ Len(f[i - 1]) < MaxRelease THEN Append(f[i - 1], here[i].job) ELSE f[i - 1]
Takens(f, here, n) == f = [i \in 0..n |-> IF i = 0 THEN << >> ELSE TakenStep(f, here, i)]

LEMMA TakensExist ==
    ASSUME NEW here \in Seq(RelEntries), NEW n, n = Len(here)
    PROVE  \E f : Takens(f, here, n)
<1> DEFINE S == Seq(Jobs)
           step == [x \in (1..n) \X S |-> IF here[x[1]].rounds = 0 /\ Len(x[2]) < MaxRelease
                                          THEN Append(x[2], here[x[1]].job) ELSE x[2]]
<1>1. step \in [(1..n) \X S -> S]
  <2> SUFFICES ASSUME NEW i \in 1..n, NEW l \in S
               PROVE  (IF here[i].rounds = 0 /\ Len(l) < MaxRelease THEN Append(l, here[i].job) ELSE l) \in S
    OBVIOUS
  <2>1. here[i].job \in Jobs
    <3>1. here[i] \in RelEntries
      OBVIOUS
    <3> QED
      BY <3>1 DEF RelEntries
  <2>2. Append(l, here[i].job) \in S
    BY <2>1
  <2> QED
    BY <2>2
<1>2. << >> \in S /\ n \in Nat
  OBVIOUS
<1> HIDE DEF step, S
<1>3. PICK f \in [0..n -> S] : StepsOf(f, n, << >>, step)
  BY <1>1, <1>2, StepsExist
<1>4. \A i \in 1..n : f[i] = TakenStep(f, here, i)
  <2> SUFFICES ASSUME NEW i \in 1..n PROVE f[i] = TakenStep(f, here, i)
    OBVIOUS
  <2>1. f[i - 1] \in S
    <3>1. i - 1 \in 0..n
      BY <1>2
    <3> QED
      BY <3>1
  <2>2. f[i] = step[<<i, f[i - 1]>>]
    BY <1>3 DEF StepsOf
  <2> QED
    BY <2>1, <2>2 DEF step, TakenStep
<1>5. Takens(f, here, n)
  <2>1. f[0] = << >> /\ \A i \in 0..n : i = 0 \/ i \in 1..n
    BY <1>2, <1>3 DEF StepsOf
  <2>2. \A i \in 0..n : f[i] = IF i = 0 THEN << >> ELSE TakenStep(f, here, i)
    BY <1>4, <2>1
  <2> QED
    BY <2>2 DEF Takens
<1> QED
  BY <1>5

TakenAlong(l, here, i) ==
    /\ l \in Seq(Jobs) /\ Len(l) <= i
    /\ Len(here) <= MaxRelease => \A k \in 1..i : here[k].rounds = 0 => here[k].job \in ToSet(l)

LEMMA TakensIs ==
    ASSUME MaxRelease \in Nat, NEW here \in Seq(RelEntries), NEW n, n = Len(here), NEW f, Takens(f, here, n)
    PROVE  TakenAlong(f[n], here, n)
<1> DEFINE P == {i \in 0..n : TakenAlong(f[i], here, i)}
<1>0. n \in Nat
  OBVIOUS
<1>1. 0 \in P
  <2>1. f[0] = << >> /\ 1..0 = {}
    BY <1>0 DEF Takens
  <2>2. << >> \in Seq(Jobs) /\ Len(<< >>) = 0
    OBVIOUS
  <2>3. TakenAlong(<< >>, here, 0)
    BY <2>1, <2>2 DEF TakenAlong
  <2> QED
    BY <1>0, <2>1, <2>3
<1>2. ASSUME NEW i \in 0..n, i # n, i \in P PROVE i + 1 \in P
  <2>1. i + 1 \in 1..n /\ i + 1 \in 0..n /\ (i + 1) - 1 = i
    BY <1>0, <1>2
  <2>2. f[i + 1] = IF here[i + 1].rounds = 0 /\ Len(f[i]) < MaxRelease
                   THEN Append(f[i], here[i + 1].job) ELSE f[i]
    <3>1. i + 1 # 0
      OBVIOUS
    <3>2. f[i + 1] = TakenStep(f, here, i + 1)
      BY <2>1, <3>1 DEF Takens
    <3> QED
      BY <2>1, <3>2, Zenon DEF TakenStep
  <2>3. PICK l \in Seq(Jobs) : l = f[i]
    BY <1>2 DEF TakenAlong
  <2>4. TakenAlong(l, here, i)
    BY <1>2, <2>3
  <2>5. \A k \in 1..(i + 1) : k \in 1..i \/ k = i + 1
    OBVIOUS
  <2>6. PICK j \in Jobs : j = here[i + 1].job
    <3>1. here[i + 1] \in RelEntries
      BY <2>1
    <3> QED
      BY <3>1 DEF RelEntries
  <2>7. Len(l) \in Nat /\ Len(l) <= i
    BY <2>4 DEF TakenAlong
  <2>8. CASE here[i + 1].rounds = 0 /\ Len(l) < MaxRelease
    <3>1. PICK r : r = Append(l, j)
      OBVIOUS
    <3>2. r \in Seq(Jobs) /\ Len(r) = Len(l) + 1 /\ r[Len(l) + 1] = j /\ \A k \in 1..Len(l) : r[k] = l[k]
      BY <3>1
    <3>3. ToSet(l) \subseteq ToSet(r) /\ j \in ToSet(r)
      <4>1. PICK m \in Nat : m = Len(l)
        BY <2>7
      <4>2. ToSet(l) = {l[k] : k \in 1..m}
        BY <4>1 DEF ToSet
      <4>3. ToSet(r) = {r[k] : k \in 1..(m + 1)}
        BY <3>2, <4>1 DEF ToSet
      <4>4. m + 1 \in 1..(m + 1) /\ \A k \in 1..m : k \in 1..(m + 1)
        BY <4>1
      <4>5. \A k \in 1..m : l[k] \in ToSet(r)
        BY <3>2, <4>1, <4>3, <4>4
      <4>6. j \in ToSet(r)
        BY <3>2, <4>1, <4>3, <4>4
      <4> QED
        BY <4>2, <4>5, <4>6
    <3>4. TakenAlong(r, here, i + 1)
      <4>1. ASSUME Len(here) <= MaxRelease, NEW k \in 1..(i + 1), here[k].rounds = 0
            PROVE  here[k].job \in ToSet(r)
        BY <2>4, <2>5, <2>6, <3>3, <4>1 DEF TakenAlong
      <4> QED
        BY <2>7, <3>2, <4>1 DEF TakenAlong
    <3>5. f[i + 1] = r
      BY <2>2, <2>3, <2>6, <2>8, <3>1
    <3> QED
      BY <2>1, <3>4, <3>5
  <2>9. CASE ~(here[i + 1].rounds = 0 /\ Len(l) < MaxRelease)
    <3>1. f[i + 1] = l
      BY <2>2, <2>3, <2>9
    <3>2. Len(here) <= MaxRelease => here[i + 1].rounds # 0
      BY <1>0, <1>2, <2>7, <2>9
    <3>3. TakenAlong(l, here, i + 1)
      <4>1. ASSUME Len(here) <= MaxRelease, NEW k \in 1..(i + 1), here[k].rounds = 0
            PROVE  here[k].job \in ToSet(l)
        BY <2>4, <2>5, <3>2, <4>1 DEF TakenAlong
      <4> QED
        BY <2>4, <2>7, <4>1 DEF TakenAlong
    <3> QED
      BY <2>1, <3>1, <3>3
  <2> QED
    BY <2>8, <2>9
<1> HIDE DEF P
<1>3. \A i \in 0..n : i \in P
  BY <1>0, <1>1, <1>2, UpTo
<1>4. n \in P
  BY <1>0, <1>3
<1> QED
  BY <1>4 DEF P

(* A slot has room for no more than there are EDF jobs.                    *)
LEMMA NoMoreThanJobs ==
    ASSUME NEW S, NEW list \in Seq(S), OneEach(list), \A e \in ToSet(list) : e.job \in EdfJobs,
           IsFiniteSet(EdfJobs)
    PROVE  Len(list) <= Cardinality(EdfJobs)
<1>1. PICK n \in Nat : n = Len(list)
  OBVIOUS
<1>2. PICK f : f = [i \in 1..n |-> list[i].job]
  OBVIOUS
<1>3. \A i \in 1..n : list[i].job \in EdfJobs
  BY <1>1 DEF ToSet
<1>4. \A i, k \in 1..n : list[i].job = list[k].job => i = k
  BY <1>1 DEF OneEach
<1>5. f \in Injection(1..n, EdfJobs)
  <2>1. f \in [1..n -> EdfJobs]
    BY <1>2, <1>3
  <2>2. \A a, b \in 1..n : f[a] = f[b] => a = b
    BY <1>2, <1>4
  <2> QED
    BY <2>1, <2>2 DEF Injection, IsInjective
<1>7. IsFiniteSet(1..n) /\ Cardinality(1..n) = n
  <2>1. /\ IsFiniteSet(1..n)
        /\ Cardinality(1..n) = IF 1 > n THEN 0 ELSE n - 1 + 1
    BY FS_Interval
  <2> QED
    BY <2>1
<1>8. Cardinality(1..n) <= Cardinality(EdfJobs)
  BY <1>5, FS_Injection
<1> QED
  BY <1>1, <1>7, <1>8

(* No tick can find more jobs due than it has room for.                    *)
RoomForAll == IsFiniteSet(EdfJobs) /\ Cardinality(EdfJobs) <= MaxRelease

LEMMA AdvanceKeeps ==
    ASSUME DeadlineAssumption, JobInv, AdvanceWheel
    PROVE  JobInv' /\ (RoomForAll /\ PeriodicOK => PeriodicOK')
<1> DEFINE slot == (relCursor + 1) % ReleaseSlots
           here == relWheel[slot]
           later[i \in 0..Len(here)] ==
               IF i = 0 THEN << >>
               ELSE IF here[i].rounds = 0 THEN later[i - 1]
                    ELSE Append(later[i - 1], [here[i] EXCEPT !.rounds = @ - 1])
           along[i \in 0..Len(here)] ==
               IF i = 0 THEN << >>
               ELSE IF here[i].rounds = 0 /\ Len(along[i - 1]) < MaxRelease
                    THEN Append(along[i - 1], here[i].job)
                    ELSE along[i - 1]
<1>1. /\ phase = "woken" /\ phase' = "release" /\ relCursor' = slot
      /\ relWheel' = [relWheel EXCEPT ![slot] = later[Len(here)]] /\ due' = along[Len(here)]
      /\ UNCHANGED <<ticks, mode, deadline, jobPeriod, listVars, when, arming, staleOrder, relinked>>
  BY Zenon DEF AdvanceWheel
<1>2. /\ JobTypes /\ SleepersOK /\ EdfOK /\ WaitersOK /\ WheelOK /\ DueOK
      /\ ticks \in Nat /\ relCursor \in Slot /\ due = << >>
  <2>1. phase = "woken"
    BY <1>1
  <2> HIDE DEF slot, here, later, along
  <2> QED
    BY <2>1 DEF JobInv, JobTypes, DueOK
<1>3. /\ slot \in Slot
      /\ \A s \in Slot, k \in Nat :
            /\ s # slot => ReleaseTick(s, k)' = ReleaseTick(s, k)
            /\ s = slot /\ k # 0 => ReleaseTick(s, k - 1)' = ReleaseTick(s, k)
  BY <1>1, <1>2, CursorMoves
<1>4. PICK t \in Slot : t = slot
  BY <1>3
<1>5. PICK list \in Seq(RelEntries) : list = here /\ OneEach(list)
  BY <1>2, <1>3 DEF JobTypes, WheelOK
<1>6. PICK n \in Nat : n = Len(list)
  OBVIOUS
<1>7. Laters(later, list, n)
  <2>1. PICK f : Laters(f, list, n)
    BY <1>6, LatersExist
  <2>2. f = [i \in 0..Len(here) |->
               IF i = 0 THEN << >>
               ELSE IF here[i].rounds = 0 THEN f[i - 1]
                    ELSE Append(f[i - 1], [here[i] EXCEPT !.rounds = @ - 1])]
    BY <1>5, <1>6, <2>1, Zenon DEF Laters, LaterStep
  <2>3. later = [i \in 0..Len(here) |->
               IF i = 0 THEN << >>
               ELSE IF here[i].rounds = 0 THEN later[i - 1]
                    ELSE Append(later[i - 1], [here[i] EXCEPT !.rounds = @ - 1])]
    BY <2>2, Zenon
  <2> HIDE DEF later
  <2> QED
    BY <1>5, <1>6, <2>3, Zenon DEF Laters, LaterStep
<1>8. Takens(along, list, n)
  <2>1. PICK f : Takens(f, list, n)
    BY <1>6, TakensExist
  <2>2. f = [i \in 0..Len(here) |->
               IF i = 0 THEN << >>
               ELSE IF here[i].rounds = 0 /\ Len(f[i - 1]) < MaxRelease
                    THEN Append(f[i - 1], here[i].job)
                    ELSE f[i - 1]]
    BY <1>5, <1>6, <2>1, Zenon DEF Takens, TakenStep
  <2>3. along = [i \in 0..Len(here) |->
               IF i = 0 THEN << >>
               ELSE IF here[i].rounds = 0 /\ Len(along[i - 1]) < MaxRelease
                    THEN Append(along[i - 1], here[i].job)
                    ELSE along[i - 1]]
    BY <2>2, Zenon
  <2> HIDE DEF along
  <2> QED
    BY <1>5, <1>6, <2>3, Zenon DEF Takens, TakenStep
<1> HIDE DEF later, along, here, slot
<1>9. PICK l, d : l = later[n] /\ d = along[n]
  OBVIOUS
<1>10. Delayed(l, list, n)
  BY <1>5, <1>6, <1>7, <1>9, LatersIs
<1>11. TakenAlong(d, list, n)
  BY <1>6, <1>8, <1>9, TakensIs DEF DeadlineAssumption
<1>12. /\ relWheel[t] = list /\ relCursor' = t /\ due' = d
       /\ relWheel' = [relWheel EXCEPT ![t] = l]
  <2>1. relWheel[t] = list
    BY <1>4, <1>5 DEF here
  <2> QED
    BY <1>1, <1>4, <1>5, <1>6, <1>9, <2>1
<1>13. /\ relWheel' \in [Slot -> Seq(RelEntries)] /\ relWheel'[t] = l
       /\ \A s \in Slot : s # t => relWheel'[s] = relWheel[s]
  BY <1>2, <1>10, <1>12 DEF JobTypes, Delayed
<1>14. JobTypes'
  <2>1. due' \in Seq(Jobs)
    BY <1>11, <1>12 DEF TakenAlong
  <2>2. phase' = "release" /\ relCursor' \in Slot /\ relWheel' \in [Slot -> Seq(RelEntries)]
    BY <1>1, <1>4, <1>12, <1>13
  <2> QED
    BY <1>1, <1>2, <2>1, <2>2 DEF JobTypes, listVars
<1>hand. InHand \subseteq InHand'
  BY <1>1 DEF InHand
<1>15. SleepersOK' /\ EdfOK' /\ WaitersOK' /\ DueOK'
  BY <1>1, <1>2, <1>hand, SleepersFrame, EdfFrame DEF WaitersOK, DueOK, listVars
<1>16. \A s \in Slot : \A e \in ToSet(relWheel[s]) :
         e.job \in EdfJobs /\ e.rounds \in Nat /\ Timely(s, e)
  <2> SUFFICES ASSUME NEW s \in Slot, NEW e \in ToSet(relWheel[s])
               PROVE  e.job \in EdfJobs /\ e.rounds \in Nat /\ Timely(s, e)
    OBVIOUS
  <2>1. relWheel[s] \in Seq(RelEntries)
    BY <1>2 DEF JobTypes
  <2>2. e \in RelEntries
    BY <2>1, InSet
  <2> QED
    BY <1>2, <2>2 DEF RelEntries, WheelOK
<1>17. WheelOK'
  <2> SUFFICES ASSUME NEW s \in Slot
               PROVE  /\ OneEach(relWheel'[s])
                      /\ \A e \in ToSet(relWheel'[s]) : e.job \in EdfJobs /\ Timely(s, e)'
    BY DEF WheelOK
  <2>1. CASE s # t
    <3>1. ASSUME NEW e \in ToSet(relWheel[s]) PROVE Timely(s, e)'
      <4>1. ReleaseTick(s, e.rounds)' = ReleaseTick(s, e.rounds)
        BY <1>3, <1>4, <1>16, <2>1
      <4> QED
        BY <1>1, <1>16, <4>1 DEF Timely
    <3> QED
      BY <1>2, <1>13, <1>16, <2>1, <3>1 DEF WheelOK
  <2>2. CASE s = t
    <3>1. relWheel'[s] = l /\ OneEach(l)
      BY <1>10, <1>13, <2>2 DEF Delayed
    <3>2. ASSUME NEW e \in ToSet(l) PROVE e.job \in EdfJobs /\ Timely(s, e)'
      <4>1. PICK k \in 1..n : /\ list[k].rounds # 0 /\ e.job = list[k].job
                              /\ e.rounds = list[k].rounds - 1
        BY <1>10 DEF Delayed
      <4>2. PICK h \in ToSet(relWheel[t]) : h = list[k]
        BY <1>6, <1>12 DEF ToSet
      <4>3. ReleaseTick(s, h.rounds - 1)' = ReleaseTick(s, h.rounds)
        BY <1>3, <1>4, <1>16, <2>2, <4>1, <4>2
      <4> QED
        BY <1>1, <1>16, <2>2, <4>1, <4>2, <4>3 DEF Timely
    <3> QED
      BY <3>1, <3>2
  <2> QED
    BY <2>1, <2>2
<1>18. ASSUME RoomForAll, PeriodicOK PROVE PeriodicOK'
  <2>1. Len(list) <= MaxRelease
    <3>1. \A e \in ToSet(list) : e.job \in EdfJobs
      BY <1>12, <1>16
    <3>2. Len(list) <= Cardinality(EdfJobs)
      BY <1>5, <1>18, <3>1, NoMoreThanJobs DEF RoomForAll
    <3>3. Cardinality(EdfJobs) \in Nat
      BY <1>18, FS_CardinalityType DEF RoomForAll
    <3> QED
      BY <1>18, <3>2, <3>3 DEF RoomForAll, DeadlineAssumption
  <2>2. ASSUME NEW i \in EdfJobs, OnWheel(i) PROVE NotForgotten(i)'
    <3>0. PICK s \in Slot : \E e \in ToSet(relWheel[s]) : e.job = i
      BY <2>2 DEF OnWheel
    <3>1. PICK e \in ToSet(relWheel[s]) : e.job = i
      BY <3>0
    <3>2. CASE s # t
      <4>1. e \in ToSet(relWheel'[s])
        BY <1>13, <3>2
      <4>2. OnWheel(i)'
        BY <3>1, <4>1 DEF OnWheel
      <4> QED
        BY <4>2 DEF NotForgotten
    <3>3. CASE s = t
      <4>1. PICK k \in 1..n : e = list[k]
        BY <1>6, <1>12, <3>3 DEF ToSet
      <4>2. CASE e.rounds = 0
        <5>1. i \in ToSet(d)
          BY <1>11, <2>1, <3>1, <4>1, <4>2 DEF TakenAlong
        <5> QED
          BY <1>12, <5>1 DEF NotForgotten
      <4>3. CASE e.rounds # 0
        <5>1. PICK x \in ToSet(l) : x.job = i
          BY <1>10, <3>1, <4>1, <4>3 DEF Delayed
        <5>2. x \in ToSet(relWheel'[t])
          BY <1>13, <5>1
        <5>3. OnWheel(i)'
          BY <5>1, <5>2 DEF OnWheel
        <5> QED
          BY <5>3 DEF NotForgotten
      <4> QED
        BY <4>2, <4>3
    <3> QED
      BY <3>2, <3>3
  <2>3. \A i : i \notin ToSet(due)
    BY <1>2, EmptyKept
  <2>4. \A i \in EdfJobs : NotForgotten(i) => NotForgotten(i)'
    <3> SUFFICES ASSUME NEW i \in EdfJobs, NotForgotten(i) PROVE NotForgotten(i)'
      OBVIOUS
    <3>1. CASE i \in arming
      BY <1>1, <3>1 DEF NotForgotten
    <3>2. CASE i \notin arming
      BY <2>2, <2>3, <3>2 DEF NotForgotten
    <3> QED
      BY <3>1, <3>2
  <2> QED
    BY <1>1, <1>18, <2>4, PeriodicFrame
<1> QED
  BY <1>14, <1>15, <1>17, <1>18 DEF JobInv

LEMMA DeadlineStepKeeps ==
    ASSUME DeadlineAssumption, JobInv, DeadlineStep
    PROVE  relinked' \/ (JobInv' /\ (RoomForAll /\ PeriodicOK => PeriodicOK'))
<1>1. CASE Count \/ WakeSleepers \/ AdvanceWheel \/ Rearm \/ TickEnds
  BY <1>1, CountKeeps, WakeSleepersKeeps, AdvanceKeeps, RearmKeeps, TickEndsKeeps
<1>2. CASE ReleaseBegins \/ ReleaseUnblock \/ ReleaseRemove \/ ReleaseAdd
  BY <1>2, ReleaseBeginsKeeps, ReleaseUnblockKeeps, ReleaseRemoveKeeps, ReleaseAddKeeps
<1>3. ASSUME NEW j \in Jobs,
             \/ Dispatch(j) \/ Preempt(j) \/ AwaitForever(j) \/ Signal(j)
             \/ SuspendJob(j) \/ ResumeJob(j) \/ CreateJob(j) \/ DeleteJob(j) \/ ArmAfterCall(j)
      PROVE  JobInv' /\ (PeriodicOK => PeriodicOK')
  BY <1>3, DispatchKeeps, PreemptKeeps, AwaitForeverKeeps, SignalKeeps, SuspendKeeps, ResumeKeeps,
     CreateKeeps, DeleteKeeps, ArmAfterCallKeeps
<1>4. ASSUME NEW j \in Jobs, NEW n \in Spans,
             \/ Delay(j, n) \/ DelayUntil(j, ticks + n) \/ AwaitObject(j, n) \/ SetDeadline(j, ticks + n)
      PROVE  JobInv' /\ (PeriodicOK => PeriodicOK')
  <2>1. PICK k \in Nat : k = ticks + n /\ (n > 0 => k > ticks)
    <3>1. n \in Nat /\ ticks \in Nat
      BY DEF DeadlineAssumption, JobInv, JobTypes
    <3> QED
      BY <3>1
  <2>2. CASE Delay(j, n)
    <3>1. SleepUntil(j, "delay", k) /\ k > ticks
      BY <2>1, <2>2 DEF Delay
    <3> QED
      BY <3>1, SleepUntilKeeps
  <2>3. CASE DelayUntil(j, ticks + n)
    <3>1. SleepUntil(j, "delay", k) /\ k > ticks
      BY <2>1, <2>3 DEF DelayUntil
    <3> QED
      BY <3>1, SleepUntilKeeps
  <2>4. CASE AwaitObject(j, n)
    <3>1. SleepUntil(j, "object", k) /\ k > ticks /\ j \in ObjectWaiters
      BY <2>1, <2>4 DEF AwaitObject
    <3> QED
      BY <3>1, SleepUntilKeeps
  <2>5. CASE SetDeadline(j, ticks + n)
    BY <2>1, <2>5, SetDeadlineKeeps
  <2> QED
    BY <1>4, <2>2, <2>3, <2>4, <2>5
<1>5. ASSUME NEW j \in Jobs, NEW p \in JobPeriods, SetPeriod(j, p)
      PROVE  JobInv' /\ (PeriodicOK => PeriodicOK')
  BY <1>5, SetPeriodKeeps
<1> QED
  BY <1>1, <1>2, <1>3, <1>4, <1>5, Zenon DEF DeadlineStep

LEMMA JobInvStutters ==
    ASSUME JobInv, UNCHANGED deadlineVars
    PROVE  JobInv' /\ (PeriodicOK => PeriodicOK')
<1> USE DEF deadlineVars, listVars, relVars
<1>hand. InHand' = InHand
  BY DEF InHand
<1> USE <1>hand
<1>1. JobTypes' /\ WaitersOK' /\ DueOK'
  BY DEF JobInv, JobTypes, WaitersOK, DueOK
<1>2. SleepersOK' /\ EdfOK' /\ WheelOK'
  BY SleepersFrame, EdfFrame, WheelFrame DEF JobInv
<1>3. ASSUME PeriodicOK PROVE PeriodicOK'
  <2>1. \A i \in EdfJobs : NotForgotten(i) => NotForgotten(i)'
    BY RememberedFrame
  <2> QED
    BY <1>3, <2>1, PeriodicFrame
<1> QED
  BY <1>1, <1>2, <1>3 DEF JobInv

-----------------------------------------------------------------------------
(* The wheel of the timers.                                                *)

(* A tick has a node to spare when it puts a timer back, and what it puts  *)
(* back never lands in the slot it is walking.                             *)
SpareNode  == IsFiniteSet(Timers) /\ Cardinality(Timers) < PoolSize
NoMultiple == \A p \in Periods \cup {1} : p % Slots # 0

WheelSlots == 0..(Slots - 1)
Nodes == [timer : Timers, rounds : Nat]

(* A list of nodes: those of the timers in B, each with its turns.         *)
NodesOf(list, B, turns) ==
    /\ list \in Seq(Nodes)
    /\ \A i \in 1..Len(list) : list[i].timer \in B /\ list[i].rounds = turns[list[i].timer]
    /\ \A i, k \in 1..Len(list) : list[i].timer = list[k].timer => i = k
    /\ \A t \in B : \E i \in 1..Len(list) : list[i].timer = t

LEMMA NodeAtHead ==
    ASSUME NEW B, NEW turns, NEW list, NodesOf(list, B, turns), NEW t \in Timers, t \notin B, turns[t] \in Nat
    PROVE  NodesOf(<<Entry(t, turns[t])>> \o list, B \cup {t}, turns)
<1>1. PICK n \in Nat : n = Len(list) /\ list \in Seq(Nodes)
  BY DEF NodesOf
<1>2. PICK e \in Nodes : e = Entry(t, turns[t]) /\ e.timer = t /\ e.rounds = turns[t]
  <2>1. PICK x : x = turns[t] /\ x \in Nat
    OBVIOUS
  <2>2. [timer |-> t, rounds |-> x] \in Nodes
    BY <2>1 DEF Nodes
  <2> QED
    BY <2>1, <2>2 DEF Entry
<1>3. PICK r : r = <<e>> \o list
  OBVIOUS
<1>4. r \in Seq(Nodes) /\ Len(r) = n + 1 /\ r[1] = e /\ \A i \in 1..n : r[i + 1] = list[i]
  <2>1. <<e>> \in Seq(Nodes) /\ Len(<<e>>) = 1 /\ <<e>>[1] = e
    OBVIOUS
  <2>2. /\ r \in Seq(Nodes) /\ Len(r) = 1 + n
        /\ \A i \in 1..(1 + n) : r[i] = IF i <= 1 THEN <<e>>[i] ELSE list[i - 1]
    BY <1>1, <1>3, <2>1, ConcatProperties
  <2>3. 1 \in 1..(1 + n) /\ \A i \in 1..n : i + 1 \in 1..(1 + n) /\ ~(i + 1 <= 1) /\ (i + 1) - 1 = i
    BY <1>1
  <2> QED
    BY <2>1, <2>2, <2>3
<1>5. \A i \in 1..(n + 1) : i = 1 \/ (i - 1 \in 1..n /\ r[i] = list[i - 1])
  <2>1. \A i \in 1..(n + 1) : i = 1 \/ (i - 1 \in 1..n /\ (i - 1) + 1 = i)
    BY <1>1
  <2> QED
    BY <1>4, <2>1
<1>6. /\ \A i \in 1..n : list[i].timer \in B /\ list[i].rounds = turns[list[i].timer]
      /\ \A i, k \in 1..n : list[i].timer = list[k].timer => i = k
      /\ \A u \in B : \E i \in 1..n : list[i].timer = u
  BY <1>1 DEF NodesOf
<1>7. ASSUME NEW i \in 1..(n + 1) PROVE r[i].timer \in B \cup {t} /\ r[i].rounds = turns[r[i].timer]
  <2>1. CASE i = 1
    BY <1>2, <1>4, <2>1
  <2>2. CASE i # 1
    <3>1. PICK k \in 1..n : r[i] = list[k]
      BY <1>5, <2>2
    <3> QED
      BY <1>6, <3>1
  <2> QED
    BY <2>1, <2>2
<1>8. ASSUME NEW i \in 1..(n + 1), NEW k \in 1..(n + 1), r[i].timer = r[k].timer PROVE i = k
  <2>1. i = 1 <=> k = 1
    <3>1. \A m \in 1..(n + 1) : m # 1 => r[m].timer \in B
      BY <1>5, <1>6
    <3>2. r[1].timer = t
      BY <1>2, <1>4
    <3> QED
      BY <1>8, <3>1, <3>2
  <2>2. CASE i # 1
    <3>1. i - 1 = k - 1
      BY <1>5, <1>6, <1>8, <2>1, <2>2
    <3> QED
      BY <3>1
  <2> QED
    BY <2>1, <2>2
<1>9. ASSUME NEW u \in B \cup {t} PROVE \E i \in 1..(n + 1) : r[i].timer = u
  <2>1. CASE u = t
    <3>1. 1 \in 1..(n + 1)
      BY <1>1
    <3> QED
      BY <1>2, <1>4, <2>1, <3>1
  <2>2. CASE u # t
    <3>1. PICK i \in 1..n : list[i].timer = u
      BY <1>6, <1>9, <2>2
    <3>2. i + 1 \in 1..(n + 1)
      BY <1>1
    <3> QED
      BY <1>4, <3>1, <3>2
  <2> QED
    BY <2>1, <2>2
<1>10. NodesOf(r, B \cup {t}, turns)
  BY <1>4, <1>7, <1>8, <1>9 DEF NodesOf
<1> QED
  BY <1>2, <1>3, <1>10

LEMMA NodeAtEnd ==
    ASSUME NEW B, NEW turns, NEW list, NodesOf(list, B, turns), NEW t \in Timers, t \notin B, turns[t] \in Nat
    PROVE  NodesOf(Append(list, Entry(t, turns[t])), B \cup {t}, turns)
<1>1. PICK n \in Nat : n = Len(list) /\ list \in Seq(Nodes)
  BY DEF NodesOf
<1>2. PICK e \in Nodes : e = Entry(t, turns[t]) /\ e.timer = t /\ e.rounds = turns[t]
  <2>1. PICK x : x = turns[t] /\ x \in Nat
    OBVIOUS
  <2>2. [timer |-> t, rounds |-> x] \in Nodes
    BY <2>1 DEF Nodes
  <2> QED
    BY <2>1, <2>2 DEF Entry
<1>3. PICK r : r = Append(list, e)
  OBVIOUS
<1>4. r \in Seq(Nodes) /\ Len(r) = n + 1 /\ r[n + 1] = e /\ \A i \in 1..n : r[i] = list[i]
  BY <1>1, <1>3
<1>5. \A i \in 1..(n + 1) : i = n + 1 \/ (i \in 1..n /\ r[i] = list[i])
  BY <1>1, <1>4
<1>6. /\ \A i \in 1..n : list[i].timer \in B /\ list[i].rounds = turns[list[i].timer]
      /\ \A i, k \in 1..n : list[i].timer = list[k].timer => i = k
      /\ \A u \in B : \E i \in 1..n : list[i].timer = u
  BY <1>1 DEF NodesOf
<1>7. \A i \in 1..(n + 1) : r[i].timer \in B \cup {t} /\ r[i].rounds = turns[r[i].timer]
  BY <1>2, <1>4, <1>5, <1>6
<1>8. ASSUME NEW i \in 1..(n + 1), NEW k \in 1..(n + 1), r[i].timer = r[k].timer PROVE i = k
  BY <1>2, <1>4, <1>5, <1>6, <1>8
<1>9. ASSUME NEW u \in B \cup {t} PROVE \E i \in 1..(n + 1) : r[i].timer = u
  <2>1. n + 1 \in 1..(n + 1) /\ \A i \in 1..n : i \in 1..(n + 1)
    BY <1>1
  <2> QED
    BY <1>2, <1>4, <1>6, <2>1
<1>10. NodesOf(r, B \cup {t}, turns)
  BY <1>4, <1>7, <1>8, <1>9 DEF NodesOf
<1> QED
  BY <1>2, <1>3, <1>10

LEMMA NodeGone ==
    ASSUME NEW B, NEW turns, NEW list, NodesOf(list, B, turns), NEW p \in 1..Len(list), NEW t, t = list[p].timer
    PROVE  NodesOf(RemoveAt(list, p), B \ {t}, turns)
<1>1. PICK n \in Nat : n = Len(list) /\ list \in Seq(Nodes)
  BY DEF NodesOf
<1>2. PICK r : r = RemoveAt(list, p)
  OBVIOUS
<1>3. r \in Seq(Nodes) /\ Len(r) = n - 1 /\ \A k \in 1..(n - 1) : r[k] = IF k < p THEN list[k] ELSE list[k + 1]
  <2>1. TakenOut(Nodes, list, p, r)
    BY <1>1, <1>2, RemoveAtIs
  <2> QED
    BY <1>1, <2>1 DEF TakenOut
<1>4. p \in 1..n
  BY <1>1
<1>5. /\ \A i \in 1..n : list[i].timer \in B /\ list[i].rounds = turns[list[i].timer]
      /\ \A i, k \in 1..n : list[i].timer = list[k].timer => i = k
      /\ \A u \in B : \E i \in 1..n : list[i].timer = u
  BY <1>1 DEF NodesOf
<1>6. ASSUME NEW k \in 1..(n - 1)
      PROVE  \E i \in 1..n : i = (IF k < p THEN k ELSE k + 1) /\ i # p /\ r[k] = list[i]
  <2>1. k \in 1..n /\ k + 1 \in 1..n
    BY <1>1
  <2>2. CASE k < p
    BY <1>3, <2>1, <2>2
  <2>3. CASE ~(k < p)
    <3>1. k + 1 # p
      BY <1>4, <2>3
    <3> QED
      BY <1>3, <2>1, <2>3, <3>1
  <2> QED
    BY <2>2, <2>3
<1>7. \A k \in 1..(n - 1) : r[k].timer \in B \ {t} /\ r[k].rounds = turns[r[k].timer]
  BY <1>4, <1>5, <1>6
<1>8. ASSUME NEW k \in 1..(n - 1), NEW l \in 1..(n - 1), r[k].timer = r[l].timer PROVE k = l
  <2>1. PICK i \in 1..n : i = (IF k < p THEN k ELSE k + 1) /\ r[k] = list[i]
    BY <1>6
  <2>2. PICK m \in 1..n : m = (IF l < p THEN l ELSE l + 1) /\ r[l] = list[m]
    BY <1>6
  <2>3. i = m
    BY <1>5, <1>8, <2>1, <2>2
  <2> QED
    BY <1>4, <2>1, <2>2, <2>3
<1>9. ASSUME NEW u \in B \ {t} PROVE \E k \in 1..(n - 1) : r[k].timer = u
  <2>1. PICK i \in 1..n : list[i].timer = u /\ i # p
    BY <1>5, <1>9
  <2>2. CASE i < p
    <3>1. i \in 1..(n - 1)
      BY <1>4, <2>2
    <3> QED
      BY <1>3, <2>1, <2>2, <3>1
  <2>3. CASE ~(i < p)
    <3>1. i - 1 \in 1..(n - 1) /\ ~(i - 1 < p) /\ (i - 1) + 1 = i
      BY <1>4, <2>1, <2>3
    <3>2. r[i - 1] = list[i]
      BY <1>3, <3>1
    <3> QED
      BY <2>1, <3>1, <3>2
  <2> QED
    BY <2>2, <2>3
<1>10. NodesOf(r, B \ {t}, turns)
  BY <1>3, <1>7, <1>8, <1>9 DEF NodesOf
<1> QED
  BY <1>2, <1>10

(* A wheel that has, for each timer in A, a node in slot pos[t] with       *)
(* turns[t] turns to go, and no other.                                     *)
Lies(w, A, pos, turns) ==
    /\ w \in [WheelSlots -> Seq(Nodes)]
    /\ \A s \in WheelSlots : NodesOf(w[s], {t \in A : pos[t] = s}, turns)

LEMMA LiesFrame ==
    ASSUME NEW w, NEW A, NEW pos, NEW turns, NEW pos2, NEW turns2, Lies(w, A, pos, turns),
           \A t \in A : pos2[t] = pos[t] /\ turns2[t] = turns[t]
    PROVE  Lies(w, A, pos2, turns2)
<1> SUFFICES ASSUME NEW s \in WheelSlots PROVE NodesOf(w[s], {t \in A : pos2[t] = s}, turns2)
  BY DEF Lies
<1>1. {t \in A : pos2[t] = s} = {t \in A : pos[t] = s}
  OBVIOUS
<1>2. NodesOf(w[s], {t \in A : pos[t] = s}, turns)
  BY DEF Lies
<1> QED
  BY <1>1, <1>2 DEF NodesOf

LEMMA LiesWith ==
    ASSUME NEW w, NEW A \in SUBSET Timers, NEW pos, NEW turns, Lies(w, A, pos, turns), NEW t \in Timers,
           t \notin A, pos[t] \in WheelSlots, turns[t] \in Nat
    PROVE  /\ Lies([w EXCEPT ![pos[t]] = <<Entry(t, turns[t])>> \o @], A \cup {t}, pos, turns)
           /\ Lies([w EXCEPT ![pos[t]] = Append(@, Entry(t, turns[t]))], A \cup {t}, pos, turns)
<1>1. PICK x \in WheelSlots : x = pos[t]
  OBVIOUS
<1>2. NodesOf(w[x], {u \in A : pos[u] = x}, turns) /\ w \in [WheelSlots -> Seq(Nodes)]
  BY DEF Lies
<1>3. ASSUME NEW new, NodesOf(new, {u \in A : pos[u] = x} \cup {t}, turns)
      PROVE  Lies([w EXCEPT ![x] = new], A \cup {t}, pos, turns)
  <2>1. new \in Seq(Nodes)
    BY <1>3 DEF NodesOf
  <2>2. PICK w2 : w2 = [w EXCEPT ![x] = new]
    OBVIOUS
  <2>3. w2 \in [WheelSlots -> Seq(Nodes)] /\ w2[x] = new /\ \A s \in WheelSlots : s # x => w2[s] = w[s]
    BY <1>2, <2>1, <2>2
  <2>4. ASSUME NEW s \in WheelSlots PROVE NodesOf(w2[s], {u \in A \cup {t} : pos[u] = s}, turns)
    <3>1. CASE s = x
      <4>1. {u \in A \cup {t} : pos[u] = s} = {u \in A : pos[u] = x} \cup {t}
        BY <1>1, <3>1
      <4> QED
        BY <1>3, <2>3, <3>1, <4>1
    <3>2. CASE s # x
      <4>1. {u \in A \cup {t} : pos[u] = s} = {u \in A : pos[u] = s}
        BY <1>1, <3>2
      <4>2. NodesOf(w[s], {u \in A : pos[u] = s}, turns)
        BY DEF Lies
      <4> QED
        BY <2>3, <3>2, <4>1, <4>2
    <3> QED
      BY <3>1, <3>2
  <2> QED
    BY <2>2, <2>3, <2>4 DEF Lies
<1>4. Lies([w EXCEPT ![x] = <<Entry(t, turns[t])>> \o w[x]], A \cup {t}, pos, turns)
  BY <1>2, <1>3, NodeAtHead
<1>5. Lies([w EXCEPT ![x] = Append(w[x], Entry(t, turns[t]))], A \cup {t}, pos, turns)
  BY <1>2, <1>3, NodeAtEnd
<1>6. /\ [w EXCEPT ![x] = <<Entry(t, turns[t])>> \o @] = [w EXCEPT ![x] = <<Entry(t, turns[t])>> \o w[x]]
      /\ [w EXCEPT ![x] = Append(@, Entry(t, turns[t]))] = [w EXCEPT ![x] = Append(w[x], Entry(t, turns[t]))]
  BY <1>2
<1> QED
  BY <1>1, <1>4, <1>5, <1>6


SlotsWith(w, t) == {s \in WheelSlots : \E i \in 1..Len(w[s]) : w[s][i].timer = t}

LEMMA SlotsWithIs ==
    ASSUME NEW w, NEW A \in SUBSET Timers, NEW pos \in [Timers -> WheelSlots], NEW turns, Lies(w, A, pos, turns),
           NEW t \in Timers
    PROVE  SlotsWith(w, t) = IF t \in A THEN {pos[t]} ELSE {}
<1>1. ASSUME NEW s \in WheelSlots
      PROVE  s \in SlotsWith(w, t) <=> t \in A /\ pos[t] = s
  <2>1. NodesOf(w[s], {u \in A : pos[u] = s}, turns)
    BY DEF Lies
  <2>2. s \in SlotsWith(w, t) <=> \E i \in 1..Len(w[s]) : w[s][i].timer = t
    BY DEF SlotsWith
  <2> QED
    BY <2>1, <2>2 DEF NodesOf
<1>2. pos[t] \in WheelSlots /\ SlotsWith(w, t) \subseteq WheelSlots
  BY DEF SlotsWith
<1> QED
  BY <1>1, <1>2

LEMMA UnarmedIs ==
    ASSUME NEW A \in SUBSET Timers, NEW pos \in [Timers -> WheelSlots], NEW turns, Lies(wheel, A, pos, turns),
           NEW t \in Timers
    PROVE  Lies(Unarmed(t), A \ {t}, pos, turns)
<1>1. Linked(t) = IF t \in A THEN {pos[t]} ELSE {}
  <2>1. Linked(t) = SlotsWith(wheel, t)
    BY DEF Linked, InSlot, SlotsWith, WheelSlots
  <2> QED
    BY <2>1, SlotsWithIs
<1>2. CASE t \notin A
  <2>1. A \ {t} = A /\ Unarmed(t) = wheel
    BY <1>1, <1>2 DEF Unarmed
  <2> QED
    BY <2>1
<1>3. CASE t \in A
  <2>1. PICK x \in WheelSlots : x = pos[t] /\ Linked(t) = {x}
    BY <1>1, <1>3
  <2>2. Min({x}) = x
    BY DEF Min, WheelSlots
  <2>3. PICK list : list = wheel[x] /\ NodesOf(list, {u \in A : pos[u] = x}, turns)
    BY DEF Lies
  <2>4. PICK new : new = RemoveFirstMatch(list, LAMBDA e : e.timer = t)
    OBVIOUS
  <2>5. Unarmed(t) = [wheel EXCEPT ![x] = new]
    <3>1. wheel \in [WheelSlots -> Seq(Nodes)]
      BY DEF Lies
    <3> QED
      BY <2>1, <2>2, <2>3, <2>4, <3>1 DEF Unarmed
  <2>6. NodesOf(new, {u \in A : pos[u] = x} \ {t}, turns)
    <3> DEFINE I == {i \in 1..Len(list) : list[i].timer = t}
               p == IF I # {} THEN Min(I) ELSE 0
    <3>1. new = IF \E i \in 1..Len(list) : list[i].timer = t THEN RemoveAt(list, p) ELSE list
      BY <2>4 DEF RemoveFirstMatch, SelectInSeq
    <3>2. PICK i \in 1..Len(list) : list[i].timer = t
      BY <1>3, <2>1, <2>3 DEF NodesOf
    <3>3. I \in SUBSET (Nat \ {0}) /\ I # {}
      BY <3>2
    <3>4. p # 0 /\ p \in I
      <4> HIDE DEF I
      <4> QED
        BY <3>3, FoundFirst
    <3>5. p \in 1..Len(list) /\ list[p].timer = t
      BY <3>4
    <3> HIDE DEF p, I
    <3>6. NodesOf(RemoveAt(list, p), {u \in A : pos[u] = x} \ {t}, turns)
      BY <2>3, <3>5, NodeGone
    <3> QED
      BY <3>1, <3>2, <3>6
  <2>7. PICK w : w = [wheel EXCEPT ![x] = new]
    OBVIOUS
  <2>8. w \in [WheelSlots -> Seq(Nodes)] /\ w[x] = new /\ \A s \in WheelSlots : s # x => w[s] = wheel[s]
    <3>1. new \in Seq(Nodes) /\ wheel \in [WheelSlots -> Seq(Nodes)]
      BY <2>6 DEF NodesOf, Lies
    <3> QED
      BY <2>7, <3>1
  <2>9. ASSUME NEW s \in WheelSlots PROVE NodesOf(w[s], {u \in A \ {t} : pos[u] = s}, turns)
    <3>1. CASE s = x
      <4>1. {u \in A \ {t} : pos[u] = s} = {u \in A : pos[u] = x} \ {t}
        BY <3>1
      <4> QED
        BY <2>6, <2>8, <3>1, <4>1
    <3>2. CASE s # x
      <4>1. {u \in A \ {t} : pos[u] = s} = {u \in A : pos[u] = s}
        BY <2>1, <3>2
      <4>2. NodesOf(wheel[s], {u \in A : pos[u] = s}, turns)
        BY DEF Lies
      <4> QED
        BY <2>8, <3>2, <4>1, <4>2
    <3> QED
      BY <3>1, <3>2
  <2> QED
    BY <2>5, <2>7, <2>8, <2>9 DEF Lies
<1> QED
  BY <1>2, <1>3

(* The ticks that a node in slot s with r turns is away from cursor c.     *)
TicksTo(s, r, c) == (r * Slots) + ((s - c - 1) % Slots) + 1

(* Where wheel_insert puts a timer: as many ticks ahead as was asked, and  *)
(* under the cursor itself only for a multiple of the wheel.               *)
PutOn(n, c, p) ==
    \E q \in Nat, s \in 0..(n - 1), w \in 0..(n - 1) :
        /\ q = (p - 1) \div n /\ s = (c + p) % n /\ w = (s - c - 1) % n
        /\ q * n \in Int /\ (q * n) + w + 1 = p /\ (s = c => p % n = 0)

LEMMA PutAhead ==
    ASSUME NEW n \in Nat \ {0}, NEW c \in 0..(n - 1), NEW p \in Nat \ {0}
    PROVE  PutOn(n, c, p)
<1>1. PICK q \in Nat, r \in 0..(n - 1) : q = (p - 1) \div n /\ p - 1 = n * q + r
  <2>1. PICK d \in Nat : d = p - 1
    OBVIOUS
  <2>2. d \in Int
    OBVIOUS
  <2>3. d \div n \in Nat /\ d % n \in 0..(n - 1) /\ d = n * (d \div n) + (d % n)
    BY <2>2, Divided
  <2> QED
    BY <2>1, <2>3, Zenon
<1>2. PICK m \in Int : m = n * q /\ q * n = m /\ n * (q + 1) = m + n
  BY Multiples
<1>3. p = m + r + 1
  BY <1>1, <1>2
<1>4. PICK s \in 0..(n - 1) : s = (c + p) % n
  BY Divided
<1>5. s = IF c + r + 1 <= n - 1 THEN c + r + 1 ELSE c + r + 1 - n
  <2>1. CASE c + r + 1 <= n - 1
    <3>1. PICK x \in Int, b \in 0..(n - 1) : x = c + p /\ b = c + r + 1
      BY <2>1
    <3>2. x = n * q + b
      BY <1>2, <1>3, <3>1
    <3>3. x % n = b
      BY <3>2, RemainderIs
    <3> QED
      BY <1>4, <2>1, <3>1, <3>3
  <2>2. CASE ~(c + r + 1 <= n - 1)
    <3>1. PICK x \in Int, b \in 0..(n - 1), a \in Int : x = c + p /\ b = c + r + 1 - n /\ a = q + 1
      BY <2>2
    <3>2. n * a = m + n
      BY <1>2, <3>1
    <3>3. x = n * a + b
      BY <1>3, <3>1, <3>2
    <3>4. x % n = b
      BY <3>3, RemainderIs
    <3> QED
      BY <1>4, <2>2, <3>1, <3>4
  <2> QED
    BY <2>1, <2>2
<1>6. PICK w \in 0..(n - 1) : w = (s - c - 1) % n /\ w = r
  <2>1. (s - c - 1) % n = IF s > c THEN s - c - 1 ELSE s - c - 1 + n
    BY Distance
  <2>2. (IF s > c THEN s - c - 1 ELSE s - c - 1 + n) = r
    BY <1>5
  <2> QED
    BY <2>1, <2>2
<1>7. ASSUME s = c PROVE p % n = 0
  <2>1. r + 1 = n
    BY <1>5, <1>7
  <2>2. PICK a \in Int, z \in 0..(n - 1) : a = q + 1 /\ z = 0
    OBVIOUS
  <2>3. n * a = m + n
    BY <1>2, <2>2
  <2>4. p = n * a + z
    BY <1>3, <2>1, <2>2, <2>3
  <2> QED
    BY <2>2, <2>4, RemainderIs
<1>8. (q * n) + w + 1 = p
  BY <1>2, <1>3, <1>6
<1> QED
  BY <1>1, <1>2, <1>4, <1>6, <1>7, <1>8 DEF PutOn

(* The cursor moves on by one.                                             *)
Nearing(n, c, s, a) ==
    \E d \in Nat, e \in Int :
        /\ d = (s - c - 1) % n /\ e = (s - a - 1) % n /\ a \in 0..(n - 1)
        /\ (s = a => d = 0 /\ e = n - 1) /\ (s # a => d # 0 /\ e = d - 1)

LEMMA SlotNears ==
    ASSUME NEW n \in Nat \ {0}, NEW c \in 0..(n - 1), NEW s \in 0..(n - 1), NEW a, a = (c + 1) % n
    PROVE  Nearing(n, c, s, a)
<1>1. a = (IF c = n - 1 THEN 0 ELSE c + 1) /\ a \in 0..(n - 1)
  <2>1. a = IF c = n - 1 THEN 0 ELSE c + 1
    BY NextSlot
  <2> QED
    BY <2>1
<1>2. PICK d : d = (s - c - 1) % n /\ d = IF s > c THEN s - c - 1 ELSE s - c - 1 + n
  BY Distance
<1>3. PICK e : e = (s - a - 1) % n /\ e = IF s > a THEN s - a - 1 ELSE s - a - 1 + n
  BY <1>1, Distance
<1>4. d \in Nat /\ e \in Int /\ (s = a => d = 0 /\ e = n - 1) /\ (s # a => d # 0 /\ e = d - 1)
  <2>1. CASE c = n - 1
    BY <1>1, <1>2, <1>3, <2>1
  <2>2. CASE c # n - 1
    BY <1>1, <1>2, <1>3, <2>2
  <2> QED
    BY <2>1, <2>2
<1> QED
  BY <1>1, <1>2, <1>3, <1>4 DEF Nearing

LEMMA SlotAhead ==
    ASSUME WheelAssumption, NEW c \in WheelSlots, NEW p \in Nat
    PROVE  /\ SlotFor(c, p) \in WheelSlots /\ Rounds(p) \in Nat
           /\ TicksTo(SlotFor(c, p), Rounds(p), c) = Span(p)
           /\ SlotFor(c, p) = c => Span(p) % Slots = 0
<1>1. PICK d \in Nat \ {0} : d = Span(p)
  BY DEF Span
<1>2. Slots \in Nat \ {0} /\ WheelSlots = 0..(Slots - 1)
  BY DEF WheelAssumption, WheelSlots
<1>3. PICK q \in Nat, s \in WheelSlots, w \in WheelSlots :
              /\ q = (d - 1) \div Slots /\ s = (c + d) % Slots /\ w = (s - c - 1) % Slots
              /\ q * Slots \in Int /\ (q * Slots) + w + 1 = d /\ (s = c => d % Slots = 0)
  <2>1. PICK n \in Nat \ {0} : n = Slots /\ WheelSlots = 0..(n - 1)
    BY <1>2
  <2>2. c \in 0..(n - 1)
    BY <2>1
  <2>3. PutOn(n, c, d)
    BY <1>1, <2>1, <2>2, PutAhead
  <2> QED
    BY <2>1, <2>3 DEF PutOn
<1>4. s = SlotFor(c, p) /\ q = Rounds(p)
  BY <1>1, <1>3 DEF SlotFor, Rounds
<1>5. TicksTo(s, q, c) = d
  BY <1>3 DEF TicksTo
<1> QED
  BY <1>1, <1>3, <1>4, <1>5

(* A tick on.                                                              *)
TickOn(s, r, c, a) ==
    /\ a \in WheelSlots /\ TicksTo(s, r, c) \in Nat \ {0}
    /\ TicksTo(s, r, c) = 1 <=> s = a /\ r = 0
    /\ s # a => TicksTo(s, r, a) = TicksTo(s, r, c) - 1
    /\ s = a /\ r > 0 => TicksTo(s, r - 1, a) = TicksTo(s, r, c) - 1

LEMMA TickNearer ==
    ASSUME WheelAssumption, NEW c \in WheelSlots, NEW s \in WheelSlots, NEW r \in Nat, NEW a, a = (c + 1) % Slots
    PROVE  TickOn(s, r, c, a)
<1>1. PICK n \in Nat \ {0} : n = Slots /\ WheelSlots = 0..(n - 1)
  BY DEF WheelAssumption, WheelSlots
<1>2. PICK d \in Nat, e \in Int :
         /\ d = (s - c - 1) % n /\ e = (s - a - 1) % n /\ a \in 0..(n - 1)
         /\ (s = a => d = 0 /\ e = n - 1) /\ (s # a => d # 0 /\ e = d - 1)
  <2>1. c \in 0..(n - 1) /\ s \in 0..(n - 1) /\ a = (c + 1) % n
    BY <1>1
  <2>2. Nearing(n, c, s, a)
    BY <1>1, <2>1, SlotNears
  <2> QED
    BY <2>2 DEF Nearing
<1>3. PICK m \in Int : m = r * n /\ (r > 0 => m >= n) /\ (r = 0 => m = 0) /\ (r - 1) * n = m - n
  <2>1. PICK k \in Int : k = r - 1
    OBVIOUS
  <2>2. /\ n * r \in Int /\ n * r = r * n /\ (r >= 1 => n * r >= n) /\ n * k = k * n
    BY Multiples
  <2>3. n * (k + 1) = (n * k) + n /\ n * k \in Int
    BY Multiples
  <2>4. k + 1 = r /\ (r > 0 => r >= 1)
    BY <2>1
  <2>5. r = 0 => r * n = 0
    OBVIOUS
  <2>6. PICK m \in Int, l \in Int : m = n * r /\ l = n * k /\ m = r * n /\ l = k * n
    BY <2>2, <2>3
  <2>7. m = l + n /\ (r > 0 => m >= n) /\ (r = 0 => m = 0)
    BY <2>2, <2>3, <2>4, <2>5, <2>6
  <2>8. l = m - n
    BY <2>7
  <2> QED
    BY <2>1, <2>6, <2>7, <2>8
<1>4. /\ TicksTo(s, r, c) = m + d + 1 /\ TicksTo(s, r, a) = m + e + 1
      /\ TicksTo(s, r - 1, a) = (m - n) + e + 1
  BY <1>1, <1>2, <1>3 DEF TicksTo
<1>5. /\ a \in WheelSlots /\ m >= 0 /\ (m = 0 <=> r = 0)
  BY <1>1, <1>2, <1>3
<1>6. PICK x, y, z : x = TicksTo(s, r, c) /\ y = TicksTo(s, r, a) /\ z = TicksTo(s, r - 1, a)
  OBVIOUS
<1>7. /\ x \in Nat \ {0} /\ (x = 1 <=> d = 0 /\ m = 0) /\ (s # a => y = x - 1)
      /\ (s = a => z = x - 1)
  BY <1>2, <1>4, <1>5, <1>6
<1>8. d = 0 <=> s = a
  BY <1>2
<1> QED
  BY <1>5, <1>6, <1>7, <1>8 DEF TickOn

(* What the wheel holds of each timer; an active timer is on it, and one   *)
(* that is not active may be: whoever got the slot of a timer that was     *)
(* deleted and then started late.                                          *)
Wheeled(w, num, act, A, pos, turns) ==
    /\ A \in SUBSET Timers /\ pos \in [Timers -> WheelSlots] /\ turns \in [Timers -> Nat]
    /\ Lies(w, A, pos, turns) /\ num = Cardinality(A)
    /\ \A t \in Timers : act[t] => t \in A
Described(w, num, act) == \E A, pos, turns : Wheeled(w, num, act, A, pos, turns)
WheelInv == WheelTypeOK /\ Described(wheel, nodes, active)

LeftOf(act, w, c, t) ==
    IF ~act[t] \/ SlotsWith(w, t) = {} THEN 0
    ELSE LET s == CHOOSE s \in SlotsWith(w, t) : TRUE
             i == CHOOSE i \in 1..Len(w[s]) : w[s][i].timer = t
         IN  TicksTo(s, w[s][i].rounds, c)

LEMMA LeftHere == \A t : Left(t) = LeftOf(active, wheel, cursor, t) /\ Left(t)' = LeftOf(active', wheel', cursor', t)
BY Zenon DEF Left, LeftOf, Linked, InSlot, SlotsWith, WheelSlots, TicksTo

LeftsAre(act, w, c, pos, turns) ==
    \A t \in Timers : LeftOf(act, w, c, t) = IF act[t] THEN TicksTo(pos[t], turns[t], c) ELSE 0

LEMMA LeftIs ==
    ASSUME NEW w, NEW num, NEW act, NEW A, NEW pos, NEW turns, Wheeled(w, num, act, A, pos, turns), NEW c
    PROVE  LeftsAre(act, w, c, pos, turns)
<1> SUFFICES ASSUME NEW t \in Timers
             PROVE  LeftOf(act, w, c, t) = IF act[t] THEN TicksTo(pos[t], turns[t], c) ELSE 0
  BY DEF LeftsAre
<1>1. CASE ~act[t]
  BY <1>1 DEF LeftOf
<1>2. CASE act[t]
  <2>1. PICK x \in WheelSlots : x = pos[t]
    BY DEF Wheeled
  <2>2. SlotsWith(w, t) = {x}
    BY <1>2, <2>1, SlotsWithIs DEF Wheeled
  <2>3. NodesOf(w[x], {u \in A : pos[u] = x}, turns) /\ t \in A
    BY <1>2 DEF Wheeled, Lies
  <2>4. PICK i : i = CHOOSE k \in 1..Len(w[x]) : w[x][k].timer = t
    OBVIOUS
  <2>5. i \in 1..Len(w[x]) /\ w[x][i].timer = t
    BY <2>1, <2>3, <2>4 DEF NodesOf
  <2>6. w[x][i].rounds = turns[t]
    BY <2>3, <2>5 DEF NodesOf
  <2>7. (CHOOSE s \in {x} : TRUE) = x
    OBVIOUS
  <2>8. LeftOf(act, w, c, t) = TicksTo(x, w[x][i].rounds, c)
    BY <1>2, <2>2, <2>4, <2>7 DEF LeftOf
  <2> QED
    BY <1>2, <2>1, <2>6, <2>8
<1> QED
  BY <1>1, <1>2

LEMMA NodesFit ==
    ASSUME WheelAssumption, SpareNode, NEW A \in SUBSET Timers
    PROVE  IsFiniteSet(A) /\ Cardinality(A) \in Nat /\ Cardinality(A) < PoolSize /\ PoolSize \in Nat
<1>1. IsFiniteSet(A) /\ Cardinality(A) <= Cardinality(Timers)
  BY FS_Subset DEF SpareNode
<1>2. Cardinality(A) \in Nat /\ Cardinality(Timers) \in Nat
  BY <1>1, FS_CardinalityType DEF SpareNode
<1> QED
  BY <1>1, <1>2 DEF SpareNode, WheelAssumption

LEMMA WheelTyped ==
    ASSUME WheelAssumption, SpareNode, NEW w, NEW num, NEW act, Described(w, num, act)
    PROVE  w \in [0..(Slots - 1) -> Seq([timer : Timers, rounds : Nat])] /\ num \in 0..PoolSize
<1>1. PICK A, pos, turns : Wheeled(w, num, act, A, pos, turns)
  BY DEF Described
<1>2. w \in [WheelSlots -> Seq(Nodes)] /\ A \in SUBSET Timers /\ num = Cardinality(A)
  BY <1>1 DEF Wheeled, Lies
<1>3. Cardinality(A) \in Nat /\ Cardinality(A) < PoolSize /\ PoolSize \in Nat
  BY <1>2, NodesFit
<1>4. Cardinality(A) \in 0..PoolSize
  BY <1>3
<1> QED
  BY <1>2, <1>4 DEF WheelSlots, Nodes

(* One timer after a call, the others left alone.                          *)
OneMoved(act, w, t, ticksLeft) ==
    \A u \in Timers : LeftOf(act, w, cursor, u) =
                         IF u = t THEN ticksLeft ELSE LeftOf(active, wheel, cursor, u)

LEMMA NodesWithoutIs ==
    ASSUME WheelAssumption, SpareNode, NEW A, NEW pos, NEW turns,
           Wheeled(wheel, nodes, active, A, pos, turns), NEW t \in Timers
    PROVE  NodesWithout(t) = Cardinality(A \ {t})
<1>1. Linked(t) = IF t \in A THEN {pos[t]} ELSE {}
  <2>1. Linked(t) = SlotsWith(wheel, t)
    BY DEF Linked, InSlot, SlotsWith, WheelSlots
  <2> QED
    BY <2>1, SlotsWithIs DEF Wheeled
<1>2. IsFiniteSet(A) /\ nodes = Cardinality(A)
  BY NodesFit DEF Wheeled
<1>3. Cardinality(A \ {t}) = IF t \in A THEN Cardinality(A) - 1 ELSE Cardinality(A)
  BY <1>2, FS_RemoveElement
<1> QED
  BY <1>1, <1>2, <1>3 DEF NodesWithout

LEMMA InsertIs ==
    ASSUME WheelAssumption, SpareNode, WheelInv, NEW t \in Timers, NEW p \in Nat, Insert(t, p),
           NEW act, act = [active EXCEPT ![t] = TRUE]
    PROVE  Described(wheel', nodes', act) /\ OneMoved(act, wheel', t, Span(p))
<1>1. PICK A, pos, turns : Wheeled(wheel, nodes, active, A, pos, turns)
  BY DEF WheelInv, Described
<1>2. /\ A \in SUBSET Timers /\ pos \in [Timers -> WheelSlots] /\ turns \in [Timers -> Nat]
      /\ Lies(wheel, A, pos, turns) /\ cursor \in WheelSlots /\ active \in [Timers -> BOOLEAN]
      /\ \A u \in Timers : active[u] => u \in A
  BY <1>1 DEF Wheeled, WheelInv, WheelTypeOK, WheelSlots
<1>3. PICK pos2, turns2 : /\ pos2 = [pos EXCEPT ![t] = SlotFor(cursor, p)]
                          /\ turns2 = [turns EXCEPT ![t] = Rounds(p)]
  OBVIOUS
<1>4. /\ SlotFor(cursor, p) \in WheelSlots /\ Rounds(p) \in Nat
      /\ TicksTo(SlotFor(cursor, p), Rounds(p), cursor) = Span(p)
  BY <1>2, SlotAhead
<1>5. /\ pos2 \in [Timers -> WheelSlots] /\ turns2 \in [Timers -> Nat]
      /\ pos2[t] = SlotFor(cursor, p) /\ turns2[t] = Rounds(p)
      /\ \A u \in Timers : u # t => pos2[u] = pos[u] /\ turns2[u] = turns[u]
  BY <1>2, <1>3, <1>4
<1>6. PICK B \in SUBSET Timers : B = A \ {t}
  BY <1>2
<1>7. NodesWithout(t) = Cardinality(B) /\ IsFiniteSet(B) /\ Cardinality(B) < PoolSize
  BY <1>1, <1>6, NodesWithoutIs, NodesFit
<1>8. wheel' = WithEntry(Unarmed(t), cursor, t, p) /\ nodes' = Cardinality(B) + 1
  BY <1>7 DEF Insert, HasNode
<1>9. Lies(Unarmed(t), B, pos2, turns2)
  <2>1. Lies(Unarmed(t), B, pos, turns)
    BY <1>2, <1>6, UnarmedIs
  <2>2. \A u \in B : pos2[u] = pos[u] /\ turns2[u] = turns[u]
    BY <1>5, <1>6
  <2> QED
    BY <2>1, <2>2, LiesFrame
<1>10. Lies(wheel', B \cup {t}, pos2, turns2)
  <2>1. t \notin B /\ pos2[t] \in WheelSlots /\ turns2[t] \in Nat
    BY <1>4, <1>5, <1>6
  <2>2. wheel' = [Unarmed(t) EXCEPT ![pos2[t]] = <<Entry(t, turns2[t])>> \o @]
    BY <1>5, <1>8 DEF WithEntry
  <2> QED
    BY <1>6, <1>9, <2>1, <2>2, LiesWith
<1>11. nodes' = Cardinality(B \cup {t})
  BY <1>6, <1>7, <1>8, FS_AddElement
<1>12. /\ act[t] /\ \A u \in Timers : u # t => act[u] = active[u]
       /\ \A u \in Timers : act[u] => u \in B \cup {t}
  BY <1>2, <1>6
<1>13. Wheeled(wheel', nodes', act, B \cup {t}, pos2, turns2)
  BY <1>5, <1>6, <1>10, <1>11, <1>12 DEF Wheeled
<1>14. ASSUME NEW u \in Timers
       PROVE  LeftOf(act, wheel', cursor, u) = IF u = t THEN Span(p) ELSE LeftOf(active, wheel, cursor, u)
  <2>1. LeftOf(act, wheel', cursor, u) = IF act[u] THEN TicksTo(pos2[u], turns2[u], cursor) ELSE 0
    <3>1. LeftsAre(act, wheel', cursor, pos2, turns2)
      BY <1>13, LeftIs
    <3> QED
      BY <3>1 DEF LeftsAre
  <2>2. LeftOf(active, wheel, cursor, u) = IF active[u] THEN TicksTo(pos[u], turns[u], cursor) ELSE 0
    <3>1. LeftsAre(active, wheel, cursor, pos, turns)
      BY <1>1, LeftIs
    <3> QED
      BY <3>1 DEF LeftsAre
  <2> QED
    BY <1>4, <1>5, <1>12, <2>1, <2>2
<1> QED
  BY <1>13, <1>14 DEF Described, OneMoved

LEMMA DisarmIs ==
    ASSUME WheelAssumption, SpareNode, WheelInv, NEW t \in Timers,
           NEW act, act = [active EXCEPT ![t] = FALSE]
    PROVE  /\ Described(Unarmed(t), NodesWithout(t), act) /\ OneMoved(act, Unarmed(t), t, 0)
           /\ Described(wheel, nodes, act) /\ OneMoved(act, wheel, t, 0)
<1>1. PICK A, pos, turns : Wheeled(wheel, nodes, active, A, pos, turns)
  BY DEF WheelInv, Described
<1>2. /\ A \in SUBSET Timers /\ pos \in [Timers -> WheelSlots] /\ turns \in [Timers -> Nat]
      /\ Lies(wheel, A, pos, turns) /\ active \in [Timers -> BOOLEAN] /\ nodes = Cardinality(A)
      /\ \A u \in Timers : active[u] => u \in A
  BY <1>1 DEF Wheeled, WheelInv, WheelTypeOK
<1>3. ~act[t] /\ \A u \in Timers : u # t => act[u] = active[u]
  BY <1>2
<1>4. Wheeled(Unarmed(t), NodesWithout(t), act, A \ {t}, pos, turns)
  <2>1. Lies(Unarmed(t), A \ {t}, pos, turns)
    BY <1>2, UnarmedIs
  <2>2. NodesWithout(t) = Cardinality(A \ {t})
    BY <1>1, NodesWithoutIs
  <2> QED
    BY <1>2, <1>3, <2>1, <2>2 DEF Wheeled
<1>5. Wheeled(wheel, nodes, act, A, pos, turns)
  BY <1>2, <1>3 DEF Wheeled
<1>6. ASSUME NEW u \in Timers
      PROVE  /\ LeftOf(act, Unarmed(t), cursor, u) = IF u = t THEN 0 ELSE LeftOf(active, wheel, cursor, u)
             /\ LeftOf(act, wheel, cursor, u) = IF u = t THEN 0 ELSE LeftOf(active, wheel, cursor, u)
  <2>1. LeftOf(act, Unarmed(t), cursor, u) = IF act[u] THEN TicksTo(pos[u], turns[u], cursor) ELSE 0
    <3>1. LeftsAre(act, Unarmed(t), cursor, pos, turns)
      BY <1>4, LeftIs
    <3> QED
      BY <3>1 DEF LeftsAre
  <2>2. LeftOf(act, wheel, cursor, u) = IF act[u] THEN TicksTo(pos[u], turns[u], cursor) ELSE 0
    <3>1. LeftsAre(act, wheel, cursor, pos, turns)
      BY <1>5, LeftIs
    <3> QED
      BY <3>1 DEF LeftsAre
  <2>3. LeftOf(active, wheel, cursor, u) = IF active[u] THEN TicksTo(pos[u], turns[u], cursor) ELSE 0
    <3>1. LeftsAre(active, wheel, cursor, pos, turns)
      BY <1>1, LeftIs
    <3> QED
      BY <3>1 DEF LeftsAre
  <2> QED
    BY <1>3, <2>1, <2>2, <2>3
<1> QED
  BY <1>4, <1>5, <1>6 DEF Described, OneMoved


LEMMA LeftMoves ==
    ASSUME NEW t \in Timers, NEW v, OneMoved(active', wheel', t, v), cursor' = cursor
    PROVE  [u \in Timers |-> Left(u)]' = [[u \in Timers |-> Left(u)] EXCEPT ![t] = v]
<1>1. \A u \in Timers : Left(u)' = IF u = t THEN v ELSE Left(u)
  BY LeftHere, Zenon DEF OneMoved
<1> QED
  BY <1>1

LEMMA LeftStays ==
    ASSUME UNCHANGED <<wheelVars, cursor>>
    PROVE  [u \in Timers |-> Left(u)]' = [u \in Timers |-> Left(u)]
<1>1. active' = active /\ wheel' = wheel /\ cursor' = cursor
  BY DEF wheelVars
<1>2. \A u : Left(u)' = Left(u)
  BY <1>1, LeftHere, Zenon
<1> QED
  BY <1>2

QueuesOK == cmds \in Seq(Commands) /\ Len(cmds) <= QueueLen /\ daemon \in Seq(Commands) /\ Len(daemon) <= 1

LEMMA StartKeeps ==
    ASSUME WheelAssumption, SpareNode, WheelInv, NEW t \in Timers, Start(t), QueuesOK'
    PROVE  WheelInv' /\ Ideal!Arm(t)
<1>1. /\ active' = [active EXCEPT ![t] = TRUE] /\ Insert(t, period[t])
      /\ UNCHANGED <<used, period, periodic, cursor>>
  BY DEF Start
<1>2. period[t] \in Nat /\ active \in [Timers -> BOOLEAN]
  <2>1. period \in [Timers -> Periods \cup {0}] /\ active \in [Timers -> BOOLEAN]
    BY DEF WheelInv, WheelTypeOK
  <2>2. Periods \cup {0} \subseteq Nat
    BY DEF WheelAssumption
  <2>3. period[t] \in Periods \cup {0}
    BY <2>1
  <2> QED
    BY <2>1, <2>2, <2>3
<1>3. Described(wheel', nodes', active') /\ OneMoved(active', wheel', t, Span(period[t]))
  BY <1>1, <1>2, InsertIs
<1>4. wheel' \in [0..(Slots - 1) -> Seq([timer : Timers, rounds : Nat])] /\ nodes' \in 0..PoolSize
  BY <1>3, WheelTyped
<1>5. active' \in [Timers -> BOOLEAN]
  BY <1>1, <1>2
<1>6. WheelTypeOK'
  BY <1>1, <1>4, <1>5 DEF WheelInv, WheelTypeOK, QueuesOK
<1>7. [u \in Timers |-> Left(u)]' = [[u \in Timers |-> Left(u)] EXCEPT ![t] = Span(period[t])]
  BY <1>1, <1>3, LeftMoves
<1>8. Span(period[t]) = Ideal!Span(period[t])
  BY DEF Span, Ideal!Span
<1> QED
  BY <1>1, <1>3, <1>6, <1>7, <1>8 DEF WheelInv, Ideal!Arm

LEMMA StopKeeps ==
    ASSUME WheelAssumption, SpareNode, WheelInv, NEW t \in Timers, Stop(t), QueuesOK'
    PROVE  WheelInv' /\ Ideal!Disarm(t)
<1>1. /\ active' = [active EXCEPT ![t] = FALSE] /\ wheel' = Unarmed(t) /\ nodes' = NodesWithout(t)
      /\ UNCHANGED <<used, period, periodic, cursor>>
  BY DEF Stop
<1>2. active \in [Timers -> BOOLEAN]
  BY DEF WheelInv, WheelTypeOK
<1>3. Described(wheel', nodes', active') /\ OneMoved(active', wheel', t, 0)
  BY <1>1, DisarmIs
<1>4. wheel' \in [0..(Slots - 1) -> Seq([timer : Timers, rounds : Nat])] /\ nodes' \in 0..PoolSize
  BY <1>3, WheelTyped
<1>5. active' \in [Timers -> BOOLEAN]
  BY <1>1, <1>2
<1>6. WheelTypeOK'
  BY <1>1, <1>4, <1>5 DEF WheelInv, WheelTypeOK, QueuesOK
<1>7. [u \in Timers |-> Left(u)]' = [[u \in Timers |-> Left(u)] EXCEPT ![t] = 0]
  BY <1>1, <1>3, LeftMoves
<1> QED
  BY <1>1, <1>3, <1>6, <1>7 DEF WheelInv, Ideal!Disarm

LEMMA ChangeKeeps ==
    ASSUME WheelAssumption, SpareNode, WheelInv, NEW t \in Timers, NEW p \in Periods, Change(t, p), QueuesOK'
    PROVE  WheelInv' /\ Ideal!Retime(t)
<1>1. /\ period' = [period EXCEPT ![t] = p] /\ UNCHANGED <<used, active, periodic, cursor>>
      /\ IF active[t] THEN Insert(t, p) ELSE UNCHANGED <<wheel, nodes>>
  BY DEF Change
<1>2. /\ active \in [Timers -> BOOLEAN] /\ period \in [Timers -> Periods \cup {0}] /\ cursor \in WheelSlots
      /\ p \in Nat \ {0}
  BY DEF WheelInv, WheelTypeOK, WheelAssumption, WheelSlots
<1>3. period'[t] = p /\ period' = [period EXCEPT ![t] = period'[t]] /\ period' \in [Timers -> Periods \cup {0}]
  BY <1>1, <1>2
<1>4. Span(p) = p
  BY <1>2 DEF Span
<1>5. PICK A, pos, turns : Wheeled(wheel, nodes, active, A, pos, turns)
  BY DEF WheelInv, Described
<1>6. Left(t) = IF active[t] THEN TicksTo(pos[t], turns[t], cursor) ELSE 0
  <2>1. LeftOf(active, wheel, cursor, t) = IF active[t] THEN TicksTo(pos[t], turns[t], cursor) ELSE 0
    <3>1. LeftsAre(active, wheel, cursor, pos, turns)
      BY <1>5, LeftIs
    <3> QED
      BY <3>1 DEF LeftsAre
  <2> QED
    BY <2>1, LeftHere
<1>7. CASE active[t]
  <2>1. Insert(t, p) /\ active' = active /\ active = [active EXCEPT ![t] = TRUE]
    BY <1>1, <1>2, <1>7
  <2>2. Described(wheel', nodes', active') /\ OneMoved(active', wheel', t, Span(p))
    BY <1>2, <2>1, InsertIs
  <2>3. wheel' \in [0..(Slots - 1) -> Seq([timer : Timers, rounds : Nat])] /\ nodes' \in 0..PoolSize
    BY <2>2, WheelTyped
  <2>4. WheelTypeOK'
    BY <1>1, <1>3, <2>3 DEF WheelInv, WheelTypeOK, QueuesOK
  <2>5. [u \in Timers |-> Left(u)]' = [[u \in Timers |-> Left(u)] EXCEPT ![t] = p]
    BY <1>1, <1>4, <2>2, LeftMoves
  <2>6. Left(t) > 0
    <3>1. pos[t] \in WheelSlots /\ turns[t] \in Nat
      BY <1>5 DEF Wheeled
    <3>2. TicksTo(pos[t], turns[t], cursor) \in Nat \ {0}
      <4>1. PICK a : a = (cursor + 1) % Slots
        OBVIOUS
      <4>2. TickOn(pos[t], turns[t], cursor, a)
        BY <1>2, <3>1, <4>1, TickNearer
      <4> QED
        BY <4>2 DEF TickOn
    <3> QED
      BY <1>6, <1>7, <3>2
  <2>7. [u \in Timers |-> Left(u)]' =
           [[u \in Timers |-> Left(u)] EXCEPT ![t] = IF @ > 0 THEN period'[t] ELSE 0]
    BY <1>3, <2>5, <2>6
  <2> QED
    BY <1>1, <1>3, <2>2, <2>4, <2>7 DEF WheelInv, Ideal!Retime
<1>8. CASE ~active[t]
  <2>1. UNCHANGED <<wheelVars, cursor>>
    BY <1>1, <1>8 DEF wheelVars
  <2>2. WheelTypeOK' /\ Described(wheel', nodes', active')
    BY <1>1, <1>3, <2>1 DEF WheelInv, WheelTypeOK, QueuesOK, wheelVars
  <2>3. [u \in Timers |-> Left(u)]' = [u \in Timers |-> Left(u)]
    BY <2>1, LeftStays
  <2>4. Left(t) = 0
    BY <1>6, <1>8
  <2>5. [u \in Timers |-> Left(u)]' =
           [[u \in Timers |-> Left(u)] EXCEPT ![t] = IF @ > 0 THEN period'[t] ELSE 0]
    BY <2>3, <2>4
  <2> QED
    BY <1>1, <1>3, <2>2, <2>5 DEF WheelInv, Ideal!Retime
<1> QED
  BY <1>7, <1>8

LEMMA TimerCreateKeeps ==
    ASSUME WheelAssumption, SpareNode, WheelInv, NEW t \in Timers, NEW p \in Periods, NEW auto \in BOOLEAN,
           TimerCreate(t, p, auto)
    PROVE  WheelInv' /\ Ideal!Assign(t)
<1>1. /\ used' = [used EXCEPT ![t] = TRUE] /\ period' = [period EXCEPT ![t] = p]
      /\ periodic' = [periodic EXCEPT ![t] = auto] /\ active' = [active EXCEPT ![t] = FALSE]
      /\ UNCHANGED <<wheel, nodes, cursor, cmds, daemon>>
  BY DEF TimerCreate, TimerAlloc
<1>2. WheelTypeOK
  BY DEF WheelInv
<1>3. /\ used' \in [Timers -> BOOLEAN] /\ active' \in [Timers -> BOOLEAN] /\ periodic' \in [Timers -> BOOLEAN]
      /\ period' \in [Timers -> Periods \cup {0}] /\ period'[t] = p /\ periodic'[t] = auto
  BY <1>1, <1>2 DEF WheelTypeOK
<1>4. Described(wheel', nodes', active') /\ OneMoved(active', wheel', t, 0)
  BY <1>1, DisarmIs
<1>5. WheelTypeOK'
  BY <1>1, <1>2, <1>3 DEF WheelTypeOK
<1>6. [u \in Timers |-> Left(u)]' = [[u \in Timers |-> Left(u)] EXCEPT ![t] = 0]
  BY <1>1, <1>4, LeftMoves
<1> QED
  BY <1>1, <1>3, <1>4, <1>5, <1>6 DEF WheelInv, Ideal!Assign

LEMMA TimerDeleteKeeps ==
    ASSUME WheelAssumption, SpareNode, WheelInv, NEW t \in Timers, TimerDelete(t)
    PROVE  WheelInv' /\ Ideal!Assign(t)
<1>1. /\ used' = [used EXCEPT ![t] = FALSE] /\ period' = [period EXCEPT ![t] = 0]
      /\ periodic' = [periodic EXCEPT ![t] = FALSE] /\ active' = [active EXCEPT ![t] = FALSE]
      /\ wheel' = Unarmed(t) /\ nodes' = NodesWithout(t) /\ UNCHANGED <<cursor, cmds, daemon>>
  BY DEF TimerDelete, TimerFreeSlot
<1>2. WheelTypeOK
  BY DEF WheelInv
<1>3. /\ used' \in [Timers -> BOOLEAN] /\ active' \in [Timers -> BOOLEAN] /\ periodic' \in [Timers -> BOOLEAN]
      /\ period' \in [Timers -> Periods \cup {0}] /\ period'[t] = 0 /\ periodic'[t] = FALSE
  BY <1>1, <1>2 DEF WheelTypeOK
<1>4. Described(wheel', nodes', active') /\ OneMoved(active', wheel', t, 0)
  BY <1>1, DisarmIs
<1>5. wheel' \in [0..(Slots - 1) -> Seq([timer : Timers, rounds : Nat])] /\ nodes' \in 0..PoolSize
  BY <1>4, WheelTyped
<1>6. WheelTypeOK'
  BY <1>1, <1>2, <1>3, <1>5 DEF WheelTypeOK
<1>7. [u \in Timers |-> Left(u)]' = [[u \in Timers |-> Left(u)] EXCEPT ![t] = 0]
  BY <1>1, <1>4, LeftMoves
<1> QED
  BY <1>1, <1>3, <1>4, <1>6, <1>7 DEF WheelInv, Ideal!Assign

(* A command on its way.                                                   *)
LEMMA PostedIs ==
    ASSUME WheelAssumption, NEW q \in Seq(Commands), Len(q) <= QueueLen, NEW c \in Commands
    PROVE  Posted(q, c) \in Seq(Commands) /\ Len(Posted(q, c)) <= QueueLen
BY DEF Posted, WheelAssumption

LEMMA QueueStepKeeps ==
    ASSUME WheelAssumption, WheelInv, UNCHANGED <<wheelVars, used, period, periodic, cursor>>, QueuesOK'
    PROVE  WheelInv' /\ UNCHANGED <<[u \in Timers |-> Left(u)], period, periodic>>
<1>1. [u \in Timers |-> Left(u)]' = [u \in Timers |-> Left(u)]
  BY LeftStays
<1>2. WheelTypeOK' /\ Described(wheel', nodes', active')
  BY DEF WheelInv, WheelTypeOK, QueuesOK, wheelVars
<1> QED
  BY <1>1, <1>2 DEF WheelInv


(* The tick's walk along its slot.                                         *)
WalkStates == [front : Seq(Nodes), prev : BOOLEAN, active : [Timers -> BOOLEAN],
               wheel : [WheelSlots -> Seq(Nodes)], nodes : Int, cmds : Seq(Commands)]
WalkStart == [front |-> << >>, prev |-> FALSE, active |-> active,
              wheel |-> wheel, nodes |-> nodes, cmds |-> cmds]
WalkStep(w, e, a) == IF e.rounds > 0 THEN Passed(w, e) ELSE Expired(w, e, a)
Walks(f, list, n, a) ==
    f = [i \in 0..n |-> IF i = 0 THEN WalkStart ELSE WalkStep(f[i - 1], list[i], a)]

LEMMA PassedIs ==
    ASSUME NEW w \in WalkStates, NEW e \in Nodes, e.rounds > 0, NEW r, r = Passed(w, e)
    PROVE  /\ r \in WalkStates /\ r.front = Append(w.front, Entry(e.timer, e.rounds - 1)) /\ r.prev
           /\ r.active = w.active /\ r.wheel = w.wheel /\ r.nodes = w.nodes /\ r.cmds = w.cmds
<1>1. PICK new : new = Append(w.front, Entry(e.timer, e.rounds - 1))
  OBVIOUS
<1>2. new \in Seq(Nodes)
  <2>1. e.rounds - 1 \in Nat /\ e.timer \in Timers
    BY DEF Nodes
  <2>2. Entry(e.timer, e.rounds - 1) \in Nodes
    BY <2>1 DEF Entry, Nodes
  <2>3. w.front \in Seq(Nodes)
    BY DEF WalkStates
  <2> QED
    BY <1>1, <2>2, <2>3
<1>3. r = [w EXCEPT !.front = new, !.prev = TRUE]
  BY <1>1 DEF Passed, WalkStates
<1> QED
  BY <1>1, <1>2, <1>3 DEF WalkStates

LEMMA ExpiredIs ==
    ASSUME WheelAssumption, WheelTypeOK, NEW a \in WheelSlots,
           NEW w \in WalkStates, NEW e \in Nodes, NEW t, t = e.timer, NEW r, r = Expired(w, e, a)
    PROVE  /\ r \in WalkStates
           /\ (w.prev \/ w.front = << >>) /\ HasNode(w.nodes) /\ SlotFor(a, period[t]) # a =>
                /\ r.front = w.front /\ r.prev = w.prev
                /\ r.active = IF w.active[t] /\ ~periodic[t] THEN [w.active EXCEPT ![t] = FALSE] ELSE w.active
                /\ r.wheel = IF w.active[t] /\ periodic[t] THEN WithEntry(w.wheel, a, t, period[t]) ELSE w.wheel
                /\ r.nodes = IF w.active[t] /\ periodic[t] THEN w.nodes ELSE w.nodes - 1
                /\ r.cmds = IF w.active[t] THEN Posted(w.cmds, Cmd("EXPIRE", t, 0)) ELSE w.cmds
<1>1. /\ t \in Timers /\ period[t] \in Nat /\ periodic[t] \in BOOLEAN
  <2>1. t \in Timers
    BY DEF Nodes
  <2>2. period \in [Timers -> Periods \cup {0}] /\ periodic \in [Timers -> BOOLEAN]
    BY DEF WheelTypeOK
  <2>3. Periods \cup {0} \subseteq Nat
    BY DEF WheelAssumption
  <2>4. period[t] \in Periods \cup {0}
    BY <2>1, <2>2
  <2> QED
    BY <2>1, <2>2, <2>3, <2>4
<1>2. SlotFor(a, period[t]) \in WheelSlots /\ Rounds(period[t]) \in Nat
  BY <1>1, SlotAhead
<1>3. PICK n \in Nodes : n = Entry(t, Rounds(period[t]))
  BY <1>1, <1>2 DEF Entry, Nodes
<1>4. PICK before \in Seq(Nodes) : before = (IF w.prev THEN w.front ELSE << >>)
                                   /\ (w.prev \/ w.front = << >> => before = w.front)
  <2>1. w.front \in Seq(Nodes) /\ << >> \in Seq(Nodes)
    BY DEF WalkStates
  <2> QED
    BY <2>1
<1>5. PICK q \in Seq(Commands) : q = Posted(w.cmds, Cmd("EXPIRE", t, 0))
  <2>1. PICK c \in Commands : c = Cmd("EXPIRE", t, 0)
    BY <1>1 DEF Commands
  <2>2. PICK old \in Seq(Commands) : old = w.cmds
    BY DEF WalkStates
  <2>3. Append(old, c) \in Seq(Commands)
    BY <2>1, <2>2
  <2>4. Posted(old, c) \in Seq(Commands)
    BY <2>2, <2>3 DEF Posted
  <2> QED
    BY <2>1, <2>2, <2>4
<1>6. PICK atHead \in Seq(Nodes) : atHead = <<n>> \o before
  <2>1. <<n>> \in Seq(Nodes)
    OBVIOUS
  <2> QED
    BY <2>1, Concatenated
<1>7. PICK other \in [WheelSlots -> Seq(Nodes)] : other = WithEntry(w.wheel, a, t, period[t])
  <2>1. w.wheel \in [WheelSlots -> Seq(Nodes)] /\ <<n>> \in Seq(Nodes)
    BY DEF WalkStates
  <2>2. <<n>> \o w.wheel[SlotFor(a, period[t])] \in Seq(Nodes)
    BY <1>2, <2>1, Concatenated
  <2> QED
    BY <1>2, <1>3, <2>1, <2>2 DEF WithEntry
<1>8. PICK fewer \in Int : fewer = w.nodes - 1 /\ fewer + 1 = w.nodes
  <2>1. w.nodes \in Int
    BY DEF WalkStates
  <2> QED
    BY <2>1
<1>8a. PICK gone \in WalkStates : gone = [w EXCEPT !.front = before, !.nodes = @ - 1]
  <2>1. [w EXCEPT !.front = before, !.nodes = @ - 1] = [w EXCEPT !.front = before, !.nodes = fewer]
    BY <1>8 DEF WalkStates
  <2>2. [w EXCEPT !.front = before, !.nodes = fewer] \in WalkStates
    BY DEF WalkStates
  <2> QED
    BY <2>1, <2>2
<1>9. PICK told \in WalkStates : told = [gone EXCEPT !.cmds = q]
  BY DEF WalkStates
<1>10. /\ gone.front = before /\ gone.prev = w.prev /\ gone.active = w.active /\ gone.wheel = w.wheel
       /\ gone.nodes = fewer /\ gone.cmds = w.cmds
       /\ told.front = before /\ told.prev = w.prev /\ told.active = w.active /\ told.wheel = w.wheel
       /\ told.nodes = fewer /\ told.cmds = q
  <2>1. gone = [w EXCEPT !.front = before, !.nodes = fewer]
    BY <1>8, <1>8a DEF WalkStates
  <2> QED
    BY <1>9, <2>1 DEF WalkStates
<1>11. r = IF ~w.active[t] THEN gone
           ELSE IF ~periodic[t] THEN [told EXCEPT !.active[t] = FALSE]
           ELSE IF ~HasNode(w.nodes) THEN told
           ELSE IF SlotFor(a, period[t]) = a
                THEN [told EXCEPT !.nodes = @ + 1, !.front = <<n>> \o @]
                ELSE [told EXCEPT !.nodes = @ + 1, !.wheel = WithEntry(@, a, t, period[t])]
  <2>1. w.cmds = gone.cmds
    BY <1>10
  <2>2. told = [gone EXCEPT !.cmds = Posted(@, Cmd("EXPIRE", t, 0))]
    BY <1>5, <1>9, <2>1 DEF WalkStates
  <2> QED
    BY <1>3, <1>4, <1>8a, <2>2, Zenon DEF Expired
<1>12. CASE ~w.active[t]
  BY <1>4, <1>8, <1>10, <1>11, <1>12
<1>13. CASE w.active[t] /\ ~periodic[t]
  <2>1. r = [told EXCEPT !.active[t] = FALSE]
    BY <1>11, <1>13
  <2>2. PICK less \in [Timers -> BOOLEAN] : less = [w.active EXCEPT ![t] = FALSE]
    <3>1. w.active \in [Timers -> BOOLEAN]
      BY DEF WalkStates
    <3> QED
      BY <3>1
  <2>3. r = [told EXCEPT !.active = less]
    BY <1>10, <2>1, <2>2
  <2>4. /\ r.front = before /\ r.prev = w.prev /\ r.active = less
        /\ r.wheel = w.wheel /\ r.nodes = fewer /\ r.cmds = q /\ r \in WalkStates
    BY <1>10, <2>3 DEF WalkStates
  <2> QED
    BY <1>4, <1>5, <1>8, <1>13, <2>2, <2>4
<1>14. CASE w.active[t] /\ periodic[t] /\ ~HasNode(w.nodes)
  BY <1>11, <1>14
<1>15. CASE w.active[t] /\ periodic[t] /\ HasNode(w.nodes) /\ SlotFor(a, period[t]) = a
  <2>1. r = [told EXCEPT !.nodes = @ + 1, !.front = <<n>> \o @]
    BY <1>11, <1>15
  <2>2. r = [told EXCEPT !.nodes = w.nodes, !.front = atHead]
    BY <1>6, <1>8, <1>10, <2>1
  <2>3. r \in WalkStates
    <3>1. w.nodes \in Int
      BY DEF WalkStates
    <3> QED
      BY <2>2, <3>1 DEF WalkStates
  <2> QED
    BY <1>15, <2>3
<1>16. CASE w.active[t] /\ periodic[t] /\ HasNode(w.nodes) /\ SlotFor(a, period[t]) # a
  <2>1. r = [told EXCEPT !.nodes = @ + 1, !.wheel = WithEntry(@, a, t, period[t])]
    BY <1>11, <1>16
  <2>2. r = [told EXCEPT !.nodes = w.nodes, !.wheel = other]
    BY <1>7, <1>8, <1>10, <2>1
  <2>3. w.nodes \in Int
    BY DEF WalkStates
  <2>4. /\ r.front = before /\ r.prev = w.prev /\ r.active = w.active
        /\ r.wheel = other /\ r.nodes = w.nodes /\ r.cmds = q /\ r \in WalkStates
    BY <1>10, <2>2, <2>3 DEF WalkStates
  <2> QED
    BY <1>4, <1>5, <1>7, <1>16, <2>4
<1> QED
  BY <1>1, <1>12, <1>13, <1>14, <1>15, <1>16

LEMMA WalkStartIs ==
    ASSUME WheelAssumption, WheelTypeOK
    PROVE  /\ WalkStart \in WalkStates /\ WalkStart.front = << >> /\ WalkStart.wheel = wheel
           /\ WalkStart.active = active /\ WalkStart.nodes = nodes /\ WalkStart.cmds = cmds
<1>1. /\ active \in [Timers -> BOOLEAN] /\ wheel \in [WheelSlots -> Seq(Nodes)] /\ cmds \in Seq(Commands)
  BY DEF WheelTypeOK, WheelSlots, Nodes
<1>2. nodes \in Int
  BY DEF WheelTypeOK
<1>3. << >> \in Seq(Nodes)
  OBVIOUS
<1> QED
  BY <1>1, <1>2, <1>3 DEF WalkStart, WalkStates

LEMMA WalksExist ==
    ASSUME WheelAssumption, WheelTypeOK, NEW a \in WheelSlots, NEW n \in Nat, NEW list \in Seq(Nodes), Len(list) = n
    PROVE  \E f : Walks(f, list, n, a)
<1> DEFINE step == [x \in (1..n) \X WalkStates |-> WalkStep(x[2], list[x[1]], a)]
<1>1. step \in [(1..n) \X WalkStates -> WalkStates]
  <2> SUFFICES ASSUME NEW i \in 1..n, NEW w \in WalkStates PROVE WalkStep(w, list[i], a) \in WalkStates
    BY Zenon
  <2>1. PICK e \in Nodes : e = list[i]
    OBVIOUS
  <2>2. e.rounds > 0 => Passed(w, e) \in WalkStates
    BY PassedIs
  <2>3. Expired(w, e, a) \in WalkStates
    BY ExpiredIs
  <2> QED
    BY <2>1, <2>2, <2>3 DEF WalkStep
<1>2. WalkStart \in WalkStates
  BY WalkStartIs
<1> HIDE DEF step
<1>3. PICK f \in [0..n -> WalkStates] : StepsOf(f, n, WalkStart, step)
  BY <1>1, <1>2, StepsExist
<1>4. \A i \in 1..n : f[i] = WalkStep(f[i - 1], list[i], a)
  <2> SUFFICES ASSUME NEW i \in 1..n PROVE f[i] = WalkStep(f[i - 1], list[i], a)
    OBVIOUS
  <2>1. f[i - 1] \in WalkStates
    <3>1. i - 1 \in 0..n
      OBVIOUS
    <3> QED
      BY <3>1
  <2>2. f[i] = step[<<i, f[i - 1]>>]
    BY <1>3 DEF StepsOf
  <2> QED
    BY <2>1, <2>2 DEF step
<1>5. Walks(f, list, n, a)
  <2>1. f[0] = WalkStart /\ \A i \in 0..n : i = 0 \/ i \in 1..n
    BY <1>3 DEF StepsOf
  <2>2. \A i \in 0..n : f[i] = IF i = 0 THEN WalkStart ELSE WalkStep(f[i - 1], list[i], a)
    BY <1>4, <2>1
  <2> QED
    BY <2>2 DEF Walks
<1> QED
  BY <1>5


(* What the tick reports in the queue: each of X once, as far as there is  *)
(* room.                                                                   *)
Reported(q, X) ==
    /\ q \in Seq(Commands) /\ Len(q) \in Len(cmds)..QueueLen /\ IsFiniteSet(X)
    /\ \A k \in 1..Len(cmds) : q[k] = cmds[k]
    /\ \A k \in (Len(cmds) + 1)..Len(q) : \E t \in X : q[k] = Cmd("EXPIRE", t, 0)
    /\ \A k, l \in (Len(cmds) + 1)..Len(q) : q[k] = q[l] => k = l
    /\ Len(q) - Len(cmds) = IF Cardinality(X) <= QueueLen - Len(cmds) THEN Cardinality(X) ELSE QueueLen - Len(cmds)

LEMMA ReportedMore ==
    ASSUME WheelAssumption, WheelTypeOK, NEW q, NEW X \in SUBSET Timers, Reported(q, X),
           NEW t \in Timers, t \notin X
    PROVE  Reported(Posted(q, Cmd("EXPIRE", t, 0)), X \cup {t})
<1>1. PICK m \in Nat, l \in Nat, x \in Nat, room \in Nat :
         m = Len(cmds) /\ l = Len(q) /\ x = Cardinality(X) /\ room = QueueLen /\ q \in Seq(Commands)
  BY FS_CardinalityType DEF Reported, WheelTypeOK, WheelAssumption
<1>2. /\ m <= l /\ l <= room /\ l - m = IF x <= room - m THEN x ELSE room - m
      /\ \A k \in 1..m : q[k] = cmds[k]
      /\ \A k \in (m + 1)..l : \E u \in X : q[k] = Cmd("EXPIRE", u, 0)
      /\ \A k, i \in (m + 1)..l : q[k] = q[i] => k = i
  BY <1>1 DEF Reported
<1>3. IsFiniteSet(X \cup {t}) /\ Cardinality(X \cup {t}) = x + 1
  BY <1>1, FS_AddElement DEF Reported
<1>4. PICK c \in Commands : c = Cmd("EXPIRE", t, 0) /\ c.timer = t
  <2>1. Cmd("EXPIRE", t, 0) \in Commands
    BY DEF Commands
  <2>2. Cmd("EXPIRE", t, 0).timer = t
    BY DEF Cmd
  <2> QED
    BY <2>1, <2>2
<1>5. CASE l < room
  <2>1. PICK r : r = Append(q, c) /\ r = Posted(q, c)
    BY <1>1, <1>5 DEF Posted
  <2>2. r \in Seq(Commands) /\ Len(r) = l + 1 /\ r[l + 1] = c /\ \A k \in 1..l : r[k] = q[k]
    BY <1>1, <1>4, <2>1
  <2>3. \A k \in 1..m : r[k] = cmds[k]
    <3>1. \A k \in 1..m : k \in 1..l
      BY <1>2
    <3> QED
      BY <1>2, <2>2, <3>1
  <2>4. \A k \in (m + 1)..(l + 1) : k = l + 1 \/ (k \in (m + 1)..l /\ r[k] = q[k])
    <3>1. \A k \in (m + 1)..(l + 1) : k = l + 1 \/ (k \in (m + 1)..l /\ k \in 1..l)
      OBVIOUS
    <3> QED
      BY <2>2, <3>1
  <2>5. \A k \in (m + 1)..(l + 1) : \E u \in X \cup {t} : r[k] = Cmd("EXPIRE", u, 0)
    BY <1>2, <1>4, <2>2, <2>4
  <2>6. \A k \in (m + 1)..l : q[k] # c
    <3>1. \A u : Cmd("EXPIRE", u, 0).timer = u
      BY DEF Cmd
    <3> QED
      BY <1>2, <1>4, <3>1
  <2>7. \A k, i \in (m + 1)..(l + 1) : r[k] = r[i] => k = i
    BY <1>2, <2>2, <2>4, <2>6
  <2>8. l + 1 \in m..room /\ (l + 1) - m = IF x + 1 <= room - m THEN x + 1 ELSE room - m
    BY <1>2, <1>5
  <2>9. Reported(r, X \cup {t})
    BY <1>1, <1>3, <2>2, <2>3, <2>5, <2>7, <2>8 DEF Reported
  <2> QED
    BY <1>4, <2>1, <2>9
<1>6. CASE ~(l < room)
  <2>1. Posted(q, c) = q
    BY <1>1, <1>6 DEF Posted
  <2>2. l \in m..room /\ l - m = IF x + 1 <= room - m THEN x + 1 ELSE room - m
    BY <1>2, <1>6
  <2>3. \A k \in (m + 1)..l : \E u \in X \cup {t} : q[k] = Cmd("EXPIRE", u, 0)
    BY <1>2
  <2>4. Reported(q, X \cup {t})
    BY <1>1, <1>2, <1>3, <2>2, <2>3 DEF Reported
  <2> QED
    BY <1>4, <2>1, <2>4
<1> QED
  BY <1>5, <1>6

(* The timers whose time has come, those of them that are not put back,    *)
(* and where the tick leaves everyone.                                     *)
DueAt(A, pos, turns, a) == {t \in A : pos[t] = a /\ turns[t] = 0}
Ending(D) == {t \in D : ~(active[t] /\ periodic[t])}
PosAfter(D, pos, a) == [t \in Timers |-> IF t \in D THEN SlotFor(a, period[t]) ELSE pos[t]]
TurnsAfter(D, pos, turns, a) ==
    [t \in Timers |-> IF t \in D THEN Rounds(period[t])
                      ELSE IF pos[t] = a /\ turns[t] > 0 THEN turns[t] - 1 ELSE turns[t]]
Seen(list, i) == {list[k].timer : k \in 1..i}
Rest(list, i) == {list[k].timer : k \in (i + 1)..Len(list)}

(* The walk after i nodes of the list.                                     *)
WalkOK(w, i, list, a, A, D, pos2, turns2) ==
    /\ w \in WalkStates /\ (w.prev \/ w.front = << >>)
    /\ Lies([w.wheel EXCEPT ![a] = w.front], (A \ Ending(D)) \ Rest(list, i), pos2, turns2)
    /\ \A t \in Timers : w.active[t] = (active[t] /\ ~(t \in D /\ t \in Seen(list, i) /\ ~periodic[t]))
    /\ w.nodes = Cardinality(A \ (Ending(D) \cap Seen(list, i)))
    /\ Reported(w.cmds, {t \in D \cap Seen(list, i) : active[t]})

OneMoreSeen(list, i, t) ==
    /\ t \notin Seen(list, i) /\ Seen(list, i + 1) = Seen(list, i) \cup {t}
    /\ t \notin Rest(list, i + 1) /\ Rest(list, i) = Rest(list, i + 1) \cup {t}

LEMMA SeenOneMore ==
    ASSUME NEW n \in Nat, NEW list \in Seq(Nodes), Len(list) = n,
           \A i, k \in 1..n : list[i].timer = list[k].timer => i = k,
           NEW i \in 0..n, i # n, NEW t, t = list[i + 1].timer
    PROVE  OneMoreSeen(list, i, t)
<1>1. /\ i + 1 \in 1..n /\ \A k \in 1..i : k \in 1..n /\ k # i + 1
      /\ \A k \in ((i + 1) + 1)..n : k \in 1..n /\ k # i + 1
  OBVIOUS
<1>2. /\ \A k : k \in 1..(i + 1) <=> k \in 1..i \/ k = i + 1
      /\ \A k : k \in (i + 1)..n <=> k \in ((i + 1) + 1)..n \/ k = i + 1
  OBVIOUS
<1>3. t \notin Seen(list, i) /\ t \notin Rest(list, i + 1)
  BY <1>1 DEF Seen, Rest
<1>4. Seen(list, i + 1) = Seen(list, i) \cup {t}
  BY <1>2 DEF Seen
<1>5. Rest(list, i) = Rest(list, i + 1) \cup {t}
  BY <1>2 DEF Rest
<1> QED
  BY <1>3, <1>4, <1>5 DEF OneMoreSeen

LEMMA WalkStarts ==
    ASSUME WheelAssumption, SpareNode, WheelTypeOK, NEW A, NEW pos, NEW turns,
           Wheeled(wheel, nodes, active, A, pos, turns),
           NEW a \in WheelSlots, NEW list, list = wheel[a], NEW D, D = DueAt(A, pos, turns, a),
           NEW pos2, pos2 = PosAfter(D, pos, a), NEW turns2, turns2 = TurnsAfter(D, pos, turns, a)
    PROVE  WalkOK(WalkStart, 0, list, a, A, D, pos2, turns2)
<1>1. /\ A \in SUBSET Timers /\ pos \in [Timers -> WheelSlots] /\ turns \in [Timers -> Nat]
      /\ Lies(wheel, A, pos, turns) /\ nodes = Cardinality(A)
  BY DEF Wheeled
<1>2. WalkStart \in WalkStates /\ WalkStart.front = << >> /\ WalkStart.wheel = wheel /\ WalkStart.active = active
      /\ WalkStart.nodes = nodes /\ WalkStart.cmds = cmds
  BY WalkStartIs
<1>3. Seen(list, 0) = {}
  BY DEF Seen
<1>4. Rest(list, 0) = {t \in A : pos[t] = a}
  <2>1. NodesOf(list, {t \in A : pos[t] = a}, turns)
    BY <1>1 DEF Lies
  <2>2. Rest(list, 0) = {list[k].timer : k \in 1..Len(list)}
    BY DEF Rest
  <2> QED
    BY <2>1, <2>2 DEF NodesOf
<1>5. PICK B : B = (A \ Ending(D)) \ Rest(list, 0)
  OBVIOUS
<1>6. \A t \in B : t \in A /\ pos[t] # a /\ pos2[t] = pos[t] /\ turns2[t] = turns[t]
  BY <1>1, <1>4, <1>5 DEF DueAt, PosAfter, TurnsAfter
<1>7. \A t \in A : pos[t] # a => t \in B
  BY <1>4, <1>5 DEF DueAt, Ending
<1>8. PICK w : w = [wheel EXCEPT ![a] = << >>]
  OBVIOUS
<1>9. w \in [WheelSlots -> Seq(Nodes)] /\ w[a] = << >> /\ \A s \in WheelSlots : s # a => w[s] = wheel[s]
  BY <1>1, <1>8 DEF Lies
<1>10. Lies(w, B, pos2, turns2)
  <2> SUFFICES ASSUME NEW s \in WheelSlots PROVE NodesOf(w[s], {t \in B : pos2[t] = s}, turns2)
    BY <1>9 DEF Lies
  <2>1. CASE s = a
    <3>1. {t \in B : pos2[t] = s} = {}
      BY <1>6, <2>1
    <3>2. NodesOf(<< >>, {}, turns2)
      BY DEF NodesOf
    <3> QED
      BY <1>9, <2>1, <3>1, <3>2
  <2>2. CASE s # a
    <3>1. {t \in B : pos2[t] = s} = {t \in A : pos[t] = s}
      BY <1>6, <1>7, <2>2
    <3>2. NodesOf(wheel[s], {t \in A : pos[t] = s}, turns)
      BY <1>1 DEF Lies
    <3>3. \A t \in {u \in A : pos[u] = s} : turns2[t] = turns[t]
      BY <1>6, <1>7, <2>2
    <3>4. NodesOf(wheel[s], {t \in A : pos[t] = s}, turns2)
      BY <3>2, <3>3 DEF NodesOf
    <3> QED
      BY <1>9, <2>2, <3>1, <3>4
  <2> QED
    BY <2>1, <2>2
<1>11. Reported(cmds, {})
  <2>1. PICK m \in Nat, room \in Nat : m = Len(cmds) /\ room = QueueLen /\ m <= room /\ cmds \in Seq(Commands)
    BY DEF WheelTypeOK, WheelAssumption
  <2>2. m \in m..room /\ m - m = (IF 0 <= room - m THEN 0 ELSE room - m) /\ (m + 1)..m = {}
    BY <2>1
  <2> QED
    BY <2>1, <2>2, FS_EmptySet DEF Reported
<1>12. {t \in D \cap Seen(list, 0) : active[t]} = {} /\ A \ (Ending(D) \cap Seen(list, 0)) = A
  BY <1>3
<1>13. active \in [Timers -> BOOLEAN] /\ \A t \in Timers : active[t] = (active[t] /\ ~(t \in D /\ t \in Seen(list, 0) /\ ~periodic[t]))
  BY <1>3 DEF WheelTypeOK
<1> QED
  BY <1>1, <1>2, <1>5, <1>8, <1>10, <1>11, <1>12, <1>13 DEF WalkOK


LEMMA WalkGoesOn ==
    ASSUME WheelAssumption, SpareNode, NoMultiple, WheelTypeOK, NEW A, NEW pos, NEW turns,
           Wheeled(wheel, nodes, active, A, pos, turns),
           NEW a \in WheelSlots, NEW list, list = wheel[a], NEW n, n = Len(list),
           NEW D, D = DueAt(A, pos, turns, a), NEW pos2, pos2 = PosAfter(D, pos, a),
           NEW turns2, turns2 = TurnsAfter(D, pos, turns, a),
           NEW i \in 0..n, i # n, NEW w, WalkOK(w, i, list, a, A, D, pos2, turns2),
           NEW r, r = WalkStep(w, list[i + 1], a), NEW j, j = i + 1
    PROVE  WalkOK(r, j, list, a, A, D, pos2, turns2)
<1> SUFFICES WalkOK(r, i + 1, list, a, A, D, pos2, turns2)
  OBVIOUS
<1>1. /\ A \in SUBSET Timers /\ pos \in [Timers -> WheelSlots] /\ turns \in [Timers -> Nat]
      /\ Lies(wheel, A, pos, turns) /\ D \in SUBSET A
      /\ active \in [Timers -> BOOLEAN] /\ periodic \in [Timers -> BOOLEAN]
  BY DEF Wheeled, DueAt, WheelTypeOK
<1>2. NodesOf(list, {t \in A : pos[t] = a}, turns)
  BY <1>1 DEF Lies
<1>3. /\ list \in Seq(Nodes) /\ n \in Nat /\ i + 1 \in 1..n
      /\ \A k, l \in 1..n : list[k].timer = list[l].timer => k = l
  BY <1>2 DEF NodesOf
<1>4. PICK e \in Nodes : e = list[i + 1]
  BY <1>3
<1>5. PICK t \in Timers : t = e.timer /\ t \in A /\ pos[t] = a /\ turns[t] = e.rounds /\ e.rounds \in Nat
  BY <1>1, <1>2, <1>3, <1>4 DEF NodesOf, Nodes
<1>6. PICK S0, S1, R0, R1 : /\ S0 = Seen(list, i) /\ S1 = Seen(list, i + 1)
                            /\ R0 = Rest(list, i) /\ R1 = Rest(list, i + 1)
  OBVIOUS
<1>7. t \notin S0 /\ S1 = S0 \cup {t} /\ t \notin R1 /\ R0 = R1 \cup {t}
  <2>1. OneMoreSeen(list, i, t)
    BY <1>3, <1>4, <1>5, SeenOneMore
  <2> QED
    BY <1>6, <2>1 DEF OneMoreSeen
<1>8. PICK E, B0, B1 : E = Ending(D) /\ B0 = (A \ E) \ R0 /\ B1 = (A \ E) \ R1
  OBVIOUS
<1>9. /\ w \in WalkStates /\ (w.prev \/ w.front = << >>)
      /\ \A u \in Timers : w.active[u] = (active[u] /\ ~(u \in D /\ u \in S0 /\ ~periodic[u]))
      /\ w.nodes = Cardinality(A \ (E \cap S0))
      /\ Reported(w.cmds, {u \in D \cap S0 : active[u]})
  BY <1>6, <1>8 DEF WalkOK
<1>10. PICK v : v = [w.wheel EXCEPT ![a] = w.front]
  OBVIOUS
<1>11. Lies(v, B0, pos2, turns2)
  BY <1>6, <1>8, <1>10 DEF WalkOK
<1>12. /\ w.wheel \in [WheelSlots -> Seq(Nodes)] /\ w.front \in Seq(Nodes) /\ v[a] = w.front
       /\ v \in [WheelSlots -> Seq(Nodes)] /\ w.active \in [Timers -> BOOLEAN]
       /\ \A s \in WheelSlots : s # a => v[s] = w.wheel[s]
  BY <1>9, <1>10 DEF WalkStates
<1>13. B0 \in SUBSET Timers /\ t \notin B0
  BY <1>1, <1>7, <1>8
<1>14. E \in SUBSET D /\ (t \in E <=> t \in D /\ ~(active[t] /\ periodic[t]))
  BY <1>8 DEF Ending
<1>15. CASE e.rounds > 0
  <2>1. /\ r \in WalkStates /\ r.front = Append(w.front, Entry(t, e.rounds - 1)) /\ r.prev
        /\ r.active = w.active /\ r.wheel = w.wheel /\ r.nodes = w.nodes /\ r.cmds = w.cmds
    <3>1. r = Passed(w, e)
      BY <1>4, <1>15 DEF WalkStep
    <3> QED
      BY <1>5, <1>9, <1>15, <3>1, PassedIs
  <2>2. t \notin D /\ t \notin E /\ pos2[t] = a /\ turns2[t] = e.rounds - 1 /\ turns2[t] \in Nat
    <3>1. t \notin D
      BY <1>5, <1>15 DEF DueAt
    <3> QED
      BY <1>5, <1>14, <1>15, <3>1 DEF PosAfter, TurnsAfter
  <2>3. B1 = B0 \cup {t}
    BY <1>5, <1>7, <1>8, <2>2
  <2>4. Lies([v EXCEPT ![a] = Append(@, Entry(t, turns2[t]))], B1, pos2, turns2)
    BY <1>11, <1>13, <2>2, <2>3, LiesWith
  <2>5. [v EXCEPT ![a] = Append(@, Entry(t, turns2[t]))] = [r.wheel EXCEPT ![a] = r.front]
    <3>1. [v EXCEPT ![a] = Append(@, Entry(t, turns2[t]))] = [v EXCEPT ![a] = r.front]
      BY <1>12, <2>1, <2>2
    <3>2. [v EXCEPT ![a] = r.front] = [r.wheel EXCEPT ![a] = r.front]
      BY <1>10, <1>12, <2>1
    <3> QED
      BY <3>1, <3>2
  <2>6. D \cap S1 = D \cap S0 /\ E \cap S1 = E \cap S0
    BY <1>7, <1>14, <2>2
  <2>7. \A u \in Timers : r.active[u] = (active[u] /\ ~(u \in D /\ u \in S1 /\ ~periodic[u]))
    BY <1>9, <2>1, <2>6
  <2>8. Reported(r.cmds, {u \in D \cap S1 : active[u]}) /\ r.nodes = Cardinality(A \ (E \cap S1))
    BY <1>9, <2>1, <2>6
  <2>9. Lies([r.wheel EXCEPT ![a] = r.front], B1, pos2, turns2)
    BY <2>4, <2>5
  <2> QED
    BY <1>6, <1>8, <2>1, <2>7, <2>8, <2>9 DEF WalkOK
<1>16. CASE ~(e.rounds > 0)
  <2>1. t \in D /\ pos2[t] = SlotFor(a, period[t]) /\ turns2[t] = Rounds(period[t])
    <3>1. t \in D
      BY <1>5, <1>16 DEF DueAt
    <3> QED
      BY <3>1 DEF PosAfter, TurnsAfter
  <2>2. period[t] \in Nat /\ period[t] \in Periods \cup {0}
    <3>1. period \in [Timers -> Periods \cup {0}]
      BY DEF WheelTypeOK
    <3>2. Periods \cup {0} \subseteq Nat
      BY DEF WheelAssumption
    <3>3. period[t] \in Periods \cup {0}
      BY <3>1
    <3> QED
      BY <3>2, <3>3
  <2>3. pos2[t] \in WheelSlots /\ turns2[t] \in Nat /\ pos2[t] # a
    <3>1. SlotFor(a, period[t]) \in WheelSlots /\ Rounds(period[t]) \in Nat
          /\ (SlotFor(a, period[t]) = a => Span(period[t]) % Slots = 0)
      BY <2>2, SlotAhead
    <3>2. Span(period[t]) \in Periods \cup {1}
      BY <2>2 DEF Span
    <3>3. Span(period[t]) % Slots # 0
      BY <3>2 DEF NoMultiple
    <3> QED
      BY <2>1, <3>1, <3>3
  <2>4. PICK C \in SUBSET Timers : C = A \ (E \cap S0)
    BY <1>1
  <2>5. w.nodes = Cardinality(C) /\ IsFiniteSet(C) /\ Cardinality(C) < PoolSize
    BY <1>9, <2>4, NodesFit
  <2>6. HasNode(w.nodes)
    BY <2>5 DEF HasNode
  <2>7. r = Expired(w, e, a)
    BY <1>4, <1>16 DEF WalkStep
  <2>8. /\ r \in WalkStates /\ r.front = w.front /\ r.prev = w.prev
        /\ r.active = IF w.active[t] /\ ~periodic[t] THEN [w.active EXCEPT ![t] = FALSE] ELSE w.active
        /\ r.wheel = IF w.active[t] /\ periodic[t] THEN WithEntry(w.wheel, a, t, period[t]) ELSE w.wheel
        /\ r.nodes = IF w.active[t] /\ periodic[t] THEN w.nodes ELSE w.nodes - 1
        /\ r.cmds = IF w.active[t] THEN Posted(w.cmds, Cmd("EXPIRE", t, 0)) ELSE w.cmds
    BY <1>5, <1>9, <2>1, <2>3, <2>6, <2>7, ExpiredIs
  <2>9. w.active[t] = active[t]
    <3>1. active[t] \in BOOLEAN
      BY <1>1
    <3>2. w.active[t] = (active[t] /\ ~(t \in D /\ t \in S0 /\ ~periodic[t]))
      BY <1>9
    <3> QED
      BY <1>7, <3>1, <3>2, Zenon
  <2>10. \A u \in Timers : r.active[u] = (active[u] /\ ~(u \in D /\ u \in S1 /\ ~periodic[u]))
    <3> SUFFICES ASSUME NEW u \in Timers
                 PROVE  r.active[u] = (active[u] /\ ~(u \in D /\ u \in S1 /\ ~periodic[u]))
      OBVIOUS
    <3>1. w.active[u] = (active[u] /\ ~(u \in D /\ u \in S0 /\ ~periodic[u]))
      BY <1>9
    <3>2. CASE u = t
      <4>1. r.active[t] = (active[t] /\ ~(~periodic[t]))
        <5>1. r.active[t] = IF w.active[t] /\ ~periodic[t] THEN FALSE ELSE w.active[t]
          BY <1>12, <2>8
        <5> QED
          BY <1>1, <2>9, <5>1
      <4> QED
        BY <1>7, <2>1, <3>2, <4>1
    <3>3. CASE u # t
      <4>1. r.active[u] = w.active[u]
        BY <1>12, <2>8, <3>3
      <4>2. u \in S1 <=> u \in S0
        BY <1>7, <3>3
      <4> QED
        BY <3>1, <4>1, <4>2
    <3> QED
      BY <3>2, <3>3
  <2>11. Reported(r.cmds, {u \in D \cap S1 : active[u]})
    <3>1. PICK X : X = {u \in D \cap S0 : active[u]} /\ X \in SUBSET Timers /\ t \notin X
      <4>1. {u \in D \cap S0 : active[u]} \subseteq D \cap S0
        OBVIOUS
      <4>2. D \cap S0 \subseteq Timers /\ t \notin D \cap S0
        BY <1>1, <1>7
      <4> QED
        BY <4>1, <4>2
    <3>2. Reported(w.cmds, X)
      BY <1>9, <3>1
    <3>3. CASE active[t]
      <4>1. {u \in D \cap S1 : active[u]} = X \cup {t}
        BY <1>7, <2>1, <3>1, <3>3
      <4>2. Reported(Posted(w.cmds, Cmd("EXPIRE", t, 0)), X \cup {t})
        BY <3>1, <3>2, ReportedMore
      <4>3. r.cmds = Posted(w.cmds, Cmd("EXPIRE", t, 0))
        BY <2>8, <2>9, <3>3
      <4> QED
        BY <4>1, <4>2, <4>3
    <3>4. CASE ~active[t]
      <4>1. {u \in D \cap S1 : active[u]} = X
        BY <1>7, <3>1, <3>4
      <4>2. r.cmds = w.cmds
        BY <2>8, <2>9, <3>4
      <4> QED
        BY <3>2, <4>1, <4>2
    <3> QED
      BY <3>3, <3>4
  <2>12. CASE active[t] /\ periodic[t]
    <3>1. t \notin E /\ E \cap S1 = E \cap S0
      BY <1>7, <1>14, <2>12
    <3>2. r.nodes = Cardinality(A \ (E \cap S1))
      BY <1>9, <2>8, <2>9, <2>12, <3>1
    <3>3. B1 = B0 \cup {t}
      BY <1>5, <1>7, <1>8, <3>1
    <3>4. Lies([v EXCEPT ![pos2[t]] = <<Entry(t, turns2[t])>> \o @], B1, pos2, turns2)
      BY <1>11, <1>13, <2>3, <3>3, LiesWith
    <3>5. r.wheel = [w.wheel EXCEPT ![pos2[t]] = <<Entry(t, turns2[t])>> \o @]
      BY <2>1, <2>8, <2>9, <2>12 DEF WithEntry
    <3>6. [v EXCEPT ![pos2[t]] = <<Entry(t, turns2[t])>> \o @] = [r.wheel EXCEPT ![a] = r.front]
      <4>1. PICK x, new : x \in WheelSlots /\ x = pos2[t] /\ x # a /\ new = <<Entry(t, turns2[t])>> \o w.wheel[x]
        BY <2>3
      <4>2. r.wheel = [w.wheel EXCEPT ![x] = new] /\ r.front = w.front /\ v[x] = w.wheel[x]
        BY <1>12, <2>8, <3>5, <4>1
      <4>3. [v EXCEPT ![x] = new] = [r.wheel EXCEPT ![a] = r.front]
        <5>1. PICK g, y : g \in [WheelSlots -> Seq(Nodes)] /\ g = w.wheel /\ y = w.front
          BY <1>12
        <5>2. v = [g EXCEPT ![a] = y] /\ r.wheel = [g EXCEPT ![x] = new] /\ r.front = y
          BY <1>10, <4>2, <5>1
        <5>3. [[g EXCEPT ![a] = y] EXCEPT ![x] = new] = [[g EXCEPT ![x] = new] EXCEPT ![a] = y]
          BY <4>1, <5>1
        <5> QED
          BY <5>2, <5>3
      <4>4. [v EXCEPT ![pos2[t]] = <<Entry(t, turns2[t])>> \o @] = [v EXCEPT ![x] = new]
        BY <1>12, <4>1, <4>2
      <4> QED
        BY <4>3, <4>4
    <3>7. Lies([r.wheel EXCEPT ![a] = r.front], B1, pos2, turns2)
      BY <3>4, <3>6
    <3> QED
      BY <1>6, <1>8, <1>9, <2>8, <2>10, <2>11, <3>2, <3>7 DEF WalkOK
  <2>13. CASE ~(active[t] /\ periodic[t])
    <3>1. t \in E /\ E \cap S1 = (E \cap S0) \cup {t}
      BY <1>7, <1>14, <2>1, <2>13
    <3>2. r.nodes = Cardinality(A \ (E \cap S1))
      <4>1. A \ (E \cap S1) = C \ {t} /\ t \in C
        BY <1>5, <1>7, <2>4, <3>1
      <4>2. Cardinality(C \ {t}) = Cardinality(C) - 1
        BY <2>5, <4>1, FS_RemoveElement
      <4>3. r.nodes = w.nodes - 1
        BY <2>8, <2>9, <2>13
      <4> QED
        BY <2>5, <4>1, <4>2, <4>3
    <3>3. B1 = B0
      BY <1>7, <1>8, <3>1
    <3>4. r.wheel = w.wheel /\ r.front = w.front
      BY <2>8, <2>9, <2>13
    <3>5. Lies([r.wheel EXCEPT ![a] = r.front], B1, pos2, turns2)
      BY <1>10, <1>11, <3>3, <3>4
    <3> QED
      BY <1>6, <1>8, <1>9, <2>8, <2>10, <2>11, <3>2, <3>5 DEF WalkOK
  <2> QED
    BY <2>12, <2>13
<1> QED
  BY <1>15, <1>16


LEMMA TickWalks ==
    ASSUME WheelAssumption, WheelInv, Tick
    PROVE  \E a, f, w :
              /\ a \in WheelSlots /\ a = (cursor + 1) % Slots /\ cursor' = a /\ Walks(f, wheel[a], Len(wheel[a]), a)
              /\ w = f[Len(wheel[a])] /\ wheel' = [w.wheel EXCEPT ![a] = w.front] /\ active' = w.active
              /\ nodes' = w.nodes /\ cmds' = w.cmds /\ UNCHANGED <<used, period, periodic, daemon>>
<1> DEFINE a == (cursor + 1) % Slots
           list == wheel[a]
           walk[i \in 0..Len(list)] ==
               IF i = 0
               THEN [front |-> << >>, prev |-> FALSE, active |-> active,
                     wheel |-> wheel, nodes |-> nodes, cmds |-> cmds]
               ELSE IF list[i].rounds > 0
               THEN Passed(walk[i - 1], list[i])
               ELSE Expired(walk[i - 1], list[i], a)
<1>1. /\ cursor' = a /\ wheel' = [walk[Len(list)].wheel EXCEPT ![a] = walk[Len(list)].front]
      /\ active' = walk[Len(list)].active /\ nodes' = walk[Len(list)].nodes /\ cmds' = walk[Len(list)].cmds
      /\ UNCHANGED <<used, period, periodic, daemon>>
  BY Zenon DEF Tick, Walk
<1>2. a \in WheelSlots
  <2>1. cursor \in Int /\ Slots \in Nat \ {0}
    BY DEF WheelInv, WheelTypeOK, WheelAssumption
  <2>2. PICK x \in Int : x = cursor + 1
    BY <2>1
  <2>3. x % Slots \in 0..(Slots - 1)
    BY <2>1, Divided
  <2> QED
    BY <2>2, <2>3 DEF WheelSlots
<1>3. WheelTypeOK /\ list \in Seq(Nodes)
  BY <1>2 DEF WheelInv, WheelTypeOK, WheelSlots, Nodes
<1>4. PICK n \in Nat : n = Len(list)
  BY <1>3
<1>5. Walks(walk, list, Len(list), a)
  <2> HIDE DEF a, list
  <2>1. PICK f : Walks(f, list, n, a)
    BY <1>2, <1>3, <1>4, WalksExist
  <2>2. f = [i \in 0..Len(list) |->
               IF i = 0
               THEN [front |-> << >>, prev |-> FALSE, active |-> active,
                     wheel |-> wheel, nodes |-> nodes, cmds |-> cmds]
               ELSE IF list[i].rounds > 0
               THEN Passed(f[i - 1], list[i])
               ELSE Expired(f[i - 1], list[i], a)]
    BY <1>4, <2>1, Zenon DEF Walks, WalkStep, WalkStart
  <2>3. walk = [i \in 0..Len(list) |->
               IF i = 0
               THEN [front |-> << >>, prev |-> FALSE, active |-> active,
                     wheel |-> wheel, nodes |-> nodes, cmds |-> cmds]
               ELSE IF list[i].rounds > 0
               THEN Passed(walk[i - 1], list[i])
               ELSE Expired(walk[i - 1], list[i], a)]
    BY <2>2, Zenon
  <2> HIDE DEF walk
  <2> QED
    BY <2>3, Zenon DEF Walks, WalkStep, WalkStart
<1> HIDE DEF walk
<1> QED
  BY <1>1, <1>2, <1>5, Zenon

LEMMA WalkEnds ==
    ASSUME WheelAssumption, SpareNode, NoMultiple, WheelTypeOK, NEW A, NEW pos, NEW turns,
           Wheeled(wheel, nodes, active, A, pos, turns),
           NEW a \in WheelSlots, NEW list, list = wheel[a], NEW n, n = Len(list),
           NEW D, D = DueAt(A, pos, turns, a), NEW pos2, pos2 = PosAfter(D, pos, a),
           NEW turns2, turns2 = TurnsAfter(D, pos, turns, a), NEW f, Walks(f, list, n, a)
    PROVE  WalkOK(f[n], n, list, a, A, D, pos2, turns2)
<1> DEFINE P == {i \in 0..n : WalkOK(f[i], i, list, a, A, D, pos2, turns2)}
<1>1. n \in Nat
  BY DEF Wheeled, Lies
<1>2. 0 \in P
  <2>1. f[0] = WalkStart /\ 0 \in 0..n
    BY <1>1 DEF Walks
  <2> QED
    BY <2>1, WalkStarts
<1>3. ASSUME NEW i \in 0..n, i # n, i \in P PROVE i + 1 \in P
  <2>1. i + 1 \in 0..n /\ i + 1 # 0 /\ (i + 1) - 1 = i
    BY <1>1, <1>3
  <2>2. f[i + 1] = WalkStep(f[i], list[i + 1], a)
    BY <2>1 DEF Walks
  <2>3. WalkOK(f[i], i, list, a, A, D, pos2, turns2)
    BY <1>3
  <2>4. WalkOK(f[i + 1], i + 1, list, a, A, D, pos2, turns2)
    <3>1. PICK g, r, m : g = f[i] /\ r = f[i + 1] /\ m = i + 1
      OBVIOUS
    <3>2. r = WalkStep(g, list[i + 1], a) /\ WalkOK(g, i, list, a, A, D, pos2, turns2) /\ i \in 0..n /\ i # n
      BY <1>3, <2>2, <2>3, <3>1
    <3>3. WalkOK(r, m, list, a, A, D, pos2, turns2)
      BY <3>1, <3>2, WalkGoesOn
    <3> QED
      BY <3>1, <3>3
  <2> QED
    BY <2>1, <2>4
<1> HIDE DEF P
<1>4. \A i \in 0..n : i \in P
  BY <1>1, <1>2, <1>3, UpTo
<1>5. n \in P
  BY <1>1, <1>4
<1> QED
  BY <1>5 DEF P

LEMMA ReportIs ==
    ASSUME WheelTypeOK, WheelAssumption, NEW q, NEW X, Reported(q, X)
    PROVE  LET fits  == QueueLen - Len(cmds)
               fresh == SubSeq(q, Len(cmds) + 1, Len(q))
           IN  /\ IsPrefix(cmds, q)
               /\ ToSet(fresh) \subseteq {Cmd("EXPIRE", t, 0) : t \in X}
               /\ Cardinality(ToSet(fresh)) = Len(fresh)
               /\ Len(fresh) = IF Cardinality(X) <= fits THEN Cardinality(X) ELSE fits
<1>1. PICK m \in Nat, l \in Nat : m = Len(cmds) /\ l = Len(q) /\ m <= l /\ q \in Seq(Commands) /\ cmds \in Seq(Commands)
  BY DEF Reported, WheelTypeOK
<1>2. /\ \A k \in 1..m : q[k] = cmds[k]
      /\ \A k \in (m + 1)..l : \E t \in X : q[k] = Cmd("EXPIRE", t, 0)
      /\ \A k, i \in (m + 1)..l : q[k] = q[i] => k = i
      /\ l - m = IF Cardinality(X) <= QueueLen - m THEN Cardinality(X) ELSE QueueLen - m
  BY <1>1 DEF Reported
<1>3. PICK fresh : fresh = SubSeq(q, m + 1, l)
  OBVIOUS
<1>4. fresh \in Seq(Commands) /\ Len(fresh) = l - m /\ \A k \in 1..(l - m) : fresh[k] = q[m + k]
  <2>1. \A k \in (m + 1)..l : q[k] \in Commands
    BY <1>1
  <2>2. /\ SubSeq(q, m + 1, l) \in Seq(Commands)
        /\ Len(SubSeq(q, m + 1, l)) = IF m + 1 <= l THEN l - (m + 1) + 1 ELSE 0
        /\ \A k \in 1..(l - (m + 1) + 1) : SubSeq(q, m + 1, l)[k] = q[m + 1 + k - 1]
    BY <2>1, SubSeqProperties
  <2>3. \A k \in 1..(l - m) : k \in 1..(l - (m + 1) + 1) /\ m + 1 + k - 1 = m + k
    BY <1>1
  <2>4. (IF m + 1 <= l THEN l - (m + 1) + 1 ELSE 0) = l - m
    BY <1>1
  <2> QED
    BY <1>3, <2>2, <2>3, <2>4
<1>5. \A k \in 1..(l - m) : m + k \in (m + 1)..l
  BY <1>1
<1>6. IsPrefix(cmds, q)
  <2>1. SubSeq(q, 1, m) = SubSeq(cmds, 1, m)
    <3>1. \A k \in 1..m : q[k] \in Commands /\ cmds[k] \in Commands
      BY <1>1
    <3>2. /\ SubSeq(q, 1, m) \in Seq(Commands) /\ Len(SubSeq(q, 1, m)) = IF 1 <= m THEN m - 1 + 1 ELSE 0
          /\ \A k \in 1..(m - 1 + 1) : SubSeq(q, 1, m)[k] = q[1 + k - 1]
      BY <3>1, SubSeqProperties
    <3>3. /\ SubSeq(cmds, 1, m) \in Seq(Commands) /\ Len(SubSeq(cmds, 1, m)) = IF 1 <= m THEN m - 1 + 1 ELSE 0
          /\ \A k \in 1..(m - 1 + 1) : SubSeq(cmds, 1, m)[k] = cmds[1 + k - 1]
      BY <3>1, SubSeqProperties
    <3>4. (IF 1 <= m THEN m - 1 + 1 ELSE 0) = m /\ \A k \in 1..m : k \in 1..(m - 1 + 1) /\ 1 + k - 1 = k
      BY <1>1
    <3>5. PICK x, y : x = SubSeq(q, 1, m) /\ y = SubSeq(cmds, 1, m)
      OBVIOUS
    <3>6. x \in Seq(Commands) /\ y \in Seq(Commands) /\ Len(x) = m /\ Len(y) = m /\ \A k \in 1..m : x[k] = y[k]
      BY <1>2, <3>2, <3>3, <3>4, <3>5
    <3>7. x = y
      BY <3>6
    <3> QED
      BY <3>5, <3>7
  <2> QED
    BY <1>1, <2>1 DEF IsPrefix
<1>7. ToSet(fresh) = {fresh[k] : k \in 1..(l - m)}
  BY <1>4 DEF ToSet
<1>8. ToSet(fresh) \subseteq {Cmd("EXPIRE", t, 0) : t \in X}
  <2> SUFFICES ASSUME NEW k \in 1..(l - m) PROVE \E t \in X : fresh[k] = Cmd("EXPIRE", t, 0)
    BY <1>7
  <2>1. PICK i : i = m + k /\ i \in (m + 1)..l
    BY <1>5
  <2>2. fresh[k] = q[i]
    BY <1>4, <2>1
  <2> QED
    BY <1>2, <2>1, <2>2
<1>9. Cardinality(ToSet(fresh)) = l - m
  <2>1. PICK g : g = [k \in 1..(l - m) |-> fresh[k]]
    OBVIOUS
  <2>2. \A k, i \in 1..(l - m) : fresh[k] = fresh[i] => k = i
    <3> SUFFICES ASSUME NEW k \in 1..(l - m), NEW i \in 1..(l - m), fresh[k] = fresh[i] PROVE k = i
      OBVIOUS
    <3>1. m + k = m + i
      BY <1>2, <1>4, <1>5
    <3> QED
      BY <3>1
  <2>3. g \in Bijection(1..(l - m), ToSet(fresh))
    <3>1. PICK I, T : I = 1..(l - m) /\ T = ToSet(fresh)
      OBVIOUS
    <3>2. T = {fresh[k] : k \in I} /\ g = [k \in I |-> fresh[k]] /\ \A k, i \in I : fresh[k] = fresh[i] => k = i
      BY <1>7, <2>1, <2>2, <3>1
    <3>3. g \in [I -> T] /\ \A k \in I : g[k] = fresh[k]
      BY <3>2
    <3>4. \A k, i \in I : g[k] = g[i] => k = i
      BY <3>2, <3>3
    <3>5. \A e \in T : \E k \in I : g[k] = e
      BY <3>2, <3>3
    <3>6. g \in Bijection(I, T)
      BY <3>3, <3>4, <3>5 DEF Bijection, Injection, Surjection, IsInjective
    <3> QED
      BY <3>1, <3>6
  <2>4. l - m \in Nat
    BY <1>1
  <2>5. ExistsBijection(1..(l - m), ToSet(fresh))
    BY <2>3 DEF ExistsBijection
  <2> QED
    BY <2>4, <2>5, FS_CountingElements
<1> QED
  BY <1>1, <1>2, <1>3, <1>4, <1>6, <1>8, <1>9


LEMMA TickKeeps ==
    ASSUME WheelAssumption, SpareNode, NoMultiple, WheelInv, Tick
    PROVE  WheelInv' /\ Ideal!CountDown /\ TickReport
<1>1. PICK A, pos, turns : Wheeled(wheel, nodes, active, A, pos, turns)
  BY DEF WheelInv, Described
<1>2. PICK a, f, w, list :
              /\ a \in WheelSlots /\ a = (cursor + 1) % Slots /\ cursor' = a /\ list = wheel[a] /\ Walks(f, list, Len(list), a)
              /\ w = f[Len(list)] /\ wheel' = [w.wheel EXCEPT ![a] = w.front] /\ active' = w.active
              /\ nodes' = w.nodes /\ cmds' = w.cmds /\ UNCHANGED <<used, period, periodic, daemon>>
  BY TickWalks
<1>3. /\ WheelTypeOK /\ A \in SUBSET Timers /\ pos \in [Timers -> WheelSlots] /\ turns \in [Timers -> Nat]
      /\ Lies(wheel, A, pos, turns) /\ cursor \in WheelSlots
      /\ active \in [Timers -> BOOLEAN] /\ periodic \in [Timers -> BOOLEAN]
      /\ period \in [Timers -> Nat] /\ \A t \in Timers : active[t] => t \in A
  <2>1. WheelTypeOK /\ period \in [Timers -> Periods \cup {0}]
    BY DEF WheelInv, WheelTypeOK
  <2>2. Periods \cup {0} \subseteq Nat
    BY DEF WheelAssumption
  <2>3. period \in [Timers -> Nat]
    BY <2>1, <2>2
  <2> QED
    BY <1>1, <2>1, <2>3 DEF WheelTypeOK, Wheeled, WheelSlots
<1>4. PICK D, pos2, turns2 : /\ D = DueAt(A, pos, turns, a) /\ pos2 = PosAfter(D, pos, a)
                             /\ turns2 = TurnsAfter(D, pos, turns, a)
  OBVIOUS
<1>5. WalkOK(w, Len(list), list, a, A, D, pos2, turns2)
  BY <1>1, <1>2, <1>3, <1>4, WalkEnds
<1>6. Rest(list, Len(list)) = {} /\ D \subseteq Seen(list, Len(list)) /\ D \subseteq A
  <2>1. NodesOf(list, {t \in A : pos[t] = a}, turns)
    BY <1>2, <1>3 DEF Lies
  <2>2. PICK n \in Nat : n = Len(list)
    BY <2>1 DEF NodesOf
  <2>3. (n + 1)..n = {}
    OBVIOUS
  <2>4. Rest(list, Len(list)) = {}
    BY <2>2, <2>3 DEF Rest
  <2>5. \A t \in D : t \in A /\ pos[t] = a
    BY <1>4 DEF DueAt
  <2>6. \A t \in D : t \in Seen(list, Len(list))
    BY <2>1, <2>5 DEF NodesOf, Seen
  <2> QED
    BY <2>4, <2>5, <2>6
<1>7. PICK E : E = Ending(D) /\ E \subseteq D
  BY DEF Ending
<1>8. /\ w \in WalkStates /\ Lies(wheel', A \ E, pos2, turns2)
      /\ \A t \in Timers : w.active[t] = (active[t] /\ ~(t \in D /\ ~periodic[t]))
      /\ nodes' = Cardinality(A \ E) /\ Reported(cmds', {t \in D : active[t]})
  <2>1. (A \ E) \ Rest(list, Len(list)) = A \ E
    BY <1>6
  <2>2. A \ (E \cap Seen(list, Len(list))) = A \ E /\ D \cap Seen(list, Len(list)) = D
    BY <1>6, <1>7
  <2>3. \A t \in Timers : t \in D /\ t \in Seen(list, Len(list)) <=> t \in D
    BY <1>6
  <2> QED
    BY <1>2, <1>5, <1>7, <2>1, <2>2, <2>3 DEF WalkOK
<1>9. active' \in [Timers -> BOOLEAN] /\ \A t \in Timers : active'[t] <=> active[t] /\ ~(t \in D /\ ~periodic[t])
  BY <1>2, <1>8 DEF WalkStates
<1>10. /\ pos2 \in [Timers -> WheelSlots] /\ turns2 \in [Timers -> Nat]
       /\ \A t \in Timers : t \in D => /\ TicksTo(pos2[t], turns2[t], a) = Span(period[t])
       /\ \A t \in Timers : t \notin D => /\ pos2[t] = pos[t]
             /\ turns2[t] = IF pos[t] = a /\ turns[t] > 0 THEN turns[t] - 1 ELSE turns[t]
  <2>1. ASSUME NEW t \in Timers
        PROVE  /\ SlotFor(a, period[t]) \in WheelSlots /\ Rounds(period[t]) \in Nat
               /\ TicksTo(SlotFor(a, period[t]), Rounds(period[t]), a) = Span(period[t])
    <3>1. PICK x \in Nat : x = period[t]
      BY <1>3
    <3>2. /\ SlotFor(a, x) \in WheelSlots /\ Rounds(x) \in Nat
          /\ TicksTo(SlotFor(a, x), Rounds(x), a) = Span(x)
      BY <1>2, SlotAhead
    <3> QED
      BY <3>1, <3>2
  <2>2. \A t \in Timers : (IF t \in D THEN SlotFor(a, period[t]) ELSE pos[t]) \in WheelSlots
    BY <1>3, <2>1
  <2>3. ASSUME NEW t \in Timers
        PROVE  (IF t \in D THEN Rounds(period[t])
                ELSE IF pos[t] = a /\ turns[t] > 0 THEN turns[t] - 1 ELSE turns[t]) \in Nat
    <3>1. turns[t] \in Nat
      BY <1>3
    <3> QED
      BY <2>1, <3>1
  <2>4. /\ pos2 = [t \in Timers |-> IF t \in D THEN SlotFor(a, period[t]) ELSE pos[t]]
        /\ turns2 = [t \in Timers |-> IF t \in D THEN Rounds(period[t])
                        ELSE IF pos[t] = a /\ turns[t] > 0 THEN turns[t] - 1 ELSE turns[t]]
    BY <1>4 DEF PosAfter, TurnsAfter
  <2>5. pos2 \in [Timers -> WheelSlots] /\ turns2 \in [Timers -> Nat]
    BY <2>2, <2>3, <2>4
  <2> QED
    BY <2>1, <2>4, <2>5
<1>11. \A t \in Timers : active'[t] => t \in A \ E
  BY <1>3, <1>7, <1>9 DEF Ending
<1>12. Wheeled(wheel', nodes', active', A \ E, pos2, turns2)
  BY <1>3, <1>8, <1>10, <1>11 DEF Wheeled
<1>13. WheelInv'
  <2>1. wheel' \in [0..(Slots - 1) -> Seq([timer : Timers, rounds : Nat])] /\ nodes' \in 0..PoolSize
    BY <1>12, WheelTyped DEF Described
  <2>2. cmds' \in Seq(Commands) /\ Len(cmds') <= QueueLen
    <3>1. Len(cmds) \in Nat /\ QueueLen \in Nat
      BY <1>3 DEF WheelTypeOK, WheelAssumption
    <3>2. cmds' \in Seq(Commands) /\ Len(cmds') \in Len(cmds)..QueueLen
      BY <1>8 DEF Reported
    <3> QED
      BY <3>1, <3>2
  <2>3. cursor' \in 0..(Slots - 1)
    BY <1>2 DEF WheelSlots
  <2>4. WheelTypeOK'
    BY <1>2, <1>3, <1>9, <2>1, <2>2, <2>3 DEF WheelTypeOK
  <2> QED
    BY <1>12, <2>4 DEF WheelInv, Described
<1>14. \A t \in Timers : Left(t) = IF active[t] THEN TicksTo(pos[t], turns[t], cursor) ELSE 0
  <2>1. LeftsAre(active, wheel, cursor, pos, turns)
    BY <1>1, LeftIs
  <2> QED
    BY <2>1, LeftHere DEF LeftsAre
<1>15. \A t \in Timers : Left(t)' = IF active'[t] THEN TicksTo(pos2[t], turns2[t], a) ELSE 0
  <2>1. LeftsAre(active', wheel', a, pos2, turns2)
    BY <1>12, LeftIs
  <2>2. cursor' = a
    BY <1>2
  <2> QED
    BY <2>1, <2>2, LeftHere DEF LeftsAre
<1>16. ASSUME NEW t \in Timers
       PROVE  /\ Left(t) = 1 <=> t \in D /\ active[t]
              /\ Left(t)' = CASE Left(t) = 0 -> 0
                              [] Left(t) = 1 -> IF periodic[t] THEN Span(period[t]) ELSE 0
                              [] OTHER       -> Left(t) - 1
  <2>1. pos[t] \in WheelSlots /\ turns[t] \in Nat
    BY <1>3
  <2>2. /\ TicksTo(pos[t], turns[t], cursor) \in Nat \ {0}
        /\ TicksTo(pos[t], turns[t], cursor) = 1 <=> pos[t] = a /\ turns[t] = 0
        /\ pos[t] # a => TicksTo(pos[t], turns[t], a) = TicksTo(pos[t], turns[t], cursor) - 1
        /\ pos[t] = a /\ turns[t] > 0 => TicksTo(pos[t], turns[t] - 1, a) = TicksTo(pos[t], turns[t], cursor) - 1
    <3>1. TickOn(pos[t], turns[t], cursor, a)
      BY <1>2, <1>3, <2>1, TickNearer
    <3> QED
      BY <3>1 DEF TickOn
  <2>3. t \in D <=> t \in A /\ pos[t] = a /\ turns[t] = 0
    BY <1>4 DEF DueAt
  <2>4. CASE ~active[t]
    <3>1. Left(t) = 0 /\ Left(t)' = 0
      BY <1>9, <1>14, <1>15, <2>4
    <3> QED
      BY <2>4, <3>1
  <2>5. CASE active[t] /\ t \in D
    <3>1. Left(t) = 1
      BY <1>14, <2>2, <2>3, <2>5
    <3>2. Left(t)' = IF periodic[t] THEN Span(period[t]) ELSE 0
      BY <1>9, <1>10, <1>15, <2>5
    <3> QED
      BY <2>5, <3>1, <3>2
  <2>6. CASE active[t] /\ t \notin D
    <3>1. Left(t) = TicksTo(pos[t], turns[t], cursor) /\ active'[t] /\ t \in A
      BY <1>3, <1>9, <1>14, <2>6
    <3>2. Left(t) # 0 /\ Left(t) # 1
      BY <2>2, <2>3, <2>6, <3>1
    <3>3. TicksTo(pos2[t], turns2[t], a) = TicksTo(pos[t], turns[t], cursor) - 1
      <4>1. CASE pos[t] # a
        BY <1>10, <2>2, <2>6, <4>1
      <4>2. CASE pos[t] = a
        <5>1. turns[t] > 0
          BY <2>1, <2>3, <2>6, <3>1, <4>2
        <5> QED
          BY <1>10, <2>2, <2>6, <4>2, <5>1
      <4> QED
        BY <4>1, <4>2
    <3>4. Left(t)' = Left(t) - 1
      BY <1>15, <3>1, <3>3
    <3> QED
      BY <2>6, <3>2, <3>4
  <2> QED
    BY <2>4, <2>5, <2>6
<1>17. Ideal!CountDown
  <2>1. \A t : Span(period[t]) = Ideal!Span(period[t])
    BY DEF Span, Ideal!Span
  <2>2. \A t \in Timers : [u \in Timers |-> Left(u)][t] = Left(t)
    OBVIOUS
  <2>3. [u \in Timers |-> Left(u)]' =
           [t \in Timers |->
              CASE [u \in Timers |-> Left(u)][t] = 0 -> 0
                [] [u \in Timers |-> Left(u)][t] = 1 -> IF periodic[t] THEN Ideal!Span(period[t]) ELSE 0
                [] OTHER -> [u \in Timers |-> Left(u)][t] - 1]
    BY <1>16, <2>1, <2>2
  <2> QED
    BY <1>2, <2>3 DEF Ideal!CountDown
<1>18. TickReport
  <2>1. {t \in Timers : Left(t) = 1} = {t \in D : active[t]}
    BY <1>3, <1>6, <1>16
  <2>2. PICK X : X = {t \in D : active[t]} /\ X = {t \in Timers : Left(t) = 1}
    BY <2>1
  <2>3. Reported(cmds', X)
    BY <1>8, <2>2
  <2> HIDE DEF Reported
  <2>4. LET fits  == QueueLen - Len(cmds)
            fresh == SubSeq(cmds', Len(cmds) + 1, Len(cmds'))
        IN  /\ IsPrefix(cmds, cmds')
            /\ ToSet(fresh) \subseteq {Cmd("EXPIRE", t, 0) : t \in X}
            /\ Cardinality(ToSet(fresh)) = Len(fresh)
            /\ Len(fresh) = IF Cardinality(X) <= fits THEN Cardinality(X) ELSE fits
    BY <1>3, <2>3, ReportIs
  <2> QED
    BY <2>2, <2>4, Zenon DEF TickReport
<1> QED
  BY <1>13, <1>17, <1>18

LEMMA WheelStepKeeps ==
    ASSUME WheelAssumption, SpareNode, NoMultiple, WheelInv, WheelNext
    PROVE  /\ WheelInv' /\ [Ideal!CountdownNext]_<<[t \in Timers |-> Left(t)], period, periodic>>
           /\ TickReport
<1> DEFINE Done == /\ WheelInv' /\ [Ideal!CountdownNext]_<<[t \in Timers |-> Left(t)], period, periodic>>
                   /\ TickReport
<1>1. /\ cmds \in Seq(Commands) /\ Len(cmds) <= QueueLen /\ daemon \in Seq(Commands) /\ Len(daemon) <= 1
      /\ NewPeriods \subseteq Periods
  BY DEF WheelInv, WheelTypeOK, WheelAssumption
<1>2. CASE Tick
  <2>1. WheelInv' /\ Ideal!CountDown /\ TickReport
    BY <1>2, TickKeeps
  <2> QED
    BY <2>1 DEF Ideal!CountdownNext
<1>3. ASSUME cursor' = cursor PROVE TickReport
  BY <1>3 DEF TickReport
<1>4. ASSUME NEW t \in Timers, TaskCall(t) PROVE Done
  <2>1. QueuesOK' /\ (Start(t) \/ Stop(t) \/ \E p \in NewPeriods : Change(t, p))
    BY <1>1, <1>4 DEF TaskCall, QueuesOK
  <2>2. CASE Start(t)
    BY <1>3, <2>1, <2>2, StartKeeps DEF Ideal!CountdownNext, Start
  <2>3. CASE Stop(t)
    BY <1>3, <2>1, <2>3, StopKeeps DEF Ideal!CountdownNext, Stop
  <2>4. ASSUME NEW p \in NewPeriods, Change(t, p) PROVE Done
    <3>1. p \in Periods
      BY <1>1
    <3>2. WheelInv' /\ Ideal!Retime(t)
      BY <2>1, <2>4, <3>1, ChangeKeeps
    <3> QED
      BY <1>3, <2>4, <3>2 DEF Ideal!CountdownNext, Change
  <2> QED
    BY <2>1, <2>2, <2>3, <2>4
<1>5. ASSUME NEW t \in Timers, TimerDelete(t) PROVE Done
  BY <1>3, <1>5, TimerDeleteKeeps DEF Ideal!CountdownNext, TimerDelete
<1>6. ASSUME NEW t \in Timers, NEW p \in Periods, NEW auto \in BOOLEAN, TimerCreate(t, p, auto) PROVE Done
  BY <1>3, <1>6, TimerCreateKeeps DEF Ideal!CountdownNext, TimerCreate
<1>7. ASSUME NEW c \in Commands, PostCommand(c) PROVE Done
  <2>1. QueuesOK'
    BY <1>1, <1>7, PostedIs DEF PostCommand, QueuesOK
  <2>2. WheelInv' /\ UNCHANGED <<[t \in Timers |-> Left(t)], period, periodic>>
    BY <1>7, <2>1, QueueStepKeeps DEF PostCommand
  <2> QED
    BY <1>3, <1>7, <2>2 DEF PostCommand
<1>8. CASE DaemonReceives
  <2>1. Head(cmds) \in Commands /\ Tail(cmds) \in Seq(Commands) /\ Len(Tail(cmds)) <= QueueLen
    <3>1. cmds # << >> /\ Len(cmds) \in Nat /\ QueueLen \in Nat
      BY <1>1, <1>8 DEF DaemonReceives, WheelAssumption
    <3>2. Head(cmds) \in Commands /\ Tail(cmds) \in Seq(Commands) /\ Len(Tail(cmds)) = Len(cmds) - 1
      BY <1>1, <3>1, HeadTailProperties
    <3> QED
      BY <1>1, <3>1, <3>2
  <2>2. QueuesOK'
    BY <1>8, <2>1 DEF DaemonReceives, QueuesOK
  <2>3. WheelInv' /\ UNCHANGED <<[t \in Timers |-> Left(t)], period, periodic>>
    BY <1>8, <2>2, QueueStepKeeps DEF DaemonReceives
  <2> QED
    BY <1>3, <1>8, <2>3 DEF DaemonReceives
<1>9. CASE DaemonExecutes
  <2>1. PICK c \in Commands : c = Head(daemon)
    BY <1>1, <1>9, HeadTailProperties DEF DaemonExecutes
  <2>2. /\ QueuesOK' /\ c.timer \in Timers /\ (c.cmd = "CHANGE" => c.period \in Periods)
    BY <1>1, <1>9 DEF DaemonExecutes, QueuesOK, Commands, Cmd
  <2>3. CASE UNCHANGED <<wheelVars, used, period, periodic, cursor>>
    BY <1>3, <2>2, <2>3, QueueStepKeeps
  <2>4. CASE Start(c.timer)
    BY <1>3, <2>2, <2>4, StartKeeps DEF Ideal!CountdownNext, Start
  <2>5. CASE Stop(c.timer)
    BY <1>3, <2>2, <2>5, StopKeeps DEF Ideal!CountdownNext, Stop
  <2>6. CASE c.cmd = "CHANGE" /\ Change(c.timer, c.period)
    BY <1>3, <2>2, <2>6, ChangeKeeps DEF Ideal!CountdownNext, Change
  <2> QED
    BY <1>9, <2>1, <2>3, <2>4, <2>5, <2>6 DEF DaemonExecutes
<1>10. ASSUME NEW t \in Timers
       PROVE  /\ Cmd("START", t, 0) \in Commands /\ Cmd("STOP", t, 0) \in Commands
              /\ \A p \in NewPeriods : Cmd("CHANGE", t, p) \in Commands
  BY <1>1 DEF Commands
<1>11. CASE Tick \/ DaemonReceives \/ DaemonExecutes
  BY <1>2, <1>8, <1>9, <1>11
<1>12. ASSUME NEW t \in Timers, TaskCall(t) \/ TimerDelete(t) PROVE Done
  <2> HIDE DEF Done
  <2> QED
    BY <1>4, <1>5, <1>12
<1>13. ASSUME NEW t \in Timers, StartFromIsr(t) \/ StopFromIsr(t) PROVE Done
  <2> HIDE DEF Done
  <2> QED
    BY <1>7, <1>10, <1>13 DEF StartFromIsr, StopFromIsr
<1>14. ASSUME NEW t \in Timers, NEW p \in NewPeriods, ChangePeriodFromIsr(t, p) PROVE Done
  <2> HIDE DEF Done
  <2> QED
    BY <1>7, <1>10, <1>14 DEF ChangePeriodFromIsr
<1>15. CASE ~(Tick \/ DaemonReceives \/ DaemonExecutes)
  <2> HIDE DEF Done
  <2>1. Done
    BY <1>6, <1>12, <1>13, <1>14, <1>15, Zenon DEF WheelNext
  <2> QED
    BY <2>1 DEF Done
<1> QED
  BY <1>11, <1>15

LEMMA WheelInvInit ==
    ASSUME WheelAssumption, WheelInit PROVE WheelInv /\ Ideal!CountdownInit
<1>1. PICK pos, turns : pos = [t \in Timers |-> 0] /\ turns = [t \in Timers |-> 0]
  OBVIOUS
<1>2. 0 \in WheelSlots /\ wheel = [s \in WheelSlots |-> << >>]
  BY DEF WheelAssumption, WheelSlots, WheelInit
<1>3. Lies(wheel, {}, pos, turns)
  <2>1. wheel \in [WheelSlots -> Seq(Nodes)] /\ \A s \in WheelSlots : wheel[s] = << >>
    BY <1>2
  <2>2. NodesOf(<< >>, {}, turns)
    BY DEF NodesOf
  <2>3. \A s \in WheelSlots : {t \in {} : pos[t] = s} = {}
    OBVIOUS
  <2> QED
    BY <2>1, <2>2, <2>3 DEF Lies
<1>4. Wheeled(wheel, nodes, active, {}, pos, turns)
  BY <1>1, <1>2, <1>3, FS_EmptySet DEF Wheeled, WheelInit
<1>5. WheelTypeOK
  BY <1>2 DEF WheelTypeOK, WheelInit, WheelAssumption, WheelSlots
<1>6. \A t \in Timers : Left(t) = 0
  BY DEF Left, WheelInit
<1>7. Ideal!CountdownInit
  BY <1>6 DEF Ideal!CountdownInit, WheelInit
<1> QED
  BY <1>4, <1>5, <1>7 DEF WheelInv, Described

LEMMA WheelInvArmed ==
    ASSUME WheelAssumption, SpareNode, WheelInv PROVE ArmedOnce
<1>1. PICK A, pos, turns : Wheeled(wheel, nodes, active, A, pos, turns)
  BY DEF WheelInv, Described
<1>2. /\ A \in SUBSET Timers /\ pos \in [Timers -> WheelSlots] /\ Lies(wheel, A, pos, turns)
      /\ nodes = Cardinality(A) /\ \A t \in Timers : active[t] => t \in A
  BY <1>1 DEF Wheeled
<1>3. ASSUME NEW t \in Timers PROVE Linked(t) = IF t \in A THEN {pos[t]} ELSE {}
  <2>1. Linked(t) = SlotsWith(wheel, t)
    BY DEF Linked, InSlot, SlotsWith, WheelSlots
  <2> QED
    BY <1>2, <2>1, SlotsWithIs
<1>4. \A t \in Timers : Cardinality(Linked(t)) <= 1
  <2> SUFFICES ASSUME NEW t \in Timers PROVE Cardinality(Linked(t)) <= 1
    OBVIOUS
  <2>1. Cardinality({pos[t]}) = 1 /\ Cardinality({}) = 0
    BY FS_EmptySet, FS_Singleton
  <2> QED
    BY <1>3, <2>1
<1>5. \A t \in Timers : active[t] => Linked(t) # {}
  BY <1>2, <1>3
<1>6. {t \in Timers : Linked(t) # {}} = A
  BY <1>2, <1>3
<1>7. ASSUME NEW s \in 0..(Slots - 1), NEW i \in 1..Len(wheel[s]), NEW j \in 1..Len(wheel[s]),
             wheel[s][i].timer = wheel[s][j].timer
      PROVE  i = j
  <2>1. NodesOf(wheel[s], {t \in A : pos[t] = s}, turns)
    BY <1>2 DEF Lies, WheelSlots
  <2> QED
    BY <1>7, <2>1 DEF NodesOf
<1> QED
  BY <1>2, <1>4, <1>5, <1>6, <1>7 DEF ArmedOnce, WheelInv
=============================================================================
