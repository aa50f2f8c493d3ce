--------------------------- MODULE SmpSchedProofs ---------------------------
(***************************************************************************)
(* What the kernel guarantees for any number of CPUs, tasks and semaphores *)
(* and any placement, in the default build and, as long as the migration   *)
(* race has not struck, in the load balancing build: the inductive         *)
(* invariant holds in every reachable state, and the properties the runs   *)
(* check follow from it.                                                   *)
(***************************************************************************)
EXTENDS SmpSchedSemSteps, SmpSchedQueues

USE CpuAssumption, NullAssumption

(* What the theorems below ask of a behaviour: nothing in the default      *)
(* build; with load balancing, that sched_migrate never moves a task which *)
(* a CPU runs or has picked.  A finite behaviour that stutters from some   *)
(* point on is a behaviour, so up to the first such move they hold in any  *)
(* case.                                                                   *)
RaceFree == LOAD_BALANCE_SELFTEST => NoLbRace

(* The first task of each queue is the one that runs. *)
LEMMA InitRun ==
    ASSUME Init, NEW c \in CPU
    PROVE  /\ run[c] = InitQueue[c][1] /\ curr[c] = run[c]
           /\ run[c] \in Task /\ home[run[c]] = c
<1>1. 1 \in 1..Len(InitQueue[c]) /\ InitQueue[c][1] \in Task
  BY QueueAssumption
<1>2. run[c] = InitQueue[c][1] /\ curr[c] = run[c]
  BY Zenon DEF Init
<1>3. home[InitQueue[c][1]] = c
  BY <1>1, InitHome, Zenon
<1> QED BY <1>1, <1>2, <1>3, Zenon

(* What boot leaves behind has the right types. *)
LEMMA InitType == Init => TypeOK
<1> SUFFICES ASSUME Init PROVE TypeOK
  OBVIOUS
<1>1. QueueTypes
  BY InitQueueInv, Zenon DEF QueueInv
<1>2. /\ prev \in [CPU -> Task \cup {NoTask}] /\ sem \in [CPU -> Sem \cup {NoSem}]
      /\ w \in [CPU -> Task \cup {NoTask}] /\ wcpu \in [CPU -> CPU \cup {NoCpu}]
  BY Zenon DEF Init
<1>3. /\ comps \in [CPU -> 0..NUM_WORKERS] /\ load \in [Task -> 0..EWMA_SCALE]
      /\ count \in [Sem -> Nat]
  <2>1. 0 \in 0..NUM_WORKERS /\ 0 \in 0..EWMA_SCALE /\ 0 \in Nat
    BY BuildAssumption, EwmaAssumption
  <2> QED BY <2>1, Zenon DEF Init
<1>4. /\ state \in [Task -> {READY, BLOCKED}] /\ ipc \in [Task -> {"user", "wait"}]
      /\ accel_lock \in CPU \cup {NoCpu} /\ sem_lock \in [Sem -> CPU \cup {NoCpu}]
      /\ rq_lock \in [CPU -> CPU \cup {NoCpu}] /\ waiter \in [Sem -> Task \cup {NoTask}]
  BY Zenon DEF Init
<1> QED BY <1>1, <1>2, <1>3, <1>4, Zenon DEF TypeOK, QueueTypes

(* What boot leaves behind satisfies the invariant. *)
LEMMA InitInv == Init => IInv
<1> SUFFICES ASSUME Init PROVE IInv
  OBVIOUS
<1>0. TypeOK
  BY InitType, Zenon
<1>1. HomeInv
  <2>1. \A c \in CPU : next[c] = NoTask /\ w[c] = NoTask
    BY Zenon DEF Init
  <2> QED BY <2>1, InitRun, Zenon DEF HomeInv, WakeLocksHome
<1>2. ControlInv
  <2> SUFFICES ASSUME NEW c \in CPU
               PROVE  PcAt(c) /\ SiteAt(c) /\ SwitchAt(c) /\ SemAt(c) /\ StackAt(c)
    BY Zenon DEF ControlInv
  <2>1. /\ pc[c] = "user" /\ daif[c] = "open" /\ active[c] = "none" /\ site[c] = "none"
        /\ next[c] = NoTask /\ prev[c] = NoTask /\ sem[c] = NoSem /\ w[c] = NoTask /\ wcpu[c] = NoCpu
        /\ curr[c] = run[c] /\ flags[run[c]] = "open" /\ ipc[run[c]] = "user"
    BY InitRun, Zenon DEF Init
  <2> QED BY <2>1, Zenon DEF PcAt, SiteAt, SwitchAt, SemAt, StackAt, PickPCs, LbPCs,
         WaitPCs, PostPCs, DispPCs, WakePCs
<1>3. FrameInv
  <2> SUFFICES ASSUME NEW t \in Task
               PROVE  IF run[home[t]] = t
                      THEN sp[t] = Popped
                      ELSE /\ sp[t] # Popped
                           /\ sp[t].stack = t
                           /\ sp[t].daif = "open" <=> sp[t].at = "start"
                           /\ flags[t] = "open"
                           /\ ipc[t] = "wait" => sp[t].at = "irq"
    BY Zenon DEF FrameInv
  <2>1. home[t] \in CPU
    BY <1>0, Zenon DEF TypeOK
  <2>2. CASE run[home[t]] = t
    <3>1. \E c \in CPU : t = InitQueue[c][1]
      BY <2>1, <2>2, InitRun, Zenon
    <3> QED BY <2>2, <3>1, Zenon DEF Init
  <2>3. CASE run[home[t]] # t
    <3>1. ~ \E c \in CPU : t = InitQueue[c][1]
      <4> SUFFICES ASSUME NEW c \in CPU, t = InitQueue[c][1] PROVE FALSE
        BY Zenon
      <4>1. run[c] = t /\ home[run[c]] = c
        BY InitRun, Zenon
      <4> QED BY <2>3, <4>1, Zenon
    <3>2. sp[t] = [stack |-> t, at |-> "start", daif |-> "open"] /\ flags[t] = "open" /\ ipc[t] = "user"
      BY <3>1, Zenon DEF Init
    <3>3. sp[t] # Popped /\ sp[t].stack = t /\ sp[t].daif = "open" /\ sp[t].at = "start"
      BY <3>2 DEF Popped
    <3> QED BY <2>3, <3>2, <3>3, Zenon
  <2> QED BY <2>2, <2>3, Zenon
<1>4. LockInv
  <2> SUFFICES ASSUME NEW c \in CPU PROVE RqLockAt(c) /\ SemLockAt(c) /\ AccelLockAt(c)
    BY Zenon DEF LockInv
  <2>1. /\ pc[c] = "user" /\ accel_lock = NoCpu
        /\ (\A s \in Sem : sem_lock[s] = NoCpu) /\ (\A d \in CPU : rq_lock[d] = NoCpu)
    BY Zenon DEF Init
  <2> QED BY <2>1, Zenon DEF RqLockAt, HoldsRq, SemLockAt, AccelLockAt, SemHeldPCs, PostPCs
<1>5. SleepInv
  <2>1. /\ \A t \in Task : state[t] # BLOCKED
        /\ \A s \in Sem : waiter[s] = NoTask
        /\ \A c \in CPU : w[c] = NoTask /\ next[c] = NoTask
        /\ pc[0] = "user"
    BY StatesDiffer, BootCpu, Zenon DEF Init
  <2> QED BY <2>1, Zenon DEF SleepInv, SleepersInSemWait, SleepersWakeable, WaitersSleep,
         WokenSleep, WaitersDistinct, WokenDistinct, WokenNotWaiting, PickedReady,
         VictimReady
<1> QED BY <1>1, <1>2, <1>3, <1>4, <1>5 DEF IInv

(* A stuttering step. *)
LEMMA StutterStep ==
    ASSUME TypeOK, IInv, UNCHANGED vars
    PROVE  TypeOK' /\ IInv'
<1>1. TypeOK'
  BY Zenon DEF TypeOK, vars, cpuVars, taskVars
<1>2. HomeInv' /\ FrameInv'
  BY Zenon DEF IInv, HomeInv, WakeLocksHome, FrameInv, vars, cpuVars, taskVars
<1>3. ControlInv'
  <2>1. /\ UNCHANGED <<pc, daif, site, active, next, prev, run, curr>>
        /\ UNCHANGED <<sem, w, wcpu, flags, ipc>>
    BY Zenon DEF vars, cpuVars, taskVars
  <2>2. ASSUME NEW c \in CPU PROVE (PcAt(c) /\ SiteAt(c) /\ SwitchAt(c) /\ SemAt(c) /\ StackAt(c))'
    <3>1. PcAt(c) /\ SiteAt(c) /\ SwitchAt(c) /\ SemAt(c) /\ StackAt(c)
      BY <2>2, Zenon DEF IInv, ControlInv
    <3>2. PcAt(c)'
      BY <2>1, <3>1, Zenon DEF PcAt
    <3>3. SiteAt(c)'
      BY <2>1, <3>1, Zenon DEF SiteAt
    <3>4. SwitchAt(c)'
      BY <2>1, <3>1, Zenon DEF SwitchAt
    <3>5. SemAt(c)'
      BY <2>1, <3>1, Zenon DEF SemAt
    <3>6. StackAt(c)'
      BY <2>1, <3>1, Zenon DEF StackAt
    <3> QED BY <3>2, <3>3, <3>4, <3>5, <3>6
  <2> QED BY <2>2, Zenon DEF ControlInv
<1>4. LockInv'
  <2>1. UNCHANGED <<rq_lock, sem_lock, accel_lock, pc, wcpu, sem, active, lb>>
    BY Zenon DEF vars, cpuVars
  <2>2. ASSUME NEW c \in CPU PROVE RqLockAt(c)' /\ SemLockAt(c)' /\ AccelLockAt(c)'
    <3>1. RqLockAt(c)'
      <4>1. \A d \in CPU : HoldsRq(c, d)' <=> HoldsRq(c, d)
        BY <2>1, Zenon DEF HoldsRq
      <4> QED BY <2>1, <4>1, Zenon DEF IInv, LockInv, RqLockAt
    <3>2. SemLockAt(c)'
      BY <2>1, Zenon DEF IInv, LockInv, SemLockAt
    <3>3. AccelLockAt(c)'
      BY <2>1, Zenon DEF IInv, LockInv, AccelLockAt
    <3> QED BY <3>1, <3>2, <3>3
  <2> QED BY <2>2, Zenon DEF LockInv
<1>5. SleepInv'
  <2>1. UNCHANGED <<state, waiter, w, next, run, home, pc, site, ipc, sp, lb>>
    BY Zenon DEF vars, cpuVars, taskVars
  <2>2. SleepersInSemWait' /\ SleepersWakeable' /\ WaitersSleep' /\ WokenSleep'
    BY <2>1, Zenon DEF IInv, SleepInv, SleepersInSemWait, InSemWait, SleepersWakeable,
         WaitersSleep, WokenSleep
  <2>3. WaitersDistinct' /\ WokenDistinct' /\ WokenNotWaiting' /\ PickedReady' /\ VictimReady'
    BY <2>1, Zenon DEF IInv, SleepInv, WaitersDistinct, WokenDistinct, WokenNotWaiting,
         PickedReady, VictimReady
  <2> QED BY <2>2, <2>3 DEF SleepInv
<1> QED BY <1>1, <1>2, <1>3, <1>4, <1>5, Zenon DEF IInv

(* Every step preserves the invariant, up to the migration race. *)
LEMMA NextStep ==
    ASSUME RaceFree, TypeOK, IInv, QueueInv, QueueInv', [Next]_vars
    PROVE  TypeOK' /\ IInv'
<1>0. NoLbRace
  <2>1. CASE LOAD_BALANCE_SELFTEST
    BY <2>1, Zenon DEF RaceFree
  <2>2. CASE ~LOAD_BALANCE_SELFTEST
    <3>1. pc[0] \notin LbPCs
      BY <2>2, AtCpu, BootCpu, Zenon DEF CpuControl, SiteAt
    <3> QED BY <3>1, Zenon DEF NoLbRace, LbRace, LbPCs
  <2> QED BY <2>1, <2>2
<1>1. CASE UNCHANGED vars
  BY <1>1, StutterStep
<1>2. ASSUME NEW c \in CPU, Acquire(c) PROVE TypeOK' /\ IInv'
  BY <1>2, PickLockStep, SemWaitLockStep, SemPostLockStep, WakeLockStep, DispatchLockStep,
     Zenon DEF Acquire
<1>3. ASSUME NEW c \in CPU, KernelStep(c) PROVE TypeOK' /\ IInv'
  <2>0. PicksAtHome(c)
    BY PickResult, Zenon DEF PicksAtHome
  <2>1. CASE pick_next_ready(c) \/ SetCurrent(c) \/ KeepCurrent(c) \/ switch_to(c) \/ Restore(c)
    BY <2>0, <2>1, pick_next_readyStep, SetCurrentStep, KeepCurrentStep, switch_toStep,
         RestoreStep, Zenon
  <2>2. CASE SemTake(c) \/ SemBlock(c) \/ WaitLoop(c)
    BY <1>0, <2>2, SemTakeStep, SemBlockStep, WaitLoopStep, Zenon
  <2>3. CASE PostCount(c) \/ PostWaiter(c) \/ sched_wake(c) \/ SemPostUnlock(c)
    BY <2>3, PostCountStep, PostWaiterStep, sched_wakeStep, SemPostUnlockStep, Zenon
  <2>4. ASSUME NEW s \in DmaSems, DispatchPost(c, s) PROVE TypeOK' /\ IInv'
    BY <2>4, DispatchPostStep, Zenon
  <2>5. CASE DispatchDone(c) \/ gic_eoi(c) \/ Eret(c)
    BY <2>5, DispatchDoneStep, gic_eoiStep, EretStep, Zenon
  <2> QED BY <1>3, <2>1, <2>2, <2>3, <2>4, <2>5, Zenon DEF KernelStep
<1>4. ASSUME NEW c \in CPU, Call(c) PROVE TypeOK' /\ IInv'
  BY <1>4, yieldStep, PollCompletionsStep, sem_waitStep, sem_postStep, Zenon DEF Call
<1>5. ASSUME NEW c \in CPU, Irq(c) PROVE TypeOK' /\ IInv'
  BY <1>5, TimerIrqStep, DmaIrqStep, Zenon DEF Irq
<1>6. CASE sched_load_balance_pass
  BY <1>0, <1>6, PassPreserves, Zenon
<1> QED BY <1>1, <1>2, <1>3, <1>4, <1>5, <1>6, Zenon DEF Next

(* In every reachable state each variable has its type and the kernel's    *)
(* handlers, run queues, frames and locks are as IInv says, whatever the   *)
(* interleaving of CPUs, calls, interrupts and balancing passes, up to the *)
(* migration race.                                                         *)
THEOREM Invariance == Spec /\ []RaceFree => [](TypeOK /\ IInv /\ QueueInv)
<1>1. Init => TypeOK /\ IInv
  BY InitType, InitInv
<1>2. RaceFree /\ TypeOK /\ IInv /\ QueueInv /\ QueueInv' /\ [Next]_vars => (TypeOK /\ IInv)'
  BY NextStep, Zenon
<1> QED BY <1>1, <1>2, QueueInvariance, PTL DEF Spec

(* Every variable keeps its type. *)
THEOREM TypeCorrect ==
    Spec /\ []RaceFree => []TypeOK
BY Invariance, PTL

(* switch_to never resumes a task twice: stacks are used by one CPU at a   *)
(* time and a frame is popped only when it is there.                       *)
THEOREM StacksSafe ==
    Spec /\ []RaceFree => []StackIntegrity
<1>1. TypeOK /\ IInv => StackIntegrity
  <2> SUFFICES ASSUME TypeOK, IInv PROVE StackIntegrity
    OBVIOUS
  <2>1. \A c, d \in CPU : run[c] = run[d] => c = d
    BY Zenon DEF IInv, HomeInv
  <2>2. ASSUME NEW t \in Task PROVE IF \E c \in CPU : run[c] = t
                                   THEN sp[t] = Popped ELSE sp[t].stack = t
    <3>1. home[t] \in CPU
      BY Types, Zenon DEF TaskTypes
    <3>2. CASE \E c \in CPU : run[c] = t
      <4>1. run[home[t]] = t
        BY <3>2, Zenon DEF IInv, HomeInv
      <4> QED BY <3>2, <4>1, Zenon DEF IInv, FrameInv
    <3>3. CASE ~ \E c \in CPU : run[c] = t
      BY <3>1, <3>3, Zenon DEF IInv, FrameInv
    <3> QED BY <3>2, <3>3
  <2>3. \A c \in CPU : pc[c] # "corrupt"
    BY AtCpu, Zenon DEF CpuControl, PcAt, PickPCs, LbPCs, WaitPCs, PostPCs, DispPCs
  <2> QED BY <2>1, <2>2, <2>3, Zenon DEF StackIntegrity
<1> QED BY <1>1, Invariance, PTL

(* An interrupt finds the CPU in task code or in the wfe loop, with        *)
(* current right and no spinlock held: its handler cannot spin on a lock   *)
(* of the code it interrupted.                                             *)
THEOREM IrqWindowSafe ==
    Spec /\ []RaceFree => []IrqWindow
<1>1. TypeOK /\ IInv => IrqWindow
  <2> SUFFICES ASSUME TypeOK, IInv, NEW c \in CPU
               PROVE  /\ daif[c] = "open" <=> pc[c] \in {"user", "wait"}
                      /\ daif[c] = "open" => /\ curr[c] = run[c]
                                             /\ active[c] = "none"
                                             /\ HoldsNoLock(c)
    BY Zenon DEF IrqWindow
  <2>1. CpuControl(c) /\ CpuLocks(c) /\ CpuTypes(c)
    BY AtCpu, Types, Zenon
  <2>2. daif[c] = "open" <=> pc[c] \in {"user", "wait"}
    BY <2>1, Zenon DEF CpuControl, PcAt
  <2>3. ASSUME pc[c] \in {"user", "wait"}
        PROVE  curr[c] = run[c] /\ active[c] = "none" /\ HoldsNoLock(c)
    <3>1. curr[c] = run[c] /\ active[c] = "none"
      BY <2>1, <2>3, Zenon DEF CpuControl, CpuTypes, SwitchAt, SiteAt, DispPCs, PostPCs
    <3>2. HoldsNoLock(c)
      BY <2>1, <2>3, Zenon DEF CpuLocks, RqLockAt, HoldsRq, SemLockAt, AccelLockAt,
           HoldsNoLock, SemHeldPCs, PostPCs
    <3> QED BY <3>1, <3>2, Zenon
  <2> QED BY <2>2, <2>3, Zenon
<1> QED BY <1>1, Invariance, PTL

(* No wake-up is lost: whoever sleeps is registered with a semaphore or    *)
(* being woken, and nobody else is.                                        *)
THEOREM WakeupsSafe ==
    Spec /\ []RaceFree => []NoLostWakeup
<1>1. TypeOK /\ IInv => NoLostWakeup
  <2> SUFFICES ASSUME TypeOK, IInv, NEW t \in Task
               PROVE  state[t] = BLOCKED <=> \/ \E s \in Sem : waiter[s] = t
                                             \/ \E c \in CPU : w[c] = t
    BY Zenon DEF NoLostWakeup
  <2>1. t # NoTask
    BY Zenon
  <2>2. ASSUME NEW s \in Sem, waiter[s] = t PROVE state[t] = BLOCKED
    BY <2>1, <2>2, Zenon DEF IInv, SleepInv, WaitersSleep
  <2>3. ASSUME NEW c \in CPU, w[c] = t PROVE state[t] = BLOCKED
    BY <2>1, <2>3, Zenon DEF IInv, SleepInv, WokenSleep
  <2> QED BY <2>2, <2>3, Zenon DEF IInv, SleepInv, SleepersWakeable
<1> QED BY <1>1, Invariance, PTL

(* sem_wait returns only in a task that is READY again. *)
THEOREM TaskCodeReady ==
    Spec /\ []RaceFree => []TaskCodeIsReady
<1>1. TypeOK /\ IInv => TaskCodeIsReady
  <2> SUFFICES ASSUME TypeOK, IInv, NEW c \in CPU, pc[c] = "user" PROVE state[run[c]] = READY
    BY Zenon DEF TaskCodeIsReady
  <2>1. CpuControl(c) /\ CpuTypes(c) /\ run[c] \in Task /\ TaskTypes(run[c])
    BY AtCpu, Types, Zenon DEF CpuTypes
  <2>2. home[run[c]] = c
    BY Zenon DEF IInv, HomeInv
  <2>3. active[c] = "none"
    BY <2>1, Zenon DEF CpuControl, CpuTypes, SiteAt, DispPCs, PostPCs
  <2>4. ~ InSemWait(run[c])
    BY <2>1, <2>2, <2>3, Zenon DEF CpuControl, StackAt, InSemWait, PickPCs, LbPCs
  <2> QED BY <2>1, <2>4, Zenon DEF IInv, SleepInv, SleepersInSemWait, TaskTypes
<1> QED BY <1>1, Invariance, PTL

(* The lock order.  Whoever holds a run queue lock spins for nothing,      *)
(* except the balancer between sched_migrate's two locks, which waits for  *)
(* the higher one; whoever holds a semaphore's lock spins for a run queue  *)
(* lock at most; whoever holds accel_lock spins for one of those two at    *)
(* most.                                                                   *)
LEMMA HighLockHolderRuns ==
    ASSUME TypeOK, IInv, QueueInv, NEW c \in CPU, NEW d \in CPU, SpinsOn(c, d),
           pc[c] = "mig_hi", NEW e \in CPU
    PROVE  ~ SpinsOn(d, e)
<1> DEFINE lo == Min({lb.src, lb.idlest})
           hi == Max({lb.src, lb.idlest})
<1>1. CpuControl(c) /\ CpuControl(d) /\ CpuLocks(d)
  BY AtCpu, Zenon
<1>2. c = 0 /\ pc[0] \in LbPCs \ {"lb", "lb_lock", "lb_scan"}
  <2>1. pc[c] \in LbPCs \ {"lb", "lb_lock", "lb_scan"}
    BY Zenon DEF LbPCs
  <2> QED BY <1>1, <2>1, Zenon DEF CpuControl, SiteAt
<1>3. hi \in CPU /\ lo # hi
  BY <1>2, MigrateLocks, Zenon
<1>4. rq_lock[hi] = d
  BY Zenon DEF SpinsOn
<1>5. HoldsRq(d, hi)
  BY <1>1, <1>3, <1>4, Zenon DEF CpuLocks, RqLockAt
<1>6. d # 0
  BY <1>2, <1>3, <1>5, Zenon DEF HoldsRq
<1>7. pc[d] \in {"pick_cs", "wake_cs"}
  BY <1>1, <1>5, <1>6, Zenon DEF HoldsRq, CpuControl, SiteAt, LbPCs
<1> QED BY <1>7, Zenon DEF SpinsOn

(* A holder of a run queue lock that spins is the balancer, between its    *)
(* two locks.                                                              *)
LEMMA RqHolderRuns ==
    ASSUME TypeOK, IInv, QueueInv, NEW c \in CPU, NEW d \in CPU, SpinsOn(c, d),
           pc[c] \in {"pick_lock", "wake_lock", "lb_lock", "migrate"},
           NEW e \in CPU, SpinsOn(d, e)
    PROVE  pc[d] = "mig_hi"
<1>1. CpuControl(c) /\ CpuTypes(c) /\ CpuLocks(d)
  BY AtCpu, Types, Zenon
<1>2. PICK x \in CPU : rq_lock[x] = d
  <2>1. CASE pc[c] = "pick_lock"
    BY <2>1, Zenon DEF SpinsOn
  <2>2. CASE pc[c] = "wake_lock"
    BY <1>1, <2>2, Zenon DEF SpinsOn, CpuControl, CpuTypes, SemAt, WakePCs
  <2>3. CASE pc[c] = "lb_lock"
    BY <2>3, LbFields, Zenon DEF SpinsOn
  <2>4. CASE pc[c] = "migrate"
    <3>1. pc[0] \in LbPCs \ {"lb", "lb_lock", "lb_scan"}
      <4>1. pc[c] \in LbPCs \ {"lb", "lb_lock", "lb_scan"}
        BY <2>4, Zenon DEF LbPCs
      <4> QED BY <1>1, <4>1, Zenon DEF CpuControl, SiteAt
    <3>2. Min({lb.src, lb.idlest}) \in CPU
      BY <3>1, MigrateLocks, Zenon
    <3> QED BY <2>4, <3>2, Zenon DEF SpinsOn
  <2> QED BY <2>1, <2>2, <2>3, <2>4
<1>3. HoldsRq(d, x)
  BY <1>1, <1>2, Zenon DEF CpuLocks, RqLockAt
<1> QED BY <1>3, Zenon DEF SpinsOn, HoldsRq

(* A holder of a semaphore's lock that spins does so in sched_wake. *)
LEMMA SemHolderSpinsForRq ==
    ASSUME TypeOK, IInv, NEW c \in CPU, NEW d \in CPU, SpinsOn(c, d),
           pc[c] \in {"wait_lock", "post_lock"}, NEW e \in CPU, SpinsOn(d, e)
    PROVE  pc[d] \in {"pick_lock", "wake_lock"}
<1>1. CpuControl(c) /\ CpuTypes(c) /\ CpuLocks(d)
  BY AtCpu, Types, Zenon
<1>2. \E x \in Sem : sem_lock[x] = d
  BY <1>1, Zenon DEF SpinsOn, CpuControl, CpuTypes, SemAt, WaitPCs, PostPCs
<1>3. pc[d] \in SemHeldPCs
  BY <1>1, <1>2, Zenon DEF CpuLocks, SemLockAt
<1> QED BY <1>3, Zenon DEF SpinsOn, SemHeldPCs

(* A holder of accel_lock that spins does so in sem_post or sched_wake. *)
LEMMA AccelHolderSpinsInPost ==
    ASSUME TypeOK, IInv, NEW c \in CPU, NEW d \in CPU, SpinsOn(c, d),
           pc[c] = "disp_lock", NEW e \in CPU, SpinsOn(d, e)
    PROVE  pc[d] \in {"post_lock", "wake_lock"}
<1>1. CpuLocks(d)
  BY AtCpu, Zenon
<1>2. accel_lock = d
  BY Zenon DEF SpinsOn
<1>3. pc[d] \in PostPCs \cup {"disp_cs"}
  BY <1>1, <1>2, Zenon DEF CpuLocks, AccelLockAt
<1> QED BY <1>3, Zenon DEF SpinsOn, PostPCs

(* The spinlocks cannot deadlock, on any number of CPUs: accel_lock before *)
(* semaphore locks before run queue locks, and those by ascending CPU id,  *)
(* interrupt handlers and the balancer included.                           *)
THEOREM LocksSafe ==
    Spec /\ []RaceFree => []NoDeadlock
<1>1. TypeOK /\ IInv /\ QueueInv => NoDeadlock
  <2> SUFFICES ASSUME TypeOK, IInv, QueueInv, NEW S \in SUBSET CPU, S # {},
                      \A c \in S : \E d \in S : SpinsOn(c, d)
               PROVE  FALSE
    BY Zenon DEF NoDeadlock
  <2>0. ASSUME NEW c \in S
        PROVE  \E d \in S, e \in S : /\ SpinsOn(c, d) /\ SpinsOn(d, e)
                                     /\ c \in CPU /\ d \in CPU /\ e \in CPU
    <3>1. PICK d \in S : SpinsOn(c, d)
      BY Zenon
    <3>2. PICK e \in S : SpinsOn(d, e)
      BY Zenon
    <3> QED BY <3>1, <3>2, Zenon
  <2>1. ASSUME NEW c \in S PROVE pc[c] # "mig_hi"
    BY <2>0, HighLockHolderRuns, Zenon
  <2>2. ASSUME NEW c \in S PROVE pc[c] \notin {"pick_lock", "wake_lock", "lb_lock", "migrate"}
    BY <2>0, <2>1, RqHolderRuns, Zenon
  <2>3. ASSUME NEW c \in S PROVE pc[c] \notin {"wait_lock", "post_lock"}
    BY <2>0, <2>2, SemHolderSpinsForRq, Zenon
  <2>4. ASSUME NEW c \in S PROVE pc[c] # "disp_lock"
    BY <2>0, <2>2, <2>3, AccelHolderSpinsInPost, Zenon
  <2>5. PICK c \in S : TRUE
    BY Zenon
  <2>6. PICK d \in S : SpinsOn(c, d)
    BY Zenon
  <2> QED BY <2>1, <2>2, <2>3, <2>4, <2>6, Zenon DEF SpinsOn
<1> QED BY <1>1, Invariance, PTL

(* A CPU changes stacks only in switch_to, and then to a task that is      *)
(* READY: it was so when picked, and only the CPU that runs it can block   *)
(* it.                                                                     *)
THEOREM HandoverSafe ==
    Spec /\ []RaceFree => BlockedNeverHandedCpu
<1>1. ASSUME TypeOK, IInv, [Next]_vars
      PROVE  [\A c \in CPU : run'[c] # run[c] => state[run'[c]] = READY]_vars
  <2> SUFFICES ASSUME NEW c \in CPU, run'[c] # run[c] PROVE state[run'[c]] = READY
    BY Zenon
  <2>1. \E d \in CPU : switch_to(d)
    <3>1. CASE UNCHANGED vars
      BY <3>1, Zenon DEF vars, cpuVars
    <3>2. ASSUME NEW d \in CPU, Acquire(d) PROVE FALSE
      BY <3>2, Zenon DEF Acquire, PickLock, SemWaitLock, SemPostLock, WakeLock,
           DispatchLock, switchVars
    <3>3. ASSUME NEW d \in CPU, Call(d) PROVE FALSE
      BY <3>3, Zenon DEF Call, yield, PollCompletions, sem_wait, sem_post, switchVars
    <3>4. ASSUME NEW d \in CPU, Irq(d) PROVE FALSE
      BY <3>4, Zenon DEF Irq, TimerIrq, DmaIrq, switchVars
    <3>5. ASSUME NEW d \in CPU, KernelStep(d) PROVE switch_to(d)
      BY <3>5, Zenon DEF KernelStep, pick_next_ready, SetCurrent, KeepCurrent, Restore,
           SemTake, SemBlock, WaitLoop, PostCount, PostWaiter, sched_wake, SemPostUnlock,
           DispatchPost, DispatchDone, gic_eoi, Eret, switchVars
    <3>6. ASSUME sched_load_balance_pass PROVE FALSE
      BY <1>1, <3>6, PassIs, Zenon DEF LbGoto, switchVars
    <3> QED BY <3>1, <3>2, <3>3, <3>4, <3>5, <3>6, <1>1, Zenon DEF Next
  <2>2. PICK d \in CPU : switch_to(d)
    BY <2>1
  <2>3. CpuControl(d) /\ CpuTypes(d) /\ run \in [CPU -> Task]
    BY <1>1, AtCpu, Types, Zenon DEF TypeOK
  <2>4. pc[d] = "switch" /\ next[d] \in Task /\ next[d] # run[d] /\ next[d] # NoTask
    BY <2>2, <2>3, Zenon DEF switch_to, CpuControl, CpuTypes, SwitchAt
  <2>5. sp[next[d]].stack = next[d] \/ sp[next[d]] = Popped
    BY <1>1, <2>4, Zenon DEF IInv, FrameInv
  <2>6. c = d /\ run'[c] = next[d]
    BY <2>2, <2>3, <2>5, Zenon DEF switch_to
  <2> QED BY <1>1, <2>4, <2>6, Zenon DEF IInv, SleepInv, PickedReady
<1> QED BY <1>1, Invariance, PTL DEF Spec, BlockedNeverHandedCpu

(* sem_post and sem_wait never leave both a token and a sleeper behind.    *)
THEOREM TokensSafe ==
    Spec /\ []RaceFree => []NoSleeperWithTokens
<1>1. Init => NoSleeperWithTokens
  BY Zenon DEF Init, NoSleeperWithTokens
<1>2. ASSUME TypeOK, IInv, NoSleeperWithTokens, [Next]_vars
      PROVE  NoSleeperWithTokens'
  <2>1. /\ count \in [Sem -> Nat] /\ waiter \in [Sem -> Task \cup {NoTask}]
        /\ \A d \in CPU : CpuControl(d) /\ CpuTypes(d)
    BY <1>2, AtCpu, Types, Zenon DEF TypeOK
  <2>2. ASSUME NEW d \in CPU, SemTake(d) PROVE NoSleeperWithTokens'
    <3>1. waiter' = waiter /\ count[sem[d]] > 0
          /\ \A s \in Sem : s # sem[d] => count'[s] = count[s]
      BY <2>1, <2>2, Zenon DEF SemTake
    <3> QED BY <1>2, <3>1, Zenon DEF NoSleeperWithTokens
  <2>3. ASSUME NEW d \in CPU, SemBlock(d) PROVE NoSleeperWithTokens'
    <3>1. count' = count /\ ~ count[sem[d]] > 0
          /\ \A s \in Sem : s # sem[d] => waiter'[s] = waiter[s]
      BY <2>1, <2>3, Zenon DEF SemBlock
    <3> QED BY <1>2, <3>1, Zenon DEF NoSleeperWithTokens
  <2>4. ASSUME NEW d \in CPU, PostCount(d) PROVE NoSleeperWithTokens'
    <3>1. waiter' = waiter /\ waiter[sem[d]] = NoTask
          /\ \A s \in Sem : s # sem[d] => count'[s] = count[s]
      BY <2>1, <2>4, Zenon DEF PostCount
    <3> QED BY <1>2, <3>1, Zenon DEF NoSleeperWithTokens
  <2>5. ASSUME NEW d \in CPU, PostWaiter(d) PROVE NoSleeperWithTokens'
    <3>1. count' = count /\ \A s \in Sem : waiter'[s] = waiter[s] \/ waiter'[s] = NoTask
      BY <2>1, <2>5, Zenon DEF PostWaiter
    <3> QED BY <1>2, <3>1, Zenon DEF NoSleeperWithTokens
  <2>6. CASE UNCHANGED <<count, waiter>>
    BY <1>2, <2>6, Zenon DEF NoSleeperWithTokens
  <2>7. \/ UNCHANGED <<count, waiter>>
        \/ \E d \in CPU : SemTake(d) \/ SemBlock(d) \/ PostCount(d) \/ PostWaiter(d)
    <3>1. CASE UNCHANGED vars
      BY <3>1, Zenon DEF vars
    <3>2. ASSUME NEW d \in CPU, Acquire(d) PROVE UNCHANGED <<count, waiter>>
      BY <3>2, Zenon DEF Acquire, PickLock, SemWaitLock, SemPostLock, WakeLock,
           DispatchLock, semVars
    <3>3. ASSUME NEW d \in CPU, Call(d) PROVE UNCHANGED <<count, waiter>>
      BY <3>3, Zenon DEF Call, yield, PollCompletions, sem_wait, sem_post, semVars
    <3>4. ASSUME NEW d \in CPU, Irq(d) PROVE UNCHANGED <<count, waiter>>
      BY <3>4, Zenon DEF Irq, TimerIrq, DmaIrq, semVars
    <3>5. ASSUME NEW d \in CPU, KernelStep(d)
          PROVE  \/ UNCHANGED <<count, waiter>>
                 \/ SemTake(d) \/ SemBlock(d) \/ PostCount(d) \/ PostWaiter(d)
      BY <3>5, Zenon DEF KernelStep, pick_next_ready, SetCurrent, KeepCurrent, switch_to,
           Restore, WaitLoop, sched_wake, SemPostUnlock, DispatchPost, DispatchDone,
           gic_eoi, Eret, semVars
    <3>6. ASSUME sched_load_balance_pass PROVE UNCHANGED <<count, waiter>>
      BY <1>2, <3>6, PassIs, Zenon DEF LbGoto, semVars
    <3> QED BY <3>1, <3>2, <3>3, <3>4, <3>5, <3>6, <1>2, Zenon DEF Next
  <2> QED BY <2>2, <2>3, <2>4, <2>5, <2>6, <2>7, Zenon
<1> QED BY <1>1, <1>2, Invariance, PTL DEF Spec

-----------------------------------------------------------------------------
(* sem_wait and sem_post implement Semaphore on any number of CPUs: every  *)
(* step of the kernel is a Post, Wait, Take, Handover or Resume, or leaves *)
(* the permits and the callers alone.                                      *)
THEOREM SemaphoreIsAtomic ==
    Spec /\ []RaceFree => SemaphoreAtomic
<1>1. ASSUME Init, TypeOK, IInv PROVE SM!Init
  <2>1. /\ count = [s \in Sem |-> 0] /\ \A s \in Sem : waiter[s] = NoTask
        /\ \A c \in CPU : pc[c] = "user"
        /\ \A t \in Task : ipc[t] = "user" /\ (sp[t] = Popped \/ sp[t].at = "start")
    BY <1>1 DEF Init
  <2>2. Asking = {}
    BY <2>1, NullAssumption DEF Asking, AsksFor, WaitPCs
  <2>3. Granted = {}
    <3>1. ASSUME NEW t \in Task PROVE ~ InSemWait(t)
      <4>1. home[t] \in CPU /\ sp[t].at # "sem_wait"
        BY <1>1, <2>1, Types DEF TaskTypes, Popped
      <4> QED BY <2>1, <4>1 DEF InSemWait, PickPCs, LbPCs
    <3> QED BY <3>1, Zenon DEF Granted
  <2> QED BY <2>1, <2>2, <2>3, Zenon DEF SM!Init
<1>2. ASSUME RaceFree, TypeOK, IInv, QueueInv, TypeOK', IInv', [Next]_vars
      PROVE  [SM!Next]_SM!vars
  <2>1. CASE UNCHANGED vars
    <3>1. UNCHANGED <<count, waiter, home, run, pc, site, ipc, sp, sem>>
      BY <2>1, Zenon DEF vars, cpuVars, taskVars
    <3>2. \A t \in Task : InSemWait(t)' <=> InSemWait(t)
      BY <3>1, Zenon DEF InSemWait
    <3>3. \A t \in Task, s \in Sem : AsksFor(t, s)' <=> AsksFor(t, s)
      BY <3>1, <3>2, Zenon DEF AsksFor
    <3>4. Asking' = Asking /\ Granted' = Granted
      BY <3>1, <3>2, <3>3, Zenon DEF Asking, Granted
    <3> QED BY <3>1, <3>4, Zenon DEF SM!vars
  <2>2. ASSUME NEW c \in CPU, Acquire(c) PROVE [SM!Next]_SM!vars
    BY <1>2, <2>2, PickNeutral, CallNeutral, Zenon DEF Acquire
  <2>3. ASSUME NEW c \in CPU, Irq(c) PROVE [SM!Next]_SM!vars
    BY <1>2, <2>3, IrqNeutral, Zenon DEF Irq
  <2>4. ASSUME NEW c \in CPU, Call(c) PROVE [SM!Next]_SM!vars
    <3>1. CASE yield(c) \/ PollCompletions(c) \/ \E s \in Sem : sem_post(c, s)
      BY <1>2, <3>1, CallNeutral, Zenon
    <3>2. ASSUME NEW s \in Sem, sem_wait(c, s) PROVE SM!Next
      <4>1. PICK t \in Task : t = run[c]
        BY <1>2, Types, Zenon DEF CpuTypes
      <4>2. SM!Wait(t, s)
        BY <1>2, <3>2, <4>1, StepWait, Zenon DEF SM!Wait, SM!Outside
      <4> QED BY <4>2, Zenon DEF SM!Next
    <3> QED BY <2>4, <3>1, <3>2, Zenon DEF Call
  <2>5. ASSUME NEW c \in CPU, KernelStep(c) PROVE [SM!Next]_SM!vars
    <3>1. CASE \/ pick_next_ready(c) \/ SetCurrent(c) \/ KeepCurrent(c) \/ gic_eoi(c)
      BY <1>2, <3>1, PickNeutral, Zenon
    <3>2. CASE Eret(c)
      BY <1>2, <3>2, IrqNeutral, Zenon
    <3>3. CASE \/ Restore(c) \/ sched_wake(c) \/ SemPostUnlock(c) \/ DispatchDone(c)
               \/ \E s \in DmaSems : DispatchPost(c, s)
      <4>1. DmaSems \subseteq Sem
        BY ClientAssumption, Zenon
      <4> QED BY <1>2, <3>3, <4>1, CallNeutral, Zenon
    <3>4. CASE SemTake(c)
      <4>1. PICK t \in Task, s \in Sem : t = run[c] /\ s = sem[c]
        BY <1>2, <3>4, StepTake, Types, Zenon DEF CpuTypes
      <4>2. SM!Take(t, s)
        BY <1>2, <3>4, <4>1, StepTake, Zenon DEF SM!Take
      <4> QED BY <4>2, Zenon DEF SM!Next
    <3>5. CASE SemBlock(c)
      BY <1>2, <3>5, StepBlock, Zenon
    <3>6. CASE WaitLoop(c)
      <4>1. PICK t \in Task : t = run[c]
        BY <1>2, Types, Zenon DEF CpuTypes
      <4>2. SM!Resume(t)
        BY <1>2, <3>6, <4>1, StepResume, Zenon DEF SM!Resume
      <4> QED BY <4>2, Zenon DEF SM!Next
    <3>7. CASE PostCount(c)
      <4>1. PICK s \in Sem : s = sem[c]
        BY <1>2, <3>7, StepPost, Zenon
      <4>2. SM!Post(s)
        BY <1>2, <3>7, <4>1, StepPost, Zenon DEF SM!Post
      <4> QED BY <4>2, Zenon DEF SM!Next
    <3>8. CASE PostWaiter(c)
      <4>1. PICK t \in Task, s \in Sem : t = waiter[sem[c]] /\ s = sem[c]
        BY <1>2, <3>8, StepHandover, Zenon
      <4>2. SM!Handover(t, s)
        BY <1>2, <3>8, <4>1, StepHandover, Zenon DEF SM!Handover
      <4> QED BY <4>2, Zenon DEF SM!Next
    <3>9. CASE switch_to(c)
      BY <1>2, <3>9, StepSwitch, Zenon DEF SM!Next
    <3> QED BY <2>5, <3>1, <3>2, <3>3, <3>4, <3>5, <3>6, <3>7, <3>8, <3>9,
         Zenon DEF KernelStep
  <2>6. CASE LOAD_BALANCE_SELFTEST /\ sched_load_balance_pass
    BY <1>2, <2>6, PassNeutral, Zenon DEF RaceFree
  <2> QED BY <1>2, <2>1, <2>2, <2>3, <2>4, <2>5, <2>6, Zenon DEF Next
<1> QED BY <1>1, <1>2, Invariance, PTL DEF Spec, SemaphoreAtomic, SM!Spec

-----------------------------------------------------------------------------
(* The default build leaves sched_load_balance_pass out (main.c's timer    *)
(* handler calls it under LOAD_BALANCE_SELFTEST only), so there everything *)
(* above holds of every behaviour.                                         *)
THEOREM DefaultBuild ==
    ASSUME ~LOAD_BALANCE_SELFTEST
    PROVE  Spec => /\ []TypeOK /\ []StackIntegrity /\ []IrqWindow /\ []NoLostWakeup
                   /\ []TaskCodeIsReady /\ []NoDeadlock
                   /\ []NoSleeperWithTokens /\ BlockedNeverHandedCpu /\ SemaphoreAtomic
<1>1. RaceFree
  BY Zenon DEF RaceFree
<1> QED BY <1>1, TypeCorrect, StacksSafe, IrqWindowSafe, WakeupsSafe, TaskCodeReady, LocksSafe,
           TokensSafe, HandoverSafe, SemaphoreIsAtomic, PTL
=============================================================================
