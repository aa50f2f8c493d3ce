---------------------------- MODULE SmpSchedSteps ---------------------------
(***************************************************************************)
(* The inductive invariant is preserved by picking, switching and          *)
(* interrupt handling.  A step of CPU c can only disturb what the          *)
(* invariant says of c and of the task it runs; the lemmas below settle    *)
(* the other CPUs and tasks once, so that the proof of an action deals     *)
(* with c alone: its types, its effect, then one step per conjunct.        *)
(***************************************************************************)
EXTENDS SmpSchedInv, TLAPS

(* The load average never leaves 0 .. EWMA_SCALE (ewma_on_tick). *)
THEOREM LoadBounded ==
    ASSUME NEW ld \in 0..EWMA_SCALE, NEW policy
    PROVE  on_tick(policy, ld) \in 0..EWMA_SCALE
<1> DEFINE a == EWMA_ALPHA_NUM
           d == EWMA_ALPHA_DEN
           n == a * EWMA_SCALE + (d - a) * ld
<1>1. n \in Nat /\ n <= d * EWMA_SCALE
  <2>1. (d - a) * ld <= (d - a) * EWMA_SCALE
    BY EwmaAssumption
  <2>2. a * EWMA_SCALE + (d - a) * EWMA_SCALE = d * EWMA_SCALE
    BY EwmaAssumption
  <2> QED BY <2>1, <2>2, EwmaAssumption
<1>2. n \div d \in 0..EWMA_SCALE
  BY <1>1, EwmaAssumption
<1> QED BY <1>2, Zenon DEF on_tick, ewma_on_tick

-----------------------------------------------------------------------------
(* Lemmas the proofs of the steps share.                                   *)

(* sem_t.count stays a natural number. *)
LEMMA CountDown ==
    ASSUME NEW S, NEW f \in [S -> Nat], NEW s \in S, f[s] > 0
    PROVE  [f EXCEPT ![s] = @ - 1] \in [S -> Nat]
OBVIOUS

(* sem_post: sem_t.count stays a natural number. *)
LEMMA CountUp ==
    ASSUME NEW S, NEW f \in [S -> Nat], NEW s \in S
    PROVE  [f EXCEPT ![s] = @ + 1] \in [S -> Nat]
OBVIOUS

(* A task is READY or BLOCKED (tcb_t.state), never both. *)
LEMMA StatesDiffer == READY # BLOCKED
BY DEF READY, BLOCKED

(* The dispatcher's loop over drained completions stays in bounds. *)
LEMMA CompsDown ==
    ASSUME NEW n \in Nat, NEW k \in 0..n, k > 0
    PROVE  k - 1 \in 0..n
OBVIOUS

(* Nothing drained is a possible number of completions. *)
LEMMA CompsZero ==
    ASSUME NEW n \in Nat
    PROVE  0 \in 0..n
OBVIOUS

USE CpuAssumption, NullAssumption

(* The boot CPU, which runs the balancing pass, is one of the CPUs. *)
LEMMA BootCpu == 0 \in CPU
BY DEF CPU

-----------------------------------------------------------------------------
(* The invariant and the types, one CPU or one task at a time.             *)

CpuControl(c) == PcAt(c) /\ SiteAt(c) /\ SwitchAt(c) /\ SemAt(c) /\ StackAt(c)
CpuLocks(c) == RqLockAt(c) /\ SemLockAt(c) /\ AccelLockAt(c)

(* The invariant, read at one CPU. *)
LEMMA AtCpu ==
    ASSUME IInv, NEW d \in CPU
    PROVE  CpuControl(d) /\ CpuLocks(d)
BY Zenon DEF IInv, ControlInv, LockInv, CpuControl, CpuLocks

CpuTypes(d) ==
    /\ run[d] \in Task /\ curr[d] \in Task
    /\ daif[d] \in {"open", "masked"}
    /\ active[d] \in {"none", "timer", "dma"}
    /\ site[d] \in {"yield", "sem_wait", "irq", "none"}
    /\ next[d] \in Task \cup {NoTask}
    /\ sem[d] \in Sem \cup {NoSem}
    /\ w[d] \in Task \cup {NoTask}
    /\ wcpu[d] \in CPU \cup {NoCpu}

TaskTypes(t) ==
    /\ state[t] \in {READY, BLOCKED}
    /\ home[t] \in CPU
    /\ flags[t] \in {"open", "masked"}
    /\ ipc[t] \in {"user", "wait"}

(* Type correctness, read at one CPU, one task, one semaphore. *)
LEMMA Types ==
    ASSUME TypeOK
    PROVE  /\ \A d \in CPU : CpuTypes(d)
           /\ \A t \in Task : TaskTypes(t)
           /\ \A s \in Sem : waiter[s] \in Task \cup {NoTask}
<1>1. \A d \in CPU : CpuTypes(d)
  BY ZenonT(40) DEF TypeOK, Sites, CpuTypes
<1>2. \A t \in Task : TaskTypes(t)
  BY Zenon DEF TypeOK, TaskTypes
<1>3. \A s \in Sem : waiter[s] \in Task \cup {NoTask}
  BY Zenon DEF TypeOK
<1> QED BY <1>1, <1>2, <1>3, Zenon

(* Each CPU runs a task of its own queue. *)
LEMMA RunDistinct ==
    ASSUME IInv, NEW c \in CPU, NEW d \in CPU, c # d
    PROVE  run[c] # run[d]
BY Zenon DEF IInv, HomeInv

-----------------------------------------------------------------------------
(* What a step of CPU c leaves alone keeps its part of the invariant.      *)

SameCpu(d) ==
    /\ pc'[d] = pc[d] /\ run'[d] = run[d] /\ curr'[d] = curr[d]
    /\ daif'[d] = daif[d] /\ active'[d] = active[d]
    /\ site'[d] = site[d] /\ next'[d] = next[d] /\ prev'[d] = prev[d]
    /\ sem'[d] = sem[d] /\ w'[d] = w[d] /\ wcpu'[d] = wcpu[d]
    /\ flags'[run[d]] = flags[run[d]] /\ ipc'[run[d]] = ipc[run[d]]
    /\ pc[d] \in LbPCs => lb' = lb
    /\ accel_lock' = d <=> accel_lock = d
    /\ \A e \in CPU : rq_lock'[e] = d <=> rq_lock[e] = d
    /\ \A s \in Sem : sem_lock'[s] = d <=> sem_lock[s] = d

(* A CPU whose registers, locals and locks do not change keeps its invariant. *)
LEMMA OtherCpu ==
    ASSUME NEW d \in CPU, CpuControl(d), CpuLocks(d), SameCpu(d), CpuTypes(d)
    PROVE  CpuControl(d)' /\ CpuLocks(d)'
<1>1. (PcAt(d) /\ SiteAt(d))'
  BY Zenon DEF CpuControl, SameCpu, PcAt, SiteAt, PickPCs, LbPCs, WaitPCs, PostPCs, DispPCs
<1>2. (SwitchAt(d) /\ SemAt(d))'
  BY Zenon DEF CpuControl, SameCpu, SwitchAt, SemAt, LbPCs, WaitPCs, PostPCs, WakePCs
<1>3. StackAt(d)'
  BY ZenonT(30) DEF CpuControl, CpuTypes, SameCpu, StackAt, PickPCs, LbPCs, PostPCs, DispPCs
<1>4. RqLockAt(d)'
  <2>1. \A e \in CPU : HoldsRq(d, e)' <=> HoldsRq(d, e)
    <3>1. CASE pc[d] \in LbPCs
      BY <3>1, Zenon DEF SameCpu, HoldsRq
    <3>2. CASE pc[d] \notin LbPCs
      BY <3>2, Zenon DEF SameCpu, HoldsRq, LbPCs
    <3> QED BY <3>1, <3>2, Zenon
  <2> QED BY <2>1, Zenon DEF CpuLocks, SameCpu, RqLockAt
<1>5. SemLockAt(d)'
  BY Zenon DEF CpuLocks, SameCpu, SemLockAt, SemHeldPCs
<1>6. AccelLockAt(d)'
  BY Zenon DEF CpuLocks, SameCpu, AccelLockAt, PostPCs
<1> QED BY <1>1, <1>2, <1>3, <1>4, <1>5, <1>6, Zenon DEF CpuControl, CpuLocks

(* Only switch_to changes stacks and frames. *)
LEMMA FrameKept ==
    ASSUME FrameInv, UNCHANGED <<home, run, sp>>,
           \A t \in Task : run[home[t]] # t => flags'[t] = flags[t] /\ ipc'[t] = ipc[t]
    PROVE  FrameInv'
<1> SUFFICES ASSUME NEW t \in Task
             PROVE  IF run[home[t]] = t
                    THEN sp[t] = Popped
                    ELSE /\ sp[t] # Popped
                         /\ sp[t].stack = t
                         /\ sp[t].daif = "open" <=> sp[t].at = "start"
                         /\ flags'[t] = "open"
                         /\ ipc'[t] = "wait" => sp[t].at = "irq"
  BY ZenonT(40) DEF FrameInv
<1>1. CASE run[home[t]] = t
  BY <1>1, Zenon DEF FrameInv
<1>2. CASE run[home[t]] # t
  <2>1. flags'[t] = flags[t] /\ ipc'[t] = ipc[t]
    BY <1>2, Zenon
  <2>2. /\ sp[t] # Popped /\ sp[t].stack = t
        /\ sp[t].daif = "open" <=> sp[t].at = "start"
        /\ flags[t] = "open"
        /\ ipc[t] = "wait" => sp[t].at = "irq"
    BY <1>2, Zenon DEF FrameInv
  <2> QED BY <1>2, <2>1, <2>2, Zenon
<1> QED BY <1>1, <1>2, Zenon

(* A task that CPU c does not run stays where it sleeps. *)
LEMMA SleeperKept ==
    ASSUME NEW c \in CPU, NEW t \in Task, t # run[c], t # run'[c], InSemWait(t),
           home[t] \in CPU, home'[t] = home[t],
           sp'[t] = sp[t], ipc'[t] = ipc[t],
           \A d \in CPU \ {c} : pc'[d] = pc[d] /\ site'[d] = site[d] /\ run'[d] = run[d]
    PROVE  InSemWait(t)'
<1>1. CASE home[t] = c
  BY <1>1, Zenon DEF InSemWait
<1>2. CASE home[t] # c
  BY <1>2, Zenon DEF InSemWait
<1> QED BY <1>1, <1>2, Zenon

(* Nobody goes to sleep or is woken. *)
LEMMA SleepKept ==
    ASSUME SleepInv, NEW c \in CPU, CpuTypes(c),
           \A t \in Task : TaskTypes(t),
           UNCHANGED <<state, waiter, w, home, run, sp>>,
           \A d \in CPU \ {c} : pc'[d] = pc[d] /\ site'[d] = site[d] /\ next'[d] = next[d],
           \A t \in Task \ {run[c]} : ipc'[t] = ipc[t],
           state[run[c]] = BLOCKED => InSemWait(run[c])',
           next'[c] = NoTask \/ next'[c] = run[c] \/ state[next'[c]] = READY,
           VictimReady'
    PROVE  SleepInv'
<1>1. ASSUME NEW t \in Task, state'[t] = BLOCKED PROVE InSemWait(t)'
  <2>1. InSemWait(t) /\ home[t] \in CPU
    BY <1>1, Zenon DEF SleepInv, SleepersInSemWait, TaskTypes
  <2>2. CASE t = run[c]
    BY <1>1, <2>2, Zenon
  <2>3. CASE t # run[c]
    <3>1. ipc'[t] = ipc[t]
      BY <2>3, Zenon
    <3>2. /\ sp'[t] = sp[t] /\ home'[t] = home[t] /\ t # run'[c]
          /\ \A d \in CPU \ {c} : run'[d] = run[d]
      BY <2>3, Zenon
    <3> QED BY <2>1, <2>3, <3>1, <3>2, SleeperKept, Zenon
  <2> QED BY <2>2, <2>3, Zenon
<1>2. ASSUME NEW d \in CPU, next'[d] # NoTask /\ next'[d] # run'[d]
      PROVE  state'[next'[d]] = READY
  BY <1>2, Zenon DEF SleepInv, PickedReady
<1> QED BY <1>1, <1>2, Zenon DEF SleepInv, SleepersInSemWait, SleepersWakeable,
     WaitersSleep, WokenSleep, WaitersDistinct, WokenDistinct, WokenNotWaiting,
     PickedReady

(* Homes stay: CPU c runs and picks tasks of its queue. *)
LEMMA HomeKept ==
    ASSUME HomeInv, UNCHANGED <<home, w, wcpu>>, NEW c \in CPU,
           \A d \in CPU \ {c} : /\ run'[d] = run[d] /\ curr'[d] = curr[d]
                                /\ next'[d] = next[d],
           home[run'[c]] = c, home[curr'[c]] = c,
           next'[c] = NoTask \/ home[next'[c]] = c
    PROVE  HomeInv'
<1>1. WakeLocksHome'
  BY Zenon DEF HomeInv, WakeLocksHome
<1> QED BY <1>1, Zenon DEF HomeInv

(* The invariant of CPU c after its step, and everybody else undisturbed. *)
LEMMA Combine ==
    ASSUME TypeOK, IInv, NEW c \in CPU,
           \A d \in CPU \ {c} : SameCpu(d),
           CpuControl(c)', CpuLocks(c)', FrameInv', SleepInv', HomeInv'
    PROVE  IInv'
<1>1. ASSUME NEW d \in CPU PROVE CpuControl(d)' /\ CpuLocks(d)'
  BY AtCpu, OtherCpu, Types, Zenon
<1>2. ControlInv' /\ LockInv'
  BY <1>1, Zenon DEF ControlInv, LockInv, CpuControl, CpuLocks
<1> QED BY <1>2, Zenon DEF IInv

(* CPU c runs a task of its own, which sleeps only inside sem_wait. *)
LEMMA RunHere ==
    ASSUME TypeOK, IInv, NEW c \in CPU
    PROVE  home[run[c]] = c /\ (state[run[c]] = BLOCKED => InSemWait(run[c]))
<1>1. run[c] \in Task
  BY Types, Zenon DEF CpuTypes
<1> QED BY <1>1, Zenon DEF IInv, HomeInv, SleepInv, SleepersInSemWait

(* A step of CPU c that switches no stack, wakes nobody and moves no task. *)
LEMMA Still ==
    ASSUME TypeOK, IInv, NEW c \in CPU,
           UNCHANGED <<home, run, sp, state, waiter, w, wcpu>>,
           \A t \in Task \ {run[c]} : flags'[t] = flags[t] /\ ipc'[t] = ipc[t],
           \A d \in CPU \ {c} : SameCpu(d),
           CpuControl(c)', CpuLocks(c)', VictimReady',
           state[run[c]] = BLOCKED => InSemWait(run[c])',
           home[curr'[c]] = c,
           next'[c] = NoTask \/ home[next'[c]] = c,
           next'[c] = NoTask \/ next'[c] = run[c] \/ state[next'[c]] = READY
    PROVE  IInv'
<1>1. HomeInv /\ FrameInv /\ SleepInv /\ home[run[c]] = c
  BY Zenon DEF IInv, HomeInv
<1>2. \A d \in CPU \ {c} : /\ pc'[d] = pc[d] /\ site'[d] = site[d] /\ run'[d] = run[d]
                            /\ curr'[d] = curr[d] /\ next'[d] = next[d]
  BY Zenon DEF SameCpu
<1>3. FrameInv'
  <2>1. \A t \in Task : run[home[t]] # t => t # run[c]
    BY <1>1, Zenon
  <2>2. \A t \in Task : run[home[t]] # t => flags'[t] = flags[t] /\ ipc'[t] = ipc[t]
    BY <2>1, Zenon
  <2> QED BY <1>1, <2>2, FrameKept, Zenon
<1>4. SleepInv'
  <2>1. CpuTypes(c) /\ \A t \in Task : TaskTypes(t)
    BY Types, Zenon
  <2> QED BY <1>1, <1>2, <2>1, SleepKept, Zenon
<1>5. HomeInv'
  BY <1>1, <1>2, HomeKept, Zenon
<1> QED BY <1>3, <1>4, <1>5, Combine, Zenon

(* The balancer's victim, across a step outside the balancing pass. *)
LEMMA VictimKept ==
    ASSUME IInv, NEW c \in CPU, UNCHANGED <<state, lb>>, pc'[c] # "mig_move",
           \A d \in CPU \ {c} : pc'[d] = pc[d]
    PROVE  VictimReady'
<1>1. pc'[0] = "mig_move" => pc[0] = "mig_move"
  BY BootCpu, Zenon
<1> QED BY <1>1, Zenon DEF IInv, SleepInv, VictimReady

(* A step of CPU c that does not pick either. *)
LEMMA Quiet ==
    ASSUME TypeOK, IInv, NEW c \in CPU,
           UNCHANGED <<home, run, sp, state, waiter, w, wcpu, curr, next, lb>>,
           \A t \in Task \ {run[c]} : flags'[t] = flags[t] /\ ipc'[t] = ipc[t],
           \A d \in CPU \ {c} : SameCpu(d),
           CpuControl(c)', CpuLocks(c)', pc'[c] # "mig_move",
           state[run[c]] = BLOCKED => InSemWait(run[c])'
    PROVE  IInv'
<1>1. /\ home[curr[c]] = c /\ (next[c] = NoTask \/ home[next[c]] = c)
      /\ next[c] = NoTask \/ next[c] = run[c] \/ state[next[c]] = READY
  BY Zenon DEF IInv, HomeInv, SleepInv, PickedReady
<1>2. VictimReady'
  BY VictimKept, Zenon DEF SameCpu
<1> QED BY <1>1, <1>2, Still, Zenon

-----------------------------------------------------------------------------
(* One lemma per action.                                                   *)

(* PickLock: the lock of the CPU's own queue. *)
LEMMA PickLockStep ==
    ASSUME TypeOK, IInv, NEW c \in CPU, PickLock(c)
    PROVE  TypeOK' /\ IInv'
<1>1. /\ HomeInv /\ FrameInv /\ SleepInv
      /\ CpuControl(c) /\ CpuLocks(c)
      /\ CpuTypes(c) /\ TaskTypes(run[c]) /\ \A t \in Task : TaskTypes(t)
  BY Types, AtCpu, Zenon DEF IInv, CpuTypes
<1>2. pc \in [CPU -> PCs] /\ rq_lock \in [CPU -> CPU \cup {NoCpu}]
  BY Zenon DEF TypeOK
<1>3. TypeOK'
  <2>1. pc' \in [CPU -> PCs] /\ rq_lock' \in [CPU -> CPU \cup {NoCpu}]
    BY <1>1, <1>2, Zenon DEF PickLock, spin_lock, Goto, schedVars, switchVars, semVars,
         irqVars, maskVars, lockVars, PCs, Sites, CpuTypes, TaskTypes
  <2>2. TypeOK'
    BY <2>1, Zenon DEF TypeOK, PickLock, spin_lock, Goto, schedVars, switchVars, semVars,
         irqVars, maskVars, lockVars
  <2> QED BY <2>2, Zenon
<1>4. /\ pc[c] = "pick_lock" /\ rq_lock[c] = NoCpu
      /\ \A d \in CPU : rq_lock'[d] = IF d = c THEN c ELSE rq_lock[d]
      /\ pc'[c] = "pick_cs"
      /\ \A d \in CPU \ {c} : pc'[d] = pc[d]
      /\ UNCHANGED <<run, curr, daif, active, site, next, prev, sem, w, wcpu, comps,
                     state, load, home, sp, flags, ipc, tasks, current_idx, accel_lock,
                     sem_lock, count, waiter, lb>>
  BY <1>2, Zenon DEF PickLock, spin_lock, Goto, schedVars, switchVars, semVars, irqVars,
       maskVars, lockVars
<1>5. ASSUME NEW d \in CPU \ {c} PROVE SameCpu(d)
  <2>1. run[d] \in Task /\ run[d] # run[c]
    BY Types, RunDistinct, Zenon DEF CpuTypes
  <2> QED BY <1>4, <2>1, Zenon DEF SameCpu
<1>6. CpuControl(c)'
  BY <1>1, <1>4, ZenonT(30) DEF CpuControl, CpuTypes, TaskTypes, PcAt, SiteAt, SwitchAt,
       SemAt, StackAt, PickPCs, LbPCs, WaitPCs, PostPCs, DispPCs, WakePCs
<1>7. CpuLocks(c)'
  <2>1. RqLockAt(c)'
    BY <1>1, <1>4, ZenonT(30) DEF CpuControl, CpuLocks, CpuTypes, SemAt, RqLockAt,
         HoldsRq, WakePCs
  <2>2. SemLockAt(c)'
    BY <1>1, <1>4, ZenonT(30) DEF CpuControl, CpuLocks, CpuTypes, SemAt, SemLockAt,
         SemHeldPCs, WaitPCs, PostPCs
  <2>3. AccelLockAt(c)'
    BY <1>1, <1>4, ZenonT(30) DEF CpuControl, CpuLocks, PcAt, SiteAt, AccelLockAt,
         PickPCs, LbPCs, WaitPCs, PostPCs, DispPCs
  <2> QED BY <2>1, <2>2, <2>3, Zenon DEF CpuLocks
<1>8. state[run[c]] = BLOCKED => InSemWait(run[c])'
  BY <1>1, <1>4, RunHere, ZenonT(30) DEF InSemWait, CpuTypes, CpuControl, StackAt,
       SwitchAt, PickPCs, LbPCs
<1> QED BY <1>3, <1>4, <1>5, <1>6, <1>7, <1>8, Quiet, Zenon

(* What pick_next_ready needs of the policy and the queue: it stays with   *)
(* current or finds a READY task of this CPU (SmpSchedQueues, PickResult). *)
PicksAtHome(c) ==
    LET r == select_next(POLICY, tasks[c], current_idx[c], state, load, curr[c])
    IN  /\ r.task \in Task /\ r.idx \in 0..(MAX_TASKS - 1)
        /\ r.task = curr[c] \/ (home[r.task] = c /\ state[r.task] = READY)

(* pick_next_ready: the task picked is of this CPU's queue, and READY      *)
(* unless it is the running one.                                           *)
LEMMA pick_next_readyStep ==
    ASSUME TypeOK, IInv, NEW c \in CPU, PicksAtHome(c), pick_next_ready(c)
    PROVE  TypeOK' /\ IInv'
<1>1. /\ HomeInv /\ FrameInv /\ SleepInv
      /\ CpuControl(c) /\ CpuLocks(c)
      /\ CpuTypes(c) /\ TaskTypes(run[c]) /\ \A t \in Task : TaskTypes(t)
  BY Types, AtCpu, Zenon DEF IInv, CpuTypes
<1>2. /\ pc \in [CPU -> PCs] /\ next \in [CPU -> Task \cup {NoTask}]
      /\ rq_lock \in [CPU -> CPU \cup {NoCpu}]
      /\ current_idx \in [CPU -> 0..(MAX_TASKS - 1)]
  BY Zenon DEF TypeOK
<1>a. /\ next' \in [CPU -> Task \cup {NoTask}]
      /\ current_idx' \in [CPU -> 0..(MAX_TASKS - 1)]
      /\ \A d \in CPU \ {c} : next'[d] = next[d]
      /\ next'[c] \in Task /\ home[next'[c]] = c
      /\ next'[c] = run[c] \/ state[next'[c]] = READY
  <2> DEFINE r == select_next(POLICY, tasks[c], current_idx[c], state, load, curr[c])
  <2>1. /\ next' = [next EXCEPT ![c] = r.task]
        /\ current_idx' = [current_idx EXCEPT ![c] = r.idx]
        /\ pc[c] = "pick_cs"
    BY Zenon DEF pick_next_ready
  <2>2. /\ r.task \in Task /\ r.idx \in 0..(MAX_TASKS - 1)
        /\ r.task = curr[c] \/ (home[r.task] = c /\ state[r.task] = READY)
    BY Zenon DEF PicksAtHome
  <2> HIDE DEF r
  <2>3. curr[c] = run[c] /\ home[run[c]] = c
    BY <1>1, <2>1, Zenon DEF CpuControl, SwitchAt, HomeInv
  <2> QED BY <1>2, <2>1, <2>2, <2>3, Zenon
<1>3. TypeOK'
  <2>1. pc' \in [CPU -> PCs] /\ rq_lock' \in [CPU -> CPU \cup {NoCpu}]
    BY <1>1, <1>2, Zenon DEF pick_next_ready, spin_unlock, Goto, schedVars, switchVars,
         semVars, irqVars, maskVars, lockVars, PCs, Sites, CpuTypes, TaskTypes
  <2>2. TypeOK'
    BY <2>1, <1>a, Zenon DEF TypeOK, pick_next_ready, spin_unlock, Goto, schedVars,
         switchVars, semVars, irqVars, maskVars, lockVars
  <2> QED BY <2>2, Zenon
<1>4. /\ pc[c] = "pick_cs"
      /\ \A d \in CPU : rq_lock'[d] = IF d = c THEN NoCpu ELSE rq_lock[d]
      /\ pc'[c] = (IF site[c] = "irq" THEN "eoi" ELSE "picked")
      /\ \A d \in CPU \ {c} : pc'[d] = pc[d] /\ next'[d] = next[d]
      /\ next'[c] \in Task /\ home[next'[c]] = c
      /\ next'[c] = run[c] \/ state[next'[c]] = READY
      /\ UNCHANGED <<run, curr, daif, active, site, prev, sem, w, wcpu, comps, state,
                     load, home, sp, flags, ipc, tasks, accel_lock, sem_lock, count,
                     waiter, lb>>
  BY <1>2, <1>a, Zenon DEF pick_next_ready, spin_unlock, Goto, schedVars, switchVars,
       semVars, irqVars, maskVars, lockVars
<1>5. ASSUME NEW d \in CPU \ {c} PROVE SameCpu(d)
  <2>1. run[d] \in Task /\ run[d] # run[c]
    BY Types, RunDistinct, Zenon DEF CpuTypes
  <2>2. rq_lock[c] = c /\ c \in CPU
    BY <1>1, <1>4, ZenonT(30) DEF CpuLocks, CpuControl, CpuTypes, SemAt, RqLockAt,
         HoldsRq, WakePCs
  <2> QED BY <1>4, <2>1, <2>2, Zenon DEF SameCpu
<1>6. CpuControl(c)'
  BY <1>1, <1>4, ZenonT(30) DEF CpuControl, CpuTypes, TaskTypes, PcAt, SiteAt, SwitchAt,
       SemAt, StackAt, PickPCs, LbPCs, WaitPCs, PostPCs, DispPCs, WakePCs
<1>7. CpuLocks(c)'
  <2>1. RqLockAt(c)'
    BY <1>1, <1>4, ZenonT(30) DEF CpuControl, CpuLocks, CpuTypes, SemAt, RqLockAt,
         HoldsRq, WakePCs
  <2>2. SemLockAt(c)'
    BY <1>1, <1>4, ZenonT(30) DEF CpuControl, CpuLocks, CpuTypes, SemAt, SemLockAt,
         SemHeldPCs, WaitPCs, PostPCs
  <2>3. AccelLockAt(c)'
    BY <1>1, <1>4, ZenonT(30) DEF CpuControl, CpuLocks, PcAt, SiteAt, AccelLockAt,
         PickPCs, LbPCs, WaitPCs, PostPCs, DispPCs
  <2> QED BY <2>1, <2>2, <2>3, Zenon DEF CpuLocks
<1>8. state[run[c]] = BLOCKED => InSemWait(run[c])'
  BY <1>1, <1>4, RunHere, ZenonT(30) DEF InSemWait, CpuTypes, CpuControl, StackAt,
       SwitchAt, PickPCs, LbPCs
<1>9. /\ home[run[c]] = c /\ home[curr[c]] = c
      /\ next[c] = NoTask \/ home[next[c]] = c
      /\ next[c] = NoTask \/ next[c] = run[c] \/ state[next[c]] = READY
  BY <1>1, Zenon DEF HomeInv, SleepInv, PickedReady
<1>10. VictimReady'
  BY <1>4, VictimKept, Zenon
<1> QED BY <1>3, <1>4, <1>5, <1>6, <1>7, <1>8, <1>9, <1>10, Still, Zenon

(* SetCurrent: current runs ahead of the stack until switch_to. *)
LEMMA SetCurrentStep ==
    ASSUME TypeOK, IInv, NEW c \in CPU, SetCurrent(c)
    PROVE  TypeOK' /\ IInv'
<1>1. /\ HomeInv /\ FrameInv /\ SleepInv
      /\ CpuControl(c) /\ CpuLocks(c)
      /\ CpuTypes(c) /\ TaskTypes(run[c]) /\ \A t \in Task : TaskTypes(t)
  BY Types, AtCpu, Zenon DEF IInv, CpuTypes
<1>2. pc \in [CPU -> PCs] /\ prev \in [CPU -> Task \cup {NoTask}] /\ curr \in [CPU -> Task]
  BY Zenon DEF TypeOK
<1>a. next[c] \in Task
  BY <1>1, Zenon DEF SetCurrent, CpuControl, SwitchAt, CpuTypes
<1>3. TypeOK'
  <2>1. /\ pc' \in [CPU -> PCs] /\ prev' \in [CPU -> Task \cup {NoTask}]
        /\ curr' \in [CPU -> Task]
    BY <1>1, <1>2, <1>a, Zenon DEF SetCurrent, Goto, schedVars, switchVars, semVars,
         irqVars, maskVars, lockVars, PCs, CpuTypes
  <2>2. TypeOK'
    BY <2>1, Zenon DEF TypeOK, SetCurrent, Goto, schedVars, switchVars, semVars, irqVars,
         maskVars, lockVars
  <2> QED BY <2>2, Zenon
<1>4. /\ pc[c] = "picked" /\ next[c] # curr[c]
      /\ pc'[c] = "switch" /\ prev'[c] = curr[c] /\ curr'[c] = next[c]
      /\ \A d \in CPU \ {c} : pc'[d] = pc[d] /\ prev'[d] = prev[d] /\ curr'[d] = curr[d]
      /\ next[c] \in Task
      /\ UNCHANGED <<run, daif, active, site, next, sem, w, wcpu, comps, state, load,
                     home, sp, flags, ipc, tasks, current_idx, accel_lock, sem_lock,
                     rq_lock, count, waiter, lb>>
  BY <1>2, <1>a, Zenon DEF SetCurrent, Goto, schedVars, switchVars, semVars, irqVars,
       maskVars, lockVars
<1>5. ASSUME NEW d \in CPU \ {c} PROVE SameCpu(d)
  <2>1. run[d] \in Task /\ run[d] # run[c]
    BY Types, RunDistinct, Zenon DEF CpuTypes
  <2> QED BY <1>4, <2>1, Zenon DEF SameCpu
<1>6. CpuControl(c)'
  BY <1>1, <1>4, ZenonT(30) DEF CpuControl, CpuTypes, TaskTypes, PcAt, SiteAt, SwitchAt,
       SemAt, StackAt, PickPCs, LbPCs, WaitPCs, PostPCs, DispPCs, WakePCs
<1>7. CpuLocks(c)'
  <2>1. RqLockAt(c)'
    BY <1>1, <1>4, ZenonT(30) DEF CpuControl, CpuLocks, CpuTypes, SemAt, RqLockAt,
         HoldsRq, WakePCs
  <2>2. SemLockAt(c)'
    BY <1>1, <1>4, ZenonT(30) DEF CpuControl, CpuLocks, CpuTypes, SemAt, SemLockAt,
         SemHeldPCs, WaitPCs, PostPCs
  <2>3. AccelLockAt(c)'
    BY <1>1, <1>4, ZenonT(30) DEF CpuControl, CpuLocks, PcAt, SiteAt, AccelLockAt,
         PickPCs, LbPCs, WaitPCs, PostPCs, DispPCs
  <2> QED BY <2>1, <2>2, <2>3, Zenon DEF CpuLocks
<1>8. state[run[c]] = BLOCKED => InSemWait(run[c])'
  BY <1>1, <1>4, RunHere, ZenonT(30) DEF InSemWait, CpuTypes, CpuControl, StackAt,
       SwitchAt, PickPCs, LbPCs
<1>9. /\ home[run[c]] = c /\ home[curr[c]] = c
      /\ next[c] = NoTask \/ home[next[c]] = c
      /\ next[c] = NoTask \/ next[c] = run[c] \/ state[next[c]] = READY
  BY <1>1, Zenon DEF HomeInv, SleepInv, PickedReady
<1>10. VictimReady'
  BY <1>4, VictimKept, Zenon
<1> QED BY <1>3, <1>4, <1>5, <1>6, <1>7, <1>8, <1>9, <1>10, Still, Zenon

(* KeepCurrent: nobody else to run: the caller gets its DAIF back. *)
LEMMA KeepCurrentStep ==
    ASSUME TypeOK, IInv, NEW c \in CPU, KeepCurrent(c)
    PROVE  TypeOK' /\ IInv'
<1>1. /\ HomeInv /\ FrameInv /\ SleepInv
      /\ CpuControl(c) /\ CpuLocks(c)
      /\ CpuTypes(c) /\ TaskTypes(run[c]) /\ \A t \in Task : TaskTypes(t)
  BY Types, AtCpu, Zenon DEF IInv, CpuTypes
<1>2. /\ pc \in [CPU -> PCs] /\ next \in [CPU -> Task \cup {NoTask}]
      /\ site \in [CPU -> Sites \cup {"none"}] /\ daif \in [CPU -> {"open", "masked"}]
      /\ flags \in [Task -> {"open", "masked"}] /\ run \in [CPU -> Task]
  BY Zenon DEF TypeOK
<1>3. TypeOK'
  <2>1. /\ pc' \in [CPU -> PCs] /\ next' \in [CPU -> Task \cup {NoTask}]
        /\ site' \in [CPU -> Sites \cup {"none"}] /\ daif' \in [CPU -> {"open", "masked"}]
        /\ flags' \in [Task -> {"open", "masked"}]
    BY <1>1, <1>2, ZenonT(40) DEF KeepCurrent, Goto, irq_restore, schedVars, switchVars,
         semVars, irqVars, maskVars, lockVars, PCs, Sites, CpuTypes, TaskTypes
  <2>2. TypeOK'
    BY <2>1, Zenon DEF TypeOK, KeepCurrent, Goto, irq_restore, schedVars, switchVars,
         semVars, irqVars, maskVars, lockVars
  <2> QED BY <2>2, Zenon
<1>4. /\ pc[c] = "picked" /\ next[c] = curr[c]
      /\ pc'[c] = (IF site[c] = "irq" THEN "eret" ELSE IF site[c] = "yield" THEN "user" ELSE "wait")
      /\ next'[c] = NoTask /\ site'[c] = "none"
      /\ \A d \in CPU \ {c} : pc'[d] = pc[d] /\ next'[d] = next[d] /\ site'[d] = site[d]
      /\ site[c] # "irq" => daif'[c] = flags[run[c]] /\ flags'[run[c]] = "open"
      /\ site[c] = "irq" => UNCHANGED <<daif, flags>>
      /\ \A d \in CPU \ {c} : daif'[d] = daif[d]
      /\ \A t \in Task \ {run[c]} : flags'[t] = flags[t]
      /\ UNCHANGED <<run, curr, active, prev, sem, w, wcpu, comps, state, load, home, sp,
                     ipc, tasks, current_idx, accel_lock, sem_lock, rq_lock, count,
                     waiter, lb>>
  <2>1. CASE site[c] = "irq"
    BY <1>2, <2>1, Zenon DEF KeepCurrent, Goto, schedVars, switchVars, semVars, irqVars,
         maskVars, lockVars
  <2>2. CASE site[c] # "irq"
    <3>1. irq_restore(c) /\ Goto(c, IF site[c] = "yield" THEN "user" ELSE "wait")
      BY <2>2, Zenon DEF KeepCurrent
    <3>2. /\ pc'[c] = (IF site[c] = "yield" THEN "user" ELSE "wait")
          /\ daif'[c] = flags[run[c]] /\ flags'[run[c]] = "open"
          /\ \A d \in CPU \ {c} : pc'[d] = pc[d] /\ daif'[d] = daif[d]
          /\ \A t \in Task \ {run[c]} : flags'[t] = flags[t]
      BY <1>2, <3>1, Zenon DEF Goto, irq_restore
    <3> QED BY <1>2, <2>2, <3>2, Zenon DEF KeepCurrent, schedVars, switchVars, semVars,
         irqVars, maskVars, lockVars
  <2> QED BY <2>1, <2>2, Zenon
<1>5. ASSUME NEW d \in CPU \ {c} PROVE SameCpu(d)
  <2>1. run[d] \in Task /\ run[d] # run[c]
    BY Types, RunDistinct, Zenon DEF CpuTypes
  <2> QED BY <1>4, <2>1, Zenon DEF SameCpu
<1>6. CpuControl(c)'
  BY <1>1, <1>4, ZenonT(30) DEF CpuControl, CpuTypes, TaskTypes, PcAt, SiteAt, SwitchAt,
       SemAt, StackAt, PickPCs, LbPCs, WaitPCs, PostPCs, DispPCs, WakePCs
<1>7. CpuLocks(c)'
  <2>1. RqLockAt(c)'
    BY <1>1, <1>4, ZenonT(30) DEF CpuControl, CpuLocks, CpuTypes, SemAt, RqLockAt,
         HoldsRq, WakePCs
  <2>2. SemLockAt(c)'
    BY <1>1, <1>4, ZenonT(30) DEF CpuControl, CpuLocks, CpuTypes, SemAt, SemLockAt,
         SemHeldPCs, WaitPCs, PostPCs
  <2>3. AccelLockAt(c)'
    BY <1>1, <1>4, ZenonT(30) DEF CpuControl, CpuLocks, PcAt, SiteAt, AccelLockAt,
         PickPCs, LbPCs, WaitPCs, PostPCs, DispPCs
  <2> QED BY <2>1, <2>2, <2>3, Zenon DEF CpuLocks
<1>8. state[run[c]] = BLOCKED => InSemWait(run[c])'
  BY <1>1, <1>4, RunHere, ZenonT(30) DEF InSemWait, CpuTypes, CpuControl, StackAt,
       SwitchAt, PickPCs, LbPCs
<1>9. /\ home[run[c]] = c /\ home[curr[c]] = c
      /\ next[c] = NoTask \/ home[next[c]] = c
      /\ next[c] = NoTask \/ next[c] = run[c] \/ state[next[c]] = READY
  BY <1>1, Zenon DEF HomeInv, SleepInv, PickedReady
<1>10. VictimReady'
  BY <1>4, VictimKept, Zenon
<1> QED BY <1>3, <1>4, <1>5, <1>6, <1>7, <1>8, <1>9, <1>10, Still, Zenon

(* switch_to: the frame popped is that of a task that does not run, and    *)
(* the one pushed is whole.                                                *)
LEMMA switch_toStep ==
    ASSUME TypeOK, IInv, NEW c \in CPU, switch_to(c)
    PROVE  TypeOK' /\ IInv'
<1>1. /\ HomeInv /\ FrameInv /\ SleepInv
      /\ CpuControl(c) /\ CpuLocks(c)
      /\ CpuTypes(c) /\ TaskTypes(run[c]) /\ \A t \in Task : TaskTypes(t)
  BY Types, AtCpu, Zenon DEF IInv, CpuTypes
<1>2. /\ pc \in [CPU -> PCs] /\ run \in [CPU -> Task]
      /\ daif \in [CPU -> {"open", "masked"}] /\ sp \in [Task -> Frame \cup {Popped}]
      /\ next \in [CPU -> Task \cup {NoTask}] /\ prev \in [CPU -> Task \cup {NoTask}]
      /\ site \in [CPU -> Sites \cup {"none"}]
  BY Zenon DEF TypeOK
<1> DEFINE t == run[c]
            n == next[c]
            f == sp[n]
<1>a. /\ pc[c] = "switch" /\ prev[c] = t /\ curr[c] = n /\ n # t /\ n # NoTask
      /\ t \in Task /\ n \in Task /\ home[t] = c /\ home[n] = c
      /\ site[c] \in Sites /\ active[c] = "none" /\ daif[c] = "masked" /\ flags[t] = "open"
      /\ (ipc[t] = "wait" => site[c] = "irq") /\ sem[c] = NoSem /\ w[c] = NoTask
      /\ wcpu[c] = NoCpu
  <2>1. pc[c] = "switch"
    BY Zenon DEF switch_to
  <2>2. prev[c] = t /\ curr[c] = n /\ n # t /\ n # NoTask /\ t \in Task /\ n \in Task
    BY <1>1, <2>1, Zenon DEF CpuControl, SwitchAt, CpuTypes
  <2>3. home[t] = c /\ home[n] = c
    BY <1>1, <2>2, Zenon DEF HomeInv
  <2>4. site[c] \in Sites /\ active[c] = "none" /\ daif[c] = "masked"
    BY <1>1, <2>1, Zenon DEF CpuControl, CpuTypes, PcAt, SiteAt, PickPCs, LbPCs, DispPCs,
         PostPCs, Sites
  <2>5. flags[t] = "open" /\ (ipc[t] = "wait" => site[c] = "irq")
    BY <1>1, <2>1, <2>4, Zenon DEF CpuControl, StackAt, TaskTypes
  <2>6. sem[c] = NoSem /\ w[c] = NoTask /\ wcpu[c] = NoCpu
    BY <1>1, <2>1, Zenon DEF CpuControl, SemAt, WaitPCs, PostPCs, WakePCs
  <2> QED BY <2>1, <2>2, <2>3, <2>4, <2>5, <2>6, Zenon
<1>f. /\ f # Popped /\ f.stack = n /\ (f.daif = "open" <=> f.at = "start")
      /\ flags[n] = "open" /\ (ipc[n] = "wait" => f.at = "irq")
      /\ f \in Frame
  <2>1. run[home[n]] # n
    BY <1>a, Zenon
  <2>2. f # Popped /\ f.stack = n /\ (f.daif = "open" <=> f.at = "start")
        /\ flags[n] = "open" /\ (ipc[n] = "wait" => f.at = "irq")
    BY <1>1, <1>a, <2>1, Zenon DEF FrameInv
  <2> QED BY <1>2, <1>a, <2>2, Zenon
<1>g. f.daif \in {"open", "masked"} /\ f.at \in Sites \cup {"start"}
  BY <1>f, Zenon DEF Frame
<1>h. /\ sp' = [sp EXCEPT ![t] = [stack |-> t, at |-> site[c], daif |-> daif[c]], ![n] = Popped]
      /\ run' = [run EXCEPT ![c] = n] /\ daif' = [daif EXCEPT ![c] = f.daif]
      /\ pc' = [pc EXCEPT ![c] = ResumeAt(f.at)]
      /\ next' = [next EXCEPT ![c] = NoTask] /\ prev' = [prev EXCEPT ![c] = NoTask]
      /\ site' = [site EXCEPT ![c] = "none"]
      /\ UNCHANGED <<curr, active, sem, w, wcpu, comps, state, load, home, flags, ipc,
                     tasks,
                     current_idx, accel_lock, sem_lock, rq_lock, count, waiter, lb>>
  BY <1>a, <1>f, Zenon DEF switch_to, Goto, schedVars, semVars, irqVars, lockVars
<1>i. ResumeAt(f.at) \in {"user", "eret", "restore"}
  BY <1>g, Zenon DEF ResumeAt
<1> HIDE DEF f, n, t
<1>b. /\ pc' \in [CPU -> PCs] /\ run' \in [CPU -> Task]
      /\ daif' \in [CPU -> {"open", "masked"}]
      /\ sp' \in [Task -> Frame \cup {Popped}]
  <2>1. /\ pc' \in [CPU -> PCs] /\ run' \in [CPU -> Task]
        /\ daif' \in [CPU -> {"open", "masked"}]
    BY <1>2, <1>a, <1>g, <1>h, <1>i, Zenon DEF PCs
  <2>2. [stack |-> t, at |-> site[c], daif |-> daif[c]] \in Frame
    BY <1>a, Zenon DEF Frame
  <2> QED BY <1>2, <1>a, <1>h, <2>1, <2>2, Zenon
<1>3. TypeOK'
  <2>1. /\ next' \in [CPU -> Task \cup {NoTask}] /\ prev' \in [CPU -> Task \cup {NoTask}]
        /\ site' \in [CPU -> Sites \cup {"none"}]
    BY <1>2, <1>h, Zenon DEF Sites
  <2>2. TypeOK'
    BY <2>1, <1>b, Zenon DEF TypeOK, switch_to, Goto, ResumeAt, schedVars, switchVars,
         semVars, irqVars, maskVars, lockVars
  <2> QED BY <2>2
<1>4. /\ pc[c] = "switch"
      /\ run'[c] = n /\ daif'[c] = f.daif /\ pc'[c] = ResumeAt(f.at)
      /\ next'[c] = NoTask /\ prev'[c] = NoTask /\ site'[c] = "none"
      /\ \A d \in CPU \ {c} : /\ pc'[d] = pc[d] /\ run'[d] = run[d] /\ daif'[d] = daif[d]
                             /\ next'[d] = next[d] /\ prev'[d] = prev[d]
                             /\ site'[d] = site[d]
      /\ sp'[t] = [stack |-> t, at |-> site[c], daif |-> daif[c]] /\ sp'[n] = Popped
      /\ \A u \in Task : u # t /\ u # n => sp'[u] = sp[u]
      /\ UNCHANGED <<curr, active, sem, w, wcpu, comps, state, load, home, flags, ipc,
                     tasks, current_idx, accel_lock, sem_lock, rq_lock, count, waiter,
                     lb>>
  BY <1>2, <1>a, <1>h, Zenon
<1>5. ASSUME NEW d \in CPU \ {c} PROVE SameCpu(d)
  <2>1. run[d] \in Task /\ run[d] # run[c]
    BY Types, RunDistinct, Zenon DEF CpuTypes
  <2> QED BY <1>4, <2>1, Zenon DEF SameCpu
<1>6. CpuControl(c)'
  <2>1. /\ pc'[c] \in {"user", "eret", "restore"}
        /\ daif'[c] = "open" <=> pc'[c] = "user"
        /\ f.at = "irq" => pc'[c] = "eret"
    BY <1>4, <1>f, <1>g, Zenon DEF ResumeAt, Sites
  <2>2. /\ pc'[c] # "wait" /\ pc'[c] \notin PickPCs /\ pc'[c] # "eoi"
        /\ pc'[c] \notin {"picked", "switch"} \cup LbPCs /\ pc'[c] \notin LbPCs
        /\ pc'[c] # "switch"
    BY <2>1, Zenon DEF PickPCs, LbPCs
  <2>3. /\ pc'[c] \notin WaitPCs /\ pc'[c] \notin PostPCs /\ pc'[c] \notin WakePCs
        /\ pc'[c] \notin DispPCs
    BY <2>1, Zenon DEF WaitPCs, PostPCs, WakePCs, DispPCs
  <2>4. PcAt(c)'
    BY <1>4, <2>1, Zenon DEF PcAt
  <2>5. SiteAt(c)'
    BY <1>4, <1>a, <2>2, Zenon DEF SiteAt
  <2>6. SwitchAt(c)'
    BY <1>4, <1>a, <2>1, <2>2, Zenon DEF SwitchAt
  <2>7. SemAt(c)'
    BY <1>4, <1>a, <2>3, Zenon DEF SemAt
  <2>8. StackAt(c)'
    BY <1>4, <1>a, <1>f, <2>1, Zenon DEF StackAt
  <2> QED BY <2>4, <2>5, <2>6, <2>7, <2>8, Zenon DEF CpuControl
<1>7. CpuLocks(c)'
  <2>1. /\ pc'[c] \in {"user", "eret", "restore"} /\ pc'[c] # "disp_cs"
        /\ pc'[c] \notin SemHeldPCs /\ pc'[c] \notin PostPCs
    BY <1>4, <1>i, Zenon DEF SemHeldPCs, PostPCs
  <2>2. RqLockAt(c)'
    <3>1. \A d \in CPU : ~ HoldsRq(c, d) /\ ~ HoldsRq(c, d)'
      BY <1>a, <2>1, Zenon DEF HoldsRq
    <3> QED BY <1>1, <1>4, <3>1, Zenon DEF CpuLocks, RqLockAt
  <2>3. SemLockAt(c)'
    BY <1>1, <1>4, <1>a, <2>1, Zenon DEF CpuLocks, SemLockAt, SemHeldPCs
  <2>4. AccelLockAt(c)'
    BY <1>1, <1>4, <1>a, <2>1, Zenon DEF CpuLocks, AccelLockAt, PostPCs
  <2> QED BY <2>2, <2>3, <2>4, Zenon DEF CpuLocks
<1>j. /\ sp'[t] = [stack |-> t, at |-> site[c], daif |-> "masked"] /\ run'[home[t]] # t
      /\ sp'[n] = Popped /\ run'[home[n]] = n
  <2>1. run'[c] = n
    BY <1>2, <1>h, Zenon
  <2>2. sp'[t] = [stack |-> t, at |-> site[c], daif |-> daif[c]] /\ sp'[n] = Popped
    BY <1>2, <1>a, <1>h, Zenon
  <2> QED BY <1>a, <2>1, <2>2, Zenon
<1>8. FrameInv'
  <2> SUFFICES ASSUME NEW u \in Task
               PROVE  IF run'[home'[u]] = u
                      THEN sp'[u] = Popped
                      ELSE /\ sp'[u] # Popped
                           /\ sp'[u].stack = u
                           /\ sp'[u].daif = "open" <=> sp'[u].at = "start"
                           /\ flags'[u] = "open"
                           /\ ipc'[u] = "wait" => sp'[u].at = "irq"
    BY Zenon DEF FrameInv
  <2>0. home' = home /\ flags' = flags /\ ipc' = ipc
    BY <1>4, Zenon
  <2>1. CASE u = n
    BY <1>j, <2>0, <2>1, Zenon
  <2>2. CASE u = t
    <3>1. run'[home[u]] # u
      BY <1>j, <2>2, Zenon
    <3>a. sp'[u] = [stack |-> u, at |-> site[c], daif |-> "masked"]
      BY <1>j, <2>2, Zenon
    <3>2. sp'[u].stack = u /\ sp'[u].daif = "masked" /\ sp'[u].at = site[c]
      BY <3>a
    <3>3. sp'[u] # Popped
      BY <3>2 DEF Popped
    <3>4. site[c] # "start"
      BY <1>a, Zenon DEF Sites
    <3> QED BY <1>a, <2>0, <2>2, <3>1, <3>2, <3>3, <3>4, Zenon
  <2>3. CASE u # n /\ u # t
    <3>1. sp'[u] = sp[u]
      BY <1>4, <2>3, Zenon
    <3>2. home[u] \in CPU
      BY <1>1, Zenon DEF TaskTypes
    <3>3. run'[home[u]] = u <=> run[home[u]] = u
      BY <1>4, <2>3, <3>2, Zenon DEF t
    <3>4. CASE run[home[u]] = u
      BY <1>1, <2>0, <3>1, <3>3, <3>4, Zenon DEF FrameInv
    <3>5. CASE run[home[u]] # u
      <4>1. /\ sp[u] # Popped /\ sp[u].stack = u
            /\ sp[u].daif = "open" <=> sp[u].at = "start"
            /\ flags[u] = "open"
            /\ ipc[u] = "wait" => sp[u].at = "irq"
        BY <1>1, <3>5, Zenon DEF FrameInv
      <4> QED BY <2>0, <3>1, <3>3, <3>5, <4>1, Zenon
    <3> QED BY <3>4, <3>5, Zenon
  <2> QED BY <2>1, <2>2, <2>3, Zenon
<1>9. SleepInv'
  <2>1. SleepersInSemWait'
    <3> SUFFICES ASSUME NEW u \in Task, state[u] = BLOCKED PROVE InSemWait(u)'
      BY <1>4, Zenon DEF SleepersInSemWait
    <3>1. InSemWait(u)
      BY <1>1, Zenon DEF SleepInv, SleepersInSemWait
    <3>2. u # n
      BY <1>1, <1>a, StatesDiffer, Zenon DEF SleepInv, PickedReady, n, t
    <3>3. CASE u = t
      <4>1. site[c] = "sem_wait" \/ ipc[u] = "wait"
        BY <1>a, <3>1, <3>3, Zenon DEF InSemWait, t
      <4>a. sp'[u] = [stack |-> u, at |-> site[c], daif |-> "masked"] /\ run'[home[u]] # u
        BY <1>j, <3>3, Zenon
      <4>2. sp'[u].at = site[c] /\ run'[home[u]] # u
        BY <4>a
      <4>3. home' = home /\ ipc' = ipc
        BY <1>4, Zenon
      <4> QED BY <4>1, <4>2, <4>3, Zenon DEF InSemWait
    <3>4. CASE u # t
      <4>1. /\ sp'[u] = sp[u] /\ ipc'[u] = ipc[u] /\ home'[u] = home[u] /\ u # run'[c]
            /\ u # run[c]
        BY <1>4, <3>2, <3>4, Zenon DEF t
      <4>2. home[u] \in CPU
        BY <1>1, Zenon DEF TaskTypes
      <4>3. \A d \in CPU \ {c} : pc'[d] = pc[d] /\ site'[d] = site[d] /\ run'[d] = run[d]
        BY <1>4, Zenon
      <4> QED BY <3>1, <4>1, <4>2, <4>3, SleeperKept, Zenon
    <3> QED BY <3>3, <3>4, Zenon
  <2>2. PickedReady'
    <3> SUFFICES ASSUME NEW d \in CPU, next'[d] # NoTask /\ next'[d] # run'[d]
                 PROVE  state[next'[d]] = READY
      BY <1>4, Zenon DEF PickedReady
    <3>1. d # c
      BY <1>4, Zenon
    <3>2. next'[d] = next[d] /\ run'[d] = run[d]
      BY <1>4, <3>1, Zenon
    <3> QED BY <1>1, <3>2, Zenon DEF SleepInv, PickedReady
  <2>3. UNCHANGED <<state, waiter, w>>
    BY <1>4, Zenon
  <2>4. VictimReady'
    BY <1>4, <1>i, VictimKept, Zenon
  <2> QED BY <1>1, <2>1, <2>2, <2>3, <2>4, Zenon DEF SleepInv, SleepersWakeable,
       WaitersSleep,
       WokenSleep, WaitersDistinct, WokenDistinct, WokenNotWaiting
<1>10. HomeInv'
  BY <1>1, <1>4, <1>a, HomeKept, Zenon
<1> QED BY <1>3, <1>5, <1>6, <1>7, <1>8, <1>9, <1>10, Combine, Zenon

(* Restore: a task resumed by switch_to restores its own DAIF. *)
LEMMA RestoreStep ==
    ASSUME TypeOK, IInv, NEW c \in CPU, Restore(c)
    PROVE  TypeOK' /\ IInv'
<1>1. /\ HomeInv /\ FrameInv /\ SleepInv
      /\ CpuControl(c) /\ CpuLocks(c)
      /\ CpuTypes(c) /\ TaskTypes(run[c]) /\ \A t \in Task : TaskTypes(t)
  BY Types, AtCpu, Zenon DEF IInv, CpuTypes
<1>2. /\ pc \in [CPU -> PCs] /\ daif \in [CPU -> {"open", "masked"}]
      /\ flags \in [Task -> {"open", "masked"}] /\ run \in [CPU -> Task]
  BY Zenon DEF TypeOK
<1>3. TypeOK'
  <2>1. /\ pc' \in [CPU -> PCs] /\ daif' \in [CPU -> {"open", "masked"}]
        /\ flags' \in [Task -> {"open", "masked"}]
    BY <1>1, <1>2, Zenon DEF Restore, Goto, irq_restore, schedVars, switchVars, semVars,
         irqVars, maskVars, lockVars, PCs, Sites, CpuTypes, TaskTypes
  <2>2. TypeOK'
    BY <2>1, Zenon DEF TypeOK, Restore, Goto, irq_restore, schedVars, switchVars, semVars,
         irqVars, maskVars, lockVars
  <2> QED BY <2>2, Zenon
<1>4. /\ pc[c] = "restore"
      /\ pc'[c] = "user" /\ daif'[c] = flags[run[c]] /\ flags'[run[c]] = "open"
      /\ \A d \in CPU \ {c} : pc'[d] = pc[d] /\ daif'[d] = daif[d]
      /\ \A t \in Task \ {run[c]} : flags'[t] = flags[t]
      /\ UNCHANGED <<run, curr, active, site, next, prev, sem, w, wcpu, comps, state,
                     load, home, sp, ipc, tasks, current_idx, accel_lock, sem_lock,
                     rq_lock, count, waiter, lb>>
  BY <1>2, Zenon DEF Restore, Goto, irq_restore, schedVars, switchVars, semVars, irqVars,
       maskVars, lockVars
<1>5. ASSUME NEW d \in CPU \ {c} PROVE SameCpu(d)
  <2>1. run[d] \in Task /\ run[d] # run[c]
    BY Types, RunDistinct, Zenon DEF CpuTypes
  <2> QED BY <1>4, <2>1, Zenon DEF SameCpu
<1>6. CpuControl(c)'
  BY <1>1, <1>4, ZenonT(30) DEF CpuControl, CpuTypes, TaskTypes, PcAt, SiteAt, SwitchAt,
       SemAt, StackAt, PickPCs, LbPCs, WaitPCs, PostPCs, DispPCs, WakePCs
<1>7. CpuLocks(c)'
  <2>1. RqLockAt(c)'
    BY <1>1, <1>4, ZenonT(30) DEF CpuControl, CpuLocks, CpuTypes, SemAt, RqLockAt,
         HoldsRq, WakePCs
  <2>2. SemLockAt(c)'
    BY <1>1, <1>4, ZenonT(30) DEF CpuControl, CpuLocks, CpuTypes, SemAt, SemLockAt,
         SemHeldPCs, WaitPCs, PostPCs
  <2>3. AccelLockAt(c)'
    BY <1>1, <1>4, ZenonT(30) DEF CpuControl, CpuLocks, PcAt, SiteAt, AccelLockAt,
         PickPCs, LbPCs, WaitPCs, PostPCs, DispPCs
  <2> QED BY <2>1, <2>2, <2>3, Zenon DEF CpuLocks
<1>8. state[run[c]] = BLOCKED => InSemWait(run[c])'
  BY <1>1, <1>4, RunHere, ZenonT(30) DEF InSemWait, CpuTypes, CpuControl, StackAt,
       SwitchAt, PickPCs, LbPCs
<1> QED BY <1>3, <1>4, <1>5, <1>6, <1>7, <1>8, Quiet, Zenon

(* yield: it masks IRQs before it picks. *)
LEMMA yieldStep ==
    ASSUME TypeOK, IInv, NEW c \in CPU, yield(c)
    PROVE  TypeOK' /\ IInv'
<1>1. /\ HomeInv /\ FrameInv /\ SleepInv
      /\ CpuControl(c) /\ CpuLocks(c)
      /\ CpuTypes(c) /\ TaskTypes(run[c]) /\ \A t \in Task : TaskTypes(t)
  BY Types, AtCpu, Zenon DEF IInv, CpuTypes
<1>2. /\ pc \in [CPU -> PCs] /\ flags \in [Task -> {"open", "masked"}]
      /\ daif \in [CPU -> {"open", "masked"}] /\ site \in [CPU -> Sites \cup {"none"}]
      /\ run \in [CPU -> Task]
  BY Zenon DEF TypeOK
<1>3. TypeOK'
  <2>1. /\ pc' \in [CPU -> PCs] /\ flags' \in [Task -> {"open", "masked"}]
        /\ daif' \in [CPU -> {"open", "masked"}] /\ site' \in [CPU -> Sites \cup {"none"}]
    BY <1>1, <1>2, Zenon DEF yield, Goto, irq_disable_save, CallPick, schedVars,
         switchVars, semVars, irqVars, maskVars, lockVars, PCs, Sites, CpuTypes, TaskTypes
  <2>2. TypeOK'
    BY <2>1, Zenon DEF TypeOK, yield, Goto, irq_disable_save, CallPick, schedVars,
         switchVars, semVars, irqVars, maskVars, lockVars
  <2> QED BY <2>2
<1>4. /\ pc[c] = "user"
      /\ pc'[c] = "pick_lock" /\ flags'[run[c]] = daif[c] /\ daif'[c] = "masked"
      /\ site'[c] = "yield"
      /\ \A d \in CPU \ {c} : pc'[d] = pc[d] /\ daif'[d] = daif[d] /\ site'[d] = site[d]
      /\ \A t \in Task \ {run[c]} : flags'[t] = flags[t]
      /\ UNCHANGED <<run, curr, active, next, prev, sem, w, wcpu, comps, state, load,
                     home, sp, ipc, tasks, current_idx, accel_lock, sem_lock, rq_lock,
                     count, waiter, lb>>
  BY <1>2, Zenon DEF yield, Goto, irq_disable_save, CallPick, schedVars, switchVars,
       semVars, irqVars, maskVars, lockVars
<1>5. ASSUME NEW d \in CPU \ {c} PROVE SameCpu(d)
  <2>1. run[d] \in Task /\ run[d] # run[c]
    BY Types, RunDistinct, Zenon DEF CpuTypes
  <2> QED BY <1>4, <2>1, Zenon DEF SameCpu
<1>6. CpuControl(c)'
  BY <1>1, <1>4, ZenonT(30) DEF CpuControl, CpuTypes, TaskTypes, PcAt, SiteAt, SwitchAt,
       SemAt, StackAt, PickPCs, LbPCs, WaitPCs, PostPCs, DispPCs, WakePCs
<1>7. CpuLocks(c)'
  <2>1. RqLockAt(c)'
    BY <1>1, <1>4, ZenonT(30) DEF CpuControl, CpuLocks, CpuTypes, SemAt, RqLockAt,
         HoldsRq, WakePCs
  <2>2. SemLockAt(c)'
    BY <1>1, <1>4, ZenonT(30) DEF CpuControl, CpuLocks, CpuTypes, SemAt, SemLockAt,
         SemHeldPCs, WaitPCs, PostPCs
  <2>3. AccelLockAt(c)'
    BY <1>1, <1>4, ZenonT(30) DEF CpuControl, CpuLocks, PcAt, SiteAt, AccelLockAt,
         PickPCs, LbPCs, WaitPCs, PostPCs, DispPCs
  <2> QED BY <2>1, <2>2, <2>3, Zenon DEF CpuLocks
<1>8. state[run[c]] = BLOCKED => InSemWait(run[c])'
  BY <1>1, <1>4, RunHere, ZenonT(30) DEF InSemWait, CpuTypes, CpuControl, StackAt,
       SwitchAt, PickPCs, LbPCs
<1> QED BY <1>3, <1>4, <1>5, <1>6, <1>7, <1>8, Quiet, Zenon

(* TimerIrq: IRQs were open, so the tick interrupts task code or the wfe loop. *)
LEMMA TimerIrqStep ==
    ASSUME TypeOK, IInv, NEW c \in CPU, TimerIrq(c)
    PROVE  TypeOK' /\ IInv'
<1>1. /\ HomeInv /\ FrameInv /\ SleepInv
      /\ CpuControl(c) /\ CpuLocks(c)
      /\ CpuTypes(c) /\ TaskTypes(run[c]) /\ \A t \in Task : TaskTypes(t)
  BY Types, AtCpu, Zenon DEF IInv, CpuTypes
<1>2. /\ pc \in [CPU -> PCs] /\ active \in [CPU -> {"none", "timer", "dma"}]
      /\ ipc \in [Task -> {"user", "wait"}] /\ daif \in [CPU -> {"open", "masked"}]
      /\ site \in [CPU -> Sites \cup {"none"}] /\ load \in [Task -> 0..EWMA_SCALE]
      /\ run \in [CPU -> Task]
  BY Zenon DEF TypeOK
<1>a. pc[c] = "user" \/ pc[c] = "wait"
  BY <1>1, Zenon DEF TimerIrq, TakeIrq, CpuControl, PcAt
<1>b. load' \in [Task -> 0..EWMA_SCALE]
  <2>1. load' = [load EXCEPT ![curr[c]] = on_tick(POLICY, @)]
    BY Zenon DEF TimerIrq
  <2>2. curr[c] \in Task /\ on_tick(POLICY, load[curr[c]]) \in 0..EWMA_SCALE
    BY <1>1, <1>2, LoadBounded, Zenon DEF CpuTypes
  <2> QED BY <1>2, <2>1, <2>2, Zenon
<1>3. TypeOK'
  <2>1. /\ pc' \in [CPU -> PCs] /\ active' \in [CPU -> {"none", "timer", "dma"}]
        /\ ipc' \in [Task -> {"user", "wait"}] /\ daif' \in [CPU -> {"open", "masked"}]
        /\ site' \in [CPU -> Sites \cup {"none"}]
    BY <1>1, <1>2, <1>a, Zenon DEF TimerIrq, TakeIrq, CallPick, Goto, schedVars,
         switchVars, semVars, irqVars, maskVars, lockVars, PCs, Sites, CpuTypes, TaskTypes
  <2>2. TypeOK'
    BY <2>1, <1>b, Zenon DEF TypeOK, TimerIrq, Goto, TakeIrq, CallPick, schedVars,
         switchVars, semVars, irqVars, maskVars, lockVars
  <2> QED BY <2>2, Zenon
<1>4. /\ daif[c] = "open" /\ active[c] = "none"
      /\ pc'[c] = "pick_lock" /\ active'[c] = "timer" /\ ipc'[run[c]] = pc[c]
      /\ daif'[c] = "masked" /\ site'[c] = "irq"
      /\ \A d \in CPU \ {c} : /\ pc'[d] = pc[d] /\ active'[d] = active[d]
                              /\ daif'[d] = daif[d] /\ site'[d] = site[d]
      /\ \A t \in Task \ {run[c]} : ipc'[t] = ipc[t]
      /\ pc[c] = "user" \/ pc[c] = "wait"
      /\ UNCHANGED <<run, curr, next, prev, sem, w, wcpu, comps, state, home, sp, flags,
                     tasks, current_idx, accel_lock, sem_lock, rq_lock, count, waiter,
                     lb>>
  BY <1>2, <1>a, Zenon DEF TimerIrq, TakeIrq, CallPick, Goto, schedVars, switchVars,
       semVars, irqVars, maskVars, lockVars
<1>5. ASSUME NEW d \in CPU \ {c} PROVE SameCpu(d)
  <2>1. run[d] \in Task /\ run[d] # run[c]
    BY Types, RunDistinct, Zenon DEF CpuTypes
  <2> QED BY <1>4, <2>1, Zenon DEF SameCpu
<1>6. CpuControl(c)'
  BY <1>1, <1>4, ZenonT(30) DEF CpuControl, CpuTypes, TaskTypes, PcAt, SiteAt, SwitchAt,
       SemAt, StackAt, PickPCs, LbPCs, WaitPCs, PostPCs, DispPCs, WakePCs
<1>7. CpuLocks(c)'
  <2>1. RqLockAt(c)'
    BY <1>1, <1>4, ZenonT(30) DEF CpuControl, CpuLocks, CpuTypes, SemAt, RqLockAt,
         HoldsRq, WakePCs
  <2>2. SemLockAt(c)'
    BY <1>1, <1>4, ZenonT(30) DEF CpuControl, CpuLocks, CpuTypes, SemAt, SemLockAt,
         SemHeldPCs, WaitPCs, PostPCs
  <2>3. AccelLockAt(c)'
    BY <1>1, <1>4, ZenonT(30) DEF CpuControl, CpuLocks, PcAt, SiteAt, AccelLockAt,
         PickPCs, LbPCs, WaitPCs, PostPCs, DispPCs
  <2> QED BY <2>1, <2>2, <2>3, Zenon DEF CpuLocks
<1>8. state[run[c]] = BLOCKED => InSemWait(run[c])'
  BY <1>1, <1>4, RunHere, ZenonT(30) DEF InSemWait, CpuTypes, CpuControl, StackAt,
       SwitchAt, PickPCs, LbPCs
<1> QED BY <1>3, <1>4, <1>5, <1>6, <1>7, <1>8, Quiet, Zenon

(* DmaIrq: likewise, and the dispatcher remembers that IRQs were masked. *)
LEMMA DmaIrqStep ==
    ASSUME TypeOK, IInv, NEW c \in CPU, DmaIrq(c)
    PROVE  TypeOK' /\ IInv'
<1>1. /\ HomeInv /\ FrameInv /\ SleepInv
      /\ CpuControl(c) /\ CpuLocks(c)
      /\ CpuTypes(c) /\ TaskTypes(run[c]) /\ \A t \in Task : TaskTypes(t)
  BY Types, AtCpu, Zenon DEF IInv, CpuTypes
<1>2. /\ active \in [CPU -> {"none", "timer", "dma"}]
      /\ ipc \in [Task -> {"user", "wait"}] /\ daif \in [CPU -> {"open", "masked"}]
      /\ pc \in [CPU -> PCs] /\ flags \in [Task -> {"open", "masked"}]
      /\ run \in [CPU -> Task]
  BY Zenon DEF TypeOK
<1>a. pc[c] = "user" \/ pc[c] = "wait"
  BY <1>1, Zenon DEF DmaIrq, TakeIrq, CpuControl, PcAt
<1>b. /\ pc' \in [CPU -> PCs] /\ flags' \in [Task -> {"open", "masked"}]
      /\ \A d \in CPU \ {c} : pc'[d] = pc[d]
      /\ \A t \in Task \ {run[c]} : flags'[t] = flags[t]
      /\ \/ pc'[c] = "disp_lock" /\ flags'[run[c]] = "masked"
         \/ pc'[c] = "eoi" /\ flags'[run[c]] = flags[run[c]]
  <2>1. CASE Goto(c, "disp_lock") /\ flags' = [flags EXCEPT ![run[c]] = "masked"]
    <3>1. "disp_lock" \in PCs
      BY Zenon DEF PCs
    <3> QED BY <1>2, <2>1, <3>1, Zenon DEF Goto
  <2>2. CASE Goto(c, "eoi") /\ UNCHANGED flags
    <3>1. "eoi" \in PCs
      BY Zenon DEF PCs
    <3> QED BY <1>2, <2>2, <3>1, Zenon DEF Goto
  <2> QED BY <2>1, <2>2, Zenon DEF DmaIrq
<1>3. TypeOK'
  <2>1. /\ active' \in [CPU -> {"none", "timer", "dma"}]
        /\ ipc' \in [Task -> {"user", "wait"}] /\ daif' \in [CPU -> {"open", "masked"}]
    BY <1>1, <1>2, <1>a, Zenon DEF DmaIrq, TakeIrq, CpuTypes
  <2>2. TypeOK'
    BY <2>1, <1>b, Zenon DEF TypeOK, DmaIrq, Goto, TakeIrq, schedVars, switchVars,
         semVars, irqVars, maskVars, lockVars
  <2> QED BY <2>2
<1>4. /\ daif[c] = "open" /\ active[c] = "none"
      /\ active'[c] = "dma" /\ ipc'[run[c]] = pc[c] /\ daif'[c] = "masked"
      /\ \A d \in CPU \ {c} : active'[d] = active[d] /\ daif'[d] = daif[d] /\ pc'[d] = pc[d]
      /\ \A t \in Task \ {run[c]} : ipc'[t] = ipc[t] /\ flags'[t] = flags[t]
      /\ pc[c] = "user" \/ pc[c] = "wait"
      /\ \/ pc'[c] = "disp_lock" /\ flags'[run[c]] = "masked"
         \/ pc'[c] = "eoi" /\ flags'[run[c]] = flags[run[c]]
      /\ UNCHANGED <<run, curr, site, next, prev, sem, w, wcpu, comps, state, load, home,
                     sp, tasks, current_idx, accel_lock, sem_lock, rq_lock, count, waiter,
                     lb>>
  BY <1>2, <1>a, <1>b, Zenon DEF DmaIrq, TakeIrq, schedVars, switchVars, semVars, irqVars,
       maskVars, lockVars
<1>5. ASSUME NEW d \in CPU \ {c} PROVE SameCpu(d)
  <2>1. run[d] \in Task /\ run[d] # run[c]
    BY Types, RunDistinct, Zenon DEF CpuTypes
  <2> QED BY <1>4, <2>1, Zenon DEF SameCpu
<1>6. CpuControl(c)'
  BY <1>1, <1>4, ZenonT(30) DEF CpuControl, CpuTypes, TaskTypes, PcAt, SiteAt, SwitchAt,
       SemAt, StackAt, PickPCs, LbPCs, WaitPCs, PostPCs, DispPCs, WakePCs
<1>7. CpuLocks(c)'
  <2>1. RqLockAt(c)'
    BY <1>1, <1>4, ZenonT(30) DEF CpuControl, CpuLocks, CpuTypes, SemAt, RqLockAt,
         HoldsRq, WakePCs
  <2>2. SemLockAt(c)'
    BY <1>1, <1>4, ZenonT(30) DEF CpuControl, CpuLocks, CpuTypes, SemAt, SemLockAt,
         SemHeldPCs, WaitPCs, PostPCs
  <2>3. AccelLockAt(c)'
    BY <1>1, <1>4, ZenonT(30) DEF CpuControl, CpuLocks, PcAt, SiteAt, AccelLockAt,
         PickPCs, LbPCs, WaitPCs, PostPCs, DispPCs
  <2> QED BY <2>1, <2>2, <2>3, Zenon DEF CpuLocks
<1>8. state[run[c]] = BLOCKED => InSemWait(run[c])'
  BY <1>1, <1>4, RunHere, ZenonT(30) DEF InSemWait, CpuTypes, CpuControl, StackAt,
       SwitchAt, PickPCs, LbPCs
<1> QED BY <1>3, <1>4, <1>5, <1>6, <1>7, <1>8, Quiet, Zenon

(* gic_eoi: the handler ends the interrupt before it switches. *)
LEMMA gic_eoiStep ==
    ASSUME TypeOK, IInv, NEW c \in CPU, gic_eoi(c)
    PROVE  TypeOK' /\ IInv'
<1>1. /\ HomeInv /\ FrameInv /\ SleepInv
      /\ CpuControl(c) /\ CpuLocks(c)
      /\ CpuTypes(c) /\ TaskTypes(run[c]) /\ \A t \in Task : TaskTypes(t)
  BY Types, AtCpu, Zenon DEF IInv, CpuTypes
<1>2. pc \in [CPU -> PCs] /\ active \in [CPU -> {"none", "timer", "dma"}]
  BY Zenon DEF TypeOK
<1>3. TypeOK'
  <2>1. pc' \in [CPU -> PCs] /\ active' \in [CPU -> {"none", "timer", "dma"}]
    BY <1>1, <1>2, Zenon DEF gic_eoi, Goto, schedVars, switchVars, semVars, irqVars,
         maskVars, lockVars, PCs, Sites, CpuTypes, TaskTypes
  <2>2. TypeOK'
    BY <2>1, Zenon DEF TypeOK, gic_eoi, Goto, schedVars, switchVars, semVars, irqVars,
         maskVars, lockVars
  <2> QED BY <2>2, Zenon
<1>4. /\ pc[c] = "eoi"
      /\ \/ active[c] = "dma" /\ pc'[c] = "eret"
         \/ active[c] # "dma" /\ pc'[c] = "picked"
         \/ active[c] # "dma" /\ pc'[c] = "lb" /\ c = 0 /\ LOAD_BALANCE_SELFTEST
      /\ active'[c] = "none"
      /\ \A d \in CPU \ {c} : pc'[d] = pc[d] /\ active'[d] = active[d]
      /\ UNCHANGED <<run, curr, daif, site, next, prev, sem, w, wcpu, comps, state, load,
                     home, sp, flags, ipc, tasks, current_idx, accel_lock, sem_lock,
                     rq_lock, count, waiter, lb>>
  <2>1. CASE active[c] = "dma"
    BY <1>2, <2>1, Zenon DEF gic_eoi, Goto, schedVars, switchVars, semVars, irqVars,
         maskVars, lockVars
  <2>2. CASE active[c] # "dma" /\ c = 0 /\ LOAD_BALANCE_SELFTEST
    BY <1>2, <2>2, Zenon DEF gic_eoi, Goto, schedVars, switchVars, semVars, irqVars,
         maskVars, lockVars
  <2>3. CASE active[c] # "dma" /\ ~ (c = 0 /\ LOAD_BALANCE_SELFTEST)
    BY <1>2, <2>3, Zenon DEF gic_eoi, Goto, schedVars, switchVars, semVars, irqVars,
         maskVars, lockVars
  <2> QED BY <2>1, <2>2, <2>3, Zenon
<1>5. ASSUME NEW d \in CPU \ {c} PROVE SameCpu(d)
  <2>1. run[d] \in Task /\ run[d] # run[c]
    BY Types, RunDistinct, Zenon DEF CpuTypes
  <2> QED BY <1>4, <2>1, Zenon DEF SameCpu
<1>6. CpuControl(c)'
  BY <1>1, <1>4, ZenonT(30) DEF CpuControl, CpuTypes, TaskTypes, PcAt, SiteAt, SwitchAt,
       SemAt, StackAt, PickPCs, LbPCs, WaitPCs, PostPCs, DispPCs, WakePCs
<1>7. CpuLocks(c)'
  <2>1. RqLockAt(c)'
    BY <1>1, <1>4, ZenonT(30) DEF CpuControl, CpuLocks, CpuTypes, SemAt, RqLockAt,
         HoldsRq, WakePCs
  <2>2. SemLockAt(c)'
    BY <1>1, <1>4, ZenonT(30) DEF CpuControl, CpuLocks, CpuTypes, SemAt, SemLockAt,
         SemHeldPCs, WaitPCs, PostPCs
  <2>3. AccelLockAt(c)'
    BY <1>1, <1>4, ZenonT(30) DEF CpuControl, CpuLocks, PcAt, SiteAt, AccelLockAt,
         PickPCs, LbPCs, WaitPCs, PostPCs, DispPCs
  <2> QED BY <2>1, <2>2, <2>3, Zenon DEF CpuLocks
<1>8. state[run[c]] = BLOCKED => InSemWait(run[c])'
  BY <1>1, <1>4, RunHere, ZenonT(30) DEF InSemWait, CpuTypes, CpuControl, StackAt,
       SwitchAt, PickPCs, LbPCs
<1> QED BY <1>3, <1>4, <1>5, <1>6, <1>7, <1>8, Quiet, Zenon

(* Eret: the exception returns to where it was taken. *)
LEMMA EretStep ==
    ASSUME TypeOK, IInv, NEW c \in CPU, Eret(c)
    PROVE  TypeOK' /\ IInv'
<1>1. /\ HomeInv /\ FrameInv /\ SleepInv
      /\ CpuControl(c) /\ CpuLocks(c)
      /\ CpuTypes(c) /\ TaskTypes(run[c]) /\ \A t \in Task : TaskTypes(t)
  BY Types, AtCpu, Zenon DEF IInv, CpuTypes
<1>2. /\ pc \in [CPU -> PCs] /\ daif \in [CPU -> {"open", "masked"}]
      /\ ipc \in [Task -> {"user", "wait"}] /\ run \in [CPU -> Task]
  BY Zenon DEF TypeOK
<1>3. TypeOK'
  <2>1. /\ pc' \in [CPU -> PCs] /\ daif' \in [CPU -> {"open", "masked"}]
        /\ ipc' \in [Task -> {"user", "wait"}]
    BY <1>1, <1>2, Zenon DEF Eret, Goto, schedVars, switchVars, semVars, irqVars,
         maskVars, lockVars, PCs, Sites, CpuTypes, TaskTypes
  <2>2. TypeOK'
    BY <2>1, Zenon DEF TypeOK, Eret, Goto, schedVars, switchVars, semVars, irqVars,
         maskVars, lockVars
  <2> QED BY <2>2
<1>4. /\ pc[c] = "eret"
      /\ daif'[c] = "open" /\ ipc'[run[c]] = "user"
      /\ \A d \in CPU \ {c} : daif'[d] = daif[d] /\ pc'[d] = pc[d]
      /\ \A t \in Task \ {run[c]} : ipc'[t] = ipc[t]
      /\ (pc'[c] = "user" /\ ipc[run[c]] = "user") \/ (pc'[c] = "wait" /\ ipc[run[c]] = "wait")
      /\ UNCHANGED <<run, curr, active, site, next, prev, sem, w, wcpu, comps, state,
                     load, home, sp, flags, tasks, current_idx, accel_lock, sem_lock,
                     rq_lock, count, waiter, lb>>
  BY <1>1, <1>2, Zenon DEF Eret, Goto, TaskTypes, schedVars, switchVars, semVars, irqVars,
       maskVars, lockVars
<1>5. ASSUME NEW d \in CPU \ {c} PROVE SameCpu(d)
  <2>1. run[d] \in Task /\ run[d] # run[c]
    BY Types, RunDistinct, Zenon DEF CpuTypes
  <2> QED BY <1>4, <2>1, Zenon DEF SameCpu
<1>6. CpuControl(c)'
  BY <1>1, <1>4, ZenonT(30) DEF CpuControl, CpuTypes, TaskTypes, PcAt, SiteAt, SwitchAt,
       SemAt, StackAt, PickPCs, LbPCs, WaitPCs, PostPCs, DispPCs, WakePCs
<1>7. CpuLocks(c)'
  <2>1. RqLockAt(c)'
    BY <1>1, <1>4, ZenonT(30) DEF CpuControl, CpuLocks, CpuTypes, SemAt, RqLockAt,
         HoldsRq, WakePCs
  <2>2. SemLockAt(c)'
    BY <1>1, <1>4, ZenonT(30) DEF CpuControl, CpuLocks, CpuTypes, SemAt, SemLockAt,
         SemHeldPCs, WaitPCs, PostPCs
  <2>3. AccelLockAt(c)'
    BY <1>1, <1>4, ZenonT(30) DEF CpuControl, CpuLocks, PcAt, SiteAt, AccelLockAt,
         PickPCs, LbPCs, WaitPCs, PostPCs, DispPCs
  <2> QED BY <2>1, <2>2, <2>3, Zenon DEF CpuLocks
<1>8. state[run[c]] = BLOCKED => InSemWait(run[c])'
  BY <1>1, <1>4, RunHere, ZenonT(30) DEF InSemWait, CpuTypes, CpuControl, StackAt,
       SwitchAt, PickPCs, LbPCs
<1> QED BY <1>3, <1>4, <1>5, <1>6, <1>7, <1>8, Quiet, Zenon

-----------------------------------------------------------------------------
(* The balancing pass.                                                     *)

(* A step of the pass touches CPU 0's place in it, the queues, their locks *)
(* and lb, and keeps their types.                                          *)
LEMMA PassTypes ==
    ASSUME TypeOK, QueueInv', NEW l, LbGoto(l, lb'), UNCHANGED <<state, load>>,
           rq_lock' \in [CPU -> CPU \cup {NoCpu}]
    PROVE  TypeOK'
<1>1. /\ UNCHANGED <<run, curr, sp, next, prev, count, waiter, sem, w, wcpu, comps, active,
                     ipc, daif, flags, site, accel_lock, sem_lock>>
  BY Zenon DEF LbGoto, switchVars, semVars, irqVars, maskVars
<1>2. /\ pc' \in [CPU -> PCs] /\ home' \in [Task -> CPU] /\ tasks' \in [CPU -> Seq(Task)]
      /\ current_idx' \in [CPU -> 0..(MAX_TASKS - 1)]
      /\ lb' \in [tick : 0..(LB_PERIOD - 1), busiest : CPU, idlest : CPU, i : 0..MAX_TASKS,
                  victim : Task \cup {NoTask}, src : CPU]
  BY Zenon DEF QueueInv, QueueTypes
<1> QED BY <1>1, <1>2, Zenon DEF TypeOK

(* It stays in the timer handler of CPU 0, between EOI and the switch. *)
LEMMA PassControl ==
    ASSUME TypeOK, IInv, pc[0] \in LbPCs, NEW l \in LbPCs \cup {"picked"}, LbGoto(l, lb'),
           home'[run[0]] = home[run[0]]
    PROVE  /\ CpuControl(0)' /\ SemLockAt(0)' /\ AccelLockAt(0)'
           /\ state[run[0]] = BLOCKED => InSemWait(run[0])'
           /\ pc'[0] = l /\ site[0] = "irq"
           /\ \A d \in CPU \ {0} : pc'[d] = pc[d]
<1>0. 0 \in CPU
  BY BootCpu, Zenon
<1>1. CpuControl(0) /\ CpuLocks(0) /\ CpuTypes(0) /\ TaskTypes(run[0])
  BY <1>0, AtCpu, Types, Zenon DEF CpuTypes
<1>2. /\ UNCHANGED <<run, curr, next, prev, sem, w, wcpu, active, ipc, daif, flags, site,
                     accel_lock, sem_lock>>
      /\ pc' = [pc EXCEPT ![0] = l]
  BY Zenon DEF LbGoto, Goto, switchVars, semVars, irqVars, maskVars
<1>3. pc'[0] = l /\ \A d \in CPU \ {0} : pc'[d] = pc[d]
  BY <1>0, <1>2, Zenon DEF TypeOK
<1>4. ASSUME NEW p \in LbPCs \cup {"picked"}
      PROVE  /\ p \in PickPCs /\ p \in {"picked", "switch"} \cup LbPCs
             /\ p \notin {"user", "wait"} /\ p \notin {"pick_lock", "pick_cs", "eoi"}
             /\ p # "eoi" /\ p # "switch" /\ p # "eret" /\ p \notin DispPCs \cup {"disp_cs"}
             /\ p \notin WaitPCs /\ p \notin PostPCs /\ p \notin WakePCs
             /\ p \notin SemHeldPCs
             /\ p \notin WaitPCs \cup PostPCs /\ p \notin DispPCs \cup PostPCs \cup {"eoi"}
             /\ p \notin DispPCs \cup PostPCs /\ p \notin PostPCs \cup {"disp_cs"}
             /\ p # "disp_cs" /\ p # "wait"
  BY <1>4, Zenon DEF PickPCs, LbPCs, DispPCs, WaitPCs, PostPCs, WakePCs, SemHeldPCs
<1>5. site[0] = "irq" /\ LOAD_BALANCE_SELFTEST /\ pc[0] \in LbPCs \cup {"picked"}
  BY <1>1, Zenon DEF CpuControl, SiteAt
<1>6. PcAt(0)'
  BY <1>1, <1>2, <1>3, <1>4, <1>5, Zenon DEF CpuControl, CpuTypes, PcAt
<1>7. SiteAt(0)'
  BY <1>1, <1>2, <1>3, <1>4, <1>5, Zenon DEF CpuControl, SiteAt
<1>8. SwitchAt(0)'
  BY <1>1, <1>2, <1>3, <1>4, <1>5, Zenon DEF CpuControl, SwitchAt
<1>9. SemAt(0)'
  BY <1>1, <1>2, <1>3, <1>4, <1>5, Zenon DEF CpuControl, SemAt
<1>10. StackAt(0)'
  BY <1>1, <1>2, <1>3, <1>4, <1>5, Zenon DEF CpuControl, StackAt
<1>11. SemLockAt(0)' /\ AccelLockAt(0)'
  BY <1>1, <1>2, <1>3, <1>4, <1>5, Zenon DEF CpuLocks, SemLockAt, AccelLockAt
<1>12. state[run[0]] = BLOCKED => InSemWait(run[0])'
  <2>1. home[run[0]] = 0 /\ (state[run[0]] = BLOCKED => InSemWait(run[0]))
    BY <1>0, RunHere, Zenon
  <2>2. state[run[0]] = BLOCKED => ipc[run[0]] = "wait"
    BY <1>4, <1>5, <2>1, Zenon DEF InSemWait
  <2> QED BY <1>2, <2>1, <2>2, Zenon DEF InSemWait
<1> QED BY <1>3, <1>5, <1>6, <1>7, <1>8, <1>9, <1>10, <1>11, <1>12, Zenon DEF CpuControl

(* The other CPUs notice nothing but the run queue locks. *)
LEMMA PassOthers ==
    ASSUME TypeOK, IInv, NEW l, LbGoto(l, lb'), NEW d \in CPU \ {0},
           \A e \in CPU : rq_lock'[e] = d <=> rq_lock[e] = d
    PROVE  SameCpu(d)
<1>1. UNCHANGED <<run, curr, next, prev, sem, w, wcpu, active, ipc, daif, flags, site,
                  accel_lock, sem_lock>>
  BY Zenon DEF LbGoto, switchVars, semVars, irqVars, maskVars
<1>2. pc'[d] = pc[d]
  BY BootCpu, Zenon DEF TypeOK, LbGoto, Goto
<1>3. pc[d] \notin LbPCs
  BY AtCpu, Zenon DEF CpuControl, SiteAt
<1> QED BY <1>1, <1>2, <1>3, Zenon DEF SameCpu

(* A step of the pass that moves no task. *)
LEMMA PassKeeps ==
    ASSUME TypeOK, IInv, QueueInv', pc[0] \in LbPCs, NEW l \in LbPCs \cup {"picked"},
           LbGoto(l, lb'), UNCHANGED schedVars,
           \A d \in CPU \ {0}, e \in CPU : rq_lock'[e] = d <=> rq_lock[e] = d,
           rq_lock' \in [CPU -> CPU \cup {NoCpu}], RqLockAt(0)',
           l = "mig_move" => state[lb'.victim] = READY
    PROVE  TypeOK' /\ IInv'
<1>1. UNCHANGED <<home, run, sp, state, load, waiter, w, wcpu, curr, next, flags, ipc>>
  BY Zenon DEF LbGoto, schedVars, switchVars, semVars, irqVars, maskVars
<1>2. TypeOK'
  BY <1>1, PassTypes, Zenon
<1>3. /\ CpuControl(0)' /\ SemLockAt(0)' /\ AccelLockAt(0)'
      /\ state[run[0]] = BLOCKED => InSemWait(run[0])'
      /\ pc'[0] = l
  BY <1>1, PassControl, Zenon
<1>4. CpuLocks(0)'
  BY <1>3, Zenon DEF CpuLocks
<1>5. \A d \in CPU \ {0} : SameCpu(d)
  BY PassOthers, Zenon
<1>6. VictimReady'
  BY <1>1, <1>3, Zenon DEF VictimReady
<1>7. /\ home[curr[0]] = 0 /\ (next[0] = NoTask \/ home[next[0]] = 0)
      /\ next[0] = NoTask \/ next[0] = run[0] \/ state[next[0]] = READY
  BY BootCpu, Zenon DEF IInv, HomeInv, SleepInv, PickedReady
<1>8. IInv'
  BY <1>1, <1>3, <1>4, <1>5, <1>6, <1>7, BootCpu, Still, Zenon
<1> QED BY <1>2, <1>8, Zenon

(* The throttle and the scan of num_tasks take no lock. *)
LEMMA LbTickStep ==
    ASSUME TypeOK, IInv, QueueInv', LbTick
    PROVE  TypeOK' /\ IInv'
<1>1. pc[0] = "lb" /\ UNCHANGED <<schedVars, rq_lock>> /\ pc[0] \in LbPCs
  BY Zenon DEF LbTick, LbPCs
<1>2. PICK l \in {"picked", "lb_lock"} : LbGoto(l, lb')
  BY Zenon DEF LbTick, LbGoto
<1>3. pc'[0] \in {"picked", "lb_lock"}
  BY <1>2, BootCpu, Zenon DEF LbGoto, Goto, TypeOK
<1>4. RqLockAt(0)'
  <2>1. \A d \in CPU : ~ HoldsRq(0, d) /\ ~ HoldsRq(0, d)'
    BY <1>1, <1>3, Zenon DEF HoldsRq
  <2> QED BY <1>1, <2>1, AtCpu, BootCpu, Zenon DEF CpuLocks, RqLockAt
<1>5. l \in LbPCs \cup {"picked"} /\ l # "mig_move"
  BY Zenon DEF LbPCs
<1>6. rq_lock' \in [CPU -> CPU \cup {NoCpu}]
  BY <1>1, Zenon DEF TypeOK
<1> QED BY <1>1, <1>2, <1>4, <1>5, <1>6, PassKeeps, Zenon

(* The CPUs and the task the balancer has in hand. *)
LEMMA LbFields ==
    ASSUME QueueInv
    PROVE  /\ lb.busiest \in CPU /\ lb.idlest \in CPU /\ lb.src \in CPU
           /\ lb.victim \in Task \cup {NoTask}
BY Zenon DEF QueueInv, QueueTypes

(* The pass gives up queue locks: CPU 0 held them, so no other CPU minds. *)
LEMMA PassReleases ==
    ASSUME TypeOK, IInv, QueueInv', pc[0] \in LbPCs,
           NEW l \in {"picked", "migrate"}, LbGoto(l, lb'), UNCHANGED schedVars,
           rq_lock' \in [CPU -> CPU \cup {NoCpu}],
           \A e \in CPU : rq_lock'[e] = IF HoldsRq(0, e) THEN NoCpu ELSE rq_lock[e]
    PROVE  TypeOK' /\ IInv'
<1>1. \A e \in CPU : rq_lock[e] = 0 <=> HoldsRq(0, e)
  BY AtCpu, BootCpu, Zenon DEF CpuLocks, RqLockAt
<1>2. pc'[0] = l
  BY BootCpu, Zenon DEF LbGoto, Goto, TypeOK
<1>3. RqLockAt(0)'
  <2>1. \A e \in CPU : ~ HoldsRq(0, e)'
    BY <1>2, Zenon DEF HoldsRq
  <2>2. \A e \in CPU : rq_lock'[e] # 0
    BY <1>1, BootCpu, Zenon
  <2> QED BY <2>1, <2>2, Zenon DEF RqLockAt
<1>4. \A d \in CPU \ {0}, e \in CPU : rq_lock'[e] = d <=> rq_lock[e] = d
  BY <1>1, Zenon
<1>5. l \in LbPCs \cup {"picked"} /\ l # "mig_move"
  BY Zenon DEF LbPCs
<1> QED BY <1>3, <1>4, <1>5, PassKeeps, Zenon

(* The pass takes a free queue lock. *)
LEMMA PassLocks ==
    ASSUME TypeOK, IInv, QueueInv', pc[0] \in LbPCs,
           NEW l \in {"lb_scan", "mig_hi", "mig_check"}, LbGoto(l, lb'), UNCHANGED schedVars,
           NEW m \in CPU, rq_lock[m] = NoCpu, rq_lock' = [rq_lock EXCEPT ![m] = 0],
           \A e \in CPU : HoldsRq(0, e)' <=> HoldsRq(0, e) \/ e = m
    PROVE  TypeOK' /\ IInv'
<1>1. \A e \in CPU : rq_lock[e] = 0 <=> HoldsRq(0, e)
  BY AtCpu, BootCpu, Zenon DEF CpuLocks, RqLockAt
<1>2. rq_lock \in [CPU -> CPU \cup {NoCpu}]
  BY Zenon DEF TypeOK
<1>3. /\ rq_lock' \in [CPU -> CPU \cup {NoCpu}]
      /\ \A e \in CPU : rq_lock'[e] = IF e = m THEN 0 ELSE rq_lock[e]
  BY <1>2, BootCpu, Zenon
<1>4. RqLockAt(0)'
  BY <1>1, <1>3, Zenon DEF RqLockAt
<1>5. ASSUME NEW d \in CPU \ {0}, NEW e \in CPU PROVE rq_lock'[e] = d <=> rq_lock[e] = d
  <2>1. CASE e = m
    BY <1>3, <2>1, Zenon
  <2>2. CASE e # m
    BY <1>3, <2>2, Zenon
  <2> QED BY <2>1, <2>2, Zenon
<1>6. l \in LbPCs \cup {"picked"} /\ l # "mig_move"
  BY Zenon DEF LbPCs
<1> QED BY <1>3, <1>4, <1>5, <1>6, PassKeeps, Zenon

(* The balancer locks the busiest queue. *)
LEMMA LbLockStep ==
    ASSUME TypeOK, IInv, QueueInv, QueueInv', LbLock
    PROVE  TypeOK' /\ IInv'
<1>1. /\ pc[0] = "lb_lock" /\ pc[0] \in LbPCs /\ rq_lock[lb.busiest] = NoCpu
      /\ rq_lock' = [rq_lock EXCEPT ![lb.busiest] = 0]
      /\ LbGoto("lb_scan", lb) /\ UNCHANGED schedVars
  BY Zenon DEF LbLock, spin_lock, LbPCs
<1>2. lb' = lb /\ pc'[0] = "lb_scan" /\ LbGoto("lb_scan", lb')
  <2>1. pc \in [CPU -> PCs]
    BY Zenon DEF TypeOK
  <2> QED BY <1>1, <2>1, BootCpu, Zenon DEF LbGoto, Goto
<1>3. \A d \in CPU : HoldsRq(0, d)' <=> HoldsRq(0, d) \/ d = lb.busiest
  BY <1>1, <1>2, Zenon DEF HoldsRq
<1> QED BY <1>1, <1>2, <1>3, LbFields, PassLocks, Zenon

(* One iteration of the victim scan, or the end of it. *)
LEMMA LbScanStep ==
    ASSUME TypeOK, IInv, QueueInv, QueueInv', LbScan
    PROVE  TypeOK' /\ IInv'
<1>1. pc[0] = "lb_scan" /\ UNCHANGED schedVars /\ pc[0] \in LbPCs
  BY Zenon DEF LbScan, LbPCs
<1>2. rq_lock \in [CPU -> CPU \cup {NoCpu}] /\ lb.busiest \in CPU
  BY LbFields, Zenon DEF TypeOK
<1>3. \/ LbGoto("picked", LbDone) /\ spin_unlock(rq_lock, lb.busiest)
      \/ /\ LbGoto("migrate", lb') /\ spin_unlock(rq_lock, lb.busiest)
      \/ LbGoto("lb_scan", [lb EXCEPT !.i = @ + 1]) /\ UNCHANGED rq_lock
  BY Zenon DEF LbScan, LbGoto
<1>4. \A e \in CPU : HoldsRq(0, e) <=> e = lb.busiest
  BY <1>1, Zenon DEF HoldsRq
<1>5. CASE /\ LbGoto("picked", LbDone) \/ LbGoto("migrate", lb')
           /\ spin_unlock(rq_lock, lb.busiest)
  <2>1. PICK l \in {"picked", "migrate"} : LbGoto(l, lb')
    BY <1>5, Zenon DEF LbGoto
  <2>2. /\ rq_lock' \in [CPU -> CPU \cup {NoCpu}]
        /\ \A e \in CPU : rq_lock'[e] = IF HoldsRq(0, e) THEN NoCpu ELSE rq_lock[e]
    BY <1>2, <1>4, <1>5, Zenon DEF spin_unlock
  <2> QED BY <1>1, <2>1, <2>2, PassReleases, Zenon
<1>6. CASE LbGoto("lb_scan", [lb EXCEPT !.i = @ + 1]) /\ UNCHANGED rq_lock
  <2>1. LbGoto("lb_scan", lb') /\ pc'[0] = "lb_scan" /\ lb' = [lb EXCEPT !.i = @ + 1]
    BY <1>6, BootCpu, Zenon DEF LbGoto, Goto, TypeOK
  <2>2. lb'.busiest = lb.busiest
    <3>1. lb \in [tick : 0..(LB_PERIOD - 1), busiest : CPU, idlest : CPU, i : 0..MAX_TASKS,
                   victim : Task \cup {NoTask}, src : CPU]
      BY Zenon DEF QueueInv, QueueTypes
    <3> QED BY <2>1, <3>1, Zenon
  <2>3. RqLockAt(0)'
    <3>1. \A e \in CPU : HoldsRq(0, e)' <=> HoldsRq(0, e)
      BY <1>1, <2>1, <2>2, Zenon DEF HoldsRq
    <3> QED BY <1>6, <3>1, AtCpu, BootCpu, Zenon DEF CpuLocks, RqLockAt
  <2>4. "lb_scan" \in LbPCs \cup {"picked"} /\ rq_lock' \in [CPU -> CPU \cup {NoCpu}]
    BY <1>2, <1>6, Zenon DEF LbPCs
  <2> QED BY <1>1, <1>6, <2>1, <2>3, <2>4, PassKeeps, Zenon
<1> QED BY <1>3, <1>5, <1>6, Zenon

(* The lower and the higher of two ids are the two ids. *)
LEMMA LowAndHigh ==
    ASSUME NEW a \in Nat, NEW b \in Nat
    PROVE  /\ Min({a, b}) \in {a, b} /\ Max({a, b}) \in {a, b}
           /\ a <= b => Min({a, b}) = a /\ Max({a, b}) = b
           /\ b <= a => Min({a, b}) = b /\ Max({a, b}) = a
<1>1. \E x \in {a, b} : \A y \in {a, b} : x <= y
  <2>1. CASE a <= b
    BY <2>1
  <2>2. CASE b <= a
    BY <2>2
  <2> QED BY <2>1, <2>2
<1>2. \E x \in {a, b} : \A y \in {a, b} : x >= y
  <2>1. CASE a <= b
    BY <2>1
  <2>2. CASE b <= a
    BY <2>2
  <2> QED BY <2>1, <2>2
<1>3. Min({a, b}) \in {a, b} /\ \A y \in {a, b} : Min({a, b}) <= y
  BY <1>1, Zenon DEF Min
<1>4. Max({a, b}) \in {a, b} /\ \A y \in {a, b} : Max({a, b}) >= y
  BY <1>2, Zenon DEF Max
<1> HIDE DEF Min, Max
<1> QED BY <1>3, <1>4

(* sched_migrate's two locks are those of the source and the target, and   *)
(* they are two.                                                           *)
LEMMA MigrateLocks ==
    ASSUME QueueInv, pc[0] \in LbPCs \ {"lb", "lb_lock", "lb_scan"}
    PROVE  /\ Min({lb.src, lb.idlest}) \in CPU /\ Max({lb.src, lb.idlest}) \in CPU
           /\ Min({lb.src, lb.idlest}) # Max({lb.src, lb.idlest})
           /\ {Min({lb.src, lb.idlest}), Max({lb.src, lb.idlest})} = {lb.src, lb.idlest}
           /\ lb.src # lb.idlest
           /\ Min({lb.src, lb.idlest}) < Max({lb.src, lb.idlest})
<1>1. lb.src \in Nat /\ lb.idlest \in Nat /\ lb.src \in CPU /\ lb.idlest \in CPU
  BY LbFields DEF CPU
<1>2. lb.src # lb.idlest
  BY Zenon DEF QueueInv, Balancing, LbPCs
<1> DEFINE a == lb.src
           b == lb.idlest
<1> HIDE DEF a, b
<1>3. /\ Min({a, b}) \in {a, b} /\ Max({a, b}) \in {a, b}
      /\ a <= b => Min({a, b}) = a /\ Max({a, b}) = b
      /\ b <= a => Min({a, b}) = b /\ Max({a, b}) = a
  BY <1>1, LowAndHigh, Zenon DEF a, b
<1>4. a \in Nat /\ b \in Nat /\ a # b /\ a \in CPU /\ b \in CPU
  BY <1>1, <1>2, Zenon DEF a, b
<1>5. /\ Min({a, b}) \in CPU /\ Max({a, b}) \in CPU
      /\ Min({a, b}) # Max({a, b})
      /\ {Min({a, b}), Max({a, b})} = {a, b}
      /\ Min({a, b}) < Max({a, b})
  <2>1. CASE a <= b
    BY <1>3, <1>4, <2>1
  <2>2. CASE b <= a
    BY <1>3, <1>4, <2>2
  <2> QED BY <1>4, <2>1, <2>2
<1> QED BY <1>2, <1>5, Zenon DEF a, b

(* sched_migrate gives up before locking, or takes the lock of lower id. *)
LEMMA MigrateLockLoStep ==
    ASSUME TypeOK, IInv, QueueInv, QueueInv', MigrateLockLo
    PROVE  TypeOK' /\ IInv'
<1>1. pc[0] = "migrate" /\ UNCHANGED schedVars /\ pc[0] \in LbPCs
      /\ pc[0] \in LbPCs \ {"lb", "lb_lock", "lb_scan"}
  BY Zenon DEF MigrateLockLo, LbPCs
<1>2. rq_lock \in [CPU -> CPU \cup {NoCpu}]
  BY Zenon DEF TypeOK
<1>3. \A e \in CPU : ~ HoldsRq(0, e)
  BY <1>1, Zenon DEF HoldsRq
<1>4. CASE LbGoto("picked", LbDone) /\ UNCHANGED rq_lock
  <2>1. LbGoto("picked", lb') /\ "picked" \in {"picked", "migrate"}
    BY <1>4, Zenon DEF LbGoto
  <2>2. /\ rq_lock' \in [CPU -> CPU \cup {NoCpu}]
        /\ \A e \in CPU : rq_lock'[e] = IF HoldsRq(0, e) THEN NoCpu ELSE rq_lock[e]
    BY <1>2, <1>3, <1>4, Zenon
  <2> QED BY <1>1, <2>1, <2>2, PassReleases, Zenon
<1>5. CASE spin_lock(rq_lock, Min({lb.src, lb.idlest}), 0) /\ LbGoto("mig_hi", lb)
  <2>1. /\ LbGoto("mig_hi", lb') /\ lb' = lb /\ pc'[0] = "mig_hi"
        /\ "mig_hi" \in {"lb_scan", "mig_hi", "mig_check"}
    BY <1>5, BootCpu, Zenon DEF LbGoto, Goto, TypeOK
  <2>2. \A e \in CPU : HoldsRq(0, e)' <=> HoldsRq(0, e) \/ e = Min({lb.src, lb.idlest})
    BY <1>3, <2>1, Zenon DEF HoldsRq
  <2>3. /\ rq_lock[Min({lb.src, lb.idlest})] = NoCpu
        /\ rq_lock' = [rq_lock EXCEPT ![Min({lb.src, lb.idlest})] = 0]
    BY <1>5, Zenon DEF spin_lock
  <2>4. Min({lb.src, lb.idlest}) \in CPU
    BY <1>1, MigrateLocks, Zenon
  <2> QED BY <1>1, <2>1, <2>2, <2>3, <2>4, PassLocks, Zenon
<1> QED BY <1>4, <1>5, Zenon DEF MigrateLockLo

(* ... then the one of higher id. *)
LEMMA MigrateLockHiStep ==
    ASSUME TypeOK, IInv, QueueInv, QueueInv', MigrateLockHi
    PROVE  TypeOK' /\ IInv'
<1>1. /\ pc[0] = "mig_hi" /\ UNCHANGED schedVars /\ pc[0] \in LbPCs
      /\ pc[0] \in LbPCs \ {"lb", "lb_lock", "lb_scan"}
      /\ spin_lock(rq_lock, Max({lb.src, lb.idlest}), 0) /\ LbGoto("mig_check", lb)
  BY Zenon DEF MigrateLockHi, LbPCs
<1>2. /\ Max({lb.src, lb.idlest}) \in CPU
      /\ {Min({lb.src, lb.idlest}), Max({lb.src, lb.idlest})} = {lb.src, lb.idlest}
  BY <1>1, MigrateLocks, Zenon
<1>3. /\ LbGoto("mig_check", lb') /\ lb' = lb /\ pc'[0] = "mig_check"
      /\ "mig_check" \in {"lb_scan", "mig_hi", "mig_check"}
  BY <1>1, BootCpu, Zenon DEF LbGoto, Goto, TypeOK
<1>4. \A e \in CPU : HoldsRq(0, e) <=> e = Min({lb.src, lb.idlest})
  BY <1>1, Zenon DEF HoldsRq
<1>5. \A e \in CPU : HoldsRq(0, e)' <=> e \in {lb.src, lb.idlest}
  BY <1>3, Zenon DEF HoldsRq
<1>6. \A e \in CPU : HoldsRq(0, e)' <=> HoldsRq(0, e) \/ e = Max({lb.src, lb.idlest})
  BY <1>2, <1>4, <1>5, Zenon
<1>7. /\ rq_lock[Max({lb.src, lb.idlest})] = NoCpu
      /\ rq_lock' = [rq_lock EXCEPT ![Max({lb.src, lb.idlest})] = 0]
  BY <1>1, Zenon DEF spin_lock
<1> QED BY <1>1, <1>2, <1>3, <1>6, <1>7, PassLocks, Zenon

(* The checks under both locks: a task is moved only if it is READY. *)
LEMMA MigrateCheckStep ==
    ASSUME TypeOK, IInv, QueueInv', MigrateCheck
    PROVE  TypeOK' /\ IInv'
<1>1. pc[0] = "mig_check" /\ UNCHANGED <<schedVars, rq_lock>> /\ pc[0] \in LbPCs
  BY Zenon DEF MigrateCheck, LbPCs
<1>2. PICK l \in {"mig_move", "mig_unlock"} :
          LbGoto(l, lb) /\ (l = "mig_move" => state[lb.victim] = READY)
  BY Zenon DEF MigrateCheck
<1>3. LbGoto(l, lb') /\ lb' = lb /\ pc'[0] = l
  BY <1>2, BootCpu, Zenon DEF LbGoto, Goto, TypeOK
<1>4. RqLockAt(0)'
  <2>1. \A e \in CPU : HoldsRq(0, e)' <=> HoldsRq(0, e)
    BY <1>1, <1>3, Zenon DEF HoldsRq
  <2> QED BY <1>1, <2>1, AtCpu, BootCpu, Zenon DEF CpuLocks, RqLockAt
<1>5. l \in LbPCs \cup {"picked"} /\ rq_lock' \in [CPU -> CPU \cup {NoCpu}]
  BY <1>1, Zenon DEF LbPCs, TypeOK
<1> QED BY <1>1, <1>2, <1>3, <1>4, <1>5, PassKeeps, Zenon

(* sched_migrate drops both locks. *)
LEMMA MigrateUnlockStep ==
    ASSUME TypeOK, IInv, QueueInv, QueueInv', MigrateUnlock
    PROVE  TypeOK' /\ IInv'
<1>1. /\ pc[0] = "mig_unlock" /\ UNCHANGED schedVars /\ pc[0] \in LbPCs
      /\ rq_lock' = [rq_lock EXCEPT ![lb.src] = NoCpu, ![lb.idlest] = NoCpu]
      /\ LbGoto("picked", LbDone)
  BY Zenon DEF MigrateUnlock, LbPCs
<1>2. rq_lock \in [CPU -> CPU \cup {NoCpu}] /\ lb.src \in CPU /\ lb.idlest \in CPU
  BY LbFields, Zenon DEF TypeOK
<1>3. \A e \in CPU : HoldsRq(0, e) <=> e = lb.src \/ e = lb.idlest
  BY <1>1, Zenon DEF HoldsRq
<1>4. LbGoto("picked", lb') /\ "picked" \in {"picked", "migrate"}
  BY <1>1, Zenon DEF LbGoto
<1>5. /\ rq_lock' \in [CPU -> CPU \cup {NoCpu}]
      /\ \A e \in CPU : rq_lock'[e] = IF e = lb.src \/ e = lb.idlest THEN NoCpu ELSE rq_lock[e]
  BY <1>1, <1>2, Zenon
<1>6. \A e \in CPU : rq_lock'[e] = IF HoldsRq(0, e) THEN NoCpu ELSE rq_lock[e]
  BY <1>3, <1>5, Zenon
<1> QED BY <1>1, <1>4, <1>5, <1>6, PassReleases, Zenon

(* The move itself, outside the race: no CPU runs or has picked the task,  *)
(* so its frame is as good on the target CPU, and it is READY, so nobody   *)
(* is about to wake it.                                                    *)
LEMMA sched_migrateStep ==
    ASSUME TypeOK, IInv, QueueInv, QueueInv', NoLbRace, sched_migrate
    PROVE  TypeOK' /\ IInv'
<1> DEFINE v == lb.victim
           b == lb.idlest
<1>1. /\ pc[0] = "mig_move" /\ LbGoto("mig_unlock", lb) /\ home' = [home EXCEPT ![v] = b]
      /\ UNCHANGED <<state, load, rq_lock>>
  BY Zenon DEF sched_migrate
<1>2. /\ v \in Task /\ b \in CPU /\ home \in [Task -> CPU]
      /\ rq_lock \in [CPU -> CPU \cup {NoCpu}]
  BY <1>1, LbFields, Zenon DEF QueueInv, Balancing, TypeOK
<1> HIDE DEF v, b
<1>3. /\ pc[0] \in LbPCs /\ "mig_unlock" \in LbPCs \cup {"picked"}
      /\ LbGoto("mig_unlock", lb') /\ lb' = lb
      /\ UNCHANGED <<run, sp, waiter, w, wcpu, curr, next, flags, ipc, site>>
  BY <1>1, Zenon DEF LbPCs, LbGoto, switchVars, semVars, irqVars, maskVars
<1>4. \A t \in Task : home'[t] = IF t = v THEN b ELSE home[t]
  BY <1>1, <1>2, Zenon
<1>5. HomeInv /\ FrameInv /\ SleepInv /\ state[v] = READY
  BY <1>1, Zenon DEF IInv, SleepInv, VictimReady, v
<1>6. \A c \in CPU : /\ run[c] \in Task /\ curr[c] \in Task
                      /\ next[c] \in Task \cup {NoTask} /\ w[c] \in Task \cup {NoTask}
  BY Types, Zenon DEF CpuTypes
<1>7. \A c \in CPU : run[c] # v /\ next[c] # v
  BY <1>1, Zenon DEF NoLbRace, LbRace, v
<1>8. \A c \in CPU : curr[c] # v
  <2> SUFFICES ASSUME NEW c \in CPU PROVE curr[c] # v
    OBVIOUS
  <2>1. curr[c] = IF pc[c] = "switch" THEN next[c] ELSE run[c]
    BY AtCpu, Zenon DEF CpuControl, SwitchAt
  <2> QED BY <1>7, <2>1, Zenon
<1>9. TypeOK'
  BY <1>1, <1>2, <1>3, PassTypes, Zenon
<1>10. /\ CpuControl(0)' /\ SemLockAt(0)' /\ AccelLockAt(0)'
       /\ state[run[0]] = BLOCKED => InSemWait(run[0])'
       /\ pc'[0] = "mig_unlock"
       /\ \A d \in CPU \ {0} : pc'[d] = pc[d]
  <2>1. home'[run[0]] = home[run[0]]
    BY <1>4, <1>6, <1>7, BootCpu, Zenon
  <2> QED BY <1>3, <2>1, PassControl, Zenon
<1>11. CpuLocks(0)'
  <2>1. \A e \in CPU : HoldsRq(0, e)' <=> HoldsRq(0, e)
    BY <1>1, <1>3, <1>10, Zenon DEF HoldsRq
  <2>2. RqLockAt(0)'
    BY <1>1, <2>1, AtCpu, BootCpu, Zenon DEF CpuLocks, RqLockAt
  <2> QED BY <1>10, <2>2, Zenon DEF CpuLocks
<1>12. \A d \in CPU \ {0} : SameCpu(d)
  BY <1>1, <1>3, PassOthers, Zenon
<1>13. FrameInv'
  <2> SUFFICES ASSUME NEW t \in Task
               PROVE  IF run[home'[t]] = t
                      THEN sp[t] = Popped
                      ELSE /\ sp[t] # Popped
                           /\ sp[t].stack = t
                           /\ sp[t].daif = "open" <=> sp[t].at = "start"
                           /\ flags[t] = "open"
                           /\ ipc[t] = "wait" => sp[t].at = "irq"
    BY <1>3, ZenonT(40) DEF FrameInv
  <2>1. run[home'[t]] = t <=> run[home[t]] = t
    <3>1. CASE t = v
      BY <1>2, <1>4, <1>7, <3>1, Zenon
    <3>2. CASE t # v
      BY <1>4, <3>2, Zenon
    <3> QED BY <3>1, <3>2, Zenon
  <2> QED BY <1>5, <2>1, ZenonT(40) DEF FrameInv
<1>14. HomeInv'
  <2>1. \A c \in CPU : home'[run[c]] = c /\ home'[curr[c]] = c
    BY <1>4, <1>5, <1>6, <1>7, <1>8, Zenon DEF HomeInv
  <2>2. \A c \in CPU : next[c] # NoTask => home'[next[c]] = c
    BY <1>4, <1>5, <1>6, <1>7, Zenon DEF HomeInv
  <2>3. \A c \in CPU : w[c] # NoTask => home'[w[c]] = wcpu[c]
    <3> SUFFICES ASSUME NEW c \in CPU, w[c] # NoTask PROVE home'[w[c]] = wcpu[c]
      OBVIOUS
    <3>1. w[c] \in Task /\ state[w[c]] = BLOCKED /\ home[w[c]] = wcpu[c]
      BY <1>5, <1>6, Zenon DEF SleepInv, WokenSleep, HomeInv, WakeLocksHome
    <3>2. w[c] # v
      BY <1>5, <3>1, StatesDiffer, Zenon
    <3> QED BY <1>4, <3>1, <3>2, Zenon
  <2> QED BY <1>3, <2>1, <2>2, <2>3, Zenon DEF HomeInv, WakeLocksHome
<1>15. SleepInv'
  <2>1. ASSUME NEW t \in Task, state'[t] = BLOCKED PROVE InSemWait(t)'
    <3>1. InSemWait(t) /\ home[t] \in CPU /\ t # v /\ home'[t] = home[t]
      BY <1>1, <1>2, <1>4, <1>5, <2>1, StatesDiffer, Zenon DEF SleepInv, SleepersInSemWait
    <3>2. CASE t = run[0]
      BY <1>1, <1>3, <1>10, <2>1, <3>2, Zenon
    <3>3. CASE t # run[0]
      <4>1. /\ sp'[t] = sp[t] /\ ipc'[t] = ipc[t] /\ t # run'[0]
            /\ \A d \in CPU \ {0} : pc'[d] = pc[d] /\ site'[d] = site[d] /\ run'[d] = run[d]
        BY <1>3, <1>10, <3>3, Zenon
      <4> QED BY <3>1, <3>3, <4>1, BootCpu, SleeperKept, Zenon
    <3> QED BY <3>2, <3>3, Zenon
  <2>2. VictimReady'
    BY <1>10, Zenon DEF VictimReady
  <2> QED BY <1>1, <1>3, <1>5, <2>1, <2>2, Zenon DEF SleepInv, SleepersInSemWait,
       SleepersWakeable, WaitersSleep, WokenSleep, WaitersDistinct, WokenDistinct,
       WokenNotWaiting, PickedReady
<1>16. IInv'
  BY <1>10, <1>11, <1>12, <1>13, <1>14, <1>15, BootCpu, Combine, Zenon
<1> QED BY <1>9, <1>16, Zenon

(* The balancing pass, as long as the race has not struck. *)
LEMMA PassPreserves ==
    ASSUME TypeOK, IInv, QueueInv, QueueInv', NoLbRace, sched_load_balance_pass
    PROVE  TypeOK' /\ IInv'
BY LbTickStep, LbLockStep, LbScanStep, MigrateLockLoStep, MigrateLockHiStep,
   MigrateCheckStep, sched_migrateStep, MigrateUnlockStep, Zenon
   DEF sched_load_balance_pass
=============================================================================
