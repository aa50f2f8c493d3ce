------------------------------ MODULE SmpSched ------------------------------
(***************************************************************************)
(* The SMP kernel core of aarch64-rtos: per-CPU run queues under           *)
(* spinlocks, timer preemption, yield, semaphores with cross-CPU wake-up,  *)
(* the completion dispatcher that posts semaphores from interrupt or task  *)
(* context, context switching, and (in the LOAD_BALANCE_SELFTEST build)    *)
(* task migration.                                                         *)
(*                                                                         *)
(* Every CPU runs one stack at a time (run) and has its own idea of which  *)
(* task that is (curr, cpu_local_t.curr).  The two differ between          *)
(* "current = next" and switch_to, which is why the code keeps IRQs masked *)
(* there.  sp[t] is tcb_t.sp: the frame switch_to pops to resume t.        *)
(*                                                                         *)
(* What the tasks do between kernel calls is left open: at any user point  *)
(* a task may make any call that the relations below allow it.             *)
(***************************************************************************)
EXTENDS RunQueue

CONSTANTS
    SMP_ONLINE,             \* number of CPUs running, ids 0 .. SMP_ONLINE-1
    Task, Sem,              \* tcb_t and sem_t objects
    NoTask, NoSem, NoCpu,   \* null pointers / lock word 0
    InitQueue,              \* run queues as registered at boot
    Pinned,                 \* tasks with tcb_t.pinned set
    Yields, Waits, Posts, Polls,  \* which task may make which kernel call
    DMA_IRQ_CPU,            \* CPU the accelerator's interrupt is routed to
    DmaSems,                \* semaphores registered in pending[]
    NUM_WORKERS,            \* completions drained at most in one go
    POLICY,                 \* active_policy
    LOAD_BALANCE_SELFTEST,  \* TRUE in the build with that macro
    LB_PERIOD,              \* ticks between load balance passes (200)
    MaxCount                \* bound: no post is started at this count

CPU == 0..(SMP_ONLINE - 1)

ASSUME CpuAssumption == SMP_ONLINE \in Nat \ {0} /\ NoCpu \notin CPU

ASSUME NullAssumption == NoTask \notin Task /\ NoSem \notin Sem

(* Every task is registered once, on one CPU; each CPU's first task is the *)
(* one it runs when the model starts.                                      *)
ASSUME QueueAssumption ==
    /\ InitQueue \in [CPU -> Seq(Task)]
    /\ \A c \in CPU : InitQueue[c] # <<>> /\ Len(InitQueue[c]) <= MAX_TASKS
    /\ \A c, d \in CPU : \A i \in 1..Len(InitQueue[c]), j \in 1..Len(InitQueue[d]) :
          InitQueue[c][i] = InitQueue[d][j] => c = d /\ i = j
    /\ \A t \in Task : \E c \in CPU : t \in QueueTasks(InitQueue[c])

(* sync.h: a semaphore has a single waiter. *)
ASSUME ClientAssumption ==
    /\ Yields \subseteq Task /\ Polls \subseteq Task /\ Pinned \subseteq Task
    /\ Waits \subseteq Task \X Sem /\ Posts \subseteq Task \X Sem
    /\ DmaSems \subseteq Sem /\ DMA_IRQ_CPU \in CPU
    /\ \A p, q \in Waits : p[2] = q[2] => p = q

ASSUME BuildAssumption ==
    /\ POLICY \in Policies
    /\ LOAD_BALANCE_SELFTEST \in BOOLEAN
    /\ LB_PERIOD \in Nat \ {0} /\ NUM_WORKERS \in Nat /\ MaxCount \in Nat

VARIABLES
    \* per CPU
    pc,      \* where the CPU is
    run,     \* whose stack it executes on
    curr,    \* cpu_local_t.curr
    daif,    \* PSTATE.I: "open" or "masked"
    active,  \* interrupt acknowledged and not yet EOIed
    site,    \* which caller the pick/switch in progress belongs to
    next, prev,  \* the locals of that caller
    sem,     \* semaphore of the call in progress
    w, wcpu, \* sem_post's w and the home CPU sched_wake read from it
    comps,   \* completions the dispatcher has drained and not yet handled
    \* per task
    state, load, home,   \* tcb_t.state, ewma_load, cpu
    sp,      \* tcb_t.sp: the saved frame, Popped while the task runs
    flags,   \* the DAIF value the kernel call in progress will restore
    ipc,     \* program point of the interrupted code (ELR in the IRQ frame)
    \* shared
    tasks, current_idx,  \* run queues
    accel_lock, sem_lock, rq_lock,  \* the CPU that holds each spinlock
    count, waiter,       \* sem_t
    lb       \* locals of irq_handler's load balancing (CPU 0 only)

cpuVars  == <<pc, run, curr, daif, active, site, next, prev, sem, w, wcpu, comps>>
taskVars == <<state, load, home, sp, flags, ipc>>
vars == <<cpuVars, taskVars, tasks, current_idx, accel_lock, sem_lock, rq_lock,
          count, waiter, lb>>

Sites == {"yield", "sem_wait", "irq"}

(* A frame built by switch_to or task_init: on which stack, where it       *)
(* resumes, and the DAIF word it holds.                                    *)
Frame == [stack : Task, at : Sites \cup {"start"}, daif : {"open", "masked"}]
Popped == [stack |-> NoTask, at |-> "popped", daif |-> "masked"]

NoLb == [tick |-> 0, busiest |-> 0, idlest |-> 0, i |-> 0, victim |-> NoTask, src |-> 0]

Init ==
    /\ pc = [c \in CPU |-> "user"]
    /\ run = [c \in CPU |-> InitQueue[c][1]]
    /\ curr = run
    /\ daif = [c \in CPU |-> "open"]
    /\ active = [c \in CPU |-> "none"]
    /\ site = [c \in CPU |-> "none"]
    /\ next = [c \in CPU |-> NoTask]
    /\ prev = [c \in CPU |-> NoTask]
    /\ sem = [c \in CPU |-> NoSem]
    /\ w = [c \in CPU |-> NoTask]
    /\ wcpu = [c \in CPU |-> NoCpu]
    /\ comps = [c \in CPU |-> 0]
    /\ state = [t \in Task |-> READY]
    /\ load = [t \in Task |-> 0]
    /\ home = [t \in Task |-> CHOOSE c \in CPU : t \in QueueTasks(InitQueue[c])]
    /\ sp = [t \in Task |-> IF \E c \in CPU : t = InitQueue[c][1]
                            THEN Popped
                            ELSE [stack |-> t, at |-> "start", daif |-> "open"]]
    /\ flags = [t \in Task |-> "open"]
    /\ ipc = [t \in Task |-> "user"]
    /\ tasks = InitQueue
    /\ current_idx = [c \in CPU |-> 0]
    /\ accel_lock = NoCpu
    /\ sem_lock = [s \in Sem |-> NoCpu]
    /\ rq_lock = [c \in CPU |-> NoCpu]
    /\ count = [s \in Sem |-> 0]
    /\ waiter = [s \in Sem |-> NoTask]
    /\ lb = NoLb

-----------------------------------------------------------------------------
(* Small steps shared by the handlers.                                     *)

Goto(c, l) == pc' = [pc EXCEPT ![c] = l]

(* flags is dead once restored, so it goes back to its initial value. *)
irq_disable_save(c) ==
    /\ flags' = [flags EXCEPT ![run[c]] = daif[c]]
    /\ daif' = [daif EXCEPT ![c] = "masked"]

irq_restore(c) ==
    /\ daif' = [daif EXCEPT ![c] = flags[run[c]]]
    /\ flags' = [flags EXCEPT ![run[c]] = "open"]

(* lk is sem_lock or rq_lock. *)
spin_lock(lk, k, c) == lk[k] = NoCpu /\ lk' = [lk EXCEPT ![k] = c]
spin_unlock(lk, k) == lk' = [lk EXCEPT ![k] = NoCpu]

(* pick_next_ready, called from `from` on CPU c.  Its own irqsave/restore  *)
(* pair is nested in a masked section and changes nothing.                 *)
CallPick(c, from) == site' = [site EXCEPT ![c] = from] /\ Goto(c, "pick_lock")

schedVars == <<tasks, current_idx, state, load, home>>
switchVars == <<run, curr, sp, next, prev>>
semVars == <<count, waiter, sem, w, wcpu, comps>>
irqVars == <<active, ipc>>
maskVars == <<daif, flags>>
lockVars == <<accel_lock, sem_lock, rq_lock>>

-----------------------------------------------------------------------------
(* Plausible mistakes in the handlers below.  None is part of Next: each   *)
(* one, put in the place of the handler it is named after, must break a    *)
(* property, which shows that the property depends on that line.           *)

(* prev is read after current has been overwritten. *)
SetCurrentLateCapture(c) ==
    /\ pc[c] = "picked" /\ next[c] # curr[c]
    /\ prev' = [prev EXCEPT ![c] = next[c]]
    /\ curr' = [curr EXCEPT ![c] = next[c]]
    /\ Goto(c, "switch")
    /\ UNCHANGED <<schedVars, run, sp, next, semVars, irqVars, maskVars, site, lockVars, lb>>

(* A task that blocks with nobody to switch to waits with IRQs masked. *)
KeepCurrentMasked(c) ==
    /\ pc[c] = "picked" /\ next[c] = curr[c]
    /\ IF site[c] = "irq"
       THEN Goto(c, "eret") /\ UNCHANGED maskVars
       ELSE IF site[c] = "yield"
       THEN irq_restore(c) /\ Goto(c, "user")
       ELSE Goto(c, "wait") /\ UNCHANGED maskVars
    /\ next' = [next EXCEPT ![c] = NoTask]
    /\ site' = [site EXCEPT ![c] = "none"]
    /\ UNCHANGED <<schedVars, run, curr, sp, prev, semVars, irqVars, lockVars, lb>>

(* irq_restore after the switch is missing. *)
RestoreForgotten(c) ==
    /\ pc[c] = "restore"
    /\ Goto(c, "user")
    /\ UNCHANGED <<schedVars, switchVars, semVars, irqVars, maskVars, site, lockVars, lb>>

(* sem_wait takes its lock with IRQs open. *)
sem_waitUnmasked(c, s) ==
    /\ pc[c] = "user" /\ <<run[c], s>> \in Waits
    /\ sem' = [sem EXCEPT ![c] = s]
    /\ Goto(c, "wait_lock")
    /\ UNCHANGED <<schedVars, switchVars, count, waiter, w, wcpu, comps, irqVars, maskVars,
                   site, lockVars, lb>>

(* s->waiter is not reset. *)
PostWaiterKept(c) ==
    /\ pc[c] = "post_cs" /\ waiter[sem[c]] # NoTask
    /\ w' = [w EXCEPT ![c] = waiter[sem[c]]]
    /\ wcpu' = [wcpu EXCEPT ![c] = home[waiter[sem[c]]]]
    /\ Goto(c, "wake_lock")
    /\ UNCHANGED <<schedVars, switchVars, count, waiter, sem, comps, irqVars, maskVars,
                   site, lockVars, lb>>

(* sched_wake does not set the state. *)
sched_wakeStateKept(c) ==
    /\ pc[c] = "wake_cs"
    /\ spin_unlock(rq_lock, wcpu[c])
    /\ w' = [w EXCEPT ![c] = NoTask]
    /\ wcpu' = [wcpu EXCEPT ![c] = NoCpu]
    /\ Goto(c, "post_unlock")
    /\ UNCHANGED <<schedVars, switchVars, count, waiter, sem,
                   comps, irqVars, maskVars, site, accel_lock, sem_lock, lb>>

(* The dispatcher takes accel_lock again for every completion. *)
SemPostUnlockRelocks(c) ==
    /\ pc[c] = "post_unlock"
    /\ spin_unlock(sem_lock, sem[c])
    /\ sem' = [sem EXCEPT ![c] = NoSem]
    /\ IF accel_lock = c
       THEN Goto(c, "disp_lock") /\ UNCHANGED maskVars
       ELSE irq_restore(c) /\ Goto(c, "user")
    /\ UNCHANGED <<schedVars, switchVars, count, waiter, w, wcpu, comps, irqVars, site,
                   accel_lock, rq_lock, lb>>

-----------------------------------------------------------------------------
(* pick_next_ready and the switch that follows it.                         *)

PickLock(c) ==
    /\ pc[c] = "pick_lock"
    /\ spin_lock(rq_lock, c, c)
    /\ Goto(c, "pick_cs")
    /\ UNCHANGED <<schedVars, switchVars, semVars, irqVars, maskVars, site, accel_lock,
                   sem_lock, lb>>

pick_next_ready(c) ==
    /\ pc[c] = "pick_cs"
    /\ LET r == select_next(POLICY, tasks[c], current_idx[c], state, load, curr[c])
       IN  /\ next' = [next EXCEPT ![c] = r.task]
           /\ current_idx' = [current_idx EXCEPT ![c] = r.idx]
    /\ spin_unlock(rq_lock, c)
    /\ Goto(c, IF site[c] = "irq" THEN "eoi" ELSE "picked")
    /\ UNCHANGED <<tasks, state, load, home, run, curr, sp, prev, semVars,
                   irqVars, maskVars, site, accel_lock, sem_lock, lb>>

(* prev = current; current = next *)
SetCurrent(c) ==
    /\ pc[c] = "picked" /\ next[c] # curr[c]
    /\ prev' = [prev EXCEPT ![c] = curr[c]]
    /\ curr' = [curr EXCEPT ![c] = next[c]]
    /\ Goto(c, "switch")
    /\ UNCHANGED <<schedVars, run, sp, next, semVars, irqVars, maskVars, site, lockVars, lb>>

(* next == current: yield restores and returns, the timer handler returns, *)
(* a blocking task opens IRQs and waits in place.                          *)
KeepCurrent(c) ==
    /\ pc[c] = "picked" /\ next[c] = curr[c]
    /\ IF site[c] = "irq"
       THEN Goto(c, "eret") /\ UNCHANGED maskVars
       ELSE irq_restore(c) /\ Goto(c, IF site[c] = "yield" THEN "user" ELSE "wait")
    /\ next' = [next EXCEPT ![c] = NoTask]
    /\ site' = [site EXCEPT ![c] = "none"]
    /\ UNCHANGED <<schedVars, run, curr, sp, prev, semVars, irqVars, lockVars, lb>>

(* Where a popped frame continues: a new task enters its entry function    *)
(* (its DAIF word is 0), a preempted one returns through irq_el1h, a task  *)
(* that called yield or sem_wait goes on to irq_restore(flags).            *)
ResumeAt(at) == IF at = "start" THEN "user" ELSE IF at = "irq" THEN "eret" ELSE "restore"

(* switch_to(&prev->sp, next->sp).  A frame that was already popped is     *)
(* whatever the running task's stack holds by now.                         *)
switch_to(c) ==
    /\ pc[c] = "switch"
    /\ sp' = [sp EXCEPT ![prev[c]] = [stack |-> run[c], at |-> site[c], daif |-> daif[c]],
                        ![next[c]] = Popped]
    /\ LET f == sp[next[c]]
       IN  IF f = Popped
           THEN Goto(c, "corrupt") /\ UNCHANGED <<run, daif>>
           ELSE /\ run' = [run EXCEPT ![c] = f.stack]
                /\ daif' = [daif EXCEPT ![c] = f.daif]
                /\ Goto(c, ResumeAt(f.at))
    /\ next' = [next EXCEPT ![c] = NoTask]
    /\ prev' = [prev EXCEPT ![c] = NoTask]
    /\ site' = [site EXCEPT ![c] = "none"]
    /\ UNCHANGED <<schedVars, curr, semVars, irqVars, flags, lockVars, lb>>

(* irq_restore(flags) after switch_to has returned. *)
Restore(c) ==
    /\ pc[c] = "restore"
    /\ irq_restore(c)
    /\ Goto(c, "user")
    /\ UNCHANGED <<schedVars, switchVars, semVars, irqVars, site, lockVars, lb>>

yield(c) ==
    /\ pc[c] = "user" /\ run[c] \in Yields
    /\ irq_disable_save(c)
    /\ CallPick(c, "yield")
    /\ UNCHANGED <<schedVars, switchVars, semVars, irqVars, lockVars, lb>>

-----------------------------------------------------------------------------
(* sem_wait                                                                *)

sem_wait(c, s) ==
    /\ pc[c] = "user" /\ <<run[c], s>> \in Waits
    /\ irq_disable_save(c)
    /\ sem' = [sem EXCEPT ![c] = s]
    /\ Goto(c, "wait_lock")
    /\ UNCHANGED <<schedVars, switchVars, count, waiter, w, wcpu, comps, irqVars, site,
                   lockVars, lb>>

SemWaitLock(c) ==
    /\ pc[c] = "wait_lock"
    /\ spin_lock(sem_lock, sem[c], c)
    /\ Goto(c, "wait_cs")
    /\ UNCHANGED <<schedVars, switchVars, semVars, irqVars, maskVars, site, accel_lock,
                   rq_lock, lb>>

SemTake(c) ==
    /\ pc[c] = "wait_cs" /\ count[sem[c]] > 0
    /\ count' = [count EXCEPT ![sem[c]] = @ - 1]
    /\ spin_unlock(sem_lock, sem[c])
    /\ irq_restore(c)
    /\ sem' = [sem EXCEPT ![c] = NoSem]
    /\ Goto(c, "user")
    /\ UNCHANGED <<schedVars, switchVars, waiter, w, wcpu, comps, irqVars, site, accel_lock,
                   rq_lock, lb>>

(* The lock is dropped, IRQs stay masked until this task runs again. *)
SemBlock(c) ==
    /\ pc[c] = "wait_cs" /\ ~ count[sem[c]] > 0
    /\ waiter' = [waiter EXCEPT ![sem[c]] = curr[c]]
    /\ state' = [state EXCEPT ![curr[c]] = BLOCKED]
    /\ spin_unlock(sem_lock, sem[c])
    /\ sem' = [sem EXCEPT ![c] = NoSem]
    /\ CallPick(c, "sem_wait")
    /\ UNCHANGED <<tasks, current_idx, load, home, switchVars, count, w, wcpu,
                   comps, irqVars, maskVars, accel_lock, rq_lock, lb>>

(* while (current->state != 0) wfe *)
WaitLoop(c) ==
    /\ pc[c] = "wait" /\ state[curr[c]] = READY
    /\ Goto(c, "user")
    /\ UNCHANGED <<schedVars, switchVars, semVars, irqVars, maskVars, site, lockVars, lb>>

-----------------------------------------------------------------------------
(* sem_post and sched_wake, called by a task or by the dispatcher.         *)

sem_post(c, s) ==
    /\ pc[c] = "user" /\ <<run[c], s>> \in Posts /\ count[s] < MaxCount
    /\ irq_disable_save(c)
    /\ sem' = [sem EXCEPT ![c] = s]
    /\ Goto(c, "post_lock")
    /\ UNCHANGED <<schedVars, switchVars, count, waiter, w, wcpu, comps, irqVars, site,
                   lockVars, lb>>

SemPostLock(c) ==
    /\ pc[c] = "post_lock"
    /\ spin_lock(sem_lock, sem[c], c)
    /\ Goto(c, "post_cs")
    /\ UNCHANGED <<schedVars, switchVars, semVars, irqVars, maskVars, site, accel_lock,
                   rq_lock, lb>>

PostCount(c) ==
    /\ pc[c] = "post_cs" /\ waiter[sem[c]] = NoTask
    /\ count' = [count EXCEPT ![sem[c]] = @ + 1]
    /\ Goto(c, "post_unlock")
    /\ UNCHANGED <<schedVars, switchVars, waiter, sem, w, wcpu, comps, irqVars, maskVars,
                   site, lockVars, lb>>

(* sched_wake reads t->cpu before it takes that queue's lock. *)
PostWaiter(c) ==
    /\ pc[c] = "post_cs" /\ waiter[sem[c]] # NoTask
    /\ w' = [w EXCEPT ![c] = waiter[sem[c]]]
    /\ wcpu' = [wcpu EXCEPT ![c] = home[waiter[sem[c]]]]
    /\ waiter' = [waiter EXCEPT ![sem[c]] = NoTask]
    /\ Goto(c, "wake_lock")
    /\ UNCHANGED <<schedVars, switchVars, count, sem, comps, irqVars, maskVars, site,
                   lockVars, lb>>

WakeLock(c) ==
    /\ pc[c] = "wake_lock"
    /\ spin_lock(rq_lock, wcpu[c], c)
    /\ Goto(c, "wake_cs")
    /\ UNCHANGED <<schedVars, switchVars, semVars, irqVars, maskVars, site, accel_lock,
                   sem_lock, lb>>

sched_wake(c) ==
    /\ pc[c] = "wake_cs"
    /\ state' = [state EXCEPT ![w[c]] = READY]
    /\ spin_unlock(rq_lock, wcpu[c])
    /\ w' = [w EXCEPT ![c] = NoTask]
    /\ wcpu' = [wcpu EXCEPT ![c] = NoCpu]
    /\ Goto(c, "post_unlock")
    /\ UNCHANGED <<tasks, current_idx, load, home, switchVars, count, waiter, sem,
                   comps, irqVars, maskVars, site, accel_lock, sem_lock, lb>>

(* The dispatcher calls sem_post with accel_lock held and IRQs masked.     *)
SemPostUnlock(c) ==
    /\ pc[c] = "post_unlock"
    /\ spin_unlock(sem_lock, sem[c])
    /\ sem' = [sem EXCEPT ![c] = NoSem]
    /\ IF accel_lock = c
       THEN Goto(c, "disp_cs") /\ UNCHANGED maskVars
       ELSE irq_restore(c) /\ Goto(c, "user")
    /\ UNCHANGED <<schedVars, switchVars, count, waiter, w, wcpu, comps, irqVars, site,
                   accel_lock, rq_lock, lb>>

-----------------------------------------------------------------------------
(* dispatch_available_completions: which completions the device has ready  *)
(* is left open.                                                           *)

PollCompletions(c) ==
    /\ pc[c] = "user" /\ run[c] \in Polls
    /\ irq_disable_save(c)
    /\ Goto(c, "disp_lock")
    /\ UNCHANGED <<schedVars, switchVars, semVars, irqVars, site, lockVars, lb>>

(* accel_drain_completions_multi returns up to NUM_WORKERS completions. *)
DispatchLock(c) ==
    /\ pc[c] = "disp_lock"
    /\ accel_lock = NoCpu /\ accel_lock' = c
    /\ \E n \in 0..NUM_WORKERS : comps' = [comps EXCEPT ![c] = n]
    /\ Goto(c, "disp_cs")
    /\ UNCHANGED <<schedVars, switchVars, count, waiter, sem, w, wcpu, irqVars, maskVars,
                   site, sem_lock, rq_lock, lb>>

(* A completion that matches a pending request posts its semaphore. *)
DispatchPost(c, s) ==
    /\ pc[c] = "disp_cs" /\ comps[c] > 0 /\ count[s] < MaxCount
    /\ comps' = [comps EXCEPT ![c] = @ - 1]
    /\ sem' = [sem EXCEPT ![c] = s]
    /\ Goto(c, "post_lock")
    /\ UNCHANGED <<schedVars, switchVars, count, waiter, w, wcpu, irqVars, maskVars,
                   site, lockVars, lb>>

(* The remaining completions match nothing. *)
DispatchDone(c) ==
    /\ pc[c] = "disp_cs"
    /\ comps' = [comps EXCEPT ![c] = 0]
    /\ accel_lock' = NoCpu
    /\ irq_restore(c)
    /\ Goto(c, IF active[c] = "dma" THEN "eoi" ELSE "user")
    /\ UNCHANGED <<schedVars, switchVars, count, waiter, sem, w, wcpu, irqVars, site,
                   sem_lock, rq_lock, lb>>

-----------------------------------------------------------------------------
(* irq_el1h and irq_handler / secondary_irq                                *)

(* The hardware takes an interrupt between any two instructions that run   *)
(* with PSTATE.I clear; the GIC holds back a second one until EOI.         *)
TakeIrq(c, id) ==
    /\ daif[c] = "open" /\ active[c] = "none"
    /\ active' = [active EXCEPT ![c] = id]
    /\ ipc' = [ipc EXCEPT ![run[c]] = pc[c]]
    /\ daif' = [daif EXCEPT ![c] = "masked"]

(* Re-arm the timer, sched_on_tick, then pick_next_ready. *)
TimerIrq(c) ==
    /\ TakeIrq(c, "timer")
    /\ load' = [load EXCEPT ![curr[c]] = on_tick(POLICY, @)]
    /\ CallPick(c, "irq")
    /\ UNCHANGED <<tasks, current_idx, state, home, switchVars, semVars, flags, lockVars, lb>>

(* Acknowledge IRQ_DMA_DONE and dispatch, if that bit is set.  The         *)
(* dispatcher's irqsave finds IRQs already masked.                         *)
DmaIrq(c) ==
    /\ c = DMA_IRQ_CPU
    /\ TakeIrq(c, "dma")
    /\ \/ Goto(c, "disp_lock") /\ flags' = [flags EXCEPT ![run[c]] = "masked"]
       \/ Goto(c, "eoi") /\ UNCHANGED flags
    /\ UNCHANGED <<schedVars, switchVars, semVars, site, lockVars, lb>>

(* The timer handler EOIs after picking, before it switches. *)
gic_eoi(c) ==
    /\ pc[c] = "eoi"
    /\ active' = [active EXCEPT ![c] = "none"]
    /\ Goto(c, IF active[c] = "dma" THEN "eret"
               ELSE IF c = 0 /\ LOAD_BALANCE_SELFTEST THEN "lb" ELSE "picked")
    /\ UNCHANGED <<schedVars, switchVars, semVars, ipc, maskVars, site, lockVars, lb>>

(* Return from the exception; SPSR holds the unmasked PSTATE it was taken  *)
(* with.                                                                   *)
Eret(c) ==
    /\ pc[c] = "eret"
    /\ daif' = [daif EXCEPT ![c] = "open"]
    /\ Goto(c, ipc[run[c]])
    /\ ipc' = [ipc EXCEPT ![run[c]] = "user"]
    /\ UNCHANGED <<schedVars, switchVars, semVars, active, flags, site, lockVars, lb>>

-----------------------------------------------------------------------------
(* LOAD_BALANCE_SELFTEST: CPU 0's timer handler runs a balancing pass      *)
(* every LB_PERIOD ticks, between EOI and the switch.  lb.src is           *)
(* sched_migrate's src_cpu.                                                *)

LbGoto(l, lbNew) ==
    /\ Goto(0, l) /\ lb' = lbNew
    /\ UNCHANGED <<switchVars, semVars, irqVars, maskVars, site, accel_lock, sem_lock>>

LbDone == [NoLb EXCEPT !.tick = lb.tick]

(* The throttle, then the unlocked scan of num_tasks over CPUs 1 and up. *)
LbTick ==
    LET cpus == 1..(SMP_ONLINE - 1)
        n == [d \in cpus |-> Len(tasks[d])]
        b == Busiest(n, cpus)
        i == Idlest(n, cpus)
    IN  /\ pc[0] = "lb"
        /\ IF lb.tick + 1 < LB_PERIOD
           THEN LbGoto("picked", [lb EXCEPT !.tick = @ + 1])
           ELSE IF cpus = {}
           THEN LbGoto("picked", NoLb)
           ELSE IF n[b] - n[i] < 2
           THEN LbGoto("picked", NoLb)
           ELSE LbGoto("lb_lock", [NoLb EXCEPT !.busiest = b, !.idlest = i])
        /\ UNCHANGED <<schedVars, rq_lock>>

LbLock ==
    /\ pc[0] = "lb_lock"
    /\ spin_lock(rq_lock, lb.busiest, 0)
    /\ LbGoto("lb_scan", lb)
    /\ UNCHANGED schedVars

(* One iteration of the victim scan; the queue is locked, but curr of the  *)
(* other CPU is not protected by that lock.                                *)
LbScan ==
    LET q == tasks[lb.busiest]
        t == q[lb.i + 1]
    IN  /\ pc[0] = "lb_scan"
        /\ IF lb.i >= Len(q)
           THEN LbGoto("picked", LbDone) /\ spin_unlock(rq_lock, lb.busiest)
           ELSE IF state[t] = READY /\ t # curr[lb.busiest] /\ t \notin Pinned
           THEN /\ LbGoto("migrate", [lb EXCEPT !.victim = t, !.src = home[t]])
                /\ spin_unlock(rq_lock, lb.busiest)
           ELSE LbGoto("lb_scan", [lb EXCEPT !.i = @ + 1]) /\ UNCHANGED rq_lock
        /\ UNCHANGED schedVars

MigrateLockLo ==
    /\ pc[0] = "migrate"
    /\ IF lb.idlest \in {lb.src, 0}
       THEN LbGoto("picked", LbDone) /\ UNCHANGED rq_lock
       ELSE spin_lock(rq_lock, Min({lb.src, lb.idlest}), 0) /\ LbGoto("mig_hi", lb)
    /\ UNCHANGED schedVars

MigrateLockHi ==
    /\ pc[0] = "mig_hi"
    /\ spin_lock(rq_lock, Max({lb.src, lb.idlest}), 0)
    /\ LbGoto("mig_check", lb)
    /\ UNCHANGED schedVars

MigrateCheck ==
    /\ pc[0] = "mig_check"
    /\ LbGoto(IF /\ state[lb.victim] = READY
                 /\ lb.victim # curr[lb.src]
                 /\ lb.victim \in QueueTasks(tasks[lb.src])
                 /\ Len(tasks[lb.idlest]) < MAX_TASKS
              THEN "mig_move" ELSE "mig_unlock", lb)
    /\ UNCHANGED <<schedVars, rq_lock>>

sched_migrate ==
    /\ pc[0] = "mig_move"
    /\ tasks' = [tasks EXCEPT ![lb.src] = MigrateSource(@, lb.victim),
                              ![lb.idlest] = MigrateDest(@, lb.victim)]
    /\ current_idx' = [current_idx EXCEPT ![lb.src] = MigrateSourceIdx(tasks[lb.src], @)]
    /\ home' = [home EXCEPT ![lb.victim] = lb.idlest]
    /\ LbGoto("mig_unlock", lb)
    /\ UNCHANGED <<state, load, rq_lock>>

MigrateUnlock ==
    /\ pc[0] = "mig_unlock"
    /\ rq_lock' = [rq_lock EXCEPT ![lb.src] = NoCpu, ![lb.idlest] = NoCpu]
    /\ LbGoto("picked", LbDone)
    /\ UNCHANGED schedVars

sched_load_balance_pass ==
    \/ LbTick \/ LbLock \/ LbScan
    \/ MigrateLockLo \/ MigrateLockHi \/ MigrateCheck \/ sched_migrate \/ MigrateUnlock

-----------------------------------------------------------------------------
(* The steps CPU c takes on its own, the calls its task may make, and the  *)
(* interrupts it may be given.                                             *)

Acquire(c) ==
    PickLock(c) \/ SemWaitLock(c) \/ SemPostLock(c) \/ WakeLock(c) \/ DispatchLock(c)

KernelStep(c) ==
    \/ pick_next_ready(c) \/ SetCurrent(c) \/ KeepCurrent(c) \/ switch_to(c) \/ Restore(c)
    \/ SemTake(c) \/ SemBlock(c) \/ WaitLoop(c)
    \/ PostCount(c) \/ PostWaiter(c) \/ sched_wake(c) \/ SemPostUnlock(c)
    \/ \E s \in DmaSems : DispatchPost(c, s)
    \/ DispatchDone(c)
    \/ gic_eoi(c) \/ Eret(c)

Call(c) ==
    \/ yield(c) \/ PollCompletions(c)
    \/ \E s \in Sem : sem_wait(c, s) \/ sem_post(c, s)

Irq(c) == TimerIrq(c) \/ DmaIrq(c)

Next ==
    \/ \E c \in CPU : Acquire(c) \/ KernelStep(c) \/ Call(c) \/ Irq(c)
    \/ LOAD_BALANCE_SELFTEST /\ sched_load_balance_pass

Spec == Init /\ [][Next]_vars

(* CPUs keep executing; a CPU that spins for a lock which is released over *)
(* and over gets it at some point (the exclusive monitor is not ticketed,  *)
(* so this is an assumption on the hardware); and interrupts leave the wfe *)
(* loop the time for an iteration now and then.  Tasks need not call       *)
(* anything, and no interrupt need arrive.                                 *)
Fairness ==
    /\ \A c \in CPU : WF_vars(KernelStep(c)) /\ SF_vars(WaitLoop(c)) /\ SF_vars(Acquire(c))
    /\ LOAD_BALANCE_SELFTEST => SF_vars(sched_load_balance_pass)

FairSpec == Spec /\ Fairness

(* The re-armed timer fires, and its interrupt stays pending until the CPU *)
(* opens IRQs.  Not part of FairSpec: worker_entry warns that "the timer's *)
(* own interrupt can silently stop being redelivered".                     *)
TimerDelivered == \A c \in CPU : SF_vars(TimerIrq(c))

-----------------------------------------------------------------------------
PCs == {"user", "wait", "pick_lock", "pick_cs", "picked", "switch", "restore",
        "wait_lock", "wait_cs", "post_lock", "post_cs", "wake_lock", "wake_cs",
        "post_unlock", "disp_lock", "disp_cs", "eoi", "eret", "corrupt",
        "lb", "lb_lock", "lb_scan", "migrate", "mig_hi", "mig_check", "mig_move",
        "mig_unlock"}

(* Every variable has its type. *)
TypeOK ==
    /\ pc \in [CPU -> PCs]
    /\ run \in [CPU -> Task] /\ curr \in [CPU -> Task]
    /\ daif \in [CPU -> {"open", "masked"}]
    /\ active \in [CPU -> {"none", "timer", "dma"}]
    /\ site \in [CPU -> Sites \cup {"none"}]
    /\ next \in [CPU -> Task \cup {NoTask}] /\ prev \in [CPU -> Task \cup {NoTask}]
    /\ sem \in [CPU -> Sem \cup {NoSem}]
    /\ w \in [CPU -> Task \cup {NoTask}] /\ wcpu \in [CPU -> CPU \cup {NoCpu}]
    /\ comps \in [CPU -> 0..NUM_WORKERS]
    /\ state \in [Task -> {READY, BLOCKED}]
    /\ load \in [Task -> 0..EWMA_SCALE]
    /\ home \in [Task -> CPU]
    /\ sp \in [Task -> Frame \cup {Popped}]
    /\ flags \in [Task -> {"open", "masked"}]
    /\ ipc \in [Task -> {"user", "wait"}]
    /\ tasks \in [CPU -> Seq(Task)]
    /\ current_idx \in [CPU -> 0..(MAX_TASKS - 1)]
    /\ accel_lock \in CPU \cup {NoCpu}
    /\ sem_lock \in [Sem -> CPU \cup {NoCpu}]
    /\ rq_lock \in [CPU -> CPU \cup {NoCpu}]
    /\ count \in [Sem -> Nat]
    /\ waiter \in [Sem -> Task \cup {NoTask}]
    /\ lb \in [tick : 0..(LB_PERIOD - 1), busiest : CPU, idlest : CPU, i : 0..MAX_TASKS,
               victim : Task \cup {NoTask}, src : CPU]

(* A task's stack is in use on at most one CPU; a task that is not running *)
(* has its own stack's frame in tcb_t.sp, and switch_to never pops a frame *)
(* twice (yield, sem_wait and irq_handler's current = next; switch_to).    *)
StackIntegrity ==
    /\ \A c, d \in CPU : run[c] = run[d] => c = d
    /\ \A t \in Task : IF \E c \in CPU : run[c] = t
                       THEN sp[t] = Popped
                       ELSE sp[t].stack = t
    /\ \A c \in CPU : pc[c] # "corrupt"

HoldsNoLock(c) ==
    /\ accel_lock # c
    /\ \A s \in Sem : sem_lock[s] # c
    /\ \A d \in CPU : rq_lock[d] # c

(* IRQs are open exactly in task code and in the wfe loop, and whenever    *)
(* they are open an interrupt handler finds current to be the running      *)
(* stack, no interrupt still active in the GIC, and no spinlock held by    *)
(* this CPU (the DAIF word that switch_to, irq_restore and eret hand on).  *)
IrqWindow ==
    \A c \in CPU :
        /\ daif[c] = "open" <=> pc[c] \in {"user", "wait"}
        /\ daif[c] = "open" => /\ curr[c] = run[c]
                               /\ active[c] = "none"
                               /\ HoldsNoLock(c)

(* A BLOCKED task is always somebody's to wake: it is the registered       *)
(* waiter of a semaphore, or a sem_post that took it from there has not    *)
(* finished sched_wake.  No task that is READY is in either place.         *)
NoLostWakeup ==
    \A t \in Task : state[t] = BLOCKED <=> \/ \E s \in Sem : waiter[s] = t
                                           \/ \E c \in CPU : w[c] = t

(* A semaphore that has tokens has no sleeper (sem_wait and sem_post look  *)
(* at count and waiter in one critical section).                           *)
NoSleeperWithTokens ==
    \A s \in Sem : count[s] > 0 => waiter[s] = NoTask

(* Task code runs only in READY tasks: sem_wait returns to its caller only *)
(* after the task was made READY again.                                    *)
TaskCodeIsReady ==
    \A c \in CPU : pc[c] = "user" => state[run[c]] = READY

(* CPU c spins for a lock that d holds. *)
SpinsOn(c, d) ==
    \/ pc[c] = "pick_lock" /\ rq_lock[c] = d
    \/ pc[c] \in {"wait_lock", "post_lock"} /\ sem_lock[sem[c]] = d
    \/ pc[c] = "wake_lock" /\ rq_lock[wcpu[c]] = d
    \/ pc[c] = "disp_lock" /\ accel_lock = d
    \/ pc[c] = "lb_lock" /\ rq_lock[lb.busiest] = d
    \/ pc[c] = "migrate" /\ lb.idlest \notin {lb.src, 0}
                         /\ rq_lock[Min({lb.src, lb.idlest})] = d
    \/ pc[c] = "mig_hi" /\ rq_lock[Max({lb.src, lb.idlest})] = d

(* No set of CPUs spins in a circle for locks held among themselves, a     *)
(* single CPU that spins for its own lock included (accel_lock, then a     *)
(* semaphore's lock, then run queue locks by ascending CPU id).            *)
NoDeadlock ==
    \A S \in SUBSET CPU :
        S # {} => \E c \in S : \A d \in S : ~ SpinsOn(c, d)

(* sched_wake locks the right queue: the home CPU it read is still the     *)
(* home of the task it wakes ("home-CPU-never-changes").                   *)
WakeLocksHome ==
    \A c \in CPU : w[c] # NoTask => home[w[c]] = wcpu[c]

(* Every task is in exactly one queue, once, namely its home CPU's, and    *)
(* current_idx stays inside the queue.                                     *)
QueuesPartitionTasks ==
    /\ \A t \in Task, c \in CPU :
          Cardinality({i \in 1..Len(tasks[c]) : tasks[c][i] = t}) =
              IF home[t] = c THEN 1 ELSE 0
    /\ \A c \in CPU : current_idx[c] < Len(tasks[c]) /\ Len(tasks[c]) <= MAX_TASKS

(* A CPU is only ever handed to a READY task ("a task that's BLOCKED is    *)
(* never handed the CPU by either mechanism").                             *)
BlockedNeverHandedCpu ==
    [][\A c \in CPU : run'[c] # run[c] => state[run'[c]] = READY]_vars

(* load_aware_select_next would rather run another task of t's queue. *)
Outweighed(t) ==
    /\ POLICY = "load_aware"
    /\ \E u \in QueueTasks(tasks[home[t]]) : state[u] = READY /\ load[u] < load[t]

(* A READY task that waits for a CPU gets one, whatever the others do, or  *)
(* lighter tasks keep coming up in its queue: loads never decay, so        *)
(* load_aware promises no more, and the other two policies starve nobody   *)
(* (yield, sem_wait and the timer all go through the active policy).       *)
ReadyTaskRuns ==
    TimerDelivered =>
        \A t \in Task : (state[t] = READY /\ sp[t] # Popped)
                            ~> (Outweighed(t) \/ \E c \in CPU : run[c] = t /\ pc[c] = "user")

(* Every IRQ-masked section ends: interrupts are never locked out for good.*)
IrqsReopen ==
    \A c \in CPU : daif[c] = "masked" ~> daif[c] = "open"
=============================================================================
