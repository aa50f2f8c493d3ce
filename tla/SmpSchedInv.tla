---------------------------- MODULE SmpSchedInv -----------------------------
(***************************************************************************)
(* The inductive invariants of the kernel: QueueInv, which holds whatever  *)
(* happens, and IInv, which the load balancing build keeps as long as the  *)
(* migration race has not struck.  SmpSchedProofs proves them; TLC checks  *)
(* them on small instances first.                                          *)
(***************************************************************************)
EXTENDS SmpSched

LbPCs == {"lb", "lb_lock", "lb_scan", "migrate", "mig_hi", "mig_check", "mig_move",
          "mig_unlock"}
PickPCs == {"pick_lock", "pick_cs", "picked", "switch"} \cup LbPCs
WaitPCs == {"wait_lock", "wait_cs"}
PostPCs == {"post_lock", "post_cs", "wake_lock", "wake_cs", "post_unlock"}
DispPCs == {"disp_lock", "disp_cs"}
WakePCs == {"wake_lock", "wake_cs"}
SemHeldPCs == {"wait_cs", "post_cs", "wake_lock", "wake_cs", "post_unlock"}

(* Task t has somewhere to go back to in sem_wait: it may be BLOCKED. *)
InSemWait(t) ==
    LET c == home[t]
    IN  IF run[c] = t
        THEN \/ pc[c] = "wait"
             \/ pc[c] \in PickPCs /\ site[c] = "sem_wait"
             \/ ipc[t] = "wait"
        ELSE \/ sp[t].at = "sem_wait"
             \/ ipc[t] = "wait"

(* A CPU runs, has picked and is about to run tasks that are at home on it. *)
HomeInv ==
    /\ \A c \in CPU : home[run[c]] = c /\ home[curr[c]] = c
    /\ \A c \in CPU : next[c] # NoTask => home[next[c]] = c
    /\ WakeLocksHome

(* Where each CPU can be, and that IRQs are open only in task code. *)
PcAt(c) ==
    /\ pc[c] \in {"user", "wait", "eoi", "eret", "restore"}
                   \cup PickPCs \cup WaitPCs \cup PostPCs \cup DispPCs
    /\ daif[c] = "open" <=> pc[c] \in {"user", "wait"}

(* Which handler a pick or an EOI belongs to. *)
SiteAt(c) ==
    /\ site[c] # "none" <=> pc[c] \in PickPCs \/ (pc[c] = "eoi" /\ active[c] = "timer")
    /\ active[c] = "timer" <=> site[c] = "irq" /\ pc[c] \in {"pick_lock", "pick_cs", "eoi"}
    /\ active[c] = "dma" => pc[c] \in DispPCs \cup PostPCs \cup {"eoi"}
    /\ pc[c] = "eoi" => active[c] # "none"
    /\ pc[c] \in LbPCs => c = 0 /\ site[c] = "irq" /\ LOAD_BALANCE_SELFTEST

(* current, next and prev, around the switch. *)
SwitchAt(c) ==
    /\ next[c] # NoTask <=> \/ pc[c] \in {"picked", "switch"} \cup LbPCs
                            \/ pc[c] = "eoi" /\ active[c] = "timer"
    /\ prev[c] = IF pc[c] = "switch" THEN run[c] ELSE NoTask
    /\ curr[c] = IF pc[c] = "switch" THEN next[c] ELSE run[c]
    /\ pc[c] = "switch" => next[c] # run[c]

(* The locals of sem_wait, sem_post and sched_wake. *)
SemAt(c) ==
    /\ sem[c] # NoSem <=> pc[c] \in WaitPCs \cup PostPCs
    /\ pc[c] \in WaitPCs => <<run[c], sem[c]>> \in Waits
    /\ w[c] # NoTask <=> pc[c] \in WakePCs
    /\ wcpu[c] # NoCpu <=> pc[c] \in WakePCs

(* What the running task's stack holds: flags is masked only for a           *)
(* dispatcher called by an interrupt handler, and only a handler can have  *)
(* interrupted the wfe loop.                                               *)
StackAt(c) ==
    /\ flags[run[c]] = "masked" <=> active[c] = "dma" /\ pc[c] \in DispPCs \cup PostPCs
    /\ ipc[run[c]] = "wait" => \/ active[c] # "none"
                               \/ pc[c] = "eret"
                               \/ pc[c] \in PickPCs /\ site[c] = "irq"

ControlInv == \A c \in CPU : PcAt(c) /\ SiteAt(c) /\ SwitchAt(c) /\ SemAt(c) /\ StackAt(c)

(* The frames of the tasks that are not running. *)
FrameInv ==
    \A t \in Task :
        IF run[home[t]] = t
        THEN sp[t] = Popped
        ELSE /\ sp[t] # Popped
             /\ sp[t].stack = t
             /\ sp[t].daif = "open" <=> sp[t].at = "start"
             /\ flags[t] = "open"
             /\ ipc[t] = "wait" => sp[t].at = "irq"

(* CPU c is where it holds the lock of CPU d's run queue. *)
HoldsRq(c, d) ==
    \/ pc[c] = "pick_cs" /\ d = c
    \/ pc[c] = "wake_cs" /\ d = wcpu[c]
    \/ pc[c] = "lb_scan" /\ d = lb.busiest
    \/ pc[c] = "mig_hi" /\ d = Min({lb.src, lb.idlest})
    \/ pc[c] \in {"mig_check", "mig_move", "mig_unlock"} /\ d \in {lb.src, lb.idlest}

(* Who holds each lock.  accel_lock is also held across sem_post. *)
RqLockAt(c) == \A d \in CPU : rq_lock[d] = c <=> HoldsRq(c, d)

SemLockAt(c) ==
    \A s \in Sem : sem_lock[s] = c <=> pc[c] \in SemHeldPCs /\ s = sem[c]

AccelLockAt(c) ==
    /\ accel_lock = c => pc[c] \in PostPCs \cup {"disp_cs"}
    /\ pc[c] = "disp_cs" => accel_lock = c
    /\ pc[c] \in PostPCs /\ active[c] = "dma" => accel_lock = c

LockInv == \A c \in CPU : RqLockAt(c) /\ SemLockAt(c) /\ AccelLockAt(c)

(* Who sleeps, who is to wake it, and who may have been handed a CPU. *)
SleepersInSemWait == \A t \in Task : state[t] = BLOCKED => InSemWait(t)

WaitersSleep ==
    \A s \in Sem : waiter[s] # NoTask => /\ <<waiter[s], s>> \in Waits
                                         /\ state[waiter[s]] = BLOCKED

WokenSleep == \A c \in CPU : w[c] # NoTask => state[w[c]] = BLOCKED

SleepersWakeable ==
    \A t \in Task : state[t] = BLOCKED => \/ \E s \in Sem : waiter[s] = t
                                          \/ \E c \in CPU : w[c] = t

WaitersDistinct == \A r, s \in Sem : waiter[r] = waiter[s] /\ waiter[r] # NoTask => r = s

WokenDistinct == \A c, d \in CPU : w[c] = w[d] /\ w[c] # NoTask => c = d

WokenNotWaiting == \A c \in CPU, s \in Sem : w[c] = waiter[s] => w[c] = NoTask

PickedReady == \A c \in CPU : next[c] # NoTask /\ next[c] # run[c] => state[next[c]] = READY

(* The task being moved has not gone to sleep since it was checked. *)
VictimReady == pc[0] = "mig_move" => state[lb.victim] = READY

SleepInv ==
    /\ SleepersInSemWait /\ SleepersWakeable /\ WaitersSleep /\ WokenSleep
    /\ WaitersDistinct /\ WokenDistinct /\ WokenNotWaiting /\ PickedReady
    /\ VictimReady

(* Every step preserves it that is not a migration in the race below (see  *)
(* SmpSchedProofs for how StackIntegrity, IrqWindow, NoLostWakeup...       *)
(* follow from it).                                                        *)
IInv == HomeInv /\ ControlInv /\ FrameInv /\ LockInv /\ SleepInv

(* The balancer has passed its check for a task that the CPU it takes it   *)
(* from has already picked, or whose stack that CPU is still on.           *)
LbRace ==
    /\ pc[0] = "mig_move"
    /\ \E c \in CPU : lb.victim \in {next[c], run[c]}
NoLbRace == ~LbRace

-----------------------------------------------------------------------------
(* Where the queues stand, in every build and past the race too.           *)

(* Each task is in one queue, that of its home CPU, at one place in it, and *)
(* current_idx is inside the queue.                                        *)
Queued ==
    /\ \A c \in CPU : \A i, j \in 1..Len(tasks[c]) : tasks[c][i] = tasks[c][j] => i = j
    /\ \A c \in CPU : \A i \in 1..Len(tasks[c]) : home[tasks[c][i]] = c
    /\ \A t \in Task : t \in QueueTasks(tasks[home[t]])
    /\ \A c \in CPU : current_idx[c] < Len(tasks[c]) /\ Len(tasks[c]) <= MAX_TASKS

(* What the balancing pass knows as it goes: nobody but CPU 0 changes a    *)
(* queue, so what it saw of num_tasks and of the victim's home stays true. *)
Balancing ==
    /\ pc[0] \in LbPCs \ {"lb"} => lb.busiest # lb.idlest
    /\ pc[0] \in LbPCs \ {"lb", "mig_unlock"} =>
          Len(tasks[lb.busiest]) >= Len(tasks[lb.idlest]) + 2
    /\ pc[0] \in {"migrate", "mig_hi", "mig_check", "mig_move", "mig_unlock"} =>
          lb.src = lb.busiest /\ lb.victim \in Task
    /\ pc[0] \in {"migrate", "mig_hi", "mig_check", "mig_move"} => home[lb.victim] = lb.src
    /\ pc[0] = "mig_move" => Len(tasks[lb.idlest]) < MAX_TASKS

(* Why nothing else gets CPU 0 into the balancing pass, or interrupts it:  *)
(* IRQs stay masked from the timer interrupt on, and an interrupt returns  *)
(* to a place where they were open.                                        *)
OpenPCs == {"user", "wait", "eret", "restore"}

TickAt(c) ==
    /\ pc[c] \notin OpenPCs \cup {"eoi"} => daif[c] = "masked"
    /\ pc[c] = "eoi" => active[c] # "none"
    /\ active[c] = "timer" => daif[c] = "masked" /\ pc[c] \in {"pick_lock", "pick_cs", "eoi"}
    /\ pc[c] \in {"pick_lock", "pick_cs"} /\ site[c] = "irq" => active[c] = "timer"
    /\ pc[c] \in PickPCs => site[c] \in Sites
    /\ active[c] = "timer" => site[c] = "irq"
    /\ (\/ pc[c] \in {"picked", "switch"} \cup LbPCs
        \/ pc[c] = "eoi" /\ active[c] = "timer") => next[c] \in Task

(* The types that remain whatever the race has done to stacks and frames.  *)
QueueTypes ==
    /\ pc \in [CPU -> PCs]
    /\ run \in [CPU -> Task] /\ curr \in [CPU -> Task]
    /\ daif \in [CPU -> {"open", "masked"}]
    /\ active \in [CPU -> {"none", "timer", "dma"}]
    /\ site \in [CPU -> Sites \cup {"none"}]
    /\ next \in [CPU -> Task \cup {NoTask}]
    /\ home \in [Task -> CPU]
    /\ sp \in [Task -> Frame \cup {Popped}]
    /\ flags \in [Task -> {"open", "masked"}]
    /\ ipc \in [Task -> OpenPCs]
    /\ tasks \in [CPU -> Seq(Task)]
    /\ current_idx \in [CPU -> 0..(MAX_TASKS - 1)]
    /\ lb \in [tick : 0..(LB_PERIOD - 1), busiest : CPU, idlest : CPU, i : 0..MAX_TASKS,
               victim : Task \cup {NoTask}, src : CPU]

QueueInv == QueueTypes /\ Queued /\ Balancing /\ \A c \in CPU : TickAt(c)

-----------------------------------------------------------------------------
(* sem_wait and sem_post as their callers see them (Semaphore): a task     *)
(* asks from its call until a post takes it out of waiter or it takes a    *)
(* permit itself, and after a handover it is granted until it runs again.  *)

AsksFor(t, s) ==
    \/ waiter[s] = t /\ InSemWait(t)
    \/ \E c \in CPU : run[c] = t /\ pc[c] \in WaitPCs /\ sem[c] = s

Asking == {p \in Task \X Sem : AsksFor(p[1], p[2])}

Granted == {t \in Task : InSemWait(t) /\ \A s \in Sem : waiter[s] # t}

SM == INSTANCE Semaphore WITH value <- count, asking <- Asking, granted <- Granted

(* Every step of the kernel is one of the semaphores' abstract steps or    *)
(* leaves them alone: no permit is lost, made up or given out twice, and   *)
(* no sem_wait gets by without one, whatever the run queues, interrupts    *)
(* and other CPUs do in between (sem_wait, sem_post, sched_wake,           *)
(* block_current_and_switch).                                              *)
SemaphoreAtomic == SM!Spec

(* A permit is not left lying while a task asks for it; and a task that    *)
(* was handed one gets back onto a CPU, out of the wfe loop or after it    *)
(* was switched away, unless lighter tasks of its queue keep coming up     *)
(* (sem_post, sched_wake, block_current_and_switch).                       *)
SemaphoreServes ==
    /\ SM!PermitsTaken
    /\ TimerDelivered => \A t \in Task : (t \in Granted) ~> (t \notin Granted \/ Outweighed(t))
=============================================================================
