-------------------------- MODULE SmpSchedSemSteps --------------------------
(***************************************************************************)
(* The semaphore operations and the completion dispatcher: how the state   *)
(* of sem_wait and sem_post maps to that of Semaphore, step by step, and   *)
(* that their steps preserve the inductive invariant.                      *)
(***************************************************************************)
EXTENDS SmpSchedSteps

USE CpuAssumption, NullAssumption

-----------------------------------------------------------------------------
(* sem_wait and sem_post implement Semaphore for any number of CPUs, tasks *)
(* and semaphores: from the inductive invariant of SmpSchedInv, every step *)
(* of the kernel is a step of Semaphore or leaves its state alone.         *)

(* InSemWait, for the task that CPU c runs. *)
HereSemWait(c) ==
    \/ pc[c] = "wait"
    \/ pc[c] \in PickPCs /\ site[c] = "sem_wait"
    \/ ipc[run[c]] = "wait"

InLoop(t, s) == \E c \in CPU : run[c] = t /\ pc[c] \in WaitPCs /\ sem[c] = s

(* A registered waiter is in sem_wait, so it asks. *)
LEMMA AskingIs ==
    TypeOK /\ IInv =>
        /\ \A c \in CPU : InSemWait(run[c]) <=> HereSemWait(c)
        /\ \A t \in Task, s \in Sem : AsksFor(t, s) <=> waiter[s] = t \/ InLoop(t, s)
<1> SUFFICES ASSUME TypeOK, IInv
             PROVE  /\ \A c \in CPU : InSemWait(run[c]) <=> HereSemWait(c)
                    /\ \A t \in Task, s \in Sem : AsksFor(t, s) <=> waiter[s] = t \/ InLoop(t, s)
  OBVIOUS
<1>1. ASSUME NEW c \in CPU PROVE InSemWait(run[c]) <=> HereSemWait(c)
  <2>1. home[run[c]] = c
    BY Zenon DEF IInv, HomeInv
  <2> QED BY <2>1, Zenon DEF InSemWait, HereSemWait
<1>2. ASSUME NEW t \in Task, NEW s \in Sem
      PROVE  AsksFor(t, s) <=> waiter[s] = t \/ InLoop(t, s)
  <2>1. waiter[s] = t => InSemWait(t)
    BY NullAssumption, Zenon DEF IInv, SleepInv, WaitersSleep, SleepersInSemWait
  <2> QED BY <2>1, Zenon DEF AsksFor, InLoop
<1> QED BY <1>1, <1>2, Zenon

(* The same after a step. *)
LEMMA AskingIsNext ==
    TypeOK' /\ IInv' =>
        /\ \A c \in CPU : InSemWait(run[c])' <=> HereSemWait(c)'
        /\ \A t \in Task, s \in Sem : AsksFor(t, s)' <=> waiter'[s] = t \/ InLoop(t, s)'
<1>1. TypeOK' /\ IInv' =>
        (/\ \A c \in CPU : InSemWait(run[c]) <=> HereSemWait(c)
         /\ \A t \in Task, s \in Sem : AsksFor(t, s) <=> waiter[s] = t \/ InLoop(t, s))'
  BY AskingIs, PTL
<1> QED BY <1>1, Zenon

-----------------------------------------------------------------------------
(* A step of CPU c, other than switch_to, moves no other CPU and no other  *)
(* task into or out of sem_wait.                                           *)
Others(c) ==
    /\ UNCHANGED <<home, run, sp>>
    /\ \A d \in CPU \ {c} : pc'[d] = pc[d] /\ site'[d] = site[d] /\ sem'[d] = sem[d]
    /\ \A t \in Task \ {run[c]} : ipc'[t] = ipc[t]

(* What such a step leaves alone. *)
LEMMA OthersKept ==
    ASSUME TypeOK, IInv, NEW c \in CPU, Others(c)
    PROVE  /\ \A t \in Task \ {run[c]} : InSemWait(t)' <=> InSemWait(t)
           /\ \A t \in Task \ {run[c]}, s \in Sem : InLoop(t, s)' <=> InLoop(t, s)
<1>1. ASSUME NEW t \in Task, t # run[c] PROVE InSemWait(t)' <=> InSemWait(t)
  <2>1. home[t] \in CPU /\ home' = home /\ run' = run /\ sp' = sp /\ ipc'[t] = ipc[t]
    BY <1>1, Types, Zenon DEF Others, TaskTypes
  <2>2. CASE run[home[t]] = t
    <3>1. home[t] # c
      BY <1>1, <2>2, Zenon
    <3>2. pc'[home[t]] = pc[home[t]] /\ site'[home[t]] = site[home[t]]
      BY <2>1, <3>1, Zenon DEF Others
    <3> QED BY <2>1, <2>2, <3>2, Zenon DEF InSemWait
  <2>3. CASE run[home[t]] # t
    BY <2>1, <2>3, Zenon DEF InSemWait
  <2> QED BY <2>2, <2>3, Zenon
<1>2. ASSUME NEW t \in Task, t # run[c], NEW s \in Sem PROVE InLoop(t, s)' <=> InLoop(t, s)
  BY <1>2, Zenon DEF Others, InLoop
<1> QED BY <1>1, <1>2, Zenon

(* Only CPU c runs run[c]. *)
LEMMA LoopHere ==
    ASSUME TypeOK, IInv, NEW c \in CPU, NEW s \in Sem
    PROVE  InLoop(run[c], s) <=> pc[c] \in WaitPCs /\ sem[c] = s
BY RunDistinct, Zenon DEF InLoop

(* The same after such a step. *)
LEMMA LoopHereNext ==
    ASSUME TypeOK, IInv, NEW c \in CPU, NEW s \in Sem, Others(c)
    PROVE  InLoop(run[c], s)' <=> pc'[c] \in WaitPCs /\ sem'[c] = s
<1>1. run' = run
  BY Zenon DEF Others
<1> QED BY <1>1, RunDistinct, Zenon DEF InLoop

(* The same for the task by its name. *)
LEMMA LoopNext ==
    ASSUME TypeOK, IInv, NEW c \in CPU, NEW s \in Sem, Others(c), NEW t, t = run[c]
    PROVE  InLoop(t, s)' <=> pc'[c] \in WaitPCs /\ sem'[c] = s
<1>1. run' = run
  BY Zenon DEF Others
<1> QED BY <1>1, RunDistinct, Zenon DEF InLoop

(* A step that leaves waiter alone and keeps the running task in or out of *)
(* sem_wait changes nobody's standing.                                     *)
LEMMA Unseen ==
    ASSUME TypeOK, IInv, TypeOK', IInv', NEW c \in CPU, Others(c), UNCHANGED waiter,
           HereSemWait(c)' <=> HereSemWait(c),
           pc'[c] \in WaitPCs <=> pc[c] \in WaitPCs,
           pc[c] \in WaitPCs => sem'[c] = sem[c]
    PROVE  Asking' = Asking /\ Granted' = Granted
<1>0. run[c] \in Task /\ run' = run
  BY Types, Zenon DEF CpuTypes, Others
<1>1. ASSUME NEW t \in Task PROVE InSemWait(t)' <=> InSemWait(t)
  <2>1. CASE t = run[c]
    <3>1. InSemWait(run[c])' <=> InSemWait(run[c])
      BY AskingIs, AskingIsNext, Zenon
    <3>2. InSemWait(t)' <=> InSemWait(run[c])'
      BY <1>0, <2>1, Zenon DEF InSemWait
    <3> QED BY <2>1, <3>1, <3>2, Zenon
  <2> QED BY <2>1, OthersKept, Zenon
<1>2. ASSUME NEW t \in Task, NEW s \in Sem PROVE AsksFor(t, s)' <=> AsksFor(t, s)
  <2>1. InLoop(t, s)' <=> InLoop(t, s)
    <3>1. CASE t = run[c]
      <4>1. InLoop(run[c], s)' <=> InLoop(run[c], s)
        BY LoopHere, LoopHereNext, Zenon
      <4>2. InLoop(t, s)' <=> InLoop(run[c], s)'
        BY <1>0, <3>1, Zenon DEF InLoop
      <4> QED BY <3>1, <4>1, <4>2, Zenon
    <3> QED BY <3>1, OthersKept, Zenon
  <2> QED BY <2>1, AskingIs, AskingIsNext, Zenon
<1>3. Asking' = Asking
  BY <1>2, Zenon DEF Asking
<1>4. Granted' = Granted
  BY <1>1, Zenon DEF Granted
<1> QED BY <1>3, <1>4, Zenon

(* With count left alone too it is no step of Semaphore. *)
LEMMA Neutral ==
    ASSUME TypeOK, IInv, TypeOK', IInv', NEW c \in CPU, Others(c), UNCHANGED <<count, waiter>>,
           HereSemWait(c)' <=> HereSemWait(c),
           pc'[c] \in WaitPCs <=> pc[c] \in WaitPCs,
           pc[c] \in WaitPCs => sem'[c] = sem[c]
    PROVE  UNCHANGED SM!vars
BY Unseen, Zenon DEF SM!vars

-----------------------------------------------------------------------------
(* The steps that Semaphore does not see.                                  *)

FnTypes ==
    /\ pc \in [CPU -> PCs] /\ site \in [CPU -> Sites \cup {"none"}]
    /\ sem \in [CPU -> Sem \cup {NoSem}] /\ ipc \in [Task -> {"user", "wait"}]
    /\ count \in [Sem -> Nat] /\ waiter \in [Sem -> Task \cup {NoTask}]
    /\ run \in [CPU -> Task] /\ sp \in [Task -> Frame \cup {Popped}]

(* The types and the invariant at the CPU that makes the step. *)
LEMMA Here ==
    ASSUME TypeOK, IInv, NEW c \in CPU
    PROVE  FnTypes /\ CpuControl(c) /\ CpuTypes(c) /\ TaskTypes(run[c])
BY AtCpu, Types, Zenon DEF TypeOK, FnTypes, CpuTypes

(* Picking, and keeping the current task. *)
LEMMA PickNeutral ==
    ASSUME TypeOK, IInv, TypeOK', IInv', NEW c \in CPU,
           PickLock(c) \/ pick_next_ready(c) \/ SetCurrent(c) \/ KeepCurrent(c) \/ gic_eoi(c)
    PROVE  UNCHANGED SM!vars
<1>0. FnTypes /\ CpuControl(c) /\ CpuTypes(c)
  BY Here, Zenon
<1>1. Others(c) /\ UNCHANGED <<count, waiter, sem, ipc>>
  BY <1>0, Zenon DEF FnTypes, Others, PickLock, pick_next_ready, SetCurrent, KeepCurrent,
       gic_eoi,
       Goto, schedVars, switchVars, semVars, irqVars
<1>2. pc[c] \notin WaitPCs /\ pc'[c] \notin WaitPCs
  BY <1>0, Zenon DEF FnTypes, WaitPCs, PickLock, pick_next_ready, SetCurrent,
       KeepCurrent, gic_eoi, Goto
<1>3. HereSemWait(c)' <=> HereSemWait(c)
  <2>1. run' = run /\ ipc' = ipc
    BY <1>1, Zenon DEF Others
  <2>2. CASE PickLock(c) \/ SetCurrent(c)
    BY <1>0, <2>1, <2>2, Zenon DEF FnTypes, PickLock, SetCurrent, Goto, HereSemWait,
         PickPCs, LbPCs
  <2>3. CASE pick_next_ready(c)
    <3>1. pc[c] = "pick_cs" /\ site' = site /\ pc'[c] = (IF site[c] = "irq" THEN "eoi" ELSE "picked")
      BY <1>0, <2>3, Zenon DEF FnTypes, pick_next_ready, Goto
    <3> QED BY <2>1, <3>1, Zenon DEF HereSemWait, PickPCs, LbPCs
  <2>4. CASE KeepCurrent(c)
    <3>1. /\ pc[c] = "picked" /\ site'[c] = "none"
          /\ pc'[c] = (IF site[c] = "irq" THEN "eret" ELSE IF site[c] = "yield" THEN "user" ELSE "wait")
      BY <1>0, <2>4, Zenon DEF FnTypes, KeepCurrent, Goto
    <3>2. site[c] \in {"yield", "sem_wait", "irq"}
      BY <1>0, <3>1, Zenon DEF CpuControl, CpuTypes, SiteAt, PickPCs, LbPCs
    <3> QED BY <2>1, <3>1, <3>2, Zenon DEF HereSemWait, PickPCs, LbPCs
  <2>5. CASE gic_eoi(c)
    <3>1. pc[c] = "eoi" /\ site' = site /\ pc'[c] \in {"eret", "lb", "picked"}
          /\ (pc'[c] \in {"lb", "picked"} => active[c] # "dma")
      BY <1>0, <2>5, Zenon DEF FnTypes, gic_eoi, Goto
    <3>2. pc'[c] \in {"lb", "picked"} => site[c] = "irq"
      BY <1>0, <3>1, Zenon DEF CpuControl, CpuTypes, SiteAt
    <3> QED BY <2>1, <3>1, <3>2, Zenon DEF HereSemWait, PickPCs, LbPCs
  <2> QED BY <2>2, <2>3, <2>4, <2>5, Zenon
<1> QED BY <1>1, <1>2, <1>3, Neutral, Zenon

(* Interrupts leave the interrupted point in ipc and return to it. *)
LEMMA IrqNeutral ==
    ASSUME TypeOK, IInv, TypeOK', IInv', NEW c \in CPU, TimerIrq(c) \/ DmaIrq(c) \/ Eret(c)
    PROVE  UNCHANGED SM!vars
<1>0. FnTypes /\ CpuControl(c) /\ CpuTypes(c) /\ TaskTypes(run[c])
  BY Here, Zenon
<1>1. Others(c) /\ UNCHANGED <<count, waiter, sem, run>>
  BY <1>0, Zenon DEF FnTypes, Others, TimerIrq, DmaIrq, Eret, TakeIrq, CallPick,
       Goto, schedVars, switchVars, semVars, irqVars
<1>2. CASE TimerIrq(c) \/ DmaIrq(c)
  <2>1. daif[c] = "open" /\ active[c] = "none" /\ ipc'[run[c]] = pc[c]
    BY <1>0, <1>2, Zenon DEF FnTypes, CpuTypes, TimerIrq, DmaIrq, TakeIrq
  <2>2. pc[c] \in {"user", "wait"}
    BY <1>0, <2>1, Zenon DEF CpuControl, PcAt
  <2>3. ipc[run[c]] # "wait"
    BY <1>0, <2>1, <2>2, Zenon DEF CpuControl, StackAt, PickPCs, LbPCs
  <2>4. (pc'[c] = "pick_lock" /\ site'[c] = "irq") \/ pc'[c] \in {"disp_lock", "eoi"}
    BY <1>0, <1>2, Zenon DEF FnTypes, TimerIrq, DmaIrq, CallPick, Goto
  <2>5. HereSemWait(c)' <=> HereSemWait(c)
    BY <1>1, <2>1, <2>2, <2>3, <2>4, Zenon DEF HereSemWait, PickPCs, LbPCs
  <2>6. pc[c] \notin WaitPCs /\ pc'[c] \notin WaitPCs
    BY <2>2, <2>4, Zenon DEF WaitPCs
  <2> QED BY <1>1, <2>5, <2>6, Neutral, Zenon
<1>3. CASE Eret(c)
  <2>1. pc[c] = "eret" /\ pc'[c] = ipc[run[c]] /\ ipc'[run[c]] = "user"
    BY <1>0, <1>3, Zenon DEF FnTypes, CpuTypes, Eret, Goto
  <2>2. ipc[run[c]] \in {"user", "wait"}
    BY <1>0, Zenon DEF TaskTypes
  <2>3. HereSemWait(c)' <=> HereSemWait(c)
    BY <1>1, <2>1, <2>2, Zenon DEF HereSemWait, PickPCs, LbPCs
  <2>4. pc[c] \notin WaitPCs /\ pc'[c] \notin WaitPCs
    BY <2>1, <2>2, Zenon DEF WaitPCs
  <2> QED BY <1>1, <2>3, <2>4, Neutral, Zenon
<1> QED BY <1>2, <1>3, Zenon

(* Calls and lock acquisitions outside sem_wait's own test. *)
LEMMA CallNeutral ==
    ASSUME TypeOK, IInv, TypeOK', IInv', NEW c \in CPU,
           \/ Restore(c) \/ yield(c) \/ SemWaitLock(c) \/ SemPostLock(c) \/ WakeLock(c)
           \/ sched_wake(c) \/ SemPostUnlock(c) \/ PollCompletions(c) \/ DispatchLock(c)
           \/ DispatchDone(c)
           \/ \E s \in Sem : sem_post(c, s) \/ DispatchPost(c, s)
    PROVE  UNCHANGED SM!vars
<1>0. FnTypes /\ CpuControl(c) /\ CpuTypes(c)
  BY Here, Zenon
<1>1. Others(c) /\ UNCHANGED <<count, waiter, ipc, run>>
  BY <1>0, Zenon DEF FnTypes, Others, Restore, yield, SemWaitLock, SemPostLock, WakeLock,
       sched_wake,
       SemPostUnlock, PollCompletions, DispatchLock, DispatchDone, sem_post, DispatchPost,
       CallPick, Goto, schedVars, switchVars, semVars, irqVars
<1>2. \/ SemWaitLock(c) /\ pc[c] = "wait_lock" /\ pc'[c] = "wait_cs" /\ sem' = sem
      \/ /\ pc[c] \in {"restore", "user", "post_lock", "wake_lock", "wake_cs", "post_unlock",
                       "disp_lock", "disp_cs"}
         /\ \/ pc'[c] = "pick_lock" /\ site'[c] = "yield"
            \/ pc'[c] \in {"user", "post_lock", "post_cs", "wake_cs", "post_unlock", "disp_lock",
                           "disp_cs", "eoi"}
  BY <1>0, Zenon DEF FnTypes, Restore, yield, SemWaitLock, SemPostLock, WakeLock,
       sched_wake,
       SemPostUnlock, PollCompletions, DispatchLock, DispatchDone, sem_post, DispatchPost,
       CallPick, Goto, semVars
<1>3. HereSemWait(c)' <=> HereSemWait(c)
  BY <1>1, <1>2, Zenon DEF HereSemWait, PickPCs, LbPCs
<1> QED BY <1>1, <1>2, <1>3, Neutral, Zenon DEF WaitPCs

(* Every step of the balancing pass is one of CPU 0 in its pass. *)
LEMMA PassIs ==
    ASSUME TypeOK, sched_load_balance_pass
    PROVE  /\ pc[0] \in LbPCs
           /\ \E l \in LbPCs \cup {"picked"} : LbGoto(l, lb')
           /\ home' = home \/ sched_migrate
<1>1. CASE LbTick
  <2>1. LbGoto("picked", lb') \/ LbGoto("lb_lock", lb')
    BY <1>1, Zenon DEF LbTick, LbGoto
  <2> QED BY <1>1, <2>1, Zenon DEF LbTick, LbPCs, schedVars
<1>2. CASE LbLock \/ MigrateLockHi
  BY <1>2, Zenon DEF LbLock, MigrateLockHi, LbGoto, LbPCs, schedVars
<1>3. CASE LbScan
  BY <1>3, Zenon DEF LbScan, LbGoto, LbPCs, schedVars
<1>4. CASE MigrateLockLo
  BY <1>4, Zenon DEF MigrateLockLo, LbGoto, LbPCs, schedVars
<1>5. CASE MigrateCheck
  <2>1. LbGoto("mig_move", lb) \/ LbGoto("mig_unlock", lb)
    BY <1>5, Zenon DEF MigrateCheck
  <2> QED BY <1>5, <2>1, Zenon DEF MigrateCheck, LbGoto, LbPCs, schedVars
<1>6. CASE sched_migrate \/ MigrateUnlock
  BY <1>6, Zenon DEF sched_migrate, MigrateUnlock, LbGoto, LbPCs, schedVars
<1> QED BY <1>1, <1>2, <1>3, <1>4, <1>5, <1>6, Zenon DEF sched_load_balance_pass

(* The balancing pass: the task it moves is on no CPU, so it is in sem_wait *)
(* or not by its frame, whatever its home.                                 *)
LEMMA PassNeutral ==
    ASSUME TypeOK, IInv, NoLbRace, TypeOK', IInv', sched_load_balance_pass
    PROVE  UNCHANGED SM!vars
<1>0. 0 \in CPU /\ CpuControl(0)
  BY BootCpu, AtCpu, Zenon
<1>1. PICK l \in LbPCs \cup {"picked"} : pc[0] \in LbPCs /\ LbGoto(l, lb')
  BY PassIs, Zenon
<1>2. /\ UNCHANGED <<run, sp, count, waiter, sem, site, ipc>>
      /\ pc'[0] = l /\ \A d \in CPU \ {0} : pc'[d] = pc[d]
  <2>1. pc \in [CPU -> PCs]
    BY Zenon DEF TypeOK
  <2>2. pc' = [pc EXCEPT ![0] = l] /\ UNCHANGED <<run, sp, count, waiter, sem, site, ipc>>
    BY <1>1, Zenon DEF LbGoto, Goto, switchVars, semVars, irqVars
  <2> QED BY <1>0, <2>1, <2>2, Zenon
<1>3. site[0] = "irq"
  BY <1>0, <1>1, Zenon DEF CpuControl, SiteAt
<1>4. /\ pc[0] # "wait" /\ pc'[0] # "wait"
      /\ pc[0] \notin WaitPCs /\ pc'[0] \notin WaitPCs
  BY <1>1, <1>2, Zenon DEF LbPCs, WaitPCs
<1>5. ASSUME NEW t \in Task
      PROVE  \/ home'[t] = home[t]
             \/ run[home[t]] # t /\ run[home'[t]] # t
  <2>1. CASE home' = home
    BY <2>1, Zenon
  <2>2. CASE sched_migrate
    <3>1. /\ pc[0] = "mig_move" /\ home' = [home EXCEPT ![lb.victim] = lb.idlest]
          /\ home \in [Task -> CPU] /\ home' \in [Task -> CPU]
      BY <2>2, Zenon DEF sched_migrate, TypeOK
    <3>2. t # lb.victim => home'[t] = home[t]
      BY <3>1, Zenon
    <3>3. t = lb.victim => run[home[t]] # t /\ run[home'[t]] # t
      BY <3>1, Zenon DEF NoLbRace, LbRace
    <3> QED BY <3>2, <3>3, Zenon
  <2> QED BY <2>1, <2>2, PassIs, Zenon
<1>6. ASSUME NEW t \in Task PROVE InSemWait(t)' <=> InSemWait(t)
  <2>1. home[t] \in CPU
    BY Types, Zenon DEF TaskTypes
  <2>2. CASE run[home[t]] = t
    <3>1. home'[t] = home[t]
      BY <1>5, <2>2, Zenon
    <3>2. CASE home[t] = 0
      BY <1>2, <1>3, <1>4, <2>2, <3>1, <3>2, Zenon DEF InSemWait
    <3>3. CASE home[t] # 0
      <4>1. pc'[home[t]] = pc[home[t]]
        BY <1>2, <2>1, <3>3, Zenon
      <4> QED BY <1>2, <2>2, <3>1, <4>1, Zenon DEF InSemWait
    <3> QED BY <3>2, <3>3, Zenon
  <2>3. CASE run[home[t]] # t
    <3>1. run'[home'[t]] # t
      BY <1>2, <1>5, <2>3, Zenon
    <3> QED BY <1>2, <2>3, <3>1, Zenon DEF InSemWait
  <2> QED BY <2>2, <2>3, Zenon
<1>7. ASSUME NEW t \in Task, NEW s \in Sem PROVE AsksFor(t, s)' <=> AsksFor(t, s)
  <2>1. InLoop(t, s)' <=> InLoop(t, s)
    BY <1>2, <1>4, Zenon DEF InLoop
  <2> QED BY <1>2, <2>1, AskingIs, AskingIsNext, Zenon
<1>8. Asking' = Asking /\ Granted' = Granted
  BY <1>2, <1>6, <1>7, Zenon DEF Asking, Granted
<1> QED BY <1>2, <1>8, Zenon DEF SM!vars

-----------------------------------------------------------------------------
(* The steps that Semaphore does see.                                      *)

(* Sets of pairs are equal when they have the same pairs. *)
LEMMA SamePairs ==
    ASSUME NEW S, NEW T, NEW A \in SUBSET (S \X T), NEW B \in SUBSET (S \X T),
           \A t \in S, s \in T : <<t, s>> \in A <=> <<t, s>> \in B
    PROVE  A = B
<1>1. ASSUME NEW p \in S \X T PROVE p \in A <=> p \in B
  <2>1. p = <<p[1], p[2]>> /\ p[1] \in S /\ p[2] \in T
    OBVIOUS
  <2> QED BY <2>1, Zenon
<1> QED BY <1>1, Zenon

(* Who asks and who has been granted, element by element. *)
LEMMA Members ==
    /\ \A t \in Task, s \in Sem : <<t, s>> \in Asking <=> AsksFor(t, s)
    /\ \A t \in Task : t \in Granted <=> InSemWait(t) /\ \A s \in Sem : waiter[s] # t
    /\ Asking \in SUBSET (Task \X Sem)
<1>1. ASSUME NEW t \in Task, NEW s \in Sem PROVE <<t, s>> \in Asking <=> AsksFor(t, s)
  <2>1. <<t, s>> \in Task \X Sem /\ <<t, s>>[1] = t /\ <<t, s>>[2] = s
    OBVIOUS
  <2>2. <<t, s>> \in Asking <=> AsksFor(<<t, s>>[1], <<t, s>>[2])
    BY <2>1, Zenon DEF Asking
  <2> QED BY <2>1, <2>2, Zenon
<1> QED BY <1>1, Zenon DEF Asking, Granted

(* The same, after a step. *)
LEMMA MembersNext ==
    /\ \A t \in Task, s \in Sem : <<t, s>> \in Asking' <=> AsksFor(t, s)'
    /\ \A t \in Task : t \in Granted' <=> InSemWait(t)' /\ \A s \in Sem : waiter'[s] # t
    /\ Asking' \in SUBSET (Task \X Sem)
<1>1. ASSUME NEW t \in Task, NEW s \in Sem PROVE <<t, s>> \in Asking' <=> AsksFor(t, s)'
  <2>1. <<t, s>> \in Task \X Sem /\ <<t, s>>[1] = t /\ <<t, s>>[2] = s
    OBVIOUS
  <2>2. <<t, s>> \in Asking' <=> AsksFor(<<t, s>>[1], <<t, s>>[2])'
    BY <2>1, Zenon DEF Asking
  <2> QED BY <2>1, <2>2, Zenon
<1> QED BY <1>1, Zenon DEF Asking, Granted

(* The registered waiter of a semaphore sleeps in sem_wait. *)
LEMMA WaiterInside ==
    ASSUME TypeOK, IInv, NEW s \in Sem, waiter[s] # NoTask
    PROVE  waiter[s] \in Task /\ InSemWait(waiter[s]) /\ state[waiter[s]] = BLOCKED
BY Types, Zenon DEF IInv, SleepInv, WaitersSleep, SleepersInSemWait

(* sem_wait: the task asks from here on. *)
LEMMA StepWait ==
    ASSUME TypeOK, IInv, TypeOK', IInv', NEW c \in CPU, NEW s \in Sem, sem_wait(c, s)
    PROVE  SM!Wait(run[c], s)
<1>0. FnTypes /\ CpuControl(c) /\ CpuTypes(c)
  BY Here, Zenon
<1>1. Others(c) /\ UNCHANGED <<count, waiter, ipc, run>>
  BY <1>0, Zenon DEF FnTypes, Others, sem_wait, Goto, schedVars, switchVars, irqVars
<1>2. run[c] \in Task /\ pc[c] = "user" /\ pc'[c] = "wait_lock" /\ sem'[c] = s
  BY <1>0, Zenon DEF FnTypes, CpuTypes, sem_wait, Goto
<1>3. ipc[run[c]] # "wait"
  BY <1>0, <1>2, Zenon DEF CpuControl, SiteAt, StackAt, PickPCs, LbPCs, DispPCs, PostPCs,
       CpuTypes
<1>4. ~ InSemWait(run[c]) /\ ~ InSemWait(run[c])'
  <2>1. ~ HereSemWait(c) /\ ~ HereSemWait(c)'
    BY <1>1, <1>2, <1>3, Zenon DEF HereSemWait, PickPCs, LbPCs
  <2> QED BY <2>1, AskingIs, AskingIsNext, Zenon
<1>5. ASSUME NEW t \in Task PROVE InSemWait(t)' <=> InSemWait(t)
  <2>1. CASE t = run[c]
    <3>1. InSemWait(t)' <=> InSemWait(run[c])'
      BY <1>1, <2>1, Zenon DEF InSemWait
    <3> QED BY <1>4, <2>1, <3>1, Zenon
  <2> QED BY <1>1, <2>1, OthersKept, Zenon
<1>6. Granted' = Granted
  BY <1>1, <1>5, Zenon DEF Granted
<1>7. \A r \in Sem : ~ AsksFor(run[c], r)
  <2>1. \A r \in Sem : ~ InLoop(run[c], r)
    BY <1>2, LoopHere, Zenon DEF WaitPCs
  <2> QED BY <1>4, <2>1, Zenon DEF AsksFor, InLoop
<1>8. SM!Outside(run[c])
  BY <1>2, <1>4, <1>7, Members, Zenon DEF SM!Outside
<1>9. ASSUME NEW t \in Task, NEW r \in Sem
      PROVE  AsksFor(t, r)' <=> AsksFor(t, r) \/ (t = run[c] /\ r = s)
  <2>1. CASE t = run[c]
    <3>1. InLoop(t, r)' <=> r = s
      BY <1>1, <1>2, <2>1, LoopNext, Zenon DEF WaitPCs
    <3>2. waiter'[r] = t => AsksFor(t, r)
      BY <1>1, AskingIs, Zenon
    <3> QED BY <1>7, <2>1, <3>1, <3>2, AskingIsNext, Zenon
  <2>2. CASE t # run[c]
    BY <1>1, <2>2, OthersKept, AskingIs, AskingIsNext, Zenon
  <2> QED BY <2>1, <2>2, Zenon
<1>10. Asking' = Asking \cup {<<run[c], s>>}
  <2>1. \A t \in Task, r \in Sem : <<t, r>> \in Asking' <=> <<t, r>> \in Asking \cup {<<run[c], s>>}
    BY <1>9, Members, MembersNext, Zenon
  <2>2. Asking \cup {<<run[c], s>>} \in SUBSET (Task \X Sem)
    BY <1>2, Members
  <2>3. Asking' \in SUBSET (Task \X Sem)
    BY MembersNext, Zenon
  <2> HIDE DEF Asking
  <2> QED BY <2>1, <2>2, <2>3, SamePairs, SMT
<1> QED BY <1>1, <1>6, <1>8, <1>10, Zenon DEF SM!Wait

(* sem_wait finds a permit: the task stops asking and count goes down. *)
LEMMA StepTake ==
    ASSUME TypeOK, IInv, TypeOK', IInv', NEW c \in CPU, SemTake(c)
    PROVE  sem[c] \in Sem /\ SM!Take(run[c], sem[c])
<1>0. FnTypes /\ CpuControl(c) /\ CpuTypes(c)
  BY Here, Zenon
<1>1. Others(c) /\ UNCHANGED <<waiter, ipc, run>>
  BY <1>0, Zenon DEF FnTypes, Others, SemTake, Goto, schedVars, switchVars, irqVars
<1>2. /\ run[c] \in Task /\ pc[c] = "wait_cs" /\ pc'[c] = "user" /\ count[sem[c]] > 0
      /\ count' = [count EXCEPT ![sem[c]] = @ - 1]
  BY <1>0, Zenon DEF FnTypes, CpuTypes, SemTake, Goto
<1>3. sem[c] \in Sem
  BY <1>0, <1>2, Zenon DEF CpuControl, CpuTypes, SemAt, WaitPCs
<1>4. HereSemWait(c)' <=> HereSemWait(c)
  BY <1>1, <1>2, Zenon DEF HereSemWait, PickPCs, LbPCs
<1>5. ASSUME NEW t \in Task PROVE InSemWait(t)' <=> InSemWait(t)
  <2>1. CASE t = run[c]
    <3>1. InSemWait(t)' <=> InSemWait(run[c])'
      BY <1>1, <2>1, Zenon DEF InSemWait
    <3> QED BY <1>4, <2>1, <3>1, AskingIs, AskingIsNext, Zenon
  <2> QED BY <1>1, <2>1, OthersKept, Zenon
<1>6. Granted' = Granted
  BY <1>1, <1>5, Zenon DEF Granted
<1>7. \A r \in Sem : waiter[r] # run[c]
  <2>1. ipc[run[c]] # "wait"
    BY <1>0, <1>2, Zenon DEF CpuControl, SiteAt, StackAt, PickPCs, LbPCs, DispPCs,
         PostPCs, CpuTypes
  <2>2. ~ HereSemWait(c)
    BY <1>2, <2>1, Zenon DEF HereSemWait, PickPCs, LbPCs
  <2> QED BY <1>2, <2>2, AskingIs, WaiterInside, NullAssumption, Zenon
<1>8. ASSUME NEW t \in Task, NEW r \in Sem
      PROVE  AsksFor(t, r)' <=> AsksFor(t, r) /\ ~ (t = run[c] /\ r = sem[c])
  <2>1. CASE t = run[c]
    <3>1. InLoop(t, r) <=> r = sem[c]
      BY <1>2, <2>1, LoopHere, Zenon DEF WaitPCs
    <3>2. ~ InLoop(t, r)'
      BY <1>1, <1>2, <2>1, LoopNext, Zenon DEF WaitPCs
    <3> QED BY <1>1, <1>7, <2>1, <3>1, <3>2, AskingIs, AskingIsNext, Zenon
  <2>2. CASE t # run[c]
    BY <1>1, <2>2, OthersKept, AskingIs, AskingIsNext, Zenon
  <2> QED BY <2>1, <2>2, Zenon
<1>9. Asking' = Asking \ {<<run[c], sem[c]>>}
  <2>1. \A t \in Task, r \in Sem : <<t, r>> \in Asking' <=> <<t, r>> \in Asking \ {<<run[c], sem[c]>>}
    BY <1>8, Members, MembersNext, Zenon
  <2>2. Asking \ {<<run[c], sem[c]>>} \in SUBSET (Task \X Sem)
    BY Members, Zenon
  <2>3. Asking' \in SUBSET (Task \X Sem)
    BY MembersNext, Zenon
  <2> HIDE DEF Asking
  <2> QED BY <2>1, <2>2, <2>3, SamePairs, SMT
<1>10. <<run[c], sem[c]>> \in Asking
  <2>1. InLoop(run[c], sem[c])
    BY <1>2, <1>3, LoopHere, Zenon DEF WaitPCs
  <2> QED BY <1>2, <1>3, <2>1, AskingIs, Members, Zenon
<1> QED BY <1>2, <1>3, <1>6, <1>9, <1>10, Zenon DEF SM!Take

(* sem_wait finds none: from asking in the call to asking as the waiter. *)
LEMMA StepBlock ==
    ASSUME TypeOK, IInv, TypeOK', IInv', NEW c \in CPU, SemBlock(c)
    PROVE  UNCHANGED SM!vars
<1>0. FnTypes /\ CpuControl(c) /\ CpuTypes(c)
  BY Here, Zenon
<1>1. Others(c) /\ UNCHANGED <<count, ipc, run>>
  BY <1>0, Zenon DEF FnTypes, Others, SemBlock, CallPick, Goto, schedVars, switchVars,
       irqVars
<1>2. /\ run[c] \in Task /\ pc[c] = "wait_cs" /\ pc'[c] = "pick_lock" /\ site'[c] = "sem_wait"
      /\ waiter' = [waiter EXCEPT ![sem[c]] = curr[c]]
  BY <1>0, Zenon DEF FnTypes, CpuTypes, SemBlock, CallPick, Goto
<1>3. sem[c] \in Sem /\ <<run[c], sem[c]>> \in Waits /\ curr[c] = run[c]
  BY <1>0, <1>2, Zenon DEF CpuControl, CpuTypes, SemAt, SwitchAt, WaitPCs
<1>4. ~ InSemWait(run[c])
  <2>1. ipc[run[c]] # "wait"
    BY <1>0, <1>2, Zenon DEF CpuControl, SiteAt, StackAt, PickPCs, LbPCs, DispPCs,
         PostPCs, CpuTypes
  <2>2. ~ HereSemWait(c)
    BY <1>2, <2>1, Zenon DEF HereSemWait, PickPCs, LbPCs
  <2> QED BY <2>2, AskingIs, Zenon
<1>5. \A r \in Sem : waiter[r] # run[c]
  BY <1>2, <1>4, WaiterInside, NullAssumption, Zenon
<1>6. waiter[sem[c]] = NoTask
  <2> SUFFICES ASSUME waiter[sem[c]] # NoTask PROVE FALSE
    OBVIOUS
  <2>1. <<waiter[sem[c]], sem[c]>> \in Waits
    BY <1>3, Zenon DEF IInv, SleepInv, WaitersSleep
  <2>2. <<waiter[sem[c]], sem[c]>>[2] = <<run[c], sem[c]>>[2]
        => <<waiter[sem[c]], sem[c]>> = <<run[c], sem[c]>>
    BY <1>3, <2>1, ClientAssumption, Zenon
  <2>3. waiter[sem[c]] = run[c]
    BY <2>2, Zenon
  <2> QED BY <1>3, <1>5, <2>3, Zenon
<1>7. \A r \in Sem : waiter'[r] = IF r = sem[c] THEN run[c] ELSE waiter[r]
  BY <1>0, <1>2, <1>3, Zenon DEF FnTypes
<1>8. ASSUME NEW t \in Task
      PROVE  /\ t \in Granted' <=> t \in Granted
             /\ \A r \in Sem : AsksFor(t, r)' <=> AsksFor(t, r)
  <2>1. CASE t = run[c]
    <3>1. t \notin Granted /\ t \notin Granted'
      BY <1>3, <1>4, <1>7, <2>1, Members, MembersNext, Zenon
    <3>2. ASSUME NEW r \in Sem PROVE AsksFor(t, r)' <=> AsksFor(t, r)
      <4>1. InLoop(t, r) <=> r = sem[c]
        BY <1>2, <2>1, LoopHere, Zenon DEF WaitPCs
      <4>2. ~ InLoop(t, r)'
        BY <1>1, <1>2, <2>1, LoopNext, Zenon DEF WaitPCs
      <4>3. waiter'[r] = t <=> r = sem[c]
        BY <1>5, <1>7, <2>1, Zenon
      <4> QED BY <1>5, <2>1, <4>1, <4>2, <4>3, AskingIs, AskingIsNext, Zenon
    <3> QED BY <3>1, <3>2, Zenon
  <2>2. CASE t # run[c]
    <3>1. \A r \in Sem : waiter'[r] = t <=> waiter[r] = t
      BY <1>6, <1>7, <2>2, NullAssumption, Zenon
    <3>2. (InSemWait(t)' <=> InSemWait(t)) /\ \A r \in Sem : InLoop(t, r)' <=> InLoop(t, r)
      BY <1>1, <2>2, OthersKept, Zenon
    <3>3. t \in Granted' <=> t \in Granted
      BY <3>1, <3>2, Members, MembersNext, Zenon
    <3> QED BY <3>1, <3>2, <3>3, AskingIs, AskingIsNext, Zenon
  <2> QED BY <2>1, <2>2, Zenon
<1>9. Granted' = Granted
  BY <1>8, Zenon DEF Granted
<1>10. Asking' = Asking
  BY <1>8, Zenon DEF Asking
<1> QED BY <1>1, <1>9, <1>10, Zenon DEF SM!vars

(* The wfe loop sees READY: the task goes on with the permit it was handed. *)
LEMMA StepResume ==
    ASSUME TypeOK, IInv, TypeOK', IInv', NEW c \in CPU, WaitLoop(c)
    PROVE  SM!Resume(run[c])
<1>0. FnTypes /\ CpuControl(c) /\ CpuTypes(c)
  BY Here, Zenon
<1>1. Others(c) /\ UNCHANGED <<count, waiter, ipc, run>>
  BY <1>0, Zenon DEF FnTypes, Others, WaitLoop, Goto, schedVars, switchVars, semVars,
       irqVars
<1>2. run[c] \in Task /\ pc[c] = "wait" /\ pc'[c] = "user" /\ state[curr[c]] = READY
  BY <1>0, Zenon DEF FnTypes, CpuTypes, WaitLoop, Goto
<1>3. curr[c] = run[c] /\ ipc[run[c]] # "wait"
  BY <1>0, <1>2, Zenon DEF CpuControl, SwitchAt, SiteAt, StackAt, PickPCs, LbPCs,
       DispPCs, PostPCs, CpuTypes
<1>4. InSemWait(run[c]) /\ ~ InSemWait(run[c])'
  <2>1. HereSemWait(c) /\ ~ HereSemWait(c)'
    BY <1>1, <1>2, <1>3, Zenon DEF HereSemWait, PickPCs, LbPCs
  <2> QED BY <2>1, AskingIs, AskingIsNext, Zenon
<1>5. \A r \in Sem : waiter[r] # run[c]
  BY <1>2, <1>3, WaiterInside, StatesDiffer, NullAssumption, Zenon
<1>6. run[c] \in Granted
  BY <1>2, <1>4, <1>5, Members, Zenon
<1>7. ASSUME NEW t \in Task
      PROVE  /\ t \in Granted' <=> t \in Granted /\ t # run[c]
             /\ \A r \in Sem : AsksFor(t, r)' <=> AsksFor(t, r)
  <2>1. CASE t = run[c]
    <3>1. ~ InSemWait(t)'
      BY <1>1, <1>4, <2>1, Zenon DEF InSemWait
    <3>2. ASSUME NEW r \in Sem PROVE ~ InLoop(t, r) /\ ~ InLoop(t, r)'
      <4>1. ~ InLoop(t, r)
        BY <1>2, <2>1, LoopHere, Zenon DEF WaitPCs
      <4>2. ~ InLoop(t, r)'
        BY <1>1, <1>2, <2>1, LoopNext, Zenon DEF WaitPCs
      <4> QED BY <4>1, <4>2, Zenon
    <3>3. t \notin Granted'
      BY <3>1, MembersNext, Zenon
    <3>4. \A r \in Sem : AsksFor(t, r)' <=> AsksFor(t, r)
      BY <1>1, <3>2, AskingIs, AskingIsNext, Zenon
    <3> QED BY <2>1, <3>3, <3>4, Zenon
  <2>2. CASE t # run[c]
    <3>1. (InSemWait(t)' <=> InSemWait(t)) /\ \A r \in Sem : InLoop(t, r)' <=> InLoop(t, r)
      BY <1>1, <2>2, OthersKept, Zenon
    <3>2. t \in Granted' <=> t \in Granted
      BY <1>1, <3>1, Members, MembersNext, Zenon
    <3>3. \A r \in Sem : AsksFor(t, r)' <=> AsksFor(t, r)
      BY <1>1, <3>1, AskingIs, AskingIsNext, Zenon
    <3> QED BY <2>2, <3>2, <3>3, Zenon
  <2> QED BY <2>1, <2>2, Zenon
<1>8. Granted' = Granted \ {run[c]}
  <2>1. Granted \in SUBSET Task /\ Granted' \in SUBSET Task
    BY Zenon DEF Granted
  <2> QED BY <1>7, <2>1, Zenon
<1>9. Asking' = Asking
  BY <1>7, Zenon DEF Asking
<1> QED BY <1>1, <1>6, <1>8, <1>9, Zenon DEF SM!Resume

(* sem_post finds nobody waiting: count goes up. *)
LEMMA StepPost ==
    ASSUME TypeOK, IInv, TypeOK', IInv', NEW c \in CPU, PostCount(c)
    PROVE  sem[c] \in Sem /\ SM!Post(sem[c])
<1>0. FnTypes /\ CpuControl(c) /\ CpuTypes(c)
  BY Here, Zenon
<1>1. Others(c) /\ UNCHANGED <<waiter, ipc, run>>
  BY <1>0, Zenon DEF FnTypes, Others, PostCount, Goto, schedVars, switchVars, irqVars
<1>2. /\ pc[c] = "post_cs" /\ pc'[c] = "post_unlock"
      /\ count' = [count EXCEPT ![sem[c]] = @ + 1]
  BY <1>0, Zenon DEF FnTypes, PostCount, Goto
<1>3. sem[c] \in Sem
  BY <1>0, <1>2, Zenon DEF CpuControl, CpuTypes, SemAt, PostPCs
<1>4. HereSemWait(c)' <=> HereSemWait(c)
  BY <1>1, <1>2, Zenon DEF HereSemWait, PickPCs, LbPCs
<1>5. Asking' = Asking /\ Granted' = Granted
  BY <1>1, <1>2, <1>4, Unseen, Zenon DEF WaitPCs
<1> QED BY <1>2, <1>3, <1>5, Zenon DEF SM!Post

(* sem_post takes the waiter out: it has its permit and asks no more. *)
LEMMA StepHandover ==
    ASSUME TypeOK, IInv, TypeOK', IInv', NEW c \in CPU, PostWaiter(c)
    PROVE  sem[c] \in Sem /\ waiter[sem[c]] \in Task /\ SM!Handover(waiter[sem[c]], sem[c])
<1>0. FnTypes /\ CpuControl(c) /\ CpuTypes(c)
  BY Here, Zenon
<1>1. Others(c) /\ UNCHANGED <<count, ipc, run, sem>>
  BY <1>0, Zenon DEF FnTypes, Others, PostWaiter, Goto, schedVars, switchVars, irqVars
<1>2. /\ pc[c] = "post_cs" /\ pc'[c] = "wake_lock" /\ waiter[sem[c]] # NoTask
      /\ waiter' = [waiter EXCEPT ![sem[c]] = NoTask]
  BY <1>0, Zenon DEF FnTypes, PostWaiter, Goto
<1>3. sem[c] \in Sem
  BY <1>0, <1>2, Zenon DEF CpuControl, CpuTypes, SemAt, PostPCs
<1> DEFINE u == waiter[sem[c]]
<1>4. u \in Task /\ InSemWait(u)
  BY <1>2, <1>3, WaiterInside, Zenon
<1>5. \A r \in Sem : waiter'[r] = IF r = sem[c] THEN NoTask ELSE waiter[r]
  BY <1>0, <1>2, <1>3, Zenon DEF FnTypes
<1>6. \A r \in Sem : waiter[r] = u => r = sem[c]
  BY <1>2, <1>3, Zenon DEF IInv, SleepInv, WaitersDistinct
<1>7. ~ InLoop(u, sem[c])
  <2> SUFFICES ASSUME NEW d \in CPU, run[d] = u, pc[d] \in WaitPCs PROVE FALSE
    BY Zenon DEF InLoop
  <2>1. CpuControl(d) /\ CpuTypes(d)
    BY Here, Zenon
  <2>2. ipc[run[d]] # "wait"
    BY <2>1, Zenon DEF CpuControl, SiteAt, StackAt, WaitPCs, PickPCs, LbPCs, DispPCs,
         PostPCs, CpuTypes
  <2>3. ~ HereSemWait(d)
    BY <2>2, Zenon DEF HereSemWait, PickPCs, LbPCs, WaitPCs
  <2> QED BY <1>4, <2>3, AskingIs, Zenon
<1>8. ASSUME NEW t \in Task
      PROVE  (InSemWait(t)' <=> InSemWait(t)) /\ \A r \in Sem : InLoop(t, r)' <=> InLoop(t, r)
  <2>1. CASE t = run[c]
    <3>1. HereSemWait(c)' <=> HereSemWait(c)
      BY <1>1, <1>2, Zenon DEF HereSemWait, PickPCs, LbPCs
    <3>2. InSemWait(t)' <=> InSemWait(run[c])'
      BY <1>1, <2>1, Zenon DEF InSemWait
    <3>3. InSemWait(t)' <=> InSemWait(t)
      BY <2>1, <3>1, <3>2, AskingIs, AskingIsNext, Zenon
    <3>4. ASSUME NEW r \in Sem PROVE InLoop(t, r)' <=> InLoop(t, r)
      <4>1. ~ InLoop(t, r)
        BY <1>2, <2>1, LoopHere, Zenon DEF WaitPCs
      <4>2. ~ InLoop(t, r)'
        BY <1>1, <1>2, <2>1, LoopNext, Zenon DEF WaitPCs
      <4> QED BY <4>1, <4>2, Zenon
    <3> QED BY <3>3, <3>4, Zenon
  <2>2. CASE t # run[c]
    BY <1>1, <2>2, OthersKept, Zenon
  <2> QED BY <2>1, <2>2, Zenon
<1>9. ASSUME NEW t \in Task
      PROVE  /\ t \in Granted' <=> t \in Granted \/ t = u
             /\ \A r \in Sem : AsksFor(t, r)' <=> AsksFor(t, r) /\ ~ (t = u /\ r = sem[c])
  <2>1. \A r \in Sem : waiter'[r] = t <=> waiter[r] = t /\ t # u
    BY <1>5, <1>6, NullAssumption, Zenon
  <2>2. t \in Granted' <=> t \in Granted \/ t = u
    BY <1>4, <1>8, <2>1, Members, MembersNext, Zenon
  <2>3. ASSUME NEW r \in Sem
        PROVE  AsksFor(t, r)' <=> AsksFor(t, r) /\ ~ (t = u /\ r = sem[c])
    BY <1>6, <1>7, <1>8, <2>1, AskingIs, AskingIsNext, Zenon
  <2> QED BY <2>2, <2>3, Zenon
<1>10. Granted' = Granted \cup {u}
  <2>1. Granted \in SUBSET Task /\ Granted' \in SUBSET Task
    BY Zenon DEF Granted
  <2> QED BY <1>4, <1>9, <2>1, Zenon
<1>11. Asking' = Asking \ {<<u, sem[c]>>}
  <2>1. \A t \in Task, r \in Sem : <<t, r>> \in Asking' <=> <<t, r>> \in Asking \ {<<u, sem[c]>>}
    BY <1>9, Members, MembersNext, Zenon
  <2>2. Asking \ {<<u, sem[c]>>} \in SUBSET (Task \X Sem)
    BY Members, Zenon
  <2>3. Asking' \in SUBSET (Task \X Sem)
    BY MembersNext, Zenon
  <2> QED BY <2>1, <2>2, <2>3, SamePairs, SMT
<1>12. <<u, sem[c]>> \in Asking
  BY <1>3, <1>4, AskingIs, Members, Zenon
<1> QED BY <1>1, <1>3, <1>4, <1>10, <1>11, <1>12, Zenon DEF SM!Handover

(* switch_to resumes a task in sem_wait only once it was granted; the task *)
(* it leaves keeps its standing in its frame.                              *)
LEMMA StepSwitch ==
    ASSUME TypeOK, IInv, TypeOK', IInv', NEW c \in CPU, switch_to(c)
    PROVE  UNCHANGED SM!vars \/ \E t \in Task : SM!Resume(t)
<1>0. FnTypes /\ CpuControl(c) /\ CpuTypes(c)
  BY Here, Zenon
<1>a. /\ pc[c] = "switch" /\ run[c] \in Task /\ next[c] \in Task /\ next[c] # run[c]
      /\ prev[c] = run[c] /\ site[c] \in Sites
  BY <1>0, Zenon DEF switch_to, CpuControl, CpuTypes, SwitchAt, SiteAt, PickPCs, LbPCs,
       Sites
<1>b. PICK n \in Task, p \in Task : n = next[c] /\ p = run[c]
  BY <1>a, Zenon
<1>1. pc[c] = "switch" /\ n # p /\ prev[c] = p /\ run[c] = p /\ next[c] = n /\ site[c] \in Sites
  BY <1>a, <1>b, Zenon
<1>2. home[n] = c /\ home[p] = c /\ state[n] = READY
  BY <1>1, NullAssumption, Zenon DEF IInv, HomeInv, SleepInv, PickedReady
<1>3. /\ sp[n] # Popped /\ sp[n].stack = n /\ sp[n].at \in Sites \cup {"start"}
      /\ ipc[n] = "wait" => sp[n].at = "irq"
  <2>1. /\ sp[n] # Popped /\ sp[n].stack = n
        /\ ipc[n] = "wait" => sp[n].at = "irq"
    <3>1. run[home[n]] # n
      BY <1>1, <1>2, Zenon
    <3> QED BY <3>1, Zenon DEF IInv, FrameInv
  <2>2. sp[n] \in Frame
    BY <1>0, <1>1, <2>1, Zenon DEF FnTypes
  <2> QED BY <2>1, <2>2, Zenon DEF Frame
<1>4. /\ run' = [run EXCEPT ![c] = n]
      /\ pc' = [pc EXCEPT ![c] = ResumeAt(sp[n].at)]
      /\ site' = [site EXCEPT ![c] = "none"]
      /\ sp' = [sp EXCEPT ![p] = [stack |-> p, at |-> site[c], daif |-> daif[c]], ![n] = Popped]
      /\ UNCHANGED <<home, ipc, count, waiter, sem>>
  BY <1>1, <1>3, Zenon DEF switch_to, Goto, schedVars, semVars, irqVars
<1>5. /\ run'[c] = n /\ \A d \in CPU \ {c} : run'[d] = run[d] /\ pc'[d] = pc[d] /\ site'[d] = site[d]
      /\ pc'[c] \in {"user", "eret", "restore"}
      /\ sp'[p].at = site[c] /\ \A t \in Task \ {p, n} : sp'[t] = sp[t]
  <2>1. pc'[c] \in {"user", "eret", "restore"}
    BY <1>0, <1>3, <1>4, Zenon DEF FnTypes, ResumeAt
  <2>2. sp'[p] = [stack |-> p, at |-> site[c], daif |-> daif[c]]
    BY <1>0, <1>1, <1>4, Zenon DEF FnTypes
  <2>3. sp'[p].at = site[c]
    BY <2>2
  <2> QED BY <1>0, <1>1, <1>4, <2>1, <2>3, Zenon DEF FnTypes
<1>6. ASSUME NEW t \in Task, t # n PROVE InSemWait(t)' <=> InSemWait(t)
  <2>1. CASE t = p
    <3>1. InSemWait(t)' <=> site[c] = "sem_wait" \/ ipc[t] = "wait"
      <4>1. home[t] = c /\ home' = home /\ ipc' = ipc
        BY <1>2, <1>4, <2>1, Zenon
      <4>2. run'[c] # t /\ sp'[t].at = site[c]
        BY <1>5, <1>6, <2>1, Zenon
      <4> QED BY <4>1, <4>2, Zenon DEF InSemWait
    <3>2. InSemWait(t) <=> site[c] = "sem_wait" \/ ipc[t] = "wait"
      BY <1>1, <1>2, <2>1, Zenon DEF InSemWait, PickPCs, LbPCs
    <3> QED BY <3>1, <3>2, Zenon
  <2>2. CASE t # p
    <3>1. home[t] \in CPU /\ home' = home /\ ipc' = ipc /\ sp'[t] = sp[t]
      BY <1>4, <1>5, <1>6, <2>2, Types, Zenon DEF TaskTypes
    <3>2. CASE home[t] = c
      BY <1>1, <1>5, <1>6, <2>2, <3>1, <3>2, Zenon DEF InSemWait
    <3>3. CASE home[t] # c
      <4>1. run'[home[t]] = run[home[t]] /\ pc'[home[t]] = pc[home[t]] /\ site'[home[t]] = site[home[t]]
        BY <1>5, <3>1, <3>3, Zenon
      <4> QED BY <3>1, <4>1, Zenon DEF InSemWait
    <3> QED BY <3>2, <3>3, Zenon
  <2> QED BY <2>1, <2>2, Zenon
<1>7. /\ InSemWait(n) <=> sp[n].at = "sem_wait" \/ ipc[n] = "wait"
      /\ InSemWait(n)' <=> ipc[n] = "wait"
  <2>1. InSemWait(n) <=> sp[n].at = "sem_wait" \/ ipc[n] = "wait"
    BY <1>1, <1>2, Zenon DEF InSemWait
  <2>2. InSemWait(n)' <=> HereSemWait(c)'
    <3>1. InSemWait(run[c])' <=> HereSemWait(c)'
      BY AskingIsNext, Zenon
    <3>2. home'[n] = c /\ run'[c] = n
      BY <1>2, <1>4, <1>5, Zenon
    <3> QED BY <3>1, <3>2, Zenon DEF InSemWait
  <2>3. HereSemWait(c)' <=> ipc[n] = "wait"
    BY <1>4, <1>5, Zenon DEF HereSemWait, PickPCs, LbPCs
  <2> QED BY <2>1, <2>2, <2>3, Zenon
<1>8. \A r \in Sem : waiter[r] # n
  BY <1>1, <1>2, WaiterInside, StatesDiffer, NullAssumption, Zenon
<1>9. Asking' = Asking
  <2>1. ASSUME NEW t \in Task, NEW r \in Sem PROVE InLoop(t, r)' <=> InLoop(t, r)
    <3>1. pc[c] \notin WaitPCs /\ pc'[c] \notin WaitPCs
      BY <1>1, <1>5, Zenon DEF WaitPCs
    <3> QED BY <1>4, <1>5, <3>1, Zenon DEF InLoop
  <2>2. \A t \in Task, r \in Sem : AsksFor(t, r)' <=> AsksFor(t, r)
    BY <1>4, <2>1, AskingIs, AskingIsNext, Zenon
  <2> QED BY <2>2, Zenon DEF Asking
<1>10. CASE sp[n].at = "sem_wait"
  <2>1. n \in Granted
    BY <1>1, <1>7, <1>8, <1>10, Members, Zenon
  <2>2. ipc[n] # "wait"
    BY <1>3, <1>10, Zenon
  <2>3. \A t \in Task : InSemWait(t)' <=> InSemWait(t) /\ t # n
    BY <1>6, <1>7, <2>2, Zenon
  <2>4. Granted' = Granted \ {n}
    <3>1. Granted \in SUBSET Task /\ Granted' \in SUBSET Task
      BY Zenon DEF Granted
    <3>2. \A t \in Task : t \in Granted' <=> t \in Granted /\ t # n
      BY <1>4, <2>3, Members, MembersNext, Zenon
    <3> QED BY <3>1, <3>2, Zenon
  <2>5. SM!Resume(n)
    BY <1>4, <1>9, <2>1, <2>4, Zenon DEF SM!Resume
  <2> QED BY <1>1, <2>5, Zenon
<1>11. CASE sp[n].at # "sem_wait"
  <2>1. \A t \in Task : InSemWait(t)' <=> InSemWait(t)
    BY <1>6, <1>7, <1>11, Zenon
  <2>2. Granted' = Granted
    BY <1>4, <2>1, Zenon DEF Granted
  <2> QED BY <1>4, <1>9, <2>2, Zenon DEF SM!vars
<1> QED BY <1>10, <1>11, Zenon

-----------------------------------------------------------------------------
(* The inductive invariant under the semaphore operations and under the    *)
(* completion dispatcher.                                                  *)

(* sem_wait: it masks IRQs before it takes the lock. *)
LEMMA sem_waitStep ==
    ASSUME TypeOK, IInv, NEW c \in CPU, NEW s \in Sem, sem_wait(c, s)
    PROVE  TypeOK' /\ IInv'
<1>1. /\ HomeInv /\ FrameInv /\ SleepInv
      /\ CpuControl(c) /\ CpuLocks(c)
      /\ CpuTypes(c) /\ TaskTypes(run[c]) /\ \A t \in Task : TaskTypes(t)
  BY Types, AtCpu, Zenon DEF IInv, CpuTypes
<1>2. /\ pc \in [CPU -> PCs] /\ flags \in [Task -> {"open", "masked"}]
      /\ daif \in [CPU -> {"open", "masked"}] /\ sem \in [CPU -> Sem \cup {NoSem}]
      /\ run \in [CPU -> Task]
  BY Zenon DEF TypeOK
<1>3. TypeOK'
  <2>1. /\ pc' \in [CPU -> PCs] /\ flags' \in [Task -> {"open", "masked"}]
        /\ daif' \in [CPU -> {"open", "masked"}] /\ sem' \in [CPU -> Sem \cup {NoSem}]
    BY <1>1, <1>2, Zenon DEF sem_wait, Goto, irq_disable_save, schedVars, switchVars,
         semVars, irqVars, maskVars, lockVars, PCs, Sites, CpuTypes, TaskTypes
  <2>2. TypeOK'
    BY <2>1, Zenon DEF TypeOK, sem_wait, Goto, irq_disable_save, schedVars, switchVars,
         semVars, irqVars, maskVars, lockVars
  <2> QED BY <2>2, Zenon
<1>4. /\ pc[c] = "user" /\ <<run[c], s>> \in Waits
      /\ pc'[c] = "wait_lock" /\ flags'[run[c]] = daif[c] /\ daif'[c] = "masked"
      /\ sem'[c] = s
      /\ \A d \in CPU \ {c} : pc'[d] = pc[d] /\ daif'[d] = daif[d] /\ sem'[d] = sem[d]
      /\ \A t \in Task \ {run[c]} : flags'[t] = flags[t]
      /\ UNCHANGED <<run, curr, active, site, next, prev, w, wcpu, comps, state, load,
                     home, sp, ipc, tasks, current_idx, accel_lock, sem_lock, rq_lock,
                     count, waiter, lb>>
  BY <1>2, Zenon DEF sem_wait, Goto, irq_disable_save, schedVars, switchVars, semVars,
       irqVars, maskVars, lockVars
<1>5. ASSUME NEW d \in CPU \ {c} PROVE SameCpu(d)
  <2>1. run[d] \in Task /\ run[d] # run[c]
    BY Types, RunDistinct, Zenon DEF CpuTypes
  <2> QED BY <1>4, <2>1, Zenon DEF SameCpu
<1>6. CpuControl(c)'
  BY <1>1, <1>4, ZenonT(30) DEF CpuControl, CpuTypes, TaskTypes, PcAt, SiteAt, SwitchAt,
       SemAt, StackAt, PickPCs, LbPCs, WaitPCs, PostPCs, DispPCs, WakePCs
<1>7. CpuLocks(c)'
  <2>1. RqLockAt(c)'
    BY <1>1, <1>4, ZenonT(30) DEF CpuControl, CpuLocks, CpuTypes, SemAt, RqLockAt,
         HoldsRq, WakePCs
  <2>2. SemLockAt(c)'
    BY <1>1, <1>4, ZenonT(30) DEF CpuControl, CpuLocks, CpuTypes, SemAt, SemLockAt,
         SemHeldPCs, WaitPCs, PostPCs
  <2>3. AccelLockAt(c)'
    BY <1>1, <1>4, ZenonT(30) DEF CpuControl, CpuLocks, PcAt, SiteAt, AccelLockAt,
         PickPCs, LbPCs, WaitPCs, PostPCs, DispPCs
  <2> QED BY <2>1, <2>2, <2>3, Zenon DEF CpuLocks
<1>8. state[run[c]] = BLOCKED => InSemWait(run[c])'
  BY <1>1, <1>4, RunHere, ZenonT(30) DEF InSemWait, CpuTypes, CpuControl, StackAt,
       SwitchAt, PickPCs, LbPCs
<1> QED BY <1>3, <1>4, <1>5, <1>6, <1>7, <1>8, Quiet, Zenon

(* SemWaitLock: the semaphore's lock, for sem_wait. *)
LEMMA SemWaitLockStep ==
    ASSUME TypeOK, IInv, NEW c \in CPU, SemWaitLock(c)
    PROVE  TypeOK' /\ IInv'
<1>1. /\ HomeInv /\ FrameInv /\ SleepInv
      /\ CpuControl(c) /\ CpuLocks(c)
      /\ CpuTypes(c) /\ TaskTypes(run[c]) /\ \A t \in Task : TaskTypes(t)
  BY Types, AtCpu, Zenon DEF IInv, CpuTypes
<1>2. pc \in [CPU -> PCs] /\ sem_lock \in [Sem -> CPU \cup {NoCpu}]
  BY Zenon DEF TypeOK
<1>3. TypeOK'
  <2>1. pc' \in [CPU -> PCs] /\ sem_lock' \in [Sem -> CPU \cup {NoCpu}]
    BY <1>1, <1>2, Zenon DEF SemWaitLock, spin_lock, Goto, schedVars, switchVars, semVars,
         irqVars, maskVars, lockVars, PCs, Sites, CpuTypes, TaskTypes
  <2>2. TypeOK'
    BY <2>1, Zenon DEF TypeOK, SemWaitLock, spin_lock, Goto, schedVars, switchVars,
         semVars, irqVars, maskVars, lockVars
  <2> QED BY <2>2, Zenon
<1>4. /\ pc[c] = "wait_lock" /\ sem_lock[sem[c]] = NoCpu
      /\ \A s0 \in Sem : sem_lock'[s0] = IF s0 = sem[c] THEN c ELSE sem_lock[s0]
      /\ pc'[c] = "wait_cs"
      /\ \A d \in CPU \ {c} : pc'[d] = pc[d]
      /\ UNCHANGED <<run, curr, daif, active, site, next, prev, sem, w, wcpu, comps,
                     state, load, home, sp, flags, ipc, tasks, current_idx, accel_lock,
                     rq_lock, count, waiter, lb>>
  BY <1>2, Zenon DEF SemWaitLock, spin_lock, Goto, schedVars, switchVars, semVars,
       irqVars, maskVars, lockVars
<1>5. ASSUME NEW d \in CPU \ {c} PROVE SameCpu(d)
  <2>1. run[d] \in Task /\ run[d] # run[c]
    BY Types, RunDistinct, Zenon DEF CpuTypes
  <2> QED BY <1>4, <2>1, Zenon DEF SameCpu
<1>6. CpuControl(c)'
  BY <1>1, <1>4, ZenonT(30) DEF CpuControl, CpuTypes, TaskTypes, PcAt, SiteAt, SwitchAt,
       SemAt, StackAt, PickPCs, LbPCs, WaitPCs, PostPCs, DispPCs, WakePCs
<1>7. CpuLocks(c)'
  <2>1. RqLockAt(c)'
    BY <1>1, <1>4, ZenonT(30) DEF CpuControl, CpuLocks, CpuTypes, SemAt, RqLockAt,
         HoldsRq, WakePCs
  <2>2. SemLockAt(c)'
    BY <1>1, <1>4, ZenonT(30) DEF CpuControl, CpuLocks, CpuTypes, SemAt, SemLockAt,
         SemHeldPCs, WaitPCs, PostPCs
  <2>3. AccelLockAt(c)'
    BY <1>1, <1>4, ZenonT(30) DEF CpuControl, CpuLocks, PcAt, SiteAt, AccelLockAt,
         PickPCs, LbPCs, WaitPCs, PostPCs, DispPCs
  <2> QED BY <2>1, <2>2, <2>3, Zenon DEF CpuLocks
<1>8. state[run[c]] = BLOCKED => InSemWait(run[c])'
  BY <1>1, <1>4, RunHere, ZenonT(30) DEF InSemWait, CpuTypes, CpuControl, StackAt,
       SwitchAt, PickPCs, LbPCs
<1> QED BY <1>3, <1>4, <1>5, <1>6, <1>7, <1>8, Quiet, Zenon

(* SemTake: a token is there. *)
LEMMA SemTakeStep ==
    ASSUME TypeOK, IInv, NEW c \in CPU, SemTake(c)
    PROVE  TypeOK' /\ IInv'
<1>1. /\ HomeInv /\ FrameInv /\ SleepInv
      /\ CpuControl(c) /\ CpuLocks(c)
      /\ CpuTypes(c) /\ TaskTypes(run[c]) /\ \A t \in Task : TaskTypes(t)
  BY Types, AtCpu, Zenon DEF IInv, CpuTypes
<1>2. /\ pc \in [CPU -> PCs] /\ sem_lock \in [Sem -> CPU \cup {NoCpu}]
      /\ daif \in [CPU -> {"open", "masked"}] /\ flags \in [Task -> {"open", "masked"}]
      /\ sem \in [CPU -> Sem \cup {NoSem}] /\ count \in [Sem -> Nat]
      /\ run \in [CPU -> Task]
  BY Zenon DEF TypeOK
<1>3. TypeOK'
  <2>1. /\ pc' \in [CPU -> PCs] /\ sem_lock' \in [Sem -> CPU \cup {NoCpu}]
        /\ daif' \in [CPU -> {"open", "masked"}]
        /\ flags' \in [Task -> {"open", "masked"}] /\ sem' \in [CPU -> Sem \cup {NoSem}]
    BY <1>1, <1>2, Zenon DEF SemTake, Goto, irq_restore, spin_unlock, schedVars,
         switchVars, semVars, irqVars, maskVars, lockVars, PCs, Sites, CpuTypes, TaskTypes
  <2>3. pc[c] \in WaitPCs \cup PostPCs => sem[c] \in Sem
    BY <1>1, ZenonT(30) DEF CpuControl, CpuTypes, SemAt
  <2>4. count' \in [Sem -> Nat]
    <3>1. /\ count' = [count EXCEPT ![sem[c]] = @ - 1] /\ count[sem[c]] > 0
          /\ pc[c] \in WaitPCs \cup PostPCs
      BY Zenon DEF SemTake, WaitPCs, PostPCs
    <3> QED BY <1>2, <2>3, <3>1, CountDown, Zenon
  <2>2. TypeOK'
    BY <2>1, <2>4, Zenon DEF TypeOK, SemTake, Goto, irq_restore, spin_unlock, schedVars,
         switchVars, semVars, irqVars, maskVars, lockVars
  <2> QED BY <2>2
<1>4. /\ pc[c] = "wait_cs"
      /\ \A s0 \in Sem : sem_lock'[s0] = IF s0 = sem[c] THEN NoCpu ELSE sem_lock[s0]
      /\ pc'[c] = "user" /\ daif'[c] = flags[run[c]] /\ flags'[run[c]] = "open"
      /\ sem'[c] = NoSem
      /\ \A d \in CPU \ {c} : pc'[d] = pc[d] /\ daif'[d] = daif[d] /\ sem'[d] = sem[d]
      /\ \A t \in Task \ {run[c]} : flags'[t] = flags[t]
      /\ UNCHANGED <<run, curr, active, site, next, prev, w, wcpu, comps, state, load,
                     home, sp, ipc, tasks, current_idx, accel_lock, rq_lock, waiter, lb>>
  BY <1>2, Zenon DEF SemTake, Goto, irq_restore, spin_unlock, schedVars, switchVars,
       semVars, irqVars, maskVars, lockVars
<1>5. ASSUME NEW d \in CPU \ {c} PROVE SameCpu(d)
  <2>1. run[d] \in Task /\ run[d] # run[c]
    BY Types, RunDistinct, Zenon DEF CpuTypes
  <2>2. sem_lock[sem[c]] = c /\ sem[c] \in Sem /\ d \in CPU /\ d # c /\ d # NoCpu
    BY <1>1, <1>4, ZenonT(30) DEF CpuLocks, CpuControl, CpuTypes, SemAt, SemLockAt,
         WaitPCs, PostPCs, SemHeldPCs
  <2>3. ASSUME NEW r \in Sem PROVE sem_lock'[r] = d <=> sem_lock[r] = d
    <3>1. CASE r = sem[c]
      <4>1. sem_lock'[r] = NoCpu /\ sem_lock[r] = c
        BY <1>4, <2>2, <3>1, Zenon
      <4> QED BY <2>2, <4>1, Zenon
    <3>2. CASE r # sem[c]
      BY <1>4, <3>2, Zenon
    <3> QED BY <3>1, <3>2, Zenon
  <2> QED BY <1>4, <2>1, <2>3, Zenon DEF SameCpu
<1>6. CpuControl(c)'
  BY <1>1, <1>4, ZenonT(30) DEF CpuControl, CpuTypes, TaskTypes, PcAt, SiteAt, SwitchAt,
       SemAt, StackAt, PickPCs, LbPCs, WaitPCs, PostPCs, DispPCs, WakePCs
<1>7. CpuLocks(c)'
  <2>1. RqLockAt(c)'
    BY <1>1, <1>4, ZenonT(30) DEF CpuControl, CpuLocks, CpuTypes, SemAt, RqLockAt,
         HoldsRq, WakePCs
  <2>2. SemLockAt(c)'
    BY <1>1, <1>4, ZenonT(30) DEF CpuControl, CpuLocks, CpuTypes, SemAt, SemLockAt,
         SemHeldPCs, WaitPCs, PostPCs
  <2>3. AccelLockAt(c)'
    BY <1>1, <1>4, ZenonT(30) DEF CpuControl, CpuLocks, PcAt, SiteAt, AccelLockAt,
         PickPCs, LbPCs, WaitPCs, PostPCs, DispPCs
  <2> QED BY <2>1, <2>2, <2>3, Zenon DEF CpuLocks
<1>8. state[run[c]] = BLOCKED => InSemWait(run[c])'
  BY <1>1, <1>4, RunHere, ZenonT(30) DEF InSemWait, CpuTypes, CpuControl, StackAt,
       SwitchAt, PickPCs, LbPCs
<1> QED BY <1>3, <1>4, <1>5, <1>6, <1>7, <1>8, Quiet, Zenon

(* SemBlock: the caller is the semaphore's only possible waiter, so nobody *)
(* else was waiting.                                                       *)
LEMMA SemBlockStep ==
    ASSUME TypeOK, IInv, QueueInv, NoLbRace, NEW c \in CPU, SemBlock(c)
    PROVE  TypeOK' /\ IInv'
<1>1. /\ HomeInv /\ FrameInv /\ SleepInv
      /\ CpuControl(c) /\ CpuLocks(c)
      /\ CpuTypes(c) /\ TaskTypes(run[c]) /\ \A t \in Task : TaskTypes(t)
  BY Types, AtCpu, Zenon DEF IInv, CpuTypes
<1>2. /\ pc \in [CPU -> PCs] /\ waiter \in [Sem -> Task \cup {NoTask}]
      /\ state \in [Task -> {READY, BLOCKED}] /\ sem_lock \in [Sem -> CPU \cup {NoCpu}]
      /\ sem \in [CPU -> Sem \cup {NoSem}] /\ site \in [CPU -> Sites \cup {"none"}]
  BY Zenon DEF TypeOK
<1>a. /\ pc[c] = "wait_cs" /\ curr[c] = run[c] /\ next[c] = NoTask
      /\ sem[c] \in Sem /\ <<run[c], sem[c]>> \in Waits
      /\ run[c] \in Task /\ home[run[c]] = c
  <2>1. pc[c] = "wait_cs" /\ pc[c] \in WaitPCs /\ pc[c] \notin {"picked", "switch"} \cup LbPCs
    BY Zenon DEF SemBlock, WaitPCs, LbPCs
  <2>2. curr[c] = run[c] /\ next[c] = NoTask
    BY <1>1, <2>1, Zenon DEF CpuControl, SwitchAt
  <2>3. sem[c] \in Sem /\ <<run[c], sem[c]>> \in Waits
    BY <1>1, <2>1, Zenon DEF CpuControl, CpuTypes, SemAt
  <2>4. run[c] \in Task /\ home[run[c]] = c
    BY <1>1, Zenon DEF CpuTypes, HomeInv
  <2> QED BY <2>1, <2>2, <2>3, <2>4, Zenon
<1>b. state[run[c]] # BLOCKED
  <2>1. ~ InSemWait(run[c])
    BY <1>1, <1>a, ZenonT(30) DEF InSemWait, CpuControl, SiteAt, StackAt, PickPCs, LbPCs,
         DispPCs, PostPCs, CpuTypes
  <2> QED BY <1>1, <1>a, <2>1, Zenon DEF SleepInv, SleepersInSemWait
<1>c. waiter[sem[c]] = NoTask
  <2> SUFFICES ASSUME waiter[sem[c]] # NoTask PROVE FALSE
    OBVIOUS
  <2>1. <<waiter[sem[c]], sem[c]>> \in Waits /\ state[waiter[sem[c]]] = BLOCKED
    BY <1>1, <1>a, Zenon DEF SleepInv, WaitersSleep
  <2>2. waiter[sem[c]] = run[c]
    BY <1>a, <2>1, ClientAssumption
  <2> QED BY <1>b, <2>1, <2>2, Zenon
<1>d. (\A s \in Sem : waiter[s] # run[c]) /\ (\A d \in CPU : w[d] # run[c])
  <2>1. run[c] # NoTask
    BY <1>a, Zenon
  <2>2. ASSUME NEW s \in Sem PROVE waiter[s] # run[c]
    BY <1>1, <1>b, <2>1, Zenon DEF SleepInv, WaitersSleep
  <2>3. ASSUME NEW d \in CPU PROVE w[d] # run[c]
    BY <1>1, <1>b, <2>1, Zenon DEF SleepInv, WokenSleep
  <2> QED BY <2>2, <2>3, Zenon
<1>e. \A d \in CPU : next[d] # run[c]
  BY <1>1, <1>a, Zenon DEF HomeInv
<1>3. TypeOK'
  <2>1. /\ pc' \in [CPU -> PCs] /\ waiter' \in [Sem -> Task \cup {NoTask}]
        /\ state' \in [Task -> {READY, BLOCKED}]
        /\ sem_lock' \in [Sem -> CPU \cup {NoCpu}] /\ sem' \in [CPU -> Sem \cup {NoSem}]
        /\ site' \in [CPU -> Sites \cup {"none"}]
    BY <1>1, <1>2, <1>a, Zenon DEF SemBlock, Goto, spin_unlock, CallPick, schedVars,
         switchVars, semVars, irqVars, maskVars, lockVars, PCs, Sites, CpuTypes, TaskTypes
  <2>2. TypeOK'
    BY <2>1, Zenon DEF TypeOK, SemBlock, Goto, spin_unlock, CallPick, schedVars,
         switchVars, semVars, irqVars, maskVars, lockVars
  <2> QED BY <2>2, Zenon
<1>4. /\ pc[c] = "wait_cs"
      /\ \A s0 \in Sem : waiter'[s0] = IF s0 = sem[c] THEN curr[c] ELSE waiter[s0]
      /\ \A t \in Task : state'[t] = IF t = curr[c] THEN BLOCKED ELSE state[t]
      /\ \A s0 \in Sem : sem_lock'[s0] = IF s0 = sem[c] THEN NoCpu ELSE sem_lock[s0]
      /\ pc'[c] = "pick_lock" /\ sem'[c] = NoSem /\ site'[c] = "sem_wait"
      /\ \A d \in CPU \ {c} : pc'[d] = pc[d] /\ sem'[d] = sem[d] /\ site'[d] = site[d]
      /\ UNCHANGED <<run, curr, daif, active, next, prev, w, wcpu, comps, load, home, sp,
                     flags, ipc, tasks, current_idx, accel_lock, rq_lock, count, lb>>
  BY <1>2, <1>a, Zenon DEF SemBlock, Goto, spin_unlock, CallPick, schedVars, switchVars,
       semVars, irqVars, maskVars, lockVars
<1>5. ASSUME NEW d \in CPU \ {c} PROVE SameCpu(d)
  <2>1. run[d] \in Task /\ run[d] # run[c]
    BY Types, RunDistinct, Zenon DEF CpuTypes
  <2>2. sem_lock[sem[c]] = c /\ sem[c] \in Sem /\ d \in CPU /\ d # c /\ d # NoCpu
    BY <1>1, <1>4, ZenonT(30) DEF CpuLocks, CpuControl, CpuTypes, SemAt, SemLockAt,
         WaitPCs, PostPCs, SemHeldPCs
  <2>3. ASSUME NEW r \in Sem PROVE sem_lock'[r] = d <=> sem_lock[r] = d
    <3>1. CASE r = sem[c]
      <4>1. sem_lock'[r] = NoCpu /\ sem_lock[r] = c
        BY <1>4, <2>2, <3>1, Zenon
      <4> QED BY <2>2, <4>1, Zenon
    <3>2. CASE r # sem[c]
      BY <1>4, <3>2, Zenon
    <3> QED BY <3>1, <3>2, Zenon
  <2> QED BY <1>4, <2>1, <2>3, Zenon DEF SameCpu
<1>6. CpuControl(c)'
  BY <1>1, <1>4, ZenonT(30) DEF CpuControl, CpuTypes, TaskTypes, PcAt, SiteAt, SwitchAt,
       SemAt, StackAt, PickPCs, LbPCs, WaitPCs, PostPCs, DispPCs, WakePCs
<1>7. CpuLocks(c)'
  <2>1. RqLockAt(c)'
    BY <1>1, <1>4, ZenonT(30) DEF CpuControl, CpuLocks, CpuTypes, SemAt, RqLockAt,
         HoldsRq, WakePCs
  <2>2. SemLockAt(c)'
    BY <1>1, <1>4, ZenonT(30) DEF CpuControl, CpuLocks, CpuTypes, SemAt, SemLockAt,
         SemHeldPCs, WaitPCs, PostPCs
  <2>3. AccelLockAt(c)'
    BY <1>1, <1>4, ZenonT(30) DEF CpuControl, CpuLocks, PcAt, SiteAt, AccelLockAt,
         PickPCs, LbPCs, WaitPCs, PostPCs, DispPCs
  <2> QED BY <2>1, <2>2, <2>3, Zenon DEF CpuLocks
<1>8. FrameInv'
  <2>1. \A t \in Task : run[home[t]] # t => t # run[c]
    BY <1>1, Zenon DEF HomeInv
  <2>2. \A t \in Task : run[home[t]] # t => flags'[t] = flags[t] /\ ipc'[t] = ipc[t]
    BY <1>4, <2>1, Zenon
  <2>3. UNCHANGED <<home, run, sp>>
    BY <1>4, Zenon
  <2> QED BY <1>1, <2>2, <2>3, FrameKept, Zenon
<1>9. SleepInv'
  <2>0. /\ waiter'[sem[c]] = run[c] /\ state'[run[c]] = BLOCKED
        /\ \A s \in Sem : s # sem[c] => waiter'[s] = waiter[s]
        /\ \A t \in Task : t # run[c] => state'[t] = state[t]
        /\ \A d \in CPU \ {c} : pc'[d] = pc[d] /\ site'[d] = site[d]
        /\ UNCHANGED <<w, next, home, run, sp, ipc>>
    BY <1>4, <1>a, Zenon
  <2>a. /\ \A s \in Sem : waiter[s] \in Task \cup {NoTask}
        /\ \A d \in CPU : w[d] \in Task \cup {NoTask} /\ next[d] \in Task \cup {NoTask}
    BY Types, Zenon DEF CpuTypes
  <2>1. SleepersInSemWait'
    <3> SUFFICES ASSUME NEW t \in Task, state'[t] = BLOCKED PROVE InSemWait(t)'
      BY Zenon DEF SleepersInSemWait
    <3>1. CASE t = run[c]
      BY <1>4, <1>a, <3>1, Zenon DEF InSemWait, PickPCs, LbPCs
    <3>2. CASE t # run[c]
      <4>1. InSemWait(t) /\ home[t] \in CPU
        BY <1>1, <2>0, <3>2, Zenon DEF SleepInv, SleepersInSemWait, TaskTypes
      <4> QED BY <2>0, <3>2, <4>1, SleeperKept, Zenon
    <3> QED BY <3>1, <3>2, Zenon
  <2>2. WaitersSleep'
    <3> SUFFICES ASSUME NEW s \in Sem, waiter'[s] # NoTask
                 PROVE  <<waiter'[s], s>> \in Waits /\ state'[waiter'[s]] = BLOCKED
      BY Zenon DEF WaitersSleep
    <3>1. CASE s = sem[c]
      BY <1>a, <2>0, <3>1, Zenon
    <3>2. CASE s # sem[c]
      <4>1. waiter'[s] = waiter[s] /\ waiter[s] # run[c] /\ waiter[s] \in Task
        BY <1>d, <2>0, <2>a, <3>2, Zenon
      <4>2. <<waiter[s], s>> \in Waits /\ state[waiter[s]] = BLOCKED
        BY <1>1, <4>1, Zenon DEF SleepInv, WaitersSleep
      <4> QED BY <2>0, <4>1, <4>2, Zenon
    <3> QED BY <3>1, <3>2, Zenon
  <2>3. WokenSleep'
    <3> SUFFICES ASSUME NEW d \in CPU, w[d] # NoTask PROVE state'[w[d]] = BLOCKED
      BY <2>0, Zenon DEF WokenSleep
    <3>1. w[d] \in Task /\ w[d] # run[c] /\ state[w[d]] = BLOCKED
      BY <1>1, <1>d, <2>a, Zenon DEF SleepInv, WokenSleep
    <3> QED BY <2>0, <3>1, Zenon
  <2>4. SleepersWakeable'
    <3> SUFFICES ASSUME NEW t \in Task, state'[t] = BLOCKED
                 PROVE  (\E s \in Sem : waiter'[s] = t) \/ (\E d \in CPU : w[d] = t)
      BY <2>0, Zenon DEF SleepersWakeable
    <3>1. CASE t = run[c]
      BY <1>a, <2>0, <3>1, Zenon
    <3>2. CASE t # run[c]
      <4>1. (\E s \in Sem : waiter[s] = t) \/ (\E d \in CPU : w[d] = t)
        BY <1>1, <2>0, <3>2, Zenon DEF SleepInv, SleepersWakeable
      <4>2. ASSUME NEW s \in Sem, waiter[s] = t PROVE waiter'[s] = t
        BY <1>c, <2>0, <4>2, Zenon
      <4> QED BY <2>0, <4>1, <4>2, Zenon
    <3> QED BY <3>1, <3>2, Zenon
  <2>5. WaitersDistinct'
    <3> SUFFICES ASSUME NEW r \in Sem, NEW s \in Sem, waiter'[r] = waiter'[s],
                        waiter'[r] # NoTask
                 PROVE  r = s
      BY Zenon DEF WaitersDistinct
    <3>1. CASE r # sem[c] /\ s # sem[c]
      <4>1. waiter'[r] = waiter[r] /\ waiter'[s] = waiter[s]
        BY <2>0, <3>1, Zenon
      <4>2. waiter[r] = waiter[s] /\ waiter[r] # NoTask
        BY <4>1, Zenon
      <4> QED BY <1>1, <4>2, Zenon DEF SleepInv, WaitersDistinct
    <3>2. CASE r = sem[c] /\ s # sem[c]
      BY <1>d, <2>0, <3>2, Zenon
    <3>3. CASE r # sem[c] /\ s = sem[c]
      BY <1>d, <2>0, <3>3, Zenon
    <3> QED BY <3>1, <3>2, <3>3, Zenon
  <2>6. WokenDistinct'
    BY <1>1, <2>0, Zenon DEF SleepInv, WokenDistinct
  <2>7. WokenNotWaiting'
    <3> SUFFICES ASSUME NEW d \in CPU, NEW s \in Sem, w[d] = waiter'[s] PROVE w[d] = NoTask
      BY <2>0, Zenon DEF WokenNotWaiting
    <3>1. CASE s = sem[c]
      BY <1>d, <2>0, <3>1, Zenon
    <3>2. CASE s # sem[c]
      <4>1. w[d] = waiter[s]
        BY <2>0, <3>2, Zenon
      <4> QED BY <1>1, <4>1, Zenon DEF SleepInv, WokenNotWaiting
    <3> QED BY <3>1, <3>2, Zenon
  <2>8. PickedReady'
    <3> SUFFICES ASSUME NEW d \in CPU, next[d] # NoTask /\ next[d] # run[d]
                 PROVE  state'[next[d]] = READY
      BY <2>0, Zenon DEF PickedReady
    <3>1. state[next[d]] = READY /\ next[d] \in Task /\ next[d] # run[c]
      BY <1>1, <1>e, <2>a, Zenon DEF SleepInv, PickedReady
    <3> QED BY <2>0, <3>1, Zenon
  <2>9. VictimReady'
    <3> SUFFICES ASSUME pc'[0] = "mig_move" PROVE state'[lb.victim] = READY
      BY <1>4, Zenon DEF VictimReady
    <3>1. pc[0] = "mig_move"
      BY <1>4, BootCpu, Zenon
    <3>2. lb.victim \in Task /\ state[lb.victim] = READY
      BY <1>1, <3>1, Zenon DEF QueueInv, Balancing, SleepInv, VictimReady
    <3>3. lb.victim # run[c]
      BY <3>1, Zenon DEF NoLbRace, LbRace
    <3> QED BY <2>0, <3>2, <3>3, Zenon
  <2> QED BY <2>1, <2>2, <2>3, <2>4, <2>5, <2>6, <2>7, <2>8, <2>9, Zenon DEF SleepInv
<1>10. HomeInv'
  <2>1. UNCHANGED <<home, run, curr, next, w, wcpu>>
    BY <1>4, Zenon
  <2> QED BY <1>1, <2>1, Zenon DEF HomeInv, WakeLocksHome
<1> QED BY <1>3, <1>5, <1>6, <1>7, <1>8, <1>9, <1>10, Combine, Zenon

(* WaitLoop: the wfe loop ends. *)
LEMMA WaitLoopStep ==
    ASSUME TypeOK, IInv, NEW c \in CPU, WaitLoop(c)
    PROVE  TypeOK' /\ IInv'
<1>1. /\ HomeInv /\ FrameInv /\ SleepInv
      /\ CpuControl(c) /\ CpuLocks(c)
      /\ CpuTypes(c) /\ TaskTypes(run[c]) /\ \A t \in Task : TaskTypes(t)
  BY Types, AtCpu, Zenon DEF IInv, CpuTypes
<1>2. pc \in [CPU -> PCs]
  BY Zenon DEF TypeOK
<1>3. TypeOK'
  <2>1. pc' \in [CPU -> PCs]
    BY <1>1, <1>2, Zenon DEF WaitLoop, Goto, schedVars, switchVars, semVars, irqVars,
         maskVars, lockVars, PCs, Sites, CpuTypes, TaskTypes
  <2>2. TypeOK'
    BY <2>1, Zenon DEF TypeOK, WaitLoop, Goto, schedVars, switchVars, semVars, irqVars,
         maskVars, lockVars
  <2> QED BY <2>2, Zenon
<1>4. /\ pc[c] = "wait" /\ state[curr[c]] = READY
      /\ pc'[c] = "user"
      /\ \A d \in CPU \ {c} : pc'[d] = pc[d]
      /\ UNCHANGED <<run, curr, daif, active, site, next, prev, sem, w, wcpu, comps,
                     state, load, home, sp, flags, ipc, tasks, current_idx, accel_lock,
                     sem_lock, rq_lock, count, waiter, lb>>
  BY <1>2, Zenon DEF WaitLoop, Goto, schedVars, switchVars, semVars, irqVars, maskVars,
       lockVars
<1>5. ASSUME NEW d \in CPU \ {c} PROVE SameCpu(d)
  <2>1. run[d] \in Task /\ run[d] # run[c]
    BY Types, RunDistinct, Zenon DEF CpuTypes
  <2> QED BY <1>4, <2>1, Zenon DEF SameCpu
<1>6. CpuControl(c)'
  BY <1>1, <1>4, ZenonT(30) DEF CpuControl, CpuTypes, TaskTypes, PcAt, SiteAt, SwitchAt,
       SemAt, StackAt, PickPCs, LbPCs, WaitPCs, PostPCs, DispPCs, WakePCs
<1>7. CpuLocks(c)'
  <2>1. RqLockAt(c)'
    BY <1>1, <1>4, ZenonT(30) DEF CpuControl, CpuLocks, CpuTypes, SemAt, RqLockAt,
         HoldsRq, WakePCs
  <2>2. SemLockAt(c)'
    BY <1>1, <1>4, ZenonT(30) DEF CpuControl, CpuLocks, CpuTypes, SemAt, SemLockAt,
         SemHeldPCs, WaitPCs, PostPCs
  <2>3. AccelLockAt(c)'
    BY <1>1, <1>4, ZenonT(30) DEF CpuControl, CpuLocks, PcAt, SiteAt, AccelLockAt,
         PickPCs, LbPCs, WaitPCs, PostPCs, DispPCs
  <2> QED BY <2>1, <2>2, <2>3, Zenon DEF CpuLocks
<1>8. state[run[c]] # BLOCKED
  BY <1>1, <1>4, StatesDiffer, Zenon DEF CpuControl, SwitchAt
<1> QED BY <1>3, <1>4, <1>5, <1>6, <1>7, <1>8, Quiet, Zenon

(* sem_post: it masks IRQs before it takes the lock. *)
LEMMA sem_postStep ==
    ASSUME TypeOK, IInv, NEW c \in CPU, NEW s \in Sem, sem_post(c, s)
    PROVE  TypeOK' /\ IInv'
<1>1. /\ HomeInv /\ FrameInv /\ SleepInv
      /\ CpuControl(c) /\ CpuLocks(c)
      /\ CpuTypes(c) /\ TaskTypes(run[c]) /\ \A t \in Task : TaskTypes(t)
  BY Types, AtCpu, Zenon DEF IInv, CpuTypes
<1>2. /\ pc \in [CPU -> PCs] /\ flags \in [Task -> {"open", "masked"}]
      /\ daif \in [CPU -> {"open", "masked"}] /\ sem \in [CPU -> Sem \cup {NoSem}]
      /\ run \in [CPU -> Task]
  BY Zenon DEF TypeOK
<1>3. TypeOK'
  <2>1. /\ pc' \in [CPU -> PCs] /\ flags' \in [Task -> {"open", "masked"}]
        /\ daif' \in [CPU -> {"open", "masked"}] /\ sem' \in [CPU -> Sem \cup {NoSem}]
    BY <1>1, <1>2, Zenon DEF sem_post, Goto, irq_disable_save, schedVars, switchVars,
         semVars, irqVars, maskVars, lockVars, PCs, Sites, CpuTypes, TaskTypes
  <2>2. TypeOK'
    BY <2>1, Zenon DEF TypeOK, sem_post, Goto, irq_disable_save, schedVars, switchVars,
         semVars, irqVars, maskVars, lockVars
  <2> QED BY <2>2, Zenon
<1>4. /\ pc[c] = "user"
      /\ pc'[c] = "post_lock" /\ flags'[run[c]] = daif[c] /\ daif'[c] = "masked"
      /\ sem'[c] = s
      /\ \A d \in CPU \ {c} : pc'[d] = pc[d] /\ daif'[d] = daif[d] /\ sem'[d] = sem[d]
      /\ \A t \in Task \ {run[c]} : flags'[t] = flags[t]
      /\ UNCHANGED <<run, curr, active, site, next, prev, w, wcpu, comps, state, load,
                     home, sp, ipc, tasks, current_idx, accel_lock, sem_lock, rq_lock,
                     count, waiter, lb>>
  BY <1>2, Zenon DEF sem_post, Goto, irq_disable_save, schedVars, switchVars, semVars,
       irqVars, maskVars, lockVars
<1>5. ASSUME NEW d \in CPU \ {c} PROVE SameCpu(d)
  <2>1. run[d] \in Task /\ run[d] # run[c]
    BY Types, RunDistinct, Zenon DEF CpuTypes
  <2> QED BY <1>4, <2>1, Zenon DEF SameCpu
<1>6. CpuControl(c)'
  BY <1>1, <1>4, ZenonT(30) DEF CpuControl, CpuTypes, TaskTypes, PcAt, SiteAt, SwitchAt,
       SemAt, StackAt, PickPCs, LbPCs, WaitPCs, PostPCs, DispPCs, WakePCs
<1>7. CpuLocks(c)'
  <2>1. RqLockAt(c)'
    BY <1>1, <1>4, ZenonT(30) DEF CpuControl, CpuLocks, CpuTypes, SemAt, RqLockAt,
         HoldsRq, WakePCs
  <2>2. SemLockAt(c)'
    BY <1>1, <1>4, ZenonT(30) DEF CpuControl, CpuLocks, CpuTypes, SemAt, SemLockAt,
         SemHeldPCs, WaitPCs, PostPCs
  <2>3. AccelLockAt(c)'
    BY <1>1, <1>4, ZenonT(30) DEF CpuControl, CpuLocks, PcAt, SiteAt, AccelLockAt,
         PickPCs, LbPCs, WaitPCs, PostPCs, DispPCs
  <2> QED BY <2>1, <2>2, <2>3, Zenon DEF CpuLocks
<1>8. state[run[c]] = BLOCKED => InSemWait(run[c])'
  BY <1>1, <1>4, RunHere, ZenonT(30) DEF InSemWait, CpuTypes, CpuControl, StackAt,
       SwitchAt, PickPCs, LbPCs
<1> QED BY <1>3, <1>4, <1>5, <1>6, <1>7, <1>8, Quiet, Zenon

(* SemPostLock: the semaphore's lock, for sem_post. *)
LEMMA SemPostLockStep ==
    ASSUME TypeOK, IInv, NEW c \in CPU, SemPostLock(c)
    PROVE  TypeOK' /\ IInv'
<1>1. /\ HomeInv /\ FrameInv /\ SleepInv
      /\ CpuControl(c) /\ CpuLocks(c)
      /\ CpuTypes(c) /\ TaskTypes(run[c]) /\ \A t \in Task : TaskTypes(t)
  BY Types, AtCpu, Zenon DEF IInv, CpuTypes
<1>2. pc \in [CPU -> PCs] /\ sem_lock \in [Sem -> CPU \cup {NoCpu}]
  BY Zenon DEF TypeOK
<1>3. TypeOK'
  <2>1. pc' \in [CPU -> PCs] /\ sem_lock' \in [Sem -> CPU \cup {NoCpu}]
    BY <1>1, <1>2, Zenon DEF SemPostLock, spin_lock, Goto, schedVars, switchVars, semVars,
         irqVars, maskVars, lockVars, PCs, Sites, CpuTypes, TaskTypes
  <2>2. TypeOK'
    BY <2>1, Zenon DEF TypeOK, SemPostLock, spin_lock, Goto, schedVars, switchVars,
         semVars, irqVars, maskVars, lockVars
  <2> QED BY <2>2
<1>4. /\ pc[c] = "post_lock" /\ sem_lock[sem[c]] = NoCpu
      /\ \A s0 \in Sem : sem_lock'[s0] = IF s0 = sem[c] THEN c ELSE sem_lock[s0]
      /\ pc'[c] = "post_cs"
      /\ \A d \in CPU \ {c} : pc'[d] = pc[d]
      /\ UNCHANGED <<run, curr, daif, active, site, next, prev, sem, w, wcpu, comps,
                     state, load, home, sp, flags, ipc, tasks, current_idx, accel_lock,
                     rq_lock, count, waiter, lb>>
  BY <1>2, Zenon DEF SemPostLock, spin_lock, Goto, schedVars, switchVars, semVars,
       irqVars, maskVars, lockVars
<1>5. ASSUME NEW d \in CPU \ {c} PROVE SameCpu(d)
  <2>1. run[d] \in Task /\ run[d] # run[c]
    BY Types, RunDistinct, Zenon DEF CpuTypes
  <2> QED BY <1>4, <2>1, Zenon DEF SameCpu
<1>6. CpuControl(c)'
  BY <1>1, <1>4, ZenonT(30) DEF CpuControl, CpuTypes, TaskTypes, PcAt, SiteAt, SwitchAt,
       SemAt, StackAt, PickPCs, LbPCs, WaitPCs, PostPCs, DispPCs, WakePCs
<1>7. CpuLocks(c)'
  <2>1. RqLockAt(c)'
    BY <1>1, <1>4, ZenonT(30) DEF CpuControl, CpuLocks, CpuTypes, SemAt, RqLockAt,
         HoldsRq, WakePCs
  <2>2. SemLockAt(c)'
    BY <1>1, <1>4, ZenonT(30) DEF CpuControl, CpuLocks, CpuTypes, SemAt, SemLockAt,
         SemHeldPCs, WaitPCs, PostPCs
  <2>3. AccelLockAt(c)'
    BY <1>1, <1>4, ZenonT(30) DEF CpuControl, CpuLocks, PcAt, SiteAt, AccelLockAt,
         PickPCs, LbPCs, WaitPCs, PostPCs, DispPCs
  <2> QED BY <2>1, <2>2, <2>3, Zenon DEF CpuLocks
<1>8. state[run[c]] = BLOCKED => InSemWait(run[c])'
  BY <1>1, <1>4, RunHere, ZenonT(30) DEF InSemWait, CpuTypes, CpuControl, StackAt,
       SwitchAt, PickPCs, LbPCs
<1> QED BY <1>3, <1>4, <1>5, <1>6, <1>7, <1>8, Quiet, Zenon

(* PostCount: nobody waits. *)
LEMMA PostCountStep ==
    ASSUME TypeOK, IInv, NEW c \in CPU, PostCount(c)
    PROVE  TypeOK' /\ IInv'
<1>1. /\ HomeInv /\ FrameInv /\ SleepInv
      /\ CpuControl(c) /\ CpuLocks(c)
      /\ CpuTypes(c) /\ TaskTypes(run[c]) /\ \A t \in Task : TaskTypes(t)
  BY Types, AtCpu, Zenon DEF IInv, CpuTypes
<1>2. pc \in [CPU -> PCs] /\ count \in [Sem -> Nat]
  BY Zenon DEF TypeOK
<1>3. TypeOK'
  <2>1. pc' \in [CPU -> PCs]
    BY <1>1, <1>2, Zenon DEF PostCount, Goto, schedVars, switchVars, semVars, irqVars,
         maskVars, lockVars, PCs, Sites, CpuTypes, TaskTypes
  <2>3. pc[c] \in WaitPCs \cup PostPCs => sem[c] \in Sem
    BY <1>1, ZenonT(30) DEF CpuControl, CpuTypes, SemAt
  <2>4. count' \in [Sem -> Nat]
    <3>1. count' = [count EXCEPT ![sem[c]] = @ + 1] /\ pc[c] \in WaitPCs \cup PostPCs
      BY Zenon DEF PostCount, WaitPCs, PostPCs
    <3> QED BY <1>2, <2>3, <3>1, CountUp, Zenon
  <2>2. TypeOK'
    BY <2>1, <2>4, Zenon DEF TypeOK, PostCount, Goto, schedVars, switchVars, semVars,
         irqVars, maskVars, lockVars
  <2> QED BY <2>2, Zenon
<1>4. /\ pc[c] = "post_cs"
      /\ pc'[c] = "post_unlock"
      /\ \A d \in CPU \ {c} : pc'[d] = pc[d]
      /\ UNCHANGED <<run, curr, daif, active, site, next, prev, sem, w, wcpu, comps,
                     state, load, home, sp, flags, ipc, tasks, current_idx, accel_lock,
                     sem_lock, rq_lock, waiter, lb>>
  BY <1>2, Zenon DEF PostCount, Goto, schedVars, switchVars, semVars, irqVars, maskVars,
       lockVars
<1>5. ASSUME NEW d \in CPU \ {c} PROVE SameCpu(d)
  <2>1. run[d] \in Task /\ run[d] # run[c]
    BY Types, RunDistinct, Zenon DEF CpuTypes
  <2> QED BY <1>4, <2>1, Zenon DEF SameCpu
<1>6. CpuControl(c)'
  BY <1>1, <1>4, ZenonT(30) DEF CpuControl, CpuTypes, TaskTypes, PcAt, SiteAt, SwitchAt,
       SemAt, StackAt, PickPCs, LbPCs, WaitPCs, PostPCs, DispPCs, WakePCs
<1>7. CpuLocks(c)'
  <2>1. RqLockAt(c)'
    BY <1>1, <1>4, ZenonT(30) DEF CpuControl, CpuLocks, CpuTypes, SemAt, RqLockAt,
         HoldsRq, WakePCs
  <2>2. SemLockAt(c)'
    BY <1>1, <1>4, ZenonT(30) DEF CpuControl, CpuLocks, CpuTypes, SemAt, SemLockAt,
         SemHeldPCs, WaitPCs, PostPCs
  <2>3. AccelLockAt(c)'
    BY <1>1, <1>4, ZenonT(30) DEF CpuControl, CpuLocks, PcAt, SiteAt, AccelLockAt,
         PickPCs, LbPCs, WaitPCs, PostPCs, DispPCs
  <2> QED BY <2>1, <2>2, <2>3, Zenon DEF CpuLocks
<1>8. state[run[c]] = BLOCKED => InSemWait(run[c])'
  BY <1>1, <1>4, RunHere, ZenonT(30) DEF InSemWait, CpuTypes, CpuControl, StackAt,
       SwitchAt, PickPCs, LbPCs
<1> QED BY <1>3, <1>4, <1>5, <1>6, <1>7, <1>8, Quiet, Zenon

(* PostWaiter: the waiter is handed to sched_wake. *)
LEMMA PostWaiterStep ==
    ASSUME TypeOK, IInv, NEW c \in CPU, PostWaiter(c)
    PROVE  TypeOK' /\ IInv'
<1>1. /\ HomeInv /\ FrameInv /\ SleepInv
      /\ CpuControl(c) /\ CpuLocks(c)
      /\ CpuTypes(c) /\ TaskTypes(run[c]) /\ \A t \in Task : TaskTypes(t)
  BY Types, AtCpu, Zenon DEF IInv, CpuTypes
<1>2. /\ pc \in [CPU -> PCs] /\ w \in [CPU -> Task \cup {NoTask}]
      /\ wcpu \in [CPU -> CPU \cup {NoCpu}] /\ waiter \in [Sem -> Task \cup {NoTask}]
  BY Zenon DEF TypeOK
<1>a. /\ sem[c] \in Sem /\ w[c] = NoTask /\ waiter[sem[c]] \in Task
      /\ home[waiter[sem[c]]] \in CPU
  BY <1>1, Types, ZenonT(30) DEF PostWaiter, CpuControl, CpuTypes, TaskTypes, SemAt,
       PostPCs, WaitPCs, WakePCs
<1>3. TypeOK'
  <2>1. /\ pc' \in [CPU -> PCs] /\ w' \in [CPU -> Task \cup {NoTask}]
        /\ wcpu' \in [CPU -> CPU \cup {NoCpu}] /\ waiter' \in [Sem -> Task \cup {NoTask}]
    BY <1>1, <1>2, <1>a, Zenon DEF PostWaiter, Goto, schedVars, switchVars, semVars,
         irqVars, maskVars, lockVars, PCs, Sites, CpuTypes, TaskTypes
  <2>2. TypeOK'
    BY <2>1, Zenon DEF TypeOK, PostWaiter, Goto, schedVars, switchVars, semVars, irqVars,
         maskVars, lockVars
  <2> QED BY <2>2
<1>4. /\ pc[c] = "post_cs" /\ waiter[sem[c]] # NoTask
      /\ \A s0 \in Sem : waiter'[s0] = IF s0 = sem[c] THEN NoTask ELSE waiter[s0]
      /\ pc'[c] = "wake_lock" /\ w'[c] = waiter[sem[c]] /\ wcpu'[c] = home[waiter[sem[c]]]
      /\ \A d \in CPU \ {c} : pc'[d] = pc[d] /\ w'[d] = w[d] /\ wcpu'[d] = wcpu[d]
      /\ waiter[sem[c]] \in Task /\ home[waiter[sem[c]]] \in CPU
      /\ UNCHANGED <<run, curr, daif, active, site, next, prev, sem, comps, state, load,
                     home, sp, flags, ipc, tasks, current_idx, accel_lock, sem_lock,
                     rq_lock, count, lb>>
  BY <1>2, <1>a, Zenon DEF PostWaiter, Goto, schedVars, switchVars, semVars, irqVars,
       maskVars, lockVars
<1>5. ASSUME NEW d \in CPU \ {c} PROVE SameCpu(d)
  <2>1. run[d] \in Task /\ run[d] # run[c]
    BY Types, RunDistinct, Zenon DEF CpuTypes
  <2> QED BY <1>4, <2>1, Zenon DEF SameCpu
<1>6. CpuControl(c)'
  BY <1>1, <1>4, ZenonT(30) DEF CpuControl, CpuTypes, TaskTypes, PcAt, SiteAt, SwitchAt,
       SemAt, StackAt, PickPCs, LbPCs, WaitPCs, PostPCs, DispPCs, WakePCs
<1>7. CpuLocks(c)'
  <2>1. RqLockAt(c)'
    BY <1>1, <1>4, ZenonT(30) DEF CpuControl, CpuLocks, CpuTypes, SemAt, RqLockAt,
         HoldsRq, WakePCs
  <2>2. SemLockAt(c)'
    BY <1>1, <1>4, ZenonT(30) DEF CpuControl, CpuLocks, CpuTypes, SemAt, SemLockAt,
         SemHeldPCs, WaitPCs, PostPCs
  <2>3. AccelLockAt(c)'
    BY <1>1, <1>4, ZenonT(30) DEF CpuControl, CpuLocks, PcAt, SiteAt, AccelLockAt,
         PickPCs, LbPCs, WaitPCs, PostPCs, DispPCs
  <2> QED BY <2>1, <2>2, <2>3, Zenon DEF CpuLocks
<1>8. FrameInv'
  <2>1. \A t \in Task : run[home[t]] # t => t # run[c]
    BY <1>1, Zenon DEF HomeInv
  <2>2. \A t \in Task : run[home[t]] # t => flags'[t] = flags[t] /\ ipc'[t] = ipc[t]
    BY <1>4, <2>1, Zenon
  <2>3. UNCHANGED <<home, run, sp>>
    BY <1>4, Zenon
  <2> QED BY <1>1, <2>2, <2>3, FrameKept, Zenon
<1>9. SleepInv'
  <2>0. /\ waiter'[sem[c]] = NoTask /\ w'[c] = waiter[sem[c]]
        /\ \A s \in Sem : s # sem[c] => waiter'[s] = waiter[s]
        /\ \A d \in CPU : d # c => w'[d] = w[d]
        /\ UNCHANGED <<state, next, home, run, sp, ipc, site>>
    BY <1>4, <1>a, Zenon
  <2>9. state[waiter[sem[c]]] = BLOCKED
    BY <1>1, <1>4, <1>a, Zenon DEF SleepInv, WaitersSleep
  <2>1. SleepersInSemWait'
    <3> SUFFICES ASSUME NEW t \in Task, state'[t] = BLOCKED PROVE InSemWait(t)'
      BY Zenon DEF SleepersInSemWait
    <3>1. InSemWait(t) /\ home[t] \in CPU
      BY <1>1, <2>0, Zenon DEF SleepInv, SleepersInSemWait, TaskTypes
    <3>2. CASE t = run[c]
      BY <1>1, <1>4, <2>0, <3>1, <3>2, Zenon DEF InSemWait, HomeInv, PickPCs, LbPCs
    <3>3. CASE t # run[c]
      BY <1>4, <2>0, <3>1, <3>3, SleeperKept, Zenon
    <3> QED BY <3>2, <3>3, Zenon
  <2>2. WaitersSleep'
    <3> SUFFICES ASSUME NEW s \in Sem, waiter'[s] # NoTask
                 PROVE  <<waiter'[s], s>> \in Waits /\ state'[waiter'[s]] = BLOCKED
      BY Zenon DEF WaitersSleep
    <3>1. waiter'[s] = waiter[s] /\ waiter[s] # NoTask
      BY <2>0, Zenon
    <3>2. <<waiter[s], s>> \in Waits /\ state[waiter[s]] = BLOCKED
      BY <1>1, <3>1, Zenon DEF SleepInv, WaitersSleep
    <3> QED BY <2>0, <3>1, <3>2, Zenon
  <2>3. WokenSleep'
    <3> SUFFICES ASSUME NEW d \in CPU, w'[d] # NoTask PROVE state'[w'[d]] = BLOCKED
      BY Zenon DEF WokenSleep
    <3>1. CASE d = c
      BY <2>0, <2>9, <3>1, Zenon
    <3>2. CASE d # c
      BY <1>1, <2>0, <3>2, Zenon DEF SleepInv, WokenSleep
    <3> QED BY <3>1, <3>2, Zenon
  <2>4. SleepersWakeable'
    <3> SUFFICES ASSUME NEW t \in Task, state'[t] = BLOCKED
                 PROVE  (\E s \in Sem : waiter'[s] = t) \/ (\E d \in CPU : w'[d] = t)
      BY Zenon DEF SleepersWakeable
    <3>1. (\E s \in Sem : waiter[s] = t) \/ (\E d \in CPU : w[d] = t)
      BY <1>1, <2>0, Zenon DEF SleepInv, SleepersWakeable
    <3>2. ASSUME NEW s \in Sem, waiter[s] = t PROVE waiter'[s] = t \/ w'[c] = t
      BY <2>0, <3>2, Zenon
    <3>3. ASSUME NEW d \in CPU, w[d] = t PROVE w'[d] = t
      BY <1>a, <2>0, <3>3, Zenon
    <3> QED BY <3>1, <3>2, <3>3, Zenon
  <2>5. WaitersDistinct'
    <3> SUFFICES ASSUME NEW r \in Sem, NEW s \in Sem, waiter'[r] = waiter'[s],
                        waiter'[r] # NoTask
                 PROVE  r = s
      BY Zenon DEF WaitersDistinct
    <3>1. waiter'[r] = waiter[r] /\ waiter'[s] = waiter[s]
      BY <2>0, Zenon
    <3>2. waiter[r] = waiter[s] /\ waiter[r] # NoTask
      BY <3>1, Zenon
    <3> QED BY <1>1, <3>2, Zenon DEF SleepInv, WaitersDistinct
  <2>b. ASSUME NEW d \in CPU, d # c PROVE w'[d] # w'[c]
    <3>1. waiter[sem[c]] # NoTask
      BY <1>a, Zenon
    <3>2. w[d] # waiter[sem[c]]
      BY <1>1, <1>a, <3>1, Zenon DEF SleepInv, WokenNotWaiting
    <3> QED BY <2>0, <2>b, <3>2, Zenon
  <2>6. WokenDistinct'
    <3> SUFFICES ASSUME NEW d \in CPU, NEW e \in CPU, w'[d] = w'[e], w'[d] # NoTask
                 PROVE  d = e
      BY Zenon DEF WokenDistinct
    <3>1. CASE d # c /\ e # c
      <4>1. w'[d] = w[d] /\ w'[e] = w[e]
        BY <2>0, <3>1, Zenon
      <4>2. w[d] = w[e] /\ w[d] # NoTask
        BY <4>1, Zenon
      <4> QED BY <1>1, <4>2, Zenon DEF SleepInv, WokenDistinct
    <3>2. CASE d = c \/ e = c
      BY <2>b, <3>2, Zenon
    <3> QED BY <3>1, <3>2, Zenon
  <2>7. WokenNotWaiting'
    <3> SUFFICES ASSUME NEW d \in CPU, NEW s \in Sem, w'[d] = waiter'[s]
                 PROVE  w'[d] = NoTask
      BY Zenon DEF WokenNotWaiting
    <3>1. CASE s = sem[c]
      BY <2>0, <3>1, Zenon
    <3>2. CASE s # sem[c] /\ d = c
      <4>1. waiter[sem[c]] = waiter[s] /\ waiter[sem[c]] # NoTask
        BY <1>a, <2>0, <3>2, Zenon
      <4> QED BY <1>1, <1>a, <3>2, <4>1, Zenon DEF SleepInv, WaitersDistinct
    <3>3. CASE s # sem[c] /\ d # c
      <4>1. w[d] = waiter[s] /\ w'[d] = w[d]
        BY <2>0, <3>3, Zenon
      <4> QED BY <1>1, <4>1, Zenon DEF SleepInv, WokenNotWaiting
    <3> QED BY <3>1, <3>2, <3>3, Zenon
  <2>8. PickedReady'
    BY <1>1, <2>0, Zenon DEF SleepInv, PickedReady
  <2>c. VictimReady'
    BY <1>4, VictimKept, Zenon
  <2> QED BY <2>1, <2>2, <2>3, <2>4, <2>5, <2>6, <2>7, <2>8, <2>c, Zenon DEF SleepInv
<1>10. HomeInv'
  <2>1. WakeLocksHome'
    <3> SUFFICES ASSUME NEW d \in CPU, w'[d] # NoTask PROVE home'[w'[d]] = wcpu'[d]
      BY Zenon DEF WakeLocksHome
    <3>1. CASE d = c
      BY <1>4, <3>1, Zenon
    <3>2. CASE d # c
      BY <1>1, <1>4, <3>2, Zenon DEF HomeInv, WakeLocksHome
    <3> QED BY <3>1, <3>2, Zenon
  <2>2. UNCHANGED <<home, run, curr, next>>
    BY <1>4, Zenon
  <2> QED BY <1>1, <2>1, <2>2, Zenon DEF HomeInv
<1> QED BY <1>3, <1>5, <1>6, <1>7, <1>8, <1>9, <1>10, Combine, Zenon

(* WakeLock: the lock of the waiter's home queue. *)
LEMMA WakeLockStep ==
    ASSUME TypeOK, IInv, NEW c \in CPU, WakeLock(c)
    PROVE  TypeOK' /\ IInv'
<1>1. /\ HomeInv /\ FrameInv /\ SleepInv
      /\ CpuControl(c) /\ CpuLocks(c)
      /\ CpuTypes(c) /\ TaskTypes(run[c]) /\ \A t \in Task : TaskTypes(t)
  BY Types, AtCpu, Zenon DEF IInv, CpuTypes
<1>2. pc \in [CPU -> PCs] /\ rq_lock \in [CPU -> CPU \cup {NoCpu}]
  BY Zenon DEF TypeOK
<1>3. TypeOK'
  <2>1. pc' \in [CPU -> PCs] /\ rq_lock' \in [CPU -> CPU \cup {NoCpu}]
    BY <1>1, <1>2, Zenon DEF WakeLock, spin_lock, Goto, schedVars, switchVars, semVars,
         irqVars, maskVars, lockVars, PCs, Sites, CpuTypes, TaskTypes
  <2>2. TypeOK'
    BY <2>1, Zenon DEF TypeOK, WakeLock, spin_lock, Goto, schedVars, switchVars, semVars,
         irqVars, maskVars, lockVars
  <2> QED BY <2>2, Zenon
<1>4. /\ pc[c] = "wake_lock" /\ rq_lock[wcpu[c]] = NoCpu
      /\ \A d \in CPU : rq_lock'[d] = IF d = wcpu[c] THEN c ELSE rq_lock[d]
      /\ pc'[c] = "wake_cs"
      /\ \A d \in CPU \ {c} : pc'[d] = pc[d]
      /\ UNCHANGED <<run, curr, daif, active, site, next, prev, sem, w, wcpu, comps,
                     state, load, home, sp, flags, ipc, tasks, current_idx, accel_lock,
                     sem_lock, count, waiter, lb>>
  BY <1>2, Zenon DEF WakeLock, spin_lock, Goto, schedVars, switchVars, semVars, irqVars,
       maskVars, lockVars
<1>5. ASSUME NEW d \in CPU \ {c} PROVE SameCpu(d)
  <2>1. run[d] \in Task /\ run[d] # run[c]
    BY Types, RunDistinct, Zenon DEF CpuTypes
  <2> QED BY <1>4, <2>1, Zenon DEF SameCpu
<1>6. CpuControl(c)'
  BY <1>1, <1>4, ZenonT(30) DEF CpuControl, CpuTypes, TaskTypes, PcAt, SiteAt, SwitchAt,
       SemAt, StackAt, PickPCs, LbPCs, WaitPCs, PostPCs, DispPCs, WakePCs
<1>7. CpuLocks(c)'
  <2>1. RqLockAt(c)'
    BY <1>1, <1>4, ZenonT(30) DEF CpuControl, CpuLocks, CpuTypes, SemAt, RqLockAt,
         HoldsRq, WakePCs
  <2>2. SemLockAt(c)'
    BY <1>1, <1>4, ZenonT(30) DEF CpuControl, CpuLocks, CpuTypes, SemAt, SemLockAt,
         SemHeldPCs, WaitPCs, PostPCs
  <2>3. AccelLockAt(c)'
    BY <1>1, <1>4, ZenonT(30) DEF CpuControl, CpuLocks, PcAt, SiteAt, AccelLockAt,
         PickPCs, LbPCs, WaitPCs, PostPCs, DispPCs
  <2> QED BY <2>1, <2>2, <2>3, Zenon DEF CpuLocks
<1>8. state[run[c]] = BLOCKED => InSemWait(run[c])'
  BY <1>1, <1>4, RunHere, ZenonT(30) DEF InSemWait, CpuTypes, CpuControl, StackAt,
       SwitchAt, PickPCs, LbPCs
<1> QED BY <1>3, <1>4, <1>5, <1>6, <1>7, <1>8, Quiet, Zenon

(* sched_wake: the waiter becomes READY and is in nobody's hands. *)
LEMMA sched_wakeStep ==
    ASSUME TypeOK, IInv, QueueInv, NEW c \in CPU, sched_wake(c)
    PROVE  TypeOK' /\ IInv'
<1>1. /\ HomeInv /\ FrameInv /\ SleepInv
      /\ CpuControl(c) /\ CpuLocks(c)
      /\ CpuTypes(c) /\ TaskTypes(run[c]) /\ \A t \in Task : TaskTypes(t)
  BY Types, AtCpu, Zenon DEF IInv, CpuTypes
<1>2. /\ pc \in [CPU -> PCs] /\ state \in [Task -> {READY, BLOCKED}]
      /\ rq_lock \in [CPU -> CPU \cup {NoCpu}] /\ w \in [CPU -> Task \cup {NoTask}]
      /\ wcpu \in [CPU -> CPU \cup {NoCpu}]
  BY Zenon DEF TypeOK
<1>a. w[c] \in Task /\ wcpu[c] \in CPU /\ rq_lock[wcpu[c]] = c
  BY <1>1, ZenonT(30) DEF sched_wake, CpuControl, CpuLocks, CpuTypes, SemAt, WakePCs,
       RqLockAt, HoldsRq
<1>3. TypeOK'
  <2>1. /\ pc' \in [CPU -> PCs] /\ state' \in [Task -> {READY, BLOCKED}]
        /\ rq_lock' \in [CPU -> CPU \cup {NoCpu}] /\ w' \in [CPU -> Task \cup {NoTask}]
        /\ wcpu' \in [CPU -> CPU \cup {NoCpu}]
    BY <1>1, <1>2, <1>a, Zenon DEF sched_wake, Goto, spin_unlock, schedVars, switchVars,
         semVars, irqVars, maskVars, lockVars, PCs, Sites, CpuTypes, TaskTypes
  <2>2. TypeOK'
    BY <2>1, Zenon DEF TypeOK, sched_wake, Goto, spin_unlock, schedVars, switchVars,
         semVars, irqVars, maskVars, lockVars
  <2> QED BY <2>2, Zenon
<1>4. /\ pc[c] = "wake_cs"
      /\ \A t \in Task : state'[t] = IF t = w[c] THEN READY ELSE state[t]
      /\ \A d \in CPU : rq_lock'[d] = IF d = wcpu[c] THEN NoCpu ELSE rq_lock[d]
      /\ pc'[c] = "post_unlock" /\ w'[c] = NoTask /\ wcpu'[c] = NoCpu
      /\ \A d \in CPU \ {c} : pc'[d] = pc[d] /\ w'[d] = w[d] /\ wcpu'[d] = wcpu[d]
      /\ UNCHANGED <<run, curr, daif, active, site, next, prev, sem, comps, load, home,
                     sp, flags, ipc, tasks, current_idx, accel_lock, sem_lock, count,
                     waiter, lb>>
  BY <1>2, <1>a, Zenon DEF sched_wake, Goto, spin_unlock, schedVars, switchVars, semVars,
       irqVars, maskVars, lockVars
<1>5. ASSUME NEW d \in CPU \ {c} PROVE SameCpu(d)
  <2>1. run[d] \in Task /\ run[d] # run[c]
    BY Types, RunDistinct, Zenon DEF CpuTypes
  <2> QED BY <1>4, <1>a, <2>1, Zenon DEF SameCpu
<1>6. CpuControl(c)'
  BY <1>1, <1>4, ZenonT(30) DEF CpuControl, CpuTypes, TaskTypes, PcAt, SiteAt, SwitchAt,
       SemAt, StackAt, PickPCs, LbPCs, WaitPCs, PostPCs, DispPCs, WakePCs
<1>7. CpuLocks(c)'
  <2>1. RqLockAt(c)'
    BY <1>1, <1>4, ZenonT(30) DEF CpuControl, CpuLocks, CpuTypes, SemAt, RqLockAt,
         HoldsRq, WakePCs
  <2>2. SemLockAt(c)'
    BY <1>1, <1>4, ZenonT(30) DEF CpuControl, CpuLocks, CpuTypes, SemAt, SemLockAt,
         SemHeldPCs, WaitPCs, PostPCs
  <2>3. AccelLockAt(c)'
    BY <1>1, <1>4, ZenonT(30) DEF CpuControl, CpuLocks, PcAt, SiteAt, AccelLockAt,
         PickPCs, LbPCs, WaitPCs, PostPCs, DispPCs
  <2> QED BY <2>1, <2>2, <2>3, Zenon DEF CpuLocks
<1>8. FrameInv'
  <2>1. \A t \in Task : run[home[t]] # t => t # run[c]
    BY <1>1, Zenon DEF HomeInv
  <2>2. \A t \in Task : run[home[t]] # t => flags'[t] = flags[t] /\ ipc'[t] = ipc[t]
    BY <1>4, <2>1, Zenon
  <2>3. UNCHANGED <<home, run, sp>>
    BY <1>4, Zenon
  <2> QED BY <1>1, <2>2, <2>3, FrameKept, Zenon
<1>9. SleepInv'
  <2>0. /\ state'[w[c]] = READY /\ w'[c] = NoTask
        /\ \A t \in Task : t # w[c] => state'[t] = state[t]
        /\ \A d \in CPU : d # c => w'[d] = w[d]
        /\ UNCHANGED <<waiter, next, home, run, sp, ipc, site>>
    BY <1>4, <1>a, Zenon
  <2>a. /\ \A s \in Sem : waiter[s] \in Task \cup {NoTask}
        /\ \A d \in CPU : w[d] \in Task \cup {NoTask} /\ next[d] \in Task \cup {NoTask}
    BY Types, Zenon DEF CpuTypes
  <2>b. \A s \in Sem : waiter[s] # w[c]
    BY <1>1, <1>a, Zenon DEF SleepInv, WokenNotWaiting
  <2>c. \A d \in CPU : d # c => w[d] # w[c]
    BY <1>1, <1>a, Zenon DEF SleepInv, WokenDistinct
  <2>1. SleepersInSemWait'
    <3> SUFFICES ASSUME NEW t \in Task, state'[t] = BLOCKED PROVE InSemWait(t)'
      BY Zenon DEF SleepersInSemWait
    <3>1. InSemWait(t) /\ home[t] \in CPU
      BY <1>1, <2>0, StatesDiffer, Zenon DEF SleepInv, SleepersInSemWait, TaskTypes
    <3>2. CASE t = run[c]
      BY <1>1, <1>4, <2>0, <3>1, <3>2, Zenon DEF InSemWait, HomeInv, PickPCs, LbPCs
    <3>3. CASE t # run[c]
      BY <1>4, <2>0, <3>1, <3>3, SleeperKept, Zenon
    <3> QED BY <3>2, <3>3, Zenon
  <2>2. WaitersSleep'
    <3> SUFFICES ASSUME NEW s \in Sem, waiter[s] # NoTask
                 PROVE  <<waiter[s], s>> \in Waits /\ state'[waiter[s]] = BLOCKED
      BY <2>0, Zenon DEF WaitersSleep
    <3>1. waiter[s] \in Task /\ waiter[s] # w[c]
      BY <2>a, <2>b, Zenon
    <3> QED BY <1>1, <2>0, <3>1, Zenon DEF SleepInv, WaitersSleep
  <2>3. WokenSleep'
    <3> SUFFICES ASSUME NEW d \in CPU, w'[d] # NoTask PROVE state'[w'[d]] = BLOCKED
      BY Zenon DEF WokenSleep
    <3>1. d # c /\ w'[d] = w[d]
      BY <2>0, Zenon
    <3>2. w[d] # NoTask /\ w[d] \in Task /\ w[d] # w[c]
      BY <2>a, <2>c, <3>1, Zenon
    <3>3. state[w[d]] = BLOCKED
      BY <1>1, <3>2, Zenon DEF SleepInv, WokenSleep
    <3> QED BY <2>0, <3>1, <3>2, <3>3, Zenon
  <2>4. SleepersWakeable'
    <3> SUFFICES ASSUME NEW t \in Task, state'[t] = BLOCKED
                 PROVE  (\E s \in Sem : waiter'[s] = t) \/ (\E d \in CPU : w'[d] = t)
      BY Zenon DEF SleepersWakeable
    <3>1. t # w[c] /\ ((\E s \in Sem : waiter[s] = t) \/ (\E d \in CPU : w[d] = t))
      BY <1>1, <2>0, StatesDiffer, Zenon DEF SleepInv, SleepersWakeable
    <3> QED BY <2>0, <3>1, Zenon
  <2>5. WaitersDistinct'
    BY <1>1, <2>0, Zenon DEF SleepInv, WaitersDistinct
  <2>6. WokenDistinct'
    <3> SUFFICES ASSUME NEW d \in CPU, NEW e \in CPU, w'[d] = w'[e], w'[d] # NoTask
                 PROVE  d = e
      BY Zenon DEF WokenDistinct
    <3>1. w'[d] = w[d] /\ w'[e] = w[e]
      BY <2>0, Zenon
    <3>2. w[d] = w[e] /\ w[d] # NoTask
      BY <3>1, Zenon
    <3> QED BY <1>1, <3>2, Zenon DEF SleepInv, WokenDistinct
  <2>7. WokenNotWaiting'
    <3> SUFFICES ASSUME NEW d \in CPU, NEW s \in Sem, w'[d] = waiter[s] PROVE w'[d] = NoTask
      BY <2>0, Zenon DEF WokenNotWaiting
    <3>1. CASE d = c
      BY <2>0, <3>1, Zenon
    <3>2. CASE d # c
      <4>1. w[d] = waiter[s] /\ w'[d] = w[d]
        BY <2>0, <3>2, Zenon
      <4> QED BY <1>1, <4>1, Zenon DEF SleepInv, WokenNotWaiting
    <3> QED BY <3>1, <3>2, Zenon
  <2>8. PickedReady'
    <3> SUFFICES ASSUME NEW d \in CPU, next[d] # NoTask /\ next[d] # run[d]
                 PROVE  state'[next[d]] = READY
      BY <2>0, Zenon DEF PickedReady
    <3>1. state[next[d]] = READY /\ next[d] \in Task
      BY <1>1, <2>a, Zenon DEF SleepInv, PickedReady
    <3> QED BY <2>0, <3>1, Zenon
  <2>9. VictimReady'
    <3> SUFFICES ASSUME pc'[0] = "mig_move" PROVE state'[lb.victim] = READY
      BY <1>4, Zenon DEF VictimReady
    <3>1. pc[0] = "mig_move"
      BY <1>4, BootCpu, Zenon
    <3>2. lb.victim \in Task /\ state[lb.victim] = READY
      BY <1>1, <3>1, Zenon DEF QueueInv, Balancing, SleepInv, VictimReady
    <3> QED BY <2>0, <3>2, Zenon
  <2> QED BY <2>1, <2>2, <2>3, <2>4, <2>5, <2>6, <2>7, <2>8, <2>9, Zenon DEF SleepInv
<1>10. HomeInv'
  <2>1. WakeLocksHome'
    <3> SUFFICES ASSUME NEW d \in CPU, w'[d] # NoTask PROVE home'[w'[d]] = wcpu'[d]
      BY Zenon DEF WakeLocksHome
    <3>1. d # c
      BY <1>4, Zenon
    <3> QED BY <1>1, <1>4, <3>1, Zenon DEF HomeInv, WakeLocksHome
  <2>2. UNCHANGED <<home, run, curr, next>>
    BY <1>4, Zenon
  <2> QED BY <1>1, <2>1, <2>2, Zenon DEF HomeInv
<1> QED BY <1>3, <1>5, <1>6, <1>7, <1>8, <1>9, <1>10, Combine, Zenon

(* SemPostUnlock: back to the caller of sem_post: a task, or the dispatcher. *)
LEMMA SemPostUnlockStep ==
    ASSUME TypeOK, IInv, NEW c \in CPU, SemPostUnlock(c)
    PROVE  TypeOK' /\ IInv'
<1>1. /\ HomeInv /\ FrameInv /\ SleepInv
      /\ CpuControl(c) /\ CpuLocks(c)
      /\ CpuTypes(c) /\ TaskTypes(run[c]) /\ \A t \in Task : TaskTypes(t)
  BY Types, AtCpu, Zenon DEF IInv, CpuTypes
<1>2. /\ pc \in [CPU -> PCs] /\ sem_lock \in [Sem -> CPU \cup {NoCpu}]
      /\ sem \in [CPU -> Sem \cup {NoSem}] /\ daif \in [CPU -> {"open", "masked"}]
      /\ flags \in [Task -> {"open", "masked"}] /\ run \in [CPU -> Task]
  BY Zenon DEF TypeOK
<1>3. TypeOK'
  <2>1. /\ pc' \in [CPU -> PCs] /\ sem_lock' \in [Sem -> CPU \cup {NoCpu}]
        /\ sem' \in [CPU -> Sem \cup {NoSem}] /\ daif' \in [CPU -> {"open", "masked"}]
        /\ flags' \in [Task -> {"open", "masked"}]
    BY <1>1, <1>2, Zenon DEF SemPostUnlock, Goto, spin_unlock, irq_restore, schedVars,
         switchVars, semVars, irqVars, maskVars, lockVars, PCs, Sites, CpuTypes, TaskTypes
  <2>2. TypeOK'
    BY <2>1, Zenon DEF TypeOK, SemPostUnlock, Goto, spin_unlock, irq_restore, schedVars,
         switchVars, semVars, irqVars, maskVars, lockVars
  <2> QED BY <2>2, Zenon
<1>4. /\ pc[c] = "post_unlock"
      /\ \A s0 \in Sem : sem_lock'[s0] = IF s0 = sem[c] THEN NoCpu ELSE sem_lock[s0]
      /\ pc'[c] = (IF accel_lock = c THEN "disp_cs" ELSE "user") /\ sem'[c] = NoSem
      /\ \A d \in CPU \ {c} : pc'[d] = pc[d] /\ sem'[d] = sem[d]
      /\ accel_lock # c => daif'[c] = flags[run[c]] /\ flags'[run[c]] = "open" 
      /\ accel_lock = c => UNCHANGED <<daif, flags>>
      /\ \A d \in CPU \ {c} : daif'[d] = daif[d]
      /\ \A t \in Task \ {run[c]} : flags'[t] = flags[t]
      /\ UNCHANGED <<run, curr, active, site, next, prev, w, wcpu, comps, state, load,
                     home, sp, ipc, tasks, current_idx, accel_lock, rq_lock, count,
                     waiter, lb>>
  BY <1>2, Zenon DEF SemPostUnlock, Goto, spin_unlock, irq_restore, schedVars, switchVars,
       semVars, irqVars, maskVars, lockVars
<1>5. ASSUME NEW d \in CPU \ {c} PROVE SameCpu(d)
  <2>1. run[d] \in Task /\ run[d] # run[c]
    BY Types, RunDistinct, Zenon DEF CpuTypes
  <2>2. sem_lock[sem[c]] = c /\ sem[c] \in Sem /\ d \in CPU /\ d # c /\ d # NoCpu
    BY <1>1, <1>4, ZenonT(30) DEF CpuLocks, CpuControl, CpuTypes, SemAt, SemLockAt,
         WaitPCs, PostPCs, SemHeldPCs
  <2>3. ASSUME NEW r \in Sem PROVE sem_lock'[r] = d <=> sem_lock[r] = d
    <3>1. CASE r = sem[c]
      <4>1. sem_lock'[r] = NoCpu /\ sem_lock[r] = c
        BY <1>4, <2>2, <3>1, Zenon
      <4> QED BY <2>2, <4>1, Zenon
    <3>2. CASE r # sem[c]
      BY <1>4, <3>2, Zenon
    <3> QED BY <3>1, <3>2, Zenon
  <2> QED BY <1>4, <2>1, <2>3, Zenon DEF SameCpu
<1>6. CpuControl(c)'
  <2>1. CASE accel_lock = c
    <3>1. pc'[c] = "disp_cs" /\ UNCHANGED <<daif, flags>>
      BY <1>4, <2>1, Zenon
    <3> QED BY <1>1, <1>4, <2>1, <3>1, ZenonT(30) DEF CpuControl, CpuTypes, TaskTypes,
         PcAt, SiteAt, SwitchAt, SemAt, StackAt, PickPCs, LbPCs, WaitPCs, PostPCs, DispPCs,
         WakePCs
  <2>2. CASE accel_lock # c
    <3>1. pc'[c] = "user" /\ daif'[c] = flags[run[c]] /\ flags'[run[c]] = "open"
      BY <1>4, <2>2, Zenon
    <3>2. active[c] = "none" /\ flags[run[c]] = "open"
      BY <1>1, <1>4, <2>2, Zenon DEF CpuControl, CpuLocks, CpuTypes, TaskTypes, SiteAt,
           StackAt, AccelLockAt, PickPCs, LbPCs, PostPCs, DispPCs
    <3> QED BY <1>1, <1>4, <3>1, <3>2, ZenonT(30) DEF CpuControl, CpuTypes, TaskTypes,
         PcAt, SiteAt, SwitchAt, SemAt, StackAt, PickPCs, LbPCs, WaitPCs, PostPCs, DispPCs,
         WakePCs
  <2> QED BY <2>1, <2>2, Zenon
<1>7. CpuLocks(c)'
  <2>1. RqLockAt(c)'
    BY <1>1, <1>4, ZenonT(30) DEF CpuControl, CpuLocks, CpuTypes, SemAt, RqLockAt,
         HoldsRq, WakePCs
  <2>2. SemLockAt(c)'
    BY <1>1, <1>4, ZenonT(30) DEF CpuControl, CpuLocks, CpuTypes, SemAt, SemLockAt,
         SemHeldPCs, WaitPCs, PostPCs
  <2>3. AccelLockAt(c)'
    BY <1>1, <1>4, ZenonT(30) DEF CpuControl, CpuLocks, PcAt, SiteAt, AccelLockAt,
         PickPCs, LbPCs, WaitPCs, PostPCs, DispPCs
  <2> QED BY <2>1, <2>2, <2>3, Zenon DEF CpuLocks
<1>8. state[run[c]] = BLOCKED => InSemWait(run[c])'
  BY <1>1, <1>4, RunHere, ZenonT(30) DEF InSemWait, CpuTypes, CpuControl, StackAt,
       SwitchAt, PickPCs, LbPCs
<1> QED BY <1>3, <1>4, <1>5, <1>6, <1>7, <1>8, Quiet, Zenon

(* PollCompletions: a task dispatches completions itself. *)
LEMMA PollCompletionsStep ==
    ASSUME TypeOK, IInv, NEW c \in CPU, PollCompletions(c)
    PROVE  TypeOK' /\ IInv'
<1>1. /\ HomeInv /\ FrameInv /\ SleepInv
      /\ CpuControl(c) /\ CpuLocks(c)
      /\ CpuTypes(c) /\ TaskTypes(run[c]) /\ \A t \in Task : TaskTypes(t)
  BY Types, AtCpu, Zenon DEF IInv, CpuTypes
<1>2. /\ pc \in [CPU -> PCs] /\ flags \in [Task -> {"open", "masked"}]
      /\ daif \in [CPU -> {"open", "masked"}] /\ run \in [CPU -> Task]
  BY Zenon DEF TypeOK
<1>3. TypeOK'
  <2>1. /\ pc' \in [CPU -> PCs] /\ flags' \in [Task -> {"open", "masked"}]
        /\ daif' \in [CPU -> {"open", "masked"}]
    BY <1>1, <1>2, Zenon DEF PollCompletions, Goto, irq_disable_save, schedVars,
         switchVars, semVars, irqVars, maskVars, lockVars, PCs, Sites, CpuTypes, TaskTypes
  <2>2. TypeOK'
    BY <2>1, Zenon DEF TypeOK, PollCompletions, Goto, irq_disable_save, schedVars,
         switchVars, semVars, irqVars, maskVars, lockVars
  <2> QED BY <2>2
<1>4. /\ pc[c] = "user"
      /\ pc'[c] = "disp_lock" /\ flags'[run[c]] = daif[c] /\ daif'[c] = "masked"
      /\ \A d \in CPU \ {c} : pc'[d] = pc[d] /\ daif'[d] = daif[d]
      /\ \A t \in Task \ {run[c]} : flags'[t] = flags[t]
      /\ UNCHANGED <<run, curr, active, site, next, prev, sem, w, wcpu, comps, state,
                     load, home, sp, ipc, tasks, current_idx, accel_lock, sem_lock,
                     rq_lock, count, waiter, lb>>
  BY <1>2, Zenon DEF PollCompletions, Goto, irq_disable_save, schedVars, switchVars,
       semVars, irqVars, maskVars, lockVars
<1>5. ASSUME NEW d \in CPU \ {c} PROVE SameCpu(d)
  <2>1. run[d] \in Task /\ run[d] # run[c]
    BY Types, RunDistinct, Zenon DEF CpuTypes
  <2> QED BY <1>4, <2>1, Zenon DEF SameCpu
<1>6. CpuControl(c)'
  BY <1>1, <1>4, ZenonT(30) DEF CpuControl, CpuTypes, TaskTypes, PcAt, SiteAt, SwitchAt,
       SemAt, StackAt, PickPCs, LbPCs, WaitPCs, PostPCs, DispPCs, WakePCs
<1>7. CpuLocks(c)'
  <2>1. RqLockAt(c)'
    BY <1>1, <1>4, ZenonT(30) DEF CpuControl, CpuLocks, CpuTypes, SemAt, RqLockAt,
         HoldsRq, WakePCs
  <2>2. SemLockAt(c)'
    BY <1>1, <1>4, ZenonT(30) DEF CpuControl, CpuLocks, CpuTypes, SemAt, SemLockAt,
         SemHeldPCs, WaitPCs, PostPCs
  <2>3. AccelLockAt(c)'
    BY <1>1, <1>4, ZenonT(30) DEF CpuControl, CpuLocks, PcAt, SiteAt, AccelLockAt,
         PickPCs, LbPCs, WaitPCs, PostPCs, DispPCs
  <2> QED BY <2>1, <2>2, <2>3, Zenon DEF CpuLocks
<1>8. state[run[c]] = BLOCKED => InSemWait(run[c])'
  BY <1>1, <1>4, RunHere, ZenonT(30) DEF InSemWait, CpuTypes, CpuControl, StackAt,
       SwitchAt, PickPCs, LbPCs
<1> QED BY <1>3, <1>4, <1>5, <1>6, <1>7, <1>8, Quiet, Zenon

(* DispatchLock: accel_lock is the outermost lock. *)
LEMMA DispatchLockStep ==
    ASSUME TypeOK, IInv, NEW c \in CPU, DispatchLock(c)
    PROVE  TypeOK' /\ IInv'
<1>1. /\ HomeInv /\ FrameInv /\ SleepInv
      /\ CpuControl(c) /\ CpuLocks(c)
      /\ CpuTypes(c) /\ TaskTypes(run[c]) /\ \A t \in Task : TaskTypes(t)
  BY Types, AtCpu, Zenon DEF IInv, CpuTypes
<1>2. /\ pc \in [CPU -> PCs] /\ accel_lock \in CPU \cup {NoCpu}
      /\ comps \in [CPU -> 0..NUM_WORKERS]
  BY Zenon DEF TypeOK
<1>a. comps' \in [CPU -> 0..NUM_WORKERS]
  BY <1>2, Zenon DEF DispatchLock
<1>3. TypeOK'
  <2>1. pc' \in [CPU -> PCs] /\ accel_lock' \in CPU \cup {NoCpu}
    BY <1>1, <1>2, Zenon DEF DispatchLock, Goto, schedVars, switchVars, semVars, irqVars,
         maskVars, lockVars, PCs, Sites, CpuTypes, TaskTypes
  <2>2. TypeOK'
    BY <2>1, <1>a, Zenon DEF TypeOK, DispatchLock, Goto, schedVars, switchVars, semVars,
         irqVars, maskVars, lockVars
  <2> QED BY <2>2, Zenon
<1>4. /\ pc[c] = "disp_lock" /\ accel_lock = NoCpu
      /\ accel_lock' = c
      /\ pc'[c] = "disp_cs"
      /\ \A d \in CPU \ {c} : pc'[d] = pc[d]
      /\ UNCHANGED <<run, curr, daif, active, site, next, prev, sem, w, wcpu, state, load,
                     home, sp, flags, ipc, tasks, current_idx, sem_lock, rq_lock, count,
                     waiter, lb>>
  BY <1>2, Zenon DEF DispatchLock, Goto, schedVars, switchVars, semVars, irqVars,
       maskVars, lockVars
<1>5. ASSUME NEW d \in CPU \ {c} PROVE SameCpu(d)
  <2>1. run[d] \in Task /\ run[d] # run[c]
    BY Types, RunDistinct, Zenon DEF CpuTypes
  <2> QED BY <1>4, <2>1, Zenon DEF SameCpu
<1>6. CpuControl(c)'
  BY <1>1, <1>4, ZenonT(30) DEF CpuControl, CpuTypes, TaskTypes, PcAt, SiteAt, SwitchAt,
       SemAt, StackAt, PickPCs, LbPCs, WaitPCs, PostPCs, DispPCs, WakePCs
<1>7. CpuLocks(c)'
  <2>1. RqLockAt(c)'
    BY <1>1, <1>4, ZenonT(30) DEF CpuControl, CpuLocks, CpuTypes, SemAt, RqLockAt,
         HoldsRq, WakePCs
  <2>2. SemLockAt(c)'
    BY <1>1, <1>4, ZenonT(30) DEF CpuControl, CpuLocks, CpuTypes, SemAt, SemLockAt,
         SemHeldPCs, WaitPCs, PostPCs
  <2>3. AccelLockAt(c)'
    BY <1>1, <1>4, ZenonT(30) DEF CpuControl, CpuLocks, PcAt, SiteAt, AccelLockAt,
         PickPCs, LbPCs, WaitPCs, PostPCs, DispPCs
  <2> QED BY <2>1, <2>2, <2>3, Zenon DEF CpuLocks
<1>8. state[run[c]] = BLOCKED => InSemWait(run[c])'
  BY <1>1, <1>4, RunHere, ZenonT(30) DEF InSemWait, CpuTypes, CpuControl, StackAt,
       SwitchAt, PickPCs, LbPCs
<1> QED BY <1>3, <1>4, <1>5, <1>6, <1>7, <1>8, Quiet, Zenon

(* DispatchPost: sem_post inside the dispatcher. *)
LEMMA DispatchPostStep ==
    ASSUME TypeOK, IInv, NEW c \in CPU, NEW s \in DmaSems, DispatchPost(c,
           s)
    PROVE  TypeOK' /\ IInv'
<1>1. /\ HomeInv /\ FrameInv /\ SleepInv
      /\ CpuControl(c) /\ CpuLocks(c)
      /\ CpuTypes(c) /\ TaskTypes(run[c]) /\ \A t \in Task : TaskTypes(t)
  BY Types, AtCpu, Zenon DEF IInv, CpuTypes
<1>2. /\ pc \in [CPU -> PCs] /\ sem \in [CPU -> Sem \cup {NoSem}]
      /\ comps \in [CPU -> 0..NUM_WORKERS]
  BY Zenon DEF TypeOK
<1>a. comps' \in [CPU -> 0..NUM_WORKERS] /\ s \in Sem
  <2>1. comps' = [comps EXCEPT ![c] = @ - 1] /\ comps[c] > 0
    BY Zenon DEF DispatchPost
  <2>2. comps[c] - 1 \in 0..NUM_WORKERS
    BY <1>2, <2>1, CompsDown, BuildAssumption, Zenon
  <2> QED BY <1>2, <2>1, <2>2, ClientAssumption, Zenon
<1>3. TypeOK'
  <2>1. pc' \in [CPU -> PCs] /\ sem' \in [CPU -> Sem \cup {NoSem}]
    BY <1>1, <1>2, <1>a, Zenon DEF DispatchPost, Goto, PCs, CpuTypes
  <2>2. TypeOK'
    BY <2>1, <1>a, Zenon DEF TypeOK, DispatchPost, Goto, schedVars, switchVars, semVars,
         irqVars, maskVars, lockVars
  <2> QED BY <2>2, Zenon
<1>4. /\ pc[c] = "disp_cs"
      /\ pc'[c] = "post_lock" /\ sem'[c] = s
      /\ \A d \in CPU \ {c} : pc'[d] = pc[d] /\ sem'[d] = sem[d]
      /\ s \in Sem
      /\ UNCHANGED <<run, curr, daif, active, site, next, prev, w, wcpu, state, load,
                     home, sp, flags, ipc, tasks, current_idx, accel_lock, sem_lock,
                     rq_lock, count, waiter, lb>>
  BY <1>2, <1>a, Zenon DEF DispatchPost, Goto, schedVars, switchVars, semVars, irqVars,
       maskVars, lockVars
<1>5. ASSUME NEW d \in CPU \ {c} PROVE SameCpu(d)
  <2>1. run[d] \in Task /\ run[d] # run[c]
    BY Types, RunDistinct, Zenon DEF CpuTypes
  <2> QED BY <1>4, <2>1, Zenon DEF SameCpu
<1>6. CpuControl(c)'
  BY <1>1, <1>4, ZenonT(30) DEF CpuControl, CpuTypes, TaskTypes, PcAt, SiteAt, SwitchAt,
       SemAt, StackAt, PickPCs, LbPCs, WaitPCs, PostPCs, DispPCs, WakePCs
<1>7. CpuLocks(c)'
  <2>1. RqLockAt(c)'
    BY <1>1, <1>4, ZenonT(30) DEF CpuControl, CpuLocks, CpuTypes, SemAt, RqLockAt,
         HoldsRq, WakePCs
  <2>2. SemLockAt(c)'
    BY <1>1, <1>4, ZenonT(30) DEF CpuControl, CpuLocks, CpuTypes, SemAt, SemLockAt,
         SemHeldPCs, WaitPCs, PostPCs
  <2>3. AccelLockAt(c)'
    BY <1>1, <1>4, ZenonT(30) DEF CpuControl, CpuLocks, PcAt, SiteAt, AccelLockAt,
         PickPCs, LbPCs, WaitPCs, PostPCs, DispPCs
  <2> QED BY <2>1, <2>2, <2>3, Zenon DEF CpuLocks
<1>8. state[run[c]] = BLOCKED => InSemWait(run[c])'
  BY <1>1, <1>4, RunHere, ZenonT(30) DEF InSemWait, CpuTypes, CpuControl, StackAt,
       SwitchAt, PickPCs, LbPCs
<1> QED BY <1>3, <1>4, <1>5, <1>6, <1>7, <1>8, Quiet, Zenon

(* DispatchDone: the dispatcher returns to the task or to the handler. *)
LEMMA DispatchDoneStep ==
    ASSUME TypeOK, IInv, NEW c \in CPU, DispatchDone(c)
    PROVE  TypeOK' /\ IInv'
<1>1. /\ HomeInv /\ FrameInv /\ SleepInv
      /\ CpuControl(c) /\ CpuLocks(c)
      /\ CpuTypes(c) /\ TaskTypes(run[c]) /\ \A t \in Task : TaskTypes(t)
  BY Types, AtCpu, Zenon DEF IInv, CpuTypes
<1>2. /\ pc \in [CPU -> PCs] /\ daif \in [CPU -> {"open", "masked"}]
      /\ flags \in [Task -> {"open", "masked"}] /\ accel_lock \in CPU \cup {NoCpu}
      /\ comps \in [CPU -> 0..NUM_WORKERS] /\ run \in [CPU -> Task]
  BY Zenon DEF TypeOK
<1>a. comps' \in [CPU -> 0..NUM_WORKERS]
  <2>1. 0 \in 0..NUM_WORKERS
    BY CompsZero, BuildAssumption, Zenon
  <2> QED BY <1>2, <2>1, Zenon DEF DispatchDone
<1>3. TypeOK'
  <2>1. /\ pc' \in [CPU -> PCs] /\ daif' \in [CPU -> {"open", "masked"}]
        /\ flags' \in [Task -> {"open", "masked"}] /\ accel_lock' \in CPU \cup {NoCpu}
    BY <1>1, <1>2, Zenon DEF DispatchDone, Goto, irq_restore, schedVars, switchVars,
         semVars, irqVars, maskVars, lockVars, PCs, Sites, CpuTypes, TaskTypes
  <2>2. TypeOK'
    BY <2>1, <1>a, Zenon DEF TypeOK, DispatchDone, Goto, irq_restore, schedVars,
         switchVars, semVars, irqVars, maskVars, lockVars
  <2> QED BY <2>2
<1>4. /\ pc[c] = "disp_cs"
      /\ accel_lock' = NoCpu
      /\ pc'[c] = (IF active[c] = "dma" THEN "eoi" ELSE "user")
      /\ daif'[c] = flags[run[c]] /\ flags'[run[c]] = "open"
      /\ \A d \in CPU \ {c} : pc'[d] = pc[d] /\ daif'[d] = daif[d]
      /\ \A t \in Task \ {run[c]} : flags'[t] = flags[t]
      /\ UNCHANGED <<run, curr, active, site, next, prev, sem, w, wcpu, state, load, home,
                     sp, ipc, tasks, current_idx, sem_lock, rq_lock, count, waiter, lb>>
  BY <1>2, Zenon DEF DispatchDone, Goto, irq_restore, schedVars, switchVars, semVars,
       irqVars, maskVars, lockVars
<1>5. ASSUME NEW d \in CPU \ {c} PROVE SameCpu(d)
  <2>1. run[d] \in Task /\ run[d] # run[c]
    BY Types, RunDistinct, Zenon DEF CpuTypes
  <2>2. accel_lock = c
    BY <1>1, <1>4, ZenonT(30) DEF CpuLocks, AccelLockAt
  <2> QED BY <1>4, <2>1, <2>2, Zenon DEF SameCpu
<1>6. CpuControl(c)'
  BY <1>1, <1>4, ZenonT(30) DEF CpuControl, CpuTypes, TaskTypes, PcAt, SiteAt, SwitchAt,
       SemAt, StackAt, PickPCs, LbPCs, WaitPCs, PostPCs, DispPCs, WakePCs
<1>7. CpuLocks(c)'
  <2>1. RqLockAt(c)'
    BY <1>1, <1>4, ZenonT(30) DEF CpuControl, CpuLocks, CpuTypes, SemAt, RqLockAt,
         HoldsRq, WakePCs
  <2>2. SemLockAt(c)'
    BY <1>1, <1>4, ZenonT(30) DEF CpuControl, CpuLocks, CpuTypes, SemAt, SemLockAt,
         SemHeldPCs, WaitPCs, PostPCs
  <2>3. AccelLockAt(c)'
    BY <1>1, <1>4, ZenonT(30) DEF CpuControl, CpuLocks, PcAt, SiteAt, AccelLockAt,
         PickPCs, LbPCs, WaitPCs, PostPCs, DispPCs
  <2> QED BY <2>1, <2>2, <2>3, Zenon DEF CpuLocks
<1>8. state[run[c]] = BLOCKED => InSemWait(run[c])'
  BY <1>1, <1>4, RunHere, ZenonT(30) DEF InSemWait, CpuTypes, CpuControl, StackAt,
       SwitchAt, PickPCs, LbPCs
<1> QED BY <1>3, <1>4, <1>5, <1>6, <1>7, <1>8, Quiet, Zenon

=============================================================================
