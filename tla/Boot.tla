-------------------------------- MODULE Boot --------------------------------
(***************************************************************************)
(* Bring-up: kernel_main on CPU 0 finds the accelerator (Pci), starts the  *)
(* secondaries through PSCI, routes the accelerator's interrupt and places *)
(* the workers, while each secondary that came up fills its own run queue  *)
(* and starts to take timer interrupts.  What is left when everybody runs  *)
(* is SmpSched's Init.                                                     *)
(*                                                                         *)
(* Firmware may refuse to start a CPU, and a CPU may take its first step   *)
(* after CPU 0 has given up on it, or never.  Registration and picking are *)
(* critical sections of the queue's lock, and one step each.               *)
(***************************************************************************)
EXTENDS Pci, FiniteSets, Sequences, Functions

CONSTANTS
    MAX_CPUS, MAX_TASKS, NUM_WORKERS,
    SELFTEST_N,       \* 200000
    SelftestBuilds,   \* values of SMP_SELFTEST to consider
    DmaIrqCpus,       \* values of DMA_IRQ_CPU to consider, Undefined included
    Undefined,
    Refusals          \* TRUE if firmware may refuse any CPU, FALSE if it only
                      \* refuses those that do not exist (-smp n)

ASSUME BootAssumption ==
    /\ MAX_CPUS \in Nat \ {0} /\ MAX_TASKS \in Nat /\ NUM_WORKERS \in Nat \ {0}
    /\ SELFTEST_N \in Nat \ {0}
    /\ SelftestBuilds \subseteq BOOLEAN /\ Refusals \in BOOLEAN
    /\ DmaIrqCpus \subseteq 0..(MAX_CPUS - 1) \cup {Undefined}

(* A queue holds all workers and busy_task (CPU 0, if nobody else came up) *)
(* and four tasks of a secondary with its share of the workers.            *)
ASSUME CapacityAssumption == MAX_TASKS >= NUM_WORKERS + 1 /\ MAX_TASKS >= NUM_WORKERS \div 2 + 4

CPU == 0..(MAX_CPUS - 1)
Secondary == 1..(MAX_CPUS - 1)

taskWorker(i) == <<"worker", i>>
busy_task == <<"busy", 0>>
idle_tcb(c) == <<"idle", c>>
test_tcb(c) == <<<<"test_a", c>>, <<"test_b", c>>>>
pp_tcb(c) == IF c = 1 THEN <<"ping", c>> ELSE <<"pong", c>>

Workers == {taskWorker(i) : i \in 0..(NUM_WORKERS - 1)}
Task == Workers \cup {busy_task}
          \cup UNION {{idle_tcb(c), test_tcb(c)[1], test_tcb(c)[2], pp_tcb(c)} : c \in Secondary}
NoTask == <<"none", 0>>

VARIABLES
    SMP_SELFTEST, DMA_IRQ_CPU,      \* which build this is
    present,                        \* CPUs the machine has
    pc, k,                          \* per CPU; CPU 0's loop index
    cpu_alive, boot_vbar, vbar,     \* vbar[c]: CPU c has its vectors
    online, smp_online,
    st_go, st_done,
    st_i, st_locked, lock_ok,       \* loop index, increments under st_lock, LOCK_OK
    tasks, current_idx, cpu,        \* run queues, tcb_t.cpu
    framed,                         \* tasks that task_init has been called for
    curr,
    target, enabled                 \* ITARGETSR and enable bit of the DMA interrupt

buildVars == <<SMP_SELFTEST, DMA_IRQ_CPU, present, pciVars>>
queueVars == <<tasks, current_idx, cpu, framed, curr>>
smpVars == <<cpu_alive, boot_vbar, vbar, online, smp_online>>
stVars == <<st_go, st_done, st_i, st_locked, lock_ok>>
gicVars == <<target, enabled>>
vars == <<buildVars, pc, k, smpVars, stVars, queueVars, gicVars>>

NoTarget == -1

(* CPU 0 has its vectors (set_vbar). *)
Init ==
    /\ SMP_SELFTEST \in SelftestBuilds /\ DMA_IRQ_CPU \in DmaIrqCpus
    /\ present \in {0..n : n \in CPU}
    /\ pc = [c \in CPU |-> IF c = 0 THEN "pci" ELSE "off"]
    /\ PciInit
    /\ k = 0
    /\ cpu_alive = [c \in CPU |-> FALSE]
    /\ boot_vbar = FALSE
    /\ vbar = [c \in CPU |-> c = 0]
    /\ online = 0 /\ smp_online = 1
    /\ st_go = FALSE /\ st_done = [c \in CPU |-> FALSE]
    /\ st_i = [c \in CPU |-> 0] /\ st_locked = 0 /\ lock_ok = TRUE
    /\ tasks = [c \in CPU |-> <<>>]
    /\ current_idx = [c \in CPU |-> 0]
    /\ cpu = [t \in Task |-> 0]
    /\ framed = {}
    /\ curr = [c \in CPU |-> NoTask]
    /\ target = NoTarget /\ enabled = FALSE

Goto(c, l) == pc' = [pc EXCEPT ![c] = l]

-----------------------------------------------------------------------------
(* Plausible mistakes, none of them part of Next.                          *)

(* current_idx is left alone. *)
sched_register_onKeepsIdx(me, c, t, now) ==
    IF Len(tasks[c]) < MAX_TASKS
    THEN /\ tasks' = [tasks EXCEPT ![c] = Append(@, t)]
         /\ cpu' = [cpu EXCEPT ![t] = c]
         /\ UNCHANGED current_idx
    ELSE UNCHANGED <<tasks, cpu, current_idx>>

(* A queue holds one task less. *)
sched_register_onShort(me, c, t, now) ==
    IF Len(tasks[c]) < MAX_TASKS - 1
    THEN /\ tasks' = [tasks EXCEPT ![c] = Append(@, t)]
         /\ cpu' = [cpu EXCEPT ![t] = c]
         /\ current_idx' = IF c = me /\ t = now
                           THEN [current_idx EXCEPT ![c] = Len(tasks[c])] ELSE current_idx
    ELSE UNCHANGED <<tasks, cpu, current_idx>>

(* The CPU that did not come up is counted. *)
TimeoutCounts ==
    /\ pc[0] = "spin" /\ ~cpu_alive[k]
    /\ online' = online + 1
    /\ k' = k + 1
    /\ Goto(0, "psci")
    /\ UNCHANGED <<buildVars, cpu_alive, boot_vbar, vbar, smp_online, stVars, queueVars, gicVars>>

(* Workers are spread over all CPUs there could be. *)
WorkerCpuOfMax(i) == i % MAX_CPUS

(* There is no spin limit. *)
TimeoutNever == FALSE

(* CPU 0 does not wait for the others' shares. *)
SelftestWaitNot ==
    /\ pc[0] = "st_wait" /\ k < MAX_CPUS
    /\ k' = k + 1
    /\ UNCHANGED <<buildVars, pc, smpVars, stVars, queueVars, gicVars>>

-----------------------------------------------------------------------------
(* sched_register_on(c, t) called on CPU me, whose current is now. *)
sched_register_on(me, c, t, now) ==
    IF Len(tasks[c]) < MAX_TASKS
    THEN /\ tasks' = [tasks EXCEPT ![c] = Append(@, t)]
         /\ cpu' = [cpu EXCEPT ![t] = c]
         /\ current_idx' = IF c = me /\ t = now
                           THEN [current_idx EXCEPT ![c] = Len(tasks[c])] ELSE current_idx
    ELSE UNCHANGED <<tasks, cpu, current_idx>>

(* The target is written first, then the enable bit; CPU 0 is at `on` in   *)
(* between and at `done` afterwards.                                       *)
gic_enable_irq_target(c, on, done) ==
    /\ \/ pc[0] # on /\ target' = c /\ Goto(0, on) /\ UNCHANGED enabled
       \/ pc[0] = on /\ enabled' = TRUE /\ Goto(0, done) /\ UNCHANGED target
    /\ UNCHANGED <<buildVars, k, smpVars, stVars, queueVars>>

-----------------------------------------------------------------------------
(* kernel_main, on CPU 0.                                                  *)

FindAccel ==
    /\ pc[0] = "pci" /\ pci_find_dma_accel
    /\ UNCHANGED <<SMP_SELFTEST, DMA_IRQ_CPU, present, pc, k, smpVars, stVars, queueVars, gicVars>>

AccelMissing ==
    /\ pc[0] = "pci" /\ step = "done" /\ ~out.found
    /\ Goto(0, "stop")
    /\ UNCHANGED <<buildVars, k, smpVars, stVars, queueVars, gicVars>>

(* The wfe loop. *)
Stopped == pc[0] = "stop" /\ UNCHANGED vars

SetupAccel ==
    /\ pc[0] = "pci" /\ step = "done" /\ out.found
    /\ accel_setup_queues
    /\ Goto(0, "init")
    /\ UNCHANGED <<SMP_SELFTEST, DMA_IRQ_CPU, present, k, smpVars, stVars, queueVars, gicVars>>

(* task_init for the workers and busy_task. *)
InitTasks ==
    /\ pc[0] = "init"
    /\ framed' = Workers \cup {busy_task}
    /\ curr' = [curr EXCEPT ![0] = taskWorker(0)]
    /\ Goto(0, IF DMA_IRQ_CPU = Undefined THEN "gic" ELSE "boot")
    /\ UNCHANGED <<buildVars, k, smpVars, stVars, tasks, current_idx, cpu, gicVars>>

(* gic_enable_irq(DMA_ACCEL_IRQ_ID): the default build routes it to CPU 0. *)
EnableDma ==
    /\ pc[0] \in {"gic", "gic_on"}
    /\ gic_enable_irq_target(0, "gic_on", "boot")

smp_boot_secondaries ==
    /\ pc[0] = "boot"
    /\ boot_vbar' = vbar[0]
    /\ cpu_alive' = [cpu_alive EXCEPT ![0] = TRUE]
    /\ online' = 1 /\ k' = 1
    /\ Goto(0, "psci")
    /\ UNCHANGED <<buildVars, vbar, smp_online, stVars, queueVars, gicVars>>

(* rc = 0: CPU k starts, sooner or later, at secondary_start. *)
psci_cpu_on ==
    /\ pc[0] = "psci" /\ k \in present
    /\ pc' = [pc EXCEPT ![0] = "spin", ![k] = "start"]
    /\ UNCHANGED <<buildVars, k, smpVars, stVars, queueVars, gicVars>>

(* rc # 0 *)
PsciRefuses ==
    /\ pc[0] = "psci" /\ k < MAX_CPUS
    /\ k \notin present \/ Refusals
    /\ k' = k + 1
    /\ UNCHANGED <<buildVars, pc, smpVars, stVars, queueVars, gicVars>>

CameUp ==
    /\ pc[0] = "spin" /\ cpu_alive[k]
    /\ online' = online + 1
    /\ k' = k + 1
    /\ Goto(0, "psci")
    /\ UNCHANGED <<buildVars, cpu_alive, boot_vbar, vbar, smp_online, stVars, queueVars, gicVars>>

(* The spin limit is reached. *)
Timeout ==
    /\ pc[0] = "spin" /\ ~cpu_alive[k]
    /\ k' = k + 1
    /\ Goto(0, "psci")
    /\ UNCHANGED <<buildVars, smpVars, stVars, queueVars, gicVars>>

SetOnline ==
    /\ pc[0] = "psci" /\ k = MAX_CPUS
    /\ smp_online' = online
    /\ k' = IF SMP_SELFTEST THEN 1 ELSE 0
    /\ st_go' = SMP_SELFTEST
    /\ Goto(0, IF SMP_SELFTEST THEN "st" ELSE "route")
    /\ UNCHANGED <<buildVars, cpu_alive, boot_vbar, vbar, online, st_done, st_i, st_locked, lock_ok,
                   queueVars, gicVars>>

(* One increment under st_lock (Spinlock has the lock), and the end of the *)
(* loop.                                                                   *)
selftest_body(c) ==
    /\ pc[c] = "st" /\ st_go
    /\ \/ /\ st_i[c] < SELFTEST_N
          /\ st_locked' = st_locked + 1
          /\ st_i' = [st_i EXCEPT ![c] = @ + 1]
          /\ UNCHANGED <<pc, st_done>>
       \/ /\ st_i[c] = SELFTEST_N
          /\ st_done' = [st_done EXCEPT ![c] = TRUE]
          /\ Goto(c, IF c = 0 THEN "st_wait" ELSE "idle")
          /\ UNCHANGED <<st_i, st_locked>>
    /\ UNCHANGED <<buildVars, k, smpVars, st_go, lock_ok, queueVars, gicVars>>

(* After its own share, CPU 0 waits for that of each CPU that is alive. *)
SelftestWait ==
    /\ pc[0] = "st_wait" /\ k < MAX_CPUS
    /\ cpu_alive[k] => st_done[k]
    /\ k' = k + 1
    /\ UNCHANGED <<buildVars, pc, smpVars, stVars, queueVars, gicVars>>

(* LOCK_OK *)
SelftestDone ==
    /\ pc[0] = "st_wait" /\ k = MAX_CPUS
    /\ lock_ok' = (st_locked = online * SELFTEST_N)
    /\ k' = 0
    /\ Goto(0, "route")
    /\ UNCHANGED <<buildVars, smpVars, st_go, st_done, st_i, st_locked, queueVars, gicVars>>

DmaTarget == IF smp_online > DMA_IRQ_CPU THEN DMA_IRQ_CPU ELSE 0

(* The clamp and gic_enable_irq_target, if DMA_IRQ_CPU is defined. *)
RouteDma ==
    /\ pc[0] \in {"route", "route_on"} /\ DMA_IRQ_CPU # Undefined
    /\ gic_enable_irq_target(DmaTarget, "route_on", "place")

RouteDefault ==
    /\ pc[0] = "route" /\ DMA_IRQ_CPU = Undefined
    /\ Goto(0, "place")
    /\ UNCHANGED <<buildVars, k, smpVars, stVars, queueVars, gicVars>>

WorkerCpu(i) == i % smp_online

PlaceWorker ==
    /\ pc[0] = "place" /\ k < NUM_WORKERS
    /\ sched_register_on(0, WorkerCpu(k), taskWorker(k), curr[0])
    /\ k' = k + 1
    /\ UNCHANGED <<buildVars, pc, smpVars, stVars, framed, curr, gicVars>>

(* sched_register(&busy_task), then switch_to the first worker, whose      *)
(* frame opens IRQs.                                                       *)
StartTasks ==
    /\ pc[0] = "place" /\ k = NUM_WORKERS
    /\ sched_register_on(0, 0, busy_task, curr[0])
    /\ Goto(0, "run")
    /\ UNCHANGED <<buildVars, k, smpVars, stVars, framed, curr, gicVars>>

kernel_main ==
    \/ FindAccel \/ AccelMissing \/ Stopped \/ SetupAccel
    \/ InitTasks \/ EnableDma \/ smp_boot_secondaries \/ psci_cpu_on \/ PsciRefuses
    \/ CameUp \/ Timeout \/ SetOnline \/ selftest_body(0) \/ SelftestWait \/ SelftestDone
    \/ RouteDma \/ RouteDefault \/ PlaceWorker \/ StartTasks

-----------------------------------------------------------------------------
(* secondary_main, on CPU c.                                               *)

(* boot.S, percpu_init, the vectors, then cpu_alive. *)
secondary_start(c) ==
    /\ pc[c] = "start"
    /\ vbar' = [vbar EXCEPT ![c] = boot_vbar]
    /\ cpu_alive' = [cpu_alive EXCEPT ![c] = TRUE]
    /\ Goto(c, IF SMP_SELFTEST THEN "st" ELSE "idle")
    /\ UNCHANGED <<buildVars, k, boot_vbar, online, smp_online, stVars, queueVars, gicVars>>

IdleTask(c) ==
    /\ pc[c] = "idle"
    /\ curr' = [curr EXCEPT ![c] = idle_tcb(c)]
    /\ sched_register_on(c, c, idle_tcb(c), idle_tcb(c))
    /\ Goto(c, "test_a")
    /\ UNCHANGED <<buildVars, k, smpVars, stVars, framed, gicVars>>

(* task_init and registration of the nth test task. *)
TestTask(c, n) ==
    /\ pc[c] = <<"test_a", "test_b">>[n]
    /\ framed' = framed \cup {test_tcb(c)[n]}
    /\ sched_register_on(c, c, test_tcb(c)[n], curr[c])
    /\ Goto(c, IF n = 1 THEN "test_b" ELSE "pp")
    /\ UNCHANGED <<buildVars, k, smpVars, stVars, curr, gicVars>>

(* ping on CPU 1, pong on CPU 2. *)
PingPongTask(c) ==
    /\ pc[c] = "pp"
    /\ IF c \in {1, 2}
       THEN framed' = framed \cup {pp_tcb(c)} /\ sched_register_on(c, c, pp_tcb(c), curr[c])
       ELSE UNCHANGED <<framed, tasks, current_idx, cpu>>
    /\ Goto(c, "irq_on")
    /\ UNCHANGED <<buildVars, k, smpVars, stVars, curr, gicVars>>

(* The CPU's GIC interface and timer, then IRQs. *)
EnableIrqs(c) ==
    /\ pc[c] = "irq_on"
    /\ Goto(c, "run")
    /\ UNCHANGED <<buildVars, k, smpVars, stVars, queueVars, gicVars>>

secondary_main(c) ==
    \/ selftest_body(c) \/ IdleTask(c) \/ (\E n \in 1..2 : TestTask(c, n))
    \/ PingPongTask(c) \/ EnableIrqs(c)

(* A timer interrupt hands the CPU to some task of its queue (all tasks    *)
(* are READY here; see RunQueue for which).                                *)
Tick(c) ==
    /\ pc[c] = "run"
    /\ \E i \in 1..Len(tasks[c]) :
          /\ curr' = [curr EXCEPT ![c] = tasks[c][i]]
          /\ current_idx' = [current_idx EXCEPT ![c] = i - 1]
    /\ UNCHANGED <<buildVars, pc, k, smpVars, stVars, tasks, cpu, framed, gicVars>>

Next ==
    \/ kernel_main
    \/ \E c \in Secondary : secondary_start(c) \/ secondary_main(c)
    \/ \E c \in CPU : Tick(c)

Spec == Init /\ [][Next]_vars

(* CPU 0 goes on, and so does a secondary that has shown up.  Nothing says *)
(* that a CPU firmware has agreed to start ever does.                      *)
FairSpec ==
    /\ Spec
    /\ WF_vars(kernel_main)
    /\ \A c \in Secondary : WF_vars(secondary_main(c))

-----------------------------------------------------------------------------
Alive == {c \in CPU : cpu_alive[c]}

Label == {"pci", "stop", "init", "gic", "gic_on", "boot", "psci", "spin", "st_wait", "route",
          "route_on", "place", "run", "off", "start", "st", "idle", "test_a", "test_b", "pp", "irq_on"}

(* Every variable has its type; online counts only CPUs that are alive. *)
TypeOK ==
    /\ pc \in [CPU -> Label]
    /\ PciTypeOK
    /\ k \in 0..(MAX_CPUS + NUM_WORKERS)
    /\ cpu_alive \in [CPU -> BOOLEAN] /\ boot_vbar \in BOOLEAN /\ vbar \in [CPU -> BOOLEAN]
    /\ online \in 0..Cardinality(Alive) /\ smp_online \in 1..MAX_CPUS
    /\ st_go \in BOOLEAN /\ st_done \in [CPU -> BOOLEAN]
    /\ st_i \in [CPU -> 0..SELFTEST_N]
    /\ st_locked \in 0..(MAX_CPUS * SELFTEST_N) /\ lock_ok \in BOOLEAN
    /\ tasks \in [CPU -> Seq(Task)] /\ current_idx \in [CPU -> 0..(MAX_TASKS - 1)]
    /\ cpu \in [Task -> CPU] /\ framed \subseteq Task
    /\ curr \in [CPU -> Task \cup {NoTask}]
    /\ target \in CPU \cup {NoTarget} /\ enabled \in BOOLEAN

(* A CPU that takes interrupts has its vectors, current_idx names its      *)
(* current in its queue, and whatever a tick may pick has a frame (or is   *)
(* the boot context), even though CPU 0 may have put workers into that     *)
(* queue before, between and after the CPU's own tasks.                    *)
IrqsFindQueue ==
    \A c \in CPU : pc[c] = "run" =>
        /\ vbar[c]
        /\ current_idx[c] < Len(tasks[c])
        /\ tasks[c][current_idx[c] + 1] = curr[c]
        /\ Range(tasks[c]) \subseteq framed \cup {idle_tcb(c)}

Registered == UNION {Range(tasks[c]) : c \in CPU}

(* What secondary_main registers on CPU c. *)
OwnTasks(c) ==
    {idle_tcb(c)} \cup Range(test_tcb(c)) \cup (IF c \in {1, 2} THEN {pp_tcb(c)} ELSE {})

(* Once CPU 0 runs tasks, no registration has been dropped, no task is in  *)
(* two queues or twice in one, and tcb_t.cpu names the queue: what SmpSched*)
(* takes its run queues to be.                                             *)
QueuesComplete ==
    pc[0] = "run" =>
        /\ Workers \cup {busy_task} \subseteq Registered
        /\ \A c \in Secondary : pc[c] = "run" => OwnTasks(c) \subseteq Registered
        /\ \A c \in CPU : IsInjective(tasks[c]) /\ \A t \in Range(tasks[c]) : cpu[t] = c

WorkersOnline == \A t \in Workers \cap Registered : cpu_alive[cpu[t]]

(* If CPUs come up in order, without gaps, workers are placed on and the   *)
(* DMA interrupt is routed to CPUs that came up, late ones included.       *)
OnlineInOrder ==
    (\A c, d \in CPU : c < d /\ cpu_alive[d] => cpu_alive[c])
        => WorkersOnline /\ (enabled => cpu_alive[target] \/ target = 0)

(* "place each worker on a core that actually came up" *)
WorkersPlacedOnline == WorkersOnline

(* Once anything could use the accelerator (its interrupt is enabled or a  *)
(* worker runs), the device answers where the driver looks for it, may     *)
(* master the bus, and has its rings and its interrupt mask                *)
(* (pci_find_dma_accel, accel_setup_queues, before everything else).       *)
DeviceReady ==
    enabled \/ pc[0] = "run" =>
        out.found /\ Answers /\ "bus_master" \in command[out.dev] /\ regs = AccelRegs

(* The spinlock self-test fails a sound lock only if a CPU came up after   *)
(* smp_boot_secondaries had given up on it (LOCK_OK compares with online). *)
SelftestVerdict == lock_ok \/ Cardinality(Alive) > online

(* CPU 0 gets to its first task, whatever becomes of the secondaries, or   *)
(* stops because there is no accelerator.                                  *)
BootFinishes == <>(pc[0] = "run" \/ (pc[0] = "stop" /\ \A d \in Slot : ~ IsAccel(d)))
=============================================================================
