# A TLA+ model of aarch64-rtos

This directory holds TLA+ specifications of the SMP kernel in `src/kernel`, the
TLC configurations that check them, and TLAPS proofs about them. Everything is
translated from the C and assembly code; comments and docs are only used to find
out what the code is meant to promise.

    tlc -workers 4 -config SchedSafe.cfg MCSmpSched     # model-check one run
    tlapm SmpSchedProofs.tla                            # check one module's proofs

## 1. The system

| Part | Code | Concurrency | Module |
|---|---|---|---|
| Run queues, policies, load average | `sched.c`, `tcb.h` | one spinlock per queue | `RunQueue`, `SmpSched` |
| Context switch, yield, preemption | `sched.c`, `switch.S`, `vectors.S`, `task.c`, `main.c` | interrupts against task code | `SmpSched` |
| Semaphores, cross-CPU wake-up | `sync.c`, `sched.c` | CPUs and interrupt handlers | `SmpSched`, `Semaphore` |
| Load balancing (`LOAD_BALANCE_SELFTEST`) | `sched.c`, `main.c` | CPU 0 against all others | `SmpSched` |
| Completion dispatcher | `main.c` | handler and polling tasks | `SmpSched`, `DmaWorkers` |
| Accelerator driver, workers | `accel.c`, `main.c` | workers, handler, device | `DmaWorkers` |
| Spinlocks | `spinlock.h` | all CPUs and their interrupt handlers | `Spinlock`, `AtomicLock`; atomic elsewhere |
| GIC | `gic.c` | acknowledge/EOI protocol, routing | part of `SmpSched`, `DmaWorkers`, `Boot` |
| Bring-up, registration, placement | `smp.c`, `psci.c`, `main.c`, `boot.S` | CPU 0 and starting secondaries | `Boot` |
| Mutex, event flags, queue | `sync.c` | tasks and handlers of one CPU | `IrqSync`, `AtomicLock`, `BoundedFifo` |
| UART log | `uart.c` | all CPUs and their interrupt handlers | `Uart` |
| PCI enumeration, accelerator set-up | `pci.c`, `accel.c` | none, but before everything else | `Pci`, `Boot` |
| Self-tests | `smp.c` | ping/pong tasks; all CPUs at boot | clients of `SmpSched`; `Boot` |
| Diagnostics, linker script, log tools | `main.c`, `vectors.S`, `linker.ld`, `tools/` | none | not modelled |

How they interact: a timer interrupt or `yield` picks the next task of the CPU's
own queue and switches to it. `sem_wait` marks the task BLOCKED, drops the
semaphore's lock and switches away, or waits in a `wfe` loop when its CPU has
nothing else to run. `sem_post` runs in a task or, through the completion
dispatcher, in the DMA interrupt handler of any CPU, and makes the waiter READY
on the waiter's home CPU. Workers submit a copy to the accelerator, wait on a
semaphore, and then poll on behalf of the others. Everything prints through
`klog`, from tasks and interrupt handlers of every CPU, under one spinlock.

`PROJECT.json` lists the parts (`components`), the hazards of the code with the
properties that cover them (`hazards`), the lines each definition stands for
(`map`), and the runs, findings and theorems.

## 2. The modules

**`RunQueue`** — pure operators. A run queue is a sequence of tasks; `select_next`
is the policy's choice (`roundrobin`, `ewma`, `load_aware`), `ewma_on_tick` the load
average in integer arithmetic, `MigrateSource`, `MigrateSourceIdx` and
`MigrateDest` the array surgery of `sched_migrate`, `Busiest` and `Idlest` the
balancer's choice.

**`SmpSched`** — the kernel core. Per CPU: `pc`, `run` (whose stack the CPU is
on), `curr` (`cpu_local_t.curr`), `daif`, `active` (interrupt acknowledged, not yet
EOIed) and the locals of the handler in progress (`next`, `prev`, `sem`, `w`,
`wcpu`, `comps`). Per task: `state`, `load`, `home` (`tcb_t.cpu`), `sp` (the saved frame:
on which stack, at which call site, with which DAIF), `flags` and `ipc` (what is on
the task's stack). Shared: queues, `current_idx`, semaphores and the holder of
each spinlock.

A step is what no other CPU or interrupt can observe half done: a critical
section is one step between its lock step and its unlock, but everything that
another CPU reads without that lock (`curr`, `state`, `home`) is written in a step
of its own. In particular `SetCurrent` (`current = next`) and `switch_to` are two
steps, and so are the balancer's check and its move. `switch_to` pops whatever
`sp` holds; a frame popped twice leads to `pc = "corrupt"`, which
`StackIntegrity` excludes.

What tasks do between kernel calls is open: `Yields`, `Waits`, `Posts` and `Polls`
say which task may make which call, and it may do so at any time. The device is
open as well: `DispatchLock` finds any number of completions.

**`SmpSchedInv`** — the inductive invariants `QueueInv` and `IInv`, and the refinement
mapping to `Semaphore`. **`SmpSchedQueues`** — what the operators of `RunQueue` return, and
the run queues under picking and migration. **`SmpSchedSteps`** — the steps of picking,
switching, interrupt handling and the balancing pass. **`SmpSchedSemSteps`** — the steps of
the semaphores, and which steps they cannot see. **`SmpSchedProofs`** — the theorems, the
refinement included.
**`MCSmpSched`** — the queues and client relations of the runs.

**`Semaphore`** — what `sem_wait` and `sem_post` promise, with no locks, queues or
CPUs in sight: permits, who asks for one, and who was handed one and has not
resumed yet. `SmpSched` implements it with `value <- count`; a task asks (`Asking`)
from its call until it takes a permit or a post takes it out of the `waiter` slot,
and is granted (`Granted`) while it is still inside `sem_wait` after that.

**`Spinlock`** — `spinlock.h` instruction by instruction: `sevl`, `wfe`, `ldaxr`,
`stxr`, `stlr` and the mask around them. A context is the task or the interrupt
handler of a CPU; the handler runs on top of the task whenever interrupts are open.
The processor is external: one event register and one exclusive monitor per CPU; a
store to the lock word clears the monitors of the others, which is an event; a
monitor may also be lost for no reason, and events may come from elsewhere.
**`AtomicLock`** is what it implements: ask, hold alone, give back.

**`Uart`** — extends `Spinlock`: `klog` and `uart_puts` write a line, character by
character, inside the lock, with `uart_print_dec` as the code computes it. The
transmit FIFO is external; `wire` is what has been sent of the current line.
**`MCUart`** gives each context its line. **`SpinlockProofs`** — the proofs about both.

**`IrqSync`** — the mutex, the event flags and the message queue. They mask
interrupts and take no lock, so they serve the tasks and handlers of one CPU; a
masked section is one step, and the scheduler may give the CPU to any READY task
between two of them (what happens inside `block_current_and_switch` is in
`SmpSched`). `queue_send` and `queue_recv` go round their loops one section at a
time. The mutex implements **`AtomicLock`**, with the tasks inside `mutex_lock` that
blocked as those who wait; the queue implements **`BoundedFifo`**, with the items from
`head` on, modulo `QUEUE_CAP`, as its contents. No task of the tree uses them now, so the
model's tasks call them in any order the one-waiter slots allow.

**`DmaWorkers`** — `worker_entry`, the submission and completion rings, `pending[]`,
`dispatch_available_completions`, and the interrupt handler, with the device as an
external environment that fetches in order, completes in any order and raises a
level-triggered interrupt after it has moved `CQ_TAIL`. Each worker is a process,
since it may run on any CPU and be preempted anywhere; the handler is one more.
`sem_wait` and `sem_post` are atomic here, which is what `SmpSched` is about.
`DISABLE_REAL_DMA`, fixed by `Init`, selects the build that fakes completions.
**`DmaProofs`** — the proofs about it.

**`Pci`** — `pci_find_dma_accel` one configuration access at a time: the scan, memory
decode off, BAR 0 sized, restored, assigned and read back, the device turned on; then
`accel_init` and `accel_setup_queues`, whose writes reach the device only if it
decodes memory at the address the driver uses. The slots' registers are external. A
BAR keeps the bits its size allows and its type flags. `Boot` extends this module.

**`Boot`** — `kernel_main` up to the first switch, `smp_boot_secondaries`,
`secondary_main` and `sched_register_on`. CPU 0 and the secondaries are processes;
firmware may refuse any CPU, and a CPU it agreed to start may take its first step
after CPU 0 has given up on it, or never. Registering and picking are critical
sections of a queue's lock and one step each. Builds with `SMP_SELFTEST` (its barrier,
its locked counter and its verdict) and `DMA_IRQ_CPU` are chosen by `Init`. What
`Boot` leaves behind is what `SmpSched` assumes of its queues (`QueuesComplete`,
`IrqsFindQueue`) and `DmaWorkers` of the device (`DeviceReady`); `SmpSched` then starts
with every CPU at its first task. **`MCBoot`** has the machines: what is in the slots of
bus 0. **`BootProofs`** — one lemma per step of enumeration and bring-up, counting,
capacity and the theorems.

Each module also contains faulty variants of some operations ("plausible
mistakes"). They are not part of `Next`; substituting one for the operation it is
named after must break the property `PROJECT.json` pairs it with.

## 3. The runs

| Run | Instance | Shows |
|---|---|---|
| `SchedSafe` | 2 CPUs, 4 tasks, 2 semaphores, load aware, DMA interrupt on CPU 0, a poller on CPU 1 | all safety properties of the core, the inductive invariant `IInv` (checked before it was proved), and that the core implements `Semaphore` |
| `SchedLive` | 2 CPUs, a waiter and two tasks that never block on one, a single waiter on the other, load aware | if ticks keep coming a READY task runs, unless lighter tasks of its queue keep coming up; no permit lies there while a task asks for it, and a task that was handed one returns, from the `wfe` loop or after it was switched away; masked sections end |
| `LbSafe` | 3 CPUs, balancing build | queues, wake-ups and locks are right in spite of the migration race below |
| `LbStack`, `LbWake` | same | two consequences of the migration race (violations, section 6) |
| `Dma` | 2 workers, ring of 4, both builds, ok and error completions, interrupts delivered or lost | with the device every completion wakes its own worker once, with its own result; until a command fails nothing is stranded in the ring, and with interrupts delivered everybody finishes and the line is released; without, one worker that got through polls the rest through, errors or not |
| `Boot` | 3 machines, 3 CPUs, 3 workers, both `SMP_SELFTEST` builds, `DMA_IRQ_CPU` undefined or 1 | the accelerator is found, sized while it decodes nothing, and ready before its interrupt is enabled or a worker runs; other devices are left alone; queues, `current_idx` and frames are right when interrupts open; placement is right if CPUs come up in order; the self-test blames the lock only if a CPU was late; CPU 0 always gets to its first task |
| `BootGap` | the machine of the docs | violation, section 6 |
| `DmaLost`, `DmaError` | 2 workers | violations, section 6 |
| `Uart` | 2 CPUs, task and interrupt context on each, a FIFO of 2 | lines are whole and numbers right; the lock loop implements `AtomicLock` and never leaves a free lock to sleepers; masked sections end unless the CPU loses every race for the lock |
| `IrqSync` | 2 tasks, both lock the mutex, one sends, the other receives and waits for events; 2 event bits, a queue of 2 | mutex and queue implement `AtomicLock` and `BoundedFifo`; the queue serves its callers; a BLOCKED task is in the right slot for a reason; `event_wait` returns what it was asked for |

Bounds. Two CPUs with two tasks each are the least in which a task is preempted,
blocked and posted from another CPU and from its own interrupt handler, and CPU 0
of `SchedSafe` can run out of READY tasks, so both outcomes of
`block_current_and_switch` occur. `MaxCount = 1` stops posts at one token: a larger
count only repeats `SemTake`. Two drained completions (`NUM_WORKERS = 2`) make the
dispatcher's loop go round with its lock held. `EWMA_SCALE = 2` with weight 1/2
keeps loads in 0..2, enough for a task to be lighter, heavier or equal.
`LB_PERIOD = 2` instead of 200 makes both branches of the throttle happen. In
the balancing runs CPU 1 has three tasks and CPU 2 one, the smallest imbalance
the balancer acts on, and one of the three is pinned. CPU 0 of `SchedLive` has three
tasks, the shortest queue in which `load_aware` starves one: without the exception
`Outweighed`, `ReadyTaskRuns` is false there (section 6). Its waiter is always switched
away, since the other two are always READY; the waiter of CPU 1 has nobody to switch to.
Two workers in `Dma` are the least for which completions come out of order and one
polls while the other waits; its invariants are proved for any number of them. Command
ids do not exceed `NUM_WORKERS` because a worker submits once, so the rings are
never reused and their depth of 4 replaces 16. `Boot` has three CPUs, so that a CPU
that fails can be followed by one that does not; `MAX_TASKS = 5` instead of 8 is the
longest queue bring-up builds, so registration happens at the limit. Its bus has
three slots, enough for a device like the accelerator before it and for a machine
without one; a BAR is 8 bits wide, so that there are size bits above the four flag
bits; `SELFTEST_N = 2` lets increments of two CPUs interleave. In `Uart` four contexts
print a zero, a plain string, a number that ends in zero and one with a zero inside; a
FIFO of 2 is shorter than every line. `IrqSync` has a queue of 2 (4 in the code), so
that it is full, partly full and empty and wraps; the proofs below cover any capacity
and number of tasks.

`LbSafe` explores everything, the states of the migration race included. A CPU that
pops a frame which another CPU has popped already (`"corrupt"`) makes no further step,
as nothing is known of it; the other CPUs go on. So the run shows what the race does not
break; what it does break, `StackIntegrity` and `WakeLocksHome`, is in `LbStack` and
`LbWake`. That this race is the only way to break them is proved (section 5).

The DMA runs do not check for deadlock: a finished worker stays in
`while (1) wfe`.

## 4. Fairness

`SmpSched!Fairness`: a CPU inside the kernel keeps executing (weak fairness of
`KernelStep`). A CPU that spins gets a lock that is released again and again
(strong fairness of `Acquire`): the lock is a bare exclusive-store loop without a
ticket, so this is an assumption on the hardware, not a consequence of
`spinlock.h`. Interrupts leave the `wfe` loop time for an iteration now and then
(strong fairness of `WaitLoop`). Tasks need not call anything and no interrupt need
arrive, the timer's included: `worker_entry` warns that it "can silently stop being
redelivered" (`main.c:601`). That ticks keep coming (`TimerDelivered`, strong fairness of
`TimerIrq`: the timer is re-armed in every tick and its interrupt stays pending while the
CPU is masked) is a hypothesis of `ReadyTaskRuns` and of the second half of
`SemaphoreServes`. `IrqsReopen`, and that permits are taken, do without.

`DmaWorkers`: workers run, locks as above, a handler that was entered continues, the
device works through what it was given. That a worker runs is what `ReadyTaskRuns` gives
as long as ticks come and no lighter tasks of its queue keep coming up. On CPU 0 the workers
share a queue with `busy_task` only; CPUs 1 and 2 also have `ping` and `pong`, which block
and are woken, so there it is an assumption.
That an asserted interrupt is taken (`IrqDelivered`) is not part of `FairSpec`,
since the comments in `worker_entry` describe a "known GIC redelivery flake" against
which the polling loop is meant to protect; the properties that need it say so.

`Boot`: CPU 0 goes on, and so does a secondary that has shown up; nothing says that
a CPU firmware has agreed to start ever does.

`Spinlock`: a context that is not asleep executes (weak fairness). Strong fairness of a
successful `stxr` is the progress the architecture promises for exclusives: a CPU that
can store over and over does so once. Strong fairness of `Eret` says that interrupts
leave the interrupted task some time. Neither lets a CPU win against another for good,
so starvation of one CPU is not excluded, and `PrintersReturn` says so. `Uart` adds that
the UART sends and the writer goes on.

`IrqSync`: a READY task gets the CPU and time for a step on it (strong fairness of
`Switch` and `Step`). This is an assumption on the policy: it fits the round robin, and
`load_aware` in queues too short for starvation (section 6). Nobody need call or set
anything.

## 5. The proofs

Proved with TLAPS for every number of CPUs, tasks and semaphores, every
boot-time placement, policy, client and interrupt routing allowed by the
assumptions in `SmpSched` and `RunQueue`, with and without load balancing. The first three
theorems hold in every behaviour, `DefaultBuild` in every behaviour of the build it is
about. The others have the form `Spec /\ []RaceFree => ...`, where `RaceFree` says that in
a build with `LOAD_BALANCE_SELFTEST` no state is one of the migration race (`LbRace`,
section 6). A behaviour may stutter for ever in any state, so these theorems cover every
behaviour up to its first state of the race: nothing else can break the properties.

| Theorem | States |
|---|---|
| `SelectNextResult` | a policy returns `current` if no task of the queue is READY, and otherwise a READY one, at the index it returns; under `load_aware` none that is READY is lighter |
| `LoadBounded` | the integer load average stays in `0..EWMA_SCALE` |
| `QueuesSafe` | `Spec => []QueuesPartitionTasks`, in every build and past the race too |
| `DefaultBuild` | without `LOAD_BALANCE_SELFTEST`, `Spec` implies all that follows |
| `Invariance` | `Spec /\ []RaceFree => [](TypeOK /\ IInv /\ QueueInv)` |
| `TypeCorrect` | `TypeOK` |
| `StacksSafe` | `StackIntegrity` |
| `IrqWindowSafe` | `IrqWindow` |
| `WakeupsSafe` | `NoLostWakeup` |
| `TokensSafe` | `NoSleeperWithTokens` |
| `TaskCodeReady` | `TaskCodeIsReady` |
| `LocksSafe` | `NoDeadlock` |
| `HandoverSafe` | `BlockedNeverHandedCpu` |
| `SemaphoreIsAtomic` | `SemaphoreAtomic`: the core implements `Semaphore` |

Proved about the other modules, for any set of CPUs, tasks, workers or items:

| Theorem | Module | States |
|---|---|---|
| `SpinlockIsAtomic`, `UartLockIsAtomic` | `SpinlockProofs` | the exclusive-access loop implements `AtomicLock`, also under `Uart` |
| `MutexIsAtomic` | `IrqSyncProofs` | the mutex implements `AtomicLock` |
| `QueueIsFifo` | `IrqSyncProofs` | the ring buffer implements `BoundedFifo`, for any `QUEUE_CAP` |
| `NobodyForgotten` | `IrqSyncProofs` | `BlockedForAReason` |
| `EventResultRight` | `IrqSyncProofs` | `EventResult` |
| `DmaTypes` | `DmaProofs` | `TypeOK` of `DmaWorkers`, in both builds |
| `ControlIsSilent` | `DmaProofs` | the build `DISABLE_REAL_DMA` leaves the device alone (`DeviceIdle`) |
| `DmaInvariance` | `DmaProofs` | `DInv`, with the device |
| `CompletionsSafe` | `DmaProofs` | `NoCompletionDropped`, in both builds |
| `PostsSafe` | `DmaProofs` | `PostedOnce`, with the device |
| `ResultsSafe` | `DmaProofs` | `RightResult`, with the device |
| `NothingStranded` | `DmaProofs` | `NoStrandedCompletion`, in both builds |
| `LinesAreWhole` | `SpinlockProofs` | `LinesWhole`, for any FIFO depth and any numbers |
| `PrintDecRight` | `SpinlockProofs` | `uart_print_dec(v)` is the decimal form of `v`, for every natural `v` |
| `BootTypesOk` | `BootProofs` | `TypeOK` of `Boot` |
| `ScanFindsFirst` | `BootProofs` | `PciResult`, for every bus |
| `SizingUnseen` | `BootProofs` | `SizingHidden` |
| `OthersUntouched` | `BootProofs` | `OnlyAccelTouched`: only the first accelerator of the bus is written to |
| `ReadyBeforeUse` | `BootProofs` | `DeviceReady` |
| `RegistrationsKept` | `BootProofs` | `QueuesComplete` |
| `InterruptsFindQueue` | `BootProofs` | `IrqsFindQueue` |
| `PlacedInOrder` | `BootProofs` | `OnlineInOrder` |
| `VerdictSound` | `BootProofs` | `SelftestVerdict` |

The type invariants of `SmpSched`, `DmaWorkers` and `IrqSync`, `NoSleeperWithTokens`,
`TaskCodeIsReady` and `BlockedNeverHandedCpu` are proved, and not properties of a run.

The assumptions: CPU ids are `0..SMP_ONLINE-1`; every task is registered once, on
one CPU, and no queue is empty or overfull (what bring-up produces); a semaphore
has one waiting task (all semaphores of the tree do; `sem_t` has one waiter slot).
`IrqSync` assumes the same of its slots: two tasks share a mutex, one waits for events,
one sends, one receives. `Spinlock` assumes nothing, `Uart` a CPU, a FIFO that holds a character and
natural numbers to print. `Pci` assumes what the bus guarantees of a BAR: sizes and the
MMIO base fit into it, the size divides the base and the BAR's range and is above the flag
bits (`PciAssumption`), and that the accelerator has a BAR 0 (`AccelAssumption`). `Boot` assumes room in `tasks[]` for all workers and
`busy_task` on CPU 0 and for the four tasks and half of the workers on a secondary
(`CapacityAssumption`: 4 and 5 of the code's 8 entries; a registration in a full array is
dropped silently). `DmaWorkers` assumes at least one
worker and a ring that holds a command of each (`NUM_WORKERS` is 3, the ring's
depth 16). `PostedOnce` and `RightResult` speak of the build with the device only
(`~DISABLE_REAL_DMA`). Of the other build what they say is false: a worker fakes its
completion in the slot of `pending[]` that has its id (`main.c:566`), but its request is in the
first free slot, so a worker that does not submit in the order of the ids reports a wrong
completion. This only affects what the control
experiment prints.

`StackIntegrity` is not inductive: that a picked task's frame is intact depends
on which tasks a CPU may pick, on `curr` and `run` agreeing except between
`SetCurrent` and `switch_to`, and on interrupts being masked there. `IInv` says
this in five parts:

- `HomeInv`: a CPU runs, has picked and has as `curr` only tasks that are at home on it,
  and `sched_wake` is about to lock the queue of its task's home. This is what keeps two
  CPUs off one stack.
- `ControlInv`: for each program point, which locals are live, what `curr`, `next`
  and `prev` are, which interrupt is active, and that interrupts are open only in
  task code and the `wfe` loop; a balancing pass is CPU 0's, between a timer tick's pick
  and its switch.
- `FrameInv`: the frame of a task that is not running is its own, resumes with
  the mask its call site expects, and nothing else on its stack is stale.
- `LockInv`: each lock's holder is at a program point inside its section (`HoldsRq` for
  the run queues, of which the balancer holds two).
- `SleepInv`: a BLOCKED task is in `sem_wait`, and is registered with exactly one
  semaphore or held by exactly one `sem_post`; a picked task is READY, and so is the task
  that is being moved.

A migration changes the home of its victim, and keeps `HomeInv` if no CPU runs the victim
or has picked it, which is `NoLbRace`. The same condition keeps the victim READY between the
check and the move, since only a CPU that runs a task can block it, and with that no
sleeping task moves while `sched_wake` waits for the lock of its queue: up to the race
`WakeLocksHome` holds too.

The queues are a matter of their own, `QueueInv`, which every step preserves, in the race
as well: each task is in one queue, its home CPU's, once, and `current_idx` is inside the
queue (`Queued`). Only CPU 0 changes queues, so what the balancer saw of their lengths and
of the victim's home remains true until it moves the task (`Balancing`); this is why the
destination has room, the source keeps a task, and `current_idx`, which `sched_migrate`
resets to 0 when it falls off the end, names an entry. That nothing interrupts the pass,
and nothing else starts one, is because interrupts stay masked from the tick on (`TickAt`);
`QueueTypes` has those types that corrupted stacks leave intact.

`SmpSchedSteps` and `SmpSchedSemSteps` have one lemma per action;
`SmpSchedProofs` combines them and derives the theorems. `LocksSafe` orders the
locks: accel, then semaphore, then run queue, and those by ascending CPU id. A CPU that holds
a run queue's lock does not spin, unless it is the balancer between its two, and then it
waits for the one with the larger id, whose holder does not spin. So in a set of CPUs that
all spin on each other none holds a run queue lock, hence none a semaphore lock, hence none
`accel_lock`.

The refinement of `Semaphore` rests on `IInv`: a task in a `waiter`
slot is inside `sem_wait` (`SleepersInSemWait`), and no other CPU or task has moved in or
out of it (`Others`). Most steps are then stuttering steps because they keep each CPU's
running task in or out of `sem_wait` (`Neutral`); the ones that are not are `sem_wait`,
`SemTake`, `SemBlock`, `PostCount` and `PostWaiter`, and the two ways back, `WaitLoop` and
`Restore`. `switch_to` is the one step that exchanges the running task: the frame of a task
that blocked says so (`sp.at = "sem_wait"`), which is why `FrameInv` is needed.

`SpinlockProofs` uses `LockInv`: a context inside the lock's code has interrupts masked
and is what its CPU executes, so the two contexts of a CPU, which share a monitor, are
never inside together; and a monitor that is armed at `stxr` means that the lock is still
free, since every store to it clears the other monitors. `IrqSyncProofs` uses `SyncInv`: who is in which slot, that a mutex which is
being handed over is locked and belongs to nobody who runs, that the result stored for
the woken task fulfils the mask it waits for, and that `count` is the distance from `head` to `tail`.

`DmaProofs` uses `DInv`. That a completion wakes its own worker once is not inductive:
it depends on how three tables line up. Descriptor `k` is command `k + 1` of the worker
that remembers this id (`CmdPart`); its request is in `pending[k]`, except for the one
command that is submitted and not yet registered, whose worker holds `accel_lock`
(`PendPart`, `LockPart`); each command the device fetched is in flight or, once, in the
completion ring (`DevPart`). What a dispatcher still has in `comps` is then a piece of
the completion ring whose requests are registered and not done (`MatchPart`), so each
finds exactly one slot, and the worker's semaphore is 0 before the post (`SemPart`). That
the completion ring has room rests on a count: a command in flight has no completion yet,
so fewer completions than fetched commands have been posted. `NothingStranded` adds that
a dispatcher leaves its loop at `NUM_WORKERS` completions only when there are no more, and
that an error bit, once set, stays (`ErrorsStay`).
The build without the device has an invariant of its own, `FInv`: the rings stay empty,
the handler is never entered, a worker has the token it gave itself until it takes it, and
the faked ids count the workers that have submitted, so they are no more than
`NUM_WORKERS`.

`LinesAreWhole` uses `TextInv`: every character in the FIFO has a writer and a place in
that writer's line, and is followed by the next character of the same line until it ends;
what is on the wire is the beginning of such a line; and whoever has written part of a line
is the last writer and holds the lock. The FIFO may hold the ends and beginnings of several
lines, which is why the text cannot be described by the holder of the lock alone. The numbers rest on `PrintDecRight`, which needs
induction over the argument of `uart_print_dec`: that the recursive functions exist, and
that the digits read back give the number, is shown by a least counterexample (`Least`,
from the well-foundedness of `<`).

`BootProofs` uses `BootInv`, whose parts are one per concern:

- `PciInv`: for each step of the enumeration, where the scan is, what BAR 0 holds and
  whether it is decoded; slots that are not the accelerator are as firmware left them.
- `CtlInv`: which program points of CPU 0 and of a secondary can occur together, and what
  `k` counts in each of CPU 0's loops.
- `DevInv`: the registers are written and the device answers before its interrupt is
  enabled.
- `CountInv`: `online` is the size of a set of CPUs that are alive, CPU 0 among them. The
  set is the CPUs that were alive in time; without gaps every CPU below `online` is then
  alive (`NoGaps`), which is what `PlacedInOrder` needs.
- `StInv`: the locked counter is the number of increments made, as a set of pairs of a
  CPU and a round, so the verdict compares two cardinalities.
- `QueueInv`: a queue holds exactly the tasks its CPU has registered by itself and the
  workers CPU 0 has placed there, in any order, each once, with `cpu` and a frame; and once
  a CPU has started, `current_idx` names `curr`.

That no registration is dropped needs the queue to have room, a statement about
cardinalities: an injective sequence over the tasks that may ever come to one CPU is no
longer than their number, and a CPU's share of the workers, every `smp_online`-th of them,
is at most half when two CPUs are up (`ShareBound`, `QueueCapacity`, `Room`).

Every invariant, action property and refinement that a run finds true has a theorem. Only
model-checked is liveness, since TLAPS does not handle fairness: `ReadyTaskRuns`,
`SemaphoreServes`, `IrqsReopen`, `AllFinishIfDelivered`, `OnePollerSuffices`,
`LineReleasedIfOk`, `BootFinishes`, `LockNotLeftFree`, `PrintersReturn` and `QueueServes`. Past
the migration race only the queues are proved right; that wake-ups and locks are right there
too is model-checked (`LbSafe`), and stacks are then really lost (`LbStack`).

## 6. Where code and claims differ

All are in `PROJECT.json` with the lines quoted.

- **`LbStack`** — `sched_migrate` checks that its victim is READY and not the source
  CPU's `curr`, under the run queue locks. Neither `current = next`, nor the switch, nor
  `sem_wait`'s `state = 1` happens under those locks. So a task whose stack is in use, or
  that has been picked, or that is about to block, can pass the check and be moved; in
  the worst case two CPUs resume one stack. Only the `LOAD_BALANCE_SELFTEST` build is
  affected.
- **`LbWake`** — the same window defeats what `sched_migrate` says it protects:
  "BLOCKED tasks still rely on sched_wake's home-CPU-never-changes invariant". A task
  that its CPU has picked passes the check, runs, and blocks in `sem_wait`; a post on a third
  CPU reads its `t->cpu`; then the balancer moves it. `sched_wake` locks the queue the task
  has left, and sets `state` under a lock that no longer protects it. `LbSafe` shows that no
  wake-up is lost by this in its instance.
- **`DmaLost`** — workers poll only after their own `sem_wait`, so the fallback does
  not help when the lost interrupt was everybody's.
- **`DmaError`** — error interrupts are unmasked and never acknowledged. This
  assumes that the device sets `IRQ_DMA_ERROR` for a failed command.
- **`BootGap`** — `smp_online` is a number of CPUs and is used as a bound on their
  ids. If CPU 1 does not come up and CPU 2 does, worker 1 is placed on CPU 1 (and
  `DMA_IRQ_CPU=1` is routed there).

One more was met and has no run. Loads never decay, and a blocking task is not ticked while
it sleeps, so under `load_aware` a light task that blocks and is woken alternates with the
heavy task that follows it in the queue, and a third, as heavy, stays READY for good
although ticks keep coming. `ReadyTaskRuns` therefore excepts a task that is `Outweighed`
again and again; without the exception TLC refutes it in the instance of `SchedLive`. Between
two waiters and a third task the same happens to a waiter that was handed its permit, hence
the same exception in `SemaphoreServes`. And without ticks no load changes, so a `yield`
of the strictly lightest task of a queue always picks that task again: under `load_aware`
the polling loop of `worker_entry` does not get others to run by "voluntary scheduling"
(`main.c:603-605`) in that case.

## 7. Abstractions, and what is left out

- Registers other than DAIF and the stack pointer are part of "a frame".
- Memory is sequentially consistent. The barriers in `spinlock.h` and `accel.c`
  are therefore not checked.
- Only the interrupts the kernel enables exist: the timer (30) and the
  accelerator (37). Spurious ids and their early return are left out.
- `select_count[]`, `dma_irq_count[]` and other statistics, what is printed, and the
  unprotected counter `st_plain` of `SMP_SELFTEST` are left out.
- `count` and `cmd_id` are unbounded integers; the machine's wrap after 2^31 posts
  or 2^64 commands.
- Where a module uses a lock or a semaphore in one step, another module shows that
  this is what the code gives (`Spinlock`, `SmpSched` with `Semaphore`).
- In `Uart`, `put_hex` and the exception handlers write characters without the lock;
  the first runs while CPU 0 is the only one that prints, the others before it stops.

Not modelled, and why:

- `accel_poll_completion`, `accel_drain_completions`, `accel_last_completion` and the
  accessors for debugging, which nothing calls: a second reader of the completion ring
  beside the dispatcher is no use the code has.
- The `DEBUG_HOOKS` code of `sched.c` and `sync.c`, `sync_exception_handler_full` and the
  diagnostic vectors: they compare, print and stop, and nothing depends on them.
- `boot.S` (the drop from EL2 to EL1 and the stack set-up), `linker.ld`: straight-line
  code before the first step of `Boot`; `gic_probe_target`: an experiment that is
  compiled in only with `GIC_PROBE`.
- The log tools and stress scripts process text on the host.

## 8. What could come next

1. The order in which `sched_wake` and the load balancer would have to publish
   `curr` for `StackIntegrity` to hold in the balancing build; the proofs would then lose
   the proviso `RaceFree`.
2. A memory model for the barriers of `accel.c` and `spinlock.h`.
