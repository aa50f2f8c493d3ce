----------------------------- MODULE DmaWorkers -----------------------------
(***************************************************************************)
(* The DMA path of the kernel: the workers of main.c, the accelerator      *)
(* driver of accel.c with its submission and completion rings, the table   *)
(* pending[] that matches completions to waiters, the interrupt handler    *)
(* and the polling fallback.  The device is external.                      *)
(*                                                                         *)
(* Workers run on any CPU and may be preempted between any two steps, so   *)
(* each is a process of its own; the interrupt is routed to one CPU and is *)
(* one more.  sem_wait and sem_post are the atomic semaphore that SmpSched *)
(* shows them to be.  A command copies its worker's source buffer to the   *)
(* worker's destination buffer; dst[i] says whether that has happened.     *)
(***************************************************************************)
EXTENDS Integers, Sequences, FiniteSetsExt

CONSTANTS
    NUM_WORKERS,            \* workers, and slots of pending[]
    DMA_ACCEL_QUEUE_DEPTH,  \* entries of each ring
    Builds,                 \* values of the macro DISABLE_REAL_DMA to consider
    Statuses                \* completion statuses the device may report

ASSUME WorkerAssumption ==
    /\ NUM_WORKERS \in Nat \ {0}
    /\ DMA_ACCEL_QUEUE_DEPTH \in Nat /\ NUM_WORKERS <= DMA_ACCEL_QUEUE_DEPTH
    /\ Builds \subseteq BOOLEAN
    /\ Statuses \subseteq {"ok", "error"}

Workers == 0..(NUM_WORKERS - 1)
Isr == -1
Agents == Workers \cup {Isr}
NoAgent == -2
Slots == 0..(NUM_WORKERS - 1)
Ring == 0..(DMA_ACCEL_QUEUE_DEPTH - 1)

VARIABLES
    pc,         \* per worker and for the interrupt handler
    cmd_id,     \* worker_entry's local: the command it has submitted
    worker_sem, \* count of each worker's semaphore
    worker_loops_seen,
    accel_lock, \* who holds it
    pending,
    comps,      \* the holder's local: completions drained and not yet matched
    drained,    \* the holder's local: how many it has drained
    sq_ring, sq_tail_local, cq_head_local,
    DISABLE_REAL_DMA,     \* which build this is
    fake_cmd_id_counter,
    \* the device
    sq_head, inflight, cq_ring, cq_tail, raise, irq_status, dst

driverVars == <<accel_lock, pending, comps, drained, sq_ring, sq_tail_local, cq_head_local>>
fakeVars == <<DISABLE_REAL_DMA, fake_cmd_id_counter>>
workerVars == <<cmd_id, worker_sem, worker_loops_seen, fakeVars>>
deviceVars == <<sq_head, inflight, cq_ring, cq_tail, raise, irq_status, dst>>
vars == <<pc, workerVars, driverVars, deviceVars>>

NoResult == [cmd_id |-> 0, status |-> "ok"]

Init ==
    /\ pc = [a \in Agents |-> IF a = Isr THEN "idle" ELSE "start"]
    /\ cmd_id = [i \in Workers |-> 0]
    /\ worker_sem = [i \in Workers |-> 0]
    /\ worker_loops_seen = [i \in Workers |-> FALSE]
    /\ accel_lock = NoAgent
    /\ pending = [k \in Slots |-> [used |-> FALSE, done |-> FALSE, cmd_id |-> 0,
                                   sem |-> 0, result |-> NoResult]]
    /\ comps = <<>> /\ drained = 0
    /\ sq_ring = [k \in Ring |-> [cmd_id |-> 0, worker |-> 0]]
    /\ sq_tail_local = 0 /\ cq_head_local = 0 /\ fake_cmd_id_counter = 0
    /\ DISABLE_REAL_DMA \in Builds
    /\ sq_head = 0 /\ inflight = {}
    /\ cq_ring = [k \in Ring |-> NoResult]
    /\ cq_tail = 0
    /\ raise = {} /\ irq_status = {}
    /\ dst = [i \in Workers |-> FALSE]

Goto(a, l) == pc' = [pc EXCEPT ![a] = l]

-----------------------------------------------------------------------------
(* Plausible mistakes, none of them part of Next.                          *)

(* Only the submission is in the critical section. *)
accel_submit_copyUnlocks(i) ==
    /\ pc[i] = "submit" /\ ~DISABLE_REAL_DMA
    /\ cmd_id' = [cmd_id EXCEPT ![i] = sq_tail_local + 1]
    /\ sq_ring' = [sq_ring EXCEPT ![sq_tail_local % DMA_ACCEL_QUEUE_DEPTH] =
                      [cmd_id |-> sq_tail_local + 1, worker |-> i]]
    /\ sq_tail_local' = sq_tail_local + 1
    /\ accel_lock' = NoAgent
    /\ Goto(i, "register")
    /\ UNCHANGED <<fakeVars, worker_sem, worker_loops_seen, pending, comps,
                   drained, cq_head_local, deviceVars>>

(* The handler acknowledges (again) at its end. *)
gic_eoiAcks ==
    /\ pc[Isr] = "eoi"
    /\ irq_status' = irq_status \ {"DMA_DONE"}
    /\ Goto(Isr, "idle")
    /\ UNCHANGED <<workerVars, driverVars, sq_head, inflight, cq_ring, cq_tail, raise, dst>>

(* The interrupt is not acknowledged at the device. *)
accel_irq_ackMissing ==
    /\ pc[Isr] = "ack"
    /\ Goto(Isr, "disp_lock")
    /\ UNCHANGED <<workerVars, driverVars, deviceVars>>

(* A worker stops polling as soon as its own command is done. *)
PollLoopLeft(i) ==
    /\ pc[i] = "loop"
    /\ Goto(i, "done")
    /\ UNCHANGED <<workerVars, driverVars, deviceVars>>

-----------------------------------------------------------------------------
(* worker_entry                                                            *)

(* Fill the buffers and sem_init(&worker_sem[id], 0). *)
Start(i) ==
    /\ pc[i] = "start"
    /\ worker_sem' = [worker_sem EXCEPT ![i] = 0]
    /\ dst' = [dst EXCEPT ![i] = FALSE]
    /\ Goto(i, "lock")
    /\ UNCHANGED <<fakeVars, cmd_id, worker_loops_seen, driverVars, sq_head,
                   inflight, cq_ring, cq_tail, raise, irq_status>>

SubmitLock(i) ==
    /\ pc[i] = "lock" /\ accel_lock = NoAgent
    /\ accel_lock' = i
    /\ Goto(i, "submit")
    /\ UNCHANGED <<workerVars, pending, comps, drained, sq_ring, sq_tail_local, cq_head_local,
                   deviceVars>>

(* Write the descriptor, then ring the doorbell. *)
accel_submit_copy(i) ==
    /\ pc[i] = "submit" /\ ~DISABLE_REAL_DMA
    /\ cmd_id' = [cmd_id EXCEPT ![i] = sq_tail_local + 1]
    /\ sq_ring' = [sq_ring EXCEPT ![sq_tail_local % DMA_ACCEL_QUEUE_DEPTH] =
                      [cmd_id |-> sq_tail_local + 1, worker |-> i]]
    /\ sq_tail_local' = sq_tail_local + 1
    /\ Goto(i, "register")
    /\ UNCHANGED <<fakeVars, worker_sem, worker_loops_seen, accel_lock, pending,
                   comps, drained, cq_head_local, deviceVars>>

(* pending[] with the request of worker i in its first free slot, if any. *)
pending_register(i, id) ==
    LET free == {k \in Slots : ~pending[k].used}
    IN  IF free = {} THEN pending
        ELSE [pending EXCEPT ![Min(free)] =
                 [@ EXCEPT !.cmd_id = id, !.sem = i, !.used = TRUE, !.done = FALSE]]

Register(i) ==
    /\ pc[i] = "register"
    /\ pending' = pending_register(i, cmd_id[i])
    /\ accel_lock' = NoAgent
    /\ Goto(i, "wait")
    /\ UNCHANGED <<workerVars, comps, drained, sq_ring, sq_tail_local, cq_head_local, deviceVars>>

(* The control experiment without the device: the completion is faked in   *)
(* pending[id].                                                            *)
FakeCopy(i) ==
    /\ pc[i] = "submit" /\ DISABLE_REAL_DMA
    /\ LET id == fake_cmd_id_counter + 1
       IN  /\ cmd_id' = [cmd_id EXCEPT ![i] = id]
           /\ pending' = [pending_register(i, id) EXCEPT
                             ![i] = [@ EXCEPT !.result = [cmd_id |-> id, status |-> "ok"],
                                              !.done = TRUE]]
    /\ fake_cmd_id_counter' = fake_cmd_id_counter + 1
    /\ dst' = [dst EXCEPT ![i] = TRUE]
    /\ worker_sem' = [worker_sem EXCEPT ![i] = @ + 1]
    /\ accel_lock' = NoAgent
    /\ Goto(i, "wait")
    /\ UNCHANGED <<DISABLE_REAL_DMA, worker_loops_seen, comps, drained, sq_ring,
                   sq_tail_local, cq_head_local,
                   sq_head, inflight, cq_ring, cq_tail, raise, irq_status>>

sem_wait(i) ==
    /\ pc[i] = "wait" /\ worker_sem[i] > 0
    /\ worker_sem' = [worker_sem EXCEPT ![i] = @ - 1]
    /\ Goto(i, "check")
    /\ UNCHANGED <<fakeVars, cmd_id, worker_loops_seen, driverVars, deviceVars>>

(* Look up the result and compare it and the data (only printed). *)
Check(i) ==
    /\ pc[i] = "check"
    /\ worker_loops_seen' = [worker_loops_seen EXCEPT ![i] = TRUE]
    /\ Goto(i, "loop")
    /\ UNCHANGED <<fakeVars, cmd_id, worker_sem, driverVars, deviceVars>>

(* Poll and yield until every worker is through. *)
PollLoop(i) ==
    /\ pc[i] = "loop"
    /\ Goto(i, IF \A j \in Workers : worker_loops_seen[j] THEN "done" ELSE "disp_lock")
    /\ UNCHANGED <<workerVars, driverVars, deviceVars>>

-----------------------------------------------------------------------------
(* dispatch_available_completions, by a polling worker or the handler.     *)

DispatchLock(a) ==
    /\ pc[a] = "disp_lock" /\ accel_lock = NoAgent
    /\ accel_lock' = a
    /\ comps' = <<>> /\ drained' = 0
    /\ Goto(a, "drain")
    /\ UNCHANGED <<workerVars, pending, sq_ring, sq_tail_local, cq_head_local, deviceVars>>

(* One iteration of accel_drain_completions_multi, which reads CQ_TAIL     *)
(* afresh every time.                                                      *)
accel_drain_completions_multi(a) ==
    /\ pc[a] = "drain"
    /\ IF drained < NUM_WORKERS /\ cq_tail # cq_head_local
       THEN /\ comps' = Append(comps, cq_ring[cq_head_local % DMA_ACCEL_QUEUE_DEPTH])
            /\ drained' = drained + 1
            /\ cq_head_local' = cq_head_local + 1
            /\ UNCHANGED pc
       ELSE Goto(a, "match") /\ UNCHANGED <<comps, drained, cq_head_local>>
    /\ UNCHANGED <<workerVars, accel_lock, pending, sq_ring, sq_tail_local, deviceVars>>

(* The slots a completion of command id belongs to. *)
Matching(id) ==
    {k \in Slots : pending[k].used /\ ~pending[k].done /\ pending[k].cmd_id = id}

(* What a matched completion does to its slot. *)
CompleteNotDone(slot, comp) == [slot EXCEPT !.result = comp]                 \* faulty
CompleteNoResult(slot, comp) == [slot EXCEPT !.done = TRUE]                  \* faulty

Complete(slot, comp) == [slot EXCEPT !.result = comp, !.done = TRUE]

(* The completions that remain after one is matched (or matches nothing).  *)
RestBroken(s) == <<>>    \* faulty: the break leaves both loops

Rest(s) == Tail(s)

MatchOne(a) ==
    LET comp == Head(comps)
        hit == Matching(comp.cmd_id)
        k == Min(hit)
    IN  /\ pc[a] = "match" /\ comps # <<>>
        /\ IF hit = {}
           THEN UNCHANGED <<pending, worker_sem>>
           ELSE /\ pending' = [pending EXCEPT ![k] = Complete(@, comp)]
                /\ worker_sem' = [worker_sem EXCEPT ![pending[k].sem] = @ + 1]
        /\ comps' = Rest(comps)
        /\ UNCHANGED <<fakeVars, pc, cmd_id, worker_loops_seen, accel_lock,
                       drained, sq_ring, sq_tail_local, cq_head_local, deviceVars>>

(* Unlock; a worker then yields and looks again, the handler goes on. *)
DispatchUnlock(a) ==
    /\ pc[a] = "match" /\ comps = <<>>
    /\ accel_lock' = NoAgent
    /\ drained' = 0
    /\ Goto(a, IF a = Isr THEN "eoi" ELSE "loop")
    /\ UNCHANGED <<workerVars, pending, comps, sq_ring, sq_tail_local, cq_head_local, deviceVars>>

-----------------------------------------------------------------------------
(* The interrupt handler: irq_handler / secondary_irq for DMA_ACCEL_IRQ_ID *)

(* The line is level triggered, and all three bits are unmasked. *)
LineAsserted == irq_status # {}

TakeIrq ==
    /\ pc[Isr] = "idle" /\ LineAsserted
    /\ Goto(Isr, "status")
    /\ UNCHANGED <<workerVars, driverVars, deviceVars>>

accel_irq_status ==
    /\ pc[Isr] = "status"
    /\ Goto(Isr, IF "DMA_DONE" \in irq_status THEN "ack" ELSE "eoi")
    /\ UNCHANGED <<workerVars, driverVars, deviceVars>>

(* Write one to clear. *)
accel_irq_ack ==
    /\ pc[Isr] = "ack"
    /\ irq_status' = irq_status \ {"DMA_DONE"}
    /\ Goto(Isr, "disp_lock")
    /\ UNCHANGED <<workerVars, driverVars, sq_head, inflight, cq_ring, cq_tail, raise, dst>>

gic_eoi ==
    /\ pc[Isr] = "eoi"
    /\ Goto(Isr, "idle")
    /\ UNCHANGED <<workerVars, driverVars, deviceVars>>

-----------------------------------------------------------------------------
(* The device (external): it fetches descriptors in order, completes them  *)
(* in any order, and raises its interrupt after it has moved CQ_TAIL.      *)

DevFetch ==
    /\ sq_head # sq_tail_local
    /\ inflight' = inflight \cup {sq_ring[sq_head % DMA_ACCEL_QUEUE_DEPTH]}
    /\ sq_head' = sq_head + 1
    /\ UNCHANGED <<pc, workerVars, driverVars, cq_ring, cq_tail, raise, irq_status, dst>>

DevComplete(d, status) ==
    /\ d \in inflight
    /\ inflight' = inflight \ {d}
    /\ dst' = [dst EXCEPT ![d.worker] = @ \/ status = "ok"]
    /\ cq_ring' = [cq_ring EXCEPT ![cq_tail % DMA_ACCEL_QUEUE_DEPTH] =
                      [cmd_id |-> d.cmd_id, status |-> status]]
    /\ cq_tail' = cq_tail + 1
    /\ raise' = raise \cup {IF status = "ok" THEN "DMA_DONE" ELSE "DMA_ERROR"}
    /\ UNCHANGED <<pc, workerVars, driverVars, sq_head, irq_status>>

DevRaise ==
    /\ raise # {}
    /\ irq_status' = irq_status \cup raise
    /\ raise' = {}
    /\ UNCHANGED <<pc, workerVars, driverVars, sq_head, inflight, cq_ring, cq_tail, dst>>

-----------------------------------------------------------------------------
Lock(a) == (a \in Workers /\ SubmitLock(a)) \/ DispatchLock(a)

WorkerStep(i) ==
    \/ Start(i) \/ accel_submit_copy(i) \/ Register(i) \/ FakeCopy(i)
    \/ sem_wait(i) \/ Check(i) \/ PollLoop(i)

Dispatch(a) == accel_drain_completions_multi(a) \/ MatchOne(a) \/ DispatchUnlock(a)

HandlerStep == accel_irq_status \/ accel_irq_ack \/ gic_eoi

Device ==
    DevFetch \/ DevRaise \/ \E d \in inflight, status \in Statuses : DevComplete(d, status)

Next ==
    \/ \E i \in Workers : WorkerStep(i)
    \/ \E a \in Agents : Lock(a) \/ Dispatch(a)
    \/ TakeIrq \/ HandlerStep
    \/ Device

Spec == Init /\ [][Next]_vars

(* Every worker gets to run (SmpSched: if ticks come and no lighter tasks  *)
(* keep coming up in its queue), a spinning CPU gets the lock at some      *)
(* point, an interrupt handler that was entered goes on, and the device    *)
(* works through what was submitted.                                       *)
Progress ==
    /\ \A i \in Workers : WF_vars(WorkerStep(i))
    /\ \A a \in Agents : SF_vars(Lock(a)) /\ WF_vars(Dispatch(a))
    /\ WF_vars(HandlerStep)
    /\ WF_vars(Device)

FairSpec == Spec /\ Progress

(* The GIC delivers an asserted interrupt.  Not part of FairSpec: comments *)
(* in worker_entry describe a redelivery flake.                            *)
IrqDelivered == WF_vars(TakeIrq)

-----------------------------------------------------------------------------
PCs == {"start", "lock", "submit", "register", "wait", "check", "loop", "done",
        "disp_lock", "drain", "match", "idle", "status", "ack", "eoi"}

Result == [cmd_id : 0..NUM_WORKERS, status : {"ok", "error"}]

(* Every variable has its type; no ring index runs away. *)
TypeOK ==
    /\ pc \in [Agents -> PCs]
    /\ cmd_id \in [Workers -> 0..NUM_WORKERS]
    /\ worker_sem \in [Workers -> 0..1]
    /\ worker_loops_seen \in [Workers -> BOOLEAN]
    /\ accel_lock \in Agents \cup {NoAgent}
    /\ pending \in [Slots -> [used : BOOLEAN, done : BOOLEAN, cmd_id : 0..NUM_WORKERS,
                              sem : Workers, result : Result]]
    /\ comps \in Seq(Result) /\ drained \in 0..NUM_WORKERS
    /\ sq_ring \in [Ring -> [cmd_id : 0..NUM_WORKERS, worker : Workers]]
    /\ fake_cmd_id_counter \in 0..NUM_WORKERS /\ DISABLE_REAL_DMA \in BOOLEAN
    /\ sq_tail_local \in 0..NUM_WORKERS /\ sq_head \in 0..sq_tail_local
    /\ cq_tail \in 0..sq_head /\ cq_head_local \in 0..cq_tail
    /\ inflight \subseteq [cmd_id : 1..NUM_WORKERS, worker : Workers]
    /\ cq_ring \in [Ring -> Result]
    /\ raise \subseteq {"DMA_DONE", "DMA_ERROR"}
    /\ irq_status \subseteq {"DMA_DONE", "DMA_ERROR"}
    /\ dst \in [Workers -> BOOLEAN]

(* A drained completion finds exactly one waiter: the doorbell and the     *)
(* registration are one critical section, and the dispatcher takes the     *)
(* same lock before it drains ("gets silently dropped" otherwise).         *)
NoCompletionDropped ==
    \A j \in 1..Len(comps) : Cardinality(Matching(comps[j].cmd_id)) = 1

Past(i) == pc[i] \notin {"start", "lock", "submit", "register", "wait"}

(* One wake-up per command given to the device: the posts a worker has     *)
(* received, taken or not, are the completed requests that name its        *)
(* semaphore (dispatch_available_completions).                             *)
PostedOnce ==
    ~DISABLE_REAL_DMA => \A i \in Workers :
        worker_sem[i] + (IF Past(i) THEN 1 ELSE 0)
            = Cardinality({k \in Slots : pending[k].done /\ pending[k].sem = i})

(* A worker that returned from sem_wait finds its own command's result,    *)
(* and its data is there if the device says so ("worker got wrong/bad      *)
(* completion" and "DATA MISMATCH" are never printed for an OK status).    *)
RightResult ==
    \A i \in Workers : ~DISABLE_REAL_DMA /\ pc[i] = "check" =>
        LET S == {k \in Slots : pending[k].used /\ pending[k].cmd_id = cmd_id[i]}
        IN  /\ S # {}
            /\ pending[Min(S)].result.cmd_id = cmd_id[i]
            /\ pending[Min(S)].result.status = "ok" => dst[i]

(* No command has failed: nothing clears the error bit once it is set.     *)
NoErrors == "DMA_ERROR" \notin irq_status \cup raise

(* A completion in the ring is never left without an interrupt to come or  *)
(* somebody about to drain (the handler acknowledges before it drains), as *)
(* long as no command fails: an error does not set the bit it looks for.   *)
NoStrandedCompletion ==
    NoErrors /\ cq_tail # cq_head_local =>
        \/ "DMA_DONE" \in irq_status \cup raise
        \/ \E a \in Agents : \/ pc[a] = "disp_lock"
                             \/ pc[a] = "drain" /\ drained < NUM_WORKERS

(* All workers complete and reach their idle loop. *)
AllWorkersFinish == <>(\A i \in Workers : pc[i] = "done")

(* They do if interrupts are delivered and no command fails (worker_entry, *)
(* irq_handler).                                                           *)
AllFinishIfDelivered == IrqDelivered /\ []NoErrors => AllWorkersFinish

(* Once one worker is through, its polling gets everybody through, whether *)
(* or not any interrupt is delivered or any command fails (the loop at the *)
(* end of worker_entry).                                                   *)
OnePollerSuffices ==
    (\E i \in Workers : worker_loops_seen[i]) ~> \A i \in Workers : pc[i] = "done"

(* The handler, if it is entered, silences the level-triggered line (ack   *)
(* before EOI in irq_handler and secondary_irq).                           *)
LineReleased == IrqDelivered => (LineAsserted ~> ~LineAsserted)

(* It does as long as no command fails: the bit it acknowledges is then    *)
(* the only one that can hold the line (irq_handler, secondary_irq).       *)
LineReleasedIfOk == []NoErrors => LineReleased
=============================================================================
