------------------------------ MODULE DmaProofs -----------------------------
(***************************************************************************)
(* The DMA path for any number of workers.  With the device, every         *)
(* completion finds its own waiter, wakes it once, and leaves it its own   *)
(* result, in whatever order the device completes and whoever drains.  The *)
(* build DISABLE_REAL_DMA leaves the rings and the interrupt alone.        *)
(***************************************************************************)
EXTENDS DmaWorkers, FiniteSetTheorems, TLAPS

WorkerPCs == {"start", "lock", "submit", "register", "wait", "check", "loop", "done",
              "disp_lock", "drain", "match"}
IsrPCs == {"idle", "status", "ack", "disp_lock", "drain", "match", "eoi"}
HolderPCs == {"submit", "register", "drain", "match"}

Submitted(i) == pc[i] \notin {"start", "lock", "submit"}
Registering == \E i \in Workers : pc[i] = "register"

(* Who is where, and that accel_lock is held by whoever is in its section. *)
LockPart ==
    /\ ~DISABLE_REAL_DMA
    /\ \A i \in Workers : pc[i] \in WorkerPCs
    /\ pc[Isr] \in IsrPCs
    /\ \A a \in Agents : accel_lock = a <=> pc[a] \in HolderPCs
    /\ comps # <<>> => \E a \in Agents : pc[a] \in {"drain", "match"}
    /\ drained <= cq_head_local

(* Descriptor k is command k + 1, of the worker that remembers this id. *)
CmdPart ==
    /\ \A k \in 0..(sq_tail_local - 1) :
          /\ sq_ring[k].cmd_id = k + 1
          /\ Submitted(sq_ring[k].worker) /\ cmd_id[sq_ring[k].worker] = k + 1
    /\ \A i \in Workers :
          /\ Submitted(i) => cmd_id[i] \in 1..sq_tail_local /\ sq_ring[cmd_id[i] - 1].worker = i
          /\ pc[i] = "register" => cmd_id[i] = sq_tail_local

(* Requests sit in pending[] in the order of their commands. *)
PendPart ==
    \A k \in Slots :
        /\ pending[k].used <=> k < IF Registering THEN sq_tail_local - 1 ELSE sq_tail_local
        /\ pending[k].used => pending[k].cmd_id = k + 1 /\ pending[k].sem = sq_ring[k].worker
        /\ pending[k].done => pending[k].used

(* The device has each command it fetched either in flight or, once, in    *)
(* the completion ring.                                                    *)
DevPart ==
    /\ \A d \in inflight : d.cmd_id \in 1..sq_head /\ d = sq_ring[d.cmd_id - 1]
    /\ \A j \in 0..(cq_tail - 1) :
          /\ cq_ring[j].cmd_id \in 1..sq_head
          /\ \A d \in inflight : d.cmd_id # cq_ring[j].cmd_id
          /\ cq_ring[j].status = "ok" => dst[sq_ring[cq_ring[j].cmd_id - 1].worker]
    /\ \A j, k \in 0..(cq_tail - 1) : cq_ring[j].cmd_id = cq_ring[k].cmd_id => j = k

(* Completions handed out so far. *)
Matched == cq_head_local - Len(comps)

(* The dispatcher's comps are the completions from Matched up to its head, *)
(* and the requests that are done are those of the completions before it.  *)
MatchPart ==
    /\ Len(comps) <= cq_head_local
    /\ \A j \in 1..Len(comps) : comps[j] = cq_ring[Matched + j - 1]
    /\ \A j \in 0..(Matched - 1) :
          LET k == cq_ring[j].cmd_id - 1
          IN  pending[k].done /\ pending[k].result = cq_ring[j]
    /\ \A k \in Slots : pending[k].done => \E j \in 0..(Matched - 1) : cq_ring[j].cmd_id = k + 1

Done(i) == Submitted(i) /\ pending[cmd_id[i] - 1].done

(* A worker has a token while it waits and its request is done. *)
SemPart ==
    \A i \in Workers :
        /\ worker_sem[i] = IF pc[i] = "wait" /\ Done(i) THEN 1 ELSE 0
        /\ Past(i) => Done(i)

DInv == TypeOK /\ LockPart /\ CmdPart /\ PendPart /\ DevPart /\ MatchPart /\ SemPart

-----------------------------------------------------------------------------
(* Ring and table indices are the command ids less one: nothing wraps, for *)
(* there are no more commands than ring entries.                           *)
LEMMA Indices ==
    ASSUME TypeOK
    PROVE  /\ sq_tail_local \in 0..NUM_WORKERS /\ sq_head \in 0..sq_tail_local
           /\ cq_tail \in 0..sq_head /\ cq_head_local \in 0..cq_tail
           /\ \A k \in 0..(sq_tail_local - 1) : k \in Slots /\ k \in Ring
           /\ \A k \in Slots : k \in Ring /\ sq_ring[k].worker \in Workers
           /\ \A k \in Slots : k % DMA_ACCEL_QUEUE_DEPTH = k
<1>1. /\ sq_tail_local \in 0..NUM_WORKERS /\ sq_head \in 0..sq_tail_local
      /\ cq_tail \in 0..sq_head /\ cq_head_local \in 0..cq_tail
      /\ sq_ring \in [Ring -> [cmd_id : 0..NUM_WORKERS, worker : Workers]]
  BY Zenon DEF TypeOK
<1>2. \A k \in Slots : k \in Ring /\ k % DMA_ACCEL_QUEUE_DEPTH = k
  BY WorkerAssumption DEF Slots, Ring
<1>3. \A k \in 0..(sq_tail_local - 1) : k \in Slots
  BY <1>1, WorkerAssumption DEF Slots
<1> QED BY <1>1, <1>2, <1>3, Zenon

(* The types of what the counting below is about. *)
LEMMA Counts ==
    ASSUME TypeOK
    PROVE  /\ comps \in Seq(Result) /\ Len(comps) \in Nat
           /\ drained \in 0..NUM_WORKERS /\ worker_sem \in [Workers -> 0..1]
<1>1. comps \in Seq(Result) /\ drained \in 0..NUM_WORKERS /\ worker_sem \in [Workers -> 0..1]
  BY Zenon DEF TypeOK
<1> QED BY <1>1

(* The completions handed out are among those the device has posted. *)
LEMMA MatchedRange ==
    ASSUME TypeOK, MatchPart
    PROVE  Matched \in Nat /\ Matched <= cq_head_local /\ Matched <= cq_tail
<1>1. Len(comps) <= cq_head_local
  BY Zenon DEF MatchPart
<1> QED BY <1>1, Indices, Counts DEF Matched

(* No other agent is in a section of accel_lock. *)
LEMMA OneHolder ==
    ASSUME LockPart, NEW a \in Agents, NEW b \in Agents, pc[a] \in HolderPCs, pc[b] \in HolderPCs
    PROVE  a = b
BY Zenon DEF LockPart

(* What each part depends on. *)
LEMMA CmdKept ==
    ASSUME TypeOK, CmdPart, UNCHANGED <<cmd_id, sq_ring, sq_tail_local>>,
           \A i \in Workers : /\ Submitted(i)' <=> Submitted(i)
                              /\ pc'[i] = "register" => pc[i] = "register"
    PROVE  CmdPart'
<1>1. \A k \in 0..(sq_tail_local - 1) : sq_ring[k].worker \in Workers
  BY Indices, Zenon
<1> QED BY <1>1, Zenon DEF CmdPart

(* The device's part depends on the rings and its registers only. *)
LEMMA DevKept ==
    ASSUME DevPart, UNCHANGED <<sq_ring, sq_head, inflight, cq_ring, cq_tail, dst>>
    PROVE  DevPart'
BY Zenon DEF DevPart

(* MatchPart depends on what is drained and on who is done. *)
LEMMA MatchKept ==
    ASSUME TypeOK, DevPart, MatchPart, UNCHANGED <<comps, cq_head_local, cq_ring>>,
           \A k \in Slots : /\ pending'[k].done = pending[k].done
                            /\ pending'[k].result = pending[k].result
    PROVE  MatchPart'
<1>1. \A j \in 0..(Matched - 1) : cq_ring[j].cmd_id - 1 \in Slots
  <2>1. \A j \in 0..(Matched - 1) : cq_ring[j].cmd_id \in 1..sq_head
    BY MatchedRange, Indices DEF DevPart
  <2> QED BY <2>1, Indices
<1> QED BY <1>1, Zenon DEF MatchPart, Matched

(* SemPart depends on the tokens and on where the workers are. *)
LEMMA SemKept ==
    ASSUME TypeOK, CmdPart, SemPart, UNCHANGED <<cmd_id, worker_sem>>,
           \A k \in Slots : pending'[k].done = pending[k].done,
           \A i \in Workers : /\ Submitted(i)' <=> Submitted(i)
                              /\ pc'[i] = "wait" <=> pc[i] = "wait"
                              /\ Past(i)' <=> Past(i)
    PROVE  SemPart'
<1>1. \A i \in Workers : Submitted(i) => cmd_id[i] - 1 \in Slots
  BY Indices DEF CmdPart
<1>2. \A i \in Workers : Done(i)' <=> Done(i)
  BY <1>1, Zenon DEF Done
<1> QED BY <1>2, Zenon DEF SemPart

(* The steps that only move an agent about: a worker before it submits or  *)
(* after its wait, or the handler.                                         *)
Quiet(a, q) ==
    /\ pc' = [pc EXCEPT ![a] = q]
    /\ \/ a \in Workers /\ {pc[a], q} \subseteq {"start", "lock", "submit"}
       \/ a \in Workers /\ {pc[a], q} \subseteq {"check", "loop", "done", "disp_lock", "drain", "match"}
       \/ a = Isr /\ q \in IsrPCs
    /\ UNCHANGED <<cmd_id, worker_sem, pending, comps, sq_ring, sq_tail_local, cq_head_local,
                   sq_head, inflight, cq_ring, cq_tail>>

(* Such a step disturbs no command, request, completion or token. *)
LEMMA QuietStep ==
    ASSUME DInv, NEW a \in Agents, NEW q \in PCs, Quiet(a, q)
    PROVE  CmdPart' /\ PendPart' /\ MatchPart' /\ SemPart'
<1> USE DEF DInv
<1>1. \A i \in Workers : /\ Submitted(i)' <=> Submitted(i)
                         /\ pc'[i] = "register" <=> pc[i] = "register"
                         /\ pc'[i] = "wait" <=> pc[i] = "wait"
                         /\ Past(i)' <=> Past(i)
  BY DEF Quiet, TypeOK, Submitted, Past, Agents, Workers, Isr
<1>2. CmdPart'
  BY <1>1, CmdKept, Zenon DEF Quiet
<1>3. Registering' <=> Registering
  BY <1>1, Zenon DEF Registering
<1>4. PendPart'
  BY <1>3, Zenon DEF PendPart, Quiet
<1>5. MatchPart'
  BY MatchKept, Zenon DEF Quiet
<1>6. SemPart'
  BY <1>1, SemKept, Zenon DEF Quiet
<1> QED BY <1>2, <1>4, <1>5, <1>6, Zenon

(* An agent moves, and takes, keeps or gives back accel_lock. *)
LEMMA LockMoved ==
    ASSUME TypeOK, LockPart, NEW a \in Agents, NEW q, pc' = [pc EXCEPT ![a] = q],
           a \in Workers => q \in WorkerPCs, a = Isr => q \in IsrPCs,
           \/ accel_lock' = accel_lock /\ (q \in HolderPCs <=> pc[a] \in HolderPCs)
           \/ accel_lock = NoAgent /\ accel_lock' = a /\ q \in HolderPCs
           \/ pc[a] \in HolderPCs /\ accel_lock' = NoAgent /\ q \notin HolderPCs,
           comps' # <<>> => \/ q \in {"drain", "match"}
                            \/ comps # <<>> /\ pc[a] \notin {"drain", "match"},
           UNCHANGED DISABLE_REAL_DMA, drained' <= cq_head_local'
    PROVE  LockPart'
<1>1. /\ pc'[a] = q /\ \A b \in Agents \ {a} : pc'[b] = pc[b]
      /\ Isr \in Agents /\ Workers \subseteq Agents /\ NoAgent \notin Agents
  BY DEF TypeOK, Agents, Isr, NoAgent, Workers
<1>2. /\ \A i \in Workers : pc'[i] \in WorkerPCs
      /\ pc'[Isr] \in IsrPCs
  BY <1>1, Zenon DEF LockPart
<1>3. \A b \in Agents : accel_lock' = b <=> pc'[b] \in HolderPCs
  <2>1. CASE accel_lock' = accel_lock /\ (q \in HolderPCs <=> pc[a] \in HolderPCs)
    BY <1>1, <2>1, Zenon DEF LockPart
  <2>2. CASE accel_lock = NoAgent /\ accel_lock' = a /\ q \in HolderPCs
    BY <1>1, <2>2, Zenon DEF LockPart
  <2>3. CASE pc[a] \in HolderPCs /\ accel_lock' = NoAgent /\ q \notin HolderPCs
    BY <1>1, <2>3, Zenon DEF LockPart
  <2> QED BY <2>1, <2>2, <2>3, Zenon
<1>4. comps' # <<>> => \E b \in Agents : pc'[b] \in {"drain", "match"}
  BY <1>1, Zenon DEF LockPart
<1> QED BY <1>2, <1>3, <1>4, Zenon DEF LockPart

(* accel_lock taken to submit, and the loop after the wait. *)
LEMMA WorkerMoves ==
    ASSUME DInv, NEW i \in Workers, SubmitLock(i) \/ Check(i) \/ PollLoop(i)
    PROVE  DInv'
<1> USE DEF DInv
<1>0. i \in Agents /\ Isr \notin Workers
  BY DEF Agents, Workers, Isr
<1>1. CASE SubmitLock(i)
  <2> USE <1>1 DEF SubmitLock, Goto, workerVars, fakeVars, deviceVars
  <2>1. CmdPart' /\ PendPart' /\ MatchPart' /\ SemPart'
    BY <1>0, QuietStep, Zenon DEF Quiet, PCs
  <2>2. DevPart'
    BY DevKept, Zenon
  <2>3. TypeOK'
    BY <1>0, Zenon DEF TypeOK, PCs
  <2>4. LockPart'
    BY <1>0, LockMoved, Zenon DEF LockPart, WorkerPCs, HolderPCs
  <2>5. DInv'
    BY ONLY <2>1, <2>2, <2>3, <2>4, Zenon DEF DInv
  <2> QED BY <2>5, Zenon
<1>2. CASE Check(i)
  <2> USE <1>2 DEF Check, Goto, fakeVars, driverVars, deviceVars
  <2>1. CmdPart' /\ PendPart' /\ MatchPart' /\ SemPart'
    BY <1>0, QuietStep, Zenon DEF Quiet, PCs
  <2>2. DevPart'
    BY DevKept, Zenon
  <2>3. TypeOK'
    BY <1>0, Zenon DEF TypeOK, PCs
  <2>4. LockPart'
    BY <1>0, LockMoved, Zenon DEF LockPart, WorkerPCs, HolderPCs
  <2> QED BY <2>1, <2>2, <2>3, <2>4, Zenon
<1>3. CASE PollLoop(i)
  <2> USE <1>3 DEF Goto, workerVars, fakeVars, driverVars, deviceVars
  <2>0. PICK q \in {"done", "disp_lock"} : Goto(i, q)
    BY Zenon DEF PollLoop
  <2>1. CmdPart' /\ PendPart' /\ MatchPart' /\ SemPart'
    BY <1>0, <2>0, QuietStep, Zenon DEF PollLoop, Quiet, PCs
  <2>2. DevPart'
    BY DevKept, Zenon DEF PollLoop
  <2>3. TypeOK'
    BY <1>0, <2>0, Zenon DEF PollLoop, TypeOK, PCs
  <2>4. LockPart'
    BY <1>0, <2>0, LockMoved DEF PollLoop, LockPart, WorkerPCs, HolderPCs
  <2> QED BY <2>1, <2>2, <2>3, <2>4, Zenon
<1> QED BY <1>1, <1>2, <1>3, Zenon

(* The interrupt handler outside the dispatcher. *)
LEMMA HandlerMoves ==
    ASSUME DInv, TakeIrq \/ accel_irq_status \/ accel_irq_ack \/ gic_eoi
    PROVE  DInv'
<1> USE DEF DInv
<1>0. Isr \in Agents /\ Isr \notin Workers
  BY DEF Agents, Workers, Isr
<1>1. PICK q \in IsrPCs \ HolderPCs :
          /\ Goto(Isr, q) /\ pc[Isr] \in IsrPCs \ HolderPCs
          /\ UNCHANGED <<workerVars, driverVars, sq_head, inflight, cq_ring, cq_tail, raise, dst>>
          /\ irq_status' \subseteq irq_status
  BY Zenon DEF TakeIrq, accel_irq_status, accel_irq_ack, gic_eoi, IsrPCs, HolderPCs, deviceVars
<1> USE <1>1 DEF Goto, workerVars, fakeVars, driverVars
<1>2. q \in PCs
  BY Zenon DEF IsrPCs, PCs
<1>3. CmdPart' /\ PendPart' /\ MatchPart' /\ SemPart'
  BY <1>0, <1>2, QuietStep, Zenon DEF Quiet
<1>4. DevPart'
  BY DevKept, Zenon
<1>5. TypeOK'
  BY <1>0, <1>2, Zenon DEF TypeOK
<1>6. LockPart'
  BY <1>0, LockMoved, Zenon DEF LockPart, HolderPCs
<1> QED BY <1>3, <1>4, <1>5, <1>6, Zenon

(* dispatch_available_completions takes the lock and gives it back. *)
LEMMA DispatchMoves ==
    ASSUME DInv, NEW a \in Agents, DispatchLock(a) \/ DispatchUnlock(a)
    PROVE  DInv'
<1> USE DEF DInv
<1>0. a = Isr <=> a \notin Workers
  BY DEF Agents, Workers, Isr
<1>n. NoAgent \notin Agents
  BY DEF Agents, NoAgent, Isr, Workers
<1>1. CASE DispatchLock(a)
  <2> USE <1>1 DEF DispatchLock, Goto, workerVars, fakeVars, deviceVars
  <2>1. comps = <<>>
    BY <1>n, Zenon DEF LockPart, HolderPCs
  <2>2. CmdPart' /\ PendPart' /\ MatchPart' /\ SemPart'
    BY <1>0, <2>1, QuietStep, Zenon DEF Quiet, PCs, IsrPCs
  <2>3. DevPart'
    BY DevKept, Zenon
  <2>4. TypeOK'
    BY <2>1, WorkerAssumption DEF TypeOK, PCs
  <2>5. LockPart'
    <3>1. drained' <= cq_head_local'
      BY Indices
    <3> QED BY <1>0, <3>1, LockMoved, Zenon DEF WorkerPCs, IsrPCs, HolderPCs
  <2> QED BY <2>2, <2>3, <2>4, <2>5, Zenon
<1>2. CASE DispatchUnlock(a)
  <2> USE <1>2 DEF Goto, workerVars, fakeVars, deviceVars
  <2>0. PICK q \in {"eoi", "loop"} : Goto(a, q) /\ q = IF a = Isr THEN "eoi" ELSE "loop"
    BY Zenon DEF DispatchUnlock
  <2>1. CmdPart' /\ PendPart' /\ MatchPart' /\ SemPart'
    BY <1>0, <2>0, QuietStep, Zenon DEF DispatchUnlock, Quiet, PCs, IsrPCs
  <2>2. DevPart'
    BY DevKept, Zenon DEF DispatchUnlock
  <2>3. TypeOK'
    BY <2>0, WorkerAssumption DEF DispatchUnlock, TypeOK, PCs
  <2>4. LockPart'
    <3>1. drained' <= cq_head_local' /\ UNCHANGED comps /\ comps = <<>>
      BY Indices DEF DispatchUnlock
    <3>2. /\ a \in Workers => q \in WorkerPCs
          /\ a = Isr => q \in IsrPCs
          /\ pc[a] \in HolderPCs /\ accel_lock' = NoAgent /\ q \notin HolderPCs
      BY <1>0, <2>0, Zenon DEF DispatchUnlock, WorkerPCs, IsrPCs, HolderPCs
    <3> QED BY <2>0, <3>1, <3>2, LockMoved, Zenon DEF DispatchUnlock
  <2> QED BY <2>1, <2>2, <2>3, <2>4, Zenon
<1> QED BY <1>1, <1>2, Zenon

(* The loop of accel_drain_completions_multi. *)
LEMMA Drains ==
    ASSUME DInv, NEW a \in Agents, accel_drain_completions_multi(a)
    PROVE  DInv'
<1> USE DEF DInv
<1>0. a = Isr <=> a \notin Workers
  BY DEF Agents, Workers, Isr
<1>1. CASE Goto(a, "match") /\ UNCHANGED <<comps, drained, cq_head_local>>
  <2> USE <1>1 DEF accel_drain_completions_multi, Goto, workerVars, fakeVars, deviceVars
  <2>1. CmdPart' /\ PendPart' /\ MatchPart' /\ SemPart'
    BY <1>0, QuietStep, Zenon DEF Quiet, PCs, IsrPCs
  <2>2. DevPart'
    BY DevKept, Zenon
  <2>3. TypeOK'
    BY Zenon DEF TypeOK, PCs
  <2>4. LockPart'
    BY <1>0, LockMoved, Zenon DEF LockPart, WorkerPCs, IsrPCs, HolderPCs
  <2> QED BY <2>1, <2>2, <2>3, <2>4, Zenon
<1>2. CASE ~(Goto(a, "match") /\ UNCHANGED <<comps, drained, cq_head_local>>)
  <2>1. /\ pc[a] = "drain" /\ drained < NUM_WORKERS /\ cq_tail # cq_head_local
        /\ comps' = Append(comps, cq_ring[cq_head_local % DMA_ACCEL_QUEUE_DEPTH])
        /\ drained' = drained + 1 /\ cq_head_local' = cq_head_local + 1
        /\ UNCHANGED <<pc, workerVars, accel_lock, pending, sq_ring, sq_tail_local, deviceVars>>
    BY <1>2, Zenon DEF accel_drain_completions_multi
  <2> USE <2>1 DEF workerVars, fakeVars, deviceVars
  <2>2. cq_head_local \in Slots /\ cq_head_local % DMA_ACCEL_QUEUE_DEPTH = cq_head_local
    BY Indices, WorkerAssumption DEF Slots
  <2>3. cq_ring[cq_head_local] \in Result /\ comps \in Seq(Result) /\ drained \in Nat
    <3>1. cq_ring \in [Ring -> Result] /\ comps \in Seq(Result) /\ drained \in 0..NUM_WORKERS
      BY Zenon DEF TypeOK
    <3>2. cq_head_local \in Ring
      BY <2>2, Indices, Zenon
    <3>3. drained \in Nat
      BY <3>1
    <3> QED BY <3>1, <3>2, <3>3, Zenon
  <2>4. TypeOK'
    <3>1. comps' \in Seq(Result) /\ drained' \in 0..NUM_WORKERS /\ cq_head_local' \in 0..cq_tail
      BY <2>2, <2>3, Indices, WorkerAssumption
    <3> QED BY <3>1, Zenon DEF TypeOK
  <2>5. LockPart'
    BY <2>3, Indices DEF LockPart
  <2>6. CmdPart'
    BY CmdKept, Zenon DEF Submitted
  <2>7. PendPart'
    BY Zenon DEF PendPart, Registering
  <2>8. DevPart'
    BY DevKept, Zenon
  <2>9. MatchPart'
    <3>1. Len(comps) \in Nat /\ Len(comps') = Len(comps) + 1
      BY <2>3
    <3>2. Matched' = Matched
      BY <3>1, Indices DEF Matched
    <3>3. \A j \in 1..Len(comps') : comps'[j] = cq_ring[Matched + j - 1]
      <4>1. ASSUME NEW j \in 1..Len(comps) PROVE comps'[j] = cq_ring[Matched + j - 1]
        BY <2>3 DEF MatchPart
      <4>2. comps'[Len(comps) + 1] = cq_ring[Matched + (Len(comps) + 1) - 1]
        BY <2>2, <2>3, <3>1, Indices DEF Matched
      <4> QED BY <3>1, <4>1, <4>2
    <3> QED BY <2>3, <3>1, <3>2, <3>3, Indices DEF MatchPart
  <2>10. SemPart'
    BY SemKept, Zenon DEF Submitted, Past
  <2> QED BY <2>4, <2>5, <2>6, <2>7, <2>8, <2>9, <2>10, Zenon
<1> QED BY <1>1, <1>2, Zenon

(* A worker starts, or takes its token. *)
LEMMA Starts ==
    ASSUME DInv, NEW i \in Workers, Start(i)
    PROVE  DInv'
<1> USE DEF DInv, Start, Goto, fakeVars, driverVars
<1>0. i \in Agents /\ Isr \notin Workers /\ worker_sem' = worker_sem
  <2>1. i \in Agents /\ Isr \notin Workers
    BY DEF Agents, Workers, Isr
  <2>2. worker_sem[i] = 0
    BY Zenon DEF SemPart
  <2> QED BY <2>1, <2>2, Zenon DEF TypeOK
<1>1. CmdPart' /\ PendPart' /\ MatchPart' /\ SemPart'
  BY <1>0, QuietStep, Zenon DEF Quiet, PCs
<1>2. DevPart'
  <2>1. \A j \in 0..(cq_tail - 1) :
            /\ sq_ring[cq_ring[j].cmd_id - 1].worker \in Workers
            /\ sq_ring[cq_ring[j].cmd_id - 1].worker # i
    <3> SUFFICES ASSUME NEW j \in 0..(cq_tail - 1)
                 PROVE  /\ sq_ring[cq_ring[j].cmd_id - 1].worker \in Workers
                        /\ sq_ring[cq_ring[j].cmd_id - 1].worker # i
      OBVIOUS
    <3>1. cq_ring[j].cmd_id - 1 \in 0..(sq_tail_local - 1)
      BY Indices DEF DevPart
    <3>2. ~Submitted(i)
      BY Zenon DEF Submitted
    <3> QED BY <3>1, <3>2, Indices, Zenon DEF CmdPart
  <2>2. \A w \in Workers \ {i} : dst'[w] = dst[w]
    BY Zenon DEF TypeOK
  <2> QED BY <2>1, <2>2 DEF DevPart
<1>3. TypeOK'
  BY <1>0, Zenon DEF TypeOK, PCs
<1>4. LockPart'
  BY <1>0, LockMoved, Zenon DEF LockPart, WorkerPCs, HolderPCs
<1> QED BY <1>1, <1>2, <1>3, <1>4, Zenon

(* sem_wait takes the worker's one token: its request is done. *)
LEMMA Wakes ==
    ASSUME DInv, NEW i \in Workers, sem_wait(i)
    PROVE  DInv'
<1> USE DEF DInv, sem_wait, Goto, fakeVars, driverVars, deviceVars
<1>0. /\ i \in Agents /\ Isr \notin Workers
      /\ pc'[i] = "check" /\ \A j \in Workers \ {i} : pc'[j] = pc[j]
      /\ worker_sem'[i] = 0 /\ \A j \in Workers \ {i} : worker_sem'[j] = worker_sem[j]
  <2>1. i \in Agents /\ Workers \subseteq Agents /\ Isr \notin Workers
    BY DEF Agents, Workers, Isr
  <2>2. worker_sem[i] \in 0..1 /\ worker_sem[i] > 0
    BY Zenon DEF TypeOK
  <2>3. worker_sem[i] - 1 = 0
    BY <2>2
  <2> QED BY <2>1, <2>3, Zenon DEF TypeOK
<1>1. Done(i)
  BY DEF SemPart, TypeOK
<1>2. CmdPart'
  BY <1>0, CmdKept, Zenon DEF Submitted
<1>3. PendPart'
  <2>1. Registering' <=> Registering
    BY <1>0, Zenon DEF Registering
  <2> QED BY <2>1, Zenon DEF PendPart
<1>4. DevPart'
  BY DevKept, Zenon
<1>5. MatchPart'
  BY MatchKept, Zenon
<1>6. SemPart'
  <2>1. \A j \in Workers : Done(j)' <=> Done(j)
    BY <1>0, Zenon DEF Done, Submitted
  <2> QED BY <1>0, <1>1, <2>1 DEF SemPart, Past
<1>7. TypeOK'
  <2>1. worker_sem' \in [Workers -> 0..1]
    BY DEF TypeOK
  <2> QED BY <1>0, <2>1, Zenon DEF TypeOK, PCs
<1>8. LockPart'
  BY <1>0, LockMoved, Zenon DEF LockPart, WorkerPCs, HolderPCs
<1> QED BY <1>2, <1>3, <1>4, <1>5, <1>6, <1>7, <1>8

(* The device fetches a descriptor: one more command is in flight. *)
LEMMA DeviceFetches ==
    ASSUME DInv, DevFetch
    PROVE  DInv'
<1> USE DEF DInv, DevFetch, workerVars, fakeVars, driverVars
<1>1. sq_head \in 0..(sq_tail_local - 1) /\ sq_head \in Slots
  BY Indices, WorkerAssumption DEF Slots
<1>2. /\ inflight' = inflight \cup {sq_ring[sq_head]}
      /\ sq_ring[sq_head] \in [cmd_id : 0..NUM_WORKERS, worker : Workers]
      /\ sq_ring[sq_head].cmd_id = sq_head + 1
  BY <1>1, Indices, Zenon DEF TypeOK, CmdPart
<1>3. TypeOK'
  <2>1. inflight' \subseteq [cmd_id : 1..NUM_WORKERS, worker : Workers]
    BY <1>1, <1>2, Indices, WorkerAssumption DEF TypeOK
  <2>2. sq_head' \in 0..sq_tail_local /\ cq_tail \in 0..sq_head'
    BY <1>1, Indices
  <2> QED BY <2>1, <2>2, Zenon DEF TypeOK
<1>4. LockPart'
  BY Zenon DEF LockPart
<1>5. CmdPart'
  BY CmdKept, Zenon DEF Submitted
<1>6. PendPart'
  BY Zenon DEF PendPart, Registering
<1>7. DevPart'
  <2>1. 1..sq_head \subseteq 1..sq_head' /\ sq_head + 1 \in 1..sq_head' /\ sq_head + 1 \notin 1..sq_head
    BY <1>1, Indices
  <2>2. (sq_head + 1) - 1 = sq_head
    BY Indices
  <2>3. UNCHANGED <<cq_ring, cq_tail, dst, sq_ring>>
    BY Zenon DEF DevFetch
  <2> QED BY <1>1, <1>2, <2>1, <2>2, <2>3 DEF DevPart
<1>8. MatchPart'
  BY MatchKept, Zenon
<1>9. SemPart'
  BY SemKept, Zenon DEF Submitted, Past
<1> QED BY <1>3, <1>4, <1>5, <1>6, <1>7, <1>8, <1>9, Zenon

(* Raising the interrupt touches irq_status alone. *)
LEMMA DeviceRaises ==
    ASSUME DInv, DevRaise
    PROVE  DInv'
<1> USE DEF DInv, DevRaise, workerVars, fakeVars, driverVars
<1>1. TypeOK' /\ LockPart' /\ PendPart'
  BY Zenon DEF TypeOK, LockPart, PendPart, Registering
<1>2. CmdPart' /\ SemPart'
  BY CmdKept, SemKept, Zenon DEF Submitted, Past
<1>3. DevPart' /\ MatchPart'
  BY DevKept, MatchKept, Zenon
<1> QED BY <1>1, <1>2, <1>3, Zenon

(* There is room in both rings: each command has a worker of its own, and  *)
(* each completion a command of its own.                                   *)
LEMMA SubmitRoom ==
    ASSUME DInv, NEW i \in Workers, ~Submitted(i)
    PROVE  sq_tail_local < NUM_WORKERS
<1> USE DEF DInv
<1> DEFINE f == [k \in 0..sq_tail_local |-> IF k = sq_tail_local THEN i ELSE sq_ring[k].worker]
<1>1. \A k \in 0..sq_tail_local : k # sq_tail_local => k \in 0..(sq_tail_local - 1)
  BY Indices
<1>2. \A k \in 0..(sq_tail_local - 1) : sq_ring[k].worker \in Workers
  BY Indices, Zenon
<1>3. f \in [0..sq_tail_local -> Workers]
  BY <1>1, <1>2, Zenon
<1>4. \A x, y \in 0..sq_tail_local : f[x] = f[y] => x = y
  <2>1. \A k \in 0..(sq_tail_local - 1) : sq_ring[k].worker # i
    BY Zenon DEF CmdPart
  <2>2. \A x, y \in 0..(sq_tail_local - 1) : sq_ring[x].worker = sq_ring[y].worker => x = y
    BY Indices DEF CmdPart
  <2> QED BY <1>1, <2>1, <2>2, Zenon
<1>5. /\ IsFiniteSet(0..sq_tail_local) /\ Cardinality(0..sq_tail_local) = sq_tail_local + 1
      /\ IsFiniteSet(Workers) /\ Cardinality(Workers) = NUM_WORKERS
  <2>1. \A a, b \in Int : /\ IsFiniteSet(a..b)
                          /\ Cardinality(a..b) = IF a > b THEN 0 ELSE b - a + 1
    BY FS_Interval, Zenon
  <2>2. sq_tail_local \in Int /\ ~(0 > sq_tail_local) /\ sq_tail_local - 0 + 1 = sq_tail_local + 1
    BY Indices
  <2>3. NUM_WORKERS - 1 \in Int /\ ~(0 > NUM_WORKERS - 1) /\ NUM_WORKERS - 1 - 0 + 1 = NUM_WORKERS
    BY WorkerAssumption
  <2>4. IsFiniteSet(0..sq_tail_local) /\ Cardinality(0..sq_tail_local) = sq_tail_local + 1
    BY <2>1, <2>2
  <2>5. IsFiniteSet(0..(NUM_WORKERS - 1)) /\ Cardinality(0..(NUM_WORKERS - 1)) = NUM_WORKERS
    BY <2>1, <2>3
  <2> QED BY <2>4, <2>5, Zenon DEF Workers
<1>6. ~(Cardinality(Workers) < Cardinality(0..sq_tail_local))
  BY <1>3, <1>4, <1>5, FS_PigeonHole, Zenon
<1> QED BY <1>5, <1>6, Indices, WorkerAssumption

(* A command in flight has no completion yet: the ring has room for it. *)
LEMMA CompletionRoom ==
    ASSUME DInv, NEW d \in inflight
    PROVE  cq_tail < sq_head
<1> USE DEF DInv
<1> DEFINE f == [j \in 0..cq_tail |-> IF j = cq_tail THEN d.cmd_id ELSE cq_ring[j].cmd_id]
<1>1. \A j \in 0..cq_tail : j # cq_tail => j \in 0..(cq_tail - 1)
  BY Indices
<1>2. d.cmd_id \in 1..sq_head /\ \A j \in 0..(cq_tail - 1) : cq_ring[j].cmd_id \in 1..sq_head
  BY Zenon DEF DevPart
<1>3. f \in [0..cq_tail -> 1..sq_head]
  BY <1>1, <1>2, Zenon
<1>4. \A x, y \in 0..cq_tail : f[x] = f[y] => x = y
  BY <1>1, Zenon DEF DevPart
<1>5. /\ IsFiniteSet(0..cq_tail) /\ Cardinality(0..cq_tail) = cq_tail + 1
      /\ IsFiniteSet(1..sq_head) /\ Cardinality(1..sq_head) = sq_head
  <2>1. \A a, b \in Int : /\ IsFiniteSet(a..b)
                          /\ Cardinality(a..b) = IF a > b THEN 0 ELSE b - a + 1
    BY FS_Interval, Zenon
  <2>2. cq_tail \in Int /\ ~(0 > cq_tail) /\ cq_tail - 0 + 1 = cq_tail + 1
    BY Indices
  <2>3. sq_head \in Int /\ ~(1 > sq_head) /\ sq_head - 1 + 1 = sq_head
    BY <1>2, Indices
  <2> QED BY <2>1, <2>2, <2>3
<1>6. ~(Cardinality(1..sq_head) < Cardinality(0..cq_tail))
  BY <1>3, <1>4, <1>5, FS_PigeonHole, Zenon
<1> QED BY <1>5, <1>6, Indices

(* accel_submit_copy appends the next command. *)
LEMMA Submits ==
    ASSUME DInv, NEW i \in Workers, accel_submit_copy(i)
    PROVE  DInv'
<1> USE DEF DInv
<1>0. i \in Agents /\ Workers \subseteq Agents /\ Isr \notin Workers /\ ~Submitted(i)
  BY DEF Agents, Workers, Isr, Submitted, accel_submit_copy
<1> DEFINE n == sq_tail_local
<1>1. n \in Slots /\ n \in Ring /\ n < NUM_WORKERS /\ n % DMA_ACCEL_QUEUE_DEPTH = n /\ n \in Nat
  <2>1. n < NUM_WORKERS /\ n \in Nat
    BY <1>0, SubmitRoom, Indices
  <2>2. n \in Slots
    BY <2>1, WorkerAssumption DEF Slots
  <2> QED BY <2>1, <2>2, Indices, Zenon
<1>2. /\ pc' = [pc EXCEPT ![i] = "register"] /\ pc[i] = "submit"
      /\ pc'[i] = "register" /\ \A j \in Workers \ {i} : pc'[j] = pc[j]
  BY <1>0, Zenon DEF accel_submit_copy, Goto, TypeOK
<1>3. /\ sq_ring' = [sq_ring EXCEPT ![n] = [cmd_id |-> n + 1, worker |-> i]]
      /\ sq_ring'[n] = [cmd_id |-> n + 1, worker |-> i]
      /\ \A k \in 0..(n - 1) : sq_ring'[k] = sq_ring[k]
      /\ sq_tail_local' = n + 1
  <2>1. /\ sq_ring' = [sq_ring EXCEPT ![n] = [cmd_id |-> n + 1, worker |-> i]]
        /\ sq_tail_local' = n + 1 /\ DOMAIN sq_ring = Ring
    BY <1>1, Zenon DEF accel_submit_copy, TypeOK
  <2>2. \A k \in 0..(n - 1) : k \in Ring /\ k # n
    BY <1>1, Indices
  <2> QED BY <1>1, <2>1, <2>2, Zenon
<1>4. /\ cmd_id' = [cmd_id EXCEPT ![i] = n + 1]
      /\ cmd_id'[i] = n + 1 /\ \A j \in Workers \ {i} : cmd_id'[j] = cmd_id[j]
  BY Zenon DEF accel_submit_copy, TypeOK
<1>5. UNCHANGED <<fakeVars, worker_sem, worker_loops_seen, accel_lock, pending,
                  comps, drained, cq_head_local, deviceVars>>
  BY Zenon DEF accel_submit_copy
<1>6. \A j \in Workers : pc[j] # "register"
  BY <1>0, <1>2, OneHolder, Zenon DEF HolderPCs
<1>7. TypeOK'
  <2>1. sq_tail_local' \in 0..NUM_WORKERS /\ sq_head \in 0..sq_tail_local' /\ n + 1 \in 0..NUM_WORKERS
    BY <1>1, <1>3, Indices, WorkerAssumption
  <2>2. sq_ring' \in [Ring -> [cmd_id : 0..NUM_WORKERS, worker : Workers]]
    BY <1>1, <1>3, <2>1, Zenon DEF TypeOK
  <2>3. cmd_id' \in [Workers -> 0..NUM_WORKERS] /\ pc' \in [Agents -> PCs]
    BY <1>0, <1>2, <1>4, <2>1, Zenon DEF TypeOK, PCs
  <2> QED BY <1>5, <2>1, <2>2, <2>3, Zenon DEF TypeOK, fakeVars, deviceVars
<1>8. LockPart'
  BY <1>0, <1>2, <1>5, LockMoved, Zenon DEF LockPart, WorkerPCs, HolderPCs, fakeVars
<1>9. CmdPart'
  <2>1. \A k \in 0..(n - 1) : sq_ring[k].worker \in Workers \ {i}
    BY <1>0, Indices, Zenon DEF CmdPart
  <2>2. ASSUME NEW k \in 0..(n - 1)
        PROVE  /\ sq_ring'[k].cmd_id = k + 1 /\ cmd_id'[sq_ring'[k].worker] = k + 1
               /\ pc'[sq_ring'[k].worker] \notin {"start", "lock", "submit"}
    BY <1>2, <1>3, <1>4, <2>1 DEF CmdPart, Submitted
  <2>3. /\ sq_ring'[n].cmd_id = n + 1 /\ cmd_id'[sq_ring'[n].worker] = n + 1
        /\ pc'[sq_ring'[n].worker] \notin {"start", "lock", "submit"}
    BY <1>2, <1>3, <1>4
  <2>4. ASSUME NEW j \in Workers, j # i, pc'[j] \notin {"start", "lock", "submit"}
        PROVE  cmd_id'[j] \in 1..(n + 1) /\ sq_ring'[cmd_id'[j] - 1].worker = j
    <3>1. cmd_id[j] \in 1..n /\ sq_ring[cmd_id[j] - 1].worker = j /\ cmd_id'[j] = cmd_id[j]
      BY <1>2, <1>4, <2>4, Zenon DEF CmdPart, Submitted
    <3> QED BY <1>1, <1>3, <3>1
  <2>5. cmd_id'[i] \in 1..(n + 1) /\ sq_ring'[cmd_id'[i] - 1].worker = i
    BY <1>1, <1>3, <1>4
  <2>6. \A j \in Workers : pc'[j] = "register" => cmd_id'[j] = n + 1
    BY <1>2, <1>4, <1>6, Zenon
  <2>7. \A k \in 0..n : k = n \/ k \in 0..(n - 1)
    BY <1>1
  <2>8. \A k \in 0..n : /\ sq_ring'[k].cmd_id = k + 1 /\ cmd_id'[sq_ring'[k].worker] = k + 1
                        /\ pc'[sq_ring'[k].worker] \notin {"start", "lock", "submit"}
    BY <2>2, <2>3, <2>7, Zenon
  <2>9. sq_tail_local' - 1 = n
    BY <1>1, <1>3
  <2> HIDE DEF n
  <2> QED BY <1>3, <2>4, <2>5, <2>6, <2>8, <2>9, Zenon DEF CmdPart, Submitted
<1>10. PendPart'
  <2>1. ~Registering /\ Registering'
    BY <1>2, <1>6, Zenon DEF Registering
  <2>2. \A k \in Slots : /\ pending[k].used <=> k < n
                         /\ pending[k].used => pending[k].cmd_id = k + 1 /\ pending[k].sem = sq_ring[k].worker
                         /\ pending[k].done => pending[k].used
    BY <2>1, Zenon DEF PendPart
  <2>3. \A k \in Slots : k < n => sq_ring'[k] = sq_ring[k]
    BY <1>1, <1>3 DEF Slots
  <2>4. sq_tail_local' - 1 = n
    BY <1>1, <1>3
  <2> HIDE DEF n
  <2> QED BY <1>5, <2>1, <2>2, <2>3, <2>4, Zenon DEF PendPart
<1>11. DevPart'
  <2>1. \A c \in 1..sq_head : sq_ring'[c - 1] = sq_ring[c - 1]
    BY <1>1, <1>3, Indices
  <2> QED BY <1>5, <2>1, Zenon DEF DevPart, deviceVars
<1>12. MatchPart'
  BY <1>5, MatchKept, Zenon DEF deviceVars
<1>13. SemPart'
  <2>1. \A j \in Workers \ {i} : Done(j)' <=> Done(j)
    BY <1>2, <1>4, <1>5, Zenon DEF Done, Submitted
  <2>2. worker_sem[i] = 0
    BY <1>2, Zenon DEF SemPart
  <2> QED BY <1>2, <1>5, <2>1, <2>2, Zenon DEF SemPart, Past
<1> QED BY <1>7, <1>8, <1>9, <1>10, <1>11, <1>12, <1>13

(* pending_register finds the slot of the command that was just submitted. *)
LEMMA Registers ==
    ASSUME DInv, NEW i \in Workers, Register(i)
    PROVE  DInv'
<1> USE DEF DInv
<1> DEFINE k0 == sq_tail_local - 1
           free == {k \in Slots : ~pending[k].used}
<1>0. i \in Agents /\ Workers \subseteq Agents /\ Isr \notin Workers
  BY DEF Agents, Workers, Isr
<1>1. /\ pc' = [pc EXCEPT ![i] = "wait"] /\ pc[i] = "register"
      /\ pc'[i] = "wait" /\ \A j \in Workers \ {i} : pc'[j] = pc[j]
  BY <1>0, Zenon DEF Register, Goto, TypeOK
<1>2. /\ Submitted(i) /\ cmd_id[i] = sq_tail_local /\ cmd_id[i] \in 1..sq_tail_local
      /\ sq_ring[k0].worker = i
  BY <1>1, Zenon DEF CmdPart, Submitted
<1>3. k0 \in Slots /\ k0 \in Nat /\ k0 + 1 = sq_tail_local
  BY <1>2, Indices
<1>4. Registering /\ \A k \in Slots : pending[k].used <=> k < k0
  <2>1. Registering
    BY <1>1, Zenon DEF Registering
  <2> QED BY <2>1, Zenon DEF PendPart
<1>5. free # {} /\ Min(free) = k0
  <2>1. \A k \in free : k \in Int /\ ~(k < k0)
    BY <1>4 DEF Slots
  <2>2. k0 \in free
    BY <1>3, <1>4
  <2>3. \A x \in free : (\A y \in free : x <= y) => x = k0
    BY <1>3, <2>1, <2>2
  <2>4. \A y \in free : k0 <= y
    BY <1>3, <2>1
  <2> HIDE DEF free, k0
  <2> QED BY <2>2, <2>3, <2>4, Zenon DEF Min
<1>6. pending' = [pending EXCEPT ![k0] = [@ EXCEPT !.cmd_id = cmd_id[i], !.sem = i,
                                                  !.used = TRUE, !.done = FALSE]]
  BY <1>5, Zenon DEF Register, pending_register
<1>7. /\ pending[k0] \in [used : BOOLEAN, done : BOOLEAN, cmd_id : 0..NUM_WORKERS,
                          sem : Workers, result : Result]
      /\ cmd_id[i] \in 0..NUM_WORKERS
  BY <1>3, Zenon DEF TypeOK
<1>8. /\ pending'[k0].used = TRUE /\ pending'[k0].done = FALSE
      /\ pending'[k0].cmd_id = k0 + 1 /\ pending'[k0].sem = i
      /\ pending'[k0].result = pending[k0].result
      /\ pending'[k0] \in [used : BOOLEAN, done : BOOLEAN, cmd_id : 0..NUM_WORKERS,
                           sem : Workers, result : Result]
      /\ \A k \in Slots \ {k0} : pending'[k] = pending[k]
  BY <1>2, <1>3, <1>6, <1>7, Zenon DEF TypeOK
<1>9. \A k \in Slots : /\ pending'[k].done = pending[k].done
                       /\ pending'[k].result = pending[k].result
  <2>1. pending[k0].done = FALSE
    BY <1>3, <1>4, <1>7 DEF PendPart
  <2> QED BY <1>8, <2>1, Zenon
<1>10. /\ accel_lock' = NoAgent
       /\ UNCHANGED <<workerVars, comps, drained, sq_ring, sq_tail_local, cq_head_local, deviceVars>>
  BY Zenon DEF Register
<1> USE <1>10 DEF workerVars, fakeVars, deviceVars
<1>11. TypeOK'
  <2>1. pending' \in [Slots -> [used : BOOLEAN, done : BOOLEAN, cmd_id : 0..NUM_WORKERS,
                                sem : Workers, result : Result]]
    BY <1>6, <1>8, Zenon DEF TypeOK
  <2> QED BY <1>0, <1>1, <2>1, Zenon DEF TypeOK, PCs
<1>12. LockPart'
  BY <1>0, <1>1, LockMoved, Zenon DEF LockPart, WorkerPCs, HolderPCs
<1>13. CmdPart'
  BY <1>1, CmdKept, Zenon DEF Submitted
<1>14. PendPart'
  <2>1. ~Registering'
    BY <1>0, <1>1, OneHolder, Zenon DEF Registering, HolderPCs
  <2>2. ASSUME NEW k \in Slots, k # k0
        PROVE  /\ pending'[k].used <=> k < sq_tail_local
               /\ pending'[k].used => pending'[k].cmd_id = k + 1 /\ pending'[k].sem = sq_ring[k].worker
               /\ pending'[k].done => pending'[k].used
    <3>1. k < k0 <=> k < sq_tail_local
      BY <1>3, <2>2 DEF Slots
    <3>2. pending'[k] = pending[k] /\ (pending[k].used <=> k < k0)
      BY <1>4, <1>8, <2>2, Zenon
    <3> QED BY <3>1, <3>2, Zenon DEF PendPart
  <2>3. /\ pending'[k0].used <=> k0 < sq_tail_local
        /\ pending'[k0].cmd_id = k0 + 1 /\ pending'[k0].sem = sq_ring[k0].worker
        /\ ~pending'[k0].done
    <3>1. k0 < sq_tail_local
      BY <1>3
    <3> QED BY <1>2, <1>8, <3>1, Zenon
  <2> HIDE DEF k0
  <2> QED BY <2>1, <2>2, <2>3, Zenon DEF PendPart
<1>15. DevPart'
  BY DevKept, Zenon
<1>16. MatchPart'
  BY <1>9, MatchKept, Zenon
<1>17. SemPart'
  <2>1. \A j \in Workers \ {i} : Done(j)' <=> Done(j)
    <3>1. \A j \in Workers : Submitted(j) => cmd_id[j] - 1 \in Slots
      BY Indices DEF CmdPart
    <3> QED BY <1>1, <1>9, <3>1, Zenon DEF Done, Submitted
  <2>2. worker_sem[i] = 0 /\ ~Done(i)'
    BY <1>1, <1>2, <1>8, Zenon DEF SemPart, Done
  <2> QED BY <1>1, <2>1, <2>2 DEF SemPart, Past
<1> QED BY <1>11, <1>12, <1>13, <1>14, <1>15, <1>16, <1>17, Zenon

(* A completion that is drained and not yet matched has one slot: that of  *)
(* its command.                                                            *)
LEMMA MatchingIs ==
    ASSUME DInv, NEW j \in 1..Len(comps)
    PROVE  /\ comps[j].cmd_id - 1 \in Slots /\ comps[j].cmd_id \in 1..sq_tail_local
           /\ Matching(comps[j].cmd_id) = {comps[j].cmd_id - 1}
<1> USE DEF DInv
<1> DEFINE m == Matched + j - 1
           id == cq_ring[m].cmd_id
<1>1. comps \in Seq(Result) /\ Len(comps) \in Nat /\ comps # <<>>
  BY DEF TypeOK
<1>2. comps[j] = cq_ring[m] /\ m \in 0..(cq_tail - 1) /\ Matched \in Nat /\ ~(m < Matched)
  BY <1>1, Indices DEF MatchPart, Matched
<1>3. id \in 1..sq_head /\ id \in 1..sq_tail_local /\ id - 1 \in Slots
  BY <1>2, Indices DEF DevPart
<1>4. ~Registering
  <2>1. PICK a \in Agents : pc[a] \in {"drain", "match"}
    BY <1>1, Zenon DEF LockPart
  <2>2. Workers \subseteq Agents
    BY Zenon DEF Agents
  <2> QED BY <2>1, <2>2, OneHolder, Zenon DEF Registering, HolderPCs
<1>5. \A k \in Slots : /\ pending[k].used <=> k < sq_tail_local
                       /\ pending[k].used => pending[k].cmd_id = k + 1
  BY <1>4, Zenon DEF PendPart
<1>6. pending[id - 1].used /\ pending[id - 1].cmd_id = id
  BY <1>3, <1>5, Indices
<1>7. ~pending[id - 1].done
  <2>1. SUFFICES ASSUME NEW i \in 0..(Matched - 1), cq_ring[i].cmd_id = id PROVE FALSE
    BY <1>3, Indices DEF MatchPart
  <2>2. i \in 0..(cq_tail - 1)
    BY <1>2, Indices
  <2>3. i = m
    BY <1>2, <2>1, <2>2, Zenon DEF DevPart
  <2> QED BY <1>2, <2>3
<1>8. \A k \in Slots : pending[k].used /\ pending[k].cmd_id = id => k = id - 1
  BY <1>3, <1>5 DEF Slots
<1>9. Matching(id) = {id - 1}
  <2> HIDE DEF id
  <2> QED BY <1>3, <1>6, <1>7, <1>8, Zenon DEF Matching
<1> QED BY <1>2, <1>3, <1>9, Zenon

(* One completion is matched: its worker is waiting and gets its token.    *)
LEMMA Matches ==
    ASSUME DInv, NEW a \in Agents, MatchOne(a)
    PROVE  DInv'
<1> USE DEF DInv
<1>0. PICK comp, k, wk, m : /\ comp = Head(comps) /\ k = comp.cmd_id - 1
                            /\ wk = sq_ring[k].worker /\ m = Matched
  OBVIOUS
<1>1. pc[a] = "match" /\ comps # <<>>
  BY Zenon DEF MatchOne
<1>2. /\ Len(comps) \in Nat /\ Len(comps) > 0 /\ comp = comps[1] /\ comp \in Result
      /\ Len(Tail(comps)) = Len(comps) - 1 /\ Tail(comps) \in Seq(Result)
      /\ \A j \in 1..(Len(comps) - 1) : Tail(comps)[j] = comps[j + 1]
  BY <1>0, <1>1, Counts
<1>3. k \in Slots /\ Matching(comp.cmd_id) = {k} /\ comp.cmd_id = k + 1 /\ k \in 0..(sq_tail_local - 1)
  <2>1. 1 \in 1..Len(comps)
    BY <1>2
  <2>2. k \in Slots /\ comp.cmd_id \in 1..sq_tail_local /\ Matching(comp.cmd_id) = {k}
    BY <1>0, <1>2, <2>1, MatchingIs, Zenon
  <2> QED BY <1>0, <2>2, Indices
<1>4. comp = cq_ring[m] /\ m \in 0..(cq_head_local - 1) /\ m \in 0..(cq_tail - 1)
  <2>1. comps[1] = cq_ring[m + 1 - 1] /\ m \in Nat
    BY <1>0, <1>2, MatchedRange DEF MatchPart
  <2>2. m = cq_head_local - Len(comps)
    BY <1>0, Zenon DEF Matched
  <2> QED BY <1>2, <2>1, <2>2, Indices
<1>5. pending[k].used /\ ~pending[k].done
  BY <1>3, Zenon DEF Matching
<1>6. pending[k].sem = wk /\ wk \in Workers /\ Submitted(wk) /\ cmd_id[wk] = k + 1
  <2>1. wk \in Workers
    BY <1>0, <1>3, Indices, Zenon
  <2> QED BY <1>0, <1>3, <1>5, <2>1, Zenon DEF PendPart, CmdPart
<1>7. /\ pending' = [pending EXCEPT ![k] = Complete(@, comp)]
      /\ worker_sem' = [worker_sem EXCEPT ![wk] = @ + 1]
      /\ comps' = Tail(comps)
  <2>1. Min({k}) = k
    BY <1>3 DEF Min, Slots
  <2> QED BY <1>0, <1>3, <1>6, <2>1, Zenon DEF MatchOne, Rest
<1>8. /\ UNCHANGED <<pc, cmd_id, accel_lock, drained, sq_ring, sq_tail_local, cq_head_local>>
      /\ UNCHANGED <<fakeVars, worker_loops_seen, deviceVars>>
  BY Zenon DEF MatchOne
<1>9. pc[wk] = "wait" /\ worker_sem[wk] = 0
  <2>1. ~Done(wk)
    <3>1. cmd_id[wk] - 1 = k
      BY <1>3, <1>6 DEF Slots
    <3> QED BY <1>5, <3>1, Zenon DEF Done
  <2>2. ~Past(wk)
    BY <1>6, <2>1, Zenon DEF SemPart
  <2>3. pc[wk] # "register"
    BY <1>1, <1>6, OneHolder, Zenon DEF HolderPCs, Agents
  <2>4. pc[wk] = "wait"
    BY <1>6, <2>2, <2>3, Zenon DEF Submitted, Past
  <2> QED BY <1>6, <2>1, <2>4, Zenon DEF SemPart
<1>10. pending[k] \in [used : BOOLEAN, done : BOOLEAN, cmd_id : 0..NUM_WORKERS,
                       sem : Workers, result : Result]
  BY <1>3, Zenon DEF TypeOK
<1>11. /\ pending'[k] = Complete(pending[k], comp)
       /\ \A j \in Slots \ {k} : pending'[j] = pending[j]
  BY <1>3, <1>7, Zenon DEF TypeOK
<1>12. /\ pending'[k].done = TRUE /\ pending'[k].result = comp /\ pending'[k].used = pending[k].used
       /\ pending'[k].cmd_id = pending[k].cmd_id /\ pending'[k].sem = pending[k].sem
       /\ pending'[k] \in [used : BOOLEAN, done : BOOLEAN, cmd_id : 0..NUM_WORKERS,
                           sem : Workers, result : Result]
  BY <1>2, <1>10, <1>11, Zenon DEF Complete
<1>13. /\ worker_sem'[wk] = 1 /\ \A j \in Workers \ {wk} : worker_sem'[j] = worker_sem[j]
       /\ worker_sem' \in [Workers -> 0..1]
  BY <1>6, <1>7, <1>9, Counts
<1>14. TypeOK'
  <2>1. pending' \in [Slots -> [used : BOOLEAN, done : BOOLEAN, cmd_id : 0..NUM_WORKERS,
                                sem : Workers, result : Result]]
    BY <1>7, <1>11, <1>12, Zenon DEF TypeOK
  <2> QED BY <1>2, <1>7, <1>8, <1>13, <2>1, Zenon DEF TypeOK, fakeVars, deviceVars
<1>15. LockPart'
  BY <1>1, <1>8, Zenon DEF LockPart, fakeVars
<1>16. CmdPart'
  BY <1>8, CmdKept, Zenon DEF Submitted
<1>17. PendPart'
  <2>1. \A j \in Slots : /\ pending'[j].used = pending[j].used
                         /\ pending'[j].cmd_id = pending[j].cmd_id /\ pending'[j].sem = pending[j].sem
                         /\ pending'[j].done => pending[j].used
    BY <1>5, <1>11, <1>12, Zenon DEF PendPart
  <2>2. Registering' <=> Registering
    BY <1>8, Zenon DEF Registering
  <2> QED BY <1>8, <2>1, <2>2, Zenon DEF PendPart
<1>18. DevPart'
  BY <1>8, DevKept, Zenon DEF deviceVars
<1>19. MatchPart'
  <2>1. Len(comps') = Len(comps) - 1 /\ m \in Nat /\ m = cq_head_local - Len(comps)
    BY <1>0, <1>2, <1>7, MatchedRange, Zenon DEF Matched
  <2>2. Matched' = m + 1
    BY <1>2, <1>8, <2>1, Indices DEF Matched
  <2>3. \A j \in 1..Len(comps') : comps'[j] = cq_ring[m + 1 + j - 1]
    <3> SUFFICES ASSUME NEW j \in 1..(Len(comps) - 1) PROVE comps'[j] = cq_ring[m + 1 + j - 1]
      BY <2>1, Zenon
    <3>1. j + 1 \in 1..Len(comps) /\ m + (j + 1) - 1 = m + 1 + j - 1
      BY <1>2, <2>1
    <3>2. comps'[j] = comps[j + 1]
      BY <1>2, <1>7, Zenon
    <3> QED BY <1>0, <3>1, <3>2, Zenon DEF MatchPart
  <2>4. ASSUME NEW j \in 0..(m - 1)
        PROVE  /\ pending'[cq_ring[j].cmd_id - 1].done
               /\ pending'[cq_ring[j].cmd_id - 1].result = cq_ring[j]
    <3>1. j \in 0..(cq_tail - 1) /\ j # m
      <4>1. cq_tail \in 0..sq_head /\ sq_head \in 0..sq_tail_local /\ sq_tail_local \in 0..NUM_WORKERS
        BY Indices, Zenon
      <4> QED BY <1>4, <2>1, <4>1
    <3>2. cq_ring[j].cmd_id # k + 1 /\ cq_ring[j].cmd_id \in 1..sq_head
      BY <1>3, <1>4, <3>1, Zenon DEF DevPart
    <3>3. cq_ring[j].cmd_id - 1 \in 0..(sq_tail_local - 1) /\ cq_ring[j].cmd_id - 1 # k
      BY <1>3, <3>2, Indices
    <3>4. cq_ring[j].cmd_id - 1 \in Slots \ {k}
      BY <3>3, Indices, Zenon
    <3> QED BY <1>0, <1>11, <3>4, Zenon DEF MatchPart
  <2>5. pending'[cq_ring[m].cmd_id - 1].done /\ pending'[cq_ring[m].cmd_id - 1].result = cq_ring[m]
    BY <1>0, <1>4, <1>12, Zenon
  <2>6. ASSUME NEW s \in Slots, pending'[s].done
        PROVE  \E j \in 0..m : cq_ring[j].cmd_id = s + 1
    <3>1. CASE s = k
      <4>1. m \in 0..m
        BY <2>1
      <4> QED BY <1>3, <1>4, <3>1, <4>1, Zenon
    <3>2. CASE s # k
      <4>1. PICK j \in 0..(m - 1) : cq_ring[j].cmd_id = s + 1
        BY <1>0, <1>11, <2>6, <3>2, Zenon DEF MatchPart
      <4>2. j \in 0..m
        BY <2>1
      <4> QED BY <4>1, <4>2, Zenon
    <3> QED BY <3>1, <3>2, Zenon
  <2>7. /\ \A j \in 0..m : j = m \/ j \in 0..(m - 1)
        /\ Matched' - 1 = m
    BY <2>1, <2>2
  <2>8. Len(comps') <= cq_head_local
    BY <1>2, <2>1, Indices
  <2>9. \A j \in 0..m : /\ pending'[cq_ring[j].cmd_id - 1].done
                        /\ pending'[cq_ring[j].cmd_id - 1].result = cq_ring[j]
    BY <2>4, <2>5, <2>7, Zenon
  <2>10. cq_ring' = cq_ring /\ cq_head_local' = cq_head_local
    BY <1>8, Zenon DEF deviceVars
  <2> QED BY <2>2, <2>3, <2>6, <2>7, <2>8, <2>9, <2>10, Zenon DEF MatchPart
<1>20. SemPart'
  <2>1. pc' = pc /\ cmd_id' = cmd_id
    BY <1>8, Zenon
  <2>2. Done(wk)' /\ ~Past(wk)
    <3>1. cmd_id[wk] - 1 = k
      BY <1>3, <1>6 DEF Slots
    <3> QED BY <1>6, <1>9, <1>12, <2>1, <3>1, Zenon DEF Done, Submitted, Past
  <2>3. ASSUME NEW j \in Workers, j # wk PROVE Done(j)' <=> Done(j)
    <3>1. Submitted(j) => cmd_id[j] - 1 \in Slots /\ sq_ring[cmd_id[j] - 1].worker = j
      BY Indices DEF CmdPart
    <3> QED BY <1>0, <1>11, <2>1, <2>3, <3>1, Zenon DEF Done, Submitted
  <2> QED BY <1>6, <1>9, <1>13, <2>1, <2>2, <2>3, Zenon DEF SemPart, Past
<1> QED BY <1>14, <1>15, <1>16, <1>17, <1>18, <1>19, <1>20, Zenon

(* The device completes a command it has in flight. *)
LEMMA DeviceCompletes ==
    ASSUME DInv, NEW d \in inflight, NEW status \in Statuses, DevComplete(d, status)
    PROVE  DInv'
<1> USE DEF DInv
<1>0. PICK t : t = cq_tail
  OBVIOUS
<1>1. /\ t \in Nat /\ t < sq_head /\ t \in Slots /\ t \in Ring /\ t % DMA_ACCEL_QUEUE_DEPTH = t
      /\ \A j \in 0..(t - 1) : j \in Ring /\ j # t
  <2>1. t \in Nat /\ t < sq_head
    BY <1>0, CompletionRoom, Indices
  <2>2. t \in Slots /\ \A j \in 0..(t - 1) : j \in Slots /\ j # t
    BY <2>1, Indices, WorkerAssumption DEF Slots
  <2> QED BY <2>1, <2>2, Indices, Zenon
<1>2. /\ d.cmd_id \in 1..sq_head /\ d = sq_ring[d.cmd_id - 1] /\ d.cmd_id \in 0..NUM_WORKERS
      /\ d.worker \in Workers /\ \A j \in 0..(t - 1) : cq_ring[j].cmd_id # d.cmd_id
      /\ \A e \in inflight : e.cmd_id = d.cmd_id => e = d
  <2>1. /\ d.cmd_id \in 1..sq_head /\ d = sq_ring[d.cmd_id - 1]
        /\ \A j \in 0..(t - 1) : cq_ring[j].cmd_id # d.cmd_id
        /\ \A e \in inflight : e.cmd_id = d.cmd_id => e = d
    <3>1. DevPart
      BY Zenon
    <3> QED BY <1>0, <3>1, SMTT(30) DEF DevPart
  <2>2. d.cmd_id \in 0..NUM_WORKERS /\ d.cmd_id - 1 \in Slots
    <3>1. d.cmd_id - 1 \in 0..(sq_tail_local - 1) /\ d.cmd_id \in 0..NUM_WORKERS
      BY <2>1, Indices, WorkerAssumption
    <3> QED BY <3>1, Indices, Zenon
  <2>3. sq_ring[d.cmd_id - 1].worker \in Workers
    BY <2>2, Indices, Zenon
  <2> QED BY <2>1, <2>2, <2>3, Zenon
<1>3. /\ cq_ring' = [cq_ring EXCEPT ![t] = [cmd_id |-> d.cmd_id, status |-> status]]
      /\ cq_ring'[t].cmd_id = d.cmd_id /\ cq_ring'[t].status = status
      /\ \A j \in 0..(t - 1) : cq_ring'[j] = cq_ring[j]
      /\ cq_tail' = t + 1 /\ inflight' = inflight \ {d}
  <2>1. /\ cq_ring' = [cq_ring EXCEPT ![t] = [cmd_id |-> d.cmd_id, status |-> status]]
        /\ cq_tail' = t + 1 /\ inflight' = inflight \ {d} /\ DOMAIN cq_ring = Ring
    BY <1>0, <1>1, Zenon DEF DevComplete, TypeOK
  <2> QED BY <1>1, <2>1, Zenon
<1>4. /\ dst' = [dst EXCEPT ![d.worker] = @ \/ status = "ok"]
      /\ status = "ok" => dst'[d.worker]
      /\ \A i \in Workers : dst[i] => dst'[i]
      /\ dst' \in [Workers -> BOOLEAN]
  BY <1>2, Zenon DEF DevComplete, TypeOK
<1>5. UNCHANGED <<pc, workerVars, driverVars, sq_head, irq_status>>
  BY Zenon DEF DevComplete
<1> USE <1>5 DEF workerVars, fakeVars, driverVars
<1>6. TypeOK'
  <2>1. cq_tail' \in 0..sq_head /\ cq_head_local \in 0..cq_tail'
    BY <1>0, <1>1, <1>3, Indices
  <2>2. cq_ring' \in [Ring -> Result]
    <3>1. [cmd_id |-> d.cmd_id, status |-> status] \in Result
      BY <1>2, WorkerAssumption, Zenon DEF Result
    <3> QED BY <1>1, <1>3, <3>1, Zenon DEF TypeOK
  <2>3. raise' \subseteq {"DMA_DONE", "DMA_ERROR"}
    BY Zenon DEF DevComplete, TypeOK
  <2>4. inflight' \subseteq [cmd_id : 1..NUM_WORKERS, worker : Workers]
    BY <1>3, Zenon DEF TypeOK
  <2> QED BY <1>4, <2>1, <2>2, <2>3, <2>4, Zenon DEF TypeOK
<1>7. LockPart'
  BY Zenon DEF LockPart
<1>8. CmdPart'
  BY CmdKept, Zenon DEF Submitted
<1>9. PendPart'
  BY Zenon DEF PendPart, Registering
<1>10. DevPart'
  <2>1. \A j \in 0..t : j = t \/ j \in 0..(t - 1)
    BY <1>1
  <2>2. ASSUME NEW j \in 0..(t - 1)
        PROVE  /\ cq_ring'[j].cmd_id \in 1..sq_head
               /\ \A e \in inflight' : e.cmd_id # cq_ring'[j].cmd_id
               /\ cq_ring'[j].status = "ok" => dst'[sq_ring[cq_ring'[j].cmd_id - 1].worker]
    <3>1. /\ cq_ring[j].cmd_id \in 1..sq_head
          /\ \A e \in inflight : e.cmd_id # cq_ring[j].cmd_id
          /\ cq_ring[j].status = "ok" => dst[sq_ring[cq_ring[j].cmd_id - 1].worker]
      BY <1>0, Zenon DEF DevPart
    <3>2. sq_ring[cq_ring[j].cmd_id - 1].worker \in Workers
      BY <3>1, Indices, SMTT(30)
    <3> QED BY <1>3, <1>4, <3>1, <3>2, Zenon
  <2>3. /\ cq_ring'[t].cmd_id \in 1..sq_head
        /\ \A e \in inflight' : e.cmd_id # cq_ring'[t].cmd_id
        /\ cq_ring'[t].status = "ok" => dst'[sq_ring[cq_ring'[t].cmd_id - 1].worker]
    BY <1>2, <1>3, <1>4, Zenon
  <2>4. \A j, k \in 0..t : cq_ring'[j].cmd_id = cq_ring'[k].cmd_id => j = k
    <3>1. \A j, k \in 0..(t - 1) : cq_ring[j].cmd_id = cq_ring[k].cmd_id => j = k
      BY <1>0, Zenon DEF DevPart
    <3>2. cq_ring'[t].cmd_id = d.cmd_id /\ \A j \in 0..(t - 1) : cq_ring'[j] = cq_ring[j]
      BY <1>3, Zenon
    <3>3. \A j \in 0..(t - 1) : cq_ring[j].cmd_id # d.cmd_id
      BY <1>0, <1>2, Zenon DEF DevPart
    <3> QED BY <2>1, <3>1, <3>2, <3>3, Zenon
  <2>5. \A e \in inflight' : e.cmd_id \in 1..sq_head /\ e = sq_ring[e.cmd_id - 1]
    BY <1>3, Zenon DEF DevPart
  <2>6. cq_tail' - 1 = t
    BY <1>1, <1>3
  <2> QED BY <2>1, <2>2, <2>3, <2>4, <2>5, <2>6, Zenon DEF DevPart
<1>11. MatchPart'
  <2>1. Matched \in Nat /\ Matched' = Matched /\ Matched <= t /\ Len(comps) \in Nat
    <3>1. Matched' = Matched
      BY Zenon DEF Matched
    <3> QED BY <1>0, <3>1, MatchedRange, Counts, Zenon
  <2>2. \A j \in 1..Len(comps) : cq_ring'[Matched + j - 1] = cq_ring[Matched + j - 1]
    <3>1. \A j \in 1..Len(comps) : Matched + j - 1 \in 0..(t - 1)
      BY <1>0, <2>1, Indices DEF Matched
    <3> QED BY <1>3, <3>1, Zenon
  <2>3. \A j \in 0..(Matched - 1) : cq_ring'[j] = cq_ring[j]
    BY <1>1, <1>3, <2>1
  <2> QED BY <2>1, <2>2, <2>3 DEF MatchPart
<1>12. SemPart'
  BY SemKept, Zenon DEF Submitted, Past
<1> QED BY <1>6, <1>7, <1>8, <1>9, <1>10, <1>11, <1>12

(* Every variable has its type in the first state, in either build. *)
LEMMA InitTypes == Init => TypeOK
<1> SUFFICES ASSUME Init PROVE TypeOK
  OBVIOUS
<1>1. /\ accel_lock = NoAgent
      /\ pc = [a \in Agents |-> IF a = Isr THEN "idle" ELSE "start"]
  BY Zenon DEF Init
<1>2. /\ sq_tail_local = 0 /\ cq_head_local = 0 /\ fake_cmd_id_counter = 0 /\ sq_head = 0
      /\ cq_tail = 0 /\ drained = 0
      /\ comps = <<>> /\ inflight = {} /\ raise = {} /\ irq_status = {}
      /\ DISABLE_REAL_DMA \in Builds
  BY Zenon DEF Init
<1>3. /\ pending = [k \in Slots |-> [used |-> FALSE, done |-> FALSE, cmd_id |-> 0,
                                     sem |-> 0, result |-> NoResult]]
      /\ sq_ring = [k \in Ring |-> [cmd_id |-> 0, worker |-> 0]]
      /\ cq_ring = [k \in Ring |-> NoResult]
  BY Zenon DEF Init
<1>4. /\ cmd_id = [i \in Workers |-> 0] /\ worker_sem = [i \in Workers |-> 0]
      /\ worker_loops_seen = [i \in Workers |-> FALSE] /\ dst = [i \in Workers |-> FALSE]
  BY Zenon DEF Init
<1>5. 0 \in 0..NUM_WORKERS /\ 0 \in Workers /\ NoResult \in Result /\ 0 \in 0..1 /\ 0 \in 0..0
  BY WorkerAssumption DEF NoResult, Result, Workers
<1>6. pc \in [Agents -> PCs]
  BY <1>1, Zenon DEF PCs
<1>7. pending \in [Slots -> [used : BOOLEAN, done : BOOLEAN, cmd_id : 0..NUM_WORKERS,
                             sem : Workers, result : Result]]
  <2>1. [used |-> FALSE, done |-> FALSE, cmd_id |-> 0, sem |-> 0, result |-> NoResult]
          \in [used : BOOLEAN, done : BOOLEAN, cmd_id : 0..NUM_WORKERS, sem : Workers, result : Result]
    BY <1>5, Zenon
  <2> QED BY <1>3, <2>1, Zenon
<1>8. sq_ring \in [Ring -> [cmd_id : 0..NUM_WORKERS, worker : Workers]] /\ cq_ring \in [Ring -> Result]
  <2>1. [cmd_id |-> 0, worker |-> 0] \in [cmd_id : 0..NUM_WORKERS, worker : Workers]
    BY <1>5, Zenon
  <2> QED BY <1>3, <1>5, <2>1, Zenon
<1>9. /\ cmd_id \in [Workers -> 0..NUM_WORKERS] /\ worker_sem \in [Workers -> 0..1]
      /\ worker_loops_seen \in [Workers -> BOOLEAN] /\ dst \in [Workers -> BOOLEAN]
  BY <1>4, <1>5, Zenon
<1>10. comps \in Seq(Result)
  BY <1>2
<1>11. /\ inflight \subseteq [cmd_id : 1..NUM_WORKERS, worker : Workers]
       /\ raise \subseteq {"DMA_DONE", "DMA_ERROR"} /\ irq_status \subseteq {"DMA_DONE", "DMA_ERROR"}
       /\ DISABLE_REAL_DMA \in BOOLEAN
  BY <1>2, WorkerAssumption, Zenon
<1>12. /\ sq_tail_local \in 0..NUM_WORKERS /\ sq_head \in 0..sq_tail_local
       /\ cq_tail \in 0..sq_head /\ cq_head_local \in 0..cq_tail
       /\ fake_cmd_id_counter \in 0..NUM_WORKERS /\ drained \in 0..NUM_WORKERS
  BY <1>2, <1>5, Zenon
<1>13. accel_lock \in Agents \cup {NoAgent}
  BY <1>1, Zenon
<1> QED BY <1>6, <1>7, <1>8, <1>9, <1>10, <1>11, <1>12, <1>13, Zenon DEF TypeOK

(* The first state of the build with the device. *)
LEMMA DmaInit == ~DISABLE_REAL_DMA /\ Init => DInv
<1> SUFFICES ASSUME ~DISABLE_REAL_DMA, Init PROVE DInv
  OBVIOUS
<1>1. /\ ~DISABLE_REAL_DMA /\ accel_lock = NoAgent
      /\ pc = [a \in Agents |-> IF a = Isr THEN "idle" ELSE "start"]
  BY Zenon DEF Init
<1>2. /\ sq_tail_local = 0 /\ cq_head_local = 0 /\ fake_cmd_id_counter = 0 /\ sq_head = 0
      /\ cq_tail = 0 /\ drained = 0
      /\ comps = <<>> /\ inflight = {} /\ raise = {} /\ irq_status = {}
      /\ DISABLE_REAL_DMA \in Builds
  BY Zenon DEF Init
<1>3. /\ pending = [k \in Slots |-> [used |-> FALSE, done |-> FALSE, cmd_id |-> 0,
                                     sem |-> 0, result |-> NoResult]]
      /\ sq_ring = [k \in Ring |-> [cmd_id |-> 0, worker |-> 0]]
      /\ cq_ring = [k \in Ring |-> NoResult]
  BY Zenon DEF Init
<1>4. /\ cmd_id = [i \in Workers |-> 0] /\ worker_sem = [i \in Workers |-> 0]
      /\ worker_loops_seen = [i \in Workers |-> FALSE] /\ dst = [i \in Workers |-> FALSE]
  BY Zenon DEF Init
<1>5. 0 \in 0..NUM_WORKERS /\ 0 \in Workers /\ NoResult \in Result /\ 0 \in 0..1 /\ 0 \in 0..0
  BY WorkerAssumption DEF NoResult, Result, Workers
<1>6. TypeOK
  BY InitTypes, Zenon
<1>7. Isr \in Agents /\ Isr \notin Workers /\ Workers \subseteq Agents /\ NoAgent \notin Agents
  BY WorkerAssumption DEF Agents, NoAgent, Isr, Workers
<1>8. pc[Isr] = "idle" /\ \A i \in Workers : pc[i] = "start"
  BY <1>1, <1>7, Zenon
<1>9. LockPart
  <2>1. \A a \in Agents : pc[a] \notin HolderPCs
    BY <1>1, Zenon DEF HolderPCs
  <2>2. drained <= cq_head_local
    BY <1>2
  <2> QED BY <1>1, <1>2, <1>7, <1>8, <2>1, <2>2, Zenon DEF LockPart, WorkerPCs, IsrPCs
<1>10. ~Registering /\ \A i \in Workers : ~Submitted(i) /\ ~Past(i) /\ ~Done(i)
  BY <1>8, Zenon DEF Submitted, Registering, Past, Done
<1>11. \A k : k \notin 0..(0 - 1)
  OBVIOUS
<1>12. CmdPart
  BY <1>2, <1>8, <1>10, <1>11, Zenon DEF CmdPart
<1>13. \A k \in Slots : ~pending[k].used /\ ~pending[k].done /\ ~(k < 0)
  BY <1>3 DEF Slots
<1>14. PendPart
  BY <1>2, <1>10, <1>13, Zenon DEF PendPart
<1>15. SemPart
  BY <1>4, <1>10, Zenon DEF SemPart
<1>16. DevPart
  BY <1>2, <1>11, Zenon DEF DevPart
<1>17. MatchPart
  <2>1. Len(comps) = 0 /\ \A k : k \notin 1..0
    BY <1>2
  <2>3. Matched = 0
    <3>1. cq_head_local = 0 /\ Len(comps) = 0
      BY <1>2, <2>1, Zenon
    <3> QED BY <3>1 DEF Matched
  <2>2. Len(comps) <= cq_head_local
    BY <1>2, <2>1
  <2> QED BY <1>11, <1>13, <2>1, <2>2, <2>3, Zenon DEF MatchPart
<1> QED BY <1>6, <1>9, <1>12, <1>14, <1>15, <1>16, <1>17, Zenon DEF DInv

(* Every step of a worker, the handler or the device keeps the invariant. *)
LEMMA DmaStep == DInv /\ [Next]_vars => DInv'
<1> SUFFICES ASSUME DInv, [Next]_vars PROVE DInv'
  OBVIOUS
<1>1. ASSUME NEW i \in Workers, WorkerStep(i) PROVE DInv'
  <2>1. ~FakeCopy(i)
    BY Zenon DEF FakeCopy, DInv, LockPart
  <2> QED BY <1>1, <2>1, Starts, Submits, Registers, Wakes, WorkerMoves, Zenon DEF WorkerStep
<1>2. ASSUME NEW a \in Agents, Lock(a) \/ Dispatch(a) PROVE DInv'
  BY <1>2, WorkerMoves, DispatchMoves, Drains, Matches, Zenon DEF Lock, Dispatch
<1>3. ASSUME TakeIrq \/ HandlerStep PROVE DInv'
  BY <1>3, HandlerMoves, Zenon DEF HandlerStep
<1>4. ASSUME Device PROVE DInv'
  BY <1>4, DeviceFetches, DeviceRaises, DeviceCompletes, Zenon DEF Device
<1>5. ASSUME UNCHANGED vars PROVE DInv'
  <2> USE <1>5 DEF DInv, vars, workerVars, fakeVars, driverVars, deviceVars
  <2>1. TypeOK' /\ LockPart' /\ PendPart'
    BY Zenon DEF TypeOK, LockPart, PendPart, Registering
  <2>2. CmdPart' /\ SemPart'
    BY CmdKept, SemKept, Zenon DEF Submitted, Past
  <2>3. DevPart' /\ MatchPart'
    BY DevKept, MatchKept, Zenon
  <2> QED BY <2>1, <2>2, <2>3, Zenon
<1> QED BY <1>1, <1>2, <1>3, <1>4, <1>5, Zenon DEF Next

-----------------------------------------------------------------------------
(* What the invariant is for. *)
LEMMA DroppedNone == DInv => NoCompletionDropped
<1> SUFFICES ASSUME DInv, NEW j \in 1..Len(comps)
             PROVE  Cardinality(Matching(comps[j].cmd_id)) = 1
  BY Zenon DEF NoCompletionDropped
<1> QED BY MatchingIs, FS_Singleton, Zenon

(* A worker's request is the one pending[] holds in its command's slot. *)
LEMMA SlotOf ==
    ASSUME DInv, NEW i \in Workers
    PROVE  /\ Submitted(i) => cmd_id[i] - 1 \in Slots /\ cmd_id[i] \in 1..sq_tail_local
           /\ \A k \in Slots : pending[k].used /\ pending[k].sem = i => cmd_id[i] = k + 1 /\ Submitted(i)
           /\ \A k \in Slots : pending[k].used => pending[k].cmd_id = k + 1 /\ k < sq_tail_local
<1>1. Submitted(i) => cmd_id[i] - 1 \in Slots /\ cmd_id[i] \in 1..sq_tail_local
  BY Indices, SMTT(30) DEF DInv, CmdPart
<1>2. \A k \in Slots : pending[k].used => /\ pending[k].cmd_id = k + 1 /\ k < sq_tail_local
                                          /\ pending[k].sem = sq_ring[k].worker
  BY Indices, SMTT(30) DEF DInv, PendPart, Slots
<1>3. \A k \in Slots : k < sq_tail_local =>
          Submitted(sq_ring[k].worker) /\ cmd_id[sq_ring[k].worker] = k + 1
  <2>1. TypeOK /\ CmdPart
    BY Zenon DEF DInv
  <2>2. \A k \in Slots : k < sq_tail_local => k \in 0..(sq_tail_local - 1)
    BY <2>1, Indices DEF Slots
  <2> QED BY <2>1, <2>2, Zenon DEF CmdPart
<1> QED BY <1>1, <1>2, <1>3

(* A worker's tokens, taken or not, are its requests that are done. *)
LEMMA PostsOnce == DInv => PostedOnce
<1> SUFFICES ASSUME DInv, NEW i \in Workers
             PROVE  worker_sem[i] + (IF Past(i) THEN 1 ELSE 0)
                        = Cardinality({k \in Slots : pending[k].done /\ pending[k].sem = i})
  BY Zenon DEF PostedOnce
<1> DEFINE S == {k \in Slots : pending[k].done /\ pending[k].sem = i}
<1>1. \A k \in S : pending[k].used /\ cmd_id[i] = k + 1 /\ Submitted(i)
  BY SlotOf, Zenon DEF DInv, PendPart
<1>2. \A k \in S : k = cmd_id[i] - 1
  BY <1>1 DEF Slots
<1>3. CASE Done(i)
  <2>1. cmd_id[i] - 1 \in Slots /\ pending[cmd_id[i] - 1].done /\ pending[cmd_id[i] - 1].used
    BY <1>3, SlotOf, Zenon DEF Done, DInv, PendPart
  <2>2. pending[cmd_id[i] - 1].sem = i
    BY <1>3, <2>1, Zenon DEF Done, DInv, PendPart, CmdPart
  <2>3. S = {cmd_id[i] - 1}
    BY <1>2, <2>1, <2>2, Zenon
  <2>4. Cardinality(S) = 1
    BY <2>3, FS_Singleton, Zenon
  <2>5. pc[i] = "wait" \/ Past(i)
    <3>1. pc[i] = "register" => Registering /\ cmd_id[i] = sq_tail_local
      BY Zenon DEF Registering, DInv, CmdPart
    <3>2. Registering => cmd_id[i] - 1 < sq_tail_local - 1
      BY <2>1, Zenon DEF DInv, PendPart
    <3>3. pc[i] # "register"
      BY <1>3, <3>1, <3>2, SlotOf, Indices, SMTT(30) DEF Done, DInv
    <3> QED BY <1>3, <3>3, Zenon DEF Done, Submitted, Past
  <2>6. worker_sem[i] = IF pc[i] = "wait" THEN 1 ELSE 0
    BY <1>3, Zenon DEF DInv, SemPart
  <2>7. pc[i] = "wait" => ~Past(i)
    BY Zenon DEF Past
  <2> HIDE DEF S
  <2> QED BY <2>4, <2>5, <2>6, <2>7, SMTT(30) DEF S
<1>4. CASE ~Done(i)
  <2>1. S = {}
    BY <1>1, <1>2, <1>4, Zenon DEF Done
  <2>2. Cardinality(S) = 0
    BY <2>1, FS_EmptySet, Zenon
  <2>3. worker_sem[i] = 0 /\ ~Past(i)
    BY <1>4, Zenon DEF DInv, SemPart
  <2> QED BY <2>2, <2>3
<1> QED BY <1>3, <1>4, Zenon

(* A worker's lookup finds its own slot, with its own completion. *)
LEMMA ResultRight == DInv => RightResult
<1> SUFFICES ASSUME DInv, NEW i \in Workers, pc[i] = "check"
             PROVE  LET S == {k \in Slots : pending[k].used /\ pending[k].cmd_id = cmd_id[i]}
                    IN  /\ S # {}
                        /\ pending[Min(S)].result.cmd_id = cmd_id[i]
                        /\ pending[Min(S)].result.status = "ok" => dst[i]
  BY Zenon DEF RightResult
<1> DEFINE S == {k \in Slots : pending[k].used /\ pending[k].cmd_id = cmd_id[i]}
           k0 == cmd_id[i] - 1
<1>1. Done(i) /\ Submitted(i)
  BY Zenon DEF DInv, SemPart, Past, Done
<1>2. k0 \in Slots /\ k0 \in Int /\ cmd_id[i] = k0 + 1 /\ pending[k0].done /\ pending[k0].used
  <2>1. k0 \in Slots /\ cmd_id[i] \in 1..sq_tail_local
    BY <1>1, SlotOf, Zenon
  <2>2. k0 \in Int /\ cmd_id[i] = k0 + 1
    BY <2>1 DEF Slots
  <2>3. pending[k0].done /\ pending[k0].used
    BY <1>1, <2>1, Zenon DEF Done, DInv, PendPart
  <2> QED BY <2>1, <2>2, <2>3, Zenon
<1>3. S = {k0}
  <2>1. ASSUME NEW k \in Slots, pending[k].used, pending[k].cmd_id = cmd_id[i] PROVE k = k0
    <3>1. pending[k].cmd_id = k + 1 /\ k \in Int
      <4>1. k \in Int
        BY DEF Slots
      <4> QED BY <2>1, <4>1, SlotOf, Zenon
    <3> QED BY <2>1, <3>1
  <2>2. pending[k0].cmd_id = cmd_id[i]
    BY <1>2, SlotOf, Zenon
  <2> HIDE DEF k0
  <2> QED BY <1>2, <2>1, <2>2, Zenon
<1>4. Min(S) = k0
  BY <1>2, <1>3 DEF Min
<1>5. PICK j \in 0..(Matched - 1) : cq_ring[j].cmd_id = k0 + 1
  BY <1>2, Zenon DEF DInv, MatchPart
<1>6. pending[k0].result = cq_ring[j] /\ j \in 0..(cq_tail - 1)
  <2>1. Matched \in Nat /\ Matched <= cq_tail
    BY MatchedRange, Zenon DEF DInv
  <2>2. cq_ring[j].cmd_id - 1 = k0
    BY <1>2, <1>5, Zenon
  <2> QED BY <1>5, <2>1, <2>2, Indices DEF DInv, MatchPart
<1>7. sq_ring[k0].worker = i
  BY <1>1, Zenon DEF DInv, CmdPart
<1>8. cq_ring[j].status = "ok" => dst[i]
  <2>1. cq_ring[j].cmd_id - 1 = k0
    BY <1>2, <1>5
  <2> QED BY <1>6, <1>7, <2>1, Zenon DEF DInv, DevPart
<1> QED BY <1>2, <1>3, <1>4, <1>5, <1>6, <1>8, Zenon

(* The error bit is never cleared: accel_irq_ack writes DMA_DONE only. *)
LEMMA ErrorsStay ==
    ASSUME [Next]_vars, NoErrors'
    PROVE  NoErrors
<1> USE DEF NoErrors
<1>1. CASE accel_irq_ack
  BY <1>1, Zenon DEF accel_irq_ack
<1>2. CASE DevRaise
  BY <1>2, Zenon DEF DevRaise
<1>3. ASSUME NEW d \in inflight, NEW status \in Statuses, DevComplete(d, status) PROVE NoErrors
  BY <1>3, Zenon DEF DevComplete
<1>4. ASSUME UNCHANGED <<irq_status, raise>> PROVE NoErrors
  BY <1>4, Zenon
<1>5. ASSUME NEW i \in Workers, WorkerStep(i) PROVE UNCHANGED <<irq_status, raise>>
  BY <1>5, Zenon DEF WorkerStep, Start, accel_submit_copy, Register, FakeCopy, sem_wait, Check,
                     PollLoop, deviceVars
<1>6. ASSUME NEW a \in Agents, Lock(a) \/ Dispatch(a) PROVE UNCHANGED <<irq_status, raise>>
  BY <1>6, Zenon DEF Lock, Dispatch, SubmitLock, DispatchLock, accel_drain_completions_multi,
                     MatchOne, DispatchUnlock, deviceVars
<1>7. ASSUME TakeIrq \/ accel_irq_status \/ gic_eoi \/ DevFetch \/ UNCHANGED vars
      PROVE  UNCHANGED <<irq_status, raise>>
  BY <1>7, Zenon DEF TakeIrq, accel_irq_status, gic_eoi, DevFetch, vars, deviceVars
<1> HIDE DEF NoErrors
<1> QED BY <1>1, <1>2, <1>3, <1>4, <1>5, <1>6, <1>7, Zenon DEF Next, HandlerStep, Device

(* Until an error is reported, a completion that is not yet drained has an *)
(* interrupt or a dispatcher coming.  A dispatcher that leaves the loop    *)
(* because it has drained NUM_WORKERS has drained everything.              *)
LEMMA StrandedStep ==
    ASSUME DInv, DInv', NoStrandedCompletion, [Next]_vars
    PROVE  NoStrandedCompletion'
<1> DEFINE Raised == "DMA_DONE" \in irq_status \cup raise
           At(a) == pc[a] = "disp_lock" \/ (pc[a] = "drain" /\ drained < NUM_WORKERS)
<1>0. /\ Workers \subseteq Agents /\ Isr \in Agents /\ pc \in [Agents -> PCs]
      /\ cq_tail \in Nat /\ cq_head_local \in Nat /\ drained \in Nat /\ NUM_WORKERS \in Nat \ {0}
  <2>1. Workers \subseteq Agents /\ Isr \in Agents /\ pc \in [Agents -> PCs]
    BY Zenon DEF Agents, DInv, TypeOK
  <2>2. TypeOK
    BY Zenon DEF DInv
  <2> QED BY <2>1, <2>2, Indices, Counts, WorkerAssumption
<1> SUFFICES ASSUME NoErrors', cq_tail' # cq_head_local'
             PROVE  Raised' \/ \E a \in Agents : At(a)'
  BY Zenon DEF NoStrandedCompletion
<1> NoErrors
  BY ErrorsStay, Zenon
<1>1. ASSUME UNCHANGED <<cq_tail, cq_head_local, irq_status, raise, drained>>,
             \A a \in Agents : pc[a] \in {"disp_lock", "drain"} => pc'[a] = pc[a]
      PROVE  Raised' \/ \E a \in Agents : At(a)'
  BY <1>1, Zenon DEF NoStrandedCompletion
<1> USE DEF Goto, workerVars, fakeVars, driverVars, deviceVars
<1>2. ASSUME NEW i \in Workers, WorkerStep(i) \/ SubmitLock(i)
      PROVE  Raised' \/ \E a \in Agents : At(a)'
  <2>1. PICK q : pc' = [pc EXCEPT ![i] = q] /\ pc[i] \notin {"disp_lock", "drain"}
    BY <1>2, Zenon DEF WorkerStep, Start, SubmitLock, accel_submit_copy, Register, FakeCopy,
                       sem_wait, Check, PollLoop
  <2>2. UNCHANGED <<cq_tail, cq_head_local, irq_status, raise, drained>>
    BY <1>2, Zenon DEF WorkerStep, Start, SubmitLock, accel_submit_copy, Register, FakeCopy,
                       sem_wait, Check, PollLoop
  <2> QED BY <1>0, <1>1, <2>1, <2>2, Zenon
<1>3. ASSUME NEW a \in Agents, DispatchLock(a)
      PROVE  Raised' \/ \E b \in Agents : At(b)'
  <2>1. pc'[a] = "drain" /\ drained' = 0 /\ drained' < NUM_WORKERS
    BY <1>0, <1>3 DEF DispatchLock
  <2> QED BY <2>1, Zenon
<1>4. ASSUME NEW a \in Agents, Dispatch(a)
      PROVE  Raised' \/ \E b \in Agents : At(b)'
  <2>1. CASE accel_drain_completions_multi(a)
    <3>1. drained \in 0..NUM_WORKERS /\ drained' \in 0..NUM_WORKERS /\ cq_tail \in 0..NUM_WORKERS
      <4>1. TypeOK /\ drained' \in 0..NUM_WORKERS
        BY Zenon DEF DInv, TypeOK
      <4> QED BY <4>1, Indices, Counts, WorkerAssumption
    <3>2. drained' <= cq_head_local' /\ cq_head_local' \in 0..cq_tail' /\ cq_tail' = cq_tail
      BY <2>1, Zenon DEF DInv, LockPart, TypeOK, accel_drain_completions_multi
    <3>3. drained' < NUM_WORKERS
      <4>1. cq_head_local' # cq_tail /\ cq_head_local' \in 0..cq_tail
        BY <3>2, Zenon
      <4>2. cq_head_local' < NUM_WORKERS
        BY <3>1, <4>1, WorkerAssumption
      <4> QED BY <3>1, <3>2, <4>1, <4>2, WorkerAssumption
    <3>4. pc'[a] = "drain"
      BY <2>1, <3>1, <3>2, <3>3, Zenon DEF accel_drain_completions_multi
    <3> QED BY <3>3, <3>4, Zenon
  <2>2. CASE MatchOne(a)
    BY <1>1, <2>2, Zenon DEF MatchOne
  <2>3. CASE DispatchUnlock(a)
    <3>1. pc[a] = "match" /\ \A b \in Agents \ {a} : pc'[b] = pc[b]
      BY <1>0, <2>3, Zenon DEF DispatchUnlock
    <3>2. \A b \in Agents : pc[b] # "drain"
      BY <3>1, OneHolder, Zenon DEF DInv, HolderPCs
    <3>3. UNCHANGED <<cq_tail, cq_head_local, irq_status, raise>>
      BY <2>3, Zenon DEF DispatchUnlock
    <3> QED BY <3>1, <3>2, <3>3, Zenon DEF NoStrandedCompletion
  <2> QED BY <1>4, <2>1, <2>2, <2>3, Zenon DEF Dispatch
<1>5. ASSUME TakeIrq \/ accel_irq_status \/ gic_eoi
      PROVE  Raised' \/ \E a \in Agents : At(a)'
  <2>1. PICK q : pc' = [pc EXCEPT ![Isr] = q] /\ pc[Isr] \notin {"disp_lock", "drain"}
    BY <1>5, Zenon DEF TakeIrq, accel_irq_status, gic_eoi
  <2>2. UNCHANGED <<cq_tail, cq_head_local, irq_status, raise, drained>>
    BY <1>5, Zenon DEF TakeIrq, accel_irq_status, gic_eoi
  <2> QED BY <1>0, <1>1, <2>1, <2>2, Zenon
<1>6. ASSUME accel_irq_ack PROVE Raised' \/ \E a \in Agents : At(a)'
  <2>1. pc'[Isr] = "disp_lock"
    BY <1>0, <1>6, Zenon DEF accel_irq_ack
  <2> QED BY <1>0, <2>1, Zenon
<1>7. ASSUME Device PROVE Raised' \/ \E a \in Agents : At(a)'
  <2>1. CASE DevFetch
    BY <1>1, <2>1, Zenon DEF DevFetch
  <2>2. CASE DevRaise
    BY <2>2, Zenon DEF DevRaise, NoStrandedCompletion
  <2>3. ASSUME NEW d \in inflight, NEW status \in Statuses, DevComplete(d, status) PROVE Raised'
    <3>1. status = "ok"
      BY <2>3, Zenon DEF DevComplete, NoErrors
    <3> QED BY <2>3, <3>1, Zenon DEF DevComplete
  <2> QED BY <1>7, <2>1, <2>2, <2>3, Zenon DEF Device
<1>8. ASSUME UNCHANGED vars PROVE Raised' \/ \E a \in Agents : At(a)'
  BY <1>1, <1>8, Zenon DEF vars
<1> HIDE DEF Raised, At
<1> QED BY <1>2, <1>3, <1>4, <1>5, <1>6, <1>7, <1>8, Zenon DEF Next, Lock, HandlerStep

-----------------------------------------------------------------------------
(* The build DISABLE_REAL_DMA.                                             *)

(* Nothing is submitted, so nothing completes and nothing interrupts. *)
DeviceIdle ==
    /\ sq_tail_local = 0 /\ sq_head = 0 /\ cq_tail = 0 /\ cq_head_local = 0
    /\ inflight = {} /\ raise = {} /\ irq_status = {}
    /\ pc[Isr] = "idle"

HaveFaked == {i \in Workers : Submitted(i)}

(* Dispatchers find the ring empty; a worker has the token it gave itself  *)
(* until it takes it, and its data; the faked ids count the workers.       *)
FInv ==
    /\ TypeOK /\ DISABLE_REAL_DMA /\ DeviceIdle
    /\ comps = <<>> /\ drained = 0
    /\ \A i \in Workers :
          /\ pc[i] \in WorkerPCs \ {"register"}
          /\ worker_sem[i] = IF pc[i] = "wait" THEN 1 ELSE 0
          /\ Submitted(i) => dst[i]
    /\ fake_cmd_id_counter = Cardinality(HaveFaked)

(* Workers are finitely many, and so are those that have faked a command. *)
LEMMA FakedCount ==
    /\ IsFiniteSet(Workers) /\ Cardinality(Workers) = NUM_WORKERS
    /\ IsFiniteSet(HaveFaked) /\ Cardinality(HaveFaked) \in Nat
<1>1. IsFiniteSet(0..(NUM_WORKERS - 1)) /\ Cardinality(0..(NUM_WORKERS - 1)) = NUM_WORKERS
  <2>1. \A a, b \in Int : /\ IsFiniteSet(a..b)
                          /\ Cardinality(a..b) = IF a > b THEN 0 ELSE b - a + 1
    BY FS_Interval, Zenon
  <2>2. NUM_WORKERS - 1 \in Int /\ ~(0 > NUM_WORKERS - 1) /\ NUM_WORKERS - 1 - 0 + 1 = NUM_WORKERS
    BY WorkerAssumption
  <2> QED BY <2>1, <2>2
<1>2. IsFiniteSet(Workers) /\ Cardinality(Workers) = NUM_WORKERS
  BY <1>1, Zenon DEF Workers
<1>3. IsFiniteSet(HaveFaked)
  BY <1>2, FS_Subset, Zenon DEF HaveFaked
<1> QED BY <1>2, <1>3, FS_CardinalityType, Zenon

(* The first state of that build. *)
LEMMA FakeInit == DISABLE_REAL_DMA /\ Init => FInv
<1> SUFFICES ASSUME DISABLE_REAL_DMA, Init PROVE FInv
  OBVIOUS
<1>1. TypeOK
  BY InitTypes, Zenon
<1>2. Isr \in Agents /\ Isr \notin Workers /\ Workers \subseteq Agents
  BY WorkerAssumption DEF Agents, Isr, Workers
<1>3. pc[Isr] = "idle" /\ \A i \in Workers : pc[i] = "start" /\ worker_sem[i] = 0
  BY <1>2, Zenon DEF Init
<1>4. DeviceIdle /\ comps = <<>> /\ drained = 0 /\ fake_cmd_id_counter = 0
  BY <1>3, Zenon DEF Init, DeviceIdle
<1>5. HaveFaked = {}
  BY <1>3, Zenon DEF HaveFaked, Submitted
<1>6. Cardinality(HaveFaked) = 0
  BY <1>5, FS_EmptySet, Zenon
<1>7. \A i \in Workers : /\ pc[i] \in WorkerPCs \ {"register"} /\ ~Submitted(i)
                         /\ worker_sem[i] = IF pc[i] = "wait" THEN 1 ELSE 0
  BY <1>3, Zenon DEF WorkerPCs, Submitted
<1> QED BY <1>1, <1>4, <1>6, <1>7, Zenon DEF FInv

(* A step of a worker that leaves its place among those that have faked.   *)
LEMMA FakeMoves ==
    ASSUME FInv, TypeOK', NEW i \in Workers, NEW q \in WorkerPCs \ {"register"},
           pc' = [pc EXCEPT ![i] = q], Submitted(i)' <=> Submitted(i),
           pc[i] # "wait", q # "wait", UNCHANGED worker_sem, UNCHANGED dst,
           comps' = <<>>, drained' = 0,
           UNCHANGED <<DISABLE_REAL_DMA, fake_cmd_id_counter, sq_tail_local, sq_head, cq_tail,
                       cq_head_local, inflight, raise, irq_status>>
    PROVE  FInv'
<1>1. /\ Isr \in Agents /\ Isr # i /\ Workers \subseteq Agents /\ i \in Agents
      /\ pc \in [Agents -> PCs]
  BY WorkerAssumption DEF Agents, Isr, Workers, FInv, TypeOK
<1>2. pc'[Isr] = pc[Isr] /\ pc'[i] = q /\ \A j \in Workers : j # i => pc'[j] = pc[j]
  BY <1>1, Zenon
<1>3. \A j \in Workers : Submitted(j)' <=> Submitted(j)
  BY <1>2, Zenon DEF Submitted
<1>4. HaveFaked' = HaveFaked
  BY <1>3, Zenon DEF HaveFaked
<1>5. DeviceIdle'
  BY <1>2, Zenon DEF FInv, DeviceIdle
<1>6. \A j \in Workers : /\ pc'[j] \in WorkerPCs \ {"register"}
                         /\ worker_sem'[j] = IF pc'[j] = "wait" THEN 1 ELSE 0
                         /\ Submitted(j)' => dst'[j]
  BY <1>2, <1>3, Zenon DEF FInv
<1> QED BY <1>4, <1>5, <1>6, Zenon DEF FInv

(* Filling the buffers and clearing the semaphore. *)
LEMMA FakeStarts ==
    ASSUME FInv, NEW i \in Workers, Start(i)
    PROVE  FInv'
<1> USE DEF Start, Goto, workerVars, fakeVars, driverVars, deviceVars
<1>1. TypeOK /\ 0 \in 0..1 /\ "lock" \in PCs /\ "lock" \in WorkerPCs \ {"register"}
  BY DEF FInv, PCs, WorkerPCs
<1>2. /\ Isr \in Agents /\ Isr # i /\ Workers \subseteq Agents
      /\ pc \in [Agents -> PCs] /\ worker_sem \in [Workers -> 0..1] /\ dst \in [Workers -> BOOLEAN]
  BY <1>1, WorkerAssumption DEF Agents, Isr, Workers, TypeOK
<1>3. /\ pc'[Isr] = pc[Isr] /\ pc[i] = "start" /\ pc'[i] = "lock"
      /\ \A j \in Workers : j # i => pc'[j] = pc[j]
  BY <1>2, Zenon
<1>4. TypeOK'
  <2>1. pc' \in [Agents -> PCs] /\ worker_sem' \in [Workers -> 0..1] /\ dst' \in [Workers -> BOOLEAN]
    BY <1>1, <1>2, Zenon
  <2> QED BY <1>1, <2>1, Zenon DEF TypeOK
<1>5. \A j \in Workers : Submitted(j)' <=> Submitted(j)
  BY <1>3, Zenon DEF Submitted
<1>6. HaveFaked' = HaveFaked
  BY <1>5, Zenon DEF HaveFaked
<1>7. DeviceIdle'
  BY <1>3, Zenon DEF FInv, DeviceIdle
<1>8. \A j \in Workers : /\ worker_sem'[j] = IF j = i THEN 0 ELSE worker_sem[j]
                         /\ dst'[j] = IF j = i THEN FALSE ELSE dst[j]
  BY <1>2, Zenon
<1>9. ~Submitted(i)'
  BY <1>3, Zenon DEF Submitted
<1>10. \A j \in Workers : /\ pc'[j] \in WorkerPCs \ {"register"}
                          /\ worker_sem'[j] = IF pc'[j] = "wait" THEN 1 ELSE 0
                          /\ Submitted(j)' => dst'[j]
  <2>1. TAKE j \in Workers
  <2>2. CASE j = i
    BY <1>1, <1>3, <1>8, <1>9, <2>2, Zenon
  <2>3. CASE j # i
    BY <1>3, <1>5, <1>8, <2>3, Zenon DEF FInv
  <2> QED BY <2>2, <2>3, Zenon
<1> QED BY <1>4, <1>6, <1>7, <1>10, Zenon DEF FInv

(* One more worker has faked its command: the id it takes is new, and is   *)
(* at most the number of workers.                                          *)
LEMMA FakedOneMore ==
    ASSUME FInv, NEW i \in Workers, ~Submitted(i), HaveFaked' = HaveFaked \cup {i}
    PROVE  /\ Cardinality(HaveFaked') = fake_cmd_id_counter + 1
           /\ fake_cmd_id_counter + 1 \in 1..NUM_WORKERS
<1>1. i \notin HaveFaked
  BY Zenon DEF HaveFaked
<1>2. Cardinality(HaveFaked \cup {i}) = Cardinality(HaveFaked) + 1
  BY <1>1, FakedCount, FS_AddElement, Zenon
<1>3. HaveFaked \cup {i} \subseteq Workers
  BY Zenon DEF HaveFaked
<1>4. Cardinality(HaveFaked \cup {i}) <= NUM_WORKERS
  BY <1>3, FakedCount, FS_Subset, Zenon
<1>5. fake_cmd_id_counter = Cardinality(HaveFaked)
  BY Zenon DEF FInv
<1> QED BY <1>2, <1>4, <1>5, FakedCount, WorkerAssumption

(* The faked copy, its completion and the post of its semaphore. *)
LEMMA FakeCopies ==
    ASSUME FInv, NEW i \in Workers, FakeCopy(i)
    PROVE  FInv'
<1> USE DEF FakeCopy, Goto, workerVars, fakeVars, driverVars, deviceVars
<1> DEFINE id == fake_cmd_id_counter + 1
           Slot == [used : BOOLEAN, done : BOOLEAN, cmd_id : 0..NUM_WORKERS,
                    sem : Workers, result : Result]
<1>1. TypeOK /\ "wait" \in PCs /\ "wait" \in WorkerPCs \ {"register"}
  BY Zenon DEF FInv, PCs, WorkerPCs
<1>2. /\ Isr \in Agents /\ Isr # i /\ Workers \subseteq Agents /\ i \in Slots
      /\ pc \in [Agents -> PCs] /\ worker_sem \in [Workers -> 0..1] /\ dst \in [Workers -> BOOLEAN]
      /\ cmd_id \in [Workers -> 0..NUM_WORKERS] /\ pending \in [Slots -> Slot]
  <2>1. Isr \notin Workers
    BY WorkerAssumption DEF Isr, Workers
  <2> QED BY <1>1, <2>1, Zenon DEF Agents, Workers, Slots, TypeOK
<1>3. /\ pc'[Isr] = pc[Isr] /\ pc[i] = "submit" /\ pc'[i] = "wait"
      /\ \A j \in Workers : j # i => pc'[j] = pc[j]
  BY <1>2, Zenon
<1>4. ~Submitted(i) /\ Submitted(i)' /\ \A j \in Workers : j # i => (Submitted(j)' <=> Submitted(j))
  BY <1>3, Zenon DEF Submitted
<1>5. HaveFaked' = HaveFaked \cup {i}
  BY <1>4, Zenon DEF HaveFaked
<1>6. id \in 1..NUM_WORKERS /\ id \in 0..NUM_WORKERS /\ Cardinality(HaveFaked') = id
  <2>1. id \in 1..NUM_WORKERS /\ Cardinality(HaveFaked') = id
    BY <1>4, <1>5, FakedOneMore, Zenon
  <2>2. 1..NUM_WORKERS \subseteq 0..NUM_WORKERS
    OBVIOUS
  <2> QED BY <2>1, <2>2, Zenon
<1>7. worker_sem[i] = 0
  BY <1>3, Zenon DEF FInv
<1>8. \A j \in Workers : /\ worker_sem'[j] = IF j = i THEN 1 ELSE worker_sem[j]
                         /\ dst'[j] = IF j = i THEN TRUE ELSE dst[j]
  BY <1>2, <1>7
<1>9. TypeOK'
  <2>1. pc' \in [Agents -> PCs] /\ dst' \in [Workers -> BOOLEAN]
    BY <1>1, <1>2, Zenon
  <2>2. worker_sem' \in [Workers -> 0..1]
    BY <1>2, <1>8
  <2>3. cmd_id' \in [Workers -> 0..NUM_WORKERS] /\ fake_cmd_id_counter' \in 0..NUM_WORKERS
    BY <1>2, <1>6, Zenon
  <2>4. pending_register(i, id) \in [Slots -> Slot]
    <3>1. \A p \in Slot :
            [p EXCEPT !.cmd_id = id, !.sem = i, !.used = TRUE, !.done = FALSE] \in Slot
      BY <1>6, Zenon
    <3>2. \A k : [pending EXCEPT ![k] = [@ EXCEPT !.cmd_id = id, !.sem = i, !.used = TRUE,
                                                  !.done = FALSE]] \in [Slots -> Slot]
      BY <1>2, <3>1, Zenon
    <3> HIDE DEF Slot, id
    <3> QED BY <1>2, <3>2, Zenon DEF pending_register
  <2>5. pending' \in [Slots -> Slot]
    <3>1. [cmd_id |-> id, status |-> "ok"] \in Result
      BY <1>6, Zenon DEF Result
    <3>2. \A p \in Slot :
            [p EXCEPT !.result = [cmd_id |-> id, status |-> "ok"], !.done = TRUE] \in Slot
      BY <3>1, Zenon
    <3> HIDE DEF Slot
    <3> QED BY <2>4, <3>2, Zenon
  <2>6. accel_lock' \in Agents \cup {NoAgent}
    BY Zenon
  <2> QED BY <1>1, <2>1, <2>2, <2>3, <2>5, <2>6, Zenon DEF TypeOK
<1>10. DeviceIdle'
  BY <1>3, Zenon DEF FInv, DeviceIdle
<1>11. \A j \in Workers : /\ pc'[j] \in WorkerPCs \ {"register"}
                          /\ worker_sem'[j] = IF pc'[j] = "wait" THEN 1 ELSE 0
                          /\ Submitted(j)' => dst'[j]
  <2>1. TAKE j \in Workers
  <2>2. CASE j = i
    BY <1>1, <1>3, <1>8, <2>2, Zenon
  <2>3. CASE j # i
    BY <1>3, <1>4, <1>8, <2>3, Zenon DEF FInv
  <2> QED BY <2>2, <2>3, Zenon
<1>12. fake_cmd_id_counter' = Cardinality(HaveFaked')
  BY <1>6, Zenon
<1> QED BY <1>9, <1>10, <1>11, <1>12, Zenon DEF FInv

(* A worker takes the token it gave itself. *)
LEMMA FakeWakes ==
    ASSUME FInv, NEW i \in Workers, sem_wait(i)
    PROVE  FInv'
<1> USE DEF sem_wait, Goto, workerVars, fakeVars, driverVars, deviceVars
<1>1. TypeOK /\ "check" \in PCs /\ "check" \in WorkerPCs \ {"register"}
  BY Zenon DEF FInv, PCs, WorkerPCs
<1>2. /\ Isr \in Agents /\ Isr # i /\ Workers \subseteq Agents
      /\ pc \in [Agents -> PCs] /\ worker_sem \in [Workers -> 0..1]
  <2>1. Isr \notin Workers
    BY WorkerAssumption DEF Isr, Workers
  <2> QED BY <1>1, <2>1, Zenon DEF Agents, TypeOK
<1>3. /\ pc'[Isr] = pc[Isr] /\ pc[i] = "wait" /\ pc'[i] = "check"
      /\ \A j \in Workers : j # i => pc'[j] = pc[j]
  BY <1>2, Zenon
<1>4. worker_sem[i] = 1
  BY <1>3, Zenon DEF FInv
<1>5. \A j \in Workers : worker_sem'[j] = IF j = i THEN 0 ELSE worker_sem[j]
  BY <1>2, <1>4
<1>6. TypeOK'
  <2>1. pc' \in [Agents -> PCs]
    BY <1>1, <1>2, Zenon
  <2>2. worker_sem' \in [Workers -> 0..1]
    BY <1>2, <1>5
  <2> QED BY <1>1, <2>1, <2>2, Zenon DEF TypeOK
<1>7. \A j \in Workers : Submitted(j)' <=> Submitted(j)
  BY <1>3, Zenon DEF Submitted
<1>8. HaveFaked' = HaveFaked
  BY <1>7, Zenon DEF HaveFaked
<1>9. DeviceIdle'
  BY <1>3, Zenon DEF FInv, DeviceIdle
<1>10. \A j \in Workers : /\ pc'[j] \in WorkerPCs \ {"register"}
                          /\ worker_sem'[j] = IF pc'[j] = "wait" THEN 1 ELSE 0
                          /\ Submitted(j)' => dst'[j]
  <2>1. TAKE j \in Workers
  <2>2. CASE j = i
    BY <1>1, <1>3, <1>5, <1>7, <2>2, Zenon DEF FInv
  <2>3. CASE j # i
    BY <1>3, <1>5, <1>7, <2>3, Zenon DEF FInv
  <2> QED BY <2>2, <2>3, Zenon
<1> QED BY <1>6, <1>8, <1>9, <1>10, Zenon DEF FInv

(* The steps that only move a worker and take or release accel_lock. *)
LEMMA FakeQuiet ==
    ASSUME FInv, NEW i \in Workers,
           \/ SubmitLock(i) \/ Check(i) \/ PollLoop(i)
           \/ DispatchLock(i) \/ accel_drain_completions_multi(i) \/ DispatchUnlock(i)
    PROVE  FInv'
<1> USE DEF Goto, workerVars, fakeVars, driverVars, deviceVars
<1>1. /\ TypeOK /\ i # Isr /\ i \in Agents /\ pc \in [Agents -> PCs] /\ NoAgent \notin Agents
      /\ worker_loops_seen \in [Workers -> BOOLEAN]
  <2>1. Isr \notin Workers /\ NoAgent \notin Agents
    BY WorkerAssumption DEF Isr, Workers, NoAgent, Agents
  <2> QED BY <2>1, Zenon DEF Agents, FInv, TypeOK
<1>2. comps = <<>> /\ drained = 0 /\ DeviceIdle
  BY Zenon DEF FInv
<1>3. ASSUME NEW q \in WorkerPCs \ {"register", "wait"}, pc' = [pc EXCEPT ![i] = q],
             pc[i] # "wait",
             \/ {pc[i], q} \subseteq {"lock", "submit"}
             \/ {pc[i], q} \subseteq {"check", "loop", "done", "disp_lock", "drain", "match"},
             comps' = <<>>, drained' = 0, accel_lock' \in Agents \cup {NoAgent},
             worker_loops_seen' \in [Workers -> BOOLEAN],
             UNCHANGED <<cmd_id, worker_sem, fakeVars, pending, sq_ring, sq_tail_local,
                         cq_head_local, deviceVars>>
      PROVE  FInv'
  <2>1. pc' \in [Agents -> PCs] /\ pc'[i] = q
    BY <1>1, <1>3, Zenon DEF WorkerPCs, PCs
  <2>2. comps' \in Seq(Result) /\ drained' \in 0..NUM_WORKERS
    BY <1>3, WorkerAssumption
  <2>3. TypeOK'
    BY <1>1, <1>3, <2>1, <2>2, Zenon DEF TypeOK
  <2>4. Submitted(i)' <=> Submitted(i)
    BY <1>3, <2>1, Zenon DEF Submitted
  <2> QED BY <1>3, <2>3, <2>4, FakeMoves, Zenon
<1>4. ASSUME NEW q, pc[i] # "wait",
             \/ pc[i] = "lock" /\ q = "submit"
             \/ /\ pc[i] \in {"check", "loop", "disp_lock", "drain", "match"}
                /\ q \in {"loop", "done", "disp_lock", "drain", "match"}
      PROVE  /\ q \in WorkerPCs \ {"register", "wait"}
             /\ \/ {pc[i], q} \subseteq {"lock", "submit"}
                \/ {pc[i], q} \subseteq {"check", "loop", "done", "disp_lock", "drain", "match"}
  BY <1>4, Zenon DEF WorkerPCs
<1>5. CASE SubmitLock(i)
  BY <1>1, <1>2, <1>3, <1>4, <1>5, Zenon DEF SubmitLock
<1>6. CASE Check(i)
  <2>1. worker_loops_seen' \in [Workers -> BOOLEAN]
    BY <1>1, <1>6, Zenon DEF Check
  <2>2. accel_lock \in Agents \cup {NoAgent}
    BY <1>1, Zenon DEF TypeOK
  <2> QED BY <1>2, <1>3, <1>4, <1>6, <2>1, <2>2, Zenon DEF Check
<1>7. CASE PollLoop(i)
  <2>1. PICK q \in {"done", "disp_lock"} : pc' = [pc EXCEPT ![i] = q]
    BY <1>7, Zenon DEF PollLoop
  <2>2. accel_lock \in Agents \cup {NoAgent}
    BY <1>1, Zenon DEF TypeOK
  <2> QED BY <1>1, <1>2, <1>3, <1>4, <1>7, <2>1, <2>2, Zenon DEF PollLoop
<1>8. CASE DispatchLock(i)
  BY <1>1, <1>3, <1>4, <1>8, Zenon DEF DispatchLock
<1>9. CASE accel_drain_completions_multi(i)
  <2>1. cq_tail = cq_head_local
    BY <1>2, Zenon DEF DeviceIdle
  <2>2. accel_lock \in Agents \cup {NoAgent}
    BY <1>1, Zenon DEF TypeOK
  <2> QED BY <1>1, <1>2, <1>3, <1>4, <1>9, <2>1, <2>2, Zenon DEF accel_drain_completions_multi
<1>10. CASE DispatchUnlock(i)
  BY <1>1, <1>2, <1>3, <1>4, <1>10, Zenon DEF DispatchUnlock
<1> QED BY <1>5, <1>6, <1>7, <1>8, <1>9, <1>10, Zenon

(* Every step of that build: the handler and the device have none. *)
LEMMA FakeStep == FInv /\ [Next]_vars => FInv'
<1> SUFFICES ASSUME FInv, [Next]_vars PROVE FInv'
  OBVIOUS
<1>1. ASSUME NEW i \in Workers, WorkerStep(i) PROVE FInv'
  <2>1. ~accel_submit_copy(i) /\ ~Register(i)
    BY Zenon DEF accel_submit_copy, Register, FInv
  <2> QED BY <1>1, <2>1, FakeStarts, FakeCopies, FakeWakes, FakeQuiet, Zenon DEF WorkerStep
<1>2. ASSUME NEW a \in Agents, Lock(a) \/ Dispatch(a) PROVE FInv'
  <2>1. ~MatchOne(a)
    BY Zenon DEF MatchOne, FInv
  <2>2. a \in Workers
    <3>1. ~DispatchLock(Isr) /\ ~accel_drain_completions_multi(Isr) /\ ~DispatchUnlock(Isr)
      BY Zenon DEF FInv, DeviceIdle, DispatchLock, accel_drain_completions_multi, DispatchUnlock
    <3> QED BY <1>2, <2>1, <3>1, Zenon DEF Lock, Dispatch, Agents
  <2> QED BY <1>2, <2>1, <2>2, FakeQuiet, Zenon DEF Lock, Dispatch
<1>3. ~TakeIrq /\ ~HandlerStep /\ ~Device
  BY Zenon DEF FInv, DeviceIdle, TakeIrq, LineAsserted, HandlerStep, accel_irq_status,
               accel_irq_ack, gic_eoi, Device, DevFetch, DevRaise
<1>4. ASSUME UNCHANGED vars PROVE FInv'
  BY <1>4, Zenon DEF FInv, TypeOK, DeviceIdle, HaveFaked, Submitted, vars, workerVars, fakeVars,
              driverVars, deviceVars
<1> QED BY <1>1, <1>2, <1>3, <1>4, Zenon DEF Next

-----------------------------------------------------------------------------
(* Which build it is never changes, and each has its invariant. *)
BuildInv == IF DISABLE_REAL_DMA THEN FInv ELSE DInv

(* The invariant of either build holds throughout. *)
LEMMA BuildInvariance ==
    /\ Init => BuildInv
    /\ BuildInv /\ [Next]_vars => BuildInv'
<1>1. FInv => DISABLE_REAL_DMA
  BY Zenon DEF FInv
<1>2. DInv => ~DISABLE_REAL_DMA
  BY Zenon DEF DInv, LockPart
<1>3. (FInv => DISABLE_REAL_DMA)' /\ (DInv => ~DISABLE_REAL_DMA)'
  BY Zenon DEF FInv, DInv, LockPart
<1> QED BY <1>1, <1>2, <1>3, DmaInit, DmaStep, FakeInit, FakeStep, Zenon DEF BuildInv

(* The types and ring indices of the DMA path, for any number of workers   *)
(* and any ring that holds a command of each, in both builds               *)
(* (worker_entry, dispatch_available_completions, accel.c).                *)
THEOREM DmaTypes == Spec => []TypeOK
<1>1. BuildInv => TypeOK
  BY Zenon DEF BuildInv, FInv, DInv
<1> QED BY <1>1, BuildInvariance, PTL DEF Spec

(* The control experiment DISABLE_REAL_DMA is one: nothing is submitted to *)
(* the device, and no interrupt is taken for it ("no real hardware DMA     *)
(* submitted at all", worker_entry).                                       *)
THEOREM ControlIsSilent == Spec => [](DISABLE_REAL_DMA => DeviceIdle)
<1>1. BuildInv => (DISABLE_REAL_DMA => DeviceIdle)
  BY Zenon DEF BuildInv, FInv
<1> QED BY <1>1, BuildInvariance, PTL DEF Spec

(* The invariant of the build with the device: commands, requests, the     *)
(* rings, what is handed out, and tokens.                                  *)
THEOREM DmaInvariance == Spec => [](~DISABLE_REAL_DMA => DInv)
<1>1. BuildInv => (~DISABLE_REAL_DMA => DInv)
  BY Zenon DEF BuildInv
<1> QED BY <1>1, BuildInvariance, PTL DEF Spec

(* No drained completion is dropped: pending[] has the request of every    *)
(* command the device can complete (worker_entry registers it under the    *)
(* lock it submits under); without the device there are none.              *)
THEOREM CompletionsSafe == Spec => []NoCompletionDropped
<1>1. FInv => NoCompletionDropped
  <2>1. comps = <<>> => \A j : j \notin 1..Len(comps)
    OBVIOUS
  <2> QED BY <2>1, Zenon DEF FInv, NoCompletionDropped
<1>2. BuildInv => NoCompletionDropped
  BY <1>1, DroppedNone, Zenon DEF BuildInv
<1> QED BY <1>2, BuildInvariance, PTL DEF Spec

(* Every completed command posts its worker's semaphore exactly once, with *)
(* the handler and all workers dispatching (dispatch_available_completions)*)
THEOREM PostsSafe == Spec => []PostedOnce
<1>1. BuildInv => PostedOnce
  BY PostsOnce, Zenon DEF BuildInv, PostedOnce
<1> QED BY <1>1, BuildInvariance, PTL DEF Spec

(* A worker that is through sem_wait finds its own command's result, and   *)
(* its data in place if the device reports success (worker_entry).         *)
THEOREM ResultsSafe == Spec => []RightResult
<1>1. BuildInv => RightResult
  BY ResultRight, Zenon DEF BuildInv, RightResult
<1> QED BY <1>1, BuildInvariance, PTL DEF Spec

(* Until a command fails no completion is left in the ring with no         *)
(* interrupt and no dispatcher to come (irq_handler acknowledges before it *)
(* drains), in both builds.                                                *)
THEOREM NothingStranded == Spec => []NoStrandedCompletion
<1>1. Init => NoStrandedCompletion
  BY Zenon DEF Init, NoStrandedCompletion
<1>2. FInv => NoStrandedCompletion
  BY Zenon DEF FInv, DeviceIdle, NoStrandedCompletion
<1>3. BuildInv /\ BuildInv' /\ NoStrandedCompletion /\ [Next]_vars => NoStrandedCompletion'
  <2>1. (FInv => NoStrandedCompletion)'
    BY Zenon DEF FInv, DeviceIdle, NoStrandedCompletion
  <2>2. DInv /\ [Next]_vars => DInv'
    BY DmaStep, Zenon
  <2>3. FInv /\ [Next]_vars => FInv'
    BY FakeStep, Zenon
  <2> QED BY <2>1, <2>2, <2>3, StrandedStep, Zenon DEF BuildInv
<1> QED BY <1>1, <1>3, BuildInvariance, PTL DEF Spec
=============================================================================
