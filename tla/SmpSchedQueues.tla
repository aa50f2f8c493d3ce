--------------------------- MODULE SmpSchedQueues ---------------------------
(***************************************************************************)
(* The run queues, in every build: what the scheduling policies and a      *)
(* migration return, and the proof that each task stays in exactly one     *)
(* queue, that of its home CPU, whatever else the balancer's race has      *)
(* already corrupted.  QueueInv is the inductive invariant; a step outside *)
(* the balancing pass leaves the queues alone (ApartStep), and the pass    *)
(* itself, which only CPU 0 runs, is followed step by step.                *)
(***************************************************************************)
EXTENDS SmpSchedInv, WellFoundedInduction, FiniteSetTheorems, TLAPS

-----------------------------------------------------------------------------
(* What the scheduling policies and a migration return, for every run queue.*)

(* A nonempty set of naturals contains its Min. *)
LEMMA MinIn ==
    ASSUME NEW S \in SUBSET Nat, S # {}
    PROVE  Min(S) \in S /\ \A y \in S : Min(S) <= y
<1>1. \E x \in S : \A y \in S : x <= y
  <2>1. \E x \in S : \A y \in S : ~ (<<y, x>> \in OpToRel(<, Nat))
    BY NatLessThanWellFounded, WFMin, Zenon
  <2>2. \A x, y \in Nat : x < y => <<x, y>> \in OpToRel(<, Nat)
    BY Zenon DEF OpToRel
  <2>3. \E x \in S : \A y \in S : ~ (y < x)
    BY <2>1, <2>2, Zenon
  <2> QED BY <2>3
<1> QED BY <1>1, Zenon DEF Min

(* The scan of a nonempty queue stays inside it. *)
LEMMA ScanInQueue ==
    ASSUME NEW T, NEW q \in Seq(T), q # <<>>, NEW idx \in Nat, NEW i \in Nat
    PROVE  /\ ScanIdx(q, idx, i) \in 0..(Len(q) - 1)
           /\ ScanTask(q, idx, i) \in QueueTasks(q)
<1>1. Len(q) \in Nat \ {0}
  OBVIOUS
<1>2. ScanIdx(q, idx, i) \in 0..(Len(q) - 1)
  BY <1>1 DEF ScanIdx
<1> QED BY <1>1, <1>2 DEF ScanTask, QueueTasks

(* Nobody runnable: current_idx still points into the queue. *)
LEMMA StayResult ==
    ASSUME NEW T, NEW q \in Seq(T), NEW idx \in 0..(Len(q) - 1), NEW cur
    PROVE  /\ StayOnCurrent(q, idx, cur).task = cur
           /\ StayOnCurrent(q, idx, cur).idx \in 0..(Len(q) - 1)
<1> DEFINE at == {i \in 1..Len(q) : q[i] = cur}
<1>1. at # {} => Min(at) \in 1..Len(q)
  <2>1. at \in SUBSET Nat /\ at \subseteq 1..Len(q)
    OBVIOUS
  <2> HIDE DEF at
  <2>2. at # {} => Min(at) \in at
    BY <2>1, MinIn, Zenon
  <2> QED BY <2>1, <2>2, Zenon
<1>2. Min(at) \in 1..Len(q) => Min(at) - 1 \in 0..(Len(q) - 1)
  OBVIOUS
<1> QED BY <1>1, <1>2, Zenon DEF StayOnCurrent

(* Whatever the loads are, what is picked is current or a READY task of    *)
(* the queue, and current_idx stays inside the queue.                      *)
LEMMA PickInQueue ==
    ASSUME NEW T, NEW q \in Seq(T), NEW idx \in 0..(Len(q) - 1),
           NEW st, NEW ld, NEW cur, NEW policy
    PROVE  LET r == select_next(policy, q, idx, st, ld, cur)
           IN  /\ r.task = cur \/ (r.task \in QueueTasks(q) /\ st[r.task] = READY)
               /\ r.idx \in 0..(Len(q) - 1)
<1> DEFINE Good(S) ==
      LET r == IF S = {} THEN StayOnCurrent(q, idx, cur)
               ELSE [task |-> ScanTask(q, idx, Min(S)), idx |-> ScanIdx(q, idx, Min(S))]
      IN  /\ r.task = cur \/ (r.task \in QueueTasks(q) /\ st[r.task] = READY)
          /\ r.idx \in 0..(Len(q) - 1)
<1>1. ASSUME NEW S \in SUBSET ReadyScan(q, idx, st)
      PROVE  Good(S)
  <2>1. CASE S = {}
    BY <2>1, StayResult, Zenon
  <2>2. CASE S # {}
    <3>1. S \subseteq 1..Len(q) /\ Len(q) \in Nat
      BY DEF ReadyScan
    <3>2. Min(S) \in S /\ Min(S) \in Nat
      <4>1. S \in SUBSET Nat
        BY <3>1
      <4>2. Min(S) \in S
        BY <2>2, <4>1, MinIn, Zenon
      <4> QED BY <4>1, <4>2, Zenon
    <3>3. st[ScanTask(q, idx, Min(S))] = READY
      BY <3>2, Zenon DEF ReadyScan
    <3>4. idx \in Nat /\ q # <<>>
      BY <3>1
    <3>5. /\ ScanIdx(q, idx, Min(S)) \in 0..(Len(q) - 1)
          /\ ScanTask(q, idx, Min(S)) \in QueueTasks(q)
      BY <3>2, <3>4, ScanInQueue, Zenon
    <3> QED BY <2>2, <3>3, <3>5, Zenon
  <2> QED BY <2>1, <2>2, Zenon
<1>2. Good(ReadyScan(q, idx, st)) /\ Good(LightestScan(q, idx, st, ld))
  BY <1>1, Zenon DEF LightestScan
<1> QED BY <1>2, Zenon DEF select_next, roundrobin_select_next, load_aware_select_next

(* A remainder of a number below 2n. *)
LEMMA WrapOnce ==
    ASSUME NEW n \in Nat \ {0}, NEW a \in 0..(n - 1)
    PROVE  a % n = a /\ (a + n) % n = a
<1>1. /\ a = n * (a \div n) + (a % n) /\ a % n \in 0..(n - 1) /\ a \div n \in Int
      /\ a + n = n * ((a + n) \div n) + ((a + n) % n) /\ (a + n) % n \in 0..(n - 1)
      /\ (a + n) \div n \in Int
  OBVIOUS
<1>2. ASSUME NEW d \in Int, NEW r \in 0..(n - 1), NEW e \in 0..1, a + e * n = n * d + r
      PROVE  r = a
  <2>1. n * (d - e) = a - r
    BY <1>2
  <2>2. d - e = 0
    <3>1. d - e >= 1 => n * (d - e) >= n
      BY <1>2
    <3>2. d - e <= -1 => n * (d - e) <= -n
      BY <1>2
    <3> QED BY <1>2, <2>1, <3>1, <3>2
  <2> QED BY <1>2, <2>1, <2>2
<1> QED BY <1>1, <1>2

(* The scan visits every task of the queue. *)
LEMMA ScanCovers ==
    ASSUME NEW T, NEW q \in Seq(T), NEW idx \in 0..(Len(q) - 1), NEW t \in QueueTasks(q)
    PROVE  \E i \in 1..Len(q) : ScanTask(q, idx, i) = t
<1> DEFINE n == Len(q)
<1>1. PICK j \in 1..n : q[j] = t
  BY Zenon DEF QueueTasks
<1>2. n \in Nat \ {0} /\ j - 1 \in 0..(n - 1) /\ (j - 1) + 1 = j
  BY <1>1
<1>3. (j - 1) % n = j - 1 /\ ((j - 1) + n) % n = j - 1
  BY <1>2, WrapOnce
<1>4. CASE idx < j - 1
  <2>1. j - 1 - idx \in 1..n /\ idx + (j - 1 - idx) = j - 1
    BY <1>2, <1>4
  <2> QED BY <1>1, <1>2, <1>3, <2>1, Zenon DEF ScanTask, ScanIdx
<1>5. CASE ~ (idx < j - 1)
  <2>1. (j - 1) + n - idx \in 1..n /\ idx + ((j - 1) + n - idx) = (j - 1) + n
    BY <1>2, <1>5
  <2> QED BY <1>1, <1>2, <1>3, <2>1, Zenon DEF ScanTask, ScanIdx
<1> QED BY <1>4, <1>5, Zenon

(* Both policies hand the CPU to a READY task of the queue whenever there  *)
(* is one, load_aware to one of least load, and current_idx then names it; *)
(* the CPU stays with current only if no task of the queue is READY        *)
(* (roundrobin_select_next, load_aware_select_next).                       *)
THEOREM SelectNextResult ==
    ASSUME NEW T, NEW q \in Seq(T), NEW idx \in 0..(Len(q) - 1),
           NEW st, NEW ld \in [T -> Nat], NEW cur, NEW policy
    PROVE  LET r == select_next(policy, q, idx, st, ld, cur)
               ready == {t \in QueueTasks(q) : st[t] = READY}
           IN  /\ r.idx \in 0..(Len(q) - 1)
               /\ IF ready = {}
                  THEN r.task = cur
                  ELSE r.task \in ready /\ q[r.idx + 1] = r.task
               /\ policy = "load_aware" => \A t \in ready : ld[r.task] <= ld[t]
<1> DEFINE r == select_next(policy, q, idx, st, ld, cur)
           ready == {t \in QueueTasks(q) : st[t] = READY}
           S == ReadyScan(q, idx, st)
           L == LightestScan(q, idx, st, ld)
           At(i) == [task |-> ScanTask(q, idx, i), idx |-> ScanIdx(q, idx, i)]
<1>1. r.idx \in 0..(Len(q) - 1)
  BY PickInQueue, Zenon
<1>2. /\ S \in SUBSET Nat /\ L \subseteq S /\ Len(q) \in Nat
      /\ idx \in Nat /\ q # <<>>
  BY DEF ReadyScan, LightestScan
<1>3. ASSUME NEW t \in ready PROVE \E i \in S : ScanTask(q, idx, i) = t
  <2>1. t \in QueueTasks(q) /\ st[t] = READY
    BY <1>3, Zenon
  <2>2. PICK i \in 1..Len(q) : ScanTask(q, idx, i) = t
    BY <2>1, ScanCovers, Zenon
  <2>3. i \in S
    BY <2>1, <2>2, Zenon DEF ReadyScan
  <2> QED BY <2>2, <2>3, Zenon
<1>4. ASSUME NEW i \in S PROVE ScanTask(q, idx, i) \in ready
  <2>1. i \in Nat
    BY <1>2, <1>4, Zenon
  <2> QED BY <1>2, <1>4, <2>1, ScanInQueue, Zenon DEF ReadyScan
<1>5. S # {} => L # {}
  <2> SUFFICES ASSUME S # {} PROVE L # {}
    OBVIOUS
  <2> DEFINE loads == {ld[ScanTask(q, idx, i)] : i \in S}
  <2>1. \A i \in S : ld[ScanTask(q, idx, i)] \in Nat
    <3>1. QueueTasks(q) \subseteq T
      BY DEF QueueTasks
    <3> QED BY <1>4, <3>1, Zenon
  <2>2. PICK m \in loads : \A y \in loads : m <= y
    <3>1. loads \in SUBSET Nat /\ loads # {}
      BY <2>1, Zenon
    <3> HIDE DEF loads
    <3> QED BY <3>1, MinIn, Zenon
  <2>3. PICK i \in S : m = ld[ScanTask(q, idx, i)]
    BY <2>2, Zenon
  <2> QED BY <2>2, <2>3, Zenon DEF LightestScan
<1>6. ASSUME NEW M \in SUBSET S, M # {}
      PROVE  /\ Min(M) \in M /\ At(Min(M)).task \in ready
             /\ q[At(Min(M)).idx + 1] = At(Min(M)).task
  <2>1. Min(M) \in M
    <3>1. M \in SUBSET Nat
      BY <1>2, Zenon
    <3> QED BY <1>6, <3>1, MinIn, Zenon
  <2> QED BY <1>4, <2>1, Zenon DEF ScanTask
<1>7. CASE ready = {}
  <2>1. S = {} /\ L = {}
    BY <1>2, <1>4, <1>7, Zenon
  <2>2. r = StayOnCurrent(q, idx, cur)
    BY <2>1, Zenon DEF select_next, roundrobin_select_next, load_aware_select_next
  <2>3. r.task = cur
    BY <2>2, StayResult, Zenon
  <2> QED BY <1>1, <1>7, <2>3
<1>8. CASE ready # {}
  <2>1. S # {} /\ L # {}
    BY <1>3, <1>5, <1>8, Zenon
  <2>2. CASE policy = "load_aware"
    <3>1. r = At(Min(L))
      BY <2>1, <2>2, Zenon DEF select_next, load_aware_select_next
    <3>2. /\ Min(L) \in L /\ At(Min(L)).task \in ready
          /\ q[At(Min(L)).idx + 1] = At(Min(L)).task
      BY <1>2, <1>6, <2>1, Zenon
    <3>3. ASSUME NEW t \in ready PROVE ld[At(Min(L)).task] <= ld[t]
      BY <1>3, <3>2, <3>3, Zenon DEF LightestScan
    <3> QED BY <1>1, <1>8, <3>1, <3>2, <3>3, Zenon
  <2>3. CASE policy # "load_aware"
    <3>1. r = At(Min(S))
      BY <2>1, <2>3, Zenon DEF select_next, roundrobin_select_next
    <3> QED BY <1>1, <1>6, <1>8, <2>1, <2>3, <3>1, Zenon
  <2> QED BY <2>2, <2>3, Zenon
<1> QED BY <1>7, <1>8, Zenon

(* No task is twice in q. *)
OnceEach(q) == \A i, j \in 1..Len(q) : q[i] = q[j] => i = j

(* The queue a task is taken from keeps all the others, each once          *)
(* (src->tasks[idx] = src->tasks[--src->num_tasks]).                       *)
LEMMA MigrateSourceResult ==
    ASSUME NEW T, NEW q \in Seq(T), OnceEach(q), NEW t \in QueueTasks(q)
    PROVE  /\ MigrateSource(q, t) \in Seq(T)
           /\ Len(MigrateSource(q, t)) = Len(q) - 1
           /\ OnceEach(MigrateSource(q, t))
           /\ QueueTasks(MigrateSource(q, t)) = QueueTasks(q) \ {t}
<1> DEFINE at == {i \in 1..Len(q) : q[i] = t}
           k == Min(at)
           n == Len(q)
           r == [i \in 1..(n - 1) |-> IF i = k THEN q[n] ELSE q[i]]
<1>1. k \in 1..n /\ q[k] = t
  <2>1. at \in SUBSET Nat /\ at # {}
    BY DEF QueueTasks
  <2>2. k \in at
    <3> HIDE DEF at
    <3> QED BY <2>1, MinIn, Zenon
  <2> QED BY <2>2, Zenon
<1>2. MigrateSource(q, t) = r
  BY Zenon DEF MigrateSource
<1> HIDE DEF k, at
<1>3. n \in Nat \ {0} /\ \A i \in 1..n : q[i] \in T
  BY <1>1
<1>4. r \in Seq(T) /\ Len(r) = n - 1
  <2>1. \A i \in 1..(n - 1) : (IF i = k THEN q[n] ELSE q[i]) \in T
    BY <1>3
  <2>2. n - 1 \in Nat
    BY <1>3
  <2> QED BY <2>1, <2>2
<1>5. \A i \in 1..(n - 1) : r[i] = IF i = k THEN q[n] ELSE q[i]
  OBVIOUS
<1>6. OnceEach(r)
  <2> SUFFICES ASSUME NEW i \in 1..(n - 1), NEW j \in 1..(n - 1), r[i] = r[j]
               PROVE  i = j
    BY <1>4, Zenon DEF OnceEach
  <2> QED BY <1>1, <1>3, <1>5 DEF OnceEach
<1>7. QueueTasks(r) = QueueTasks(q) \ {t}
  <2>1. ASSUME NEW i \in 1..(n - 1) PROVE r[i] \in QueueTasks(q) \ {t}
    <3>1. PICK j \in 1..n : r[i] = q[j] /\ j # k
      BY <1>1, <1>3, <1>5
    <3> QED BY <1>1, <3>1, Zenon DEF OnceEach, QueueTasks
  <2>2. ASSUME NEW i \in 1..n, q[i] # t PROVE q[i] \in QueueTasks(r)
    <3>1. CASE i # n
      <4>1. i \in 1..(n - 1) /\ r[i] = q[i]
        BY <1>1, <1>3, <1>5, <2>2, <3>1
      <4> QED BY <1>4, <4>1, Zenon DEF QueueTasks
    <3>2. CASE i = n
      <4>1. k \in 1..(n - 1) /\ r[k] = q[i]
        BY <1>1, <1>3, <1>5, <2>2, <3>2
      <4> QED BY <1>4, <4>1, Zenon DEF QueueTasks
    <3> QED BY <3>1, <3>2, Zenon
  <2>3. QueueTasks(r) \subseteq QueueTasks(q) \ {t}
    BY <1>4, <2>1, Zenon DEF QueueTasks
  <2>4. QueueTasks(q) \ {t} \subseteq QueueTasks(r)
    BY <2>2, Zenon DEF QueueTasks
  <2> QED BY <2>3, <2>4, Zenon
<1> QED BY <1>2, <1>4, <1>6, <1>7, Zenon

(* The queue it is put into gains it, at the end. *)
LEMMA MigrateDestResult ==
    ASSUME NEW T, NEW q \in Seq(T), OnceEach(q), NEW t \in T, t \notin QueueTasks(q)
    PROVE  /\ MigrateDest(q, t) \in Seq(T)
           /\ Len(MigrateDest(q, t)) = Len(q) + 1
           /\ OnceEach(MigrateDest(q, t))
           /\ QueueTasks(MigrateDest(q, t)) = QueueTasks(q) \cup {t}
<1> DEFINE r == Append(q, t)
<1>1. Len(q) \in Nat /\ r \in Seq(T) /\ Len(r) = Len(q) + 1
  OBVIOUS
<1>2. r[Len(q) + 1] = t /\ \A i \in 1..Len(q) : r[i] = q[i]
  OBVIOUS
<1> HIDE DEF r
<1>3. OnceEach(r)
  <2> SUFFICES ASSUME NEW i \in 1..(Len(q) + 1), NEW j \in 1..(Len(q) + 1), r[i] = r[j]
               PROVE  i = j
    BY <1>1, Zenon DEF OnceEach
  <2> QED BY <1>1, <1>2 DEF OnceEach, QueueTasks
<1>4. QueueTasks(r) = QueueTasks(q) \cup {t}
  BY <1>1, <1>2 DEF QueueTasks
<1> QED BY <1>1, <1>3, <1>4, Zenon DEF MigrateDest, r

-----------------------------------------------------------------------------
(* Steps outside the balancing pass.                                       *)

USE CpuAssumption, NullAssumption

(* A step of CPU c outside the balancing pass: what other CPUs do and what *)
(* CPU 0 knows of the queues stays.                                        *)
Apart(c) ==
    /\ UNCHANGED <<tasks, home, lb>>
    /\ pc'[c] \notin LbPCs \ {"lb"}
    /\ \A d \in CPU \ {c} : /\ pc'[d] = pc[d] /\ daif'[d] = daif[d] /\ active'[d] = active[d]
                            /\ site'[d] = site[d] /\ next'[d] = next[d]

(* The boot CPU, whose timer runs the balancer, is one of the CPUs. *)
LEMMA Cpu0 == 0 \in CPU
BY DEF CPU

(* A jump of CPU c leaves the program counters of the others alone. *)
LEMMA GoesTo ==
    ASSUME pc \in [CPU -> PCs], NEW c \in CPU, NEW l \in PCs, Goto(c, l)
    PROVE  /\ pc' \in [CPU -> PCs] /\ pc'[c] = l
           /\ \A d \in CPU \ {c} : pc'[d] = pc[d]
BY Zenon DEF Goto

(* The program points the steps below lead to. *)
LEMMA Labels ==
    /\ {"user", "wait", "pick_lock", "pick_cs", "picked", "eoi", "eret"} \subseteq PCs
    /\ {"wait_lock", "wait_cs", "post_lock", "post_cs", "wake_lock", "wake_cs", "post_unlock",
        "disp_lock", "disp_cs"} \subseteq PCs
    /\ {"user", "wait", "eret"} \subseteq OpenPCs /\ "restore" \notin {"user", "wait", "eret"}
BY Zenon DEF PCs, OpenPCs

(* A step outside the pass keeps the queues in order when it keeps         *)
(* current_idx inside its queue and the types.                             *)
LEMMA ApartStep ==
    ASSUME QueueInv, NEW c \in CPU, Apart(c), QueueTypes', TickAt(c)',
           \A d \in CPU : current_idx'[d] < Len(tasks[d])
    PROVE  QueueInv'
<1>1. Queued'
  BY Zenon DEF QueueInv, Queued, Apart
<1>2. Balancing'
  <2>1. pc'[0] = pc[0] \/ pc'[0] \notin LbPCs \ {"lb"}
    BY Cpu0, Zenon DEF Apart
  <2>2. CASE pc'[0] = pc[0]
    BY <2>2, Zenon DEF QueueInv, Balancing, Apart
  <2>3. CASE pc'[0] \notin LbPCs \ {"lb"}
    BY <2>3, Zenon DEF Balancing, LbPCs
  <2> QED BY <2>1, <2>2, <2>3, Zenon
<1>3. ASSUME NEW d \in CPU PROVE TickAt(d)'
  <2>1. CASE d = c
    BY <2>1, Zenon
  <2>2. CASE d # c
    <3>1. TickAt(d)
      BY Zenon DEF QueueInv
    <3>2. /\ pc'[d] = pc[d] /\ daif'[d] = daif[d] /\ active'[d] = active[d]
          /\ site'[d] = site[d] /\ next'[d] = next[d]
      BY <2>2, Zenon DEF Apart
    <3> QED BY <3>1, <3>2, Zenon DEF TickAt
  <2> QED BY <2>1, <2>2, Zenon
<1> QED BY <1>1, <1>2, <1>3, Zenon DEF QueueInv

(* Most steps leave current_idx alone as well. *)
LEMMA Elsewhere ==
    ASSUME QueueInv, NEW c \in CPU, Apart(c), QueueTypes', TickAt(c)', UNCHANGED current_idx
    PROVE  QueueInv'
BY ApartStep, Zenon DEF QueueInv, Queued

(* Locks taken and work done under them: IRQs stay masked. *)
LEMMA MaskedStep ==
    ASSUME QueueInv, NEW c \in CPU,
           \/ PickLock(c) \/ SemWaitLock(c) \/ SemPostLock(c) \/ WakeLock(c) \/ DispatchLock(c)
           \/ PostCount(c) \/ PostWaiter(c) \/ sched_wake(c)
           \/ \E s \in DmaSems : DispatchPost(c, s)
    PROVE  QueueInv'
<1>1. QueueTypes /\ TickAt(c)
  BY Zenon DEF QueueInv
<1>2. /\ UNCHANGED <<tasks, current_idx, home, lb, run, curr, sp, next, active, ipc, daif,
                     flags, site>>
      /\ pc' = [pc EXCEPT ![c] = pc'[c]]
      /\ \/ pc[c] = "pick_lock" /\ pc'[c] = "pick_cs"
         \/ /\ pc[c] \in {"wait_lock", "post_lock", "post_cs", "wake_lock", "wake_cs", "disp_lock",
                          "disp_cs"}
            /\ pc'[c] \in {"wait_cs", "post_lock", "post_cs", "wake_lock", "wake_cs",
                           "post_unlock", "disp_cs"}
  <2>1. pc \in [CPU -> PCs]
    BY <1>1, Zenon DEF QueueTypes
  <2>2. UNCHANGED <<tasks, current_idx, home, lb, run, curr, sp, next, active, ipc, daif,
                    flags, site>>
    BY Zenon DEF PickLock, SemWaitLock, SemPostLock, WakeLock, DispatchLock, PostCount,
         PostWaiter, sched_wake, DispatchPost, schedVars, switchVars, semVars, irqVars, maskVars
  <2>3. \/ pc[c] = "pick_lock" /\ Goto(c, "pick_cs")
        \/ /\ pc[c] \in {"wait_lock", "post_lock", "post_cs", "wake_lock", "wake_cs", "disp_lock",
                         "disp_cs"}
           /\ \E l \in {"wait_cs", "post_lock", "post_cs", "wake_lock", "wake_cs", "post_unlock",
                        "disp_cs"} : Goto(c, l)
    BY Zenon DEF PickLock, SemWaitLock, SemPostLock, WakeLock, DispatchLock, PostCount,
         PostWaiter, sched_wake, DispatchPost
  <2>4. ASSUME NEW l, Goto(c, l) PROVE pc' = [pc EXCEPT ![c] = pc'[c]] /\ pc'[c] = l
    BY <2>1, <2>4, Zenon DEF Goto
  <2> QED BY <2>2, <2>3, <2>4, Zenon
<1>3. QueueTypes'
  <2>1. pc' \in [CPU -> PCs]
    <3>1. pc'[c] \in PCs
      BY <1>2, Labels, Zenon
    <3> QED BY <1>1, <1>2, <3>1, Zenon DEF QueueTypes
  <2> QED BY <1>1, <1>2, <2>1, Zenon DEF QueueTypes
<1>4. Apart(c)
  BY <1>1, <1>2, Zenon DEF Apart, QueueTypes, LbPCs
<1>5. TickAt(c)'
  BY <1>1, <1>2, Zenon DEF TickAt, PickPCs, LbPCs, OpenPCs
<1> QED BY <1>2, <1>3, <1>4, <1>5, Elsewhere, Zenon

(* What the types say at the CPU that makes the step. *)
TypesAt(c) ==
    /\ pc \in [CPU -> PCs] /\ daif \in [CPU -> {"open", "masked"}]
    /\ active \in [CPU -> {"none", "timer", "dma"}] /\ site \in [CPU -> Sites \cup {"none"}]
    /\ flags \in [Task -> {"open", "masked"}] /\ ipc \in [Task -> OpenPCs]
    /\ run[c] \in Task /\ daif[c] \in {"open", "masked"} /\ flags[run[c]] \in {"open", "masked"}
    /\ active[c] \in {"none", "timer", "dma"} /\ ipc[run[c]] \in OpenPCs

(* The invariant at the CPU that makes the step. *)
LEMMA QueueHere ==
    ASSUME QueueInv, NEW c \in CPU
    PROVE  QueueTypes /\ TickAt(c) /\ TypesAt(c)
<1>1. QueueTypes /\ TickAt(c)
  BY Zenon DEF QueueInv
<1>2. run[c] \in Task
  BY <1>1, Zenon DEF QueueTypes
<1> QED BY <1>1, <1>2, Zenon DEF QueueTypes, TypesAt

(* Kernel calls begin by masking IRQs; sem_wait goes on to pick. *)
LEMMA CallStep ==
    ASSUME QueueInv, NEW c \in CPU,
           \/ yield(c) \/ PollCompletions(c) \/ SemBlock(c)
           \/ \E s \in Sem : sem_wait(c, s) \/ sem_post(c, s)
    PROVE  QueueInv'
<1>1. QueueTypes /\ TickAt(c) /\ TypesAt(c)
  BY QueueHere, Zenon
<1>2. /\ UNCHANGED <<tasks, current_idx, home, lb, run, curr, sp, next, active, ipc>>
      /\ pc[c] \in {"user", "wait_cs"}
  BY Zenon DEF yield, PollCompletions, SemBlock, sem_wait, sem_post, schedVars, switchVars,
       semVars, irqVars
<1>3. \/ CallPick(c, "yield") \/ CallPick(c, "sem_wait")
      \/ site' = site /\ \E l \in {"wait_lock", "post_lock", "disp_lock"} : Goto(c, l)
  BY Zenon DEF yield, PollCompletions, SemBlock, sem_wait, sem_post
<1>4. /\ pc' \in [CPU -> PCs] /\ site' \in [CPU -> Sites \cup {"none"}]
      /\ \A d \in CPU \ {c} : pc'[d] = pc[d] /\ site'[d] = site[d]
      /\ \/ pc'[c] = "pick_lock" /\ site'[c] \in {"yield", "sem_wait"}
         \/ pc'[c] \in {"wait_lock", "post_lock", "disp_lock"} /\ site'[c] = site[c]
  <2>1. CASE CallPick(c, "yield") \/ CallPick(c, "sem_wait")
    <3>0. site \in [CPU -> Sites \cup {"none"}] /\ {"yield", "sem_wait"} \subseteq Sites
      BY <1>1, Zenon DEF TypesAt, Sites
    <3>1. /\ Goto(c, "pick_lock") /\ "pick_lock" \in PCs
          /\ \E f \in {"yield", "sem_wait"} : site' = [site EXCEPT ![c] = f]
      BY <2>1, Labels, Zenon DEF CallPick
    <3>2. site' \in [CPU -> Sites \cup {"none"}] /\ site'[c] \in {"yield", "sem_wait"}
      BY <3>0, <3>1, Zenon
    <3>3. \A d \in CPU \ {c} : site'[d] = site[d]
      BY <1>1, <3>1, Zenon DEF TypesAt
    <3> QED BY <1>1, <3>1, <3>2, <3>3, GoesTo, Zenon DEF TypesAt
  <2>2. CASE site' = site /\ \E l \in {"wait_lock", "post_lock", "disp_lock"} : Goto(c, l)
    <3>1. PICK l \in {"wait_lock", "post_lock", "disp_lock"} : Goto(c, l)
      BY <2>2, Zenon
    <3>2. l \in PCs
      BY <3>1, Zenon DEF PCs
    <3> QED BY <1>1, <2>2, <3>1, <3>2, Zenon DEF TypesAt, Goto
  <2> QED BY <1>3, <2>1, <2>2, Zenon
<1>5. irq_disable_save(c) \/ (UNCHANGED <<daif, flags>> /\ pc[c] = "wait_cs")
  BY Zenon DEF yield, PollCompletions, SemBlock, sem_wait, sem_post, maskVars
<1>6. /\ flags' \in [Task -> {"open", "masked"}] /\ daif' \in [CPU -> {"open", "masked"}]
      /\ daif'[c] = "masked" /\ \A d \in CPU \ {c} : daif'[d] = daif[d]
  <2>1. CASE irq_disable_save(c)
    BY <1>1, <2>1, Zenon DEF TypesAt, irq_disable_save
  <2>2. CASE UNCHANGED <<daif, flags>> /\ pc[c] = "wait_cs"
    BY <1>1, <2>2, Zenon DEF TypesAt, TickAt, OpenPCs
  <2> QED BY <1>5, <2>1, <2>2, Zenon
<1>7. QueueTypes'
  BY <1>1, <1>2, <1>4, <1>6, Zenon DEF QueueTypes
<1>8. Apart(c)
  BY <1>2, <1>4, <1>6, Zenon DEF Apart, LbPCs
<1>9. TickAt(c)'
  BY <1>1, <1>2, <1>4, <1>6, Zenon DEF TickAt, PickPCs, LbPCs, OpenPCs, Sites
<1> QED BY <1>2, <1>7, <1>8, <1>9, Elsewhere, Zenon

(* Leaving a kernel call: IRQs are as they were before it, or, after the   *)
(* race, as another user of the same stack had them.                       *)
LEMMA ReturnStep ==
    ASSUME QueueInv, NEW c \in CPU,
           Restore(c) \/ SemTake(c) \/ WaitLoop(c) \/ SemPostUnlock(c) \/ DispatchDone(c)
    PROVE  QueueInv'
<1>1. QueueTypes /\ TickAt(c) /\ TypesAt(c)
  BY QueueHere, Zenon
<1>2. /\ UNCHANGED <<tasks, current_idx, home, lb, run, curr, sp, next, active, ipc, site>>
      /\ pc[c] \in {"restore", "wait_cs", "wait", "post_unlock", "disp_cs"}
  BY Zenon DEF Restore, SemTake, WaitLoop, SemPostUnlock, DispatchDone, schedVars,
       switchVars,
       semVars, irqVars
<1>3. \/ Goto(c, "user")
      \/ Goto(c, "eoi") /\ active[c] = "dma"
      \/ Goto(c, "disp_cs") /\ UNCHANGED <<daif, flags>> /\ pc[c] = "post_unlock"
  <2>1. CASE DispatchDone(c)
    <3>1. CASE active[c] = "dma"
      BY <2>1, <3>1, Zenon DEF DispatchDone, Goto
    <3>2. CASE active[c] # "dma"
      BY <2>1, <3>2, Zenon DEF DispatchDone, Goto
    <3> QED BY <3>1, <3>2, Zenon
  <2>2. CASE SemPostUnlock(c)
    BY <2>2, Zenon DEF SemPostUnlock, maskVars
  <2> QED BY <2>1, <2>2, Zenon DEF Restore, SemTake, WaitLoop
<1>4. /\ pc' \in [CPU -> PCs] /\ \A d \in CPU \ {c} : pc'[d] = pc[d]
      /\ \/ pc'[c] = "user"
         \/ pc'[c] = "eoi" /\ active[c] = "dma"
         \/ pc'[c] = "disp_cs" /\ UNCHANGED daif /\ pc[c] = "post_unlock"
  <2>1. pc \in [CPU -> PCs] /\ {"user", "eoi", "disp_cs"} \subseteq PCs
    BY <1>1, Labels, Zenon DEF TypesAt
  <2> QED BY <1>3, <2>1, GoesTo, Zenon
<1>5. irq_restore(c) \/ UNCHANGED <<daif, flags>>
  BY Zenon DEF Restore, SemTake, WaitLoop, SemPostUnlock, DispatchDone, maskVars
<1>6. /\ flags' \in [Task -> {"open", "masked"}] /\ daif' \in [CPU -> {"open", "masked"}]
      /\ \A d \in CPU \ {c} : daif'[d] = daif[d]
  <2>1. CASE irq_restore(c)
    BY <1>1, <2>1, Zenon DEF TypesAt, irq_restore
  <2> QED BY <1>1, <1>5, <2>1, Zenon DEF TypesAt
<1>7. QueueTypes'
  BY <1>1, <1>2, <1>4, <1>6, Zenon DEF QueueTypes
<1>8. Apart(c)
  BY <1>2, <1>4, <1>6, Zenon DEF Apart, LbPCs
<1>9. TickAt(c)'
  BY <1>1, <1>2, <1>4, Zenon DEF TickAt, PickPCs, LbPCs, OpenPCs
<1> QED BY <1>2, <1>7, <1>8, <1>9, Elsewhere, Zenon

(* An interrupt is taken where IRQs are open. *)
LEMMA TakeStep ==
    ASSUME QueueInv, NEW c \in CPU, TimerIrq(c) \/ DmaIrq(c)
    PROVE  QueueInv'
<1>1. QueueTypes /\ TickAt(c) /\ TypesAt(c)
  BY QueueHere, Zenon
<1>2. UNCHANGED <<tasks, current_idx, home, lb, run, curr, sp, next>>
  BY Zenon DEF TimerIrq, DmaIrq, schedVars, switchVars
<1>3. \/ TakeIrq(c, "timer") /\ CallPick(c, "irq") /\ flags' = flags
      \/ /\ TakeIrq(c, "dma") /\ site' = site
         /\ \/ Goto(c, "disp_lock") /\ flags' = [flags EXCEPT ![run[c]] = "masked"]
            \/ Goto(c, "eoi") /\ flags' = flags
  BY Zenon DEF TimerIrq, DmaIrq
<1>4. pc[c] \in OpenPCs
  BY <1>1, <1>3, Zenon DEF TickAt, TakeIrq
<1>5. /\ active' \in [CPU -> {"none", "timer", "dma"}] /\ ipc' \in [Task -> OpenPCs]
      /\ daif' \in [CPU -> {"open", "masked"}] /\ daif'[c] = "masked"
      /\ \A d \in CPU \ {c} : active'[d] = active[d] /\ daif'[d] = daif[d]
  <2>1. PICK id \in {"timer", "dma"} : TakeIrq(c, id)
    BY <1>3, Zenon
  <2>2. /\ active \in [CPU -> {"none", "timer", "dma"}] /\ ipc \in [Task -> OpenPCs]
        /\ daif \in [CPU -> {"open", "masked"}]
    BY <1>1, Zenon DEF TypesAt
  <2> QED BY <1>4, <2>1, <2>2, Zenon DEF TakeIrq
<1>6. /\ pc' \in [CPU -> PCs] /\ site' \in [CPU -> Sites \cup {"none"}]
      /\ flags' \in [Task -> {"open", "masked"}]
      /\ \A d \in CPU \ {c} : pc'[d] = pc[d] /\ site'[d] = site[d]
      /\ \/ active'[c] = "timer" /\ pc'[c] = "pick_lock" /\ site'[c] = "irq"
         \/ active'[c] = "dma" /\ pc'[c] \in {"disp_lock", "eoi"}
  <2>1. CASE TakeIrq(c, "timer") /\ CallPick(c, "irq") /\ flags' = flags
    <3>1. site' \in [CPU -> Sites \cup {"none"}] /\ site'[c] = "irq" /\ Goto(c, "pick_lock")
      BY <1>1, <2>1, Zenon DEF TypesAt, CallPick, Sites
    <3>2. \A d \in CPU \ {c} : site'[d] = site[d]
      BY <1>1, <2>1, Zenon DEF TypesAt, CallPick
    <3>3. active'[c] = "timer" /\ flags' \in [Task -> {"open", "masked"}]
      BY <1>1, <2>1, Zenon DEF TypesAt, TakeIrq
    <3>4. pc \in [CPU -> PCs] /\ "pick_lock" \in PCs
      BY <1>1, Labels, Zenon DEF TypesAt
    <3> QED BY <3>1, <3>2, <3>3, <3>4, GoesTo, Zenon
  <2>2. CASE /\ TakeIrq(c, "dma") /\ site' = site
             /\ \/ Goto(c, "disp_lock") /\ flags' = [flags EXCEPT ![run[c]] = "masked"]
                \/ Goto(c, "eoi") /\ flags' = flags
    <3>1. active'[c] = "dma"
      BY <1>1, <2>2, Zenon DEF TypesAt, TakeIrq
    <3>2. flags' \in [Task -> {"open", "masked"}]
      BY <1>1, <2>2, Zenon DEF TypesAt
    <3>3. pc \in [CPU -> PCs] /\ {"disp_lock", "eoi"} \subseteq PCs
      BY <1>1, Labels, Zenon DEF TypesAt
    <3>4. PICK l \in {"disp_lock", "eoi"} : Goto(c, l)
      BY <2>2, Zenon
    <3>5. site' = site /\ site' \in [CPU -> Sites \cup {"none"}]
      BY <1>1, <2>2, Zenon DEF TypesAt
    <3> QED BY <3>1, <3>2, <3>3, <3>4, <3>5, GoesTo, Zenon
  <2> QED BY <1>3, <2>1, <2>2, Zenon
<1>7. QueueTypes'
  BY <1>1, <1>2, <1>5, <1>6, Zenon DEF QueueTypes
<1>8. Apart(c)
  BY <1>2, <1>5, <1>6, Zenon DEF Apart, LbPCs
<1>9. TickAt(c)'
  BY <1>5, <1>6, Zenon DEF TickAt, PickPCs, LbPCs, OpenPCs, Sites
<1> QED BY <1>2, <1>7, <1>8, <1>9, Elsewhere, Zenon

(* The timer's EOI leads CPU 0 into the balancing pass with IRQs masked. *)
LEMMA EoiStep ==
    ASSUME QueueInv, NEW c \in CPU, gic_eoi(c)
    PROVE  QueueInv'
<1>1. QueueTypes /\ TickAt(c) /\ TypesAt(c)
  BY QueueHere, Zenon
<1>2. /\ UNCHANGED <<tasks, current_idx, home, lb, run, curr, sp, next, daif, flags, site, ipc>>
      /\ pc[c] = "eoi" /\ active' = [active EXCEPT ![c] = "none"]
  BY Zenon DEF gic_eoi, maskVars, schedVars, switchVars
<1>3. \/ active[c] = "dma" /\ Goto(c, "eret")
      \/ active[c] # "dma" /\ \E l \in {"lb", "picked"} : Goto(c, l)
  BY Zenon DEF gic_eoi
<1>4. /\ pc' \in [CPU -> PCs] /\ active' \in [CPU -> {"none", "timer", "dma"}]
      /\ active'[c] = "none" /\ \A d \in CPU \ {c} : pc'[d] = pc[d] /\ active'[d] = active[d]
      /\ \/ active[c] = "timer" /\ pc'[c] \in {"lb", "picked"}
         \/ pc'[c] = "eret"
  <2>1. /\ active' \in [CPU -> {"none", "timer", "dma"}] /\ active'[c] = "none"
        /\ \A d \in CPU \ {c} : active'[d] = active[d]
    BY <1>1, <1>2, Zenon DEF TypesAt
  <2>2. ASSUME NEW l \in {"lb", "picked", "eret"}, Goto(c, l)
        PROVE  /\ pc' \in [CPU -> PCs] /\ pc'[c] = l
               /\ \A d \in CPU \ {c} : pc'[d] = pc[d]
    BY <1>1, <2>2, Zenon DEF TypesAt, Goto, PCs
  <2>3. active[c] # "dma" => active[c] = "timer"
    BY <1>1, <1>2, Zenon DEF TypesAt, TickAt
  <2> QED BY <1>3, <2>1, <2>2, <2>3, Zenon
<1>5. QueueTypes'
  BY <1>1, <1>2, <1>4, Zenon DEF QueueTypes
<1>6. Apart(c)
  BY <1>2, <1>4, Zenon DEF Apart, LbPCs
<1>7. TickAt(c)'
  BY <1>1, <1>2, <1>4, Zenon DEF TickAt, PickPCs, LbPCs, OpenPCs, Sites
<1> QED BY <1>2, <1>5, <1>6, <1>7, Elsewhere, Zenon

(* An exception returns to where IRQs were open. *)
LEMMA ReturnFromIrqStep ==
    ASSUME QueueInv, NEW c \in CPU, Eret(c)
    PROVE  QueueInv'
<1>1. QueueTypes /\ TickAt(c) /\ TypesAt(c)
  BY QueueHere, Zenon
<1>2. /\ UNCHANGED <<tasks, current_idx, home, lb, run, curr, sp, next, flags, site, active>>
      /\ pc[c] = "eret"
      /\ daif' = [daif EXCEPT ![c] = "open"] /\ ipc' = [ipc EXCEPT ![run[c]] = "user"]
      /\ Goto(c, ipc[run[c]])
  BY Zenon DEF Eret, schedVars, switchVars
<1>3. /\ pc' \in [CPU -> PCs] /\ daif' \in [CPU -> {"open", "masked"}]
      /\ ipc' \in [Task -> OpenPCs] /\ pc'[c] \in OpenPCs
      /\ \A d \in CPU \ {c} : pc'[d] = pc[d] /\ daif'[d] = daif[d]
  BY <1>1, <1>2, Zenon DEF TypesAt, Goto, PCs, OpenPCs
<1>4. QueueTypes'
  BY <1>1, <1>2, <1>3, Zenon DEF QueueTypes
<1>5. Apart(c)
  BY <1>2, <1>3, Zenon DEF Apart, LbPCs, OpenPCs
<1>6. TickAt(c)'
  BY <1>1, <1>2, <1>3, Zenon DEF TickAt, PickPCs, LbPCs, OpenPCs
<1> QED BY <1>2, <1>4, <1>5, <1>6, Elsewhere, Zenon

-----------------------------------------------------------------------------
(* Picking and switching.                                                  *)

(* The switch is prepared. *)
LEMMA CurrentStep ==
    ASSUME QueueInv, NEW c \in CPU, SetCurrent(c)
    PROVE  QueueInv'
<1>1. QueueTypes /\ TickAt(c) /\ TypesAt(c)
  BY QueueHere
<1>2. /\ UNCHANGED <<tasks, current_idx, home, lb, run, sp, next, active, ipc, daif, flags, site>>
      /\ pc[c] = "picked" /\ Goto(c, "switch") /\ curr' = [curr EXCEPT ![c] = next[c]]
  BY Zenon DEF SetCurrent, schedVars, irqVars, maskVars
<1>3. next[c] \in Task
  BY <1>1, <1>2, Zenon DEF TickAt
<1>4. /\ pc' \in [CPU -> PCs] /\ curr' \in [CPU -> Task] /\ pc'[c] = "switch"
      /\ \A d \in CPU \ {c} : pc'[d] = pc[d]
  <2>1. curr \in [CPU -> Task]
    BY <1>1, Zenon DEF QueueTypes
  <2> QED BY <1>1, <1>2, <1>3, <2>1, Zenon DEF TypesAt, Goto, PCs
<1>5. QueueTypes'
  BY <1>1, <1>2, <1>4, Zenon DEF QueueTypes
<1>6. Apart(c)
  BY <1>2, <1>4, Zenon DEF Apart, LbPCs
<1>7. TickAt(c)'
  BY <1>1, <1>2, <1>4, Zenon DEF TickAt, PickPCs, LbPCs, OpenPCs
<1> QED BY <1>2, <1>5, <1>6, <1>7, Elsewhere, Zenon

(* There is no switch. *)
LEMMA KeepStep ==
    ASSUME QueueInv, NEW c \in CPU, KeepCurrent(c)
    PROVE  QueueInv'
<1>1. QueueTypes /\ TickAt(c) /\ TypesAt(c)
  BY QueueHere
<1>2. /\ UNCHANGED <<tasks, current_idx, home, lb, run, curr, sp, active, ipc>>
      /\ pc[c] = "picked" /\ next' = [next EXCEPT ![c] = NoTask]
      /\ site' = [site EXCEPT ![c] = "none"]
      /\ irq_restore(c) \/ UNCHANGED <<daif, flags>>
  BY Zenon DEF KeepCurrent, schedVars, irqVars, maskVars
<1>3. \/ Goto(c, "user") \/ Goto(c, "wait") \/ Goto(c, "eret")
  <2>1. CASE site[c] = "yield"
    BY <2>1, Zenon DEF KeepCurrent
  <2>2. CASE site[c] # "yield"
    BY <2>2, Zenon DEF KeepCurrent
  <2> QED BY <2>1, <2>2, Zenon
<1>4. /\ pc' \in [CPU -> PCs] /\ pc'[c] \in OpenPCs /\ pc'[c] \notin {"restore"}
      /\ \A d \in CPU \ {c} : pc'[d] = pc[d]
  <2>1. PICK l \in {"user", "wait", "eret"} : Goto(c, l)
    BY <1>3, Zenon
  <2>2. l \in PCs /\ l \in OpenPCs /\ l # "restore"
    BY <2>1, Labels, Zenon
  <2>3. pc \in [CPU -> PCs]
    BY <1>1, Zenon DEF TypesAt
  <2> QED BY <2>1, <2>2, <2>3, GoesTo, Zenon
<1>5. /\ next' \in [CPU -> Task \cup {NoTask}] /\ site' \in [CPU -> Sites \cup {"none"}]
      /\ \A d \in CPU \ {c} : next'[d] = next[d] /\ site'[d] = site[d]
  <2>1. next \in [CPU -> Task \cup {NoTask}]
    BY <1>1, Zenon DEF QueueTypes
  <2> QED BY <1>1, <1>2, <2>1, Zenon DEF TypesAt
<1>6. /\ flags' \in [Task -> {"open", "masked"}] /\ daif' \in [CPU -> {"open", "masked"}]
      /\ \A d \in CPU \ {c} : daif'[d] = daif[d]
  <2>1. CASE irq_restore(c)
    BY <1>1, <2>1, Zenon DEF TypesAt, irq_restore
  <2> QED BY <1>1, <1>2, <2>1, Zenon DEF TypesAt
<1>7. QueueTypes'
  BY <1>1, <1>2, <1>4, <1>5, <1>6, Zenon DEF QueueTypes
<1>8. Apart(c)
  BY <1>2, <1>4, <1>5, <1>6, Zenon DEF Apart, LbPCs, OpenPCs
<1>9. TickAt(c)'
  BY <1>1, <1>2, <1>4, Zenon DEF TickAt, PickPCs, LbPCs, OpenPCs
<1> QED BY <1>2, <1>7, <1>8, <1>9, Elsewhere, Zenon

(* The switch.  After the race the frame may have been popped already. *)
LEMMA SwitchStep ==
    ASSUME QueueInv, NEW c \in CPU, switch_to(c)
    PROVE  QueueInv'
<1> DEFINE f == sp[next[c]]
           g == [stack |-> run[c], at |-> site[c], daif |-> daif[c]]
<1>1. QueueTypes /\ TickAt(c) /\ TypesAt(c)
  BY QueueHere, Zenon
<1>2. /\ UNCHANGED <<tasks, current_idx, home, lb, curr, active, ipc, flags>>
      /\ pc[c] = "switch" /\ next' = [next EXCEPT ![c] = NoTask]
      /\ site' = [site EXCEPT ![c] = "none"]
      /\ sp' = [sp EXCEPT ![prev[c]] = g, ![next[c]] = Popped]
      /\ \/ f = Popped /\ Goto(c, "corrupt") /\ UNCHANGED <<run, daif>>
         \/ /\ f # Popped /\ run' = [run EXCEPT ![c] = f.stack]
            /\ daif' = [daif EXCEPT ![c] = f.daif] /\ Goto(c, ResumeAt(f.at))
  BY Zenon DEF switch_to, schedVars, irqVars
<1>3. /\ next[c] \in Task /\ site[c] \in Sites /\ daif[c] = "masked" /\ active[c] # "timer"
      /\ f \in Frame \cup {Popped} /\ g \in Frame
  <2>1. next[c] \in Task /\ site[c] \in Sites /\ daif[c] = "masked" /\ active[c] # "timer"
    BY <1>1, <1>2, Zenon DEF TickAt, PickPCs, OpenPCs
  <2>2. sp \in [Task -> Frame \cup {Popped}]
    BY <1>1, Zenon DEF QueueTypes
  <2>3. g \in Frame
    <3>1. run[c] \in Task /\ daif[c] \in {"open", "masked"}
      BY <1>1, Zenon DEF TypesAt
    <3> QED BY <2>1, <3>1, Zenon DEF Frame
  <2> QED BY <2>1, <2>2, <2>3, Zenon
<1> HIDE DEF f, g
<1>4. /\ next' \in [CPU -> Task \cup {NoTask}] /\ site' \in [CPU -> Sites \cup {"none"}]
      /\ \A d \in CPU \ {c} : next'[d] = next[d] /\ site'[d] = site[d]
  <2>1. next \in [CPU -> Task \cup {NoTask}]
    BY <1>1, Zenon DEF QueueTypes
  <2> QED BY <1>1, <1>2, <2>1, Zenon DEF TypesAt
<1>5. sp' \in [Task -> Frame \cup {Popped}]
  <2>1. sp \in [Task -> Frame \cup {Popped}]
    BY <1>1, Zenon DEF QueueTypes
  <2> QED BY <1>2, <1>3, <2>1, Zenon
<1>6. /\ run' \in [CPU -> Task] /\ daif' \in [CPU -> {"open", "masked"}] /\ pc' \in [CPU -> PCs]
      /\ \/ pc'[c] \in OpenPCs
         \/ pc'[c] = "corrupt" /\ daif'[c] = "masked"
      /\ \A d \in CPU \ {c} : pc'[d] = pc[d] /\ daif'[d] = daif[d]
  <2>1. run \in [CPU -> Task]
    BY <1>1, Zenon DEF QueueTypes
  <2>2. CASE f = Popped /\ Goto(c, "corrupt") /\ UNCHANGED <<run, daif>>
    BY <1>1, <1>3, <2>1, <2>2, Zenon DEF TypesAt, Goto, PCs
  <2>3. CASE /\ f # Popped /\ run' = [run EXCEPT ![c] = f.stack]
             /\ daif' = [daif EXCEPT ![c] = f.daif] /\ Goto(c, ResumeAt(f.at))
    <3>1. f \in Frame
      BY <1>3, <2>3, Zenon
    <3>2. f.stack \in Task /\ f.daif \in {"open", "masked"}
      BY <3>1, Zenon DEF Frame
    <3>3. ResumeAt(f.at) \in PCs /\ ResumeAt(f.at) \in OpenPCs
      BY Zenon DEF ResumeAt, PCs, OpenPCs
    <3> QED BY <1>1, <2>1, <2>3, <3>2, <3>3, Zenon DEF TypesAt, Goto
  <2> QED BY <1>2, <2>2, <2>3, Zenon
<1>7. QueueTypes'
  BY <1>1, <1>2, <1>4, <1>5, <1>6, Zenon DEF QueueTypes
<1>8. Apart(c)
  BY <1>2, <1>4, <1>6, Zenon DEF Apart, LbPCs, OpenPCs
<1>9. TickAt(c)'
  BY <1>2, <1>3, <1>6, Zenon DEF TickAt, PickPCs, LbPCs, OpenPCs
<1> QED BY <1>2, <1>7, <1>8, <1>9, Elsewhere, Zenon

(* What pick_next_ready finds in CPU c's queue: current, or a READY task   *)
(* whose home it is.                                                       *)
LEMMA PickResult ==
    ASSUME QueueInv, NEW c \in CPU
    PROVE  LET r == select_next(POLICY, tasks[c], current_idx[c], state, load, curr[c])
           IN  /\ r.task \in Task
               /\ r.task = curr[c] \/ (home[r.task] = c /\ state[r.task] = READY)
               /\ r.idx \in 0..(MAX_TASKS - 1) /\ r.idx < Len(tasks[c])
<1> DEFINE r == select_next(POLICY, tasks[c], current_idx[c], state, load, curr[c])
<1>1. /\ tasks[c] \in Seq(Task) /\ curr[c] \in Task
      /\ current_idx[c] \in 0..(MAX_TASKS - 1)
  BY Zenon DEF QueueInv, QueueTypes
<1>2. /\ current_idx[c] < Len(tasks[c]) /\ Len(tasks[c]) <= MAX_TASKS
      /\ \A i \in 1..Len(tasks[c]) : home[tasks[c][i]] = c
  BY Zenon DEF QueueInv, Queued
<1>3. MAX_TASKS \in Nat /\ Len(tasks[c]) \in Nat
  BY <1>1, CapacityAssumption
<1>4. current_idx[c] \in 0..(Len(tasks[c]) - 1)
  BY <1>1, <1>2, <1>3
<1>5. /\ r.task = curr[c] \/ (r.task \in QueueTasks(tasks[c]) /\ state[r.task] = READY)
      /\ r.idx \in 0..(Len(tasks[c]) - 1)
  BY <1>1, <1>4, PickInQueue, Zenon
<1> HIDE DEF r
<1>6. r.idx \in 0..(MAX_TASKS - 1) /\ r.idx < Len(tasks[c])
  BY <1>2, <1>3, <1>5
<1>7. \A t \in QueueTasks(tasks[c]) : t \in Task /\ home[t] = c
  BY <1>1, <1>2 DEF QueueTasks
<1>8. r.task \in Task /\ (r.task = curr[c] \/ (home[r.task] = c /\ state[r.task] = READY))
  BY <1>1, <1>5, <1>7, Zenon
<1> QED BY <1>6, <1>8, Zenon DEF r

(* The queue's next task, by either policy. *)
LEMMA PickStep ==
    ASSUME QueueInv, NEW c \in CPU, pick_next_ready(c)
    PROVE  QueueInv'
<1> DEFINE r == select_next(POLICY, tasks[c], current_idx[c], state, load, curr[c])
<1>1. QueueTypes /\ TickAt(c) /\ TypesAt(c)
  BY QueueHere, Zenon
<1>2. /\ UNCHANGED <<tasks, home, lb, run, curr, sp, active, ipc, daif, flags, site>>
      /\ pc[c] = "pick_cs" /\ next' = [next EXCEPT ![c] = r.task]
      /\ current_idx' = [current_idx EXCEPT ![c] = r.idx]
      /\ Goto(c, IF site[c] = "irq" THEN "eoi" ELSE "picked")
  BY Zenon DEF pick_next_ready, irqVars, maskVars
<1>3. current_idx \in [CPU -> 0..(MAX_TASKS - 1)] /\ next \in [CPU -> Task \cup {NoTask}]
  BY <1>1, Zenon DEF QueueTypes
<1>7. r.task \in Task /\ r.idx \in 0..(MAX_TASKS - 1) /\ r.idx < Len(tasks[c])
  BY PickResult, Zenon
<1> HIDE DEF r
<1>8. /\ pc' \in [CPU -> PCs] /\ next' \in [CPU -> Task \cup {NoTask}] /\ next'[c] \in Task
      /\ current_idx' \in [CPU -> 0..(MAX_TASKS - 1)]
      /\ \/ site[c] = "irq" /\ pc'[c] = "eoi"
         \/ site[c] # "irq" /\ pc'[c] = "picked"
      /\ \A d \in CPU \ {c} : pc'[d] = pc[d] /\ next'[d] = next[d]
  <2>1. \/ site[c] = "irq" /\ Goto(c, "eoi")
        \/ site[c] # "irq" /\ Goto(c, "picked")
    <3>1. CASE site[c] = "irq"
      BY <1>2, <3>1, Zenon
    <3>2. CASE site[c] # "irq"
      BY <1>2, <3>2, Zenon
    <3> QED BY <3>1, <3>2, Zenon
  <2>2. /\ next' \in [CPU -> Task \cup {NoTask}] /\ next'[c] \in Task
        /\ current_idx' \in [CPU -> 0..(MAX_TASKS - 1)]
        /\ \A d \in CPU \ {c} : next'[d] = next[d]
    BY <1>2, <1>3, <1>7, Zenon
  <2>3. pc \in [CPU -> PCs] /\ {"eoi", "picked"} \subseteq PCs
    BY <1>1, Labels, Zenon DEF TypesAt
  <2> QED BY <2>1, <2>2, <2>3, GoesTo, Zenon
<1>9. QueueTypes'
  BY <1>1, <1>2, <1>8, Zenon DEF QueueTypes
<1>10. Apart(c)
  BY <1>2, <1>8, Zenon DEF Apart, LbPCs
<1>11. TickAt(c)'
  BY <1>1, <1>2, <1>8, Zenon DEF TickAt, PickPCs, LbPCs, OpenPCs
<1>12. \A d \in CPU : current_idx'[d] < Len(tasks[d])
  BY <1>2, <1>3, <1>7, Zenon DEF QueueInv, Queued
<1> QED BY <1>9, <1>10, <1>11, <1>12, ApartStep, Zenon

-----------------------------------------------------------------------------
(* What the balancing pass knows of the queues.                            *)

(* The balancer's record. *)
LbType == [tick : 0..(LB_PERIOD - 1), busiest : CPU, idlest : CPU, i : 0..MAX_TASKS,
           victim : Task \cup {NoTask}, src : CPU]

(* A step of the pass leaves everything but the queues, lb and CPU 0's     *)
(* place alone.                                                            *)
LEMMA PassStep ==
    ASSUME QueueInv, pc[0] \in LbPCs, NEW l \in LbPCs \cup {"picked"}, LbGoto(l, lb'),
           lb' \in LbType, Queued', Balancing',
           home' \in [Task -> CPU], tasks' \in [CPU -> Seq(Task)],
           current_idx' \in [CPU -> 0..(MAX_TASKS - 1)]
    PROVE  QueueInv'
<1>1. QueueTypes /\ TickAt(0) /\ TypesAt(0)
  BY QueueHere, Cpu0, Zenon
<1>2. /\ UNCHANGED <<run, curr, sp, next, active, ipc, daif, flags, site>>
      /\ pc' = [pc EXCEPT ![0] = l]
  BY Zenon DEF LbGoto, Goto, switchVars, irqVars, maskVars
<1>3. l \in PCs
  BY Zenon DEF LbPCs, PCs
<1>4. pc' \in [CPU -> PCs] /\ pc'[0] = l /\ \A d \in CPU \ {0} : pc'[d] = pc[d]
  BY <1>1, <1>2, <1>3, Cpu0, Zenon DEF TypesAt
<1>5. QueueTypes'
  BY <1>1, <1>2, <1>4, Zenon DEF QueueTypes, LbType
<1>6. TickAt(0)'
  BY <1>1, <1>2, <1>4, Zenon DEF TickAt, LbPCs, PickPCs, OpenPCs
<1>7. ASSUME NEW d \in CPU PROVE TickAt(d)'
  <2>1. CASE d = 0
    BY <1>6, <2>1
  <2>2. CASE d # 0
    BY <1>2, <1>4, <2>2, Zenon DEF QueueInv, TickAt
  <2> QED BY <2>1, <2>2, Zenon
<1> QED BY <1>5, <1>7, Zenon DEF QueueInv

(* Most of them leave the queues alone too. *)
LEMMA PassUnmoved ==
    ASSUME QueueInv, pc[0] \in LbPCs, NEW l \in LbPCs \cup {"picked"}, LbGoto(l, lb'),
           lb' \in LbType, Balancing', UNCHANGED schedVars
    PROVE  QueueInv'
<1>1. UNCHANGED <<tasks, home, current_idx>>
  BY Zenon DEF schedVars
<1>2. Queued'
  BY <1>1, Zenon DEF QueueInv, Queued
<1>3. /\ home' \in [Task -> CPU] /\ tasks' \in [CPU -> Seq(Task)]
      /\ current_idx' \in [CPU -> 0..(MAX_TASKS - 1)]
  BY <1>1, Zenon DEF QueueInv, QueueTypes
<1> QED BY <1>2, <1>3, PassStep, Zenon

(* CPU 0 leaves the pass. *)
LEMMA PassOver ==
    ASSUME QueueInv, pc[0] \in LbPCs, LbGoto("picked", lb'), lb' \in LbType, UNCHANGED schedVars
    PROVE  QueueInv'
<1>1. pc'[0] = "picked"
  BY Cpu0, Zenon DEF QueueInv, QueueTypes, LbGoto, Goto
<1>2. Balancing'
  BY <1>1, Zenon DEF Balancing, LbPCs
<1> QED BY <1>2, PassUnmoved, Zenon

(* The record as the pass begins and ends. *)
LEMMA LbTypes ==
    ASSUME QueueInv
    PROVE  /\ lb \in LbType /\ NoLb \in LbType /\ LbDone \in LbType
           /\ MAX_TASKS \in Nat \ {0} /\ LB_PERIOD \in Nat \ {0}
<1>1. lb \in LbType
  BY Zenon DEF QueueInv, QueueTypes, LbType
<1>2. MAX_TASKS \in Nat \ {0} /\ LB_PERIOD \in Nat \ {0}
  BY CapacityAssumption, BuildAssumption, Zenon
<1>3. NoLb \in LbType
  BY <1>2, Cpu0 DEF NoLb, LbType
<1>4. LbDone \in LbType
  BY <1>1, <1>3, Zenon DEF LbType, LbDone
<1> QED BY <1>1, <1>2, <1>3, <1>4, Zenon

(* What the pass knows at CPU 0, with the queues it is about. *)
LEMMA PassKnows ==
    ASSUME QueueInv
    PROVE  /\ Balancing /\ pc[0] \in PCs
           /\ \A l : Goto(0, l) => pc'[0] = l
           /\ \A d \in CPU : /\ tasks[d] \in Seq(Task) /\ Len(tasks[d]) \in 0..MAX_TASKS
                             /\ current_idx[d] \in Nat /\ current_idx[d] < Len(tasks[d])
<1>1. Balancing /\ pc[0] \in PCs /\ \A l : Goto(0, l) => pc'[0] = l
  BY Cpu0, Zenon DEF QueueInv, QueueTypes, Goto
<1>2. ASSUME NEW d \in CPU
      PROVE  /\ tasks[d] \in Seq(Task) /\ Len(tasks[d]) \in 0..MAX_TASKS
             /\ current_idx[d] \in Nat /\ current_idx[d] < Len(tasks[d])
  <2>1. /\ tasks[d] \in Seq(Task) /\ current_idx[d] \in 0..(MAX_TASKS - 1)
        /\ current_idx[d] < Len(tasks[d]) /\ Len(tasks[d]) <= MAX_TASKS
    BY Zenon DEF QueueInv, QueueTypes, Queued
  <2>2. MAX_TASKS \in Nat /\ Len(tasks[d]) \in Nat
    BY <2>1, CapacityAssumption
  <2> QED BY <2>1, <2>2
<1> QED BY <1>1, <1>2, Zenon

(* The scan of num_tasks settles on CPUs that are there, and if their      *)
(* queues differ by two or more these are two CPUs.                        *)
LEMMA ScanSettles ==
    ASSUME NEW cpus \in SUBSET Nat, cpus # {}, NEW m \in Nat, NEW n \in [cpus -> 0..m]
    PROVE  Busiest(n, cpus) \in cpus /\ Idlest(n, cpus) \in cpus
<1> DEFINE B == {c \in cpus : \A d \in cpus : n[d] <= n[c]}
           I == {c \in cpus : \A d \in cpus : n[c] <= n[d]}
           lo == {n[d] : d \in cpus}
           hi == {m - n[d] : d \in cpus}
<1>0. \A d \in cpus : n[d] \in Nat /\ m - n[d] \in Nat
  OBVIOUS
<1>1. I # {}
  <2>1. lo \in SUBSET Nat /\ lo # {}
    BY <1>0, Zenon
  <2>2. Min(lo) \in lo /\ \A y \in lo : Min(lo) <= y
    <3> HIDE DEF lo
    <3> QED BY <2>1, MinIn, Zenon
  <2>3. PICK c \in cpus : Min(lo) = n[c]
    BY <2>2, Zenon
  <2>4. \A d \in cpus : n[c] <= n[d]
    BY <2>2, <2>3, Zenon
  <2> QED BY <2>4, Zenon
<1>2. B # {}
  <2>1. hi \in SUBSET Nat /\ hi # {}
    BY <1>0, Zenon
  <2>2. Min(hi) \in hi /\ \A y \in hi : Min(hi) <= y
    <3> HIDE DEF hi
    <3> QED BY <2>1, MinIn, Zenon
  <2>3. PICK c \in cpus : Min(hi) = m - n[c]
    BY <2>2, Zenon
  <2>4. \A d \in cpus : m - n[c] <= m - n[d]
    BY <2>2, <2>3, Zenon
  <2>5. \A d \in cpus : n[d] <= n[c]
    BY <2>4
  <2> QED BY <2>5, Zenon
<1>3. Min(B) \in B /\ Min(I) \in I
  <2>1. B \in SUBSET Nat /\ I \in SUBSET Nat
    BY Zenon
  <2> HIDE DEF B, I
  <2> QED BY <1>1, <1>2, <2>1, MinIn, Zenon
<1> QED BY <1>3, Zenon DEF Busiest, Idlest

-----------------------------------------------------------------------------
(* The steps of the balancing pass.                                        *)

(* The throttle and the scan of num_tasks. *)
LEMMA TickStep ==
    ASSUME QueueInv, LbTick
    PROVE  QueueInv'
<1> DEFINE cpus == 1..(SMP_ONLINE - 1)
           n == [d \in cpus |-> Len(tasks[d])]
           b == Busiest(n, cpus)
           i == Idlest(n, cpus)
<1>1. /\ lb \in LbType /\ NoLb \in LbType /\ MAX_TASKS \in Nat \ {0} /\ LB_PERIOD \in Nat \ {0}
  BY LbTypes, Zenon
<1>2. pc[0] = "lb" /\ UNCHANGED schedVars
  BY Zenon DEF LbTick, schedVars
<1>3. CASE LbGoto("picked", lb') /\ lb' \in LbType
  BY <1>2, <1>3, PassOver, Zenon DEF LbPCs
<1>4. CASE lb.tick + 1 < LB_PERIOD
  <2>1. LbGoto("picked", [lb EXCEPT !.tick = @ + 1])
    BY <1>4, Zenon DEF LbTick
  <2>2. [lb EXCEPT !.tick = @ + 1] \in LbType
    BY <1>1, <1>4 DEF LbType
  <2>3. lb' = [lb EXCEPT !.tick = @ + 1]
    BY <2>1, Zenon DEF LbGoto
  <2> QED BY <1>3, <2>1, <2>2, <2>3, Zenon
<1>5. CASE ~ (lb.tick + 1 < LB_PERIOD) /\ (cpus = {} \/ n[b] - n[i] < 2)
  <2>1. LbGoto("picked", NoLb)
    BY <1>5, Zenon DEF LbTick
  <2>2. lb' = NoLb
    BY <2>1, Zenon DEF LbGoto
  <2> QED BY <1>1, <1>3, <2>1, <2>2, Zenon
<1>6. CASE ~ (lb.tick + 1 < LB_PERIOD) /\ cpus # {} /\ ~ (n[b] - n[i] < 2)
  <2> DEFINE new == [NoLb EXCEPT !.busiest = b, !.idlest = i]
  <2>1. LbGoto("lb_lock", new)
    BY <1>6, Zenon DEF LbTick
  <2>2. cpus \subseteq CPU /\ cpus \in SUBSET Nat
    BY DEF CPU
  <2>3. n \in [cpus -> 0..MAX_TASKS]
    BY <2>2, PassKnows, Zenon
  <2>4. b \in cpus /\ i \in cpus
    <3> HIDE DEF cpus, n
    <3> QED BY <1>1, <1>6, <2>2, <2>3, ScanSettles, Zenon
  <2>5. n[b] = Len(tasks[b]) /\ n[i] = Len(tasks[i]) /\ n[b] \in 0..MAX_TASKS /\ n[i] \in 0..MAX_TASKS
    BY <2>3, <2>4, Zenon
  <2> HIDE DEF b, i, n, cpus
  <2>6. b # i /\ Len(tasks[b]) >= Len(tasks[i]) + 2
    <3>1. ~ (n[b] - n[i] < 2)
      BY <1>6, Zenon
    <3>2. n[b] \in Nat /\ n[i] \in Nat
      BY <1>1, <2>5
    <3>3. n[b] >= n[i] + 2
      BY <3>1, <3>2
    <3>4. n[b] # n[i]
      BY <3>2, <3>3
    <3> QED BY <2>5, <3>3, <3>4, Zenon
  <2>7. new \in LbType /\ new.busiest = b /\ new.idlest = i
    BY <1>1, <2>2, <2>4, Zenon DEF NoLb, LbType
  <2> HIDE DEF new
  <2>8. lb' = new /\ UNCHANGED tasks /\ pc'[0] = "lb_lock"
    BY <1>2, <2>1, PassKnows, Zenon DEF LbGoto, schedVars
  <2>9. Balancing'
    BY <2>6, <2>7, <2>8, Zenon DEF Balancing
  <2> QED BY <1>2, <2>1, <2>7, <2>8, <2>9, PassUnmoved, Zenon DEF LbPCs
<1> HIDE DEF b, i, n, cpus
<1> QED BY <1>4, <1>5, <1>6, Zenon

(* The steps that only move CPU 0 on, or end the pass. *)
LEMMA LockingStep ==
    ASSUME QueueInv, LbLock \/ MigrateLockLo \/ MigrateLockHi \/ MigrateUnlock
    PROVE  QueueInv'
<1>1. lb \in LbType /\ LbDone \in LbType /\ Balancing
  BY LbTypes, PassKnows, Zenon
<1>2. /\ UNCHANGED schedVars /\ pc[0] \in LbPCs
      /\ \/ LbGoto("picked", LbDone)
         \/ pc[0] = "lb_lock" /\ LbGoto("lb_scan", lb)
         \/ pc[0] = "migrate" /\ LbGoto("mig_hi", lb)
         \/ pc[0] = "mig_hi" /\ LbGoto("mig_check", lb)
  BY Zenon DEF LbLock, MigrateLockLo, MigrateLockHi, MigrateUnlock, LbPCs
<1>3. CASE LbGoto("picked", LbDone)
  <2>1. lb' = LbDone
    BY <1>3, Zenon DEF LbGoto
  <2> QED BY <1>1, <1>2, <1>3, <2>1, PassOver
<1>4. ASSUME NEW l \in {"lb_scan", "mig_hi", "mig_check"}, LbGoto(l, lb),
             \/ pc[0] = "lb_lock" /\ l = "lb_scan"
             \/ pc[0] \in {"migrate", "mig_hi"} /\ l \in {"mig_hi", "mig_check"}
      PROVE  QueueInv'
  <2>1. lb' = lb /\ UNCHANGED <<tasks, home>> /\ pc'[0] = l
    BY <1>2, <1>4, PassKnows, Zenon DEF LbGoto, schedVars
  <2>2. Balancing'
    BY <1>1, <1>4, <2>1, Zenon DEF Balancing, LbPCs
  <2>3. l \in LbPCs
    BY Zenon DEF LbPCs
  <2> QED BY <1>1, <1>2, <1>4, <2>1, <2>2, <2>3, PassUnmoved, Zenon
<1> QED BY <1>2, <1>3, <1>4, Zenon

(* One iteration of the victim scan. *)
LEMMA ScanStep ==
    ASSUME QueueInv, LbScan
    PROVE  QueueInv'
<1> DEFINE q == tasks[lb.busiest]
           t == q[lb.i + 1]
           found == [lb EXCEPT !.victim = t, !.src = home[t]]
           more == [lb EXCEPT !.i = @ + 1]
<1>1. lb \in LbType /\ LbDone \in LbType /\ Balancing /\ MAX_TASKS \in Nat
  BY LbTypes, PassKnows, Zenon
<1>2. pc[0] = "lb_scan" /\ UNCHANGED schedVars /\ pc[0] \in LbPCs
  BY Zenon DEF LbScan, schedVars, LbPCs
<1>3. \/ LbGoto("picked", LbDone)
      \/ ~ (lb.i >= Len(q)) /\ LbGoto("migrate", found)
      \/ ~ (lb.i >= Len(q)) /\ LbGoto("lb_scan", more)
  BY Zenon DEF LbScan
<1>4. lb.busiest \in CPU /\ lb.i \in 0..MAX_TASKS
  BY <1>1, Zenon DEF LbType
<1>5. CASE LbGoto("picked", LbDone)
  <2>1. lb' = LbDone
    BY <1>5, Zenon DEF LbGoto
  <2> QED BY <1>1, <1>2, <1>5, <2>1, PassOver, Zenon
<1>6. CASE ~ (lb.i >= Len(q)) /\ LbGoto("migrate", found)
  <2>1. lb.i + 1 \in 1..Len(q) /\ q \in Seq(Task)
    BY <1>4, <1>6, PassKnows
  <2>2. t \in Task /\ home[t] = lb.busiest
    <3>1. \A k \in 1..Len(q) : home[q[k]] = lb.busiest
      BY <1>4, Zenon DEF QueueInv, Queued
    <3>2. t \in Task
      BY <2>1
    <3> QED BY <2>1, <3>1, <3>2, Zenon
  <2> HIDE DEF t, q
  <2>3. /\ found \in LbType /\ found.victim = t /\ found.src = lb.busiest
        /\ found.busiest = lb.busiest /\ found.idlest = lb.idlest
    BY <1>1, <1>4, <2>2, Zenon DEF LbType
  <2> HIDE DEF found
  <2>4. lb' = found /\ UNCHANGED <<tasks, home>> /\ pc'[0] = "migrate"
    BY <1>2, <1>6, PassKnows, Zenon DEF LbGoto, schedVars
  <2>5. Balancing'
    BY <1>1, <1>2, <2>2, <2>3, <2>4, Zenon DEF Balancing, LbPCs
  <2> QED BY <1>2, <1>6, <2>3, <2>4, <2>5, PassUnmoved, Zenon DEF LbPCs
<1>7. CASE ~ (lb.i >= Len(q)) /\ LbGoto("lb_scan", more)
  <2>1. Len(q) \in 0..MAX_TASKS
    BY <1>4, PassKnows, Zenon
  <2> HIDE DEF q
  <2>2. more \in LbType /\ more.busiest = lb.busiest /\ more.idlest = lb.idlest
    BY <1>1, <1>4, <1>7, <2>1 DEF LbType
  <2> HIDE DEF more
  <2>3. lb' = more /\ UNCHANGED <<tasks, home>> /\ pc'[0] = "lb_scan"
    BY <1>2, <1>7, PassKnows, Zenon DEF LbGoto, schedVars
  <2>4. Balancing'
    BY <1>1, <1>2, <2>2, <2>3, Zenon DEF Balancing, LbPCs
  <2> QED BY <1>2, <1>7, <2>2, <2>3, <2>4, PassUnmoved, Zenon DEF LbPCs
<1> QED BY <1>3, <1>5, <1>6, <1>7, Zenon

(* The checks under both locks. *)
LEMMA CheckStep ==
    ASSUME QueueInv, MigrateCheck
    PROVE  QueueInv'
<1>1. lb \in LbType /\ Balancing
  BY LbTypes, PassKnows, Zenon
<1>2. pc[0] = "mig_check" /\ UNCHANGED schedVars /\ pc[0] \in LbPCs
  BY Zenon DEF MigrateCheck, schedVars, LbPCs
<1>3. \/ LbGoto("mig_move", lb) /\ Len(tasks[lb.idlest]) < MAX_TASKS
      \/ LbGoto("mig_unlock", lb)
  <2> DEFINE ok == /\ state[lb.victim] = READY
                   /\ lb.victim # curr[lb.src]
                   /\ lb.victim \in QueueTasks(tasks[lb.src])
                   /\ Len(tasks[lb.idlest]) < MAX_TASKS
  <2>1. LbGoto(IF ok THEN "mig_move" ELSE "mig_unlock", lb)
    BY Zenon DEF MigrateCheck
  <2>2. ok => Len(tasks[lb.idlest]) < MAX_TASKS
    OBVIOUS
  <2> HIDE DEF ok
  <2>3. CASE ok
    BY <2>1, <2>2, <2>3, Zenon
  <2>4. CASE ~ok
    BY <2>1, <2>4, Zenon
  <2> QED BY <2>3, <2>4
<1>4. PICK l \in {"mig_move", "mig_unlock"} :
         LbGoto(l, lb) /\ (l = "mig_move" => Len(tasks[lb.idlest]) < MAX_TASKS)
  BY <1>3, Zenon
<1>5. lb' = lb /\ UNCHANGED <<tasks, home>> /\ pc'[0] = l
  BY <1>2, <1>4, PassKnows, Zenon DEF LbGoto, schedVars
<1>6. Balancing'
  BY <1>1, <1>2, <1>4, <1>5, Zenon DEF Balancing, LbPCs
<1>7. l \in LbPCs
  BY Zenon DEF LbPCs
<1> QED BY <1>1, <1>2, <1>4, <1>5, <1>6, <1>7, PassUnmoved, Zenon

(* The victim changes queues, and its home with it. *)
LEMMA MigrateStep ==
    ASSUME QueueInv, sched_migrate
    PROVE  QueueInv'
<1> DEFINE v == lb.victim
           src == lb.src
           dst == lb.idlest
           sq == MigrateSource(tasks[src], v)
           dq == MigrateDest(tasks[dst], v)
<1>1. lb \in LbType /\ Balancing /\ MAX_TASKS \in Nat
  BY LbTypes, PassKnows, Zenon
<1>2. /\ pc[0] = "mig_move" /\ LbGoto("mig_unlock", lb) /\ pc[0] \in LbPCs
      /\ tasks' = [tasks EXCEPT ![src] = MigrateSource(@, v), ![dst] = MigrateDest(@, v)]
      /\ current_idx' = [current_idx EXCEPT ![src] = MigrateSourceIdx(tasks[src], @)]
      /\ home' = [home EXCEPT ![v] = dst]
  BY Zenon DEF sched_migrate, LbPCs
<1>3. /\ src \in CPU /\ dst \in CPU /\ src # dst /\ v \in Task /\ home[v] = src
      /\ src = lb.busiest /\ Len(tasks[src]) >= Len(tasks[dst]) + 2 /\ Len(tasks[dst]) < MAX_TASKS
  <2>1. src \in CPU /\ dst \in CPU
    BY <1>1, Zenon DEF LbType
  <2>2. /\ lb.busiest # dst /\ src = lb.busiest /\ v \in Task /\ home[v] = src
        /\ Len(tasks[dst]) < MAX_TASKS /\ Len(tasks[lb.busiest]) >= Len(tasks[dst]) + 2
    BY <1>1, <1>2, Zenon DEF Balancing, LbPCs
  <2> QED BY <2>1, <2>2, Zenon
<1> HIDE DEF v, src, dst
<1>4. \A d \in CPU : /\ tasks[d] \in Seq(Task) /\ OnceEach(tasks[d]) /\ current_idx[d] \in Nat
                     /\ current_idx[d] < Len(tasks[d]) /\ Len(tasks[d]) \in 0..MAX_TASKS
  BY PassKnows, Zenon DEF QueueInv, Queued, OnceEach
<1>5. /\ \A d \in CPU : \A t \in QueueTasks(tasks[d]) : home[t] = d
      /\ \A t \in Task : t \in QueueTasks(tasks[home[t]])
  BY Zenon DEF QueueInv, Queued, QueueTasks
<1>6. v \in QueueTasks(tasks[src]) /\ v \notin QueueTasks(tasks[dst])
  BY <1>3, <1>5, Zenon
<1>7. /\ sq \in Seq(Task) /\ Len(sq) = Len(tasks[src]) - 1 /\ OnceEach(sq)
      /\ QueueTasks(sq) = QueueTasks(tasks[src]) \ {v}
  BY <1>3, <1>4, <1>6, MigrateSourceResult, Zenon
<1>8. /\ dq \in Seq(Task) /\ Len(dq) = Len(tasks[dst]) + 1 /\ OnceEach(dq)
      /\ QueueTasks(dq) = QueueTasks(tasks[dst]) \cup {v}
  <2>1. tasks[dst] \in Seq(Task) /\ OnceEach(tasks[dst])
    BY <1>3, <1>4, Zenon
  <2> QED BY <1>3, <1>6, <2>1, MigrateDestResult
<1>9. /\ tasks' \in [CPU -> Seq(Task)] /\ tasks'[src] = sq /\ tasks'[dst] = dq
      /\ \A d \in CPU \ {src, dst} : tasks'[d] = tasks[d]
  <2>1. tasks \in [CPU -> Seq(Task)]
    BY Zenon DEF QueueInv, QueueTypes
  <2>2. tasks' = [tasks EXCEPT ![src] = sq, ![dst] = dq]
    BY <1>2, <1>3, <2>1, Zenon
  <2> HIDE DEF sq, dq
  <2> QED BY <1>3, <1>7, <1>8, <2>1, <2>2, Zenon
<1> HIDE DEF sq, dq
<1>10. /\ home' \in [Task -> CPU] /\ home'[v] = dst
       /\ \A t \in Task \ {v} : home'[t] = home[t]
  <2>1. home \in [Task -> CPU]
    BY Zenon DEF QueueInv, QueueTypes
  <2> QED BY <1>2, <1>3, <2>1, Zenon
<1>11. /\ current_idx' \in [CPU -> 0..(MAX_TASKS - 1)] /\ current_idx'[src] < Len(sq)
       /\ \A d \in CPU \ {src} : current_idx'[d] = current_idx[d]
  <2> DEFINE x == MigrateSourceIdx(tasks[src], current_idx[src])
  <2>1. current_idx \in [CPU -> 0..(MAX_TASKS - 1)]
    BY Zenon DEF QueueInv, QueueTypes
  <2>2. x \in 0..(MAX_TASKS - 1) /\ x < Len(sq)
    <3>1. /\ Len(tasks[src]) \in 0..MAX_TASKS /\ Len(tasks[dst]) \in 0..MAX_TASKS
          /\ current_idx[src] \in Nat
      BY <1>3, <1>4, Zenon
    <3> QED BY <1>1, <1>3, <1>7, <3>1 DEF MigrateSourceIdx
  <2>3. current_idx' = [current_idx EXCEPT ![src] = x]
    BY <1>2, Zenon
  <2> HIDE DEF x
  <2> QED BY <1>3, <2>1, <2>2, <2>3, Zenon
<1>12. ASSUME NEW d \in CPU
       PROVE  /\ OnceEach(tasks'[d])
              /\ \A t \in QueueTasks(tasks'[d]) : home'[t] = d
              /\ current_idx'[d] < Len(tasks'[d]) /\ Len(tasks'[d]) <= MAX_TASKS
  <2>1. QueueTasks(tasks[d]) \subseteq Task
    BY <1>4 DEF QueueTasks
  <2>2. CASE d = src
    <3>1. Len(sq) <= MAX_TASKS
      BY <1>1, <1>3, <1>4, <1>7
    <3> QED BY <1>5, <1>7, <1>9, <1>10, <1>11, <2>1, <2>2, <3>1, Zenon
  <2>3. CASE d = dst
    <3>1. Len(dq) <= MAX_TASKS /\ current_idx'[dst] < Len(dq)
      <4>1. current_idx'[dst] = current_idx[dst]
        BY <1>3, <1>11, Zenon
      <4> QED BY <1>1, <1>3, <1>4, <1>8, <4>1
    <3>2. \A t \in QueueTasks(dq) : home'[t] = dst
      BY <1>5, <1>8, <1>10, <2>1, <2>3, Zenon
    <3> QED BY <1>8, <1>9, <2>3, <3>1, <3>2, Zenon
  <2>4. CASE d \notin {src, dst}
    <3>1. tasks'[d] = tasks[d] /\ current_idx'[d] = current_idx[d]
      BY <1>9, <1>11, <2>4, Zenon
    <3>2. v \notin QueueTasks(tasks[d])
      BY <1>3, <1>5, <2>4, Zenon
    <3>3. \A t \in QueueTasks(tasks[d]) : home'[t] = d
      BY <1>5, <1>10, <2>1, <3>2, Zenon
    <3>4. Len(tasks[d]) <= MAX_TASKS
      BY <1>1, <1>4
    <3> QED BY <1>4, <3>1, <3>3, <3>4, Zenon
  <2> QED BY <2>2, <2>3, <2>4, Zenon
<1>13. ASSUME NEW t \in Task PROVE t \in QueueTasks(tasks'[home'[t]])
  <2>1. CASE t = v
    BY <1>8, <1>9, <1>10, <2>1, Zenon
  <2>2. CASE t # v
    <3>1. home'[t] = home[t] /\ t \in QueueTasks(tasks[home[t]]) /\ home[t] \in CPU
      BY <1>5, <1>10, <2>2, Zenon DEF QueueInv, QueueTypes
    <3>2. CASE home[t] = src
      BY <1>7, <1>9, <2>2, <3>1, <3>2, Zenon
    <3>3. CASE home[t] = dst
      BY <1>8, <1>9, <3>1, <3>3, Zenon
    <3>4. CASE home[t] \notin {src, dst}
      BY <1>9, <3>1, <3>4, Zenon
    <3> QED BY <3>2, <3>3, <3>4, Zenon
  <2> QED BY <2>1, <2>2, Zenon
<1>14. Queued'
  <2>1. ASSUME NEW d \in CPU, NEW i \in 1..Len(tasks'[d]) PROVE home'[tasks'[d][i]] = d
    BY <1>12, Zenon DEF QueueTasks
  <2> QED BY <1>12, <1>13, <2>1, Zenon DEF Queued, OnceEach
<1>15. Balancing'
  <2>1. lb' = lb /\ pc'[0] = "mig_unlock"
    BY <1>2, PassKnows, Zenon DEF LbGoto
  <2> QED BY <1>1, <1>2, <2>1, Zenon DEF Balancing, LbPCs
<1>16. LbGoto("mig_unlock", lb') /\ "mig_unlock" \in LbPCs /\ lb' \in LbType
  BY <1>1, <1>2, Zenon DEF LbGoto, LbPCs
<1>17. current_idx' \in [CPU -> 0..(MAX_TASKS - 1)]
  BY <1>11, Zenon
<1> QED BY <1>2, <1>9, <1>10, <1>14, <1>15, <1>16, <1>17, PassStep, Zenon

-----------------------------------------------------------------------------
(* The theorem.                                                            *)

(* Each task starts in the queue its home is, at one place. *)
LEMMA InitHome ==
    ASSUME Init
    PROVE  /\ home \in [Task -> CPU]
           /\ \A t \in Task : t \in QueueTasks(InitQueue[home[t]])
           /\ \A c \in CPU : \A i \in 1..Len(InitQueue[c]) : home[InitQueue[c][i]] = c
<1>1. ASSUME NEW t \in Task
      PROVE  home[t] \in CPU /\ t \in QueueTasks(InitQueue[home[t]])
  BY QueueAssumption, Zenon DEF Init
<1>2. ASSUME NEW c \in CPU, NEW i \in 1..Len(InitQueue[c])
      PROVE  home[InitQueue[c][i]] = c
  <2>1. InitQueue[c] \in Seq(Task)
    BY QueueAssumption, Zenon
  <2>2. InitQueue[c][i] \in Task
    BY <2>1
  <2>3. /\ home[InitQueue[c][i]] \in CPU
        /\ InitQueue[c][i] \in QueueTasks(InitQueue[home[InitQueue[c][i]]])
    BY <1>1, <2>2, Zenon
  <2>4. PICK j \in 1..Len(InitQueue[home[InitQueue[c][i]]]) :
           InitQueue[home[InitQueue[c][i]]][j] = InitQueue[c][i]
    BY <2>3, Zenon DEF QueueTasks
  <2>5. ASSUME NEW d \in CPU, NEW k \in 1..Len(InitQueue[d]), InitQueue[d][k] = InitQueue[c][i]
        PROVE  d = c
    BY <2>5, QueueAssumption, Zenon
  <2> QED BY <2>3, <2>4, <2>5, Zenon
<1>3. home \in [Task -> CPU]
  BY <1>1, Zenon DEF Init
<1> QED BY <1>1, <1>2, <1>3, Zenon

(* The queues the boot code fills satisfy the invariant. *)
LEMMA InitQueueInv == Init => QueueInv
<1> SUFFICES ASSUME Init PROVE QueueInv
  OBVIOUS
<1>1. /\ home \in [Task -> CPU] /\ tasks = InitQueue
      /\ \A t \in Task : t \in QueueTasks(InitQueue[home[t]])
      /\ \A c \in CPU : \A i \in 1..Len(InitQueue[c]) : home[InitQueue[c][i]] = c
  BY InitHome, Zenon DEF Init
<1>2. /\ \A c \in CPU : InitQueue[c] \in Seq(Task) /\ InitQueue[c] # <<>>
      /\ \A c \in CPU : Len(InitQueue[c]) <= MAX_TASKS /\ current_idx[c] = 0
      /\ \A c \in CPU : \A i, j \in 1..Len(InitQueue[c]) : InitQueue[c][i] = InitQueue[c][j] => i = j
  BY QueueAssumption, Zenon DEF Init
<1>3. \A c \in CPU : current_idx[c] < Len(InitQueue[c]) /\ InitQueue[c][1] \in Task
  BY <1>2
<1>4. Queued
  BY <1>1, <1>2, <1>3, Zenon DEF Queued
<1>5. Balancing
  BY Cpu0, Zenon DEF Init, Balancing, LbPCs
<1>6. ASSUME NEW c \in CPU PROVE TickAt(c)
  BY Zenon DEF Init, TickAt, LbPCs, PickPCs, OpenPCs
<1>7. QueueTypes
  <2>1. lb \in [tick : 0..(LB_PERIOD - 1), busiest : CPU, idlest : CPU, i : 0..MAX_TASKS,
                victim : Task \cup {NoTask}, src : CPU]
    <3>1. lb = NoLb /\ LB_PERIOD \in Nat \ {0} /\ MAX_TASKS \in Nat
      BY CapacityAssumption, BuildAssumption, Zenon DEF Init
    <3> QED BY <3>1, Cpu0 DEF NoLb
  <2>2. current_idx \in [CPU -> 0..(MAX_TASKS - 1)]
    <3>1. 0 \in 0..(MAX_TASKS - 1)
      BY CapacityAssumption
    <3> QED BY <3>1, Zenon DEF Init
  <2>3. sp \in [Task -> Frame \cup {Popped}]
    <3>1. \A t \in Task : [stack |-> t, at |-> "start", daif |-> "open"] \in Frame
      BY Zenon DEF Frame
    <3> QED BY <3>1, Zenon DEF Init
  <2>4. run \in [CPU -> Task] /\ curr \in [CPU -> Task]
    BY <1>3, Zenon DEF Init
  <2>5. /\ pc \in [CPU -> PCs] /\ daif \in [CPU -> {"open", "masked"}]
        /\ active \in [CPU -> {"none", "timer", "dma"}]
        /\ site \in [CPU -> Sites \cup {"none"}] /\ next \in [CPU -> Task \cup {NoTask}]
        /\ flags \in [Task -> {"open", "masked"}] /\ ipc \in [Task -> OpenPCs]
    BY Zenon DEF Init, PCs, OpenPCs
  <2>6. tasks \in [CPU -> Seq(Task)]
    BY <1>1, QueueAssumption, Zenon
  <2> QED BY <1>1, <2>1, <2>2, <2>3, <2>4, <2>5, <2>6, Zenon DEF QueueTypes
<1> QED BY <1>4, <1>5, <1>6, <1>7, Zenon DEF QueueInv

(* Every step of every CPU, the balancing pass included, keeps it. *)
LEMMA QueueNext ==
    ASSUME QueueInv, [Next]_vars
    PROVE  QueueInv'
<1>1. ASSUME NEW c \in CPU, Acquire(c) \/ KernelStep(c) \/ Call(c) \/ Irq(c)
      PROVE  QueueInv'
  BY <1>1, MaskedStep, CallStep, ReturnStep, TakeStep, EoiStep, ReturnFromIrqStep,
       CurrentStep,
     KeepStep, SwitchStep, PickStep, Zenon DEF Acquire, KernelStep, Call, Irq
<1>2. CASE sched_load_balance_pass
  BY <1>2, TickStep, LockingStep, ScanStep, CheckStep, MigrateStep, Zenon
     DEF sched_load_balance_pass
<1>3. CASE UNCHANGED vars
  <2>1. UNCHANGED <<pc, run, curr, daif, active, site, next, home, sp, flags, ipc, tasks,
                    current_idx, lb>>
    BY <1>3, Zenon DEF vars, cpuVars, taskVars
  <2>2. QueueTypes' /\ Queued' /\ Balancing'
    BY <2>1, Zenon DEF QueueInv, QueueTypes, Queued, Balancing
  <2>3. \A c \in CPU : TickAt(c)'
    BY <2>1, Zenon DEF QueueInv, TickAt
  <2> QED BY <2>2, <2>3, Zenon DEF QueueInv
<1> QED BY <1>1, <1>2, <1>3, Zenon DEF Next

(* The queues are in order in every reachable state of every build. *)
LEMMA QueueInvariance == Spec => []QueueInv
<1>1. Init => QueueInv
  BY InitQueueInv, Zenon
<1>2. QueueInv /\ [Next]_vars => QueueInv'
  BY QueueNext, Zenon
<1> QED BY <1>1, <1>2, PTL DEF Spec

(* In every build each task stays in exactly one queue, once, namely its   *)
(* home CPU's, with current_idx inside the queue: also while the balancer  *)
(* moves tasks, and even past the race that lets two CPUs run one of them  *)
(* (sched_migrate's swap with the last entry and its reset of current_idx).*)
THEOREM QueuesSafe == Spec => []QueuesPartitionTasks
<1>1. QueueInv => QueuesPartitionTasks
  <2> SUFFICES ASSUME QueueInv PROVE QueuesPartitionTasks
    OBVIOUS
  <2>1. ASSUME NEW t \in Task, NEW c \in CPU
        PROVE  Cardinality({i \in 1..Len(tasks[c]) : tasks[c][i] = t}) =
                  IF home[t] = c THEN 1 ELSE 0
    <3> DEFINE at == {i \in 1..Len(tasks[c]) : tasks[c][i] = t}
    <3>1. /\ \A i, j \in 1..Len(tasks[c]) : tasks[c][i] = tasks[c][j] => i = j
          /\ \A i \in 1..Len(tasks[c]) : home[tasks[c][i]] = c
          /\ t \in QueueTasks(tasks[home[t]])
      BY Zenon DEF QueueInv, Queued
    <3>2. CASE home[t] = c
      <4>1. PICK k \in 1..Len(tasks[c]) : tasks[c][k] = t
        BY <3>1, <3>2, Zenon DEF QueueTasks
      <4>2. at = {k}
        BY <3>1, <4>1, Zenon
      <4>3. Cardinality(at) = 1
        BY <4>2, FS_Singleton, Zenon
      <4> QED BY <3>2, <4>3, Zenon
    <3>3. CASE home[t] # c
      <4>1. at = {}
        BY <3>1, <3>3, Zenon
      <4>2. Cardinality(at) = 0
        BY <4>1, FS_EmptySet, Zenon
      <4> QED BY <3>3, <4>2, Zenon
    <3> QED BY <3>2, <3>3, Zenon
  <2>2. \A c \in CPU : current_idx[c] < Len(tasks[c]) /\ Len(tasks[c]) <= MAX_TASKS
    BY Zenon DEF QueueInv, Queued
  <2> QED BY <2>1, <2>2, Zenon DEF QueuesPartitionTasks
<1> QED BY <1>1, QueueInvariance, PTL
=============================================================================
