------------------------------ MODULE RunQueue ------------------------------
(***************************************************************************)
(* The pure part of kernel/sched.c: how the scheduling policies choose a   *)
(* task from one CPU's run queue, how a tick updates the load estimate,    *)
(* and what sched_migrate does to the two queues it holds the locks of.    *)
(*                                                                         *)
(* A run queue is the sequence of its tasks (tasks[0 .. num_tasks-1]) and  *)
(* current_idx, kept 0-based as in the code: tasks[i] is q[i + 1].         *)
(* select_count[] is a statistic nobody reads back and is left out.        *)
(***************************************************************************)
EXTENDS Integers, Sequences, FiniteSetsExt

CONSTANTS
    EWMA_ALPHA_NUM, EWMA_ALPHA_DEN, EWMA_SCALE,  \* weights of the load average
    MAX_TASKS                                    \* capacity of a run queue

(* 0 < alpha < 1, as for the code's 3/10, and a non-negative scale. *)
ASSUME EwmaAssumption ==
    /\ EWMA_ALPHA_NUM \in Nat \ {0}
    /\ EWMA_ALPHA_DEN \in Nat \ {0}
    /\ EWMA_ALPHA_NUM < EWMA_ALPHA_DEN
    /\ EWMA_SCALE \in Nat

ASSUME CapacityAssumption == MAX_TASKS \in Nat \ {0}

(* tcb_t.state *)
READY   == 0
BLOCKED == 1

QueueTasks(q) == {q[i] : i \in 1..Len(q)}

(* The index the scan loops visit in iteration i. *)
ScanIdxFromZero(q, idx, i) == (idx + i - 1) % Len(q)   \* faulty: starts at current

ScanIdx(q, idx, i) == (idx + i) % Len(q)
ScanTask(q, idx, i) == q[ScanIdx(q, idx, i) + 1]

(* The iterations of the scan that find a READY task. *)
ReadyScan(q, idx, st) ==
    {i \in 1..Len(q) : st[ScanTask(q, idx, i)] = READY}

(* Nobody runnable: stay on current and resync current_idx to it (if it is *)
(* still in this queue).                                                   *)
StayOnCurrent(q, idx, cur) ==
    LET at == {i \in 1..Len(q) : q[i] = cur}
    IN  [task |-> cur, idx |-> IF at = {} THEN idx ELSE Min(at) - 1]

(* The first READY task after current_idx, wrapping around. *)
roundrobin_select_next(q, idx, st, load, cur) ==
    LET S == ReadyScan(q, idx, st)
    IN  IF S = {}
        THEN StayOnCurrent(q, idx, cur)
        ELSE [task |-> ScanTask(q, idx, Min(S)),
              idx  |-> ScanIdx(q, idx, Min(S))]

(* The READY iterations whose task has the least load. *)
LightestScan(q, idx, st, load) ==
    LET S == ReadyScan(q, idx, st)
    IN  {i \in S : \A j \in S : load[ScanTask(q, idx, i)] <= load[ScanTask(q, idx, j)]}

(* The READY task of least ewma_load; the strict comparison keeps the      *)
(* first one of the scan among equals.                                     *)
load_aware_select_next(q, idx, st, load, cur) ==
    LET S == LightestScan(q, idx, st, load)
    IN  IF S = {}
        THEN StayOnCurrent(q, idx, cur)
        ELSE [task |-> ScanTask(q, idx, Min(S)),
              idx  |-> ScanIdx(q, idx, Min(S))]

(* policy_roundrobin, policy_ewma and policy_load_aware: which select_next *)
(* each uses, and whether it has an on_tick hook.                          *)
Policies == {"roundrobin", "ewma", "load_aware"}

select_next(policy, q, idx, st, load, cur) ==
    IF policy = "load_aware"
    THEN load_aware_select_next(q, idx, st, load, cur)
    ELSE roundrobin_select_next(q, idx, st, load, cur)

ewma_on_tick(load) ==
    (EWMA_ALPHA_NUM * EWMA_SCALE + (EWMA_ALPHA_DEN - EWMA_ALPHA_NUM) * load)
        \div EWMA_ALPHA_DEN

on_tick(policy, load) ==
    IF policy = "roundrobin" THEN load ELSE ewma_on_tick(load)

-----------------------------------------------------------------------------
(* What sched_migrate does to the queues, once both are locked.            *)

(* src->tasks[idx] = src->tasks[--src->num_tasks], for the first match. *)
MigrateSource(q, t) ==
    LET k == Min({i \in 1..Len(q) : q[i] = t})
    IN  [i \in 1..(Len(q) - 1) |-> IF i = k THEN q[Len(q)] ELSE q[i]]

(* current_idx is reset if it no longer points into the shorter queue.     *)
MigrateSourceIdxKept(q, idx) == idx     \* faulty: not reset

MigrateSourceIdx(q, idx) == IF idx >= Len(q) - 1 THEN 0 ELSE idx

MigrateDest(q, t) == Append(q, t)

(* The CPUs sched_load_balance_pass settles on: the first of the most and  *)
(* the first of the least populated among cpus.                            *)
Busiest(n, cpus) == Min({c \in cpus : \A d \in cpus : n[d] <= n[c]})
Idlest(n, cpus)  == Min({c \in cpus : \A d \in cpus : n[c] <= n[d]})
=============================================================================
