------------------------------ MODULE IrqSync -------------------------------
(***************************************************************************)
(* Mutex, event flags and message queue of sync.c.  They protect           *)
(* themselves by masking IRQs, so they serve the tasks and interrupt       *)
(* handlers of one CPU, and each has one slot per kind of waiter: the      *)
(* clients below keep to that.  A masked section is one step; SmpSched has *)
(* what happens inside block_current_and_switch.  Which READY task the     *)
(* scheduler picks is left open.                                           *)
(***************************************************************************)
EXTENDS Integers, FiniteSets, Sequences

CONSTANTS
    Task, NoTask,
    Lockers,               \* tasks that use the mutex
    Listeners,             \* tasks that wait for events
    Senders, Receivers,    \* tasks that use the queue
    Bits, Masks,           \* the bits of event_t.flags in use, and the masks waited for
    Item, NoItem,
    QUEUE_CAP

(* One waiter at a time in each slot. *)
ASSUME SyncAssumption ==
    /\ NoTask \notin Task /\ NoItem \notin Item
    /\ Lockers \cup Listeners \cup Senders \cup Receivers \subseteq Task
    /\ \A a, b, c \in Lockers : a = b \/ b = c \/ a = c
    /\ \A a, b \in Listeners : a = b
    /\ \A a, b \in Senders : a = b
    /\ \A a, b \in Receivers : a = b
    /\ Masks \subseteq (SUBSET Bits) \ {{}}
    /\ QUEUE_CAP \in Nat \ {0}

VARIABLES
    current, state,   \* the running task; tcb_t.state
    at,       \* per task: in "run" (its own code), or in which call
    mutex, holds,     \* mutex_t; tasks between mutex_lock and mutex_unlock
    event,    \* event_t
    ret,      \* what event_wait was asked for and returns, until its caller took it
    queue,    \* queue_t
    item,     \* per task: the item it is about to send
    got       \* what queue_recv returned last

schedVars == <<current, state, at>>
mutexVars == <<mutex, holds>>
eventVars == <<event, ret>>
queueVars == <<queue, item, got>>
vars == <<schedVars, mutexVars, eventVars, queueVars>>

READY == 0
BLOCKED == 1

NoRet == [mask |-> {}, all |-> FALSE, bits |-> {}]

mutex_init == [locked |-> 0, owner |-> NoTask, waiter |-> NoTask]

event_init ==
    [flags |-> {}, waiter |-> NoTask, wait_mask |-> {}, wait_all |-> FALSE, wake_result |-> {}]

(* buf is left as it is. *)
queue_init(buf) ==
    [buf |-> buf, head |-> 0, tail |-> 0, count |-> 0, send_waiter |-> NoTask, recv_waiter |-> NoTask]

Init ==
    /\ current \in Task
    /\ state = [t \in Task |-> READY]
    /\ at = [t \in Task |-> "run"]
    /\ mutex = mutex_init /\ holds = {}
    /\ event = event_init /\ ret = NoRet
    /\ \E v \in Item : queue = queue_init([i \in 0..(QUEUE_CAP - 1) |-> v])
    /\ item = [t \in Task |-> NoItem]
    /\ got = NoItem

-----------------------------------------------------------------------------
(* t executes, at l. *)
Runs(t, l) == current = t /\ state[t] = READY /\ at[t] = l

(* The timer, or a yield, gives the CPU to another READY task. *)
Switch(t) ==
    /\ t # current /\ state[t] = READY
    /\ current' = t
    /\ UNCHANGED <<state, at, mutexVars, eventVars, queueVars>>

(* current->state = 1; another READY task runs, or t waits in place. *)
block_current_and_switch(t, l) ==
    LET ready == {u \in Task \ {t} : state[u] = READY}
    IN  /\ state' = [state EXCEPT ![t] = BLOCKED]
        /\ at' = [at EXCEPT ![t] = l]
        /\ IF ready = {} THEN UNCHANGED current ELSE current' \in ready

(* w->state = 0 for the task in a waiter slot, if there is one. *)
Wake(w) == state' = IF w = NoTask THEN state ELSE [state EXCEPT ![w] = READY]

Return(t) == at' = [at EXCEPT ![t] = "run"]

-----------------------------------------------------------------------------
(* Plausible mistakes, none of them part of Next.                          *)

(* The lock is freed although a waiter is woken for it. *)
mutex_unlockFrees(t) ==
    /\ Runs(t, "run") /\ t \in holds
    /\ mutex' = [locked |-> 0, owner |-> mutex.waiter, waiter |-> NoTask]
    /\ Wake(mutex.waiter)
    /\ holds' = holds \ {t}
    /\ UNCHANGED <<current, at, eventVars, queueVars>>

(* The live flags are read again after the wake-up. *)
EventWokenLive(t) ==
    /\ Runs(t, "event")
    /\ ret' = [mask |-> event.wait_mask, all |-> event.wait_all,
               bits |-> event.flags \cap event.wait_mask]
    /\ at' = [at EXCEPT ![t] = "bits"]
    /\ UNCHANGED <<current, state, mutexVars, event, queueVars>>

(* count <= QUEUE_CAP *)
SendItemOffByOne(t) ==
    /\ Runs(t, "send") /\ queue.count <= QUEUE_CAP
    /\ queue' = [queue EXCEPT !.buf[queue.tail] = item[t],
                              !.tail = (@ + 1) % QUEUE_CAP,
                              !.count = @ + 1, !.recv_waiter = NoTask]
    /\ Wake(queue.recv_waiter)
    /\ item' = [item EXCEPT ![t] = NoItem]
    /\ Return(t)
    /\ UNCHANGED <<current, mutexVars, eventVars, got>>

(* The sender is not woken when there is room again. *)
RecvItemNoWake(t) ==
    /\ Runs(t, "recv") /\ queue.count > 0
    /\ got' = queue.buf[queue.head]
    /\ queue' = [queue EXCEPT !.head = (@ + 1) % QUEUE_CAP, !.count = @ - 1]
    /\ Return(t)
    /\ UNCHANGED <<current, state, mutexVars, eventVars, item>>

-----------------------------------------------------------------------------
(* Mutex.                                                                  *)

MutexTake(t) ==
    /\ Runs(t, "run") /\ t \in Lockers \ holds
    /\ mutex.locked = 0
    /\ mutex' = [mutex EXCEPT !.locked = 1, !.owner = t]
    /\ holds' = holds \cup {t}
    /\ UNCHANGED <<schedVars, eventVars, queueVars>>

MutexBlock(t) ==
    /\ Runs(t, "run") /\ t \in Lockers \ holds
    /\ mutex.locked # 0
    /\ mutex' = [mutex EXCEPT !.waiter = t]
    /\ block_current_and_switch(t, "mutex")
    /\ UNCHANGED <<holds, eventVars, queueVars>>

(* Woken by mutex_unlock, mutex_lock returns without looking at the mutex. *)
MutexHanded(t) ==
    /\ Runs(t, "mutex")
    /\ holds' = holds \cup {t}
    /\ Return(t)
    /\ UNCHANGED <<current, state, mutex, eventVars, queueVars>>

(* With a waiter the mutex stays locked and becomes the waiter's. *)
mutex_unlock(t) ==
    /\ Runs(t, "run") /\ t \in holds
    /\ mutex' = [locked |-> IF mutex.waiter = NoTask THEN 0 ELSE mutex.locked,
                 owner |-> mutex.waiter, waiter |-> NoTask]
    /\ Wake(mutex.waiter)
    /\ holds' = holds \ {t}
    /\ UNCHANGED <<current, at, eventVars, queueVars>>

-----------------------------------------------------------------------------
(* Event flags.                                                            *)

event_satisfied(e) ==
    IF e.wait_all THEN e.wait_mask \subseteq e.flags ELSE e.flags \cap e.wait_mask # {}

event_set(bits) ==
    LET e == [event EXCEPT !.flags = @ \cup bits]
        wakes == e.waiter # NoTask /\ event_satisfied(e)
    IN  /\ event' = IF wakes THEN [e EXCEPT !.waiter = NoTask,
                                            !.wake_result = e.flags \cap e.wait_mask]
                             ELSE e
        /\ Wake(IF wakes THEN e.waiter ELSE NoTask)
        /\ UNCHANGED <<current, at, mutexVars, ret, queueVars>>

event_clear(bits) ==
    /\ event' = [event EXCEPT !.flags = @ \ bits]
    /\ UNCHANGED <<schedVars, mutexVars, ret, queueVars>>

event_wait(t, mask, all) ==
    LET e == [event EXCEPT !.wait_mask = mask, !.wait_all = all]
    IN  /\ Runs(t, "run") /\ t \in Listeners
        /\ IF event_satisfied(e)
           THEN /\ ret' = [mask |-> mask, all |-> all, bits |-> e.flags \cap mask]
                /\ event' = e
                /\ at' = [at EXCEPT ![t] = "bits"]
                /\ UNCHANGED <<current, state>>
           ELSE /\ event' = [e EXCEPT !.waiter = t]
                /\ block_current_and_switch(t, "event")
                /\ UNCHANGED ret
        /\ UNCHANGED <<mutexVars, queueVars>>

(* return e->wake_result *)
EventWoken(t) ==
    /\ Runs(t, "event")
    /\ ret' = [mask |-> event.wait_mask, all |-> event.wait_all, bits |-> event.wake_result]
    /\ at' = [at EXCEPT ![t] = "bits"]
    /\ UNCHANGED <<current, state, mutexVars, event, queueVars>>

(* The caller has its result. *)
EventReturn(t) ==
    /\ Runs(t, "bits")
    /\ ret' = NoRet
    /\ Return(t)
    /\ UNCHANGED <<current, state, mutexVars, event, queueVars>>

-----------------------------------------------------------------------------
(* Message queue: both calls go round a loop, one masked section at a time.*)

queue_send(t, v) ==
    /\ Runs(t, "run") /\ t \in Senders
    /\ item' = [item EXCEPT ![t] = v]
    /\ at' = [at EXCEPT ![t] = "send"]
    /\ UNCHANGED <<current, state, mutexVars, eventVars, queue, got>>

SendItem(t) ==
    /\ Runs(t, "send") /\ queue.count < QUEUE_CAP
    /\ queue' = [queue EXCEPT !.buf[queue.tail] = item[t],
                              !.tail = (@ + 1) % QUEUE_CAP,
                              !.count = @ + 1, !.recv_waiter = NoTask]
    /\ Wake(queue.recv_waiter)
    /\ item' = [item EXCEPT ![t] = NoItem]
    /\ Return(t)
    /\ UNCHANGED <<current, mutexVars, eventVars, got>>

SendBlock(t) ==
    /\ Runs(t, "send") /\ ~ queue.count < QUEUE_CAP
    /\ queue' = [queue EXCEPT !.send_waiter = t]
    /\ block_current_and_switch(t, "send")
    /\ UNCHANGED <<mutexVars, eventVars, item, got>>

queue_recv(t) ==
    /\ Runs(t, "run") /\ t \in Receivers
    /\ at' = [at EXCEPT ![t] = "recv"]
    /\ UNCHANGED <<current, state, mutexVars, eventVars, queueVars>>

RecvItem(t) ==
    /\ Runs(t, "recv") /\ queue.count > 0
    /\ got' = queue.buf[queue.head]
    /\ queue' = [queue EXCEPT !.head = (@ + 1) % QUEUE_CAP,
                              !.count = @ - 1, !.send_waiter = NoTask]
    /\ Wake(queue.send_waiter)
    /\ Return(t)
    /\ UNCHANGED <<current, mutexVars, eventVars, item>>

RecvBlock(t) ==
    /\ Runs(t, "recv") /\ ~ queue.count > 0
    /\ queue' = [queue EXCEPT !.recv_waiter = t]
    /\ block_current_and_switch(t, "recv")
    /\ UNCHANGED <<mutexVars, eventVars, item, got>>

-----------------------------------------------------------------------------
Call(t) ==
    \/ MutexTake(t) \/ MutexBlock(t) \/ mutex_unlock(t)
    \/ \E m \in Masks, all \in BOOLEAN : event_wait(t, m, all)
    \/ (\E v \in Item : queue_send(t, v)) \/ queue_recv(t)

(* What a task inside a call does by itself. *)
Step(t) ==
    \/ MutexHanded(t) \/ EventWoken(t) \/ EventReturn(t)
    \/ SendItem(t) \/ SendBlock(t) \/ RecvItem(t) \/ RecvBlock(t)

(* By any task, or by an interrupt handler, at any time. *)
SetEvents ==
    \E bits \in (SUBSET Bits) \ {{}} : event_set(bits) \/ event_clear(bits)

Next == SetEvents \/ \E t \in Task : Switch(t) \/ Call(t) \/ Step(t)

Spec == Init /\ [][Next]_vars

(* A READY task gets the CPU, and time enough on it for a step: what the   *)
(* round robin gives, and load_aware in queues too short for it to starve  *)
(* anybody.  No task need call anything, and no event need be set.         *)
FairSpec ==
    /\ Spec
    /\ \A t \in Task : SF_vars(Switch(t)) /\ SF_vars(Step(t))

-----------------------------------------------------------------------------
(* Every variable has its type. *)
TypeOK ==
    /\ current \in Task /\ state \in [Task -> {READY, BLOCKED}]
    /\ at \in [Task -> {"run", "mutex", "event", "bits", "send", "recv"}]
    /\ mutex \in [locked : {0, 1}, owner : Task \cup {NoTask}, waiter : Task \cup {NoTask}]
    /\ holds \subseteq Lockers
    /\ event \in [flags : SUBSET Bits, waiter : Task \cup {NoTask}, wait_mask : SUBSET Bits,
                  wait_all : BOOLEAN, wake_result : SUBSET Bits]
    /\ ret \in [mask : SUBSET Bits, all : BOOLEAN, bits : SUBSET Bits]
    /\ queue \in [buf : [0..(QUEUE_CAP - 1) -> Item], head : 0..(QUEUE_CAP - 1),
                  tail : 0..(QUEUE_CAP - 1), count : 0..QUEUE_CAP,
                  send_waiter : Task \cup {NoTask}, recv_waiter : Task \cup {NoTask}]
    /\ item \in [Task -> Item \cup {NoItem}] /\ got \in Item \cup {NoItem}

ML == INSTANCE AtomicLock WITH
          Proc <- Task, waiting <- {t \in Task : at[t] = "mutex"}, holders <- holds

(* The mutex is a lock although mutex_lock does not look again after it    *)
(* was woken: a handover keeps it locked until the new owner runs          *)
(* (mutex_lock, mutex_unlock).                                             *)
MutexAtomic == ML!Spec

BF == INSTANCE BoundedFifo WITH
          Cap <- QUEUE_CAP, out <- got,
          chan <- [i \in 1..queue.count |-> queue.buf[(queue.head + i - 1) % QUEUE_CAP]]

(* The ring buffer and its retry loops are a FIFO: nothing is lost,        *)
(* received twice, out of order or over capacity, with a sender and a      *)
(* receiver that block and wake each other (queue_send, queue_recv).       *)
QueueAtomic == BF!Spec

(* A BLOCKED task is in one waiter slot, the one of the call it is in, and *)
(* for a reason: the event has not happened, the queue is full or empty,   *)
(* the mutex is somebody else's.  Nobody else is in a slot.                *)
BlockedForAReason ==
    \A t \in Task :
        /\ mutex.waiter = t <=> state[t] = BLOCKED /\ at[t] = "mutex"
        /\ event.waiter = t <=> state[t] = BLOCKED /\ at[t] = "event"
        /\ queue.send_waiter = t <=> state[t] = BLOCKED /\ at[t] = "send"
        /\ queue.recv_waiter = t <=> state[t] = BLOCKED /\ at[t] = "recv"
        /\ mutex.waiter = t => mutex.locked = 1 /\ mutex.owner # t
        /\ event.waiter = t => ~ event_satisfied(event)
        /\ queue.send_waiter = t => queue.count = QUEUE_CAP
        /\ queue.recv_waiter = t => queue.count = 0

(* event_wait returns bits that fulfil what it was asked for, whatever     *)
(* other tasks and interrupt handlers set and clear before it gets the CPU *)
(* back (wake_result).                                                     *)
EventResult ==
    /\ ret.bits \subseteq ret.mask
    /\ ret.mask # {} => IF ret.all THEN ret.bits = ret.mask ELSE ret.bits # {}

(* A queue_send with room and a queue_recv with items come to their end.   *)
QueueServes ==
    /\ \A t \in Senders : (at[t] = "send" /\ queue.count < QUEUE_CAP) ~> (at[t] # "send")
    /\ \A t \in Receivers : (at[t] = "recv" /\ queue.count > 0) ~> (at[t] # "recv")
=============================================================================
