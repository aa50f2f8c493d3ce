--------------------------- MODULE IrqSyncProofs ----------------------------
(***************************************************************************)
(* The mutex, the event flags and the message queue of sync.c keep their   *)
(* promises for any tasks, bits, items and capacity, as long as each       *)
(* waiter slot has one client (SyncAssumption).                            *)
(***************************************************************************)
EXTENDS IrqSync, TLAPS

(* The owner is the one task that holds the mutex or was handed it; nobody *)
(* else holds it.                                                          *)
MutexInv ==
    /\ \A t \in Task : at[t] = "mutex" => t \in Lockers \ holds
    /\ \A t \in holds : mutex.locked = 1 /\ mutex.owner = t
    /\ \A t \in Task :
          at[t] = "mutex" /\ state[t] = READY => mutex.locked = 1 /\ mutex.owner = t
    /\ mutex.locked = 1 =>
          /\ mutex.owner \in Task
          /\ mutex.owner \in holds \/ (at[mutex.owner] = "mutex" /\ state[mutex.owner] = READY)
    /\ \A t \in Task :
          /\ mutex.waiter = t <=> state[t] = BLOCKED /\ at[t] = "mutex"
          /\ mutex.waiter = t => mutex.locked = 1 /\ mutex.owner # t

Fulfils(bits, mask, all) ==
    /\ bits \subseteq mask
    /\ IF all THEN bits = mask ELSE bits # {}

(* The result of a woken task fulfils what it asked for. *)
EventInv ==
    /\ \A t \in Task : at[t] \in {"event", "bits"} => t \in Listeners
    /\ \A t \in Task : at[t] = "event" /\ state[t] = READY =>
          Fulfils(event.wake_result, event.wait_mask, event.wait_all)
    /\ ret = NoRet \/ Fulfils(ret.bits, ret.mask, ret.all)
    /\ \A t \in Task :
          /\ event.waiter = t <=> state[t] = BLOCKED /\ at[t] = "event"
          /\ event.waiter = t => ~ event_satisfied(event)

(* The ring is between head and tail. *)
QueueInv ==
    /\ \A t \in Task : at[t] = "send" => t \in Senders /\ item[t] \in Item
    /\ \A t \in Task : at[t] = "recv" => t \in Receivers
    /\ queue.tail = (queue.head + queue.count) % QUEUE_CAP
    /\ \A t \in Task :
          /\ queue.send_waiter = t <=> state[t] = BLOCKED /\ at[t] = "send"
          /\ queue.recv_waiter = t <=> state[t] = BLOCKED /\ at[t] = "recv"
          /\ queue.send_waiter = t => queue.count = QUEUE_CAP
          /\ queue.recv_waiter = t => queue.count = 0

SyncInv == TypeOK /\ MutexInv /\ EventInv /\ QueueInv

USE SyncAssumption

(* What is left alone keeps its invariant. *)
LEMMA MutexKept ==
    ASSUME MutexInv, UNCHANGED mutexVars,
           \A t \in Task : /\ at'[t] = "mutex" <=> at[t] = "mutex"
                           /\ at[t] = "mutex" => state'[t] = state[t]
    PROVE  MutexInv'
BY DEF MutexInv, mutexVars

(* A step that touches neither the event nor its callers. *)
LEMMA EventKept ==
    ASSUME EventInv, UNCHANGED eventVars,
           \A t \in Task : /\ at'[t] = at[t] \/ {at[t], at'[t]} \cap {"event", "bits"} = {}
                           /\ at[t] = "event" => state'[t] = state[t]
    PROVE  EventInv'
BY Zenon DEF EventInv, eventVars, event_satisfied, Fulfils, NoRet

(* A step that touches neither the queue nor its callers. *)
LEMMA QueueKept ==
    ASSUME QueueInv, UNCHANGED queueVars,
           \A t \in Task : /\ at'[t] = at[t] \/ {at[t], at'[t]} \cap {"send", "recv"} = {}
                           /\ at[t] \in {"send", "recv"} => state'[t] = state[t]
    PROVE  QueueInv'
BY Zenon DEF QueueInv, queueVars

(* mutex_init, event_init and queue_init establish the invariant. *)
LEMMA SyncInvInit == Init => SyncInv
<1> SUFFICES ASSUME Init PROVE SyncInv
  OBVIOUS
<1>1. TypeOK
  BY DEF Init, mutex_init, event_init, queue_init, TypeOK, NoRet, READY, BLOCKED
<1>2. MutexInv /\ EventInv /\ QueueInv
  BY DEF Init, mutex_init, event_init, queue_init, MutexInv, EventInv, QueueInv, READY, BLOCKED
<1> QED BY <1>1, <1>2 DEF SyncInv

(* Blocking and waking touch the caller, or the waiter, only. *)
LEMMA Blocking ==
    ASSUME TypeOK, NEW t \in Task, NEW l \in {"mutex", "event", "send", "recv"},
           block_current_and_switch(t, l)
    PROVE  /\ current' \in Task /\ state' \in [Task -> {READY, BLOCKED}]
           /\ at' \in [Task -> {"run", "mutex", "event", "bits", "send", "recv"}]
           /\ state'[t] = BLOCKED /\ at'[t] = l
           /\ \A u \in Task \ {t} : state'[u] = state[u] /\ at'[u] = at[u]
BY DEF TypeOK, block_current_and_switch

(* What w->state = 0 does to the states of the tasks. *)
LEMMA Waking ==
    ASSUME TypeOK, NEW w \in Task \cup {NoTask}, Wake(w)
    PROVE  /\ state' \in [Task -> {READY, BLOCKED}]
           /\ \A u \in Task : state'[u] = IF u = w THEN READY ELSE state[u]
BY DEF TypeOK, Wake, READY, BLOCKED

(* mutex_lock and mutex_unlock preserve the invariant. *)
LEMMA MutexStep ==
    ASSUME SyncInv, NEW t \in Task,
           MutexTake(t) \/ MutexBlock(t) \/ MutexHanded(t) \/ mutex_unlock(t)
    PROVE  SyncInv'
<1> USE DEF SyncInv
<1>1. CASE MutexTake(t)
  <2>1. TypeOK'
    <3>1. mutex' \in [locked : {0, 1}, owner : Task \cup {NoTask}, waiter : Task \cup {NoTask}]
      BY <1>1, Zenon DEF TypeOK, MutexTake
    <3> QED BY <1>1, <3>1 DEF TypeOK, MutexTake, schedVars, eventVars, queueVars
  <2>2. MutexInv'
    BY <1>1 DEF TypeOK, MutexInv, MutexTake, Runs, schedVars, READY, BLOCKED
  <2>3. EventInv' /\ QueueInv'
    BY <1>1, EventKept, QueueKept DEF MutexTake, schedVars
  <2> QED BY <2>1, <2>2, <2>3
<1>2. CASE MutexBlock(t)
  <2>1. /\ at[t] = "run" /\ state[t] = READY /\ t \in Lockers \ holds
        /\ mutex.locked = 1 /\ mutex' = [mutex EXCEPT !.waiter = t]
        /\ block_current_and_switch(t, "mutex") /\ UNCHANGED <<holds, eventVars, queueVars>>
    BY <1>2 DEF TypeOK, MutexBlock, Runs
  <2>2. mutex.waiter = NoTask
    <3> SUFFICES ASSUME mutex.waiter \in Task PROVE FALSE
      BY DEF TypeOK
    <3>1. mutex.waiter \in Lockers /\ mutex.waiter # mutex.owner /\ mutex.waiter # t
      BY <2>1 DEF MutexInv
    <3>2. mutex.owner \in Lockers /\ mutex.owner # t
      BY <2>1 DEF MutexInv, TypeOK
    <3> QED BY <2>1, <3>1, <3>2
  <2>3. TypeOK'
    BY <2>1, Blocking, Zenon DEF TypeOK, eventVars, queueVars
  <2>4. MutexInv'
    BY <2>1, <2>2, Blocking DEF TypeOK, MutexInv, READY, BLOCKED
  <2>5. EventInv' /\ QueueInv'
    BY <2>1, Blocking, EventKept, QueueKept
  <2> QED BY <2>3, <2>4, <2>5
<1>3. CASE MutexHanded(t)
  <2>1. TypeOK'
    BY <1>3 DEF TypeOK, MutexInv, MutexHanded, Runs, Return, eventVars, queueVars
  <2>2. MutexInv'
    BY <1>3 DEF TypeOK, MutexInv, MutexHanded, Runs, Return, READY, BLOCKED
  <2>3. EventInv' /\ QueueInv'
    BY <1>3, EventKept, QueueKept DEF TypeOK, MutexHanded, Runs, Return
  <2> QED BY <2>1, <2>2, <2>3
<1>4. CASE mutex_unlock(t)
  <2>1. mutex.waiter \in Task \cup {NoTask} /\ Wake(mutex.waiter)
    BY <1>4 DEF TypeOK, mutex_unlock
  <2>2. TypeOK'
    BY <1>4, <2>1, Waking DEF TypeOK, mutex_unlock, eventVars, queueVars
  <2>3. MutexInv'
    BY <1>4, <2>1, Waking DEF TypeOK, MutexInv, mutex_unlock, Runs, READY, BLOCKED
  <2>4. EventInv' /\ QueueInv'
    BY <1>4, <2>1, Waking, EventKept, QueueKept DEF MutexInv, mutex_unlock
  <2> QED BY <2>2, <2>3, <2>4
<1> QED BY <1>1, <1>2, <1>3, <1>4

(* event_set and event_clear preserve the invariant. *)
LEMMA EventSetStep ==
    ASSUME SyncInv, NEW bits \in SUBSET Bits, event_set(bits) \/ event_clear(bits)
    PROVE  SyncInv'
<1> USE DEF SyncInv
<1>1. CASE event_set(bits)
  <2> DEFINE e == [event EXCEPT !.flags = @ \cup bits]
             wakes == e.waiter # NoTask /\ event_satisfied(e)
             w == IF wakes THEN e.waiter ELSE NoTask
  <2>1. /\ event' = IF wakes THEN [e EXCEPT !.waiter = NoTask,
                                           !.wake_result = e.flags \cap e.wait_mask]
                             ELSE e
        /\ Wake(w)
        /\ UNCHANGED <<current, at, mutexVars, ret, queueVars>>
    BY <1>1 DEF event_set
  <2>2. /\ e.flags = event.flags \cup bits /\ e.waiter = event.waiter
        /\ e.wait_mask = event.wait_mask /\ e.wait_all = event.wait_all
        /\ e.wake_result = event.wake_result
        /\ e \in [flags : SUBSET Bits, waiter : Task \cup {NoTask}, wait_mask : SUBSET Bits,
                  wait_all : BOOLEAN, wake_result : SUBSET Bits]
        /\ e.waiter \in Task \cup {NoTask} /\ w \in Task \cup {NoTask}
    BY DEF TypeOK
  <2>3. wakes => w \in Task /\ at[w] = "event" /\ state[w] = BLOCKED
    BY <2>2 DEF EventInv
  <2> HIDE DEF w
  <2>4. /\ state' \in [Task -> {READY, BLOCKED}]
        /\ \A u \in Task : state'[u] = IF u = w THEN READY ELSE state[u]
    BY <2>1, <2>2, Waking
  <2>5. TypeOK'
    BY <2>1, <2>2, <2>4, Zenon DEF TypeOK, mutexVars, queueVars
  <2>6. MutexInv' /\ QueueInv'
    BY <2>1, <2>3, <2>4, MutexKept, QueueKept, Zenon DEF w
  <2>7. EventInv'
    BY <2>1, <2>2, <2>3, <2>4 DEF TypeOK, EventInv, event_satisfied, Fulfils, w, READY, BLOCKED
  <2> QED BY <2>5, <2>6, <2>7
<1>2. CASE event_clear(bits)
  <2>1. TypeOK'
    BY <1>2, Zenon DEF TypeOK, event_clear, schedVars, mutexVars, queueVars
  <2>2. MutexInv' /\ QueueInv'
    BY <1>2, MutexKept, QueueKept DEF event_clear, schedVars
  <2>3. EventInv'
    BY <1>2 DEF TypeOK, EventInv, event_clear, event_satisfied, Fulfils, schedVars
  <2> QED BY <2>1, <2>2, <2>3
<1> QED BY <1>1, <1>2

(* event_wait preserves the invariant, whether it returns or blocks. *)
LEMMA EventWaitStep ==
    ASSUME SyncInv, NEW t \in Task, NEW m \in Masks, NEW all \in BOOLEAN, event_wait(t, m, all)
    PROVE  SyncInv'
<1> USE DEF SyncInv
<1> DEFINE e == [event EXCEPT !.wait_mask = m, !.wait_all = all]
<1>1. /\ at[t] = "run" /\ state[t] = READY /\ t \in Listeners
      /\ UNCHANGED <<mutexVars, queueVars>>
  BY DEF event_wait, Runs
<1>2. /\ e.flags = event.flags /\ e.waiter = event.waiter /\ e.wait_mask = m /\ e.wait_all = all
      /\ e.wake_result = event.wake_result
      /\ e \in [flags : SUBSET Bits, waiter : Task \cup {NoTask}, wait_mask : SUBSET Bits,
                wait_all : BOOLEAN, wake_result : SUBSET Bits]
      /\ m # {}
  <2>1. m \in SUBSET Bits /\ m # {}
    BY Zenon
  <2>2. event \in [flags : SUBSET Bits, waiter : Task \cup {NoTask}, wait_mask : SUBSET Bits,
                   wait_all : BOOLEAN, wake_result : SUBSET Bits]
    BY DEF TypeOK
  <2> QED BY <2>1, <2>2, Zenon
<1>3. /\ event.waiter = NoTask
      /\ \A u \in Task \ {t} : at[u] \notin {"event", "bits"}
  BY <1>1 DEF TypeOK, EventInv
<1>4. CASE event_satisfied(e)
  <2>1. /\ ret' = [mask |-> m, all |-> all, bits |-> e.flags \cap m] /\ event' = e
        /\ at' = [at EXCEPT ![t] = "bits"] /\ UNCHANGED <<current, state>>
    BY <1>4 DEF event_wait
  <2>2. TypeOK'
    BY <1>1, <1>2, <2>1 DEF TypeOK, mutexVars, queueVars
  <2>3. MutexInv' /\ QueueInv'
    BY <1>1, <2>1, MutexKept, QueueKept DEF TypeOK
  <2>4. EventInv'
    BY <1>1, <1>2, <1>3, <1>4, <2>1 DEF TypeOK, EventInv, event_satisfied, Fulfils, READY, BLOCKED
  <2> QED BY <2>2, <2>3, <2>4
<1>5. CASE ~ event_satisfied(e)
  <2>1. event' = [e EXCEPT !.waiter = t] /\ block_current_and_switch(t, "event") /\ ret' = ret
    BY <1>5 DEF event_wait
  <2>2. TypeOK'
    BY <1>1, <1>2, <2>1, Blocking, Zenon DEF TypeOK, mutexVars, queueVars
  <2>3. MutexInv' /\ QueueInv'
    BY <1>1, <2>1, Blocking, MutexKept, QueueKept
  <2>4. event'.waiter = t /\ event_satisfied(event)' = event_satisfied(e)
    BY <1>2, <2>1, Zenon DEF event_satisfied
  <2>5. /\ state'[t] = BLOCKED /\ at'[t] = "event"
        /\ \A u \in Task \ {t} : at'[u] \notin {"event", "bits"}
    BY <1>3, <2>1, Blocking
  <2>6. EventInv'
    BY <1>1, <1>5, <2>1, <2>4, <2>5 DEF EventInv, NoRet, READY, BLOCKED
  <2> QED BY <2>2, <2>3, <2>6
<1> QED BY <1>4, <1>5

(* The way out of event_wait preserves the invariant. *)
LEMMA EventDoneStep ==
    ASSUME SyncInv, NEW t \in Task, EventWoken(t) \/ EventReturn(t)
    PROVE  SyncInv'
<1> USE DEF SyncInv
<1>1. /\ at[t] \in {"event", "bits"} /\ state[t] = READY
      /\ at' = [at EXCEPT ![t] = IF EventWoken(t) THEN "bits" ELSE "run"]
      /\ UNCHANGED <<current, state, mutexVars, event, queueVars>>
  BY DEF EventWoken, EventReturn, Runs, Return
<1>2. TypeOK'
  <2>1. ret' \in [mask : SUBSET Bits, all : BOOLEAN, bits : SUBSET Bits]
    <3>1. CASE EventReturn(t)
      BY <3>1 DEF EventReturn, NoRet
    <3>2. CASE EventWoken(t)
      BY <3>2, Zenon DEF TypeOK, EventWoken
    <3> QED BY <3>1, <3>2
  <2> QED BY <1>1, <2>1 DEF TypeOK, mutexVars, queueVars
<1>3. MutexInv' /\ QueueInv'
  BY <1>1, MutexKept, QueueKept DEF TypeOK
<1>4. ret' = NoRet \/ Fulfils(ret'.bits, ret'.mask, ret'.all)
  BY <1>1 DEF EventInv, EventWoken, EventReturn, Runs
<1>5. EventInv'
  BY <1>1, <1>4 DEF TypeOK, EventInv, event_satisfied, READY, BLOCKED
<1> QED BY <1>2, <1>3, <1>5

(* Indices of the ring, without the remainder. *)
LEMMA Wrap ==
    ASSUME NEW i \in 0..(2 * QUEUE_CAP - 1)
    PROVE  i % QUEUE_CAP = IF i < QUEUE_CAP THEN i ELSE i - QUEUE_CAP
OBVIOUS

(* Indices into buf, one further: (h + n) + 1 modulo QUEUE_CAP. *)
LEMMA Stepped ==
    ASSUME NEW h \in 0..(QUEUE_CAP - 1)
    PROVE  /\ \A n \in 0..(QUEUE_CAP - 1) :
                (((h + n) % QUEUE_CAP) + 1) % QUEUE_CAP = (h + (n + 1)) % QUEUE_CAP
           /\ \A n \in 1..QUEUE_CAP :
                (h + n) % QUEUE_CAP = (((h + 1) % QUEUE_CAP) + (n - 1)) % QUEUE_CAP
<1>1. ASSUME NEW n \in 0..(QUEUE_CAP - 1)
      PROVE  (((h + n) % QUEUE_CAP) + 1) % QUEUE_CAP = (h + (n + 1)) % QUEUE_CAP
  <2>1. (h + n) % QUEUE_CAP = IF h + n < QUEUE_CAP THEN h + n ELSE h + n - QUEUE_CAP
    BY Wrap
  <2>2. (h + (n + 1)) % QUEUE_CAP =
          IF h + n + 1 < QUEUE_CAP THEN h + n + 1 ELSE h + n + 1 - QUEUE_CAP
    BY Wrap
  <2>3. ((h + n) % QUEUE_CAP) + 1 \in 0..(2 * QUEUE_CAP - 1)
    BY <2>1
  <2> QED BY <2>1, <2>2, <2>3, Wrap
<1>2. ASSUME NEW n \in 1..QUEUE_CAP
      PROVE  (h + n) % QUEUE_CAP = (((h + 1) % QUEUE_CAP) + (n - 1)) % QUEUE_CAP
  <2>1. (h + n) % QUEUE_CAP = IF h + n < QUEUE_CAP THEN h + n ELSE h + n - QUEUE_CAP
    BY Wrap
  <2>2. (h + 1) % QUEUE_CAP = IF h + 1 < QUEUE_CAP THEN h + 1 ELSE h + 1 - QUEUE_CAP
    BY Wrap
  <2>3. CASE h + 1 < QUEUE_CAP
    BY <2>2, <2>3
  <2>4. CASE h + 1 = QUEUE_CAP
    BY <2>1, <2>2, <2>4, Wrap
  <2> QED BY <2>3, <2>4
<1> QED BY <1>1, <1>2

(* queue_send and queue_recv preserve the invariant. *)
LEMMA QueueStep ==
    ASSUME SyncInv, NEW t \in Task,
           \/ (\E v \in Item : queue_send(t, v)) \/ SendItem(t) \/ SendBlock(t)
           \/ queue_recv(t) \/ RecvItem(t) \/ RecvBlock(t)
    PROVE  SyncInv'
<1> USE DEF SyncInv
<1>1. ASSUME NEW v \in Item, queue_send(t, v) PROVE SyncInv'
  <2>1. TypeOK'
    BY <1>1 DEF TypeOK, queue_send, mutexVars, eventVars
  <2>2. MutexInv' /\ EventInv'
    BY <1>1, MutexKept, EventKept DEF TypeOK, queue_send, Runs
  <2>3. QueueInv'
    BY <1>1 DEF TypeOK, QueueInv, queue_send, Runs, READY, BLOCKED
  <2> QED BY <2>1, <2>2, <2>3
<1>2. CASE SendItem(t)
  <2>1. /\ at[t] = "send" /\ state[t] = READY /\ queue.count < QUEUE_CAP
        /\ queue.recv_waiter \in Task \cup {NoTask} /\ Wake(queue.recv_waiter)
        /\ at' = [at EXCEPT ![t] = "run"] /\ item[t] \in Item
        /\ UNCHANGED <<current, mutexVars, eventVars>>
    BY <1>2 DEF TypeOK, QueueInv, SendItem, Runs, Return
  <2>2. /\ queue'.buf = [queue.buf EXCEPT ![queue.tail] = item[t]]
        /\ queue'.head = queue.head /\ queue'.tail = (queue.tail + 1) % QUEUE_CAP
        /\ queue'.count = queue.count + 1
        /\ queue'.send_waiter = queue.send_waiter /\ queue'.recv_waiter = NoTask
    BY <1>2 DEF TypeOK, SendItem
  <2>3. /\ queue' = [queue EXCEPT !.buf = [@ EXCEPT ![queue.tail] = item[t]],
                                  !.tail = (@ + 1) % QUEUE_CAP,
                                  !.count = @ + 1, !.recv_waiter = NoTask]
        /\ (queue.tail + 1) % QUEUE_CAP \in 0..(QUEUE_CAP - 1)
    BY <1>2 DEF TypeOK, SendItem
  <2>4. TypeOK'
    <3>1. queue' \in [buf : [0..(QUEUE_CAP - 1) -> Item], head : 0..(QUEUE_CAP - 1),
                    tail : 0..(QUEUE_CAP - 1), count : 0..QUEUE_CAP,
                    send_waiter : Task \cup {NoTask}, recv_waiter : Task \cup {NoTask}]
      <4>1. /\ [queue.buf EXCEPT ![queue.tail] = item[t]] \in [0..(QUEUE_CAP - 1) -> Item]
            /\ queue.count + 1 \in 0..QUEUE_CAP
        BY <2>1 DEF TypeOK
      <4> QED BY <2>3, <4>1, Zenon DEF TypeOK
    <3> QED BY <1>2, <2>1, <3>1, Waking DEF TypeOK, SendItem, mutexVars, eventVars
  <2>5. queue'.tail = (queue'.head + queue'.count) % QUEUE_CAP
    <3>1. /\ queue.head \in 0..(QUEUE_CAP - 1) /\ queue.count \in 0..(QUEUE_CAP - 1)
          /\ queue.tail = (queue.head + queue.count) % QUEUE_CAP
      BY <2>1 DEF TypeOK, QueueInv
    <3>2. (((queue.head + queue.count) % QUEUE_CAP) + 1) % QUEUE_CAP
            = (queue.head + (queue.count + 1)) % QUEUE_CAP
      BY <3>1, Stepped, Zenon
    <3> QED BY <2>2, <3>1, <3>2, Zenon
  <2>6. QueueInv'
    <3>1. \A u \in Task : state'[u] = IF u = queue.recv_waiter THEN READY ELSE state[u]
      BY <2>1, Waking
    <3>2. /\ at'[t] = "run" /\ \A u \in Task \ {t} : at'[u] = at[u] /\ item'[u] = item[u]
      BY <1>2 DEF TypeOK, SendItem, Return
    <3>3. \A u \in Task : /\ queue.send_waiter # u /\ ~ (state[u] = BLOCKED /\ at[u] = "send")
                          /\ queue.recv_waiter = u <=> state[u] = BLOCKED /\ at[u] = "recv"
      BY <2>1 DEF QueueInv
    <3>4. ASSUME NEW u \in Task
          PROVE  /\ at'[u] = "send" => u \in Senders /\ item'[u] \in Item
                 /\ at'[u] = "recv" => u \in Receivers
                 /\ ~ (state'[u] = BLOCKED /\ at'[u] = "send")
                 /\ ~ (state'[u] = BLOCKED /\ at'[u] = "recv")
      <4>1. CASE u = t
        BY <3>2, <4>1
      <4>2. CASE u # t
        <5>1. at'[u] = at[u] /\ item'[u] = item[u]
          BY <3>2, <4>2
        <5>2. state'[u] = BLOCKED => state[u] = BLOCKED /\ u # queue.recv_waiter
          BY <3>1 DEF READY, BLOCKED
        <5>3. /\ at[u] = "send" => u \in Senders /\ item[u] \in Item
              /\ at[u] = "recv" => u \in Receivers
          BY DEF QueueInv
        <5> QED BY <3>3, <5>1, <5>2, <5>3, Zenon
      <4> QED BY <4>1, <4>2
    <3>5. \A u \in Task : queue'.send_waiter # u /\ queue'.recv_waiter # u
      BY <2>2, <3>3
    <3> QED BY <2>5, <3>4, <3>5, Zenon DEF QueueInv
  <2>7. MutexInv' /\ EventInv'
    BY <2>1, Waking, MutexKept, EventKept DEF TypeOK, QueueInv
  <2> QED BY <2>4, <2>6, <2>7
<1>3. CASE SendBlock(t)
  <2>1. /\ at[t] = "send" /\ state[t] = READY /\ queue.count = QUEUE_CAP
        /\ queue' = [queue EXCEPT !.send_waiter = t] /\ block_current_and_switch(t, "send")
        /\ UNCHANGED <<mutexVars, eventVars, item, got>>
    BY <1>3 DEF TypeOK, SendBlock, Runs
  <2>2. queue.send_waiter = NoTask
    BY <2>1 DEF TypeOK, QueueInv, READY, BLOCKED
  <2>3. TypeOK'
    BY <2>1, Blocking, Zenon DEF TypeOK, mutexVars, eventVars
  <2>4. QueueInv'
    BY <2>1, <2>2, Blocking DEF TypeOK, QueueInv, READY, BLOCKED
  <2>5. MutexInv' /\ EventInv'
    BY <2>1, Blocking, MutexKept, EventKept
  <2> QED BY <2>3, <2>4, <2>5
<1>4. CASE queue_recv(t)
  <2>1. TypeOK'
    BY <1>4 DEF TypeOK, queue_recv, mutexVars, eventVars, queueVars
  <2>2. MutexInv' /\ EventInv'
    BY <1>4, MutexKept, EventKept DEF TypeOK, queue_recv, Runs
  <2>3. QueueInv'
    BY <1>4 DEF TypeOK, QueueInv, queue_recv, Runs, queueVars, READY, BLOCKED
  <2> QED BY <2>1, <2>2, <2>3
<1>5. CASE RecvItem(t)
  <2>1. /\ at[t] = "recv" /\ state[t] = READY /\ queue.count > 0
        /\ queue.send_waiter \in Task \cup {NoTask} /\ Wake(queue.send_waiter)
        /\ at' = [at EXCEPT ![t] = "run"] /\ got' = queue.buf[queue.head]
        /\ UNCHANGED <<current, mutexVars, eventVars, item>>
    BY <1>5 DEF TypeOK, RecvItem, Runs, Return
  <2>2. /\ queue' = [queue EXCEPT !.head = (@ + 1) % QUEUE_CAP,
                                  !.count = @ - 1, !.send_waiter = NoTask]
        /\ (queue.head + 1) % QUEUE_CAP \in 0..(QUEUE_CAP - 1)
    BY <1>5 DEF TypeOK, RecvItem
  <2>3. TypeOK'
    <3>1. queue' \in [buf : [0..(QUEUE_CAP - 1) -> Item], head : 0..(QUEUE_CAP - 1),
                    tail : 0..(QUEUE_CAP - 1), count : 0..QUEUE_CAP,
                    send_waiter : Task \cup {NoTask}, recv_waiter : Task \cup {NoTask}]
      <4>1. queue.count - 1 \in 0..QUEUE_CAP
        BY <2>1 DEF TypeOK
      <4> QED BY <2>2, <4>1, Zenon DEF TypeOK
    <3>2. got' \in Item
      BY <2>1 DEF TypeOK
    <3> QED BY <2>1, <3>1, <3>2, Waking DEF TypeOK, mutexVars, eventVars
  <2>4. queue'.tail = (queue'.head + queue'.count) % QUEUE_CAP
    <3>1. /\ queue.head \in 0..(QUEUE_CAP - 1) /\ queue.count \in 1..QUEUE_CAP
          /\ queue.tail = (queue.head + queue.count) % QUEUE_CAP
      BY <2>1 DEF TypeOK, QueueInv
    <3>2. /\ queue'.head = (queue.head + 1) % QUEUE_CAP /\ queue'.count = queue.count - 1
          /\ queue'.tail = queue.tail
      BY <2>2 DEF TypeOK
    <3>3. (queue.head + queue.count) % QUEUE_CAP
             = (((queue.head + 1) % QUEUE_CAP) + (queue.count - 1)) % QUEUE_CAP
      BY <3>1, Stepped, Zenon
    <3> QED BY <3>1, <3>2, <3>3, Zenon
  <2>5. /\ queue'.send_waiter = NoTask /\ queue'.recv_waiter = queue.recv_waiter
        /\ queue'.count = queue.count - 1 /\ queue.count \in Nat
    BY <2>2 DEF TypeOK
  <2>6. QueueInv'
    <3>1. \A u \in Task : state'[u] = IF u = queue.send_waiter THEN READY ELSE state[u]
      BY <2>1, Waking
    <3>2. at'[t] = "run" /\ item' = item /\ \A u \in Task \ {t} : at'[u] = at[u]
      BY <2>1 DEF TypeOK
    <3>3. \A u \in Task : /\ queue.recv_waiter # u /\ ~ (state[u] = BLOCKED /\ at[u] = "recv")
                          /\ queue.send_waiter = u <=> state[u] = BLOCKED /\ at[u] = "send"
      BY <2>1, <2>5 DEF QueueInv
    <3>4. ASSUME NEW u \in Task
          PROVE  /\ at'[u] = "send" => u \in Senders /\ item'[u] \in Item
                 /\ at'[u] = "recv" => u \in Receivers
                 /\ ~ (state'[u] = BLOCKED /\ at'[u] = "send")
                 /\ ~ (state'[u] = BLOCKED /\ at'[u] = "recv")
      <4>1. CASE u = t
        BY <3>2, <4>1
      <4>2. CASE u # t
        <5>1. at'[u] = at[u] /\ item' = item
          BY <3>2, <4>2
        <5>2. state'[u] = BLOCKED => state[u] = BLOCKED /\ u # queue.send_waiter
          BY <3>1 DEF READY, BLOCKED
        <5>3. /\ at[u] = "send" => u \in Senders /\ item[u] \in Item
              /\ at[u] = "recv" => u \in Receivers
          BY DEF QueueInv
        <5> QED BY <3>3, <5>1, <5>2, <5>3, Zenon
      <4> QED BY <4>1, <4>2
    <3>5. \A u \in Task : queue'.send_waiter # u /\ queue'.recv_waiter # u
      BY <2>5, <3>3
    <3> QED BY <2>4, <3>4, <3>5, Zenon DEF QueueInv
  <2>7. MutexInv' /\ EventInv'
    BY <2>1, Waking, MutexKept, EventKept DEF TypeOK, QueueInv
  <2> QED BY <2>3, <2>6, <2>7
<1>6. CASE RecvBlock(t)
  <2>1. /\ at[t] = "recv" /\ state[t] = READY /\ queue.count = 0
        /\ queue' = [queue EXCEPT !.recv_waiter = t] /\ block_current_and_switch(t, "recv")
        /\ UNCHANGED <<mutexVars, eventVars, item, got>>
    BY <1>6 DEF TypeOK, RecvBlock, Runs
  <2>2. queue.recv_waiter = NoTask
    BY <2>1 DEF TypeOK, QueueInv, READY, BLOCKED
  <2>3. TypeOK'
    BY <2>1, Blocking, Zenon DEF TypeOK, mutexVars, eventVars
  <2>4. QueueInv'
    BY <2>1, <2>2, Blocking DEF TypeOK, QueueInv, READY, BLOCKED
  <2>5. MutexInv' /\ EventInv'
    BY <2>1, Blocking, MutexKept, EventKept
  <2> QED BY <2>3, <2>4, <2>5
<1> QED BY <1>1, <1>2, <1>3, <1>4, <1>5, <1>6

(* So does every step of a task, the scheduler or an interrupt handler. *)
LEMMA SyncInvStep == SyncInv /\ [Next]_vars => SyncInv'
<1> SUFFICES ASSUME SyncInv, [Next]_vars PROVE SyncInv'
  OBVIOUS
<1>1. CASE SetEvents
  BY <1>1, EventSetStep DEF SetEvents
<1>2. ASSUME NEW t \in Task, Switch(t) PROVE SyncInv'
  <2>1. TypeOK'
    BY <1>2 DEF SyncInv, TypeOK, Switch, mutexVars, eventVars, queueVars
  <2> QED BY <1>2, <2>1, MutexKept, EventKept, QueueKept DEF SyncInv, Switch
<1>3. ASSUME NEW t \in Task, Call(t) PROVE SyncInv'
  BY <1>3, MutexStep, EventWaitStep, QueueStep DEF Call
<1>4. ASSUME NEW t \in Task, Step(t) PROVE SyncInv'
  BY <1>4, MutexStep, EventDoneStep, QueueStep DEF Step
<1>5. CASE UNCHANGED vars
  <2>1. TypeOK'
    BY <1>5 DEF SyncInv, TypeOK, vars, schedVars, mutexVars, eventVars, queueVars
  <2> QED BY <1>5, <2>1, MutexKept, EventKept, QueueKept DEF SyncInv, vars, schedVars
<1> QED BY <1>1, <1>2, <1>3, <1>4, <1>5 DEF Next

(* The invariant holds in every reachable state. *)
LEMMA SyncInvariant == Spec => []SyncInv
BY SyncInvInit, SyncInvStep, PTL DEF Spec

(* A BLOCKED task is in the waiter slot of its call and has a reason to    *)
(* wait: no wake-up is lost by mutex_lock, event_wait, queue_send and      *)
(* queue_recv.                                                             *)
THEOREM NobodyForgotten == Spec => []BlockedForAReason
<1>1. SyncInv => BlockedForAReason
  BY DEF SyncInv, MutexInv, EventInv, QueueInv, BlockedForAReason
<1> QED BY <1>1, SyncInvariant, PTL

(* event_wait returns bits that fulfil what it was asked for. *)
THEOREM EventResultRight == Spec => []EventResult
<1>1. SyncInv => EventResult
  BY DEF SyncInv, EventInv, Fulfils, NoRet, EventResult
<1> QED BY <1>1, SyncInvariant, PTL

(* mutex_lock and mutex_unlock, with its handover, are an atomic lock. *)
THEOREM MutexIsAtomic == Spec => MutexAtomic
<1>1. Init => ML!Init
  BY DEF Init, ML!Init
<1>2. SyncInv /\ [Next]_vars => [ML!Next]_(ML!vars)
  <2> SUFFICES ASSUME SyncInv, [Next]_vars PROVE [ML!Next]_(ML!vars)
    OBVIOUS
  <2> USE DEF SyncInv
  <2>1. ASSUME NEW t \in Task, MutexTake(t) PROVE ML!Acquire(t)
    BY <2>1 DEF MutexInv, TypeOK, MutexTake, Runs, schedVars, ML!Acquire
  <2>2. ASSUME NEW t \in Task, MutexBlock(t) PROVE ML!Request(t)
    BY <2>2, Blocking DEF MutexInv, TypeOK, MutexBlock, Runs, ML!Request
  <2>3. ASSUME NEW t \in Task, MutexHanded(t) PROVE ML!Acquire(t)
    BY <2>3 DEF MutexInv, TypeOK, MutexHanded, Runs, Return, ML!Acquire
  <2>4. ASSUME NEW t \in Task, mutex_unlock(t) PROVE ML!Release(t)
    BY <2>4 DEF MutexInv, TypeOK, mutex_unlock, ML!Release
  <2>5. ASSUME UNCHANGED holds,
               \A u \in Task : at'[u] = "mutex" <=> at[u] = "mutex"
        PROVE  UNCHANGED ML!vars
    BY <2>5 DEF ML!vars
  <2>6. CASE SetEvents
    BY <2>5, <2>6 DEF SetEvents, event_set, event_clear, schedVars, mutexVars
  <2>7. ASSUME NEW t \in Task, NEW m, NEW all, event_wait(t, m, all) PROVE UNCHANGED ML!vars
    BY <2>5, <2>7, Blocking DEF TypeOK, event_wait, Runs, mutexVars
  <2>8. ASSUME NEW t \in Task, EventWoken(t) \/ EventReturn(t) PROVE UNCHANGED ML!vars
    BY <2>5, <2>8 DEF TypeOK, EventWoken, EventReturn, Runs, Return, mutexVars
  <2>9. ASSUME NEW t \in Task,
               (\E v \in Item : queue_send(t, v)) \/ SendItem(t) \/ queue_recv(t) \/ RecvItem(t)
        PROVE  UNCHANGED ML!vars
    BY <2>5, <2>9 DEF TypeOK, queue_send, SendItem, queue_recv, RecvItem, Runs, Return, mutexVars
  <2>10. ASSUME NEW t \in Task, SendBlock(t) \/ RecvBlock(t) PROVE UNCHANGED ML!vars
    BY <2>5, <2>10, Blocking DEF TypeOK, SendBlock, RecvBlock, Runs, mutexVars
  <2>11. ASSUME NEW t \in Task, Switch(t) PROVE UNCHANGED ML!vars
    BY <2>5, <2>11 DEF Switch, mutexVars
  <2>12. CASE UNCHANGED vars
    BY <2>5, <2>12 DEF vars, schedVars, mutexVars
  <2> QED
    BY <2>1, <2>2, <2>3, <2>4, <2>6, <2>7, <2>8, <2>9, <2>10, <2>11, <2>12
    DEF Next, Call, Step, ML!Next
<1> QED BY <1>1, <1>2, SyncInvariant, PTL DEF Spec, MutexAtomic, ML!Spec

(* The items between head and tail, oldest first. *)
Ring(q) == [i \in 1..q.count |-> q.buf[(q.head + i - 1) % QUEUE_CAP]]

RingOK(q) ==
    /\ q.buf \in [0..(QUEUE_CAP - 1) -> Item]
    /\ q.head \in 0..(QUEUE_CAP - 1) /\ q.count \in 0..QUEUE_CAP
    /\ q.tail = (q.head + q.count) % QUEUE_CAP

(* The slots of the items in the ring are slots of buf, and none of them   *)
(* is the one at tail unless the ring is full.                             *)
LEMMA RingSlots ==
    ASSUME NEW q, RingOK(q), NEW i \in 1..q.count
    PROVE  /\ (q.head + i - 1) % QUEUE_CAP \in 0..(QUEUE_CAP - 1)
           /\ q.count < QUEUE_CAP => (q.head + i - 1) % QUEUE_CAP # q.tail
<1>1. \A h \in 0..(QUEUE_CAP - 1), n \in 0..QUEUE_CAP, j \in 1..QUEUE_CAP : j <= n =>
        /\ (h + j - 1) % QUEUE_CAP \in 0..(QUEUE_CAP - 1)
        /\ n < QUEUE_CAP => (h + j - 1) % QUEUE_CAP # (h + n) % QUEUE_CAP
  <2> TAKE h \in 0..(QUEUE_CAP - 1), n \in 0..QUEUE_CAP, j \in 1..QUEUE_CAP
  <2> HAVE j <= n
  <2>1. h + j - 1 \in 0..(2 * QUEUE_CAP - 1)
    OBVIOUS
  <2>2. (h + j - 1) % QUEUE_CAP =
          IF h + j - 1 < QUEUE_CAP THEN h + j - 1 ELSE h + j - 1 - QUEUE_CAP
    BY <2>1, Wrap
  <2>3. n < QUEUE_CAP =>
          (h + n) % QUEUE_CAP = IF h + n < QUEUE_CAP THEN h + n ELSE h + n - QUEUE_CAP
    BY Wrap
  <2> QED BY <2>2, <2>3
<1>2. i \in 1..QUEUE_CAP /\ i <= q.count
  BY DEF RingOK
<1> QED BY <1>1, <1>2 DEF RingOK

(* Sequences that agree where they should are equal. *)
LEMMA IsAppend ==
    ASSUME NEW T, NEW r \in Seq(T), NEW s \in Seq(T), NEW v \in T, Len(s) = Len(r) + 1,
           \A i \in 1..Len(r) : s[i] = r[i], s[Len(r) + 1] = v
    PROVE  s = Append(r, v)
OBVIOUS

(* A sequence that is another one moved down by one is its tail. *)
LEMMA IsTail ==
    ASSUME NEW T, NEW r \in Seq(T), NEW s \in Seq(T), r # <<>>, Len(s) = Len(r) - 1,
           \A i \in 1..(Len(r) - 1) : s[i] = r[i + 1]
    PROVE  s = Tail(r)
OBVIOUS

(* The items of the ring buffer, from head on, are a sequence of count items. *)
LEMMA RingIsSeq ==
    ASSUME NEW q, RingOK(q)
    PROVE  /\ Ring(q) \in Seq(Item) /\ Len(Ring(q)) = q.count /\ q.count \in 0..QUEUE_CAP
           /\ \A i \in 1..q.count : Ring(q)[i] = q.buf[(q.head + i - 1) % QUEUE_CAP]
<1> DEFINE n == q.count
<1>1. n \in Nat /\ n \in 0..QUEUE_CAP
  BY DEF RingOK
<1>2. \A i \in 1..n : q.buf[(q.head + i - 1) % QUEUE_CAP] \in Item
  <2>1. q.buf \in [0..(QUEUE_CAP - 1) -> Item]
    BY DEF RingOK
  <2>2. ASSUME NEW i \in 1..n PROVE q.buf[(q.head + i - 1) % QUEUE_CAP] \in Item
    <3>1. (q.head + i - 1) % QUEUE_CAP \in 0..(QUEUE_CAP - 1)
      BY RingSlots, Zenon
    <3> QED BY <2>1, <3>1, Zenon
  <2> QED BY <2>2
<1>3. Ring(q) \in [1..n -> Item]
  BY <1>2 DEF Ring
<1>4. \A i \in 1..n : Ring(q)[i] = q.buf[(q.head + i - 1) % QUEUE_CAP]
  BY DEF Ring
<1> HIDE DEF n
<1>5. Ring(q) \in Seq(Item) /\ Len(Ring(q)) = n
  BY <1>1, <1>3
<1> QED BY <1>1, <1>4, <1>5 DEF n

(* queue_send and queue_recv are a bounded FIFO: every step puts an item   *)
(* at the end when there is room, takes the first one, or changes nothing. *)
THEOREM QueueIsFifo == Spec => QueueAtomic
<1>1. Init => BF!Init
  BY DEF Init, queue_init, BF!Init
<1>2. SyncInv /\ SyncInv' /\ [Next]_vars => [BF!Next]_(BF!vars)
  <2> SUFFICES ASSUME SyncInv, SyncInv', [Next]_vars PROVE [BF!Next]_(BF!vars)
    OBVIOUS
  <2> DEFINE r == Ring(queue)
             s == Ring(queue')
  <2>0. /\ RingOK(queue) /\ RingOK(queue')
        /\ r \in Seq(Item) /\ Len(r) = queue.count
        /\ s \in Seq(Item) /\ Len(s) = queue'.count
        /\ \A i \in 1..queue.count : r[i] = queue.buf[(queue.head + i - 1) % QUEUE_CAP]
        /\ \A i \in 1..queue'.count : s[i] = queue'.buf[(queue'.head + i - 1) % QUEUE_CAP]
    <3>1. RingOK(queue) /\ RingOK(queue')
      <4>1. RingOK(queue)
        BY DEF SyncInv, TypeOK, QueueInv, RingOK
      <4>2. RingOK(queue')
        BY DEF SyncInv, TypeOK, QueueInv, RingOK
      <4> QED BY <4>1, <4>2
    <3> QED BY <3>1, RingIsSeq
  <2> HIDE DEF r, s
  <2>1. ASSUME NEW t \in Task, SendItem(t) PROVE BF!Next
    <3>1. item[t] \in Item /\ queue.count < QUEUE_CAP /\ got' = got
      BY <2>1 DEF SyncInv, QueueInv, SendItem, Runs
    <3>2. /\ queue'.buf = [queue.buf EXCEPT ![queue.tail] = item[t]]
          /\ queue'.head = queue.head /\ queue'.count = queue.count + 1
          /\ queue.tail \in 0..(QUEUE_CAP - 1)
      BY <2>1 DEF SyncInv, TypeOK, SendItem
    <3>3. ASSUME NEW i \in 1..queue.count PROVE s[i] = r[i]
      <4>1. (queue.head + i - 1) % QUEUE_CAP \in 0..(QUEUE_CAP - 1) \ {queue.tail}
        BY <2>0, <3>1, RingSlots
      <4>2. i \in 1..queue'.count
        BY <2>0, <3>2 DEF RingOK
      <4>3. s[i] = queue'.buf[(queue.head + i - 1) % QUEUE_CAP]
        BY <2>0, <3>2, <4>2
      <4> QED BY <2>0, <3>2, <4>1, <4>3 DEF RingOK
    <3>4. s[queue.count + 1] = item[t]
      <4>1. queue.head + (queue.count + 1) - 1 = queue.head + queue.count
            /\ queue.count + 1 \in 1..queue'.count
        <5>1. queue.head \in 0..(QUEUE_CAP - 1) /\ queue.count \in 0..QUEUE_CAP
          BY <2>0 DEF RingOK
        <5>2. queue.head \in Nat /\ queue.count \in Nat
          BY <5>1
        <5> QED BY <3>2, <5>2
      <4>2. s[queue.count + 1] = queue'.buf[(queue.head + (queue.count + 1) - 1) % QUEUE_CAP]
        BY <2>0, <3>2, <4>1
      <4> QED BY <2>0, <3>2, <4>1, <4>2 DEF RingOK
    <3>5. s = Append(r, item[t]) /\ Len(r) < QUEUE_CAP
      BY <2>0, <3>1, <3>2, <3>3, <3>4, IsAppend
    <3>6. PICK v \in Item : v = item[t]
      BY <3>1
    <3>7. BF!Put(v)
      BY <3>1, <3>5, <3>6, Zenon DEF BF!Put, r, s, Ring
    <3> QED BY <3>7 DEF BF!Next
  <2>2. ASSUME NEW t \in Task, RecvItem(t) PROVE BF!Next
    <3>1. /\ queue.count > 0 /\ got' = queue.buf[queue.head]
          /\ queue'.buf = queue.buf /\ queue'.head = (queue.head + 1) % QUEUE_CAP
          /\ queue'.count = queue.count - 1
      BY <2>2 DEF SyncInv, TypeOK, RecvItem
    <3>2. r # <<>> /\ Head(r) = queue.buf[queue.head]
      <4>1. (queue.head + 1 - 1) % QUEUE_CAP = queue.head
        <5>1. queue.head \in 0..(QUEUE_CAP - 1)
          BY <2>0 DEF RingOK
        <5>2. queue.head + 1 - 1 = queue.head
          BY <5>1
        <5> QED BY <5>1, <5>2
      <4>2. 1 \in 1..queue.count
        BY <2>0, <3>1 DEF RingOK
      <4> QED BY <2>0, <4>1, <4>2
    <3>3. ASSUME NEW i \in 1..(queue.count - 1) PROVE s[i] = r[i + 1]
      <4>1. i \in 1..queue'.count /\ i + 1 \in 1..queue.count /\ i \in 1..QUEUE_CAP /\ i \in Int
        BY <2>0, <3>1 DEF RingOK
      <4>2. (queue.head + (i + 1) - 1) % QUEUE_CAP = (((queue.head + 1) % QUEUE_CAP) + i - 1) % QUEUE_CAP
        <5>1. (queue.head + i) % QUEUE_CAP = (((queue.head + 1) % QUEUE_CAP) + (i - 1)) % QUEUE_CAP
          <6>1. queue.head \in 0..(QUEUE_CAP - 1)
            BY <2>0 DEF RingOK
          <6> QED BY <4>1, <6>1, Stepped, Zenon
        <5>2. /\ queue.head + (i + 1) - 1 = queue.head + i
              /\ ((queue.head + 1) % QUEUE_CAP) + (i - 1) = ((queue.head + 1) % QUEUE_CAP) + i - 1
          BY <2>0, <4>1 DEF RingOK
        <5> QED BY <5>1, <5>2
      <4>3. r[i + 1] = queue.buf[(queue.head + (i + 1) - 1) % QUEUE_CAP]
        BY <2>0, <4>1
      <4>4. s[i] = queue'.buf[(queue'.head + i - 1) % QUEUE_CAP]
        BY <2>0, <4>1
      <4> QED BY <3>1, <4>2, <4>3, <4>4
    <3>4. s = Tail(r)
      BY <2>0, <3>1, <3>2, <3>3, IsTail
    <3>5. BF!Get
      BY <3>1, <3>2, <3>4, Zenon DEF BF!Get, r, s, Ring
    <3> QED BY <3>5 DEF BF!Next
  <2>3. ASSUME queue'.buf = queue.buf, queue'.head = queue.head, queue'.count = queue.count,
               got' = got
        PROVE  UNCHANGED BF!vars
    BY <2>3 DEF BF!vars
  <2>4. ASSUME queue' = queue, got' = got PROVE UNCHANGED BF!vars
    BY <2>3, <2>4
  <2>5. CASE SetEvents
    BY <2>4, <2>5 DEF SetEvents, event_set, event_clear, queueVars
  <2>6. ASSUME NEW t \in Task,
               \/ Switch(t) \/ MutexTake(t) \/ MutexBlock(t) \/ MutexHanded(t) \/ mutex_unlock(t)
               \/ EventWoken(t) \/ EventReturn(t)
               \/ \E m \in Masks, all \in BOOLEAN : event_wait(t, m, all)
        PROVE  UNCHANGED BF!vars
    BY <2>4, <2>6, Zenon DEF Switch, MutexTake, MutexBlock, MutexHanded, mutex_unlock, EventWoken,
                      EventReturn, event_wait, queueVars
  <2>7. ASSUME NEW t \in Task, (\E v \in Item : queue_send(t, v)) \/ queue_recv(t)
        PROVE  UNCHANGED BF!vars
    BY <2>4, <2>7 DEF queue_send, queue_recv, queueVars
  <2>8. ASSUME NEW t \in Task, SendBlock(t) \/ RecvBlock(t) PROVE UNCHANGED BF!vars
    BY <2>3, <2>8 DEF SyncInv, TypeOK, SendBlock, RecvBlock
  <2>9. CASE UNCHANGED vars
    BY <2>4, <2>9 DEF vars, queueVars
  <2> QED
    BY <2>1, <2>2, <2>5, <2>6, <2>7, <2>8, <2>9 DEF Next, Call, Step, BF!Next
<1> QED BY <1>1, <1>2, SyncInvariant, PTL DEF Spec, QueueAtomic, BF!Spec
=============================================================================
