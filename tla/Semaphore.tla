----------------------------- MODULE Semaphore ------------------------------
(***************************************************************************)
(* What sem_wait and sem_post promise their callers, with no locks, run    *)
(* queues, CPUs or interrupts in sight: a permit that is posted is either  *)
(* kept in the semaphore or handed to one task that asks for it, and a     *)
(* task is through sem_wait only after it took or was handed a permit.     *)
(* SmpSched implements this (SmpSchedInv, SmpSchedProofs).                 *)
(***************************************************************************)
EXTENDS Integers

CONSTANTS Task, Sem

VARIABLES
    value,    \* the permits each semaphore holds
    asking,   \* <<t, s>>: t has called sem_wait(s) and has no permit yet
    granted   \* tasks that were handed a permit and have not resumed yet

vars == <<value, asking, granted>>

Init ==
    /\ value = [s \in Sem |-> 0]
    /\ asking = {} /\ granted = {}

Outside(t) == t \notin granted /\ \A s \in Sem : <<t, s>> \notin asking

Wait(t, s) ==
    /\ Outside(t)
    /\ asking' = asking \cup {<<t, s>>}
    /\ UNCHANGED <<value, granted>>

Take(t, s) ==
    /\ <<t, s>> \in asking /\ value[s] > 0
    /\ value' = [value EXCEPT ![s] = @ - 1]
    /\ asking' = asking \ {<<t, s>>}
    /\ UNCHANGED granted

Post(s) ==
    /\ value' = [value EXCEPT ![s] = @ + 1]
    /\ UNCHANGED <<asking, granted>>

(* A post that goes to a task that asks, and not through value. *)
Handover(t, s) ==
    /\ <<t, s>> \in asking
    /\ asking' = asking \ {<<t, s>>}
    /\ granted' = granted \cup {t}
    /\ UNCHANGED value

Resume(t) ==
    /\ t \in granted
    /\ granted' = granted \ {t}
    /\ UNCHANGED <<value, asking>>

Next ==
    \/ \E s \in Sem : Post(s)
    \/ \E t \in Task : Resume(t)
    \/ \E t \in Task, s \in Sem : Wait(t, s) \/ Take(t, s) \/ Handover(t, s)

Spec == Init /\ [][Next]_vars

(* A permit does not lie there while a task asks for it. *)
PermitsTaken ==
    \A t \in Task, s \in Sem :
        (<<t, s>> \in asking /\ value[s] > 0) ~> (<<t, s>> \notin asking \/ value[s] = 0)
=============================================================================
