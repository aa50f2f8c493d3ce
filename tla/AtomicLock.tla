----------------------------- MODULE AtomicLock -----------------------------
(***************************************************************************)
(* What a lock promises its users: a process asks for it, holds it alone,  *)
(* and gives it back; while somebody asks and nobody holds it, somebody    *)
(* gets it.  Who is next is left open.  The spinlock of spinlock.h and the *)
(* mutex of sync.c both implement this (Spinlock, IrqSync).                *)
(***************************************************************************)
CONSTANT Proc

VARIABLES waiting, holders

vars == <<waiting, holders>>

Init == waiting = {} /\ holders = {}

Request(p) ==
    /\ p \notin waiting \cup holders
    /\ waiting' = waiting \cup {p}
    /\ UNCHANGED holders

(* An uncontended lock may be taken without waiting first. *)
Acquire(p) ==
    /\ holders = {}
    /\ holders' = {p}
    /\ waiting' = waiting \ {p}

Release(p) ==
    /\ p \in holders
    /\ holders' = holders \ {p}
    /\ UNCHANGED waiting

Next == \E p \in Proc : Request(p) \/ Acquire(p) \/ Release(p)

Spec == Init /\ [][Next]_vars

(* The lock is not left free while it is asked for. *)
NeverLeftFree == (waiting # {}) ~> (holders # {})

LockSpec == Spec /\ NeverLeftFree
=============================================================================
