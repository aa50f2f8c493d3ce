------------------------------ MODULE Spinlock ------------------------------
(***************************************************************************)
(* spinlock.h, instruction by instruction: sevl, wfe, ldaxr, stxr, stlr    *)
(* and the interrupt mask around them.  Every CPU has a task and an        *)
(* interrupt handler that use the lock; the handler runs on top of the     *)
(* task whenever IRQs are open.                                            *)
(*                                                                         *)
(* The processor is external: an event register per CPU that wfe waits     *)
(* for, and an exclusive monitor per CPU that ldaxr arms.  A store to the  *)
(* lock word by another CPU clears an armed monitor, which is an event.    *)
(***************************************************************************)
EXTENDS Integers

CONSTANT CPU

Ctx == CPU \X {"task", "isr"}

VARIABLES
    locked,   \* spinlock_t.locked
    pc,       \* per context: "out" of the lock, or the next instruction
    flags,    \* per context: was IRQ masked when spin_lock_irqsave was called
    masked,   \* CPUs with PSTATE.I set
    isr,      \* CPUs inside their interrupt handler
    event,    \* CPUs whose event register is set
    monitor   \* CPUs whose exclusive monitor is armed for the lock word

vars == <<locked, pc, flags, masked, isr, event, monitor>>

Init ==
    /\ locked = 0
    /\ pc = [x \in Ctx |-> "out"]
    /\ flags = [x \in Ctx |-> FALSE]
    /\ masked = {} /\ isr = {}
    /\ event = {} /\ monitor = {}

(* x is what its CPU executes, and it is at l. *)
At(x, l) == pc[x] = l /\ (x[2] = "isr" <=> x[1] \in isr)

Goto(x, l) == pc' = [pc EXCEPT ![x] = l]

(* A store to the lock word by CPU c (external). *)
Store(c, v) ==
    /\ locked' = v
    /\ event' = event \cup (monitor \ {c})
    /\ monitor' = {}

-----------------------------------------------------------------------------
(* Plausible mistakes, none of them part of Next.                          *)

(* The lock is taken with IRQs open. *)
spin_lock_irqsaveUnmasked(x) ==
    /\ At(x, "out")
    /\ flags' = [flags EXCEPT ![x] = x[1] \in masked]
    /\ Goto(x, "sevl")
    /\ UNCHANGED <<locked, masked, isr, event, monitor>>

(* There is no sevl before the first wfe. *)
SevlMissing(x) ==
    /\ At(x, "sevl")
    /\ Goto(x, "wfe")
    /\ UNCHANGED <<locked, flags, masked, isr, event, monitor>>

(* A plain store: the monitor is not looked at. *)
StxrPlain(x) ==
    /\ At(x, "stxr")
    /\ Store(x[1], 1)
    /\ Goto(x, "held")
    /\ UNCHANGED <<flags, masked, isr>>

-----------------------------------------------------------------------------
(* mrs daif; msr daifset, #2 *)
spin_lock_irqsave(x) ==
    /\ At(x, "out")
    /\ flags' = [flags EXCEPT ![x] = x[1] \in masked]
    /\ masked' = masked \cup {x[1]}
    /\ Goto(x, "sevl")
    /\ UNCHANGED <<locked, isr, event, monitor>>

Sevl(x) ==
    /\ At(x, "sevl")
    /\ event' = event \cup {x[1]}
    /\ Goto(x, "wfe")
    /\ UNCHANGED <<locked, flags, masked, isr, monitor>>

Wfe(x) ==
    /\ At(x, "wfe") /\ x[1] \in event
    /\ event' = event \ {x[1]}
    /\ Goto(x, "ldaxr")
    /\ UNCHANGED <<locked, flags, masked, isr, monitor>>

(* ldaxr; cbnz 1b *)
Ldaxr(x) ==
    /\ At(x, "ldaxr")
    /\ monitor' = monitor \cup {x[1]}
    /\ Goto(x, IF locked = 0 THEN "stxr" ELSE "wfe")
    /\ UNCHANGED <<locked, flags, masked, isr, event>>

(* stxr; cbnz 2b *)
Stxr(x) ==
    /\ At(x, "stxr")
    /\ IF x[1] \in monitor
       THEN Store(x[1], 1) /\ Goto(x, "held")
       ELSE Goto(x, "ldaxr") /\ UNCHANGED <<locked, event, monitor>>
    /\ UNCHANGED <<flags, masked, isr>>

(* stlr *)
spin_unlock(x) ==
    /\ At(x, "held")
    /\ Store(x[1], 0)
    /\ Goto(x, "restore")
    /\ UNCHANGED <<flags, masked, isr>>

(* msr daif, f: the second half of spin_unlock_irqrestore. *)
Restore(x) ==
    /\ At(x, "restore")
    /\ masked' = IF flags[x] THEN masked ELSE masked \ {x[1]}
    /\ flags' = [flags EXCEPT ![x] = FALSE]
    /\ Goto(x, "out")
    /\ UNCHANGED <<locked, isr, event, monitor>>

-----------------------------------------------------------------------------
(* The processor (external).                                               *)

(* A pending interrupt or a sev sets the event register, and an armed      *)
(* monitor may be lost for reasons of its own, which is an event too.      *)
Event(c) ==
    /\ event' = event \cup {c}
    /\ monitor' \in {monitor, monitor \ {c}}
    /\ UNCHANGED <<locked, pc, flags, masked, isr>>

TakeIrq(c) ==
    /\ c \notin masked \cup isr
    /\ isr' = isr \cup {c}
    /\ masked' = masked \cup {c}
    /\ UNCHANGED <<locked, pc, flags, event, monitor>>

(* An exception return opens IRQs, is an event and clears the monitor. *)
Eret(c) ==
    /\ At(<<c, "isr">>, "out")
    /\ isr' = isr \ {c}
    /\ masked' = masked \ {c}
    /\ event' = event \cup {c}
    /\ monitor' = monitor \ {c}
    /\ UNCHANGED <<locked, pc, flags>>

-----------------------------------------------------------------------------
SpinStep(x) == Sevl(x) \/ Wfe(x) \/ Ldaxr(x) \/ Stxr(x) \/ Restore(x)

Hardware(c) == Event(c) \/ TakeIrq(c) \/ Eret(c)

Next ==
    \/ \E x \in Ctx : spin_lock_irqsave(x) \/ SpinStep(x) \/ spin_unlock(x)
    \/ \E c \in CPU : Hardware(c)

Spec == Init /\ [][Next]_vars

(* CPUs execute; an interrupt handler does not print for ever; a           *)
(* store-exclusive that can succeed over and over does so at some point.   *)
(* Nobody need ask for the lock, and interrupts need not come.             *)
SpinFairness ==
    /\ \A x \in Ctx : WF_vars(SpinStep(x)) /\ SF_vars(Stxr(x) /\ locked' = 1)
    /\ \A c \in CPU : SF_vars(Eret(c))

-----------------------------------------------------------------------------
Waiting == {x \in Ctx : pc[x] \in {"sevl", "wfe", "ldaxr", "stxr"}}
Holders == {x \in Ctx : pc[x] = "held"}

AL == INSTANCE AtomicLock WITH Proc <- Ctx, waiting <- Waiting, holders <- Holders

(* The exclusive-access loop is the lock it is meant to be: one context at *)
(* a time is between spin_lock and spin_unlock, and each step of the loop  *)
(* is a request, an acquisition, a release or no step of the lock.         *)
LockAtomic == AL!Spec

(* The lock is not left free for ever while CPUs sleep in wfe for it: the  *)
(* store of spin_unlock wakes one of them, and the first wfe of spin_lock  *)
(* falls through (sevl).                                                   *)
LockNotLeftFree == AL!NeverLeftFree
=============================================================================
