---------------------------- MODULE BoundedFifo -----------------------------
(***************************************************************************)
(* What the message queue of sync.c promises: at most Cap items, received  *)
(* in the order they were sent, each one once.                             *)
(***************************************************************************)
EXTENDS Integers, Sequences

CONSTANTS Item, NoItem, Cap

VARIABLES
    chan,   \* the items sent and not yet received
    out     \* the item received last

vars == <<chan, out>>

Init == chan = <<>> /\ out = NoItem

Put(v) ==
    /\ Len(chan) < Cap
    /\ chan' = Append(chan, v)
    /\ UNCHANGED out

Get ==
    /\ chan # <<>>
    /\ out' = Head(chan)
    /\ chan' = Tail(chan)

Next == Get \/ \E v \in Item : Put(v)

Spec == Init /\ [][Next]_vars
=============================================================================
