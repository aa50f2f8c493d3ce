---------------------------- MODULE MCSmpSched ------------------------------
(***************************************************************************)
(* Instances of SmpSched for TLC.                                          *)
(***************************************************************************)
EXTENDS SmpSchedInv

CONSTANTS w0, w1, w2, busy, idle1, idle2, ping, s0, s1

\* Two CPUs: two waiting workers on CPU 0, so that CPU 0 can have nothing to
\* run, and a worker that posts beside the idle task of CPU 1.
SafeQueues == [c \in 0..1 |-> IF c = 0 THEN <<w0, w2>> ELSE <<idle1, w1>>]
SafeWaits == {<<w0, s0>>, <<w2, s1>>}
SafePosts == {<<w1, s1>>, <<w2, s0>>}

\* A waiter shares CPU 0 with two tasks that never block: it is handed its
\* permit after it was switched away, and then keeps one of the two waiting.
\* Worker 2 has CPU 1 for itself and waits in the wfe loop.
LiveQueues == [c \in 0..1 |-> IF c = 0 THEN <<w0, w1, busy>> ELSE <<w2>>]
LiveWaits == {<<w0, s0>>, <<w2, s1>>}
LivePosts == {<<busy, s1>>, <<w2, s0>>}

\* Three CPUs, with CPU 1 populated enough for the balancer to act.
LbQueues ==
    [c \in 0..2 |-> CASE c = 0 -> <<busy>>
                      [] c = 1 -> <<idle1, ping, w1>>
                      [] c = 2 -> <<idle2>>]

W1Waits == {<<w1, s1>>}
=============================================================================
