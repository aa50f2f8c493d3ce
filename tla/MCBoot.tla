------------------------------- MODULE MCBoot -------------------------------
(***************************************************************************)
(* Machines for Boot: no accelerator beside a relative of it; one in slot  *)
(* 2, as the documentation has it, behind such a relative; and one that    *)
(* firmware left decoding memory, with flag bits in its BAR.               *)
(***************************************************************************)
EXTENDS Boot

Accel == [vendor |-> "0x1234", device |-> "0xda00", size |-> 64, flags |-> 0, pin |-> 1,
          bar |-> 0, command |-> {}]
Relative == [Accel EXCEPT !.device = "other", !.command = {"io", "memory"}, !.bar = 32,
                          !.size = 16]
Decoding == [Accel EXCEPT !.size = 16, !.flags = 8, !.pin = 0, !.bar = 40, !.command = {"memory"}]

MCMachines ==
    {<<Relative, Empty, Empty>>, <<Relative, Empty, Accel>>, <<Decoding, Accel, Empty>>}

MCSlots == {[d \in 0..2 |-> m[d + 1]] : m \in MCMachines}
DocSlots == {[d \in 0..2 |-> <<Relative, Empty, Accel>>[d + 1]]}
=============================================================================
