------------------------------- MODULE MCUart -------------------------------
(***************************************************************************)
(* Two CPUs that print, from task and interrupt context, a zero, a plain   *)
(* string, and numbers with a zero at the end or in the middle.            *)
(***************************************************************************)
EXTENDS Uart

MCValue ==
    [x \in Ctx |-> CASE x = <<0, "task">> -> 0 [] x = <<0, "isr">> -> NoValue
                     [] x = <<1, "task">> -> 10 [] OTHER -> 102]
=============================================================================
