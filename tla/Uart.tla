-------------------------------- MODULE Uart --------------------------------
(***************************************************************************)
(* uart.c on top of Spinlock: klog and uart_puts write a line, character   *)
(* by character, inside uart_lock.  Every task and interrupt handler of    *)
(* every CPU may print at any time.  The UART (external) has a transmit    *)
(* FIFO; wire is what it has sent of the line it is sending.               *)
(***************************************************************************)
EXTENDS Spinlock, Sequences

CONSTANTS
    Value,        \* the number each context prints, or NoValue (has_val = 0)
    NoValue,
    FIFO_DEPTH

ASSUME UartAssumption ==
    CPU # {} /\ FIFO_DEPTH \in Nat \ {0} /\ Value \in [Ctx -> Nat \cup {NoValue}]

VARIABLES
    pos,   \* per context: characters of its line written so far
    fifo, wire

uartVars == <<vars, pos, fifo, wire>>

(* buf is filled from its end with v % 10, v /= 10 while v > 0. *)
uart_print_dec(v) ==
    LET buf[n \in 0..v] == IF n = 0 THEN <<>> ELSE Append(buf[n \div 10], n % 10)
    IN  IF v = 0 THEN <<0>> ELSE buf[v]

(* prefix, optional value, suffix; the prefix names the caller. *)
Line(x) ==
    LET digits == IF Value[x] = NoValue THEN <<>> ELSE uart_print_dec(Value[x])
    IN  <<<<"prefix", x>>>> \o [i \in 1..Len(digits) |-> <<"digit", digits[i]>>] \o <<<<"nl", 0>>>>

UartInit == Init /\ pos = [x \in Ctx |-> 0] /\ fifo = <<>> /\ wire = <<>>

-----------------------------------------------------------------------------
(* The transmit FIFO (external): a write when it is full is lost. *)
UART_DR(ch) == fifo' = IF Len(fifo) < FIFO_DEPTH THEN Append(fifo, ch) ELSE fifo

(* Faulty: the lock is dropped between the parts of a line. *)
klogEndBetweenParts(x) ==
    /\ pos[x] \in {1, Len(Line(x))}
    /\ spin_unlock(x)
    /\ pos' = [pos EXCEPT ![x] = IF @ = 1 THEN 1 ELSE 0]
    /\ UNCHANGED <<fifo, wire>>

(* The call, up to and including the interrupt mask. *)
klog(x) == spin_lock_irqsave(x) /\ UNCHANGED <<pos, fifo, wire>>

(* Wait for room (UART_FR_TXFF), then write UART_DR. *)
uart_putc(x) ==
    /\ At(x, "held") /\ pos[x] < Len(Line(x))
    /\ Len(fifo) < FIFO_DEPTH
    /\ UART_DR(Line(x)[pos[x] + 1])
    /\ pos' = [pos EXCEPT ![x] = @ + 1]
    /\ UNCHANGED <<vars, wire>>

klogEnd(x) ==
    /\ pos[x] = Len(Line(x))
    /\ spin_unlock(x)
    /\ pos' = [pos EXCEPT ![x] = 0]
    /\ UNCHANGED <<fifo, wire>>

(* The UART (external) sends a character. *)
Send ==
    /\ fifo # <<>>
    /\ fifo' = Tail(fifo)
    /\ wire' = IF Head(fifo)[1] = "nl" THEN <<>> ELSE Append(wire, Head(fifo))
    /\ UNCHANGED <<vars, pos>>

UartNext ==
    \/ \E x \in Ctx : klog(x) \/ uart_putc(x) \/ klogEnd(x)
    \/ \E x \in Ctx : SpinStep(x) /\ UNCHANGED <<pos, fifo, wire>>
    \/ \E c \in CPU : Hardware(c) /\ UNCHANGED <<pos, fifo, wire>>
    \/ Send

(* The writer goes on when there is room, and the UART sends. *)
UartSpec ==
    /\ UartInit /\ [][UartNext]_uartVars
    /\ SpinFairness
    /\ \A x \in Ctx : WF_uartVars(uart_putc(x) \/ klogEnd(x))
    /\ WF_uartVars(Send)

-----------------------------------------------------------------------------
(* The number a sequence of digits stands for. *)
Decimal(s) ==
    LET num[i \in 0..Len(s)] == IF i = 0 THEN 0 ELSE 10 * num[i - 1] + s[i]
    IN  num[Len(s)]

DigitsOf(s) == [i \in 1..Len(s) |-> s[i][2]]

(* What is on the wire since the last line end was written by one caller,  *)
(* from its first character on, and once the line is complete its digits   *)
(* are the number that caller printed ("a compound line can never be       *)
(* interleaved with another task's/ISR's output").                         *)
LinesWhole ==
    /\ wire # <<>> => wire[1][1] = "prefix" /\ \A i \in 2..Len(wire) : wire[i][1] = "digit"
    /\ wire # <<>> /\ fifo # <<>> /\ Head(fifo)[1] = "nl" =>
          LET v == Value[wire[1][2]]
          IN  IF v = NoValue THEN Len(wire) = 1
              ELSE Len(wire) > 1 /\ Decimal(DigitsOf(Tail(wire))) = v

(* Every IRQ-masked section of a printing CPU ends, its interrupt handler  *)
(* included, unless the CPU loses every race for the lock to another one   *)
(* (spin_lock_irqsave, spin_unlock_irqrestore).                            *)
PrintersReturn ==
    \A c \in CPU : <>[](c \in masked) => []<>(\E x \in Holders : x[1] # c)
=============================================================================
