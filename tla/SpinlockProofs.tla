--------------------------- MODULE SpinlockProofs ---------------------------
(***************************************************************************)
(* The loop of spin_lock implements an atomic lock for any set of CPUs, by *)
(* itself and under the printing of Uart; the lines printed under it are   *)
(* whole, and the numbers in them right.                                   *)
(***************************************************************************)
EXTENDS Uart, WellFoundedInduction, SequenceTheorems, TLAPS

(* A context inside the lock's code runs with IRQs masked and is what its  *)
(* CPU executes, so the two contexts of a CPU are never inside together; a *)
(* monitor that is armed at stxr says that the lock is still free.         *)
LockInv ==
    /\ locked \in {0, 1}
    /\ pc \in [Ctx -> {"out", "sevl", "wfe", "ldaxr", "stxr", "held", "restore"}]
    /\ \A x \in Ctx : pc[x] # "out" => x[1] \in masked /\ (x[2] = "isr" <=> x[1] \in isr)
    /\ \A x \in Ctx : pc[x] = "held" => locked = 1
    /\ \A x, y \in Ctx : pc[x] = "held" /\ pc[y] = "held" => x = y
    /\ \A x \in Ctx : pc[x] = "stxr" /\ x[1] \in monitor => locked = 0

(* Two contexts of one CPU are never both inside the lock's code. *)
LEMMA OnePerCpu ==
    ASSUME LockInv, NEW x \in Ctx, NEW y \in Ctx, pc[x] # "out",
           pc[y] # "out" \/ (y[2] = "isr" <=> y[1] \in isr), x[1] = y[1]
    PROVE  x = y
BY DEF LockInv, Ctx

(* The invariant holds when the lock is free and nobody is inside. *)
LEMMA LockInvInit == Init => LockInv
BY DEF Init, LockInv

(* Every instruction of spinlock.h and every hardware event preserves it. *)
LEMMA LockInvStep == LockInv /\ [Next]_vars => LockInv'
<1> SUFFICES ASSUME LockInv, [Next]_vars PROVE LockInv'
  OBVIOUS
<1>1. ASSUME NEW x \in Ctx, spin_lock_irqsave(x) PROVE LockInv'
  BY <1>1 DEF LockInv, spin_lock_irqsave, At, Goto
<1>2. ASSUME NEW x \in Ctx, Sevl(x) PROVE LockInv'
  BY <1>2 DEF LockInv, Sevl, At, Goto
<1>3. ASSUME NEW x \in Ctx, Wfe(x) PROVE LockInv'
  BY <1>3 DEF LockInv, Wfe, At, Goto
<1>4. ASSUME NEW x \in Ctx, Ldaxr(x) PROVE LockInv'
  <2>1. \A y \in Ctx : pc[y] = "stxr" /\ y[1] = x[1] => y = x
    BY <1>4, OnePerCpu DEF Ldaxr, At
  <2> QED BY <1>4, <2>1 DEF LockInv, Ldaxr, At, Goto
<1>5. ASSUME NEW x \in Ctx, Stxr(x) PROVE LockInv'
  <2>1. CASE x[1] \in monitor
    BY <1>5, <2>1 DEF LockInv, Stxr, Store, At, Goto
  <2>2. CASE x[1] \notin monitor
    BY <1>5, <2>2 DEF LockInv, Stxr, At, Goto
  <2> QED BY <2>1, <2>2
<1>6. ASSUME NEW x \in Ctx, spin_unlock(x) PROVE LockInv'
  BY <1>6 DEF LockInv, spin_unlock, Store, At, Goto
<1>7. ASSUME NEW x \in Ctx, Restore(x) PROVE LockInv'
  <2>1. \A y \in Ctx : pc[y] # "out" /\ y[1] = x[1] => y = x
    BY <1>7, OnePerCpu DEF Restore, At
  <2> QED BY <1>7, <2>1 DEF LockInv, Restore, At, Goto
<1>8. ASSUME NEW c \in CPU, Event(c) PROVE LockInv'
  BY <1>8 DEF LockInv, Event
<1>9. ASSUME NEW c \in CPU, TakeIrq(c) PROVE LockInv'
  BY <1>9 DEF LockInv, TakeIrq
<1>10. ASSUME NEW c \in CPU, Eret(c) PROVE LockInv'
  <2>1. <<c, "isr">> \in Ctx /\ c \in isr
    BY <1>10 DEF Eret, At, Ctx
  <2>2. \A x \in Ctx : x[1] = c => pc[x] = "out"
    BY <1>10, <2>1 DEF LockInv, Eret, At, Ctx
  <2> QED BY <1>10, <2>2 DEF LockInv, Eret
<1>11. CASE UNCHANGED vars
  BY <1>11 DEF LockInv, vars
<1> QED
  BY <1>1, <1>2, <1>3, <1>4, <1>5, <1>6, <1>7, <1>8, <1>9, <1>10, <1>11
  DEF Next, SpinStep, Hardware

(* Every step is a step of the abstract lock: a request, an acquisition    *)
(* when nobody holds it, a release, or none.                               *)
LEMMA LockStep == LockInv /\ [Next]_vars => [AL!Next]_(AL!vars)
<1> SUFFICES ASSUME LockInv, [Next]_vars PROVE [AL!Next]_(AL!vars)
  OBVIOUS
<1>1. ASSUME NEW x \in Ctx, spin_lock_irqsave(x) PROVE AL!Request(x)
  BY <1>1 DEF LockInv, spin_lock_irqsave, At, Goto, AL!Request, Waiting, Holders
<1>2. ASSUME NEW x \in Ctx, Sevl(x) \/ Wfe(x) \/ Ldaxr(x) \/ Restore(x) PROVE UNCHANGED AL!vars
  BY <1>2 DEF LockInv, Sevl, Wfe, Ldaxr, Restore, At, Goto, AL!vars, Waiting, Holders
<1>3. ASSUME NEW x \in Ctx, Stxr(x), x[1] \in monitor PROVE AL!Acquire(x)
  <2>1. Holders = {}
    BY <1>3 DEF LockInv, Stxr, At, Holders
  <2> QED BY <1>3, <2>1 DEF LockInv, Stxr, At, Goto, AL!Acquire, Waiting, Holders
<1>4. ASSUME NEW x \in Ctx, Stxr(x), x[1] \notin monitor PROVE UNCHANGED AL!vars
  BY <1>4 DEF LockInv, Stxr, At, Goto, AL!vars, Waiting, Holders
<1>5. ASSUME NEW x \in Ctx, spin_unlock(x) PROVE AL!Release(x)
  BY <1>5 DEF LockInv, spin_unlock, At, Goto, AL!Release, Waiting, Holders
<1>6. ASSUME NEW c \in CPU, Hardware(c) PROVE UNCHANGED AL!vars
  BY <1>6 DEF Hardware, Event, TakeIrq, Eret, AL!vars, Waiting, Holders
<1>7. CASE UNCHANGED vars
  BY <1>7 DEF vars, AL!vars, Waiting, Holders
<1> QED
  BY <1>1, <1>2, <1>3, <1>4, <1>5, <1>6, <1>7 DEF Next, SpinStep, AL!Next

(* spin_lock and spin_unlock are an atomic lock, for any set of CPUs with  *)
(* a task and an interrupt handler each (spinlock.h).                      *)
THEOREM SpinlockIsAtomic == Spec => LockAtomic
<1>1. Init => AL!Init
  BY DEF Init, AL!Init, Waiting, Holders
<1> QED
  BY <1>1, LockInvInit, LockInvStep, LockStep, PTL DEF Spec, LockAtomic, AL!Spec

(* A step of the printing contexts or of the UART is one of the lock, or   *)
(* none.                                                                   *)
LEMMA UartStepsLock == [UartNext]_uartVars => [Next]_vars
BY DEF UartNext, uartVars, klog, uart_putc, klogEnd, Send, Next

(* uart_lock is one: klog, uart_putc and the UART add no step that the     *)
(* lock could notice.                                                      *)
THEOREM UartLockIsAtomic == UartSpec => LockAtomic
<1>1. UartInit => Init
  BY DEF UartInit
<1> QED
  BY <1>1, UartStepsLock, SpinlockIsAtomic, PTL DEF UartSpec, Spec

-----------------------------------------------------------------------------
(* A nonempty set of naturals has a least element. *)
LEMMA Least ==
    ASSUME NEW S \in SUBSET Nat, S # {}
    PROVE  \E m \in S : \A y \in S : m <= y
<1>1. \E x \in S : \A y \in S : ~ (<<y, x>> \in OpToRel(<, Nat))
  BY NatLessThanWellFounded, WFMin, Zenon
<1>2. \A x, y \in Nat : x < y => <<x, y>> \in OpToRel(<, Nat)
  BY DEF OpToRel
<1>3. \E x \in S : \A y \in S : ~ (y < x)
  BY <1>1, <1>2, Zenon
<1> QED BY <1>3

(* What the LETs of uart_print_dec and Decimal define. *)
IsBuf(b, v) == b = [n \in 0..v |-> IF n = 0 THEN <<>> ELSE Append(b[n \div 10], n % 10)]

IsNum(f, s) == f = [i \in 0..Len(s) |-> IF i = 0 THEN 0 ELSE 10 * f[i - 1] + s[i]]

(* The recursion of uart_print_dec is well founded. *)
LEMMA BufExists == \A v \in Nat : \E b : IsBuf(b, v)
<1> DEFINE Bad == {v \in Nat : ~ \E b : IsBuf(b, v)}
<1>1. SUFFICES ASSUME Bad # {} PROVE FALSE
  OBVIOUS
<1>2. PICK m \in Bad : \A y \in Bad : m <= y
  <2>1. Bad \in SUBSET Nat
    OBVIOUS
  <2> HIDE DEF Bad
  <2> QED BY <1>1, <2>1, Least
<1>3. CASE m = 0
  <2>1. IsBuf([n \in 0..0 |-> <<>>], 0)
    BY DEF IsBuf
  <2> QED BY <1>3, <2>1
<1>4. CASE m # 0
  <2>1. m - 1 \in Nat /\ m - 1 \notin Bad
    BY <1>2, <1>4
  <2>2. PICK b : IsBuf(b, m - 1)
    BY <2>1
  <2> DEFINE c == [n \in 0..m |-> IF n = m THEN Append(b[m \div 10], m % 10) ELSE b[n]]
  <2>3. \A n \in 0..m : n # 0 => n \div 10 \in 0..(m - 1) /\ n \div 10 # m
    BY <1>4
  <2>4. \A n \in 0..(m - 1) : b[n] = IF n = 0 THEN <<>> ELSE Append(b[n \div 10], n % 10)
    BY <2>2, Zenon DEF IsBuf
  <2>5. \A n \in 0..m : n # 0 => c[n \div 10] = b[n \div 10]
    BY <2>3, <2>1
  <2>6. \A n \in 0..m : c[n] = IF n = 0 THEN <<>> ELSE Append(b[n \div 10], n % 10)
    BY <2>4, <1>4
  <2>7. \A n \in 0..m : c[n] = IF n = 0 THEN <<>> ELSE Append(c[n \div 10], n % 10)
    BY <2>5, <2>6, Zenon
  <2>8. c = [n \in 0..m |-> c[n]]
    OBVIOUS
  <2> HIDE DEF c
  <2>9. c = [n \in 0..m |-> IF n = 0 THEN <<>> ELSE Append(c[n \div 10], n % 10)]
    BY <2>7, <2>8, Zenon
  <2> QED BY <2>9, Zenon DEF IsBuf
<1> QED BY <1>3, <1>4

(* So is the one of Decimal. *)
LEMMA NumExists ==
    ASSUME NEW s \in Seq(Nat)
    PROVE  \E f : IsNum(f, s)
<1> DEFINE Num(f, k) == f = [i \in 0..k |-> IF i = 0 THEN 0 ELSE 10 * f[i - 1] + s[i]]
           Bad == {k \in Nat : ~ \E f : Num(f, k)}
<1>1. Bad = {}
  <2>1. SUFFICES ASSUME Bad # {} PROVE FALSE
    OBVIOUS
  <2>2. PICK m \in Bad : \A y \in Bad : m <= y
    <3>1. Bad \in SUBSET Nat
      OBVIOUS
    <3> HIDE DEF Bad
    <3> QED BY <2>1, <3>1, Least, Zenon
  <2>3. CASE m = 0
    <3>1. Num([i \in 0..0 |-> 0], 0)
      OBVIOUS
    <3> QED BY <2>3, <3>1, Zenon
  <2>4. CASE m # 0
    <3>1. m \in Nat /\ m - 1 \in Nat /\ ~ (m <= m - 1)
      BY <2>4
    <3>2. m - 1 \notin Bad
      <4> HIDE DEF Bad
      <4> QED BY <2>2, <3>1
    <3>3. PICK f : Num(f, m - 1)
      BY <3>1, <3>2
    <3> DEFINE g == [i \in 0..m |-> IF i = m THEN 10 * f[m - 1] + s[m] ELSE f[i]]
    <3>4. \A i \in 0..(m - 1) : f[i] = IF i = 0 THEN 0 ELSE 10 * f[i - 1] + s[i]
      BY <3>3
    <3>5. \A i \in 0..m : i # 0 => g[i - 1] = f[i - 1]
      BY <3>1
    <3>6. \A i \in 0..m : g[i] = IF i = 0 THEN 0 ELSE 10 * f[i - 1] + s[i]
      BY <3>4, <2>4
    <3>7. \A i \in 0..m : g[i] = IF i = 0 THEN 0 ELSE 10 * g[i - 1] + s[i]
      BY <3>5, <3>6, Zenon
    <3>8. g = [i \in 0..m |-> g[i]]
      OBVIOUS
    <3> HIDE DEF g
    <3>9. Num(g, m)
      BY <3>7, <3>8, Zenon
    <3> QED BY <3>9, Zenon
  <2> QED BY <2>3, <2>4
<1>2. Len(s) \in Nat
  OBVIOUS
<1> QED BY <1>1, <1>2 DEF IsNum

(* Decimal through any function that satisfies its recursion. *)
LEMMA DecimalNum ==
    ASSUME NEW s \in Seq(Nat)
    PROVE  \E f : IsNum(f, s) /\ Decimal(s) = f[Len(s)]
<1> DEFINE f == CHOOSE g : IsNum(g, s)
<1>1. IsNum(f, s)
  BY NumExists
<1>2. Decimal(s) = f[Len(s)]
  BY DEF Decimal, IsNum
<1> QED BY <1>1, <1>2, Zenon

(* No digits stand for zero. *)
LEMMA DecimalEmpty == Decimal(<<>>) = 0
<1>1. <<>> \in Seq(Nat) /\ Len(<<>>) = 0
  OBVIOUS
<1>2. PICK f : IsNum(f, <<>>) /\ Decimal(<<>>) = f[Len(<<>>)]
  BY <1>1, DecimalNum, Zenon
<1>3. \A i \in 0..0 : f[i] = IF i = 0 THEN 0 ELSE 10 * f[i - 1] + <<>>[i]
  BY <1>1, <1>2 DEF IsNum
<1> QED BY <1>1, <1>2, <1>3

(* One more digit multiplies by ten and adds. *)
LEMMA DecimalAppend ==
    ASSUME NEW s \in Seq(Nat), NEW d \in Nat
    PROVE  Decimal(Append(s, d)) = 10 * Decimal(s) + d
<1>1. PICK f : IsNum(f, s) /\ Decimal(s) = f[Len(s)]
  BY DecimalNum
<1>2. Append(s, d) \in Seq(Nat) /\ Len(Append(s, d)) = Len(s) + 1 /\ Append(s, d)[Len(s) + 1] = d
      /\ \A i \in 1..Len(s) : Append(s, d)[i] = s[i]
  OBVIOUS
<1>3. PICK g : IsNum(g, Append(s, d)) /\ Decimal(Append(s, d)) = g[Len(Append(s, d))]
  BY <1>2, DecimalNum, Zenon
<1>4. \A i \in 0..Len(s) : f[i] = IF i = 0 THEN 0 ELSE 10 * f[i - 1] + s[i]
  BY <1>1, Zenon DEF IsNum
<1>5. \A i \in 0..(Len(s) + 1) : g[i] = IF i = 0 THEN 0 ELSE 10 * g[i - 1] + Append(s, d)[i]
  BY <1>2, <1>3, Zenon DEF IsNum
<1> DEFINE Bad == {i \in 0..Len(s) : g[i] # f[i]}
<1>6. Bad = {}
  <2>1. SUFFICES ASSUME Bad # {} PROVE FALSE
    OBVIOUS
  <2>2. PICK m \in Bad : \A y \in Bad : m <= y
    <3>1. Bad \in SUBSET Nat
      OBVIOUS
    <3> HIDE DEF Bad
    <3> QED BY <2>1, <3>1, Least, Zenon
  <2>3. CASE m = 0
    BY <2>3, <1>4, <1>5
  <2>4. CASE m # 0
    <3>1. m - 1 \in 0..Len(s) /\ m - 1 \notin Bad /\ m \in 1..Len(s)
      BY <2>2, <2>4
    <3>2. g[m - 1] = f[m - 1] /\ Append(s, d)[m] = s[m]
      BY <3>1, <1>2
    <3>3. g[m] = 10 * g[m - 1] + Append(s, d)[m] /\ f[m] = 10 * f[m - 1] + s[m]
      BY <3>1, <1>4, <1>5
    <3> QED BY <3>2, <3>3
  <2> QED BY <2>3, <2>4
<1>7. Len(s) \in Nat /\ g[Len(s)] = f[Len(s)]
  BY <1>6
<1>8. g[Len(s) + 1] = 10 * g[Len(s)] + d
  BY <1>2, <1>5, <1>7
<1> QED BY <1>1, <1>2, <1>3, <1>7, <1>8

(* For every number, the digits uart_print_dec writes are decimal digits   *)
(* and stand for it.                                                       *)
THEOREM PrintDecRight ==
    ASSUME NEW v \in Nat
    PROVE  /\ uart_print_dec(v) \in Seq(0..9) /\ uart_print_dec(v) # <<>>
           /\ Decimal(uart_print_dec(v)) = v
<1>1. CASE v = 0
  <2>1. uart_print_dec(v) = Append(<<>>, 0)
    BY <1>1 DEF uart_print_dec
  <2>2. <<>> \in Seq(Nat) /\ 0 \in Nat
    OBVIOUS
  <2>3. Decimal(Append(<<>>, 0)) = 0
    <3>1. Decimal(Append(<<>>, 0)) = 10 * 0 + 0
      BY <2>2, DecimalAppend, DecimalEmpty, Zenon
    <3> QED BY <3>1
  <2>4. Append(<<>>, 0) \in Seq(0..9) /\ Append(<<>>, 0) # <<>>
    OBVIOUS
  <2> QED BY <1>1, <2>1, <2>3, <2>4, Zenon
<1>2. CASE v # 0
  <2> DEFINE b == CHOOSE f : IsBuf(f, v)
             Good(n) == b[n] \in Seq(0..9) /\ (n # 0 => b[n] # <<>>) /\ Decimal(b[n]) = n
             Bad == {n \in 0..v : ~ Good(n)}
  <2>1. IsBuf(b, v)
    BY BufExists
  <2>2. uart_print_dec(v) = b[v]
    BY <1>2 DEF uart_print_dec, IsBuf
  <2>3. \A n \in 0..v : b[n] = IF n = 0 THEN <<>> ELSE Append(b[n \div 10], n % 10)
    BY <2>1, Zenon DEF IsBuf
  <2> HIDE DEF b
  <2>4. Bad = {}
    <3>1. SUFFICES ASSUME Bad # {} PROVE FALSE
      OBVIOUS
    <3>2. PICK m \in Bad : \A y \in Bad : m <= y
      <4>1. Bad \in SUBSET Nat
        OBVIOUS
      <4> HIDE DEF Bad
      <4> QED BY <3>1, <4>1, Least
    <3>3. m \in 0..v /\ m \in Nat
      OBVIOUS
    <3>4. CASE m = 0
      <4>1. b[m] = <<>>
        BY <2>3, <3>3, <3>4
      <4>2. <<>> \in Seq(0..9)
        OBVIOUS
      <4>3. Good(m)
        BY <3>4, <4>1, <4>2, DecimalEmpty
      <4> QED BY <4>3
    <3>5. CASE m # 0
      <4> DEFINE q == m \div 10
                 r == m % 10
      <4>1. q \in 0..v /\ q < m /\ r \in 0..9 /\ 10 * q + r = m
        BY <3>3, <3>5
      <4>2. b[m] = Append(b[q], r)
        BY <2>3, <3>3, <3>5, Zenon
      <4> HIDE DEF q, r
      <4>3. Good(q)
        BY <3>2, <4>1
      <4>4. Append(b[q], r) \in Seq(0..9) /\ Append(b[q], r) # <<>>
        BY <4>1, <4>3
      <4>5. b[q] \in Seq(Nat)
        BY <4>3
      <4>6. Decimal(Append(b[q], r)) = 10 * Decimal(b[q]) + r
        BY <4>1, <4>5, DecimalAppend
      <4>7. Good(m)
        BY <4>1, <4>2, <4>3, <4>4, <4>6
      <4> QED BY <4>7
    <3> QED BY <3>4, <3>5
  <2>5. Good(v)
    BY <2>4
  <2> QED BY <1>2, <2>2, <2>5
<1> QED BY <1>1, <1>2

-----------------------------------------------------------------------------
Digits(x) == IF Value[x] = NoValue THEN <<>> ELSE uart_print_dec(Value[x])

Char == ({"prefix"} \X Ctx) \cup ({"digit"} \X (0..9)) \cup {<<"nl", 0>>}

(* The three parts of a line. *)
LEMMA LineParts ==
    ASSUME NEW x \in Ctx
    PROVE  /\ Line(x) \in Seq(Char) /\ Digits(x) \in Seq(0..9) /\ Len(Line(x)) = Len(Digits(x)) + 2
           /\ Line(x)[1] = <<"prefix", x>>
           /\ \A i \in 2..(Len(Line(x)) - 1) : Line(x)[i] = <<"digit", Digits(x)[i - 1]>>
           /\ Line(x)[Len(Line(x))] = <<"nl", 0>>
           /\ Value[x] # NoValue => Digits(x) # <<>> /\ Decimal(Digits(x)) = Value[x]
<1> DEFINE d == Digits(x)
           p == <<<<"prefix", x>>>>
           m == [i \in 1..Len(d) |-> <<"digit", d[i]>>]
           e == <<<<"nl", 0>>>>
<1>1. d \in Seq(0..9) /\ (Value[x] # NoValue => d # <<>> /\ Decimal(d) = Value[x])
  <2>1. Value[x] # NoValue => Value[x] \in Nat
    BY UartAssumption
  <2>2. CASE Value[x] = NoValue
    BY <2>2 DEF Digits
  <2>3. CASE Value[x] # NoValue
    BY <2>1, <2>3, PrintDecRight DEF Digits
  <2> QED BY <2>2, <2>3
<1>2. Line(x) = p \o m \o e
  BY DEF Line, Digits
<1> HIDE DEF d
<1>3. p \in Seq(Char) /\ Len(p) = 1 /\ p[1] = <<"prefix", x>>
  BY DEF Char
<1>4. Len(d) \in Nat /\ \A i \in 1..Len(d) : d[i] \in 0..9
  BY <1>1
<1>5. m \in Seq(Char) /\ Len(m) = Len(d) /\ \A i \in 1..Len(d) : m[i] = <<"digit", d[i]>>
  BY <1>4 DEF Char
<1>6. e \in Seq(Char) /\ Len(e) = 1 /\ e[1] = <<"nl", 0>>
  BY DEF Char
<1> HIDE DEF p, m, e
<1> DEFINE pm == p \o m
<1>7. /\ pm \in Seq(Char) /\ Len(pm) = Len(p) + Len(m)
      /\ \A i \in 1..(Len(p) + Len(m)) : pm[i] = IF i <= Len(p) THEN p[i] ELSE m[i - Len(p)]
  <2>1. p \in Seq(Char) /\ m \in Seq(Char)
    BY <1>3, <1>5
  <2> QED BY <2>1, ConcatProperties
<1>8. Line(x) = pm \o e
  BY <1>2
<1> HIDE DEF pm
<1>9. /\ Line(x) \in Seq(Char) /\ Len(Line(x)) = Len(pm) + Len(e)
      /\ \A i \in 1..(Len(pm) + Len(e)) :
            Line(x)[i] = IF i <= Len(pm) THEN pm[i] ELSE e[i - Len(pm)]
  <2>1. pm \in Seq(Char) /\ e \in Seq(Char)
    BY <1>6, <1>7
  <2> QED BY <1>8, <2>1, ConcatProperties
<1>10. Len(pm) = Len(d) + 1 /\ Len(Line(x)) = Len(d) + 2
  BY <1>3, <1>4, <1>5, <1>6, <1>7, <1>9
<1>11. Line(x)[1] = <<"prefix", x>>
  <2>1. Line(x)[1] = pm[1] /\ pm[1] = p[1]
    BY <1>3, <1>4, <1>5, <1>6, <1>7, <1>9, <1>10
  <2> QED BY <1>3, <2>1
<1>12. ASSUME NEW i \in 2..(Len(Line(x)) - 1) PROVE Line(x)[i] = <<"digit", d[i - 1]>>
  <2>1. Line(x)[i] = pm[i] /\ pm[i] = m[i - 1] /\ i - 1 \in 1..Len(d)
    BY <1>3, <1>4, <1>5, <1>6, <1>7, <1>9, <1>10
  <2> QED BY <1>5, <2>1
<1>13. Line(x)[Len(Line(x))] = <<"nl", 0>>
  <2>1. Line(x)[Len(Line(x))] = e[1]
    BY <1>4, <1>6, <1>9, <1>10
  <2> QED BY <1>6, <2>1
<1> QED BY <1>1, <1>9, <1>10, <1>11, <1>12, <1>13 DEF d

(* Of the line of x, n characters have been written: none or all. *)
AtEnd(x, n) == n \in {0, Len(Line(x))}

(* What stands in the FIFO was written by who[i], as the at[i]-th          *)
(* character of its line; who[0], at[0] is what the wire shows.  A writer  *)
(* is followed by itself until its line ends, and the last one holds the   *)
(* lock if its line has not ended.                                         *)
Written(who, at, f, w, p) ==
    LET n == Len(f)
    IN  /\ at[0] = Len(w) /\ Len(w) < Len(Line(who[0]))
        /\ \A i \in 1..Len(w) : w[i] = Line(who[0])[i]
        /\ \A i \in 1..n :
              /\ at[i] \in 1..Len(Line(who[i])) /\ f[i] = Line(who[i])[at[i]]
              /\ IF AtEnd(who[i - 1], at[i - 1]) THEN at[i] = 1
                 ELSE who[i] = who[i - 1] /\ at[i] = at[i - 1] + 1
        /\ ~ AtEnd(who[n], at[n]) => p[who[n]] = at[n]
        /\ \A x \in Ctx : ~ AtEnd(x, p[x]) => who[n] = x /\ at[n] = p[x]

TextInv ==
    /\ fifo \in Seq(Char) /\ wire \in Seq(Char)
    /\ pos \in [Ctx -> Nat]
    /\ \A x \in Ctx : pos[x] <= Len(Line(x)) /\ (pos[x] > 0 => pc[x] = "held")
    /\ \E who \in [0..Len(fifo) -> Ctx], at \in [0..Len(fifo) -> Nat] : Written(who, at, fifo, wire, pos)

(* Nothing has been written at reset. *)
LEMMA TextInvInit == UartInit => TextInv
<1> SUFFICES ASSUME UartInit PROVE TextInv
  OBVIOUS
<1>1. PICK z : z \in Ctx
  <2>1. PICK c : c \in CPU
    BY UartAssumption
  <2>2. <<c, "task">> \in Ctx
    BY <2>1 DEF Ctx
  <2> QED BY <2>2
<1>2. \A x \in Ctx : Len(Line(x)) \in Nat /\ Len(Line(x)) >= 2
  BY LineParts
<1> DEFINE who == [i \in 0..0 |-> z]
           at == [i \in 0..0 |-> 0]
<1>3. fifo = <<>> /\ wire = <<>> /\ Len(<<>>) = 0 /\ <<>> \in Seq(Char) /\ pos = [x \in Ctx |-> 0]
  BY DEF UartInit
<1>4. who \in [0..Len(fifo) -> Ctx] /\ at \in [0..Len(fifo) -> Nat]
  BY <1>1, <1>3
<1>5. who[0] = z /\ at[0] = 0
  OBVIOUS
<1> HIDE DEF who, at
<1>6. Written(who, at, fifo, wire, pos)
  BY <1>1, <1>2, <1>3, <1>5 DEF Written, AtEnd
<1> QED BY <1>2, <1>3, <1>4, <1>6 DEF TextInv

(* The lock's own steps leave the text alone: a context that has written   *)
(* part of a line stays inside the lock.                                   *)
LEMMA TextInvLock ==
    ASSUME TextInv, UNCHANGED <<pos, fifo, wire>>,
           \A x \in Ctx : pc[x] = "held" /\ pos[x] > 0 => pc'[x] = "held"
    PROVE  TextInv'
BY Zenon DEF TextInv

(* uart_putc appends the next character of the holder's line. *)
LEMMA TextInvPutc ==
    ASSUME LockInv, TextInv, NEW x \in Ctx, uart_putc(x)
    PROVE  TextInv'
<1> DEFINE n == Len(fifo)
           ch == Line(x)[pos[x] + 1]
<1>1. /\ pc[x] = "held" /\ pos[x] < Len(Line(x)) /\ fifo' = Append(fifo, ch)
      /\ pos' = [pos EXCEPT ![x] = @ + 1] /\ wire' = wire /\ pc' = pc
  BY DEF uart_putc, UART_DR, At, vars
<1>2. fifo \in Seq(Char) /\ n \in Nat /\ pos \in [Ctx -> Nat] /\ wire \in Seq(Char)
  BY DEF TextInv
<1>3. \A y \in Ctx : Line(y) \in Seq(Char) /\ Len(Line(y)) \in Nat /\ Len(Line(y)) >= 2
  BY LineParts
<1>4. pos[x] + 1 \in 1..Len(Line(x)) /\ ch \in Char
  BY <1>1, <1>2, <1>3
<1>5. /\ fifo' \in Seq(Char) /\ Len(fifo') = n + 1 /\ fifo'[n + 1] = ch
      /\ \A i \in 1..n : fifo'[i] = fifo[i]
  BY <1>1, <1>2, <1>4
<1>6. PICK who \in [0..n -> Ctx], at \in [0..n -> Nat] : Written(who, at, fifo, wire, pos)
  BY Zenon DEF TextInv
<1>7. /\ at[0] = Len(wire) /\ Len(wire) < Len(Line(who[0]))
      /\ \A i \in 1..Len(wire) : wire[i] = Line(who[0])[i]
      /\ \A i \in 1..n :
            /\ at[i] \in 1..Len(Line(who[i])) /\ fifo[i] = Line(who[i])[at[i]]
            /\ IF AtEnd(who[i - 1], at[i - 1]) THEN at[i] = 1
               ELSE who[i] = who[i - 1] /\ at[i] = at[i - 1] + 1
      /\ ~ AtEnd(who[n], at[n]) => pos[who[n]] = at[n]
      /\ \A y \in Ctx : ~ AtEnd(y, pos[y]) => who[n] = y /\ at[n] = pos[y]
  BY <1>6, Zenon DEF Written
<1> DEFINE who2 == [i \in 0..(n + 1) |-> IF i = n + 1 THEN x ELSE who[i]]
           at2 == [i \in 0..(n + 1) |-> IF i = n + 1 THEN pos[x] + 1 ELSE at[i]]
<1>8. who2 \in [0..Len(fifo') -> Ctx] /\ at2 \in [0..Len(fifo') -> Nat]
  BY <1>2, <1>5, <1>6
<1>9. /\ who2[n + 1] = x /\ at2[n + 1] = pos[x] + 1
      /\ \A i \in 0..n : who2[i] = who[i] /\ at2[i] = at[i]
  BY <1>2
<1> HIDE DEF who2, at2
(* The holder is the only one that may be in the middle of its line. *)
<1>10. IF AtEnd(who[n], at[n]) THEN pos[x] = 0 ELSE who[n] = x /\ at[n] = pos[x]
  <2>1. CASE AtEnd(who[n], at[n])
    <3>1. ASSUME pos[x] # 0 PROVE FALSE
      <4>1. ~ AtEnd(x, pos[x])
        BY <1>1, <1>2, <1>3, <3>1 DEF AtEnd
      <4> QED BY <1>7, <2>1, <4>1
    <3> QED BY <2>1, <3>1
  <2>2. CASE ~ AtEnd(who[n], at[n])
    <3>1. who[n] \in Ctx /\ at[n] \in Nat /\ at[n] # 0
      <4>1. n \in 0..n
        BY <1>2
      <4>2. who[n] \in Ctx /\ at[n] \in Nat
        BY <4>1, Zenon
      <4> QED BY <4>2, <2>2 DEF AtEnd
    <3>2. pos[who[n]] > 0
      BY <1>7, <2>2, <3>1
    <3>3. pc[who[n]] = "held"
      BY <3>1, <3>2 DEF TextInv
    <3>4. who[n] = x
      BY <1>1, <3>1, <3>3 DEF LockInv
    <3> QED BY <1>7, <2>2, <3>4
  <2> QED BY <2>1, <2>2
<1>11. \A y \in Ctx : y # x => AtEnd(y, pos[y])
  <2> SUFFICES ASSUME NEW y \in Ctx, y # x PROVE pos[y] = 0
    BY DEF AtEnd
  <2>1. pos[y] > 0 => pc[y] = "held"
    BY DEF TextInv
  <2> QED BY <1>1, <1>2, <2>1 DEF LockInv
<1>12. /\ pos'[x] = pos[x] + 1 /\ pos' \in [Ctx -> Nat]
       /\ \A y \in Ctx : y # x => pos'[y] = pos[y]
  BY <1>1, <1>2
<1>13. ASSUME NEW i \in 1..(n + 1)
       PROVE  /\ at2[i] \in 1..Len(Line(who2[i])) /\ fifo'[i] = Line(who2[i])[at2[i]]
              /\ IF AtEnd(who2[i - 1], at2[i - 1]) THEN at2[i] = 1
                 ELSE who2[i] = who2[i - 1] /\ at2[i] = at2[i - 1] + 1
  <2>1. CASE i = n + 1
    <3>1. i - 1 = n /\ who2[n] = who[n] /\ at2[n] = at[n] /\ who2[i] = x /\ at2[i] = pos[x] + 1
      BY <1>2, <1>9, <2>1
    <3>2. at2[i] \in 1..Len(Line(who2[i])) /\ fifo'[i] = Line(who2[i])[at2[i]]
      BY <1>4, <1>5, <2>1, <3>1
    <3>3. CASE AtEnd(who[n], at[n])
      BY <1>10, <3>1, <3>2, <3>3
    <3>4. CASE ~ AtEnd(who[n], at[n])
      BY <1>10, <3>1, <3>2, <3>4
    <3> QED BY <3>3, <3>4
  <2>2. CASE i # n + 1
    <3>1. i \in 1..n /\ i \in 0..n /\ i - 1 \in 0..n
      BY <1>2, <2>2
    <3>2. who2[i] = who[i] /\ at2[i] = at[i] /\ who2[i - 1] = who[i - 1] /\ at2[i - 1] = at[i - 1]
          /\ fifo'[i] = fifo[i]
      BY <1>5, <1>9, <3>1
    <3>3. /\ at[i] \in 1..Len(Line(who[i])) /\ fifo[i] = Line(who[i])[at[i]]
          /\ IF AtEnd(who[i - 1], at[i - 1]) THEN at[i] = 1
             ELSE who[i] = who[i - 1] /\ at[i] = at[i - 1] + 1
      BY <1>7, <3>1, Zenon
    <3> QED BY <3>2, <3>3, Zenon
  <2> QED BY <2>1, <2>2
<1>14. Written(who2, at2, fifo', wire', pos')
  <2>1. who2[0] = who[0] /\ at2[0] = at[0] /\ 0 \in 0..n
    BY <1>2, <1>9
  <2>2. at2[0] = Len(wire') /\ Len(wire') < Len(Line(who2[0]))
        /\ \A i \in 1..Len(wire') : wire'[i] = Line(who2[0])[i]
    BY <1>1, <1>7, <2>1
  <2>3. \A i \in 1..Len(fifo') :
              /\ at2[i] \in 1..Len(Line(who2[i])) /\ fifo'[i] = Line(who2[i])[at2[i]]
              /\ IF AtEnd(who2[i - 1], at2[i - 1]) THEN at2[i] = 1
                 ELSE who2[i] = who2[i - 1] /\ at2[i] = at2[i - 1] + 1
    BY <1>5, <1>13
  <2>4. who2[Len(fifo')] = x /\ at2[Len(fifo')] = pos'[x]
    BY <1>5, <1>9, <1>12
  <2>5. ASSUME NEW y \in Ctx, ~ AtEnd(y, pos'[y]) PROVE y = x
    BY <1>11, <1>12, <2>5
  <2>6. \A y \in Ctx : ~ AtEnd(y, pos'[y]) => who2[Len(fifo')] = y /\ at2[Len(fifo')] = pos'[y]
    BY <2>4, <2>5
  <2> QED BY <2>2, <2>3, <2>4, <2>6 DEF Written
<1>15. \A y \in Ctx : pos'[y] <= Len(Line(y)) /\ (pos'[y] > 0 => pc'[y] = "held")
  <2>1. \A y \in Ctx : pos[y] <= Len(Line(y)) /\ (pos[y] > 0 => pc[y] = "held")
    BY DEF TextInv
  <2> QED BY <1>1, <1>4, <1>12, <2>1
<1> QED BY <1>1, <1>2, <1>5, <1>8, <1>12, <1>14, <1>15, Zenon DEF TextInv

(* The UART takes the first character of the FIFO; what it shows of the    *)
(* line is dropped when the line ends.                                     *)
LEMMA TextInvSend ==
    ASSUME TextInv, Send
    PROVE  TextInv'
<1> DEFINE n == Len(fifo)
<1>1. /\ fifo # <<>> /\ fifo' = Tail(fifo) /\ pos' = pos /\ pc' = pc
      /\ wire' = IF Head(fifo)[1] = "nl" THEN <<>> ELSE Append(wire, Head(fifo))
  BY DEF Send, vars
<1>2. fifo \in Seq(Char) /\ n \in Nat /\ pos \in [Ctx -> Nat] /\ wire \in Seq(Char)
  BY DEF TextInv
<1>3. n >= 1 /\ Head(fifo) = fifo[1] /\ fifo[1] \in Char
  BY <1>1, <1>2
<1>4. /\ fifo' \in Seq(Char) /\ Len(fifo') = n - 1
      /\ \A i \in 1..(n - 1) : fifo'[i] = fifo[i + 1]
  BY <1>1, <1>2
<1>5. PICK who \in [0..n -> Ctx], at \in [0..n -> Nat] : Written(who, at, fifo, wire, pos)
  BY DEF TextInv
<1>6. /\ at[0] = Len(wire) /\ Len(wire) < Len(Line(who[0]))
      /\ \A i \in 1..Len(wire) : wire[i] = Line(who[0])[i]
      /\ \A i \in 1..n :
            /\ at[i] \in 1..Len(Line(who[i])) /\ fifo[i] = Line(who[i])[at[i]]
            /\ IF AtEnd(who[i - 1], at[i - 1]) THEN at[i] = 1
               ELSE who[i] = who[i - 1] /\ at[i] = at[i - 1] + 1
      /\ ~ AtEnd(who[n], at[n]) => pos[who[n]] = at[n]
      /\ \A y \in Ctx : ~ AtEnd(y, pos[y]) => who[n] = y /\ at[n] = pos[y]
  BY <1>5 DEF Written
<1>7. who[0] \in Ctx /\ who[1] \in Ctx
  <2>1. 0 \in 0..n /\ 1 \in 0..n
    BY <1>2, <1>3
  <2> QED BY <2>1, Zenon
<1>8. /\ at[1] \in 1..Len(Line(who[1])) /\ fifo[1] = Line(who[1])[at[1]]
      /\ IF AtEnd(who[0], at[0]) THEN at[1] = 1 ELSE who[1] = who[0] /\ at[1] = at[0] + 1
  BY <1>2, <1>3, <1>6
(* What is sent continues what the wire shows. *)
<1>9. at[1] = Len(wire) + 1 /\ \A i \in 1..Len(wire) : wire[i] = Line(who[1])[i]
  <2>1. CASE wire = <<>>
    BY <1>6, <1>8, <2>1 DEF AtEnd
  <2>2. CASE wire # <<>>
    <3>1. Len(wire) \in Nat /\ Len(wire) # 0 /\ ~ AtEnd(who[0], at[0])
      BY <1>2, <1>6, <1>7, <2>2, LineParts DEF AtEnd
    <3> QED BY <1>6, <1>8, <3>1
  <2> QED BY <2>1, <2>2
(* The line ends with its "nl" and has no other. *)
<1>10. fifo[1][1] = "nl" <=> at[1] = Len(Line(who[1]))
  <2>1. /\ Len(Line(who[1])) \in Nat /\ Len(Line(who[1])) >= 2
        /\ Line(who[1])[1] = <<"prefix", who[1]>>
        /\ \A i \in 2..(Len(Line(who[1])) - 1) :
              Line(who[1])[i] = <<"digit", Digits(who[1])[i - 1]>>
        /\ Line(who[1])[Len(Line(who[1]))] = <<"nl", 0>>
    <3>1. /\ Line(who[1]) \in Seq(Char) /\ Digits(who[1]) \in Seq(0..9)
          /\ Len(Line(who[1])) = Len(Digits(who[1])) + 2
      BY <1>7, LineParts, Zenon
    <3>2. Len(Line(who[1])) \in Nat /\ Len(Line(who[1])) >= 2
      BY <3>1
    <3> QED BY <1>7, <3>2, LineParts, Zenon
  <2>2. CASE at[1] = Len(Line(who[1]))
    BY <1>8, <2>1, <2>2
  <2>3. CASE at[1] # Len(Line(who[1]))
    BY <1>8, <2>1, <2>3
  <2> QED BY <2>2, <2>3
<1> DEFINE end == at[1] = Len(Line(who[1]))
           who2 == [i \in 0..(n - 1) |-> who[i + 1]]
           at2 == [i \in 0..(n - 1) |-> IF i = 0 /\ end THEN 0 ELSE at[i + 1]]
<1>11. who2 \in [0..Len(fifo') -> Ctx] /\ at2 \in [0..Len(fifo') -> Nat]
  <2>1. \A i \in 0..(n - 1) : i + 1 \in 0..n
    BY <1>2, <1>3
  <2>2. \A i \in 0..(n - 1) : who[i + 1] \in Ctx /\ at[i + 1] \in Nat
    BY <2>1, Zenon
  <2>3. 0 \in Nat /\ Len(fifo') = n - 1
    BY <1>4
  <2> QED BY <2>2, <2>3, Zenon
<1>12. /\ who2[0] = who[1] /\ at2[0] = IF end THEN 0 ELSE at[1]
       /\ \A i \in 1..(n - 1) : who2[i] = who[i + 1] /\ at2[i] = at[i + 1]
       /\ \A i \in 0..(n - 1) : AtEnd(who2[i], at2[i]) <=> AtEnd(who[i + 1], at[i + 1])
  BY <1>2, <1>3 DEF AtEnd
<1> HIDE DEF who2, at2
<1>13. /\ wire' \in Seq(Char) /\ at2[0] = Len(wire') /\ Len(wire') < Len(Line(who2[0]))
       /\ \A i \in 1..Len(wire') : wire'[i] = Line(who2[0])[i]
  <2>1. Len(Line(who[1])) \in Nat /\ Len(Line(who[1])) >= 2
    BY <1>7, LineParts
  <2>2. CASE end
    BY <1>1, <1>3, <1>10, <1>12, <2>1, <2>2
  <2>3. CASE ~ end
    <3>1. wire' = Append(wire, fifo[1])
      BY <1>1, <1>3, <1>10, <2>3
    <3>2. /\ wire' \in Seq(Char) /\ Len(wire') = Len(wire) + 1 /\ wire'[Len(wire) + 1] = fifo[1]
          /\ \A i \in 1..Len(wire) : wire'[i] = wire[i]
      BY <1>2, <1>3, <3>1
    <3>3. at2[0] = at[1] /\ who2[0] = who[1] /\ at[1] < Len(Line(who[1]))
      BY <1>8, <1>12, <2>1, <2>3
    <3>4. \A i \in 1..(Len(wire) + 1) : i \in 1..Len(wire) \/ i = Len(wire) + 1
      BY <1>2
    <3> QED BY <1>8, <1>9, <3>2, <3>3, <3>4
  <2> QED BY <2>2, <2>3
<1>14. ASSUME NEW i \in 1..(n - 1)
       PROVE  /\ at2[i] \in 1..Len(Line(who2[i])) /\ fifo'[i] = Line(who2[i])[at2[i]]
              /\ IF AtEnd(who2[i - 1], at2[i - 1]) THEN at2[i] = 1
                 ELSE who2[i] = who2[i - 1] /\ at2[i] = at2[i - 1] + 1
  <2>1. i + 1 \in 1..n /\ i + 1 - 1 = i /\ i - 1 \in 0..(n - 1) /\ i - 1 + 1 = i
    BY <1>2
  <2>2. /\ at[i + 1] \in 1..Len(Line(who[i + 1])) /\ fifo[i + 1] = Line(who[i + 1])[at[i + 1]]
        /\ IF AtEnd(who[i], at[i]) THEN at[i + 1] = 1
           ELSE who[i + 1] = who[i] /\ at[i + 1] = at[i] + 1
    BY <1>6, <2>1
  <2>3. who2[i] = who[i + 1] /\ at2[i] = at[i + 1] /\ fifo'[i] = fifo[i + 1]
    BY <1>4, <1>12
  <2>4. AtEnd(who2[i - 1], at2[i - 1]) <=> AtEnd(who[i], at[i])
    BY <1>12, <2>1
  <2>5. ~ AtEnd(who[i], at[i]) => who2[i - 1] = who[i] /\ at2[i - 1] = at[i]
    <3>1. CASE i = 1
      BY <1>12, <3>1 DEF AtEnd
    <3>2. CASE i # 1
      BY <1>12, <1>2, <2>1, <3>2
    <3> QED BY <3>1, <3>2
  <2>6. CASE AtEnd(who[i], at[i])
    BY <2>2, <2>3, <2>4, <2>6
  <2>7. CASE ~ AtEnd(who[i], at[i])
    BY <2>2, <2>3, <2>4, <2>5, <2>7
  <2> QED BY <2>6, <2>7
<1>15. /\ AtEnd(who2[n - 1], at2[n - 1]) <=> AtEnd(who[n], at[n])
       /\ ~ AtEnd(who[n], at[n]) => who2[n - 1] = who[n] /\ at2[n - 1] = at[n]
  <2>1. n - 1 \in 0..(n - 1) /\ n - 1 + 1 = n
    BY <1>2, <1>3
  <2>2. CASE n = 1
    BY <1>12, <2>1, <2>2 DEF AtEnd
  <2>3. CASE n # 1
    BY <1>2, <1>3, <1>12, <2>1, <2>3
  <2> QED BY <2>2, <2>3
<1>16. \A y \in Ctx : ~ AtEnd(y, pos[y]) => who2[n - 1] = y /\ at2[n - 1] = pos[y]
  BY <1>6, <1>15
<1>17. Written(who2, at2, fifo', wire', pos')
  <2>1. \A i \in 1..Len(fifo') :
           /\ at2[i] \in 1..Len(Line(who2[i])) /\ fifo'[i] = Line(who2[i])[at2[i]]
           /\ IF AtEnd(who2[i - 1], at2[i - 1]) THEN at2[i] = 1
              ELSE who2[i] = who2[i - 1] /\ at2[i] = at2[i - 1] + 1
    BY <1>4, <1>14
  <2> QED BY <1>1, <1>4, <1>6, <1>13, <1>15, <1>16, <2>1 DEF Written
<1> QED BY <1>1, <1>2, <1>4, <1>11, <1>13, <1>17, Zenon DEF TextInv

(* Every step of the printing contexts and of the UART preserves TextInv. *)
LEMMA TextInvStep == LockInv /\ TextInv /\ [UartNext]_uartVars => TextInv'
<1> SUFFICES ASSUME LockInv, TextInv, [UartNext]_uartVars PROVE TextInv'
  OBVIOUS
<1>1. ASSUME NEW x \in Ctx, klog(x) PROVE TextInv'
  BY <1>1, TextInvLock DEF klog, spin_lock_irqsave, Goto, At, LockInv
<1>2. ASSUME NEW x \in Ctx, uart_putc(x) PROVE TextInv'
  BY <1>2, TextInvPutc
<1>3. ASSUME NEW x \in Ctx, klogEnd(x) PROVE TextInv'
  <2>1. /\ pc' = [pc EXCEPT ![x] = "restore"] /\ pos' = [pos EXCEPT ![x] = 0]
        /\ fifo' = fifo /\ wire' = wire /\ AtEnd(x, pos[x])
    BY <1>3 DEF klogEnd, spin_unlock, Goto, AtEnd
  <2>2. \A y \in Ctx : AtEnd(y, 0) /\ pos[y] \in Nat /\ Len(Line(y)) \in Nat
    BY LineParts DEF AtEnd, TextInv
  <2>3. pos' \in [Ctx -> Nat] /\ pos'[x] = 0 /\ \A y \in Ctx : y # x => pos'[y] = pos[y]
    BY <2>1 DEF TextInv
  <2>4. \A y \in Ctx : pos'[y] <= Len(Line(y)) /\ (pos'[y] > 0 => pc'[y] = "held")
    BY <2>1, <2>2, <2>3 DEF TextInv, LockInv
  <2>5. ASSUME NEW who \in [0..Len(fifo) -> Ctx], NEW at \in [0..Len(fifo) -> Nat],
               Written(who, at, fifo, wire, pos)
        PROVE  Written(who, at, fifo, wire, pos')
    <3> DEFINE n == Len(fifo)
    <3>1. n \in 0..n
      BY DEF TextInv
    <3>2. who[n] \in Ctx
      BY <3>1, Zenon
    <3>3. ~ AtEnd(who[n], at[n]) => pos[who[n]] = at[n]
      BY <2>5 DEF Written
    <3>4. ~ AtEnd(who[n], at[n]) => pos'[who[n]] = at[n]
      BY <2>1, <2>3, <3>2, <3>3
    <3>5. \A y \in Ctx : ~ AtEnd(y, pos'[y]) => who[n] = y /\ at[n] = pos'[y]
      <4>1. \A y \in Ctx : ~ AtEnd(y, pos[y]) => who[n] = y /\ at[n] = pos[y]
        BY <2>5 DEF Written
      <4>2. AtEnd(x, pos'[x])
        BY <2>2, <2>3
      <4> QED BY <2>3, <4>1, <4>2, Zenon
    <3> QED BY <2>5, <3>4, <3>5, Zenon DEF Written
  <2> QED BY <2>1, <2>3, <2>4, <2>5, Zenon DEF TextInv
<1>4. ASSUME NEW x \in Ctx, SpinStep(x), UNCHANGED <<pos, fifo, wire>> PROVE TextInv'
  <2>1. \A y \in Ctx : pc[y] = "held" => pc'[y] = "held"
    BY <1>4 DEF SpinStep, Sevl, Wfe, Ldaxr, Stxr, Restore, Goto, At, LockInv
  <2> QED BY <1>4, <2>1, TextInvLock
<1>5. ASSUME NEW c \in CPU, Hardware(c), UNCHANGED <<pos, fifo, wire>> PROVE TextInv'
  BY <1>5, TextInvLock DEF Hardware, Event, TakeIrq, Eret
<1>6. CASE Send
  BY <1>6, TextInvSend
<1>7. CASE UNCHANGED uartVars
  BY <1>7, TextInvLock DEF uartVars, vars
<1> QED BY <1>1, <1>2, <1>3, <1>4, <1>5, <1>6, <1>7 DEF UartNext

(* What the wire shows is the beginning of one caller's line, and when the *)
(* line ends its digits are the number that caller printed, for any number *)
(* of CPUs, any values and any depth of the FIFO (klog, uart_puts).        *)
THEOREM LinesAreWhole == UartSpec => []LinesWhole
<1>1. UartInit => LockInv /\ TextInv
  BY LockInvInit, TextInvInit DEF UartInit
<1>2. LockInv /\ TextInv /\ [UartNext]_uartVars => LockInv' /\ TextInv'
  BY UartStepsLock, LockInvStep, TextInvStep
<1>3. TextInv => LinesWhole
  <2> SUFFICES ASSUME TextInv, wire # <<>>
               PROVE  /\ wire[1][1] = "prefix" /\ \A i \in 2..Len(wire) : wire[i][1] = "digit"
                      /\ fifo # <<>> /\ Head(fifo)[1] = "nl" =>
                            LET v == Value[wire[1][2]]
                            IN  IF v = NoValue THEN Len(wire) = 1
                                ELSE Len(wire) > 1 /\ Decimal(DigitsOf(Tail(wire))) = v
    BY DEF LinesWhole
  <2>1. fifo \in Seq(Char) /\ wire \in Seq(Char) /\ Len(fifo) \in Nat /\ Len(wire) \in Nat \ {0}
    BY DEF TextInv
  <2>2. PICK who \in [0..Len(fifo) -> Ctx], at \in [0..Len(fifo) -> Nat] :
               Written(who, at, fifo, wire, pos)
    BY Zenon DEF TextInv
  <2> DEFINE w == who[0]
             d == Digits(w)
  <2>3. w \in Ctx
    <3>1. 0 \in 0..Len(fifo)
      BY <2>1
    <3> QED BY <3>1, Zenon
  <2>4. at[0] = Len(wire) /\ Len(wire) < Len(Line(w)) /\ \A i \in 1..Len(wire) : wire[i] = Line(w)[i]
    BY <2>2 DEF Written
  <2>5. /\ Line(w) \in Seq(Char) /\ d \in Seq(0..9) /\ Len(Line(w)) = Len(d) + 2
        /\ Line(w)[1] = <<"prefix", w>>
        /\ \A i \in 2..(Len(Line(w)) - 1) : Line(w)[i] = <<"digit", d[i - 1]>>
        /\ Line(w)[Len(Line(w))] = <<"nl", 0>>
        /\ Value[w] # NoValue => d # <<>> /\ Decimal(d) = Value[w]
    BY <2>3, LineParts
  <2> HIDE DEF d, w
  <2>6. wire[1] = <<"prefix", w>> /\ \A i \in 2..Len(wire) : wire[i] = <<"digit", d[i - 1]>>
    BY <2>1, <2>4, <2>5
  <2>7. ASSUME fifo # <<>>, Head(fifo)[1] = "nl"
        PROVE  Len(wire) = Len(d) + 1 /\ DigitsOf(Tail(wire)) = d
    <3>1. ~ AtEnd(w, at[0]) /\ 1 \in 1..Len(fifo) /\ Head(fifo) = fifo[1]
      BY <2>1, <2>4, <2>7 DEF AtEnd
    <3>2. who[1] = w /\ at[1] = Len(wire) + 1 /\ fifo[1] = Line(w)[Len(wire) + 1]
      BY <2>2, <2>4, <3>1 DEF Written, w
    <3>3. Len(wire) + 1 \in 2..Len(Line(w))
      BY <2>1, <2>4, <2>5
    <3>4. Len(wire) + 1 = Len(Line(w))
      <4> DEFINE k == Len(wire) + 1
      <4>1. k \in 2..Len(Line(w)) /\ Line(w)[k][1] = "nl"
        BY <2>7, <3>1, <3>2, <3>3
      <4>2. k \in 2..(Len(Line(w)) - 1) => Line(w)[k][1] = "digit"
        BY <2>5
      <4>3. Len(Line(w)) \in Nat
        BY <2>5
      <4> HIDE DEF k
      <4>4. k = Len(Line(w))
        BY <4>1, <4>2, <4>3
      <4> QED BY <4>4 DEF k
    <3>5. Len(wire) = Len(d) + 1 /\ Len(d) \in Nat
      BY <2>1, <2>5, <3>4
    <3>6. Len(Tail(wire)) = Len(d) /\ \A i \in 1..Len(d) : Tail(wire)[i] = wire[i + 1]
      BY <2>1, <3>5
    <3>7. \A i \in 1..Len(d) : Tail(wire)[i][2] = d[i]
      BY <2>6, <3>5, <3>6
    <3>8. d = [i \in 1..Len(d) |-> d[i]]
      BY <2>5
    <3> QED BY <3>5, <3>6, <3>7, <3>8 DEF DigitsOf
  <2>8. Value[w] = NoValue => Len(d) = 0
    BY DEF d, Digits
  <2>9. Value[w] # NoValue => Len(d) > 0
    BY <2>5
  <2>10. wire[1][1] = "prefix" /\ wire[1][2] = w /\ \A i \in 2..Len(wire) : wire[i][1] = "digit"
    BY <2>6
  <2>11. ASSUME fifo # <<>>, Head(fifo)[1] = "nl", Value[w] = NoValue PROVE Len(wire) = 1
    BY <2>7, <2>8, <2>11
  <2>12. ASSUME fifo # <<>>, Head(fifo)[1] = "nl", Value[w] # NoValue
         PROVE  Len(wire) > 1 /\ Decimal(DigitsOf(Tail(wire))) = Value[w]
    <3>1. Len(wire) = Len(d) + 1 /\ Len(d) > 0 /\ Len(d) \in Nat
      BY <2>5, <2>7, <2>9, <2>12
    <3> QED BY <2>5, <2>7, <2>12, <3>1
  <2> QED BY <2>10, <2>11, <2>12, Zenon
<1> QED BY <1>1, <1>2, <1>3, PTL DEF UartSpec
=============================================================================
