----------------------------- MODULE BootProofs -----------------------------
(***************************************************************************)
(* Bring-up is right for any number of CPUs, slots, workers and rounds of  *)
(* the self-test, whatever firmware refuses and however late a CPU is: the *)
(* accelerator is found, sized and ready, and the run queues are complete  *)
(* and consistent when interrupts find them.  First the inductive          *)
(* invariant, PCI enumeration as a whole, and one lemma per part of the    *)
(* invariant that every step preserves it; then the counting arguments     *)
(* (online, the self-test's count, the capacity of tasks[]); then the      *)
(* theorems.                                                               *)
(***************************************************************************)
EXTENDS Boot, FiniteSetTheorems, TLAPS

-----------------------------------------------------------------------------
(* The PCI scan.                                                           *)

OutType == [found : BOOLEAN, dev : 0..NUM_SLOTS, bar0_size : Nat, bar0_phys : Nat,
            bar0_readback : Nat, gic_spi : Int]

(* What BAR0 of the device in slot d reads after v was written to it. *)
Kept(d, v) == IF slots[d].size = 0 THEN 0 ELSE (v - (v % slots[d].size)) + slots[d].flags

FirmwareBar(d) == IF slots[d] = Empty THEN 0 ELSE slots[d].bar
FirmwareCommand(d) == IF slots[d] = Empty THEN {} ELSE slots[d].command

(* Slots before dev are no accelerators, dev is the one that was found     *)
(* from ScanFound on, and only its registers differ from what firmware     *)
(* left; it does not decode memory from DecodeOff to TurnOn; BAR0, mask    *)
(* and size are what the last write to BAR0 makes them.                    *)
PciInv ==
    /\ PciTypeOK
    /\ step \in {"scan", "decode_off", "size_ones", "size_restore", "assign", "turn_on", "done"}
    /\ out \in OutType /\ orig \in 0..(2^BAR_WIDTH - 1) /\ mask \in 0..(2^BAR_WIDTH - 1)
    /\ \A d \in Slot : d < dev => ~ IsAccel(d)
    /\ step = "scan" => ~ out.found
    /\ ~ out.found =>
          /\ out = Nothing /\ step \in {"scan", "done"}
          /\ step = "done" => dev = NUM_SLOTS
    /\ out.found => out.dev = dev /\ dev \in Slot /\ IsAccel(dev)
    /\ \A d \in Slot : d # dev \/ ~ out.found => bar[d] = FirmwareBar(d) /\ command[d] = FirmwareCommand(d)
    /\ step \in {"decode_off", "size_ones"} => bar[dev] = FirmwareBar(dev)
    /\ step = "decode_off" => command[dev] = FirmwareCommand(dev)
    /\ step \in {"size_ones", "size_restore", "assign", "turn_on"} => "memory" \notin command[dev]
    /\ step = "size_restore" => bar[dev] = Kept(dev, 2^BAR_WIDTH - 1)
    /\ step = "assign" => mask = Kept(dev, 2^BAR_WIDTH - 1)
    /\ step \in {"turn_on", "done"} /\ out.found =>
          /\ out.bar0_size = slots[dev].size /\ out.bar0_phys = PCIE_MMIO32_BASE
          /\ bar[dev] = Kept(dev, PCIE_MMIO32_BASE)
    /\ step = "done" /\ out.found =>
          {"memory", "bus_master"} \subseteq command[dev] /\ out.gic_spi = Swizzled(dev)

(* A multiple of s below a multiple p of s is at most p - s. *)
LEMMA RoundDown ==
    ASSUME NEW p \in Nat, NEW s \in Nat \ {0}, p % s = 0, NEW v \in 0..(p - 1)
    PROVE  v - (v % s) \in 0..(p - s)
<1> DEFINE a == p \div s
           b == v \div s
<1>1. /\ a \in Int /\ b \in Int
      /\ p = s * a /\ v = s * b + (v % s) /\ v % s \in 0..(s - 1)
  OBVIOUS
<1> HIDE DEF a, b
<1>2. s * b < s * a
  BY <1>1
<1>3. b < a
  BY <1>1, <1>2
<1>4. s * (b + 1) <= s * a
  BY <1>1, <1>3
<1>5. b >= 0
  <2>1. b < 0 => s * b <= s * (-1)
    BY <1>1
  <2> QED BY <1>1, <2>1
<1>6. s * b >= 0
  BY <1>1, <1>5
<1> QED BY <1>1, <1>4, <1>6

(* All ones rounded down to a multiple of s. *)
LEMMA RoundOnes ==
    ASSUME NEW p \in Nat, NEW s \in Nat \ {0}, s <= p, p % s = 0
    PROVE  (p - 1) - ((p - 1) % s) = p - s
<1> DEFINE a == p \div s
           b == (p - 1) \div s
<1>1. /\ a \in Int /\ b \in Int
      /\ p = s * a /\ p - 1 = s * b + ((p - 1) % s) /\ (p - 1) % s \in 0..(s - 1)
  OBVIOUS
<1> HIDE DEF a, b
<1>2. s * b < s * a /\ s * a <= s * (b + 1)
  BY <1>1
<1>3. a = b + 1
  BY <1>1, <1>2
<1> QED BY <1>1, <1>3

(* The registers of a device are numbers within their widths. *)
LEMMA DeviceRegs ==
    ASSUME slots \in Machines, NEW d \in Slot, slots[d] # Empty
    PROVE  /\ slots[d].size \in Nat /\ slots[d].flags \in 0..15 /\ slots[d].pin \in 0..4
           /\ slots[d].bar \in 0..(2^BAR_WIDTH - 1)
           /\ slots[d].command \in SUBSET {"io", "memory", "bus_master"}
           /\ slots[d].size # 0 =>
                /\ slots[d].size \in 16..(2^BAR_WIDTH - 1)
                /\ slots[d].size % 16 = 0 /\ 2^BAR_WIDTH % slots[d].size = 0
                /\ PCIE_MMIO32_BASE % slots[d].size = 0
<1>1. slots[d] \in Device /\ slots[d].bar < 2^BAR_WIDTH /\ 2^BAR_WIDTH \in Nat
  BY PciAssumption, Zenon
<1>2. /\ slots[d].size \in Nat /\ slots[d].flags \in 0..15 /\ slots[d].pin \in 0..4
      /\ slots[d].bar \in Nat /\ slots[d].command \in SUBSET {"io", "memory", "bus_master"}
  BY <1>1, Zenon DEF Device
<1>3. slots[d].size # 0 =>
        /\ slots[d].size < 2^BAR_WIDTH /\ slots[d].size % 16 = 0
        /\ 2^BAR_WIDTH % slots[d].size = 0 /\ PCIE_MMIO32_BASE % slots[d].size = 0
  BY PciAssumption, Zenon
<1>4. ASSUME NEW s \in Nat, s # 0, s % 16 = 0 PROVE s >= 16
  BY <1>4
<1> QED BY <1>1, <1>2, <1>3, <1>4

(* BAR0 stays within its width, whatever is written to it. *)
LEMMA KeptBounded ==
    ASSUME slots \in Machines, NEW d \in Slot, slots[d] # Empty, NEW v \in 0..(2^BAR_WIDTH - 1)
    PROVE  Kept(d, v) \in 0..(2^BAR_WIDTH - 1)
<1>1. CASE slots[d].size = 0
  BY <1>1, PciAssumption DEF Kept
<1>2. CASE slots[d].size # 0
  <2>1. v - (v % slots[d].size) \in 0..(2^BAR_WIDTH - slots[d].size)
    BY <1>2, DeviceRegs, RoundDown, PciAssumption, Zenon
  <2>2. slots[d].size \in 16..(2^BAR_WIDTH - 1) /\ slots[d].flags \in 0..15
    BY <1>2, DeviceRegs, Zenon
  <2> QED BY <1>2, <2>1, <2>2, PciAssumption DEF Kept
<1> QED BY <1>1, <1>2, Zenon

(* The mask that pci_bar0_size reads back encodes the size of the BAR: the *)
(* flag bits go, and the complement plus one is the size.                  *)
LEMMA MaskEncodesSize ==
    ASSUME slots \in Machines, NEW d \in Slot, slots[d] # Empty, mask = Kept(d, 2^BAR_WIDTH - 1)
    PROVE  BarSize = slots[d].size
<1>1. CASE slots[d].size = 0
  BY <1>1 DEF Kept, BarSize
<1>2. CASE slots[d].size # 0
  <2> DEFINE s == slots[d].size
             f == slots[d].flags
             p == 2^BAR_WIDTH
  <2>1. s \in 16..(p - 1) /\ s % 16 = 0 /\ p % s = 0 /\ f \in 0..15 /\ p \in Nat
    BY <1>2, DeviceRegs, PciAssumption, Zenon
  <2>2. mask = (p - 1) - ((p - 1) % s) + f
    BY <1>2, Zenon DEF Kept
  <2>3. BarSize = IF mask - (mask % 16) = 0 THEN 0 ELSE p - (mask - (mask % 16))
    BY Zenon DEF BarSize
  <2> HIDE DEF s, f, p
  <2>4. (p - 1) - ((p - 1) % s) = p - s
    <3>1. s \in Nat \ {0} /\ s <= p /\ p % s = 0 /\ p \in Nat
      BY <2>1
    <3> QED BY <3>1, RoundOnes, Zenon
  <2>5. p % 16 = 0
    <3> DEFINE a == p \div s
               b == s \div 16
    <3>1. a \in Int /\ b \in Int /\ p = s * a /\ s = 16 * b
      BY <2>1
    <3> HIDE DEF a, b
    <3>2. p = 16 * (b * a) /\ b * a \in Int
      BY <3>1
    <3> QED BY <3>2
  <2>6. mask = p - s + f
    BY <2>1, <2>2, <2>4, Zenon
  <2>7. mask % 16 = f
    BY <2>1, <2>5, <2>6
  <2>8. BarSize = s
    BY <2>1, <2>3, <2>6, <2>7
  <2> QED BY <2>8, Zenon DEF s
<1> QED BY <1>1, <1>2, Zenon

(* The scan starts before the first slot, with the registers as firmware   *)
(* left them.                                                              *)
LEMMA PciInvInit == PciInit => PciInv
<1> SUFFICES ASSUME PciInit PROVE PciInv
  OBVIOUS
<1>1. \A d \in Slot : slots[d] # Empty =>
        /\ slots[d].bar \in 0..(2^BAR_WIDTH - 1)
        /\ slots[d].command \in SUBSET {"io", "memory", "bus_master"}
  BY DeviceRegs, Zenon DEF PciInit
<1>2. PciTypeOK
  BY <1>1, PciAssumption DEF PciInit, PciTypeOK, Nothing
<1>3. out \in OutType /\ orig \in 0..(2^BAR_WIDTH - 1) /\ mask \in 0..(2^BAR_WIDTH - 1)
  BY PciAssumption DEF PciInit, OutType, Nothing, NoSpi
<1>4. \A d \in Slot : bar[d] = FirmwareBar(d) /\ command[d] = FirmwareCommand(d)
  BY Zenon DEF PciInit, FirmwareBar, FirmwareCommand
<1> QED BY <1>2, <1>3, <1>4 DEF PciInit, PciInv, Nothing, Slot

(* Every step of pci_find_dma_accel preserves PciInv. *)
LEMMA PciInvStep == PciInv /\ pci_find_dma_accel => PciInv'
<1> SUFFICES ASSUME PciInv, pci_find_dma_accel PROVE PciInv'
  OBVIOUS
<1> USE DEF IsAccel, FirmwareBar, FirmwareCommand, Kept, Swizzled
<1>1. CASE ScanNext
  <2>1. dev + 1 \in 0..NUM_SLOTS /\ \A d \in Slot : d < dev + 1 => d < dev \/ d = dev
    <3>1. dev \in 0..NUM_SLOTS /\ dev < NUM_SLOTS
      BY <1>1, Zenon DEF PciInv, PciTypeOK, ScanNext, Slot
    <3>2. NUM_SLOTS \in Nat
      BY PciAssumption, Zenon
    <3> QED BY <3>1, <3>2 DEF Slot
  <2>2. out.found = FALSE
    BY <1>1, Zenon DEF PciInv, OutType, ScanNext
  <2> QED BY <1>1, <2>1, <2>2, Zenon DEF PciInv, PciTypeOK, ScanNext
<1>2. CASE ScanFound
  <2>1. dev \in Slot /\ dev \in 0..NUM_SLOTS
    BY <1>2, PciAssumption DEF PciInv, PciTypeOK, ScanFound, Slot
  <2>2. out' \in OutType /\ out'.found /\ out'.dev = dev /\ out'.bar0_size = out.bar0_size
    BY <1>2, <2>1, Zenon DEF PciInv, ScanFound, OutType
  <2> QED BY <1>2, <2>1, <2>2, Zenon DEF PciInv, PciTypeOK, ScanFound
<1>3. CASE ScanEnd
  BY <1>3, Zenon DEF PciInv, PciTypeOK, ScanEnd
<1>4. CASE DecodeOff
  BY <1>4, Zenon DEF PciInv, PciTypeOK, DecodeOff
<1>5. CASE SizeOnes
  BY <1>5, KeptBounded, PciAssumption DEF PciInv, PciTypeOK, SizeOnes, WriteBar
<1>6. CASE SizeRestore
  BY <1>6, KeptBounded, PciAssumption, Zenon DEF PciInv, PciTypeOK, SizeRestore, WriteBar
<1>7. CASE Assign
  <2>1. out.found /\ dev \in Slot /\ slots \in Machines /\ slots[dev] # Empty
    BY <1>7, Zenon DEF PciInv, PciTypeOK, Assign
  <2>2. BarSize = slots[dev].size
    BY <1>7, <2>1, MaskEncodesSize, Zenon DEF PciInv, Assign
  <2>3. bar' = [bar EXCEPT ![dev] = Kept(dev, PCIE_MMIO32_BASE)]
    BY <1>7, Zenon DEF Assign, WriteBar
  <2>4. Kept(dev, PCIE_MMIO32_BASE) \in 0..(2^BAR_WIDTH - 1)
    BY <2>1, KeptBounded, PciAssumption, Zenon
  <2>5. slots[dev].size \in 0..(2^BAR_WIDTH - 1)
    BY <2>1, DeviceRegs, PciAssumption
  <2>6. bar'[dev] = Kept(dev, PCIE_MMIO32_BASE) /\ bar' \in [Slot -> 0..(2^BAR_WIDTH - 1)]
    BY <2>1, <2>3, <2>4, Zenon DEF PciInv, PciTypeOK
  <2>7. /\ out' \in OutType /\ out'.found /\ out'.dev = out.dev
        /\ out'.bar0_size = slots[dev].size /\ out'.bar0_phys = PCIE_MMIO32_BASE
    <3>1. bar'[dev] \in Nat /\ slots[dev].size \in Nat /\ PCIE_MMIO32_BASE \in Nat
      BY <2>1, <2>5, <2>6, PciAssumption
    <3>2. out' = [out EXCEPT !.bar0_size = slots[dev].size, !.bar0_phys = PCIE_MMIO32_BASE,
                             !.bar0_readback = bar'[dev]]
      BY <1>7, <2>2, Zenon DEF Assign
    <3> QED BY <2>1, <3>1, <3>2, Zenon DEF PciInv, OutType
  <2> QED BY <1>7, <2>1, <2>3, <2>5, <2>6, <2>7, Zenon DEF PciInv, PciTypeOK, Assign
<1>8. CASE TurnOn
  <2>1. out.found /\ dev \in Slot /\ slots \in Machines /\ slots[dev] # Empty
    BY <1>8, Zenon DEF PciInv, PciTypeOK, TurnOn
  <2>2. Swizzled(dev) \in Int
    BY <2>1, DeviceRegs, PciAssumption DEF Slot, NoSpi
  <2>3. /\ out' \in OutType /\ out'.found /\ out'.dev = out.dev /\ out'.gic_spi = Swizzled(dev)
        /\ out'.bar0_size = out.bar0_size /\ out'.bar0_phys = out.bar0_phys
    BY <1>8, <2>1, <2>2, Zenon DEF PciInv, TurnOn, OutType
  <2> QED BY <1>8, <2>1, <2>3, Zenon DEF PciInv, PciTypeOK, TurnOn
<1> QED BY <1>1, <1>2, <1>3, <1>4, <1>5, <1>6, <1>7, <1>8, Zenon DEF pci_find_dma_accel

(* A device that was found keeps the address it is given. *)
LEMMA BaseKept ==
    ASSUME slots \in Machines, NEW d \in Slot, IsAccel(d)
    PROVE  Kept(d, PCIE_MMIO32_BASE) - slots[d].flags = PCIE_MMIO32_BASE
<1>1. slots[d].size # 0
  BY AccelAssumption, Zenon DEF IsAccel
<1>2. PCIE_MMIO32_BASE % slots[d].size = 0 /\ slots[d].flags \in 0..15 /\ PCIE_MMIO32_BASE \in Nat
  BY <1>1, DeviceRegs, PciAssumption DEF IsAccel
<1> QED BY <1>1, <1>2 DEF Kept

(* The scan's results, and that sizing is never visible, follow from       *)
(* PciInv.                                                                 *)
LEMMA PciInvImplies == PciInv => SizingHidden /\ PciResult
<1> SUFFICES ASSUME PciInv PROVE SizingHidden /\ PciResult
  OBVIOUS
<1>1. SizingHidden
  <2> SUFFICES ASSUME NEW d \in Slot, "memory" \in command[d]
               PROVE  bar[d] - slots[d].flags \in {slots[d].bar - slots[d].flags, PCIE_MMIO32_BASE}
    BY Zenon DEF SizingHidden
  <2>1. CASE d # dev \/ ~ out.found \/ step = "decode_off"
    BY <2>1, Zenon DEF PciInv, FirmwareBar, FirmwareCommand
  <2>2. CASE d = dev /\ out.found /\ step # "decode_off"
    <3>1. step = "done" /\ bar[d] = Kept(d, PCIE_MMIO32_BASE) /\ IsAccel(d)
      BY <2>2, Zenon DEF PciInv
    <3> QED BY <3>1, BaseKept, Zenon DEF PciInv, PciTypeOK
  <2> QED BY <2>1, <2>2, Zenon
<1>2. PciResult
  <2> SUFFICES ASSUME step = "done" PROVE PciResult
    BY Zenon DEF PciResult
  <2>1. ~ out.found => \A d \in Slot : ~ IsAccel(d)
    BY PciAssumption DEF PciInv, Slot
  <2>2. ASSUME out.found
        PROVE  /\ IsAccel(out.dev) /\ out.dev \in Slot /\ \A d \in Slot : IsAccel(d) => out.dev <= d
               /\ out.bar0_size = slots[out.dev].size
               /\ out.dev % 4 = 2 /\ slots[out.dev].pin = 1 => out.gic_spi = 5
    <3>1. out.dev = dev /\ dev \in Slot /\ IsAccel(dev) /\ \A d \in Slot : d < dev => ~ IsAccel(d)
      BY <2>2, Zenon DEF PciInv
    <3>2. \A d \in Slot : IsAccel(d) => dev <= d
      BY <3>1 DEF Slot
    <3>3. dev % 4 = 2 /\ slots[dev].pin = 1 => Swizzled(dev) = 5
      BY <3>1, PciAssumption DEF Swizzled, Slot
    <3> QED BY <2>2, <3>1, <3>2, <3>3, Zenon DEF PciInv
  <2> QED BY <2>1, <2>2, Zenon DEF PciResult, PciInv, OutType
<1> QED BY <1>1, <1>2, Zenon

(* The device that was found is the first accelerator. *)
LEMMA FoundIsFirst == PciInv /\ out.found => FirstAccel(dev)
<1> SUFFICES ASSUME PciInv, out.found PROVE FirstAccel(dev)
  OBVIOUS
<1>1. dev \in Slot /\ IsAccel(dev) /\ \A e \in Slot : e < dev => ~ IsAccel(e)
  BY Zenon DEF PciInv
<1>2. dev \in Accels
  BY <1>1, Zenon DEF IsAccel, Accels
<1>3. ASSUME NEW e \in Accels PROVE dev <= e
  <2>1. e \in Slot /\ IsAccel(e)
    BY <1>3, Zenon DEF IsAccel, Accels
  <2>2. ~ (e < dev)
    BY <1>1, <2>1, Zenon
  <2> QED BY <1>1, <2>1, <2>2, PciAssumption DEF Slot
<1> QED BY <1>2, <1>3, Zenon DEF FirstAccel

(* A step of the scan touches no device but the first accelerator. *)
LEMMA PciTouches ==
    ASSUME PciInv, pci_find_dma_accel, NEW d \in Slot, ~ FirstAccel(d)
    PROVE  UNCHANGED <<bar[d], command[d]>>
<1>1. step # "scan" => FirstAccel(dev) \/ step = "done"
  BY FoundIsFirst, Zenon DEF PciInv
<1>2. CASE step = "scan"
  BY <1>2, Zenon DEF pci_find_dma_accel, ScanNext, ScanFound, ScanEnd, DecodeOff, SizeOnes, SizeRestore,
              Assign, TurnOn
<1>3. CASE step # "scan"
  <2>1. d # dev
    BY <1>1, <1>3, Zenon DEF pci_find_dma_accel, ScanNext, ScanFound, ScanEnd, DecodeOff, SizeOnes,
                      SizeRestore, Assign, TurnOn
  <2> QED BY <2>1, Zenon DEF PciInv, PciTypeOK, pci_find_dma_accel, ScanNext, ScanFound, ScanEnd, DecodeOff,
                      SizeOnes, SizeRestore, Assign, TurnOn, WriteBar
<1> QED BY <1>2, <1>3, Zenon

-----------------------------------------------------------------------------
(* Bring-up.                                                               *)

Early == {"pci", "stop", "init", "gic", "gic_on", "boot"}
Late == {"st", "st_wait", "route", "route_on", "place", "run"}

(* CPU 0 works in slot order, so a secondary that has not been asked for   *)
(* is off; cpu_alive follows the vectors; whatever the program uses has    *)
(* been set up by then.                                                    *)
CtlInv ==
    /\ pc[0] \in Early \cup {"psci", "spin"} \cup Late
    /\ \A c \in Secondary :
          pc[c] \in {"off", "start", "st", "idle", "test_a", "test_b", "pp", "irq_on", "run"}
    /\ present \subseteq CPU /\ DMA_IRQ_CPU \in CPU \cup {Undefined} /\ SMP_SELFTEST \in BOOLEAN
    /\ pc[0] \in Early \cup {"route", "route_on"} => k = 0
    /\ pc[0] \in {"psci", "st_wait"} => k \in 1..MAX_CPUS
    /\ pc[0] = "st" => k = 1
    /\ pc[0] = "spin" => k \in Secondary
    /\ pc[0] = "place" => k \in 0..NUM_WORKERS
    /\ \A c \in Secondary :
          pc[c] # "off" => pc[0] \notin Early /\ (pc[0] = "psci" => c < k) /\ (pc[0] = "spin" => c <= k)
    /\ cpu_alive[0] <=> pc[0] \notin Early
    /\ \A c \in Secondary : cpu_alive[c] <=> pc[c] \notin {"off", "start"}
    /\ vbar[0] /\ (pc[0] \notin Early => boot_vbar)
    /\ \A c \in Secondary : cpu_alive[c] => vbar[c]
    /\ smp_online = IF pc[0] \in Late THEN online ELSE 1

(* The device is ready before its interrupt is enabled, and the interrupt  *)
(* is routed to CPU 0 or below smp_online.                                 *)
DevInv ==
    /\ pc[0] \notin {"pci", "stop"} =>
          step = "done" /\ out.found /\ regs = AccelRegs /\ Answers
    /\ pc[0] \in {"gic_on", "route_on"} \/ enabled => target # NoTarget
    /\ enabled => pc[0] \notin {"pci", "stop"}
    /\ target \in {NoTarget, 0} \/ (pc[0] \in Late /\ target < smp_online)

(* online is the size of a set of CPUs that were alive in time, and        *)
(* SelftestWait waits for those.                                           *)
CountInv ==
    \E C \in SUBSET Alive :
        /\ Cardinality(C) = online
        /\ pc[0] \notin Early => 0 \in C
        /\ pc[0] \in {"psci", "spin"} => \A c \in C : c < k
        /\ pc[0] = "st_wait" => \A c \in C : c < k => st_done[c]

(* The increments of st_locked so far. *)
Increments == {x \in CPU \X (1..SELFTEST_N) : x[2] <= st_i[x[1]]}

StInv ==
    /\ st_locked = Cardinality(Increments)
    /\ \A c \in CPU : st_done[c] => st_i[c] = SELFTEST_N
    /\ \A c \in CPU : ~ cpu_alive[c] => st_i[c] = 0
    /\ pc[0] \in Early \cup {"psci", "spin"} => lock_ok
    /\ SelftestVerdict

-----------------------------------------------------------------------------
(* The number of workers that have been placed. *)
Placed == IF pc[0] = "place" THEN k ELSE IF pc[0] = "run" THEN NUM_WORKERS ELSE 0

WorkersOn(c) == {taskWorker(i) : i \in {j \in 0..(Placed - 1) : j % smp_online = c}}

(* The tasks CPU c has put into its own queue by itself. *)
Mine(c) ==
    IF c = 0 THEN {t \in {busy_task} : pc[0] = "run"}
    ELSE    {t \in {idle_tcb(c)} : pc[c] \in {"test_a", "test_b", "pp", "irq_on", "run"}}
       \cup {t \in {test_tcb(c)[1]} : pc[c] \in {"test_b", "pp", "irq_on", "run"}}
       \cup {t \in {test_tcb(c)[2]} : pc[c] \in {"pp", "irq_on", "run"}}
       \cup {t \in {pp_tcb(c)} : c \in {1, 2} /\ pc[c] \in {"irq_on", "run"}}

(* CPU c has registered what it runs. *)
Started(c) == IF c = 0 THEN Placed > 0 ELSE pc[c] \in {"test_a", "test_b", "pp", "irq_on", "run"}

(* A queue holds exactly what has been registered in it, each task once,   *)
(* and current_idx names what its CPU runs.                                *)
OneQueue(c) ==
    /\ Range(tasks[c]) = Mine(c) \cup WorkersOn(c)
    /\ IsInjective(tasks[c]) /\ Len(tasks[c]) <= MAX_TASKS
    /\ \A t \in Range(tasks[c]) : cpu[t] = c
    /\ Range(tasks[c]) \subseteq framed \cup {idle_tcb(c)}
    /\ Started(c) => current_idx[c] < Len(tasks[c]) /\ tasks[c][current_idx[c] + 1] = curr[c]

QueueInv ==
    /\ \A c \in CPU : OneQueue(c)
    /\ pc[0] \notin {"pci", "stop", "init"} => Workers \cup {busy_task} \subseteq framed
    /\ pc[0] \notin {"pci", "stop", "init", "run"} => curr[0] = taskWorker(0)

BootInv == TypeOK /\ PciInv /\ CtlInv /\ DevInv /\ CountInv /\ StInv /\ QueueInv

-----------------------------------------------------------------------------
(* CPU 0 and the secondaries are all CPUs. *)
LEMMA Cpus == 0 \in CPU /\ CPU = Secondary \cup {0} /\ 0 \notin Secondary /\ MAX_CPUS \in Nat \ {0}
<1>1. MAX_CPUS \in Nat \ {0}
  BY BootAssumption, Zenon
<1> QED BY <1>1 DEF CPU, Secondary

(* What these proofs need of TypeOK. *)
CtlTypes ==
    /\ pc \in [CPU -> Label] /\ cpu_alive \in [CPU -> BOOLEAN] /\ vbar \in [CPU -> BOOLEAN]
    /\ k \in Nat /\ online \in Int

(* The control state of bring-up evolves as CtlInv says. *)
LEMMA CtlStep == CtlTypes /\ CtlInv /\ Next => CtlInv'
<1> SUFFICES ASSUME CtlTypes, CtlInv, Next PROVE CtlInv'
  OBVIOUS
<1> USE Cpus DEF Goto
<1>t. /\ pc \in [CPU -> Label] /\ cpu_alive \in [CPU -> BOOLEAN] /\ vbar \in [CPU -> BOOLEAN]
      /\ k \in Nat /\ online \in Int
  BY Zenon DEF CtlTypes
<1> USE DEF CtlInv, Early, Late, buildVars, smpVars
<1>1. CASE FindAccel \/ Stopped
  BY <1>1, Zenon DEF FindAccel, Stopped, vars
<1>2. CASE AccelMissing \/ SetupAccel \/ InitTasks
  BY <1>2, <1>t DEF AccelMissing, SetupAccel, InitTasks
<1>3. CASE EnableDma \/ RouteDma \/ RouteDefault
  BY <1>3, <1>t, BootAssumption DEF EnableDma, RouteDma, RouteDefault, gic_enable_irq_target
<1>4. CASE smp_boot_secondaries
  BY <1>4, <1>t DEF smp_boot_secondaries, Secondary
<1>5. CASE psci_cpu_on
  <2>1. k \in Secondary /\ pc[k] = "off" /\ \A c \in Secondary : c < k => c <= k
    BY <1>5 DEF psci_cpu_on, Secondary, CPU
  <2>2. /\ pc[0] = "psci" /\ pc'[0] = "spin" /\ UNCHANGED <<buildVars, k, smpVars>>
        /\ \A c \in Secondary : pc'[c] = IF c = k THEN "start" ELSE pc[c]
    BY <1>5, <2>1, <1>t, Zenon DEF psci_cpu_on
  <2>3. k <= k
    BY <1>t
  <2> QED BY <2>1, <2>2, <2>3, Zenon
<1>6. CASE PsciRefuses \/ CameUp \/ Timeout
  <2>1. CASE PsciRefuses
    BY <2>1, <1>t DEF PsciRefuses, Secondary
  <2>2. CASE CameUp \/ Timeout
    <3>1. k \in Secondary /\ k + 1 \in 1..MAX_CPUS /\ \A c \in Secondary : c <= k <=> c < k + 1
      BY <2>2 DEF CameUp, Timeout, Secondary
    <3>2. /\ pc[0] = "spin" /\ pc'[0] = "psci" /\ \A c \in Secondary : pc'[c] = pc[c]
          /\ k' = k + 1 /\ UNCHANGED <<buildVars, cpu_alive, boot_vbar, vbar, smp_online>>
      BY <2>2, <1>t DEF CameUp, Timeout
    <3> QED BY <3>1, <3>2, Zenon
  <2> QED BY <1>6, <2>1, <2>2, Zenon
<1>7. CASE SetOnline
  BY <1>7, <1>t, Zenon DEF SetOnline
<1>8. CASE SelftestWait \/ SelftestDone
  BY <1>8, <1>t, BootAssumption DEF SelftestWait, SelftestDone
<1>9. CASE PlaceWorker \/ StartTasks
  BY <1>9, <1>t, BootAssumption DEF PlaceWorker, StartTasks
<1>10. CASE selftest_body(0)
  BY <1>10, <1>t DEF selftest_body
<1>11. ASSUME NEW c \in Secondary, secondary_start(c) PROVE CtlInv'
  BY <1>11, <1>t, Zenon DEF secondary_start
<1>12. ASSUME NEW c \in Secondary,
              \/ selftest_body(c) \/ IdleTask(c) \/ (\E n \in 1..2 : TestTask(c, n))
              \/ PingPongTask(c) \/ EnableIrqs(c)
       PROVE  CtlInv'
  <2>1. /\ pc[c] \in {"st", "idle", "test_a", "test_b", "pp", "irq_on"}
        /\ \E l \in {"st", "idle", "test_a", "test_b", "pp", "irq_on", "run"} : pc' = [pc EXCEPT ![c] = l]
        /\ UNCHANGED <<buildVars, k, smpVars>>
    BY <1>12, <1>t DEF selftest_body, IdleTask, TestTask, PingPongTask, EnableIrqs
  <2> QED BY <2>1, <1>t
<1>13. ASSUME NEW c \in CPU, Tick(c) PROVE CtlInv'
  BY <1>13, Zenon DEF Tick
<1> QED
  BY <1>1, <1>2, <1>3, <1>4, <1>5, <1>6, <1>7, <1>8, <1>9, <1>10, <1>11, <1>12, <1>13,
     Zenon DEF Next, kernel_main, secondary_main

(* Only the scan and accel_setup_queues touch the device. *)
LEMMA PciFrame ==
    ASSUME Next
    PROVE  \/ pc[0] = "pci" /\ pci_find_dma_accel /\ UNCHANGED <<pc, target, enabled>>
           \/ SetupAccel
           \/ UNCHANGED pciVars
BY Zenon DEF Next, kernel_main, secondary_main, FindAccel, AccelMissing, Stopped, InitTasks,
   EnableDma, RouteDma, RouteDefault, gic_enable_irq_target, smp_boot_secondaries, psci_cpu_on,
   PsciRefuses, CameUp, Timeout, SetOnline, selftest_body, SelftestWait, SelftestDone, PlaceWorker,
   StartTasks, secondary_start, IdleTask, TestTask, PingPongTask, EnableIrqs, Tick, buildVars,
   gicVars, vars

(* PciInv is preserved by all of bring-up. *)
LEMMA PciStep == PciInv /\ [Next]_vars => PciInv'
<1> SUFFICES ASSUME PciInv, [Next]_vars PROVE PciInv'
  OBVIOUS
<1>1. CASE UNCHANGED pciVars
  BY <1>1, Zenon DEF pciVars, PciInv, PciTypeOK, IsAccel, FirmwareBar, FirmwareCommand, Kept, Swizzled
<1>2. CASE SetupAccel
  BY <1>2, Zenon DEF SetupAccel, accel_setup_queues, PciInv, PciTypeOK, IsAccel, FirmwareBar,
              FirmwareCommand, Kept, Swizzled
<1> QED BY <1>1, <1>2, PciInvStep, PciFrame, Zenon DEF vars, buildVars

(* After the scan the device answers. *)
LEMMA FoundAnswers ==
    ASSUME PciInv, step = "done", out.found
    PROVE  Answers /\ "bus_master" \in command[out.dev]
<1>1. /\ out.dev = dev /\ dev \in Slot /\ IsAccel(dev) /\ slots \in Machines
      /\ {"memory", "bus_master"} \subseteq command[dev] /\ out.bar0_phys = PCIE_MMIO32_BASE
      /\ bar[dev] = Kept(dev, PCIE_MMIO32_BASE)
  BY Zenon DEF PciInv, PciTypeOK
<1> QED BY <1>1, BaseKept, Zenon DEF Answers

(* The device is ready before anything can use it. *)
LEMMA DevStep == CtlTypes /\ PciInv /\ CtlInv /\ DevInv /\ Next => DevInv'
<1> SUFFICES ASSUME CtlTypes, PciInv, CtlInv, DevInv, Next PROVE DevInv'
  OBVIOUS
<1> USE Cpus DEF Goto
<1>t. /\ pc \in [CPU -> Label] /\ cpu_alive \in [CPU -> BOOLEAN] /\ vbar \in [CPU -> BOOLEAN]
      /\ k \in Nat /\ online \in Int
  BY Zenon DEF CtlTypes
<1>1. CASE pc[0] = "pci" /\ pci_find_dma_accel /\ UNCHANGED <<pc, target, enabled>>
  BY <1>1, Zenon DEF DevInv, Late
<1>2. CASE SetupAccel
  <2>1. Answers /\ regs' = AccelRegs /\ Answers'
    BY <1>2, FoundAnswers, Zenon DEF SetupAccel, accel_setup_queues, Answers
  <2> QED BY <1>2, <2>1, <1>t, Zenon DEF SetupAccel, accel_setup_queues, DevInv, Late, gicVars
<1>3. CASE UNCHANGED pciVars /\ ~ SetupAccel
  <2>1. UNCHANGED <<step, out, regs, Answers>>
    BY <1>3, Zenon DEF pciVars, Answers
  <2> USE DEF DevInv, Late
  <2>2. CASE AccelMissing
    BY <2>1, <2>2, <1>t, Zenon DEF AccelMissing, gicVars
  <2>3. CASE InitTasks
    BY <2>1, <2>3, <1>t, Zenon DEF InitTasks, gicVars
  <2>4. CASE EnableDma
    BY <2>1, <2>4, <1>t DEF EnableDma, gic_enable_irq_target, smpVars, NoTarget
  <2>5. CASE RouteDma
    <3>1. DmaTarget \in Nat /\ (DmaTarget = 0 \/ DmaTarget < smp_online)
      BY <2>5 DEF RouteDma, DmaTarget, CtlInv, CPU
    <3>2. DmaTarget # NoTarget
      BY <3>1 DEF NoTarget
    <3> QED BY <2>1, <2>5, <3>1, <3>2, <1>t, Zenon DEF RouteDma, gic_enable_irq_target, smpVars
  <2>6. CASE SetOnline
    BY <2>1, <2>6, <1>t, Zenon DEF SetOnline, gicVars
  <2>7. CASE \/ smp_boot_secondaries \/ psci_cpu_on \/ PsciRefuses \/ CameUp \/ Timeout
             \/ selftest_body(0) \/ SelftestWait \/ SelftestDone \/ RouteDefault \/ PlaceWorker
             \/ StartTasks
    <3>1. /\ pc[0] \in {"boot", "psci", "spin", "st", "st_wait", "route", "place"}
          /\ pc'[0] \in {"psci", "spin", "st", "st_wait", "route", "place", "run"}
          /\ pc[0] \in Late => pc'[0] \in Late
          /\ UNCHANGED <<smp_online, target, enabled>>
      <4>1. k # 0 \/ ~ psci_cpu_on
        BY DEF psci_cpu_on, CtlInv
      <4> QED BY <2>7, <4>1, <1>t, Zenon DEF smp_boot_secondaries, psci_cpu_on, PsciRefuses, CameUp, Timeout,
                selftest_body, SelftestWait, SelftestDone, RouteDefault, PlaceWorker, StartTasks,
                smpVars, gicVars, Late
    <3> QED BY <2>1, <3>1, Zenon
  <2>8. CASE Stopped
    BY <2>1, <2>8, Zenon DEF Stopped, vars, smpVars, gicVars
  <2>9. ASSUME NEW c \in Secondary, secondary_start(c) \/ secondary_main(c) PROVE DevInv'
    BY <2>1, <2>9, <1>t DEF secondary_start, secondary_main, selftest_body, IdleTask, TestTask,
       PingPongTask, EnableIrqs, smpVars, gicVars
  <2>10. ASSUME NEW c \in CPU, Tick(c) PROVE DevInv'
    BY <2>1, <2>10, Zenon DEF Tick, smpVars, gicVars
  <2>11. FindAccel => ~ UNCHANGED pciVars
    BY DEF FindAccel, pci_find_dma_accel, pciVars, ScanNext, ScanFound, ScanEnd, DecodeOff, SizeOnes,
       SizeRestore, Assign, TurnOn, PciInv, PciTypeOK
  <2> QED BY <1>3, <2>2, <2>3, <2>4, <2>5, <2>6, <2>7, <2>8, <2>9, <2>10, <2>11 DEF Next, kernel_main
<1> QED BY <1>1, <1>2, <1>3, PciFrame, Zenon

-----------------------------------------------------------------------------
(* The run queues.                                                         *)

(* All workers that may be placed on CPU c, and all tasks its queue may    *)
(* have to hold.                                                           *)
Share(c) == {taskWorker(i) : i \in {j \in 0..(NUM_WORKERS - 1) : j % smp_online = c}}
Own(c) == IF c = 0 THEN {busy_task} ELSE {idle_tcb(c), test_tcb(c)[1], test_tcb(c)[2], pp_tcb(c)}

(* tasks[] has room for a task that is not in the queue yet. *)
Roomy ==
    \A c \in CPU : \A s \in Seq(Task) : \A t :
        IsInjective(s) /\ t \notin Range(s) /\ Range(s) \cup {t} \subseteq Own(c) \cup Share(c)
            => Len(s) < MAX_TASKS

(* A task at the end of a queue. *)
LEMMA AppendFacts ==
    ASSUME NEW T, NEW s \in Seq(T), NEW t \in T, IsInjective(s), t \notin Range(s)
    PROVE  /\ Append(s, t) \in Seq(T) /\ Len(Append(s, t)) = Len(s) + 1 /\ Len(s) \in Nat
           /\ Append(s, t)[Len(s) + 1] = t
           /\ \A i \in 1..Len(s) : Append(s, t)[i] = s[i]
           /\ Range(Append(s, t)) = Range(s) \cup {t}
           /\ IsInjective(Append(s, t))
<1>1. /\ Append(s, t) \in Seq(T) /\ Len(Append(s, t)) = Len(s) + 1 /\ Len(s) \in Nat
      /\ Append(s, t)[Len(s) + 1] = t
      /\ \A i \in 1..Len(s) : Append(s, t)[i] = s[i]
      /\ DOMAIN s = 1..Len(s) /\ DOMAIN Append(s, t) = 1..(Len(s) + 1)
  OBVIOUS
<1>2. 1..(Len(s) + 1) = 1..Len(s) \cup {Len(s) + 1} /\ Len(s) + 1 \notin 1..Len(s)
  BY <1>1
<1> DEFINE r == Append(s, t)
           n == Len(s) + 1
<1>3. /\ DOMAIN r = DOMAIN s \cup {n} /\ n \notin DOMAIN s /\ r[n] = t
      /\ \A i \in DOMAIN s : r[i] = s[i]
  BY <1>1, <1>2, Zenon
<1> HIDE DEF r, n
<1>4. Range(r) = Range(s) \cup {t}
  BY <1>3 DEF Range
<1>5. IsInjective(r)
  BY <1>3, Zenon DEF IsInjective, Range
<1> QED BY <1>1, <1>4, <1>5, Zenon DEF r, n

QueueBase ==
    /\ tasks \in [CPU -> Seq(Task)] /\ current_idx \in [CPU -> 0..(MAX_TASKS - 1)]
    /\ cpu \in [Task -> CPU] /\ framed \subseteq Task /\ curr \in [CPU -> Task \cup {NoTask}]
    /\ smp_online \in 1..MAX_CPUS /\ Roomy

(* What is in a queue is among what it is dimensioned for. *)
LEMMA QueueWithin ==
    CtlInv => \A c \in CPU : Mine(c) \cup WorkersOn(c) \subseteq Own(c) \cup Share(c)
<1> SUFFICES ASSUME CtlInv, NEW c \in CPU
             PROVE  Mine(c) \cup WorkersOn(c) \subseteq Own(c) \cup Share(c)
  OBVIOUS
<1>1. Placed \in 0..NUM_WORKERS
  BY BootAssumption DEF Placed, CtlInv
<1>2. \A j \in 0..(Placed - 1) : j \in 0..(NUM_WORKERS - 1)
  BY <1>1, BootAssumption
<1>3. WorkersOn(c) \subseteq Share(c)
  BY <1>2, Zenon DEF WorkersOn, Share
<1>4. Mine(c) \subseteq Own(c)
  BY Zenon DEF Mine, Own
<1> QED BY <1>3, <1>4, Zenon

(* The tasks that belong in a queue are those of before and t, on CPU d,   *)
(* which was in no queue; and a CPU that has started goes on with its task *)
(* unless the task that registers is the one registered.                   *)
OneMore(d, t) ==
    /\ \A c \in CPU : t \notin Range(tasks[c])
    /\ \A c \in CPU : (Mine(c) \cup WorkersOn(c))'
                        = Mine(c) \cup WorkersOn(c) \cup (IF c = d THEN {t} ELSE {})
    /\ framed \subseteq framed' /\ t \in framed' \cup {idle_tcb(d)}
GoesOn(me, d, t, now) ==
    \A c \in CPU : Started(c)' =>
        \/ Started(c) /\ curr'[c] = curr[c] /\ (c = d => t # now \/ c # me)
        \/ c = d /\ c = me /\ t = now /\ curr'[c] = t
AllQueues == \A c \in CPU : OneQueue(c)
QueueTypes == /\ tasks \in [CPU -> Seq(Task)] /\ current_idx \in [CPU -> 0..(MAX_TASKS - 1)]
              /\ cpu \in [Task -> CPU]

(* A queue that nothing is added to. *)
LEMMA RegisterElsewhere ==
    ASSUME NEW c \in CPU, NEW t, OneQueue(c), NEW d \in CPU, c # d, t \notin Range(tasks[c]),
           QueueTypes, cpu' = [cpu EXCEPT ![t] = d],
           tasks'[c] = tasks[c], current_idx'[c] = current_idx[c],
           (Mine(c) \cup WorkersOn(c))' = Mine(c) \cup WorkersOn(c), framed \subseteq framed',
           Started(c)' => Started(c) /\ curr'[c] = curr[c]
    PROVE  OneQueue(c)'
<1>1. \A u \in Range(tasks[c]) : u \in Task /\ u # t
  <2>1. \A u \in Range(tasks[c]) : u \in Task
    BY DEF Range, QueueTypes
  <2> QED BY <2>1, Zenon
<1>2. \A u \in Range(tasks[c]) : cpu'[u] = c
  BY <1>1, Zenon DEF OneQueue, QueueTypes
<1> QED BY <1>2, Zenon DEF OneQueue

(* sched_register_on(d, t) of a task that is in no queue: it is not        *)
(* dropped, and all queues are as they should be afterwards.               *)
LEMMA Register ==
    ASSUME QueueBase, AllQueues, CtlInv, CtlInv', UNCHANGED smp_online,
           NEW me \in CPU, NEW d \in CPU, NEW t \in Task, NEW now,
           sched_register_on(me, d, t, now), OneMore(d, t), GoesOn(me, d, t, now)
    PROVE  AllQueues' /\ QueueTypes'
<1>d. OneQueue(d) /\ t \notin Range(tasks[d])
  BY Zenon DEF AllQueues, OneMore
<1>m. (Mine(d) \cup WorkersOn(d))' = Mine(d) \cup WorkersOn(d) \cup {t}
  BY Zenon DEF OneMore
<1>1. Len(tasks[d]) < MAX_TASKS /\ Len(tasks[d]) \in Nat
  <2>1. (Mine(d) \cup WorkersOn(d))' \subseteq (Own(d) \cup Share(d))'
    <3>1. (\A c \in CPU : Mine(c) \cup WorkersOn(c) \subseteq Own(c) \cup Share(c))'
      BY QueueWithin, PTL
    <3> QED BY <3>1, Zenon
  <2>2. (Own(d) \cup Share(d))' = Own(d) \cup Share(d)
    BY Zenon DEF Own, Share
  <2>3. Range(tasks[d]) \cup {t} \subseteq Own(d) \cup Share(d)
    BY <1>d, <1>m, <2>1, <2>2, Zenon DEF OneQueue
  <2>4. tasks[d] \in Seq(Task) /\ IsInjective(tasks[d]) /\ Roomy
    BY <1>d, Zenon DEF QueueBase, OneQueue
  <2> QED BY <1>d, <2>3, <2>4 DEF Roomy
<1>2. /\ tasks' = [tasks EXCEPT ![d] = Append(tasks[d], t)] /\ cpu' = [cpu EXCEPT ![t] = d]
      /\ current_idx' = IF d = me /\ t = now THEN [current_idx EXCEPT ![d] = Len(tasks[d])]
                        ELSE current_idx
  BY <1>1, Zenon DEF sched_register_on
<1>3. QueueTypes
  BY Zenon DEF QueueBase, QueueTypes
<1>4. /\ Append(tasks[d], t) \in Seq(Task) /\ Len(Append(tasks[d], t)) = Len(tasks[d]) + 1
      /\ Append(tasks[d], t)[Len(tasks[d]) + 1] = t
      /\ \A i \in 1..Len(tasks[d]) : Append(tasks[d], t)[i] = tasks[d][i]
      /\ Range(Append(tasks[d], t)) = Range(tasks[d]) \cup {t}
      /\ IsInjective(Append(tasks[d], t))
  <2>1. tasks[d] \in Seq(Task) /\ IsInjective(tasks[d])
    BY <1>d, <1>3, Zenon DEF OneQueue, QueueTypes
  <2> QED BY <1>d, <2>1, AppendFacts
<1>5. Len(tasks[d]) \in 0..(MAX_TASKS - 1)
  BY <1>1, BootAssumption
<1>6. QueueTypes'
  BY <1>2, <1>3, <1>4, <1>5, Zenon DEF QueueTypes
<1>7. ASSUME NEW c \in CPU, c # d PROVE OneQueue(c)'
  <2>1. tasks'[c] = tasks[c] /\ current_idx'[c] = current_idx[c]
    BY <1>2, <1>3, <1>7, Zenon DEF QueueTypes
  <2>2. /\ OneQueue(c) /\ t \notin Range(tasks[c]) /\ framed \subseteq framed'
        /\ (Mine(c) \cup WorkersOn(c))' = Mine(c) \cup WorkersOn(c)
    BY <1>7, Zenon DEF AllQueues, OneMore
  <2>3. Started(c)' => Started(c) /\ curr'[c] = curr[c]
    BY <1>7, Zenon DEF GoesOn
  <2> QED BY <1>2, <1>3, <1>7, <2>1, <2>2, <2>3, RegisterElsewhere, Zenon
<1>8. OneQueue(d)'
  <2>1. tasks'[d] = Append(tasks[d], t)
    BY <1>2, <1>3, Zenon DEF QueueTypes
  <2>2. Range(tasks'[d]) = Range(tasks[d]) \cup {t} /\ IsInjective(tasks'[d])
        /\ Len(tasks'[d]) = Len(tasks[d]) + 1 /\ Len(tasks'[d]) <= MAX_TASKS
    <3>1. Len(tasks[d]) + 1 <= MAX_TASKS
      BY <1>5, BootAssumption
    <3> QED BY <1>4, <2>1, <3>1, Zenon
  <2>3. \A u \in Range(tasks[d]) \cup {t} : cpu'[u] = d
    <3>1. \A u \in Range(tasks[d]) : u \in Task /\ cpu[u] = d
      BY <1>3, <1>d DEF Range, OneQueue, QueueTypes
    <3> QED BY <1>2, <1>3, <3>1, Zenon DEF QueueTypes
  <2>4. ASSUME Started(d)'
        PROVE  current_idx'[d] < Len(tasks'[d]) /\ tasks'[d][current_idx'[d] + 1] = curr'[d]
    <3>1. CASE Started(d) /\ curr'[d] = curr[d] /\ (t # now \/ d # me)
      <4>1. current_idx'[d] = current_idx[d] /\ current_idx[d] \in 0..(MAX_TASKS - 1)
        BY <1>2, <1>3, <3>1, Zenon DEF QueueTypes
      <4>2. current_idx[d] < Len(tasks[d]) /\ tasks[d][current_idx[d] + 1] = curr[d]
        BY <1>d, <3>1, Zenon DEF OneQueue
      <4>3. current_idx[d] + 1 \in 1..Len(tasks[d]) /\ current_idx[d] < Len(tasks[d]) + 1
        BY <1>5, <4>1, <4>2, BootAssumption
      <4> QED BY <1>4, <2>1, <2>2, <3>1, <4>1, <4>2, <4>3, Zenon
    <3>2. CASE d = me /\ t = now /\ curr'[d] = t
      <4>1. current_idx'[d] = Len(tasks[d])
        BY <1>2, <1>3, <3>2, Zenon DEF QueueTypes
      <4>2. Len(tasks[d]) < Len(tasks[d]) + 1
        BY <1>5
      <4> QED BY <1>4, <2>1, <2>2, <3>2, <4>1, <4>2, Zenon
    <3> QED BY <2>4, <3>1, <3>2, Zenon DEF GoesOn
  <2>5. (Mine(d) \cup WorkersOn(d))' = Range(tasks[d]) \cup {t}
    BY <1>d, <1>m, Zenon DEF OneQueue
  <2>6. Range(tasks[d]) \cup {t} \subseteq framed' \cup {idle_tcb(d)}
    BY <1>d, Zenon DEF OneQueue, OneMore
  <2> QED BY <2>2, <2>3, <2>4, <2>5, <2>6, Zenon DEF OneQueue
<1> QED BY <1>6, <1>7, <1>8, Zenon DEF AllQueues

(* Steps that register nothing. *)
LEMMA QueueSame ==
    ASSUME QueueBase, \A c \in CPU : OneQueue(c), UNCHANGED <<tasks, current_idx, cpu>>,
           framed \subseteq framed',
           \A c \in CPU : (Mine(c) \cup WorkersOn(c))' = Mine(c) \cup WorkersOn(c),
           \A c \in CPU : Started(c)' => Started(c) /\ curr'[c] = curr[c]
    PROVE  \A c \in CPU : OneQueue(c)'
<1> SUFFICES ASSUME NEW c \in CPU PROVE OneQueue(c)'
  OBVIOUS
<1>1. OneQueue(c) /\ (Mine(c) \cup WorkersOn(c))' = Mine(c) \cup WorkersOn(c)
      /\ (Started(c)' => Started(c) /\ curr'[c] = curr[c])
  OBVIOUS
<1> QED BY <1>1, Zenon DEF OneQueue

(* The workers in a queue change only when one is placed. *)
LEMMA WorkersSame ==
    ASSUME Placed' = Placed, UNCHANGED smp_online \/ Placed = 0
    PROVE  \A c \in CPU : WorkersOn(c)' = WorkersOn(c)
<1>1. CASE UNCHANGED smp_online
  BY <1>1, Zenon DEF WorkersOn
<1>2. CASE Placed = 0
  <2>1. 0..(Placed - 1) = {} /\ 0..(Placed' - 1) = {}
    BY <1>2
  <2> QED BY <2>1, Zenon DEF WorkersOn
<1> QED BY <1>1, <1>2, Zenon

(* A task of a CPU that has started is its own or a worker. *)
LEMMA Names ==
    /\ busy_task \in Task /\ \A i \in 0..(NUM_WORKERS - 1) : taskWorker(i) \in Task
    /\ \A c \in Secondary : {idle_tcb(c), test_tcb(c)[1], test_tcb(c)[2], pp_tcb(c)} \subseteq Task
    /\ \A i : taskWorker(i) # busy_task
    /\ \A c, i : taskWorker(i) \notin {idle_tcb(c), test_tcb(c)[1], test_tcb(c)[2], pp_tcb(c)}
<1>1. \A c \in Secondary : {idle_tcb(c), test_tcb(c)[1], test_tcb(c)[2], pp_tcb(c)} \subseteq Task
  BY Zenon DEF Task
<1>2. \A i \in 0..(NUM_WORKERS - 1) : taskWorker(i) \in Task
  BY Zenon DEF Task, Workers
<1> QED BY <1>1, <1>2, Zenon DEF Task, taskWorker, busy_task, idle_tcb, test_tcb, pp_tcb

(* What a CPU that has started runs is in its queue. *)
LEMMA CurrQueued ==
    ASSUME QueueBase, NEW c \in CPU, OneQueue(c), Started(c)
    PROVE  curr[c] \in Range(tasks[c])
<1>1. current_idx[c] < Len(tasks[c]) /\ tasks[c][current_idx[c] + 1] = curr[c]
  BY Zenon DEF OneQueue
<1>2. current_idx[c] \in Nat /\ Len(tasks[c]) \in Nat /\ DOMAIN tasks[c] = 1..Len(tasks[c])
  BY BootAssumption DEF QueueBase
<1>3. current_idx[c] + 1 \in DOMAIN tasks[c]
  BY <1>1, <1>2
<1> QED BY <1>1, <1>3, Zenon DEF Range

(* Placing a worker: next to the tasks its CPU has registered by itself,   *)
(* before, between or after them.                                          *)
LEMMA PlaceStep ==
    ASSUME QueueBase, pc \in [CPU -> Label], CtlInv, CtlInv', QueueInv, PlaceWorker
    PROVE  AllQueues' /\ QueueTypes'
<1> DEFINE t == taskWorker(k)
           d == k % smp_online
<1>1. /\ pc[0] = "place" /\ k \in 0..(NUM_WORKERS - 1) /\ k' = k + 1 /\ pc' = pc
      /\ UNCHANGED <<smp_online, framed, curr>> /\ sched_register_on(0, d, t, curr[0])
      /\ curr[0] = taskWorker(0) /\ Workers \subseteq framed
  BY BootAssumption DEF PlaceWorker, WorkerCpu, CtlInv, QueueInv, smpVars
<1>2. d \in CPU /\ (k = 0 => d = 0) /\ smp_online \in Nat \ {0}
  BY <1>1, Cpus DEF QueueBase, CPU
<1>3. t \in Task /\ t \in framed' /\ framed \subseteq framed'
  BY <1>1, Names, Zenon DEF Workers
<1>4. Placed = k /\ Placed' = k + 1
  BY <1>1, Zenon DEF Placed
<1>5. ASSUME NEW c \in CPU PROVE t \notin Range(tasks[c])
  <2>1. Range(tasks[c]) = Mine(c) \cup WorkersOn(c)
    BY Zenon DEF QueueInv, OneQueue
  <2>2. t \notin WorkersOn(c)
    BY <1>1, <1>4 DEF WorkersOn, taskWorker
  <2>3. t \notin Mine(c)
    BY Names, Zenon DEF Mine
  <2> QED BY <2>1, <2>2, <2>3, Zenon
<1>6. ASSUME NEW c \in CPU
      PROVE  (Mine(c) \cup WorkersOn(c))' = Mine(c) \cup WorkersOn(c) \cup (IF c = d THEN {t} ELSE {})
  <2>1. Mine(c)' = Mine(c)
    BY <1>1, Zenon DEF Mine
  <2>2. 0..((k + 1) - 1) = 0..(k - 1) \cup {k}
    BY <1>1
  <2>3. WorkersOn(c)' = WorkersOn(c) \cup (IF c = d THEN {t} ELSE {})
    BY <1>1, <1>4, <2>2, Zenon DEF WorkersOn
  <2> QED BY <2>1, <2>3, Zenon
<1>7. ASSUME NEW c \in CPU, Started(c)'
      PROVE  \/ Started(c) /\ curr'[c] = curr[c] /\ (c = d => t # curr[0] \/ c # 0)
             \/ c = d /\ c = 0 /\ t = curr[0] /\ curr'[c] = t
  <2>1. CASE c # 0
    BY <1>1, <1>7, <2>1, Zenon DEF Started
  <2>2. CASE c = 0 /\ k = 0
    BY <1>1, <1>2, <2>2, Zenon
  <2>3. CASE c = 0 /\ k # 0
    <3>1. Started(c) /\ t # curr[0]
      BY <1>1, <1>4, <2>3 DEF Started, taskWorker
    <3> QED BY <1>1, <3>1, Zenon
  <2> QED BY <2>1, <2>2, <2>3, Zenon
<1> HIDE DEF t, d
<1>8. OneMore(d, t)
  BY <1>3, <1>5, <1>6, Zenon DEF OneMore
<1>9. GoesOn(0, d, t, curr[0])
  BY <1>7, Zenon DEF GoesOn
<1>10. AllQueues /\ 0 \in CPU /\ UNCHANGED smp_online /\ sched_register_on(0, d, t, curr[0])
  BY <1>1, Cpus, Zenon DEF QueueInv, AllQueues
<1> QED BY <1>2, <1>3, <1>8, <1>9, <1>10, Register, Zenon

(* busy_task, the last of CPU 0. *)
LEMMA StartStep ==
    ASSUME QueueBase, pc \in [CPU -> Label], CtlInv, CtlInv', QueueInv, StartTasks
    PROVE  AllQueues' /\ QueueTypes'
<1>1. /\ pc[0] = "place" /\ k = NUM_WORKERS /\ k' = k /\ pc'[0] = "run"
      /\ \A c \in Secondary : pc'[c] = pc[c]
      /\ UNCHANGED <<smp_online, framed, curr>> /\ sched_register_on(0, 0, busy_task, curr[0])
      /\ curr[0] = taskWorker(0) /\ busy_task \in framed
  BY Cpus, Zenon DEF StartTasks, Goto, QueueInv, smpVars
<1>2. Placed' = Placed /\ Placed = NUM_WORKERS
  BY <1>1, Zenon DEF Placed
<1>3. \A c \in CPU : WorkersOn(c)' = WorkersOn(c)
  BY <1>1, <1>2, WorkersSame, Zenon
<1>4. ASSUME NEW c \in CPU
      PROVE  busy_task \notin Range(tasks[c])
  <2>1. Range(tasks[c]) = Mine(c) \cup WorkersOn(c)
    BY DEF QueueInv, OneQueue
  <2>2. busy_task \notin WorkersOn(c)
    BY Zenon DEF WorkersOn, taskWorker, busy_task
  <2>3. busy_task \notin Mine(c)
    BY <1>1, Zenon DEF Mine, busy_task, idle_tcb, test_tcb, pp_tcb
  <2> QED BY <2>1, <2>2, <2>3, Zenon
<1>5. ASSUME NEW c \in CPU
      PROVE  (Mine(c) \cup WorkersOn(c))'
               = Mine(c) \cup WorkersOn(c) \cup (IF c = 0 THEN {busy_task} ELSE {})
  <2>1. Mine(c)' = Mine(c) \cup (IF c = 0 THEN {busy_task} ELSE {})
    BY <1>1, Cpus, Zenon DEF Mine
  <2> QED BY <1>3, <2>1, Zenon
<1>6. ASSUME NEW c \in CPU, Started(c)'
      PROVE  Started(c) /\ curr'[c] = curr[c] /\ (c = 0 => busy_task # curr[0] \/ c # 0)
  BY <1>1, <1>2, <1>6, Names, Cpus, Zenon DEF Started
<1>7. OneMore(0, busy_task)
  BY <1>1, <1>4, <1>5, Zenon DEF OneMore
<1>8. GoesOn(0, 0, busy_task, curr[0])
  BY <1>6, Zenon DEF GoesOn
<1>9. AllQueues /\ 0 \in CPU /\ busy_task \in Task
  BY Cpus, Names, Zenon DEF QueueInv, AllQueues
<1> QED BY <1>1, <1>7, <1>8, <1>9, Register, Zenon

(* CPU c registers a task of its own, which it had not registered yet. *)
OwnTask(c, t, now) ==
    /\ sched_register_on(c, c, t, now) /\ UNCHANGED <<k, smp_online>>
    /\ t \notin Mine(c) /\ Mine(c)' = Mine(c) \cup {t}
    /\ framed \subseteq framed' /\ t \in framed' \cup {idle_tcb(c)}
    /\ \A d \in CPU : d # c => curr'[d] = curr[d]
    /\ \/ Started(c) /\ curr'[c] = curr[c] /\ now = curr[c]
       \/ curr'[c] = t /\ now = t

LEMMA OwnStep ==
    ASSUME QueueBase, pc \in [CPU -> Label], CtlInv, CtlInv', QueueInv, NEW c \in Secondary,
           NEW t \in {idle_tcb(c), test_tcb(c)[1], test_tcb(c)[2], pp_tcb(c)}, NEW now,
           NEW l, pc' = [pc EXCEPT ![c] = l], OwnTask(c, t, now)
    PROVE  AllQueues' /\ QueueTypes'
<1>1. /\ c \in CPU /\ c # 0 /\ t \in Task /\ pc'[0] = pc[0] /\ \A d \in CPU : d # c => pc'[d] = pc[d]
  BY Cpus, Names, Zenon
<1>2. Placed' = Placed
  BY <1>1, Zenon DEF Placed, OwnTask
<1>3. \A d \in CPU : WorkersOn(d)' = WorkersOn(d)
  <2>1. UNCHANGED smp_online
    BY Zenon DEF OwnTask
  <2> QED BY <1>2, <2>1, WorkersSame, Zenon
<1>4. ASSUME NEW d \in CPU
      PROVE  t \notin Range(tasks[d])
  <2>1. Range(tasks[d]) = Mine(d) \cup WorkersOn(d)
    BY Zenon DEF QueueInv, OneQueue
  <2>2. t \notin WorkersOn(d)
    <3>1. ASSUME NEW i PROVE t # taskWorker(i)
      BY Names, Zenon
    <3> QED BY <3>1, Zenon DEF WorkersOn
  <2>3. t \notin Mine(d)
    <3>1. CASE d = c
      BY <3>1, Zenon DEF OwnTask
    <3>2. CASE d # c
      BY <3>2 DEF Mine, busy_task, idle_tcb, test_tcb, pp_tcb
    <3> QED BY <3>1, <3>2, Zenon
  <2> QED BY <2>1, <2>2, <2>3, Zenon
<1>5. ASSUME NEW d \in CPU
      PROVE  (Mine(d) \cup WorkersOn(d))'
               = Mine(d) \cup WorkersOn(d) \cup (IF d = c THEN {t} ELSE {})
  <2>1. CASE d = c
    <3>1. Mine(d)' = Mine(d) \cup {t}
      BY <2>1, Zenon DEF OwnTask
    <3> QED BY <1>3, <2>1, <3>1, Zenon
  <2>2. CASE d # c
    <3>1. Mine(d)' = Mine(d)
      BY <1>1, <2>2, Zenon DEF Mine
    <3> QED BY <1>3, <2>2, <3>1, Zenon
  <2> QED BY <2>1, <2>2, Zenon
<1>6. ASSUME NEW d \in CPU, Started(d)'
      PROVE  \/ Started(d) /\ curr'[d] = curr[d] /\ (d = c => t # now \/ d # c)
             \/ d = c /\ t = now /\ curr'[d] = t
  <2>1. CASE d # c
    <3>1. curr'[d] = curr[d] /\ pc'[d] = pc[d] /\ pc'[0] = pc[0]
      BY <1>1, <2>1, Zenon DEF OwnTask
    <3>2. Started(d)
      BY <1>2, <1>6, <3>1, Zenon DEF Started
    <3> QED BY <2>1, <3>1, <3>2, Zenon
  <2>2. CASE d = c /\ curr'[c] = t /\ now = t
    BY <2>2, Zenon
  <2>3. CASE d = c /\ Started(c) /\ curr'[c] = curr[c] /\ now = curr[c]
    <3>1. curr[c] \in Range(tasks[c])
      BY <1>1, <2>3, CurrQueued, Zenon DEF QueueInv
    <3> QED BY <1>1, <1>4, <2>3, <3>1, Zenon
  <2> QED BY <2>1, <2>2, <2>3, Zenon DEF OwnTask
<1>7. OneMore(c, t)
  BY <1>4, <1>5, Zenon DEF OneMore, OwnTask
<1>8. GoesOn(c, c, t, now)
  BY <1>6, Zenon DEF GoesOn
<1>9. AllQueues /\ UNCHANGED smp_online /\ sched_register_on(c, c, t, now)
  BY Zenon DEF QueueInv, AllQueues, OwnTask
<1> QED BY <1>1, <1>7, <1>8, <1>9, Register, Zenon

(* The tasks of secondary_main: idle, two test tasks, ping or pong. *)
LEMMA SecondaryStep ==
    ASSUME QueueBase, pc \in [CPU -> Label], CtlInv, CtlInv', QueueInv, NEW c \in Secondary,
           IdleTask(c) \/ (\E n \in 1..2 : TestTask(c, n)) \/ (PingPongTask(c) /\ c \in {1, 2})
    PROVE  AllQueues' /\ QueueTypes'
<1> USE DEF Goto, smpVars
<1>0. c \in CPU /\ c # 0 /\ curr \in [CPU -> Task \cup {NoTask}]
  BY Cpus, Zenon DEF QueueBase
<1>1. CASE IdleTask(c)
  <2>1. /\ pc[c] = "idle" /\ pc' = [pc EXCEPT ![c] = "test_a"] /\ UNCHANGED <<k, smp_online, framed>>
        /\ sched_register_on(c, c, idle_tcb(c), idle_tcb(c))
        /\ curr' = [curr EXCEPT ![c] = idle_tcb(c)]
    BY <1>1, Zenon DEF IdleTask
  <2>2. idle_tcb(c) \notin Mine(c) /\ Mine(c)' = Mine(c) \cup {idle_tcb(c)}
    BY <1>0, <2>1, Zenon DEF Mine, idle_tcb, test_tcb, pp_tcb
  <2>3. curr'[c] = idle_tcb(c) /\ \A d \in CPU : d # c => curr'[d] = curr[d]
    BY <1>0, <2>1, Zenon
  <2>4. OwnTask(c, idle_tcb(c), idle_tcb(c))
    BY <2>1, <2>2, <2>3, Zenon DEF OwnTask
  <2> QED BY <2>1, <2>4, OwnStep, Zenon
<1>2. ASSUME TestTask(c, 1) \/ TestTask(c, 2) \/ (PingPongTask(c) /\ c \in {1, 2})
      PROVE  AllQueues' /\ QueueTypes'
  <2>1. PICK t \in {test_tcb(c)[1], test_tcb(c)[2], pp_tcb(c)}, l \in {"test_b", "pp", "irq_on"} :
          /\ pc' = [pc EXCEPT ![c] = l] /\ UNCHANGED <<k, smp_online, curr>>
          /\ framed' = framed \cup {t} /\ sched_register_on(c, c, t, curr[c])
          /\ \/ pc[c] = "test_a" /\ t = test_tcb(c)[1] /\ l = "test_b"
             \/ pc[c] = "test_b" /\ t = test_tcb(c)[2] /\ l = "pp"
             \/ pc[c] = "pp" /\ t = pp_tcb(c) /\ l = "irq_on" /\ c \in {1, 2}
    BY <1>2 DEF TestTask, PingPongTask
  <2>2. t \notin Mine(c) /\ Mine(c)' = Mine(c) \cup {t}
    BY <1>0, <2>1 DEF Mine, idle_tcb, test_tcb, pp_tcb
  <2>3. Started(c)
    BY <1>0, <2>1, Zenon DEF Started
  <2>4. /\ framed \subseteq framed' /\ t \in framed' \cup {idle_tcb(c)} /\ curr'[c] = curr[c]
        /\ \A d \in CPU : d # c => curr'[d] = curr[d]
        /\ t \in {idle_tcb(c), test_tcb(c)[1], test_tcb(c)[2], pp_tcb(c)}
    BY <2>1, Zenon
  <2>5. sched_register_on(c, c, t, curr[c]) /\ pc' = [pc EXCEPT ![c] = l] /\ UNCHANGED <<k, smp_online>>
    BY <2>1, Zenon
  <2>6. OwnTask(c, t, curr[c])
    BY <2>2, <2>3, <2>4, <2>5, Zenon DEF OwnTask
  <2> QED BY <2>4, <2>5, <2>6, OwnStep, Zenon
<1>3. \A n \in 1..2 : n = 1 \/ n = 2
  OBVIOUS
<1> QED BY <1>1, <1>2, <1>3, Zenon

(* A timer interrupt on a CPU that runs tasks. *)
LEMMA TickStep ==
    ASSUME QueueBase, QueueInv, NEW c \in CPU, Tick(c)
    PROVE  /\ \A d \in CPU : OneQueue(d)'
           /\ current_idx' \in [CPU -> 0..(MAX_TASKS - 1)] /\ curr' \in [CPU -> Task \cup {NoTask}]
<1>1. PICK i \in 1..Len(tasks[c]) :
        /\ curr' = [curr EXCEPT ![c] = tasks[c][i]] /\ current_idx' = [current_idx EXCEPT ![c] = i - 1]
  BY Zenon DEF Tick
<1>2. /\ tasks \in [CPU -> Seq(Task)] /\ current_idx \in [CPU -> 0..(MAX_TASKS - 1)]
      /\ curr \in [CPU -> Task \cup {NoTask}]
  BY Zenon DEF QueueBase
<1>3. /\ UNCHANGED <<pc, k, tasks, cpu, framed, smp_online>>
  BY Zenon DEF Tick, smpVars
<1>4. i - 1 \in 0..(MAX_TASKS - 1) /\ tasks[c][i] \in Task /\ i - 1 < Len(tasks[c]) /\ (i - 1) + 1 = i
  <2>1. Len(tasks[c]) \in Nat /\ Len(tasks[c]) <= MAX_TASKS
    BY <1>2 DEF QueueInv, OneQueue
  <2> QED BY <1>2, <2>1, BootAssumption
<1>5. current_idx' \in [CPU -> 0..(MAX_TASKS - 1)] /\ curr' \in [CPU -> Task \cup {NoTask}]
  BY <1>1, <1>2, <1>4, Zenon
<1>6. ASSUME NEW d \in CPU PROVE OneQueue(d)'
  <2>1. OneQueue(d) /\ Mine(d)' = Mine(d) /\ WorkersOn(d)' = WorkersOn(d) /\ Started(d)' = Started(d)
    BY <1>3, Zenon DEF QueueInv, Mine, WorkersOn, Started, Placed
  <2>2. CASE d = c
    <3>1. curr'[c] = tasks[c][i] /\ current_idx'[c] = i - 1
      BY <1>1, <1>2, Zenon
    <3> QED BY <1>3, <1>4, <2>1, <2>2, <3>1 DEF OneQueue
  <2>3. CASE d # c
    <3>1. curr'[d] = curr[d] /\ current_idx'[d] = current_idx[d]
      BY <1>1, <1>2, <2>3, Zenon
    <3> QED BY <1>3, <2>1, <3>1, Zenon DEF OneQueue
  <2> QED BY <2>2, <2>3, Zenon
<1> QED BY <1>5, <1>6, Zenon

(* The queues through all of bring-up. *)
LEMMA QueueStep ==
    CtlTypes /\ QueueBase /\ CtlInv /\ CtlInv' /\ QueueInv /\ Next =>
        /\ QueueInv'
        /\ tasks' \in [CPU -> Seq(Task)] /\ current_idx' \in [CPU -> 0..(MAX_TASKS - 1)]
        /\ cpu' \in [Task -> CPU] /\ framed' \subseteq Task /\ curr' \in [CPU -> Task \cup {NoTask}]
<1> DEFINE Good == /\ \A d \in CPU : OneQueue(d)'
                   /\ tasks' \in [CPU -> Seq(Task)] /\ current_idx' \in [CPU -> 0..(MAX_TASKS - 1)]
                   /\ cpu' \in [Task -> CPU]
                   /\ framed' \subseteq Task /\ curr' \in [CPU -> Task \cup {NoTask}]
           Rest == /\ pc[0] \notin {"pci", "stop", "init"} => Workers \cup {busy_task} \subseteq framed
                   /\ pc[0] \notin {"pci", "stop", "init", "run"} => curr[0] = taskWorker(0)
<1> SUFFICES ASSUME CtlTypes, QueueBase, CtlInv, CtlInv', QueueInv, Next PROVE Good /\ Rest'
  BY Zenon DEF QueueInv
<1> USE Cpus DEF Goto
<1>t. /\ pc \in [CPU -> Label] /\ k \in Nat /\ QueueBase
  BY Zenon DEF CtlTypes
<1>q. /\ tasks \in [CPU -> Seq(Task)] /\ current_idx \in [CPU -> 0..(MAX_TASKS - 1)]
      /\ cpu \in [Task -> CPU] /\ framed \subseteq Task /\ curr \in [CPU -> Task \cup {NoTask}]
  BY <1>t, Zenon DEF QueueBase
<1>r. Rest /\ \A c \in CPU : OneQueue(c)
  BY Zenon DEF QueueInv
<1>s. \A c \in Secondary : {idle_tcb(c), test_tcb(c)[1], test_tcb(c)[2], pp_tcb(c)} \subseteq Task
  BY Names, Zenon
<1>1. CASE PlaceWorker
  <2>1. UNCHANGED <<pc, framed, curr>>
    BY <1>1, Zenon DEF PlaceWorker
  <2> QED BY <1>1, <1>t, <1>q, <1>r, <2>1, PlaceStep, Zenon DEF AllQueues, QueueTypes
<1>2. CASE StartTasks
  <2>1. UNCHANGED <<framed, curr>> /\ pc'[0] = "run" /\ pc[0] = "place"
    BY <1>2, <1>t, Zenon DEF StartTasks
  <2> QED BY <1>2, <1>t, <1>q, <1>r, <2>1, StartStep, Zenon DEF AllQueues, QueueTypes
<1>3. ASSUME NEW c \in Secondary,
             IdleTask(c) \/ (\E n \in 1..2 : TestTask(c, n)) \/ (PingPongTask(c) /\ c \in {1, 2})
      PROVE  Good /\ Rest'
  <2>1. /\ framed \subseteq framed' /\ framed' \subseteq Task /\ curr' \in [CPU -> Task \cup {NoTask}]
        /\ pc'[0] = pc[0] /\ curr'[0] = curr[0]
    <3>1. CASE IdleTask(c)
      BY <3>1, <1>t, <1>q, <1>s, Zenon DEF IdleTask
    <3>2. CASE \/ (\E n \in 1..2 : TestTask(c, n)) \/ (PingPongTask(c) /\ c \in {1, 2})
      <4>1. PICK t \in {test_tcb(c)[1], test_tcb(c)[2], pp_tcb(c)}, l \in {"test_b", "pp", "irq_on"} :
              framed' = framed \cup {t} /\ UNCHANGED curr /\ pc' = [pc EXCEPT ![c] = l]
        <5>1. \A n \in 1..2 : n = 1 \/ n = 2
          OBVIOUS
        <5> QED BY <3>2, <5>1, Zenon DEF TestTask, PingPongTask
      <4> QED BY <4>1, <1>t, <1>q, <1>s
    <3> QED BY <1>3, <3>1, <3>2, Zenon
  <2> QED BY <1>3, <1>t, <1>q, <1>r, <2>1, SecondaryStep, Zenon DEF AllQueues, QueueTypes
<1>4. ASSUME NEW c \in CPU, Tick(c) PROVE Good /\ Rest'
  <2>1. UNCHANGED <<pc, tasks, cpu, framed>> /\ (pc[0] # "run" => curr'[0] = curr[0])
    BY <1>4, <1>q, Zenon DEF Tick
  <2> QED BY <1>4, <1>t, <1>q, <1>r, <2>1, TickStep, Zenon
<1>5. ASSUME UNCHANGED <<tasks, current_idx, cpu>>, framed \subseteq framed', framed' \subseteq Task,
             curr' \in [CPU -> Task \cup {NoTask}],
             \A c \in CPU : Mine(c)' = Mine(c), \A c \in CPU : WorkersOn(c)' = WorkersOn(c),
             \A c \in CPU : Started(c)' => Started(c) /\ curr'[c] = curr[c],
             Rest'
      PROVE  Good /\ Rest'
  BY <1>5, <1>t, <1>q, <1>r, QueueSame, Zenon
<1>6. CASE InitTasks
  <2>1. /\ pc[0] = "init" /\ pc'[0] \in {"gic", "boot"} /\ \A c \in Secondary : pc'[c] = pc[c]
        /\ framed' = Workers \cup {busy_task} /\ curr' = [curr EXCEPT ![0] = taskWorker(0)]
        /\ UNCHANGED <<tasks, current_idx, cpu, smp_online, k>>
    BY <1>6, <1>t, Zenon DEF InitTasks, smpVars
  <2>2. framed' \subseteq Task /\ taskWorker(0) \in Task
    BY <2>1, Names, BootAssumption DEF Workers, Task
  <2>3. \A c \in CPU : Mine(c)' = Mine(c) /\ Range(tasks[c]) = {}
    <3>1. \A c \in Secondary : pc[c] = "off"
      BY <2>1, Zenon DEF CtlInv, Early
    <3>2. \A c \in CPU : Mine(c) = {} /\ Mine(c)' = {}
      BY <2>1, <3>1, Zenon DEF Mine
    <3>3. \A c \in CPU : WorkersOn(c) = {}
      <4>1. Placed = 0 /\ 0..(0 - 1) = {}
        BY <2>1 DEF Placed
      <4> QED BY <4>1, Zenon DEF WorkersOn
    <3> QED BY <1>r, <3>2, <3>3, Zenon DEF OneQueue
  <2>4. \A c \in CPU : WorkersOn(c)' = WorkersOn(c)
    BY <2>1, WorkersSame, Zenon DEF Placed
  <2>5. \A c \in CPU : Started(c)' => Started(c) /\ curr'[c] = curr[c]
    BY <2>1, <1>q DEF Started, Placed
  <2>6. \A c \in CPU : OneQueue(c)'
    BY <1>r, <2>1, <2>3, <2>4, <2>5, Zenon DEF OneQueue
  <2> QED BY <2>1, <2>2, <2>6, <1>q, Zenon
<1>7. CASE \/ FindAccel \/ AccelMissing \/ Stopped \/ SetupAccel \/ EnableDma \/ smp_boot_secondaries
           \/ psci_cpu_on \/ PsciRefuses \/ CameUp \/ Timeout \/ SetOnline \/ selftest_body(0)
           \/ SelftestWait \/ SelftestDone \/ RouteDma \/ RouteDefault
  <2>1. /\ UNCHANGED queueVars
        /\ UNCHANGED smp_online \/ (pc[0] = "psci" /\ pc'[0] # "run")
        /\ pc[0] # "place" /\ (pc'[0] = "place" => k' = 0) /\ (pc[0] = "run" <=> pc'[0] = "run")
        /\ pc[0] \in {"pci", "stop", "init"} => pc'[0] \in {"pci", "stop", "init"}
        /\ \A c \in Secondary : pc'[c] = pc[c] \/ (pc[c] = "off" /\ pc'[c] = "start")
    <3>1. CASE psci_cpu_on
      BY <3>1, <1>t, Zenon DEF psci_cpu_on, smpVars, CtlInv, Secondary
    <3>2. CASE RouteDma \/ RouteDefault
      BY <3>2, <1>t DEF RouteDma, RouteDefault, gic_enable_irq_target, smpVars, CtlInv
    <3>3. CASE \/ FindAccel \/ AccelMissing \/ Stopped \/ SetupAccel
      BY <3>3, <1>t, Zenon DEF FindAccel, AccelMissing, Stopped, SetupAccel, vars, queueVars, smpVars
    <3>4. CASE \/ EnableDma \/ smp_boot_secondaries \/ PsciRefuses \/ CameUp \/ Timeout \/ SetOnline
      BY <3>4, <1>t, Zenon DEF EnableDma, smp_boot_secondaries, PsciRefuses, CameUp, Timeout, SetOnline,
         gic_enable_irq_target, smpVars
    <3>5. CASE selftest_body(0) \/ SelftestWait \/ SelftestDone
      BY <3>5, <1>t, Zenon DEF selftest_body, SelftestWait, SelftestDone, smpVars
    <3> QED BY <1>7, <3>1, <3>2, <3>3, <3>4, <3>5
  <2>2. Placed' = Placed /\ (UNCHANGED smp_online \/ Placed = 0)
    BY <2>1, Zenon DEF Placed
  <2>3. \A c \in CPU : Mine(c)' = Mine(c)
    BY <2>1 DEF Mine
  <2>4. \A c \in CPU : Started(c)' => Started(c)
    BY <2>1, <2>2, Zenon DEF Started
  <2>5. \A c \in CPU : WorkersOn(c)' = WorkersOn(c)
    BY <2>2, WorkersSame, Zenon
  <2>6. Rest'
    BY <1>r, <2>1, Zenon DEF queueVars
  <2>7. UNCHANGED <<tasks, current_idx, cpu, framed, curr>>
    BY <2>1, Zenon DEF queueVars
  <2> QED BY <1>5, <1>q, <2>3, <2>4, <2>5, <2>6, <2>7, Zenon
<1>8. ASSUME NEW c \in Secondary,
             \/ secondary_start(c) \/ selftest_body(c) \/ EnableIrqs(c)
             \/ (PingPongTask(c) /\ c \notin {1, 2})
      PROVE  Good /\ Rest'
  <2>1. /\ UNCHANGED <<tasks, current_idx, cpu, framed, curr, smp_online, k>> /\ pc'[0] = pc[0]
        /\ \A d \in Secondary : \/ pc'[d] = pc[d]
                                \/ /\ pc[d] \in {"start", "st", "idle"} /\ pc'[d] \in {"st", "idle"}
                                \/ pc[d] = "irq_on" /\ pc'[d] = "run"
                                \/ pc[d] = "pp" /\ pc'[d] = "irq_on" /\ d \notin {1, 2}
    BY <1>8, <1>t, Zenon DEF secondary_start, selftest_body, EnableIrqs, PingPongTask, queueVars, smpVars
  <2>2. Placed' = Placed
    BY <2>1, Zenon DEF Placed
  <2>3. \A d \in CPU : Mine(d)' = Mine(d)
    BY <2>1 DEF Mine
  <2>4. \A d \in CPU : Started(d)' => Started(d)
    BY <2>1, <2>2, Zenon DEF Started
  <2>5. \A d \in CPU : WorkersOn(d)' = WorkersOn(d)
    BY <2>1, <2>2, WorkersSame, Zenon
  <2>6. Rest'
    BY <1>r, <2>1, Zenon
  <2> QED BY <1>5, <1>q, <2>1, <2>3, <2>4, <2>5, <2>6
<1> HIDE DEF Good, Rest
<1> QED
  BY <1>1, <1>2, <1>3, <1>4, <1>6, <1>7, <1>8 DEF Next, kernel_main, secondary_main

-----------------------------------------------------------------------------
(* The capacity of the run queues.                                         *)

(* The CPUs that are alive can be counted. *)
LEMMA AliveFinite ==
    /\ IsFiniteSet(CPU) /\ Cardinality(CPU) = MAX_CPUS
    /\ IsFiniteSet(Alive) /\ Cardinality(Alive) \in 0..MAX_CPUS
<1>1. IsFiniteSet(CPU) /\ Cardinality(CPU) = MAX_CPUS
  BY FS_Interval, Cpus DEF CPU
<1>2. Alive \in SUBSET CPU
  BY Zenon DEF Alive
<1>3. IsFiniteSet(Alive) /\ Cardinality(Alive) <= Cardinality(CPU)
  BY <1>1, <1>2, FS_Subset, Zenon
<1>4. Cardinality(Alive) \in Nat
  BY <1>3, FS_CardinalityType, Zenon
<1> QED BY <1>1, <1>3, <1>4, Cpus

(* Two neighbours are not placed on the same CPU if there are two CPUs. *)
LEMMA NeighboursApart ==
    ASSUME NEW n \in Nat, n >= 2, NEW i \in Nat
    PROVE  i % n # (i + 1) % n
<1> SUFFICES ASSUME i % n = (i + 1) % n PROVE FALSE
  OBVIOUS
<1> DEFINE a == i \div n
           b == (i + 1) \div n
<1>1. a \in Int /\ b \in Int /\ i = n * a + (i % n) /\ i + 1 = n * b + ((i + 1) % n)
      /\ i % n \in Int
  OBVIOUS
<1> HIDE DEF a, b
<1>2. n * (b - a) = 1
  BY <1>1
<1>3. b - a >= 1 => n * (b - a) >= n
  BY <1>1
<1>4. b - a <= 0 => n * (b - a) <= 0
  BY <1>1
<1> QED BY <1>1, <1>2, <1>3, <1>4

(* CPU 0 may get all workers, a secondary at most every other one. *)
LEMMA ShareBound ==
    ASSUME smp_online \in 1..MAX_CPUS, NEW c \in CPU
    PROVE  /\ IsFiniteSet(Share(c)) /\ Cardinality(Share(c)) \in Nat
           /\ Cardinality(Share(c)) <= IF c = 0 THEN NUM_WORKERS ELSE NUM_WORKERS \div 2
<1>w. NUM_WORKERS \in Nat \ {0} /\ smp_online \in Nat \ {0} /\ c \in Nat
  BY BootAssumption DEF CPU
<1>1. CASE c = 0
  <2> DEFINE f == [t \in Share(c) |-> t[2]]
  <2>1. f \in Injection(Share(c), 0..(NUM_WORKERS - 1))
    BY DEF Share, taskWorker, Injection, IsInjective
  <2>2. IsFiniteSet(0..(NUM_WORKERS - 1)) /\ Cardinality(0..(NUM_WORKERS - 1)) = NUM_WORKERS
    BY <1>w, FS_Interval
  <2> HIDE DEF f
  <2>3. IsFiniteSet(Share(c)) /\ Cardinality(Share(c)) <= NUM_WORKERS
    BY <2>1, <2>2, FS_Injection
  <2> QED BY <1>1, <2>3, FS_CardinalityType, Zenon
<1>2. CASE c # 0
  <2> DEFINE f == [t \in Share(c) |-> (t[2] - 1) \div 2]
             m == NUM_WORKERS \div 2
  <2>1. \A t \in Share(c) : t = taskWorker(t[2]) /\ t[2] \in 1..(NUM_WORKERS - 1) /\ t[2] % smp_online = c
    <3>1. 0 % smp_online = 0
      BY <1>w
    <3> QED BY <1>2, <1>w, <3>1 DEF Share, taskWorker
  <2>2. ASSUME NEW t \in Share(c) PROVE (t[2] - 1) \div 2 \in 0..(m - 1)
    BY <2>1, <1>w
  <2>3. ASSUME NEW t \in Share(c), NEW u \in Share(c), (t[2] - 1) \div 2 = (u[2] - 1) \div 2
        PROVE  t = u
    <3>1. t[2] \in Nat /\ u[2] \in Nat /\ t[2] % smp_online = u[2] % smp_online
      BY <2>1, <1>w
    <3>2. t[2] = u[2] \/ t[2] = u[2] + 1 \/ u[2] = t[2] + 1
      <4>1. ASSUME NEW x \in Nat, NEW y \in Nat, (x - 1) \div 2 = (y - 1) \div 2
            PROVE  x = y \/ x = y + 1 \/ y = x + 1
        BY <4>1
      <4> QED BY <2>3, <3>1, <4>1, Zenon
    <3>3. smp_online >= 2
      <4>1. smp_online = 1 => t[2] % smp_online = 0
        BY <3>1
      <4> QED BY <1>2, <1>w, <2>1, <4>1
    <3>4. t[2] = u[2]
      BY <3>1, <3>2, <3>3, <1>w, NeighboursApart, Zenon
    <3> QED BY <2>1, <3>4, Zenon DEF taskWorker
  <2>4. f \in Injection(Share(c), 0..(m - 1))
    BY <2>2, <2>3, Zenon DEF Injection, IsInjective
  <2>5. IsFiniteSet(0..(m - 1)) /\ Cardinality(0..(m - 1)) = m
    <3>1. m \in Nat
      BY <1>w
    <3> HIDE DEF m
    <3> QED BY <3>1, FS_Interval
  <2> HIDE DEF f
  <2>6. IsFiniteSet(Share(c)) /\ Cardinality(Share(c)) <= m
    BY <2>4, <2>5, FS_Injection
  <2> QED BY <1>2, <2>6, FS_CardinalityType, Zenon
<1> QED BY <1>1, <1>2, Zenon

(* tasks[] is large enough for everything a CPU may have to queue. *)
LEMMA QueueCapacity ==
    ASSUME smp_online \in 1..MAX_CPUS, NEW c \in CPU
    PROVE  IsFiniteSet(Own(c) \cup Share(c)) /\ Cardinality(Own(c) \cup Share(c)) <= MAX_TASKS
<1>1. IsFiniteSet(Own(c)) /\ Cardinality(Own(c)) \in Nat /\ Cardinality(Own(c)) <= IF c = 0 THEN 1 ELSE 4
  <2>1. CASE c = 0
    <3>1. Own(c) = {busy_task}
      BY <2>1, Zenon DEF Own
    <3>2. IsFiniteSet({busy_task}) /\ Cardinality({busy_task}) = 1
      BY FS_Singleton, Zenon
    <3> QED BY <2>1, <3>1, <3>2
  <2>2. CASE c # 0
    <3> DEFINE A == {idle_tcb(c)}
               B == A \cup {test_tcb(c)[1]}
               C == B \cup {test_tcb(c)[2]}
               D == C \cup {pp_tcb(c)}
    <3>1. IsFiniteSet(A) /\ Cardinality(A) = 1
      BY FS_Singleton, Zenon
    <3>2. IsFiniteSet(B) /\ Cardinality(B) \in {1, 2}
      BY <3>1, FS_AddElement
    <3>3. IsFiniteSet(C) /\ Cardinality(C) \in {1, 2, 3}
      BY <3>2, FS_AddElement
    <3>4. IsFiniteSet(D) /\ Cardinality(D) \in {1, 2, 3, 4}
      BY <3>3, FS_AddElement
    <3>5. Own(c) = D
      BY <2>2, Zenon DEF Own
    <3> QED BY <2>2, <3>4, <3>5
  <2> QED BY <2>1, <2>2, Zenon
<1>2. /\ IsFiniteSet(Own(c) \cup Share(c)) /\ Own(c) \cap Share(c) \in SUBSET Own(c)
      /\ Cardinality(Own(c) \cup Share(c))
           = Cardinality(Own(c)) + Cardinality(Share(c)) - Cardinality(Own(c) \cap Share(c))
  BY <1>1, ShareBound, FS_Union, Zenon
<1>3. Cardinality(Own(c) \cap Share(c)) \in Nat
  BY <1>1, <1>2, FS_Subset, FS_CardinalityType, Zenon
<1> QED BY <1>1, <1>2, <1>3, ShareBound, CapacityAssumption, BootAssumption

(* A queue without repetition is as long as the set of its tasks. *)
LEMMA QueueLength ==
    ASSUME NEW T, NEW s \in Seq(T), IsInjective(s)
    PROVE  IsFiniteSet(Range(s)) /\ Cardinality(Range(s)) = Len(s)
<1>1. Len(s) \in Nat /\ DOMAIN s = 1..Len(s)
  OBVIOUS
<1>2. s \in Bijection(1..Len(s), Range(s))
  BY <1>1 DEF Bijection, Injection, Surjection, IsInjective, Range
<1>3. ExistsBijection(1..Len(s), Range(s))
  BY <1>2, Zenon DEF ExistsBijection
<1>4. IsFiniteSet(1..Len(s)) /\ Cardinality(1..Len(s)) = Len(s)
  <2>1. 1 \in Int /\ Len(s) \in Int
    BY <1>1
  <2>2. /\ IsFiniteSet(1..Len(s))
        /\ Cardinality(1..Len(s)) = IF 1 > Len(s) THEN 0 ELSE Len(s) - 1 + 1
    BY <2>1, FS_Interval, Zenon
  <2> QED BY <1>1, <2>2
<1> QED BY <1>3, <1>4, FS_Bijection, Zenon

(* There is room for a task that is not in the queue yet. *)
LEMMA Room ==
    ASSUME smp_online \in 1..MAX_CPUS, NEW c \in CPU, NEW T, NEW s \in Seq(T), IsInjective(s),
           NEW t, t \notin Range(s), Range(s) \cup {t} \subseteq Own(c) \cup Share(c)
    PROVE  Len(s) < MAX_TASKS
<1>1. IsFiniteSet(Range(s)) /\ Cardinality(Range(s)) = Len(s)
  BY QueueLength, Zenon
<1>2. IsFiniteSet(Range(s) \cup {t}) /\ Cardinality(Range(s) \cup {t}) = Len(s) + 1
  BY <1>1, FS_AddElement, Zenon
<1>3. Cardinality(Range(s) \cup {t}) <= Cardinality(Own(c) \cup Share(c))
  BY QueueCapacity, FS_Subset, Zenon
<1>4. Cardinality(Own(c) \cup Share(c)) <= MAX_TASKS /\ Cardinality(Own(c) \cup Share(c)) \in Nat
  BY QueueCapacity, FS_CardinalityType, Zenon
<1>5. Len(s) \in Nat
  OBVIOUS
<1> QED BY <1>2, <1>3, <1>4, <1>5, CapacityAssumption, BootAssumption

(* TypeOK gives what the parts need of it. *)
LEMMA BootTypes ==
    ASSUME TypeOK
    PROVE  CtlTypes /\ QueueBase
<1>1. /\ pc \in [CPU -> Label] /\ cpu_alive \in [CPU -> BOOLEAN] /\ vbar \in [CPU -> BOOLEAN]
      /\ k \in 0..(MAX_CPUS + NUM_WORKERS) /\ online \in 0..Cardinality(Alive)
      /\ smp_online \in 1..MAX_CPUS
  BY Zenon DEF TypeOK
<1>2. Cardinality(Alive) \in Nat /\ MAX_CPUS + NUM_WORKERS \in Nat
  BY BootAssumption, AliveFinite
<1>3. k \in Nat /\ online \in Int
  BY <1>1, <1>2
<1>4. Roomy
  BY <1>1, Room, Zenon DEF Roomy
<1>5. QueueBase
  BY <1>4, Zenon DEF TypeOK, QueueBase
<1> QED BY <1>1, <1>3, <1>5, Zenon DEF CtlTypes

-----------------------------------------------------------------------------
(* The count of CPUs and the self-test.                                    *)

(* Steps that do not count a CPU keep the counted set. *)
LEMMA CountSame ==
    ASSUME CountInv, UNCHANGED online, k \in Nat, k' \in Nat,
           \A c \in CPU : cpu_alive[c] => cpu_alive'[c],
           pc'[0] \in Early \/ pc[0] \notin Early,
           pc'[0] \in {"psci", "spin"} => pc[0] \in {"psci", "spin"} /\ k <= k',
           pc'[0] = "st_wait" =>
              \A c \in Alive : c < k' =>
                 st_done'[c] \/ (pc[0] = "st_wait" /\ c < k /\ (st_done[c] => st_done'[c]))
    PROVE  CountInv'
<1>1. PICK C \in SUBSET Alive :
        /\ Cardinality(C) = online
        /\ pc[0] \notin Early => 0 \in C
        /\ pc[0] \in {"psci", "spin"} => \A c \in C : c < k
        /\ pc[0] = "st_wait" => \A c \in C : c < k => st_done[c]
  BY Zenon DEF CountInv
<1>2. C \in SUBSET Alive'
  BY Zenon DEF Alive
<1>3. pc'[0] \in {"psci", "spin"} => \A c \in C : c < k'
  BY <1>1 DEF Alive, CPU
<1>4. pc'[0] = "st_wait" => \A c \in C : c < k' => st_done'[c]
  BY <1>1, Zenon
<1> QED BY <1>1, <1>2, <1>3, <1>4, Zenon DEF CountInv

(* online counts CPUs that were alive when CPU 0 looked. *)
LEMMA CountStep == TypeOK /\ CtlInv /\ CountInv /\ Next => CountInv'
<1> SUFFICES ASSUME TypeOK, CtlInv, CountInv, Next PROVE CountInv'
  OBVIOUS
<1> USE Cpus DEF Goto
<1>t. /\ pc \in [CPU -> Label] /\ cpu_alive \in [CPU -> BOOLEAN] /\ vbar \in [CPU -> BOOLEAN]
      /\ k \in Nat /\ online \in Int /\ st_done \in [CPU -> BOOLEAN]
  BY BootTypes, Zenon DEF TypeOK, CtlTypes
<1>1. CASE smp_boot_secondaries
  <2>1. {0} \in SUBSET Alive' /\ online' = 1 /\ k' = 1 /\ pc'[0] = "psci"
    BY <1>1, <1>t, Zenon DEF smp_boot_secondaries, Alive
  <2>2. Cardinality({0}) = 1
    BY FS_Singleton, Zenon
  <2> QED BY <2>1, <2>2 DEF CountInv
<1>2. CASE CameUp
  <2>1. PICK C \in SUBSET Alive : Cardinality(C) = online /\ 0 \in C /\ \A c \in C : c < k
    BY <1>2, Zenon DEF CountInv, CameUp, Early
  <2>2. /\ k \in CPU /\ cpu_alive[k] /\ online' = online + 1 /\ k' = k + 1 /\ pc'[0] = "psci"
        /\ UNCHANGED cpu_alive
    BY <1>2, <1>t, Zenon DEF CameUp, CtlInv
  <2>3. C \cup {k} \in SUBSET Alive'
    BY <2>1, <2>2, Zenon DEF Alive
  <2>4. Cardinality(C \cup {k}) = Cardinality(C) + 1
    <3>1. IsFiniteSet(C) /\ k \notin C
      BY <2>1, <1>t, AliveFinite, FS_Subset
    <3> QED BY <3>1, FS_AddElement, Zenon
  <2>5. \A c \in C \cup {k} : c < k + 1
    BY <2>1, <1>t DEF Alive, CPU
  <2> QED BY <2>1, <2>2, <2>3, <2>4, <2>5, Zenon DEF CountInv
<1>3. CASE Timeout \/ PsciRefuses \/ psci_cpu_on
  <2>1. /\ UNCHANGED <<online, cpu_alive>> /\ pc[0] \in {"psci", "spin"}
        /\ pc'[0] \in {"psci", "spin"} /\ k' \in {k, k + 1}
    BY <1>3, <1>t DEF Timeout, PsciRefuses, psci_cpu_on, smpVars, CtlInv
  <2> QED BY <2>1, <1>t, CountSame DEF Early
<1>4. CASE selftest_body(0) \/ SelftestWait
  <2>1. /\ UNCHANGED <<online, cpu_alive>> /\ k' \in Nat
        /\ pc[0] \in {"st", "st_wait"} /\ pc'[0] \in {"st", "st_wait"}
    BY <1>4, <1>t DEF selftest_body, SelftestWait, smpVars
  <2>2. \A c \in Alive : st_done[c] => st_done'[c]
    BY <1>4, <1>t, Zenon DEF selftest_body, SelftestWait, stVars, Alive
  <2>3. ASSUME pc'[0] = "st_wait", NEW c \in Alive, c < k', ~ (pc[0] = "st_wait" /\ c < k)
        PROVE  st_done'[c]
    <3>1. CASE selftest_body(0)
      <4>1. c = 0
        BY <2>3, <3>1, <1>t DEF CtlInv, selftest_body, Alive, CPU
      <4> QED BY <2>3, <3>1, <4>1, <1>t, Zenon DEF selftest_body
    <3>2. CASE SelftestWait
      BY <2>3, <3>2, <1>t DEF SelftestWait, Alive, CPU, stVars
    <3> QED BY <1>4, <3>1, <3>2, Zenon
  <2>4. \A c \in CPU : cpu_alive[c] => cpu_alive'[c]
    BY <2>1, Zenon
  <2> QED BY <2>1, <2>2, <2>3, <2>4, <1>t, CountSame, Zenon DEF Early
<1>5. ASSUME NEW c \in Secondary, secondary_start(c) \/ secondary_main(c) PROVE CountInv'
  <2>1. /\ UNCHANGED <<online, k>> /\ pc'[0] = pc[0]
        /\ \A d \in CPU : (cpu_alive[d] => cpu_alive'[d]) /\ (st_done[d] => st_done'[d])
    BY <1>5, <1>t, Zenon DEF secondary_start, secondary_main, selftest_body, IdleTask, TestTask,
       PingPongTask, EnableIrqs, smpVars, stVars
  <2>2. k <= k'
    BY <2>1, <1>t
  <2>3. CASE pc[0] # "st_wait"
    BY <2>1, <2>2, <2>3, <1>t, CountSame, Zenon
  <2>4. CASE pc[0] = "st_wait"
    BY <2>1, <2>2, <2>4, <1>t, Zenon DEF CountInv, Alive, Early
  <2> QED BY <2>3, <2>4, Zenon
<1>6. ASSUME NEW c \in CPU, Tick(c) PROVE CountInv'
  BY <1>6, Zenon DEF Tick, smpVars, stVars, CountInv, Alive
<1>7. CASE Stopped
  BY <1>7, Zenon DEF Stopped, vars, smpVars, stVars, CountInv, Alive
<1>8. CASE \/ FindAccel \/ AccelMissing \/ SetupAccel \/ InitTasks \/ EnableDma \/ SetOnline
           \/ SelftestDone \/ RouteDma \/ RouteDefault \/ PlaceWorker \/ StartTasks
  <2>1. /\ UNCHANGED <<online, cpu_alive>> /\ pc'[0] \notin {"psci", "spin", "st_wait"}
        /\ pc'[0] \in Early \/ pc[0] \notin Early
    BY <1>8, <1>t, Zenon DEF FindAccel, AccelMissing, SetupAccel, InitTasks, EnableDma, SetOnline,
       SelftestDone, RouteDma, RouteDefault, PlaceWorker, StartTasks, gic_enable_irq_target, smpVars,
       Early
  <2> QED BY <2>1, Zenon DEF CountInv, Alive
<1> QED
  BY <1>1, <1>2, <1>3, <1>4, <1>5, <1>6, <1>7, <1>8, Zenon DEF Next, kernel_main

(* The increments of all CPUs together. *)
LEMMA IncrementsFinite ==
    /\ IsFiniteSet(Increments) /\ Cardinality(Increments) \in 0..(MAX_CPUS * SELFTEST_N)
<1>1. IsFiniteSet(1..SELFTEST_N) /\ Cardinality(1..SELFTEST_N) = SELFTEST_N
  BY FS_Interval, BootAssumption
<1>2. /\ IsFiniteSet(CPU \X (1..SELFTEST_N))
      /\ Cardinality(CPU \X (1..SELFTEST_N)) = MAX_CPUS * SELFTEST_N
  BY <1>1, AliveFinite, FS_Product, Zenon
<1>3. Increments \in SUBSET (CPU \X (1..SELFTEST_N))
  BY Zenon DEF Increments
<1>4. IsFiniteSet(Increments) /\ Cardinality(Increments) <= MAX_CPUS * SELFTEST_N
  BY <1>2, <1>3, FS_Subset, Zenon
<1>5. Cardinality(Increments) \in Nat
  BY <1>4, FS_CardinalityType, Zenon
<1> QED BY <1>4, <1>5, Cpus, BootAssumption

(* If every CPU that is alive was counted, LOCK_OK compares equal numbers. *)
LEMMA VerdictRight ==
    ASSUME TypeOK, CtlInv, CountInv, StInv, pc[0] = "st_wait", k = MAX_CPUS,
           Cardinality(Alive) <= online
    PROVE  st_locked = online * SELFTEST_N
<1>1. PICK C \in SUBSET Alive : Cardinality(C) = online /\ \A c \in C : c < k => st_done[c]
  BY Zenon DEF CountInv
<1>2. C = Alive
  <2>1. Cardinality(C) <= Cardinality(Alive) /\ (Cardinality(Alive) = Cardinality(C) => Alive = C)
    BY AliveFinite, FS_Subset, Zenon
  <2> QED BY <1>1, <2>1, AliveFinite, BootTypes DEF CtlTypes
<1>3. \A c \in CPU : st_i[c] = IF c \in Alive THEN SELFTEST_N ELSE 0
  BY <1>1, <1>2, Cpus DEF StInv, Alive, CPU
<1>4. Increments = Alive \X (1..SELFTEST_N)
  BY <1>3, BootAssumption DEF Increments, Alive
<1>5. Cardinality(1..SELFTEST_N) = SELFTEST_N /\ IsFiniteSet(1..SELFTEST_N)
  BY FS_Interval, BootAssumption
<1>6. Cardinality(Increments) = Cardinality(Alive) * SELFTEST_N
  BY <1>4, <1>5, AliveFinite, FS_Product, Zenon
<1> QED BY <1>1, <1>2, <1>6, Zenon DEF StInv

(* Steps that neither count nor add to st_locked. *)
LEMMA StSame ==
    ASSUME StInv, UNCHANGED <<stVars, online>>, cpu_alive \in [CPU -> BOOLEAN], online \in Int,
           \A c \in CPU : cpu_alive[c] => cpu_alive'[c],
           pc'[0] \in Early \cup {"psci", "spin"} => pc[0] \in Early \cup {"psci", "spin"}
    PROVE  StInv'
<1>1. Increments' = Increments
  BY Zenon DEF Increments, stVars
<1>2. Cardinality(Alive) <= Cardinality(Alive')
  <2>1. Alive \in SUBSET Alive' /\ IsFiniteSet(Alive')
    <3>1. Alive' \in SUBSET CPU
      BY Zenon DEF Alive
    <3>2. IsFiniteSet(Alive')
      BY <3>1, AliveFinite, FS_Subset, Zenon
    <3> QED BY <3>2, Zenon DEF Alive
  <2> QED BY <2>1, FS_Subset, Zenon
<1>3. Cardinality(Alive) \in Int /\ Cardinality(Alive') \in Int
  <2>1. Alive' \in SUBSET CPU
    BY DEF Alive
  <2>2. IsFiniteSet(Alive')
    BY <2>1, AliveFinite, FS_Subset
  <2> QED BY <2>2, AliveFinite, FS_CardinalityType
<1>4. SelftestVerdict'
  BY <1>2, <1>3 DEF StInv, SelftestVerdict, stVars
<1>5. st_locked' = Cardinality(Increments)'
  BY <1>1, Zenon DEF StInv, stVars
<1>6. \A c \in CPU : (st_done'[c] => st_i'[c] = SELFTEST_N) /\ (~ cpu_alive'[c] => st_i'[c] = 0)
  BY Zenon DEF StInv, stVars
<1>7. pc'[0] \in Early \cup {"psci", "spin"} => lock_ok'
  BY Zenon DEF StInv, stVars
<1> QED BY <1>4, <1>5, <1>6, <1>7, Zenon DEF StInv

(* The self-test's count and verdict. *)
LEMMA StStep == TypeOK /\ CtlInv /\ CountInv /\ StInv /\ Next => StInv'
<1> SUFFICES ASSUME TypeOK, CtlInv, CountInv, StInv, Next PROVE StInv'
  OBVIOUS
<1> USE Cpus DEF Goto
<1>t. /\ pc \in [CPU -> Label] /\ cpu_alive \in [CPU -> BOOLEAN] /\ vbar \in [CPU -> BOOLEAN]
      /\ k \in Nat /\ online \in Int /\ st_done \in [CPU -> BOOLEAN]
      /\ st_i \in [CPU -> 0..SELFTEST_N] /\ lock_ok \in BOOLEAN
  BY BootTypes, Zenon DEF TypeOK, CtlTypes
<1>1. CASE smp_boot_secondaries \/ CameUp
  <2>1. /\ UNCHANGED stVars /\ lock_ok /\ \A c \in CPU : cpu_alive[c] => cpu_alive'[c]
        /\ pc[0] \in Early \cup {"psci", "spin"}
    BY <1>1, <1>t, Zenon DEF smp_boot_secondaries, CameUp, StInv, Early
  <2>2. Increments' = Increments
    BY <2>1, Zenon DEF Increments, stVars
  <2> QED BY <2>1, <2>2, Zenon DEF StInv, SelftestVerdict, stVars
<1>2. CASE SelftestDone
  <2>1. Alive' = Alive /\ Increments' = Increments /\ pc'[0] = "route" /\ online' = online
    BY <1>2, <1>t, Zenon DEF SelftestDone, smpVars, Alive, Increments
  <2>2. lock_ok' \/ Cardinality(Alive) > online
    <3>1. pc[0] = "st_wait" /\ k = MAX_CPUS /\ lock_ok' = (st_locked = online * SELFTEST_N)
      BY <1>2, Zenon DEF SelftestDone
    <3>2. CASE Cardinality(Alive) <= online
      BY <3>1, <3>2, VerdictRight, Zenon
    <3>3. CASE ~ (Cardinality(Alive) <= online)
      BY <3>3, <1>t, AliveFinite
    <3> QED BY <3>2, <3>3, Zenon
  <2> QED BY <1>2, <2>1, <2>2, Zenon DEF SelftestDone, smpVars, StInv, SelftestVerdict, Early
<1>3. ASSUME NEW c \in CPU, selftest_body(c) PROVE StInv'
  <2>1. cpu_alive[c] /\ UNCHANGED <<smpVars, lock_ok>> /\ Alive' = Alive
    <3>1. cpu_alive[c]
      BY <1>3, Zenon DEF selftest_body, CtlInv, Early
    <3> QED BY <1>3, <3>1, Zenon DEF selftest_body, smpVars, Alive
  <2>2. pc'[0] \in Early \cup {"psci", "spin"} => pc[0] \in Early \cup {"psci", "spin"}
    BY <1>3, <1>t, Zenon DEF selftest_body, Early
  <2>3. CASE st_i' = [st_i EXCEPT ![c] = @ + 1] /\ st_locked' = st_locked + 1 /\ st_i[c] < SELFTEST_N
             /\ UNCHANGED st_done
    <3>1. Increments' = Increments \cup {<<c, st_i[c] + 1>>}
      BY <2>3, <1>t, BootAssumption DEF Increments
    <3>2. <<c, st_i[c] + 1>> \notin Increments
      BY <1>t DEF Increments
    <3>3. Cardinality(Increments') = Cardinality(Increments) + 1
      BY <3>1, <3>2, IncrementsFinite, FS_AddElement, Zenon
    <3>4. st_locked' = Cardinality(Increments')
      BY <2>3, <3>3, Zenon DEF StInv
    <3>5. \A d \in CPU : (st_done'[d] => st_i'[d] = SELFTEST_N) /\ (~ cpu_alive'[d] => st_i'[d] = 0)
      BY <2>1, <2>3, <1>t, BootAssumption DEF StInv, smpVars
    <3> QED BY <2>1, <2>2, <3>4, <3>5, Zenon DEF StInv, SelftestVerdict, smpVars
  <2>4. CASE /\ st_done' = [st_done EXCEPT ![c] = TRUE] /\ st_i[c] = SELFTEST_N
             /\ UNCHANGED <<st_i, st_locked>>
    <3>1. Increments' = Increments
      BY <2>4, Zenon DEF Increments
    <3>2. \A d \in CPU : (st_done'[d] => st_i'[d] = SELFTEST_N) /\ (~ cpu_alive'[d] => st_i'[d] = 0)
      BY <2>1, <2>4, <1>t, Zenon DEF StInv, smpVars
    <3> QED BY <2>1, <2>2, <2>4, <3>1, <3>2, Zenon DEF StInv, SelftestVerdict, smpVars
  <2> QED BY <1>3, <2>3, <2>4, Zenon DEF selftest_body
<1>4. ASSUME NEW c \in Secondary, secondary_start(c) PROVE StInv'
  <2>1. /\ UNCHANGED <<stVars, online>> /\ pc'[0] = pc[0]
        /\ \A d \in CPU : cpu_alive[d] => cpu_alive'[d]
    BY <1>4, <1>t, Zenon DEF secondary_start
  <2> QED BY <2>1, <1>t, StSame, Zenon
<1>5. ASSUME NEW c \in Secondary,
             IdleTask(c) \/ (\E n \in 1..2 : TestTask(c, n)) \/ PingPongTask(c) \/ EnableIrqs(c)
      PROVE  StInv'
  <2>1. UNCHANGED <<stVars, online, cpu_alive>> /\ pc'[0] = pc[0]
    BY <1>5, <1>t, Zenon DEF IdleTask, TestTask, PingPongTask, EnableIrqs, smpVars
  <2> QED BY <2>1, <1>t, StSame, Zenon
<1>6. CASE SetOnline
  <2>1. Alive' = Alive /\ Increments' = Increments /\ pc'[0] \in {"st", "route"}
    BY <1>6, <1>t, Zenon DEF SetOnline, Alive, Increments
  <2> QED BY <1>6, <2>1, Zenon DEF SetOnline, StInv, SelftestVerdict, Early
<1>7. ASSUME NEW c \in CPU, Tick(c) PROVE StInv'
  BY <1>7, <1>t, StSame, Zenon DEF Tick, smpVars
<1>8. CASE \/ FindAccel \/ AccelMissing \/ SetupAccel \/ Stopped \/ InitTasks \/ EnableDma
           \/ psci_cpu_on \/ PsciRefuses \/ Timeout \/ SelftestWait
           \/ RouteDma \/ RouteDefault \/ PlaceWorker \/ StartTasks
  <2>1. /\ UNCHANGED <<stVars, online, cpu_alive>>
        /\ pc'[0] \in Early \cup {"psci", "spin"} => pc[0] \in Early \cup {"psci", "spin"}
    BY <1>8, <1>t, Zenon DEF FindAccel, AccelMissing, SetupAccel, Stopped, InitTasks, EnableDma,
       psci_cpu_on, PsciRefuses, Timeout, SelftestWait, RouteDma, RouteDefault, PlaceWorker, StartTasks,
       gic_enable_irq_target, smpVars, vars, Early
  <2> QED BY <2>1, <1>t, StSame, Zenon
<1> QED
  BY <1>1, <1>2, <1>3, <1>4, <1>5, <1>6, <1>7, <1>8, Zenon DEF Next, kernel_main, secondary_main

-----------------------------------------------------------------------------
(* online stays within the number of CPUs that are alive. *)
LEMMA CountBounds ==
    CountInv => /\ online \in 0..Cardinality(Alive) /\ Cardinality(Alive) \in 0..MAX_CPUS
                /\ pc[0] \notin Early => online >= 1
<1> SUFFICES ASSUME CountInv
             PROVE  /\ online \in 0..Cardinality(Alive) /\ Cardinality(Alive) \in 0..MAX_CPUS
                    /\ pc[0] \notin Early => online >= 1
  OBVIOUS
<1>1. PICK C \in SUBSET Alive : Cardinality(C) = online /\ (pc[0] \notin Early => 0 \in C)
  BY Zenon DEF CountInv
<1>2. IsFiniteSet(C) /\ Cardinality(C) <= Cardinality(Alive)
  BY AliveFinite, FS_Subset, Zenon
<1>3. Cardinality(C) \in Nat /\ (Cardinality(C) = 0 => C = {})
  BY <1>2, FS_CardinalityType, FS_EmptySet, Zenon
<1> QED BY <1>1, <1>2, <1>3, AliveFinite

(* The types of what the other lemmas do not cover. *)
LEMMA TypeStep ==
    ASSUME TypeOK, CtlInv, Next
    PROVE  /\ pc' \in [CPU -> Label] /\ k' \in 0..(MAX_CPUS + NUM_WORKERS)
           /\ cpu_alive' \in [CPU -> BOOLEAN] /\ boot_vbar' \in BOOLEAN /\ vbar' \in [CPU -> BOOLEAN]
           /\ st_go' \in BOOLEAN /\ st_done' \in [CPU -> BOOLEAN]
           /\ st_i' \in [CPU -> 0..SELFTEST_N] /\ lock_ok' \in BOOLEAN
           /\ target' \in CPU \cup {NoTarget} /\ enabled' \in BOOLEAN
<1> DEFINE Good == /\ pc' \in [CPU -> Label] /\ k' \in 0..(MAX_CPUS + NUM_WORKERS)
                   /\ cpu_alive' \in [CPU -> BOOLEAN] /\ boot_vbar' \in BOOLEAN
                   /\ vbar' \in [CPU -> BOOLEAN]
                   /\ st_go' \in BOOLEAN /\ st_done' \in [CPU -> BOOLEAN]
                   /\ st_i' \in [CPU -> 0..SELFTEST_N] /\ lock_ok' \in BOOLEAN
                   /\ target' \in CPU \cup {NoTarget} /\ enabled' \in BOOLEAN
<1> SUFFICES Good
  OBVIOUS
<1> USE Cpus DEF Goto, Label
<1>t. /\ pc \in [CPU -> Label] /\ k \in 0..(MAX_CPUS + NUM_WORKERS)
      /\ cpu_alive \in [CPU -> BOOLEAN] /\ boot_vbar \in BOOLEAN /\ vbar \in [CPU -> BOOLEAN]
      /\ st_go \in BOOLEAN /\ st_done \in [CPU -> BOOLEAN]
      /\ st_i \in [CPU -> 0..SELFTEST_N] /\ lock_ok \in BOOLEAN
      /\ target \in CPU \cup {NoTarget} /\ enabled \in BOOLEAN
  BY Zenon DEF TypeOK
<1>k. k \in Nat /\ MAX_CPUS \in Nat \ {0} /\ NUM_WORKERS \in Nat \ {0}
  BY <1>t, BootAssumption
<1>1. CASE FindAccel \/ AccelMissing \/ Stopped \/ SetupAccel \/ InitTasks
  BY <1>1, <1>t, Zenon DEF FindAccel, AccelMissing, Stopped, SetupAccel, InitTasks, vars, smpVars, stVars,
     gicVars
<1>2. CASE EnableDma \/ RouteDma \/ RouteDefault
  <2>1. RouteDma => DmaTarget \in CPU
    BY Zenon DEF RouteDma, DmaTarget, CtlInv
  <2>2. CASE EnableDma
    <3>1. /\ \E l \in Label : pc' = [pc EXCEPT ![0] = l]
          /\ UNCHANGED <<k, cpu_alive, boot_vbar, vbar, st_go, st_done, st_i, lock_ok>>
          /\ target' \in CPU \cup {NoTarget} /\ enabled' \in BOOLEAN
      BY <2>2, <1>t, Zenon DEF EnableDma, gic_enable_irq_target, smpVars, stVars, gicVars
    <3> QED BY <3>1, <1>t
  <2>3. CASE RouteDma
    <3>1. /\ \E l \in Label : pc' = [pc EXCEPT ![0] = l]
          /\ UNCHANGED <<k, cpu_alive, boot_vbar, vbar, st_go, st_done, st_i, lock_ok>>
          /\ target' \in CPU \cup {NoTarget} /\ enabled' \in BOOLEAN
      BY <2>1, <2>3, <1>t, Zenon DEF RouteDma, gic_enable_irq_target, smpVars, stVars, gicVars
    <3> QED BY <3>1, <1>t
  <2>4. CASE RouteDefault
    BY <2>4, <1>t, Zenon DEF RouteDefault, gic_enable_irq_target, smpVars, stVars, gicVars
  <2> QED BY <1>2, <2>2, <2>3, <2>4, Zenon
<1>3. CASE \/ smp_boot_secondaries \/ psci_cpu_on \/ PsciRefuses \/ CameUp \/ Timeout \/ SelftestWait
           \/ SelftestDone \/ SetOnline
  <2>1. k' \in 0..(MAX_CPUS + NUM_WORKERS)
    <3>1. k' \in {0, 1, k} \/ (k' = k + 1 /\ k < MAX_CPUS)
      <4>1. CASE smp_boot_secondaries \/ psci_cpu_on \/ SelftestDone \/ SetOnline
        BY <4>1, Zenon DEF smp_boot_secondaries, psci_cpu_on, SelftestDone, SetOnline
      <4>2. CASE PsciRefuses \/ SelftestWait
        BY <4>2, Zenon DEF PsciRefuses, SelftestWait
      <4>3. CASE CameUp \/ Timeout
        <5>1. k \in Secondary /\ k' = k + 1
          BY <4>3, Zenon DEF CameUp, Timeout, CtlInv
        <5> QED BY <5>1 DEF Secondary
      <4> QED BY <1>3, <4>1, <4>2, <4>3, Zenon
    <3> QED BY <3>1, <1>t, <1>k
  <2>2. SMP_SELFTEST \in BOOLEAN /\ (psci_cpu_on => k \in CPU)
    BY Zenon DEF CtlInv, psci_cpu_on
  <2>3. CASE smp_boot_secondaries \/ psci_cpu_on
    <3>1. pc' \in [CPU -> Label]
      BY <2>3, <2>2, <1>t DEF smp_boot_secondaries, psci_cpu_on
    <3>2. cpu_alive' \in [CPU -> BOOLEAN] /\ boot_vbar' \in BOOLEAN
      BY <2>3, <1>t, Zenon DEF smp_boot_secondaries, psci_cpu_on, smpVars
    <3>3. UNCHANGED <<vbar, st_go, st_done, st_i, lock_ok, target, enabled>>
      BY <2>3, Zenon DEF smp_boot_secondaries, psci_cpu_on, smpVars, stVars, gicVars
    <3> QED BY <2>1, <3>1, <3>2, <3>3, <1>t, Zenon
  <2>4. CASE PsciRefuses \/ CameUp \/ Timeout
    BY <2>4, <2>1, <1>t DEF PsciRefuses, CameUp, Timeout, smpVars, stVars, gicVars
  <2>5. CASE SelftestWait \/ SelftestDone \/ SetOnline
    <3>1. pc' \in [CPU -> Label]
      BY <2>5, <1>t DEF SelftestWait, SelftestDone, SetOnline
    <3>2. st_go' \in BOOLEAN /\ st_done' \in [CPU -> BOOLEAN] /\ lock_ok' \in BOOLEAN
      BY <2>5, <2>2, <1>t, Zenon DEF SelftestWait, SelftestDone, SetOnline, stVars
    <3>3. UNCHANGED <<cpu_alive, boot_vbar, vbar, st_i, target, enabled>>
      BY <2>5, Zenon DEF SelftestWait, SelftestDone, SetOnline, smpVars, stVars, gicVars
    <3> QED BY <2>1, <3>1, <3>2, <3>3, <1>t, Zenon
  <2> QED BY <1>3, <2>3, <2>4, <2>5, Zenon
<1>4. CASE PlaceWorker \/ StartTasks
  <2>1. k' \in 0..(MAX_CPUS + NUM_WORKERS)
    BY <1>4, <1>k DEF PlaceWorker, StartTasks
  <2> QED BY <1>4, <2>1, <1>t DEF PlaceWorker, StartTasks, smpVars, stVars, gicVars
<1>5. ASSUME NEW c \in CPU, selftest_body(c) PROVE Good
  <2>1. pc' \in [CPU -> Label] /\ st_done' \in [CPU -> BOOLEAN]
    <3>1. CASE UNCHANGED <<pc, st_done>>
      BY <3>1, <1>t, Zenon
    <3>2. CASE ~ UNCHANGED <<pc, st_done>>
      <4>1. PICK l \in Label : pc' = [pc EXCEPT ![c] = l] /\ st_done' = [st_done EXCEPT ![c] = TRUE]
        BY <1>5, <3>2, Zenon DEF selftest_body
      <4> QED BY <4>1, <1>t, Zenon
    <3> QED BY <3>1, <3>2, Zenon
  <2>2. st_i' \in [CPU -> 0..SELFTEST_N]
    BY <1>5, <1>t, BootAssumption DEF selftest_body
  <2> QED BY <1>5, <2>1, <2>2, <1>t, Zenon DEF selftest_body, smpVars, gicVars
<1>6. ASSUME NEW c \in Secondary,
             \/ secondary_start(c) \/ IdleTask(c) \/ (\E n \in 1..2 : TestTask(c, n))
             \/ PingPongTask(c) \/ EnableIrqs(c)
      PROVE  Good
  <2>1. PICK l \in Label : pc' = [pc EXCEPT ![c] = l]
    BY <1>6, Zenon DEF secondary_start, IdleTask, TestTask, PingPongTask, EnableIrqs
  <2>2. /\ UNCHANGED <<k, boot_vbar, stVars, gicVars>>
        /\ cpu_alive' \in [CPU -> BOOLEAN] /\ vbar' \in [CPU -> BOOLEAN]
    <3>1. CASE secondary_start(c)
      BY <3>1, <1>t, Zenon DEF secondary_start
    <3>2. CASE ~ secondary_start(c)
      BY <1>6, <3>2, <1>t, Zenon DEF IdleTask, TestTask, PingPongTask, EnableIrqs, smpVars
    <3> QED BY <3>1, <3>2, Zenon
  <2> QED BY <2>1, <2>2, <1>t, Zenon DEF stVars, gicVars
<1>7. ASSUME NEW c \in CPU, Tick(c) PROVE Good
  BY <1>7, <1>t, Zenon DEF Tick, smpVars, stVars, gicVars
<1> HIDE DEF Good
<1> QED
  BY <1>1, <1>2, <1>3, <1>4, <1>5, <1>6, <1>7, Zenon DEF Next, kernel_main, secondary_main

(* Every step of bring-up preserves the invariant. *)
LEMMA BootInvStep == BootInv /\ [Next]_vars => BootInv'
<1> SUFFICES ASSUME BootInv, [Next]_vars PROVE BootInv'
  OBVIOUS
<1>0. TypeOK /\ PciInv /\ CtlInv /\ DevInv /\ CountInv /\ StInv /\ QueueInv
  BY Zenon DEF BootInv
<1>1. CASE Next
  <2>1. PciInv' /\ CtlInv' /\ DevInv' /\ CountInv' /\ StInv' /\ QueueInv'
    BY <1>0, <1>1, BootTypes, PciStep, CtlStep, DevStep, CountStep, StStep, QueueStep
  <2>2. /\ online' \in 0..Cardinality(Alive)' /\ Cardinality(Alive)' \in 0..MAX_CPUS
        /\ pc'[0] \notin Early => online' >= 1
    <3>1. (/\ online \in 0..Cardinality(Alive) /\ Cardinality(Alive) \in 0..MAX_CPUS
           /\ pc[0] \notin Early => online >= 1)'
      BY <2>1, CountBounds, PTL
    <3> QED BY <3>1, Zenon DEF Early
  <2>3. smp_online' \in 1..MAX_CPUS
    BY <2>1, <2>2, Cpus DEF CtlInv, Early, Late
  <2>4. st_locked' \in 0..(MAX_CPUS * SELFTEST_N)
    <3>1. (Cardinality(Increments) \in 0..(MAX_CPUS * SELFTEST_N))'
      BY IncrementsFinite, PTL
    <3>2. st_locked' = Cardinality(Increments)'
      BY <2>1, Zenon DEF StInv
    <3> QED BY <3>1, <3>2, Zenon
  <2>5. PciTypeOK'
    BY <2>1, Zenon DEF PciInv
  <2>6. TypeOK'
    BY <1>0, <1>1, <2>1, <2>2, <2>3, <2>4, <2>5, BootTypes, TypeStep, QueueStep, Zenon DEF TypeOK
  <2> QED BY <2>1, <2>6, Zenon DEF BootInv
<1>2. CASE UNCHANGED vars
  <2>1. UNCHANGED <<pciVars, SMP_SELFTEST, DMA_IRQ_CPU, present, pc, k, cpu_alive, boot_vbar, vbar,
                    online, smp_online, st_go, st_done, st_i, st_locked, lock_ok, tasks, current_idx,
                    cpu, framed, curr, target, enabled>>
    BY <1>2, Zenon DEF vars, buildVars, smpVars, stVars, queueVars, gicVars
  <2>2. PciInv' /\ PciTypeOK'
    BY <1>0, <1>2, PciStep, Zenon DEF PciInv
  <2>3. Answers' = Answers /\ UNCHANGED <<step, out, regs>>
    BY <2>1, Zenon DEF Answers, pciVars
  <2>4. TypeOK'
    <3>1. Alive' = Alive
      BY <2>1, Zenon DEF Alive
    <3> QED BY <1>0, <2>1, <2>2, <3>1, Zenon DEF TypeOK
  <2>5. CtlInv' /\ DevInv' /\ CountInv' /\ StInv'
    <3>1. Alive' = Alive /\ Increments' = Increments
      BY <2>1, Zenon DEF Alive, Increments
    <3>2. CtlInv' /\ DevInv'
      BY <1>0, <2>1, <2>3, <3>1 DEF CtlInv, DevInv
    <3>3. CountInv'
      BY <1>0, <2>1, <3>1, Zenon DEF CountInv
    <3>4. StInv'
      BY <1>0, <2>1, <3>1, Zenon DEF StInv, SelftestVerdict
    <3> QED BY <3>2, <3>3, <3>4, Zenon
  <2>6. QueueInv'
    <3>1. \A c \in CPU : /\ Mine(c)' = Mine(c) /\ WorkersOn(c)' = WorkersOn(c)
                         /\ Started(c)' = Started(c)
      BY <2>1 DEF Mine, WorkersOn, Started, Placed
    <3>2. \A c \in CPU : OneQueue(c)'
      BY <1>0, <2>1, <3>1, Zenon DEF QueueInv, OneQueue
    <3> QED BY <1>0, <2>1, <3>2, Zenon DEF QueueInv
  <2> QED BY <2>2, <2>4, <2>5, <2>6 DEF BootInv
<1> QED BY <1>1, <1>2, Zenon

(* A queue with no task yet. *)
LEMMA EmptyQueue == Range(<<>>) = {} /\ IsInjective(<<>>) /\ Len(<<>>) = 0
BY DEF Range, IsInjective

(* The invariant holds at reset. *)
LEMMA BootInvInit == Init => BootInv
<1> SUFFICES ASSUME Init PROVE BootInv
  OBVIOUS
<1> USE Cpus
<1>1. PciInv /\ PciTypeOK
  BY PciInvInit, Zenon DEF Init, PciInv
<1>2. Alive = {} /\ Cardinality({}) = 0
  BY FS_EmptySet, Zenon DEF Init, Alive
<1>3. Increments = {}
  BY BootAssumption DEF Init, Increments
<1>4. TypeOK
  <2>1. \A c \in CPU : (IF c = 0 THEN "pci" ELSE "off") \in Label
    BY Zenon DEF Label
  <2>2. 0 \in 0..(MAX_TASKS - 1) /\ 0 \in 0..(MAX_CPUS + NUM_WORKERS) /\ 0 \in 0..SELFTEST_N
        /\ 0 \in 0..(MAX_CPUS * SELFTEST_N) /\ 1 \in 1..MAX_CPUS
    BY BootAssumption, CapacityAssumption
  <2>3. pc \in [CPU -> Label] /\ st_i \in [CPU -> 0..SELFTEST_N]
        /\ current_idx \in [CPU -> 0..(MAX_TASKS - 1)] /\ cpu \in [Task -> CPU]
    BY <2>1, <2>2, Zenon DEF Init
  <2>4. online \in 0..Cardinality(Alive)
    BY <1>2 DEF Init
  <2>5. tasks \in [CPU -> Seq(Task)] /\ curr \in [CPU -> Task \cup {NoTask}]
    BY DEF Init
  <2>6. /\ cpu_alive \in [CPU -> BOOLEAN] /\ vbar \in [CPU -> BOOLEAN]
        /\ st_done \in [CPU -> BOOLEAN] /\ boot_vbar \in BOOLEAN /\ st_go \in BOOLEAN
        /\ lock_ok \in BOOLEAN /\ enabled \in BOOLEAN /\ target \in CPU \cup {NoTarget}
        /\ framed \subseteq Task
    BY Zenon DEF Init
  <2>7. /\ k \in 0..(MAX_CPUS + NUM_WORKERS) /\ smp_online \in 1..MAX_CPUS
        /\ st_locked \in 0..(MAX_CPUS * SELFTEST_N)
    BY <2>2, Zenon DEF Init
  <2> QED BY <1>1, <2>3, <2>4, <2>5, <2>6, <2>7, Zenon DEF TypeOK
<1>5. CtlInv
  <2>1. present \subseteq CPU
    BY DEF Init, CPU
  <2> QED BY <2>1, BootAssumption, Zenon DEF Init, CtlInv, CPU, Early, Late, Secondary
<1>6. DevInv
  BY Zenon DEF Init, DevInv, Late
<1>7. CountInv
  BY <1>2, Zenon DEF Init, CountInv, Early
<1>8. StInv
  BY <1>2, <1>3, Zenon DEF Init, StInv, SelftestVerdict
<1>9. QueueInv
  <2>1. Placed = 0 /\ 0..(0 - 1) = {}
    BY DEF Init, Placed
  <2>2. \A c \in CPU : Mine(c) = {} /\ WorkersOn(c) = {} /\ ~ Started(c)
    BY <2>1 DEF Init, Mine, WorkersOn, Started
  <2>3. \A c \in CPU : tasks[c] = <<>>
    BY Zenon DEF Init
  <2>4. Range(<<>>) = {} /\ IsInjective(<<>>) /\ Len(<<>>) = 0
    BY EmptyQueue, Zenon
  <2>5. \A c \in CPU : OneQueue(c)
    BY <2>2, <2>3, <2>4, CapacityAssumption, BootAssumption DEF OneQueue
  <2> QED BY <2>5, Zenon DEF Init, QueueInv
<1> QED BY <1>1, <1>4, <1>5, <1>6, <1>7, <1>8, <1>9 DEF BootInv

(* BootInv holds throughout bring-up (kernel_main, secondary_main). *)
THEOREM BootInvariant == Spec => []BootInv
BY BootInvInit, BootInvStep, PTL DEF Spec

-----------------------------------------------------------------------------
(* Every variable of bring-up keeps its type, and online never exceeds the *)
(* number of CPUs that are alive (smp_boot_secondaries).                   *)
THEOREM BootTypesOk == Spec => []TypeOK
<1>1. BootInv => TypeOK
  BY Zenon DEF BootInv
<1> QED BY <1>1, BootInvariant, PTL

(* A CPU that takes interrupts has its vectors, its current task at        *)
(* current_idx of its queue, and a frame for whatever it may pick          *)
(* (secondary_main, sched_register_on).                                    *)
THEOREM InterruptsFindQueue == Spec => []IrqsFindQueue
<1>1. BootInv => IrqsFindQueue
  <2> SUFFICES ASSUME BootInv, NEW c \in CPU, pc[c] = "run"
               PROVE  /\ vbar[c] /\ current_idx[c] < Len(tasks[c])
                      /\ tasks[c][current_idx[c] + 1] = curr[c]
                      /\ Range(tasks[c]) \subseteq framed \cup {idle_tcb(c)}
    BY Zenon DEF IrqsFindQueue
  <2>1. CtlInv /\ OneQueue(c)
    BY Zenon DEF BootInv, QueueInv
  <2>2. vbar[c]
    BY <2>1, Cpus, Zenon DEF CtlInv
  <2>3. Started(c)
    BY BootAssumption DEF Started, Placed
  <2> QED BY <2>1, <2>2, <2>3, Zenon DEF OneQueue
<1> QED BY <1>1, BootInvariant, PTL

(* When CPU 0 runs its first task no registration has been dropped, that   *)
(* of ping or pong at the end of a queue included, no task is in two       *)
(* queues and tcb_t.cpu is right, although two CPUs fill the queues at     *)
(* once (sched_register_on).                                               *)
THEOREM RegistrationsKept == Spec => []QueuesComplete
<1>1. BootInv => QueuesComplete
  <2> SUFFICES ASSUME BootInv, pc[0] = "run" PROVE QueuesComplete
    BY Zenon DEF QueuesComplete
  <2>1. CtlInv /\ (\A c \in CPU : OneQueue(c)) /\ smp_online \in 1..MAX_CPUS
    BY Zenon DEF BootInv, QueueInv, TypeOK
  <2>2. Placed = NUM_WORKERS
    BY Zenon DEF Placed
  <2>3. ASSUME NEW i \in 0..(NUM_WORKERS - 1) PROVE taskWorker(i) \in Registered
    <3>1. i % smp_online \in CPU
      BY <2>1, Cpus, BootAssumption DEF CPU
    <3>2. taskWorker(i) \in WorkersOn(i % smp_online)
      BY <2>2, Zenon DEF WorkersOn
    <3> QED BY <2>1, <3>1, <3>2 DEF OneQueue, Registered
  <2>4. busy_task \in Registered
    <3>1. busy_task \in Mine(0)
      BY Zenon DEF Mine
    <3> QED BY <2>1, <3>1, Cpus DEF OneQueue, Registered
  <2>5. ASSUME NEW c \in Secondary, pc[c] = "run"
        PROVE  OwnTasks(c) \subseteq Registered
    <3>1. Range(test_tcb(c)) = {test_tcb(c)[1], test_tcb(c)[2]}
      BY DEF Range, test_tcb
    <3>2. c # 0
      BY Cpus, Zenon
    <3>3. {idle_tcb(c), test_tcb(c)[1], test_tcb(c)[2]} \subseteq Mine(c)
      BY <2>5, <3>2, Zenon DEF Mine
    <3>4. c \in {1, 2} => pp_tcb(c) \in Mine(c)
      BY <2>5, <3>2, Zenon DEF Mine
    <3>5. OwnTasks(c) \subseteq Mine(c)
      BY <3>1, <3>3, <3>4, Zenon DEF OwnTasks
    <3> QED BY <2>1, <3>5, Cpus DEF OneQueue, Registered
  <2>6. \A c \in CPU : IsInjective(tasks[c]) /\ \A t \in Range(tasks[c]) : cpu[t] = c
    BY <2>1, Zenon DEF OneQueue
  <2> QED BY <2>3, <2>4, <2>5, <2>6, Zenon DEF QueuesComplete, Workers
<1> QED BY <1>1, BootInvariant, PTL

(* Without gaps, the CPUs below the number of alive ones are alive. *)
LEMMA NoGaps ==
    ASSUME cpu_alive \in [CPU -> BOOLEAN], \A c, d \in CPU : c < d /\ cpu_alive[d] => cpu_alive[c],
           NEW c \in CPU, c < Cardinality(Alive)
    PROVE  cpu_alive[c]
<1> SUFFICES ASSUME ~ cpu_alive[c] PROVE FALSE
  OBVIOUS
<1>1. c \in Nat
  BY DEF CPU
<1>2. Alive \in SUBSET (0..(c - 1))
  BY <1>1 DEF Alive, CPU
<1>3. 0 \in Int /\ c - 1 \in Int
  BY <1>1
<1>4. /\ IsFiniteSet(0..(c - 1))
      /\ Cardinality(0..(c - 1)) = IF 0 > c - 1 THEN 0 ELSE c - 1 - 0 + 1
  BY ONLY <1>3, FS_Interval, Zenon
<1>5. IsFiniteSet(0..(c - 1)) /\ Cardinality(0..(c - 1)) = c
  BY <1>1, <1>4
<1>6. Cardinality(Alive) <= Cardinality(0..(c - 1))
  BY ONLY <1>2, <1>4, FS_Subset, Zenon
<1> QED BY <1>1, <1>5, <1>6, AliveFinite

(* If CPUs come up in order, workers and the DMA interrupt go to CPUs that *)
(* are there (smp_online as a bound, main.c).                              *)
THEOREM PlacedInOrder == Spec => []OnlineInOrder
<1>1. BootInv => OnlineInOrder
  <2> SUFFICES ASSUME BootInv, \A c, d \in CPU : c < d /\ cpu_alive[d] => cpu_alive[c]
               PROVE  WorkersOnline /\ (enabled => cpu_alive[target] \/ target = 0)
    BY Zenon DEF OnlineInOrder
  <2>1. /\ CtlInv /\ (\A c \in CPU : OneQueue(c)) /\ DevInv /\ smp_online \in 1..MAX_CPUS
        /\ cpu_alive \in [CPU -> BOOLEAN] /\ target \in CPU \cup {NoTarget}
        /\ online \in 0..Cardinality(Alive)
    BY Zenon DEF BootInv, QueueInv, TypeOK
  <2>2. ASSUME NEW c \in CPU, c < smp_online, pc[0] \in Late PROVE cpu_alive[c]
    <3>1. c < Cardinality(Alive)
      BY <2>1, <2>2, AliveFinite DEF CtlInv, CPU
    <3> QED BY <2>1, <3>1, NoGaps, Zenon
  <2>3. ASSUME NEW t \in Workers \cap Registered PROVE cpu_alive[cpu[t]]
    <3>1. PICK c \in CPU : t \in Range(tasks[c])
      BY Zenon DEF Registered
    <3>2. cpu[t] = c /\ t \in Mine(c) \cup WorkersOn(c)
      BY <2>1, <3>1, Zenon DEF OneQueue
    <3>3. t \notin Mine(c)
      BY Names, Zenon DEF Mine, Workers
    <3>4. PICK j \in 0..(Placed - 1) : j % smp_online = c
      BY <3>2, <3>3, Zenon DEF WorkersOn
    <3>5. pc[0] \in Late
      BY <3>4 DEF Placed, Late
    <3>6. c < smp_online
      BY <2>1, <3>4
    <3> QED BY <2>2, <3>2, <3>5, <3>6, Zenon
  <2>4. enabled => cpu_alive[target] \/ target = 0
    BY <2>1, <2>2, Zenon DEF DevInv
  <2> QED BY <2>3, <2>4, Zenon DEF WorkersOnline
<1> QED BY <1>1, BootInvariant, PTL

(* Once the accelerator's interrupt is enabled or a worker runs, the       *)
(* device answers, may master the bus and knows its rings                  *)
(* (pci_find_dma_accel, accel_setup_queues).                               *)
THEOREM ReadyBeforeUse == Spec => []DeviceReady
<1>1. BootInv => DeviceReady
  <2> SUFFICES ASSUME BootInv, enabled \/ pc[0] = "run" PROVE DeviceReady
    BY Zenon DEF DeviceReady
  <2>1. step = "done" /\ out.found /\ regs = AccelRegs /\ Answers /\ PciInv
    BY Zenon DEF BootInv, DevInv
  <2> QED BY <2>1, FoundAnswers, Zenon DEF DeviceReady
<1> QED BY <1>1, BootInvariant, PTL

(* LOCK_OK is false for a sound lock only if a CPU came up after CPU 0 had *)
(* given up on it, however many CPUs and rounds (smp_lock_selftest).       *)
THEOREM VerdictSound == Spec => []SelftestVerdict
<1>1. BootInv => SelftestVerdict
  BY Zenon DEF BootInv, StInv
<1> QED BY <1>1, BootInvariant, PTL

(* No device decodes the sizing pattern (pci_bar0_size). *)
THEOREM SizingUnseen == Spec => []SizingHidden
<1>1. BootInv => SizingHidden
  BY PciInvImplies, Zenon DEF BootInv
<1> QED BY <1>1, BootInvariant, PTL

(* The first accelerator on the bus is found, with the size its BAR really *)
(* has, for every width of BAR0 (pci_find_dma_accel, pci_bar0_size).       *)
THEOREM ScanFindsFirst == Spec => []PciResult
<1>1. BootInv => PciResult
  BY PciInvImplies, Zenon DEF BootInv
<1> QED BY <1>1, BootInvariant, PTL

(* No step touches the BAR or the command register of any device but the   *)
(* first accelerator, a second accelerator included (pci_find_dma_accel    *)
(* returns at the first match).                                            *)
THEOREM OthersUntouched == Spec => OnlyAccelTouched
<1>1. BootInv /\ [Next]_vars =>
        [\A d \in Slot : FirstAccel(d) \/ UNCHANGED <<bar[d], command[d]>>]_pciVars
  <2> SUFFICES ASSUME BootInv, [Next]_vars, ~ UNCHANGED pciVars, NEW d \in Slot, ~ FirstAccel(d)
               PROVE  UNCHANGED <<bar[d], command[d]>>
    BY Zenon
  <2>1. pci_find_dma_accel \/ SetupAccel
    BY PciFrame, Zenon DEF vars, buildVars
  <2>2. PciInv
    BY Zenon DEF BootInv
  <2> QED BY <2>1, <2>2, PciTouches, Zenon DEF SetupAccel, accel_setup_queues
<1> QED BY <1>1, BootInvariant, PTL DEF Spec, OnlyAccelTouched
=============================================================================
