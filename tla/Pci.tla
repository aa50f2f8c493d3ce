-------------------------------- MODULE Pci ---------------------------------
(***************************************************************************)
(* The first thing kernel_main does: pci_find_dma_accel scans the slots of *)
(* bus 0, sizes and assigns the accelerator's BAR0 and turns the device    *)
(* on; accel_init and accel_setup_queues then register the rings.  Boot    *)
(* composes this with the rest of bring-up.                                *)
(*                                                                         *)
(* The slots' configuration registers are external: a BAR keeps the bits   *)
(* of what is written that its size allows, and its type flags.            *)
(***************************************************************************)
EXTENDS Integers

CONSTANTS
    Machines,          \* what may be in the slots of bus 0
    Empty,
    NUM_SLOTS,         \* 32
    BAR_WIDTH,         \* 32
    PCIE_MMIO32_BASE

Slot == 0..(NUM_SLOTS - 1)

Device == [vendor : {"0x1234", "other"}, device : {"0xda00", "other"}, size : Nat, flags : 0..15,
           pin : 0..4, bar : Nat, command : SUBSET {"io", "memory", "bus_master"}]

(* A BAR's size is zero or a power of two (a divisor of 2^BAR_WIDTH), from *)
(* 16 bytes up, and PCIE_MMIO32_BASE is aligned to it.                     *)
ASSUME PciAssumption ==
    /\ NUM_SLOTS \in Nat /\ BAR_WIDTH \in Nat /\ 2^BAR_WIDTH \in Nat
    /\ PCIE_MMIO32_BASE \in 0..(2^BAR_WIDTH - 1)
    /\ \A m \in Machines, d \in Slot : m[d] # Empty =>
          /\ m[d] \in Device /\ m[d].bar < 2^BAR_WIDTH
          /\ m[d].size # 0 =>
                /\ m[d].size < 2^BAR_WIDTH /\ m[d].size % 16 = 0 /\ 2^BAR_WIDTH % m[d].size = 0
                /\ PCIE_MMIO32_BASE % m[d].size = 0

(* The accelerator has a BAR0. *)
ASSUME AccelAssumption ==
    \A m \in Machines, d \in Slot :
        m[d] # Empty /\ m[d].vendor = "0x1234" /\ m[d].device = "0xda00" => m[d].size # 0

VARIABLES
    slots,            \* the machine
    command, bar,     \* per slot: PCI_COMMAND and PCI_BAR0
    step, dev,        \* where pci_find_dma_accel is, and its loop index
    orig, mask,       \* the locals of pci_bar0_size
    out,              \* the pci_dev_t it returns
    regs              \* accelerator registers accel_setup_queues has set

pciVars == <<slots, command, bar, step, dev, orig, mask, out, regs>>

NoSpi == -1
Nothing == [found |-> FALSE, dev |-> 0, bar0_size |-> 0, bar0_phys |-> 0,
            bar0_readback |-> 0, gic_spi |-> NoSpi]

AccelRegs == {"SQ_BASE", "SQ_SIZE", "CQ_BASE", "CQ_SIZE", "IRQ_MASK"}

PciInit ==
    /\ slots \in Machines
    /\ command = [d \in Slot |-> IF slots[d] = Empty THEN {} ELSE slots[d].command]
    /\ bar = [d \in Slot |-> IF slots[d] = Empty THEN 0 ELSE slots[d].bar]
    /\ step = "scan" /\ dev = 0
    /\ orig = 0 /\ mask = 0
    /\ out = Nothing
    /\ regs = {}

(* What BAR0 of the device in slot d keeps of v (external). *)
WriteBar(d, v) ==
    bar' = [bar EXCEPT ![d] = IF slots[d].size = 0 THEN 0
                              ELSE (v - (v % slots[d].size)) + slots[d].flags]

Swizzled(d) == IF slots[d].pin \in 1..4 THEN 3 + ((d + slots[d].pin - 1) % 4) ELSE NoSpi

-----------------------------------------------------------------------------
(* Plausible mistakes, none of them part of pci_find_dma_accel below.      *)

(* Bit 0 of the command register is taken for memory decode. *)
DecodeOffIo ==
    /\ step = "decode_off"
    /\ command' = [command EXCEPT ![dev] = @ \ {"io"}]
    /\ step' = "size_ones"
    /\ UNCHANGED <<slots, bar, dev, orig, mask, out, regs>>

TurnOnIo ==
    /\ step = "turn_on"
    /\ command' = [command EXCEPT ![dev] = @ \cup {"io", "bus_master"}]
    /\ step' = "done"
    /\ out' = [out EXCEPT !.gic_spi = Swizzled(dev)]
    /\ UNCHANGED <<slots, bar, dev, orig, mask, regs>>

(* The loop goes on to the next slot instead of returning. *)
TurnOnGoesOn ==
    /\ step = "turn_on"
    /\ command' = [command EXCEPT ![dev] = @ \cup {"memory", "bus_master"}]
    /\ out' = [out EXCEPT !.gic_spi = Swizzled(dev)]
    /\ step' = "scan" /\ dev' = dev + 1
    /\ UNCHANGED <<slots, bar, orig, mask, regs>>

(* The flag bits are taken for size bits. *)
BarSizeUnmasked == IF mask = 0 THEN 0 ELSE 2^BAR_WIDTH - mask

-----------------------------------------------------------------------------
IsAccel(d) == slots[d] # Empty /\ slots[d].vendor = "0x1234" /\ slots[d].device = "0xda00"

ScanNext ==
    /\ step = "scan" /\ dev < NUM_SLOTS
    /\ ~ IsAccel(dev)
    /\ dev' = dev + 1
    /\ UNCHANGED <<slots, command, bar, step, orig, mask, out, regs>>

ScanFound ==
    /\ step = "scan" /\ dev < NUM_SLOTS
    /\ IsAccel(dev)
    /\ out' = [out EXCEPT !.found = TRUE, !.dev = dev]
    /\ step' = "decode_off"
    /\ UNCHANGED <<slots, command, bar, dev, orig, mask, regs>>

ScanEnd ==
    /\ step = "scan" /\ dev = NUM_SLOTS
    /\ step' = "done"
    /\ UNCHANGED <<slots, command, bar, dev, orig, mask, out, regs>>

DecodeOff ==
    /\ step = "decode_off"
    /\ command' = [command EXCEPT ![dev] = @ \ {"memory"}]
    /\ step' = "size_ones"
    /\ UNCHANGED <<slots, bar, dev, orig, mask, out, regs>>

SizeOnes ==
    /\ step = "size_ones"
    /\ orig' = bar[dev]
    /\ WriteBar(dev, 2^BAR_WIDTH - 1)
    /\ step' = "size_restore"
    /\ UNCHANGED <<slots, command, dev, mask, out, regs>>

SizeRestore ==
    /\ step = "size_restore"
    /\ mask' = bar[dev]
    /\ WriteBar(dev, orig)
    /\ step' = "assign"
    /\ UNCHANGED <<slots, command, dev, orig, out, regs>>

(* (~mask) + 1, without the low four bits. *)
BarSize == IF mask - (mask % 16) = 0 THEN 0 ELSE 2^BAR_WIDTH - (mask - (mask % 16))

(* The size is decoded, and BAR0 gets its address and is read back. *)
Assign ==
    /\ step = "assign"
    /\ WriteBar(dev, PCIE_MMIO32_BASE)
    /\ out' = [out EXCEPT !.bar0_size = BarSize, !.bar0_phys = PCIE_MMIO32_BASE,
                          !.bar0_readback = bar'[dev]]
    /\ step' = "turn_on"
    /\ UNCHANGED <<slots, command, dev, orig, mask, regs>>

TurnOn ==
    /\ step = "turn_on"
    /\ command' = [command EXCEPT ![dev] = @ \cup {"memory", "bus_master"}]
    /\ out' = [out EXCEPT !.gic_spi = Swizzled(dev)]
    /\ step' = "done"
    /\ UNCHANGED <<slots, bar, dev, orig, mask, regs>>

pci_find_dma_accel ==
    ScanNext \/ ScanFound \/ ScanEnd \/ DecodeOff \/ SizeOnes \/ SizeRestore \/ Assign \/ TurnOn

(* The device answers at the address the driver uses (external). *)
Answers == "memory" \in command[out.dev] /\ bar[out.dev] - slots[out.dev].flags = out.bar0_phys

(* Through g_bar0; a write that no device answers to has no effect. *)
accel_setup_queues ==
    /\ regs' = IF Answers THEN AccelRegs ELSE regs
    /\ UNCHANGED <<slots, command, bar, step, dev, orig, mask, out>>

-----------------------------------------------------------------------------
PciTypeOK ==
    /\ slots \in Machines
    /\ command \in [Slot -> SUBSET {"io", "memory", "bus_master"}]
    /\ bar \in [Slot -> 0..(2^BAR_WIDTH - 1)] /\ dev \in 0..NUM_SLOTS
    /\ out.bar0_size \in 0..(2^BAR_WIDTH - 1) /\ regs \subseteq AccelRegs

(* No device decodes memory while its BAR0 holds the sizing pattern: its   *)
(* address is the one it had before or the one it is given                 *)
(* (pci_find_dma_accel, pci_bar0_size).                                    *)
SizingHidden ==
    \A d \in Slot : "memory" \in command[d] =>
        bar[d] - slots[d].flags \in {slots[d].bar - slots[d].flags, PCIE_MMIO32_BASE}

(* The first accelerator in slot order is found if there is one, with its  *)
(* real BAR size and, in slots 2, 6, ... on pin INTA, the interrupt the    *)
(* kernel uses (DMA_ACCEL_IRQ_ID 37 is SPI 5).                             *)
PciResult ==
    step = "done" =>
        /\ out.found <=> \E d \in Slot : IsAccel(d)
        /\ out.found =>
              /\ IsAccel(out.dev) /\ \A d \in Slot : IsAccel(d) => out.dev <= d
              /\ out.bar0_size = slots[out.dev].size
              /\ out.dev % 4 = 2 /\ slots[out.dev].pin = 1 => out.gic_spi = 5

(* The slots that hold an accelerator, by the IDs it is documented with,   *)
(* and the first of them.                                                  *)
Accels == {d \in Slot : slots[d] # Empty /\ slots[d].vendor = "0x1234" /\ slots[d].device = "0xda00"}
FirstAccel(d) == d \in Accels /\ \A e \in Accels : d <= e

(* pci_find_dma_accel configures the first accelerator and returns: every  *)
(* other device, a second accelerator included, is left as it was.         *)
OnlyAccelTouched ==
    [][\A d \in Slot : FirstAccel(d) \/ UNCHANGED <<bar[d], command[d]>>]_pciVars
=============================================================================
