\* CPU 1 may be refused while CPU 2 comes up.
CONSTANTS
    MAX_CPUS = 3
    MAX_TASKS = 5
    NUM_WORKERS = 3
    SELFTEST_N = 2
    SelftestBuilds = {FALSE, TRUE}
    Undefined = Undefined
    DmaIrqCpus = {Undefined, 1}
    Refusals = TRUE
    Machines <- DocSlots
    Empty = Empty
    NUM_SLOTS = 3
    BAR_WIDTH = 8
    PCIE_MMIO32_BASE = 128
SPECIFICATION Spec
INVARIANTS
    WorkersPlacedOnline
