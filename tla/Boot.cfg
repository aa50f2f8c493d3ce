\* Three CPUs, every build, CPUs refused, late or missing; queues as short as can be.
CONSTANTS
    MAX_CPUS = 3
    MAX_TASKS = 5
    NUM_WORKERS = 3
    SELFTEST_N = 2
    SelftestBuilds = {FALSE, TRUE}
    Undefined = Undefined
    DmaIrqCpus = {Undefined, 1}
    Refusals = TRUE
    Machines <- MCSlots
    Empty = Empty
    NUM_SLOTS = 3
    BAR_WIDTH = 8
    PCIE_MMIO32_BASE = 128
SPECIFICATION FairSpec
INVARIANTS
    TypeOK
    IrqsFindQueue
    QueuesComplete
    OnlineInOrder
    DeviceReady
    SelftestVerdict
    SizingHidden
    PciResult
PROPERTIES
    BootFinishes
    OnlyAccelTouched
