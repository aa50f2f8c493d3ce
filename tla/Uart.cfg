\* Two CPUs, task and interrupt context on each, a transmit FIFO of two.
CONSTANTS
    CPU = {0, 1}
    Value <- MCValue
    NoValue = NoValue
    FIFO_DEPTH = 2
SPECIFICATION UartSpec
INVARIANTS
    LinesWhole
PROPERTIES
    LockAtomic
    LockNotLeftFree
    PrintersReturn
