\* Interrupts may be lost.
CONSTANTS
    NUM_WORKERS = 2
    DMA_ACCEL_QUEUE_DEPTH = 4
    Builds = {FALSE}
    Statuses = {"ok"}
SPECIFICATION FairSpec
CHECK_DEADLOCK FALSE
PROPERTIES
    AllWorkersFinish
