\* Commands that fail.
CONSTANTS
    NUM_WORKERS = 2
    DMA_ACCEL_QUEUE_DEPTH = 4
    Builds = {FALSE}
    Statuses = {"error"}
SPECIFICATION FairSpec
CHECK_DEADLOCK FALSE
PROPERTIES
    LineReleased
