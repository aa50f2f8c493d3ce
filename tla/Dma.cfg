\* Two workers in both builds, commands that fail, and interrupts delivered or not.
CONSTANTS
    NUM_WORKERS = 2
    DMA_ACCEL_QUEUE_DEPTH = 4
    Builds = {FALSE, TRUE}
    Statuses = {"ok", "error"}
SPECIFICATION FairSpec
CHECK_DEADLOCK FALSE
INVARIANTS
    NoCompletionDropped
    PostedOnce
    RightResult
    NoStrandedCompletion
PROPERTIES
    AllFinishIfDelivered
    OnePollerSuffices
    LineReleasedIfOk
