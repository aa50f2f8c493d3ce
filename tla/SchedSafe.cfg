\* Default build, two CPUs: all safety properties.
CONSTANTS
    w0 = w0  w1 = w1  w2 = w2  busy = busy  idle1 = idle1  idle2 = idle2  ping = ping
    s0 = s0  s1 = s1  NoTask = NoTask  NoSem = NoSem  NoCpu = NoCpu
    SMP_ONLINE = 2
    Task = {w0, w1, w2, idle1}
    Sem = {s0, s1}
    InitQueue <- SafeQueues
    Pinned = {}
    Yields = {w1}
    Waits <- SafeWaits
    Posts <- SafePosts
    Polls = {w1}
    DMA_IRQ_CPU = 0
    DmaSems = {s0}
    NUM_WORKERS = 2
    POLICY = "load_aware"
    LOAD_BALANCE_SELFTEST = FALSE
    LB_PERIOD = 1
    MaxCount = 1
    EWMA_ALPHA_NUM = 1
    EWMA_ALPHA_DEN = 2
    EWMA_SCALE = 2
    MAX_TASKS = 8
SPECIFICATION Spec
INVARIANTS
    StackIntegrity
    IrqWindow
    NoLostWakeup
    NoDeadlock
    IInv
PROPERTIES
    SemaphoreAtomic
