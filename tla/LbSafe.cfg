\* Load balancing build: what holds in spite of the migration race.
CONSTANTS
    w0 = w0  w1 = w1  w2 = w2  busy = busy  idle1 = idle1  idle2 = idle2  ping = ping
    s0 = s0  s1 = s1  NoTask = NoTask  NoSem = NoSem  NoCpu = NoCpu
    SMP_ONLINE = 3
    Task = {w1, busy, idle1, idle2, ping}
    Sem = {s1}
    InitQueue <- LbQueues
    Pinned = {ping}
    Yields = {}
    Waits <- W1Waits
    Posts = {}
    Polls = {}
    DMA_IRQ_CPU = 2
    DmaSems = {s1}
    NUM_WORKERS = 1
    POLICY = "load_aware"
    LOAD_BALANCE_SELFTEST = TRUE
    LB_PERIOD = 2
    MaxCount = 1
    EWMA_ALPHA_NUM = 1
    EWMA_ALPHA_DEN = 2
    EWMA_SCALE = 2
    MAX_TASKS = 8
SPECIFICATION Spec
INVARIANTS
    NoLostWakeup
    NoDeadlock
    QueuesPartitionTasks
