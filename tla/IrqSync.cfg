\* Two tasks of one CPU share the mutex and the queue; one of them waits for events.
CONSTANTS
    Task = {a, b}  NoTask = NoTask
    Lockers = {a, b}
    Listeners = {b}
    Senders = {a}
    Receivers = {b}
    Bits = {1, 2}  Masks = {{1, 2}}
    Item = {x, y}  NoItem = NoItem
    QUEUE_CAP = 2
SPECIFICATION FairSpec
INVARIANTS
    BlockedForAReason
    EventResult
PROPERTIES
    MutexAtomic
    QueueAtomic
    QueueServes
