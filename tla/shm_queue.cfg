SPECIFICATION FairSpec
CONSTANTS
    p1 = p1
    p2 = p2
    p3 = p3
    Proc = {p1, p2, p3}
    NumberBuffers = 2
    RingSize = 3
    Capacity = 2
    MaxPushes = 3
    Usages <- MCUsages
INVARIANTS BuffersDistinct NoLostWakeup OnlyStartledThrow
PROPERTIES ImplementsFifo EveryItemTaken
