SPECIFICATION FairSpec
CONSTANTS
    Producers = {p1, p2}
    Consumers = {c1}
    Values = {v1, v2}
    MaxEntries = 3
    NoThread = NoThread
INVARIANTS
    TypeOK
    NoLostWakeup
PROPERTIES
    ImplementsQueue
    FullRingDrains
