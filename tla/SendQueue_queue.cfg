\* Every order of reads and writes of list and flag, refused tasks, restarts.
CONSTANTS
    Nodes = {n1, n2, n3}
    Tasks = {t1, t2}
    MaxMessages = 5
    MaxRefusals = 1
    MaxRestarts = 1
SPECIFICATION FairQueueSpec
INVARIANTS
    OneSender
    SenderInv
    RaceInv
    LostOnlyInRace
PROPERTIES
    KeepsOrder
    FlagComesBack
CHECK_DEADLOCK FALSE
