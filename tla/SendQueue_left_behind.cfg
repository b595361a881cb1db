\* A message pushed between the last test and the clearing of the flag.
CONSTANTS
    Nodes = {n1, n2, n3}
    Tasks = {t1, t2}
    MaxMessages = 2
    MaxRefusals = 0
    MaxRestarts = 0
SPECIFICATION FairQueueSpec
PROPERTIES
    ListDrains
CHECK_DEADLOCK FALSE
