\* The increment is 1, and first mileages even and odd, so that the rest lost by halving counts.
CONSTANTS
    Nodes = {n1, n2}
    Tasks = {t1}
    MaxMessages = 2
    MaxRefusals = 0
    MaxRestarts = 1
    IncMileage = 1
    FirstMileages = {4, 5}
    Raws = {0, 4095}
    MaxHacks = 3
SPECIFICATION Spec
SYMMETRY Symmetry
INVARIANTS
    DeviceInv
    TurnBackNeedsHack
    HackShows
CHECK_DEADLOCK FALSE
