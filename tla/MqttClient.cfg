CONSTANTS
    MaxMessages = 3
    MaxRestarts = 1
SPECIFICATION Spec
INVARIANTS
    ClientInv
    ConfirmedArrived
    GoodInv
    GoodStartArrives
PROPERTIES
    HubOrder
    SendEnds
CHECK_DEADLOCK FALSE
