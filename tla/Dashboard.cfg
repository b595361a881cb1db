\* Overlapping reloads and posts, the car's device, lost sockets and failures.
CONSTANTS
    FirstMileage = 2
    Increments = {1}
    Decrement = 1
    MaxPosts = 2
SPECIFICATION Spec
INVARIANTS
    PageInv
    BehindWithReason
    AccusedWithReason
PROPERTIES
    CatchesUp
CONSTRAINT StillClaims
CHECK_DEADLOCK FALSE
