SPECIFICATION Spec
CONSTANTS
  red = red
  axa = axa
  insureMe = insureMe
  r1 = r1
  r2 = r2
  vinRed = vinRed
  vinOther = vinOther
  t1 = t1
  t2 = t2
  Cars <- MCCars
  Insurers <- MCInsurers
  InsureMe <- insureMe
  Vins <- MCVins
  Terms <- MCTerms
  EventPosts <- AllPosts
  PolicyPosts <- AllPolicies
  PolicyNodes <- MCCars
  Requests <- OneRequest
  SnapshotReads = TRUE
  Unreliable = TRUE
  MaxEvents = 3
  MaxCarTxs = 3
INVARIANTS
  PostInv
  PolicyInv
  AckedTurnBackFlagged
  AckedAccidentCounted
  AckedEventKeepsPolicy
  AckedPolicyApplied
  OneChainPerNode

