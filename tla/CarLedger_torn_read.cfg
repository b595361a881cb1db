SPECIFICATION Spec
CONSTANTS
  red = red
  axa = axa
  insureMe = insureMe
  r1 = r1
  r2 = r2
  vinRed = vinRed
  vinOther = vinOther
  t1 = t1
  t2 = t2
  Cars <- MCCars
  Insurers <- MCInsurers
  InsureMe <- insureMe
  Vins <- MCVins
  Terms <- MCTerms
  EventPosts <- MileagePosts
  PolicyPosts <- OnePolicy
  PolicyNodes <- MCCars
  Requests <- TwoRequests
  SnapshotReads = FALSE
  Unreliable = FALSE
  MaxEvents = 3
  MaxCarTxs = 4
INVARIANTS
  FraudJustified

