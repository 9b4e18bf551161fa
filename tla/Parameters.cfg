CONSTANTS
  r1 = r1
  i1 = i1
  i2 = i2
  k1 = k1
  u1 = u1
  p1 = p1
  p2 = p2
  v1 = v1
  v2 = v2
  d1 = d1
  d2 = d2
  Blank = Blank
  Unset = Unset
  NoName = NoName
  Ids <- TwoIds
  ClientSteps <- ContextSteps
  NoComponent <- Nothing
  Observations <- NoObservations
  NoObservation = NoObservation
  Replicas <- OneReplica
  Checked <- OneChecked
  Unchecked <- OneUnchecked
  ParameterNames <- TwoNames
  Values <- TwoValues
  Descriptions <- ThreeDescriptions
  Specs <- FourSpecs
  Components <- SomeContexts
  MaxDisturbances = 2
SPECIFICATION FairSpec
INVARIANTS
  UpToDateMeansMatching
  UpdateEstablishesSpec
PROPERTIES
  ImplementsReconciler
  EventuallyApplied
CHECK_DEADLOCK FALSE
