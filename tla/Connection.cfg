CONSTANTS
  r1 = r1
  i1 = i1
  i2 = i2
  f1 = f1
  v1 = v1
  v2 = v2
  u1 = u1
  u2 = u2
  Unset = Unset
  NoName = NoName
  Ids <- TwoIds
  ClientSteps <- ConnectionSteps
  NoComponent <- Nothing
  Observations <- NoObservations
  NoObservation = NoObservation
  Replicas <- OneReplica
  Fields <- OneField
  Values <- TwoValues
  Default = v1
  Unchecked <- TwoUnchecked
  Specs <- ThreeSpecs
  Components <- EveryComponent
  MaxDisturbances = 2
SPECIFICATION FairSpec
INVARIANT UpdateEstablishesSpec
PROPERTIES
  ImplementsReconciler
  EventuallyApplied
  DeletionCompletes
CHECK_DEADLOCK FALSE
