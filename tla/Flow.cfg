CONSTANTS
  r1 = r1
  i1 = i1
  i2 = i2
  NoName = NoName
  Versions <- TwoVersions
  Latest = 2
  DesiredStates <- BothStates
  Specs <- FlowSpecs
  ClientSteps <- FlowSteps
  Components <- FlowComponents
  NoComponent <- Nothing
  Observations <- FlowObservations
  NoObservation = NoObservation
  Replicas <- OneReplica
  Ids <- TwoIds
  MaxDisturbances = 1
SPECIFICATION FairSpec
INVARIANT UpdateEstablishesSpec
PROPERTIES
  ImplementsReconciler
  EventuallyApplied
  DeletionCompletes
CHECK_DEADLOCK FALSE
