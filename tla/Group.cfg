CONSTANTS
  r1 = r1
  i1 = i1
  i2 = i2
  k1 = k1
  k2 = k2
  u1 = u1
  NoName = NoName
  Ids <- TwoIds
  DesiredStates <- EveryState
  ClientSteps <- GroupSteps
  NoComponent <- Nothing
  Observations <- Counts
  NoObservation = NoObservation
  Replicas <- OneReplica
  Checked <- TwoChecked
  Unchecked <- OneUnchecked
  Specs <- TwoSpecs
  Components <- TwoComponents
  MaxDisturbances = 2
SPECIFICATION FairSpec
INVARIANTS
  UpdateEstablishesSpec
  StopsBeforeDelete
PROPERTIES
  ImplementsReconciler
  EventuallyApplied
  DeletionCompletes
CHECK_DEADLOCK FALSE
