CONSTANTS
  r1 = r1
  i1 = i1
  i2 = i2
  i3 = i3
  k1 = k1
  k2 = k2
  u1 = u1
  NoName = NoName
  Replicas <- OneReplica
  Ids <- ThreeIds
  Checked <- TwoChecked
  Unchecked <- OneUnchecked
  DesiredStates <- BothStates
  Specs <- TwoSpecs
  ClientSteps <- ServiceSteps
  Components <- TwoComponents
  NoComponent <- Nothing
  Observations <- States
  NoObservation = ""
  MaxDisturbances = 2
SPECIFICATION FairSpec
INVARIANTS
  RevisionsCurrent
  DisabledForChange
  UpdateEstablishesSpec
PROPERTIES
  ImplementsReconciler
  EventuallyApplied
  DeletionCompletes
CHECK_DEADLOCK FALSE
