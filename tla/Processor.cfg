CONSTANTS
  r1 = r1
  i1 = i1
  i2 = i2
  k1 = k1
  k2 = k2
  u1 = u1
  NoName = NoName
  Replicas <- OneReplica
  Ids <- TwoIds
  Checked <- TwoChecked
  Unchecked <- OneUnchecked
  DesiredStates <- StopOrRun
  Specs <- RunSpecs
  ClientSteps <- Steps
  Components <- TwoCheckedComponents
  NoComponent <- Nothing
  Observations <- RunStatuses
  NoObservation = ""
  Spellings <- BothSpellings
  MaxDisturbances = 2
SPECIFICATION FairSpec
INVARIANTS
  ClientTypeOK
  RevisionsCurrent
  UpdateEstablishesSpec
PROPERTIES
  EventuallyApplied
  DeletionCompletes
CHECK_DEADLOCK FALSE
