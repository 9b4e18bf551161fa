CONSTANTS
  r1 = r1
  i1 = i1
  i2 = i2
  k1 = k1
  k2 = k2
  u1 = u1
  NoName = NoName
  Replicas <- OneReplica
  Ids <- OneId
  Checked <- OneChecked
  Unchecked <- OneUnchecked
  DesiredStates <- StopOrRun
  Specs <- StateSpecs
  ClientSteps <- Steps
  Components <- OneCheckedComponents
  NoComponent <- Nothing
  Observations <- RunStatuses
  NoObservation = ""
  Spellings <- MixedOnly
  MaxDisturbances = 0
SPECIFICATION Spec
PROPERTY StopsBeforeDelete
CHECK_DEADLOCK FALSE
