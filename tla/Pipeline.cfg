CONSTANTS
  r1 = r1
  i1 = i1
  k1 = k1
  u1 = u1
  f1 = f1
  v1 = v1
  Unset = Unset
  NoName = NoName
  NoObservation = ""
  Replicas <- OneReplica
  Ids <- OneId
  Checked <- OneChecked
  Unchecked <- OneUnchecked
  DesiredStates <- ToRun
  Spellings <- BothSpellings
  PSpecs <- OneSpec
  PSteps <- ProcessorSteps
  PComponents <- Processors
  PNothing <- NoProcessor
  PObservations <- RunStatuses
  Fields <- OneField
  Values <- OneValue
  Default = v1
  CSpecs <- OneConnection
  CSteps <- ConnectionSteps
  CComponents <- Connections
  CNothing <- NoConnection
  MaxCrashes = 1
SPECIFICATION PipelineSpec
INVARIANT NoneLeftBehind
PROPERTIES
  PipelineGoes
  StrandedForGood
CHECK_DEADLOCK FALSE
