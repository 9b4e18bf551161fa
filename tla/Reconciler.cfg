CONSTANTS
  r1 = r1
  r2 = r2
  i1 = i1
  i2 = i2
  i3 = i3
  a = a
  b = b
  NoName = NoName
  Replicas <- MCReplicas
  Ids <- MCIds
  Specs <- MCSpecs
  ClientSteps <- MCClientSteps
  MaxDisturbances = 2
SPECIFICATION ReconcilerSpec
SYMMETRY Symmetric
INVARIANTS
  AtMostOneManaged
  Accounted
  ReconcilerInv
PROPERTY LifecycleRefined
CHECK_DEADLOCK FALSE
