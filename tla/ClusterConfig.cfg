CONSTANTS
  u1 = u1
  u2 = u2
  NoSecret = NoSecret
  Users <- TwoUsers
  Kind = "ClusterProviderConfig"
  Secrets <- SixSecrets
  MaxDisturbances = 0
SPECIFICATION Spec
INVARIANTS
  UsersKeepConfig
CHECK_DEADLOCK FALSE
