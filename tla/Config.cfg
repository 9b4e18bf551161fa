CONSTANTS
  u1 = u1
  u2 = u2
  NoSecret = NoSecret
  Users <- OneUser
  Kind = "ProviderConfig"
  Secrets <- SixSecrets
  MaxDisturbances = 3
SPECIFICATION FairSpec
INVARIANTS
  ConfigInv
  UsersKeepConfig
PROPERTIES
  ConfigGoes
  ResourceGoes
  UsersReported
CHECK_DEADLOCK FALSE
