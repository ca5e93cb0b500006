SPECIFICATION Spec
CONSTANTS
  r1 = r1
  Rooms = {r1}
  Configs <- MCConfigs
  MaxTokens = 2
  MaxForeign = 1
  MaxRestarts = 1
INVARIANTS FailureLeavesNothing CredentialsAreOneSession
PROPERTIES IdentityKept
CHECK_DEADLOCK FALSE
