SPECIFICATION Spec
CONSTANTS
  MaxHelpers = 2
  MaxMounts = 2
  MaxLogins = 2
  MaxTokens = 3
CHECK_DEADLOCK FALSE
INVARIANT RotationsPersisted
