SPECIFICATION Spec
CONSTANTS
  Instances = {i1, i2}
  AccessTTL = 2
  JoinTTL = 3
  MaxTime = 8
  MaxChanges = 4
  MaxTokens = 2
SYMMETRY MCSymmetry
INVARIANTS RotationUnnoticed RetiredSecretUnused
CHECK_DEADLOCK FALSE
