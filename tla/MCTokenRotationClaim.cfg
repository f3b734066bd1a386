SPECIFICATION Spec
CONSTANTS
  Instances = {i1, i2}
  AccessTTL = 2
  JoinTTL = 3
  MaxTime = 6
  MaxChanges = 4
  MaxTokens = 2
SYMMETRY MCSymmetry
INVARIANTS OldTokensExpired
CHECK_DEADLOCK FALSE
