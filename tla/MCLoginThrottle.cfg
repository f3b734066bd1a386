SPECIFICATION Spec
CONSTANTS
  Workers = {w1, w2, w3}
  MaxFailures = 3
  Lockout = 2
  FailTTL = 3
  MaxTime = 4
  MaxEvents = 2
SYMMETRY MCSymmetry
INVARIANTS TypeOK GuessesBounded FailCountExpires
PROPERTIES BlocksNotExtended
