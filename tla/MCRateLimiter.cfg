SPECIFICATION LimiterSpec
CONSTANTS
  Rpm = 2
  Win = 3
  KeyTTL = 4
  SweepAge = 4
  Lag = 1
  LastTime = 9
  MaxCount = 3
INVARIANTS LimiterTypeOK LocalRate SharedRate RefusalsJustified
