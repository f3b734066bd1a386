SPECIFICATION FairSpec
CONSTANTS
  Users = {u1}
  Codes = {c1, c2}
  Verifiers = {v1, v2}
  Workers = {w1, w2, w3}
  NoWorker = NoWorker
  CodeTTL = 2
  MaxTime = 3
INVARIANTS SingleUse OneGuess DurableBeforeToken
PROPERTIES LocksReleased
CHECK_DEADLOCK FALSE
