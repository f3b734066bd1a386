SPECIFICATION FairSpec
CONSTANTS
  Users = {u1}
  SessionIds = {s1, s2}
  Workers = {w1, w2}
  IdleTTL = 2
  AbsTTL = 3
  MaxTime = 2
  MaxChanges = 1
INVARIANTS SessionLifetime SessionsPredatingChangeDie
PROPERTIES RevokedRowsFrozen DeletionTakesEffect RevocationTakesEffect
CHECK_DEADLOCK FALSE
