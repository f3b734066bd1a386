SPECIFICATION FairSpec
CONSTANTS
  Tabs = {t1, t2}
  MaxLogins = 2
  MaxInFlight = 1
PROPERTIES DeadSessionNoticed
