SPECIFICATION Spec
CONSTANTS
  root = root
  admin1 = admin1
  admin2 = admin2
  NoUser = NoUser
  Users = {root, admin1, admin2}
  RolesOf <- MCRolesOf
  Requests = {r1}
  Workers = {w1, w2}
  NoWorker = NoWorker
SYMMETRY MCSymmetry
INVARIANTS FourEyes AcknowledgedIsDone PendingMeansFirst NoOrphanedLock
PROPERTIES ApprovalsStand ImplementsDualControl
CHECK_DEADLOCK FALSE
