SPECIFICATION AllSpec
CONSTANTS
  Founder = u0
  Users = {u0, u1, u2}
  NoUser = NoUser
  Subjects = {s1}
  FounderEmail = e0
  Emails = {e0, e1}
  Invites = {i1, i2}
  Roles = {"support"}
  Workers = {w1, w2}
  NoWorker = NoWorker
  InviteTTL = 1
  MaxTime = 1
SYMMETRY MCSymmetry
INVARIANTS IdentityTypeOK AcceptanceAtomic SubjectHasOneUser NoStrayUsers DeletionSuspends
CHECK_DEADLOCK FALSE
PROPERTIES ImplementsDirectory
