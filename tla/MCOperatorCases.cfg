SPECIFICATION Spec
CONSTANTS
  agent = agent
  admin = admin
  Users = {agent, admin}
  NoUser = NoUser
  RolesOf <- MCRolesOf
  Cases = {c1}
  Patches <- MCPatches
  Workers = {w1, w2}
  MaxRecords = 2
SYMMETRY MCSymmetry
INVARIANTS TypeOK BooksFaithful CaseDutiesSeparated BooksComplete
CHECK_DEADLOCK FALSE
