SPECIFICATION Spec
CONSTANTS
  Tabs = {t1, t2}
  MaxLogins = 2
  MaxInFlight = 2
SYMMETRY MCSymmetry
INVARIANTS TypeOK NoCsrfRefusal TimerFollowsSignIn NoMenuWhenSignedOut
