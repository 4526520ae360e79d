CONSTANTS
  None = None
  Callers = {c1, c2}
  Admins = {a}
  Wizards = {w}
  Nas = {n1, n2}
  TwoFactor = {n2}
  MaxEdits = 2
  MaxExpiries = 1
  MaxFaults = 1
SPECIFICATION FairSpec
INVARIANT SessionMatchesConnection
INVARIANT StoredConnectionWorks
PROPERTY KeepsWorking
CHECK_DEADLOCK FALSE
