CONSTANTS MaxUsers = 2  Tokens = {t1, t2}  Wizards = {w1, w2}  Pages = {p, q}
          StreamMax = 1  MaxAsks = 2  MaxFaults = 1  None = None
SPECIFICATION FairSpec
INVARIANT AdminRemains
INVARIANT SetupLeavesAWay
INVARIANT LockedOut
 
CHECK_DEADLOCK FALSE
