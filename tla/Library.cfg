CONSTANTS Parents = {p, q}  PerParent = 1  Budget = 1  Grace = 1  MaxTurns = 2
SPECIFICATION FairSpec
PROPERTY GraceKept
PROPERTY ForgottenInTheEnd
