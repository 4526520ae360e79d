CONSTANTS
  NoUser = NoUser
  NoKey = NoKey
  Pages = {}
  Users = {anna}
  Videos = {v}
  Lists = {l}
  Links = {l}
  Causes = {"refused"}
  MaxParallel = 1
  AutoAttempts = 2
  MaxRequests = 2
  MaxAttempts = 2
  MaxSeq = 5
  MaxFaults = 1
SPECIFICATION FairSpec
PROPERTY Settles
PROPERTY GroupsAgree
PROPERTY FinishedJobsGo
CHECK_DEADLOCK FALSE
