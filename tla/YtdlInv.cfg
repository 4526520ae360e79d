CONSTANTS
  NoUser = NoUser
  NoKey = NoKey
  Pages = {p}
  Users = {anna}
  Videos = {v}
  Lists = {l}
  Links = {l}
  Causes = {"refused"}
  MaxParallel = 1
  AutoAttempts = 2
  MaxRequests = 2
  MaxAttempts = 2
  MaxSeq = 5
  MaxFaults = 1
SPECIFICATION Spec
INVARIANT IInv
INVARIANT NeverClaimsUnsaved
 
 
PROPERTY EvidenceKept
CHECK_DEADLOCK FALSE
