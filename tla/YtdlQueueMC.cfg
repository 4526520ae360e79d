CONSTANTS
  NoUser = NoUser
  Users = {anna, bo, cy}
  MaxParallel = 2
  MaxQueued = 4
SPECIFICATION Spec
INVARIANT NoSlotIdles
INVARIANT SlotsRotate
INVARIANT OwnOrderKept
INVARIANT AdmitIsRoundRobin
CHECK_DEADLOCK FALSE
