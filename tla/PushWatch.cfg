CONSTANTS
  None = None
  Users = {bob}
  AdminUsers = {}
  Names = {n}
  Folders = {f}
  MaxTasks = 2
  MaxEvents = 3
  MaxFaults = 1
SPECIFICATION FairSpec
 
INVARIANT AnnouncedOnce
INVARIANT SizesNotDoubled
PROPERTY FinishIsTold
CHECK_DEADLOCK FALSE
