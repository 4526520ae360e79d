CONSTANTS Nama = {n}  Zar = {z}  Calls = {c}  Keeper = keeper
          FailThreshold = 2  CoolOff = 3  Steady = {n}  MaxMaterial = 2  MaxTurns = 2
SPECIFICATION FairSpec
INVARIANT CondemnedHasFailed
PROPERTY SelfHeals
CHECK_DEADLOCK FALSE
