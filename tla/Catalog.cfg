CONSTANTS Nama = {n}  Zar = {z}  Genres = {g}  Users = {anna}  MaxTurns = 2  MaxPage = 2
SPECIFICATION Spec
INVARIANT SheetResolves
INVARIANT NeverPoured
INVARIANT MergeIsFair
CHECK_DEADLOCK FALSE
