CONSTANTS Reqs = {r}  Tick = tick  Pages = {page}  MaxRuns = 4  MaxTurns = 2
SPECIFICATION FairSpec
 
PROPERTY OutcomeOnce
 
PROPERTY SlotComesFree
CHECK_DEADLOCK FALSE
