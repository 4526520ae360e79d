SPECIFICATION FairSpec
CONSTANTS
  ann = ann
  bob = bob
  Rows = {r}
  Clients = {ann}
  Owner <- OwnerIsAnn
  Admins = {}
  Buffer = 1
  Slots = 1
  MaxEvents = 2
  MaxFaults = 1
 
 
PROPERTY SlowReaderRecovers
CHECK_DEADLOCK FALSE
