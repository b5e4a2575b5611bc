SPECIFICATION VdsSpec
CONSTANTS
  Ports = {0, 5188, 5189, 5190}
  Taken = {5190}
  MaxServers = 3
  Times = {0, 1, 2}
  MaxNotices = 3
  OwnUpdates = 2
INVARIANTS VdsTypeOK ReplacedIsClosed SavedPortIsCurrent 
INVARIANTS KeptShown StaysOff
PROPERTIES BindFailsForOthers  NoticesEnd
CHECK_DEADLOCK FALSE
