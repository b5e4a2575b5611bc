SPECIFICATION Spec
CONSTANTS
  Ports = {5188, 5189}
  Taken = {}
  MaxServers = 2
PROPERTY DmAsAsked
CHECK_DEADLOCK FALSE
