SPECIFICATION UsbSpec
CONSTANTS
  HalfPointers = 4
  Null = Null
  Devices = {d1, d2}
  Addrs = {3, 5}
  Shapes <- MCShapes
  NBuses = 2
  Locations <- MCLocations
  HandleAddrs = {2, 6}
  Free = Free
  ArrayLen = 2
  MaxSize = 3
  MaxKept = 1
INVARIANTS UsbTypeOK HandlesReach  ConfiguredOnce
INVARIANTS ErrorIsFresh ReadDelivers ResultTold ChangesKept BuffersBalance
PROPERTY OpensListed
SYMMETRY Symmetry
