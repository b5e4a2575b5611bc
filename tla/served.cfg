SPECIFICATION FairSpec
CONSTANTS
  Conns = {c1, c2}
  Listener = listener
  Lines <- LiveLines
  MaxSends <- TwoAndOne
  SndCap = 4
  Tearing = TRUE
  AdcSizes = {2}
  AdcMayFail = TRUE
  DmSizes = {1}
  DataBlock = 2
PROPERTY Served
CHECK_DEADLOCK FALSE
