SPECIFICATION SessionFairSpec
CONSTANTS
  Conns = {c1, c2}
  Listener = listener
  Lines <- CallLines
  MaxSends <- TwoEach
  SndCap = 4
  Tearing = FALSE
  AdcSizes = {0, 3}
  AdcMayFail = TRUE
  DmSizes = {3}
  DataBlock = 2
  Solo = TRUE
  MayTimeOut = FALSE
PROPERTY ImplementsExchange
CHECK_DEADLOCK FALSE
