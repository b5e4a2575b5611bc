SPECIFICATION Spec
CONSTANTS
  Conns = {c1, c2}
  Listener = listener
  Lines <- LinkLines
  MaxSends <- TwoEach
  SndCap = 4
  Tearing = FALSE
  AdcSizes = {3}
  AdcMayFail = FALSE
  DmSizes = {1}
  DataBlock = 2
INVARIANT AdcGetsFrame
CHECK_DEADLOCK FALSE
