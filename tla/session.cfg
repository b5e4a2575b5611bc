SPECIFICATION SessionSpec
CONSTANTS
  Conns = {c1, c2}
  Listener = listener
  Lines <- FewLines
  MaxSends <- TwoEach
  SndCap = 3
  Tearing = FALSE
  AdcSizes = {2}
  AdcMayFail = FALSE
  DmSizes = {1}
  DataBlock = 2
  Solo = FALSE
  MayTimeOut = TRUE
INVARIANTS SessionTypeOK OwnAnswer NothingLeft
SYMMETRY ConnSymmetry
CHECK_DEADLOCK FALSE
