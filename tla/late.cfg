SPECIFICATION SessionSpec
CONSTANTS
  Conns = {c1}
  Listener = listener
  Lines <- FewLines
  MaxSends <- TwoEach
  SndCap = 4
  Tearing = FALSE
  AdcSizes = {2}
  AdcMayFail = TRUE
  DmSizes = {1}
  DataBlock = 2
  Solo = FALSE
  MayTimeOut = TRUE
INVARIANT AnswersTheCall
CHECK_DEADLOCK FALSE
