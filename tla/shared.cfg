SPECIFICATION Spec
CONSTANTS
  Conns = {c1, c2}
  Listener = listener
  Lines <- LinkLines
  MaxSends <- TwoEach
  SndCap = 4
  Tearing = FALSE
  AdcSizes = {0, 3}
  AdcMayFail = TRUE
  DmSizes = {1}
  DataBlock = 2
INVARIANTS TypeOK SelectedStillReady FlagsBacked AnsweredAsRead LoneClientKeepsServer FramesWhole RepliesInOrder
SYMMETRY ConnSymmetry
CHECK_DEADLOCK FALSE
