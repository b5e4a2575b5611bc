SPECIFICATION Spec
CONSTANTS
  NVolts = 3
  HalfRange <- MCHalfRange
  NCouplings = 2
  ZeroInputs <- MCZeroInputs
  WaveformZeros <- MCWaveformZeros
  MaxTodo = 2
INVARIANTS
  TypeOK
  ZeroInRange
  MachineAgrees
  ThresholdFollows
  ThresholdChain
PROPERTY
  ChoiceKept
