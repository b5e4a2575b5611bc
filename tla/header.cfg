SPECIFICATION Spec
CONSTANT Lengths <- MCLengths
INVARIANTS TypeOK SafeIsUnderstood
CHECK_DEADLOCK FALSE
