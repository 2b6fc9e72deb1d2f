SPECIFICATION Spec
CONSTANTS
  dir = dir
  a = a
  b = b
  Never = Never
  Names <- MCNames
  Up <- MCUp
  Durations <- MCDurations
  MaxTime = 1
  MaxToken = 3
INVARIANT TypeOK Exclusive
PROPERTY Promise
SYMMETRY Symmetry
VIEW LockState
