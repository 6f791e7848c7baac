SPECIFICATION Spec
CONSTANTS
  Keys = {k1, k2}
  NoKey = NoKey
  Environments <- FullDisk
  MaxMishaps = 1
SYMMETRY KeySymmetry
CHECK_DEADLOCK FALSE
INVARIANTS
  NeverSpliced
