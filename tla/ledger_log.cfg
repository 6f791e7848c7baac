SPECIFICATION Spec
CONSTANTS
  Keys = {k1, k2}
  NoKey = NoKey
  Environments <- AllKinds
  MaxMishaps = 3
SYMMETRY KeySymmetry
CHECK_DEADLOCK FALSE
INVARIANTS
  LedgerTypeOK
  LogReadable
  KeysOpenOnce
PROPERTIES
  DurableIsKept
  KeepsBook
