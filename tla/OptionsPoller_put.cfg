\* A poll that read the table before an option was put installs after it.
CONSTANTS
  Handler <- OneHandler
  Option <- TwoOptions
  Kind <- MCKind
  Val <- MCVal
  Bad = Bad
  Unset = Unset
  Default = Default
  NoSnapshot = NoSnapshot
  MaxWrites = 1
  Faults = {}
  h1 = h1
  v1 = v1
  v2 = v2
SPECIFICATION Spec
INVARIANTS
  PutInForce
