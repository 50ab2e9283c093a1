\* A call on two channels while keys are disabled, enabled and edited, the
\* options change and its calls of the database and of Redis fail.
CONSTANTS
  Key <- MCKey
  NoKey = NoKey
  MaxKeys = 2
  KeyLists <- ShortLists
  Epoch <- MCEpoch
  NoEpoch = NoEpoch
  Fingerprint <- MCFingerprint
  NoChannel = NoChannel
  Code = {200}
  Word = {"quota"}
  Shuffle <- MCShuffle
  NoCfg = NoCfg
  Proc <- MCProc1
  Chan <- Two
  NoChan = NoChan
  Null = Null
  Priority <- HighLow
  NullsFirst = FALSE
  KeyMode <- MixedTwo
  Call <- ServeCalls
  Snapshots <- Switching
  InitRows <- TwoRows
  Actual = 8
  Start = 10
  MaxNow = 10
  Faults = {"redis", "lostreply", "db", "late"}
  Changes = {"status", "keys", "settings"}
  k1 = k1
  k2 = k2
  k3 = k3
  e1 = e1
  e2 = e2
  e3 = e3
  c1 = c1
  c2 = c2
  p1 = p1
  p2 = p2
  p3 = p3
  p4 = p4
SPECIFICATION Spec
SYMMETRY SymmetricProcs
INVARIANTS
  SelectTypeOK
  ServedWasServiceable
  NoKeyMeansNone

  
