\* A report whose lease has lapsed.
CONSTANTS
  Key <- MCKey
  NoKey = NoKey
  MaxKeys = 2
  KeyLists <- MCKeyLists
  Epoch <- MCEpoch
  NoEpoch = NoEpoch
  Fingerprint <- MCFingerprint
  NoChannel = NoChannel
  Code <- Codes
  Word <- Words
  Proc <- MCProc2
  Free = Free
  Request <- LeasedReport
  IdemKey = {i1, i2}
  NoIdem = NoIdem
  Lease <- MCLease
  NoLease = NoLease
  Est <- MCEst
  PreDebit <- MCPreDebit
  NoUsage = NoUsage
  Settings <- MCOn
  InitRow <- MCBothOn
  Faults = {"leaseexpire"}
  NewApi = {}
  k1 = k1
  k2 = k2
  k3 = k3
  e1 = e1
  e2 = e2
  e3 = e3
  i1 = i1
  i2 = i2
  l1 = l1
  l2 = l2
  p1 = p1
  p2 = p2
  p3 = p3
SPECIFICATION Spec
INVARIANTS
  NoInternalError
