\* Four calls poll, probe or spread by usage, and report, while the
\* options change, the clock ticks and the counters decay.
CONSTANTS
  Key <- MCKey
  NoKey = NoKey
  MaxKeys = 3
  KeyLists <- MCKeyLists
  Epoch <- MCEpoch
  NoEpoch = NoEpoch
  Fingerprint <- MCFingerprint
  NoChannel = NoChannel
  Code = {200}
  Word = {"quota"}
  Shuffle <- MCShuffle
  NoCfg = NoCfg
  Proc <- MCProc4
  Chan <- One
  NoChan = NoChan
  Null = Null
  Priority <- ZeroOne
  NullsFirst = FALSE
  KeyMode <- PollingOne
  Call <- SpreadCalls
  Snapshots <- SpreadOne
  InitRows <- OneRow
  Actual = 8
  Start = 10
  MaxNow = 12
  Faults = {}
  Changes = {"settings", "report"}
  k1 = k1
  k2 = k2
  k3 = k3
  e1 = e1
  e2 = e2
  e3 = e3
  c1 = c1
  c2 = c2
  p1 = p1
  p2 = p2
  p3 = p3
  p4 = p4
SPECIFICATION Spec
SYMMETRY SymmetricProcs
INVARIANTS
  RoundRobin
  CountersLevel
  DecayedOncePerInterval
  EstimatesComeBack
