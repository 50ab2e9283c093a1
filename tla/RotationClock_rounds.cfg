\* Every option, key list of up to five keys and set of disabled keys, for
\* more than one round of bands.
CONSTANTS
  Shuffle <- MCShuffle
  NoCfg = NoCfg
  MaxKeys = 5
  MaxNow = 12
  Cfgs <- MCCfgs
SPECIFICATION Spec
INVARIANTS
  ClockTypeOK
  SelectionComplete
  EveryKeyGetsItsTurn
  TurnLength
  BandNamesItsKeys
  
PROPERTIES
  BandHolds
