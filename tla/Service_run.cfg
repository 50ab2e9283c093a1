\* A process starts in three environments, serves, is signalled at any moment
\* and ends; its poller and a handler refresh the settings while the options
\* are written and polls fail.
CONSTANTS
  Handler <- OneHandler
  Option <- TwoOptions
  Kind <- MCKind
  Val <- OneVal
  Bad = Bad
  Unset = Unset
  Default = Default
  NoSnapshot = NoSnapshot
  MaxWrites = 1
  Faults = {"db"}
  NoValue = NoValue
  Dsn <- MCDsn
  Scheme <- MCScheme
  DefaultDsn = mdsn
  Addr <- MCAddr
  DefaultAddr = local
  Pass = {}
  Url <- MCUrl
  Env <- MCEnv
  RedisAt <- MCRedisAt
  Trouble = {"open", "redis", "listen", "grace"}
  h1 = h1
  v1 = v1
  mdsn = mdsn
  pdsn = pdsn
  local = local
  remote = remote
SPECIFICATION ServiceSpec
INVARIANTS
  ServiceTypeOK
  GracefulExit
PROPERTIES
  BadTextKeepsSetting
  SettingsFollowTable
  SignalEndsService
