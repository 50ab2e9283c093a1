\* Two calls and new-api's writers on one channel of each database; statements
\* fail, connections are lost and replicas die.
CONSTANTS
  Key <- MCKey
  NoKey = NoKey
  MaxKeys = 2
  KeyLists <- MCKeyLists
  Epoch <- MCEpoch
  NoEpoch = NoEpoch
  Fingerprint <- MCFingerprint
  NoChannel = NoChannel
  Code = {200}
  Word = {}
  Tx <- MCTx
  Field <- MCField
  NoObject = NoObject
  NoAnswer = NoAnswer
  Free = Free
  Dialects = {"rowlock", "filelock"}
  Calls <- MCCalls
  InitRow <- MCRows
  InitInfo <- MCInfos
  Faults = {"db", "lostcommit", "crash"}
  MaxEdits = 1
  k1 = k1
  k2 = k2
  e1 = e1
  e2 = e2
  t1 = t1
  t2 = t2
  f1 = f1
SPECIFICATION FairSpec
INVARIANTS
  WriteTypeOK
  NoLostUpdate
PROPERTIES
  ForeignFieldsKept
  ImplementsStore
  RowLockFreed
  CallsEnd
