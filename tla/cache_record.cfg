SPECIFICATION FairSpec
CONSTANTS
  Ingesters = {i1, i2}
  i1 = i1
  i2 = i2
  RawIngesters = {}
  Clients = {c1}
  c1 = c1
  Kinds = {"record"}
  Formats = {"json"}
  LosesReplies = FALSE
  MaxVersion = 3
  MaxRestarts = 0
  MaxSwitches = 0
INVARIANT TypeOK
INVARIANT EpochIsEarned
INVARIANT ReadsAreRegular
INVARIANT SettledCacheIsCurrent
PROPERTY RegularRegister
PROPERTY PollingClientCatchesUp
