SPECIFICATION FairSpec
CONSTANTS
  Uris = {a}
  Loose = {}
  Texts = {t1, t2}
  Garbled = garbled
  NoText = none
  FullReplace = TRUE
  CloseWhilePending = TRUE
  ParseMayFail = TRUE
  MaxVersion = 4
  MaxEvents = 2
  MaxBatch = 2
CHECK_DEADLOCK FALSE
INVARIANT VersionNamesText
INVARIANT NoLostWakeup
PROPERTY QueueDrains
