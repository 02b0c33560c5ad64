SPECIFICATION FairSpec
CONSTANTS
  Uris = {a, b}
  Loose = {a, b}
  Texts = {t1, t2, t3}
  Garbled = garbled
  NoText = none
  FullReplace = FALSE
  CloseWhilePending = FALSE
  ParseMayFail = FALSE
  MaxVersion = 5
  MaxEvents = 0
  MaxBatch = 0
CHECK_DEADLOCK FALSE
PROPERTY MirrorsEditor
PROPERTY CatchesUp
