SPECIFICATION Spec
CONSTANTS
  Uris = {a, b}
  Loose = {b}
  Texts = {t1, t2, t3}
  Garbled = garbled
  NoText = none
  FullReplace = FALSE
  CloseWhilePending = FALSE
  ParseMayFail = FALSE
  MaxVersion = 5
  MaxEvents = 1
  MaxBatch = 1
CHECK_DEADLOCK FALSE
SYMMETRY TextSymmetry
INVARIANT TypeOK
INVARIANT LatestIsClient
INVARIANT OpenIndexed
INVARIANT ClosedFollowsDisk
INVARIANT PendingAhead
