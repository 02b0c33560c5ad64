SPECIFICATION Spec
CONSTANTS
  Uris <- MCUris
  Observes <- MCObserves
  Syms = {s1, s2}
  Loose = {}
  Publishers = {p}
  Pulls = {q1, q2}
  None = none
  MaxVersion = 1
  MaxPublish = 1
  MaxPulls = 2
CHECK_DEADLOCK FALSE
SYMMETRY SymSymmetry
INVARIANT CacheIsSound
INVARIANT OwnPartIsSound
