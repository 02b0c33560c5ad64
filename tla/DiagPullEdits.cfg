SPECIFICATION Spec
CONSTANTS
  Uris <- MCUris
  Observes <- MCObserves
  Syms = {s1, s2}
  Loose = {}
  Publishers = {p}
  Pulls = {q}
  None = none
  MaxVersion = 2
  MaxPublish = 2
  MaxPulls = 2
CHECK_DEADLOCK FALSE
SYMMETRY SymSymmetry
INVARIANT UnchangedIsSound
INVARIANT PullSeesEdits
