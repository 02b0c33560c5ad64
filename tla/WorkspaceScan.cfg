SPECIFICATION Spec
CONSTANTS
  Files <- MCFiles
  Folders <- MCFolders
  Home <- MCHome
  Texts = {t1, t2}
  NoText = none
  Tasks = {k1, k2}
  Initial = k1
  MaxScans = 3
SYMMETRY TextSymmetry
INVARIANT OpenRouted
INVARIANT ClosedIndexed
