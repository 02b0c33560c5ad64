SPECIFICATION Spec
CONSTANTS
  Files <- MCFiles
  Dir <- MCDir
  Rel <- MCRel
  GameDir = "G"
  SetDirs = {"S"}
  ProjectDir = "P"
  Unset = unset
  Settings <- MCSettings
  Requests = {"r1"}
  Tasks = {"t1"}
  Startup = "t1"
  Races = FALSE
  Unsaved = FALSE
  MaxInputs = 3
CHECK_DEADLOCK FALSE
INVARIANT Paired
INVARIANT StatusCurrent
INVARIANT BaseFollows
INVARIANT CompletionCurrent
