SPECIFICATION EditorSpec
CONSTANTS
  Nothing = Nothing
  NoFile = NoFile
  Files <- MCFiles
  MaxId = 8
  FirstNew = 5
  MaxPages = 2
  MaxPipes = 2
  MaxEdits = 3
  MaxPanels = 2
  MaxChecks = 1
INVARIANTS
  EditorTypeOK
  SelectionShown
  LeaveWarned
PROPERTIES
  StepsKept
CHECK_DEADLOCK FALSE
