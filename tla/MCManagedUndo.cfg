SPECIFICATION UndoSpec
CONSTANTS
  FileCount = 3
  typed = typed
  Existing <- MCExisting
  Inside <- MCInside
  EditContent <- MCEditContent
  MaxEdits = 2  MaxCrashes = 2  MaxErrors = 1
  Absent = Absent  Baseline = Baseline  Managed = Managed  Reserved = Reserved
INVARIANTS
  NoEditIsLost
  AFileIsSomewhere
  SuccessIsRestored
PROPERTIES
  RetriesConverge
CHECK_DEADLOCK FALSE
