SPECIFICATION StoreSpec
CONSTANTS
  p1 = p1  p2 = p2
  NoProcess = NoProcess
  Process <- MCProcess
  MaxAppends = 4
INVARIANTS
  SnapshotIsSafe
