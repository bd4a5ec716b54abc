SPECIFICATION FairSession
CONSTANTS
  t1 = t1
  NoTurn = NoTurn
  NoCall = 0
  Turn <- MCTurn
  Call <- MCCall
  Tool <- MCTool
  MaxSteps = 2
  BatchLimit = 2
  MaxStops = 1
  MaxInterrupts = 1
PROPERTIES
  TurnsEnd
  NoUnapprovedEffect
