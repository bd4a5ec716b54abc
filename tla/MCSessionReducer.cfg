SPECIFICATION Spec
CONSTANTS
  t1 = t1  t2 = t2
  c1 = c1  c2 = c2
  NoTurn = NoTurn
  NoCall = NoCall
  Turn <- MCTurn
  Call <- MCCall
  Tool <- MCTool
INVARIANTS
  FinishedTurnsAreSettled
  BlockedIffUnknown
  InterruptedIntentIsCertain
PROPERTIES
  FactsAreFinal
CHECK_DEADLOCK FALSE
