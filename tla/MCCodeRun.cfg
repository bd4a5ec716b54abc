SPECIFICATION FairRun
CONSTANTS
  f1 = f1
  NoFile = NoFile
  Node <- MCNode
  Target <- MCTarget
  Settings <- MCSettings
  MaxMade = 3
  MaxAfter = 1
  MaxInterrupts = 2
INVARIANTS WorkerKnowsTheTruth RecordIsTrue FlightIsBounded OneDispatchAfterCancel ClosedIsSettled
PROPERTIES KeepsTheDag RunEnds
\* A closed run does nothing any more.
CHECK_DEADLOCK FALSE
