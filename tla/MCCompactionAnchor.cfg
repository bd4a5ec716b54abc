SPECIFICATION Spec
CONSTANTS
  a = a
  b = b
  Calls <- MCCalls
  ToolSizes <- MCToolSizes
  System = 1
  Available = 9
  MaxInput = 6
  Short = 2
  TailGroups = 1
  Excess = 1
  MaxSteps = 2
  MaxMessages = 7
  MaxStops = 1
INVARIANT GivenUpForSize
CHECK_DEADLOCK FALSE
