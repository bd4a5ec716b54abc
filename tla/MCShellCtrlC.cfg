SPECIFICATION ShellSpec
CONSTANTS
  sh = sh
  c = c
  d = d
  out = out
  err = err
  Procs <- MCProcs
  Pipes <- MCPipes
  MaxInterrupts = 1
INVARIANT CtrlCLeavesNobody
CHECK_DEADLOCK FALSE
