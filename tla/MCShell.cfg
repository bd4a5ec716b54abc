SPECIFICATION ShellSpec
CONSTANTS
  sh = sh
  c = c
  d = d
  out = out
  err = err
  Procs <- MCProcs
  Pipes <- MCPipes
  MaxInterrupts = 2
INVARIANTS KillLeavesNobody StatusIsItsOwn
PROPERTIES NeverResumes Returns
\* The model ends when execute has returned.
CHECK_DEADLOCK FALSE
