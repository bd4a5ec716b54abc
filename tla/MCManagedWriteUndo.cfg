SPECIFICATION WriteSpec
CONSTANTS
  c1 = c1  c2 = c2  c3 = c3  p = p  q = q  e = e
  Call <- MCCall
  Path <- MCPath
  Inside <- MCPath
  Edit <- MCEdit
  PathOf <- MCPathOf
  MaxCrashes = 0  MaxInterrupts = 0  MaxErrors = 1
  Absent = Absent  Original = Original  None = None
INVARIANTS
  SuccessCanBeUndone
CHECK_DEADLOCK FALSE
