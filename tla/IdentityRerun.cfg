CONSTANTS
  Ids = {a, b}
  Reapply = TRUE
  MaxFaults = 2
SPECIFICATION Spec
INVARIANT RerunSafe
