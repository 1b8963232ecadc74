CONSTANTS
  Procs = {p1, p2, p3}
  None = none
SYMMETRY Alike
SPECIFICATION Spec
INVARIANT TypeOK
INVARIANT Exclusive
INVARIANT OpenIsNamed
