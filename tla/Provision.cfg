CONSTANTS
  a = a
  b = b
  c = c
  Torn = Torn
  None = None
  Media <- MediaMC
  Safe <- SafeMC
  Alike <- AlikeMC
  Small <- SmallMC
  MaxRuns = 2
SPECIFICATION Spec
INVARIANT IdentityBound
INVARIANT ReportTrue
INVARIANT CompleteIsComplete
PROPERTY OnlyConfirmed
