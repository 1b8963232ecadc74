CONSTANTS
  Chips = {c1, c2}
  Versions = {v1}
  Legacy = old
  None = none
  Invalid = invalid
  MaxFaults = 3
SPECIFICATION Spec
INVARIANT TypeOK
INVARIANT WholeOrUnbootable
INVARIANT ReportTrue
PROPERTY RecordedOnly
PROPERTY RestartsWhole
PROPERTY FailuresKept
PROPERTY ImplementsFaceUpdate
