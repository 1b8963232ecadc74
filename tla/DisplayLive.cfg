CONSTANTS
  Chips = {c1}
  Versions = {v1, v2}
  Legacy = old
  None = none
  Invalid = invalid
  MaxFaults = 3
SPECIFICATION FairSpec
PROPERTY Converges
