CONSTANTS
  Networks = {1, 2}
  Hidden = {2}
  Budget = 5
  None = None
  MaxFaults = 2
SPECIFICATION FairSpec
INVARIANT TypeOK
INVARIANT TriesBeforeAp
INVARIANT TriesInOrder
PROPERTY LiveKept
PROPERTY ApHeld
PROPERTY FallsBack
PROPERTY Reconnects
