CONSTANTS
  Ids = {a, b}
  Reapply = FALSE
  MaxFaults = 4
SPECIFICATION FairSpec
INVARIANT TypeOK
INVARIANT PointerIsWhole
INVARIANT OneSticker
PROPERTY AppliedHolds
PROPERTY RelocateKeepsIdentity
PROPERTY EventuallySecured
