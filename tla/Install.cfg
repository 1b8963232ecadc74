CONSTANTS
  Bundles = {1, 2, 3}
  Owns <- OwnsMC
  Retired <- RetiredMC
  Tree <- TreeMC
  Groups <- GroupsMC
  Uv <- UvMC
  Origin <- WithCheckout
  None = None
  Torn = Torn
  MaxFaults = 1
SPECIFICATION FairSpec
INVARIANT TypeOK
INVARIANT Converges
INVARIANT ComitupFresh
PROPERTY CacheComesLast
PROPERTY Recovers
