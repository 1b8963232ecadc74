CONSTANTS
  Bundles = {1, 2, 3}
  Owns <- OwnsMC
  Retired <- RetiredMC
  Tree <- TreeMC
  Groups <- GroupsMC
  Uv <- UvMC
  Origin <- BundlesOnly
  None = None
  Torn = Torn
  MaxFaults = 0
SPECIFICATION Spec
INVARIANT Converges
