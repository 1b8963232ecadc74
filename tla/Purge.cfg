CONSTANTS
  Nodes <- NodesMC
  Target = "x"
  Parent <- ParentMC
  Roots = Roots
  Foreign = Foreign
  Kinds <- KindsMC
  Links <- LinksMC
  MaxRuns = 2
SPECIFICATION FairSpec
INVARIANT TypeOK
INVARIANT Purges
PROPERTY Finishes
