CONSTANTS
  Chroots <- ChrootsMC
  Exclude = {"firmware"}
  Allow = {"fw"}
  None = None
  Refs = {r1, r2}
  MaxRuns = 2
SPECIFICATION Spec
INVARIANT TypeOK
INVARIANT SourcesCorrespond
INVARIANT LicensesComplete
INVARIANT AnnouncedIsBuilt
