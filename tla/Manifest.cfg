SPECIFICATION Spec
CONSTANTS
  Jobs = {j1, j2}
  Main = Main
  Returned = Returned
  MaxNumber = 5
  MaxFaults = 2
  MaxCrashes = 1
CHECK_DEADLOCK FALSE
INVARIANTS AlwaysRecoverable InstalledSurvives
PROPERTY WritersAreAnswered
