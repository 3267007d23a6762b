CONSTANTS
  Catalogue <- MCCatalogue
  SummerFrom = 80
  Offset = 1
  Seeded <- MCSeeded
  Policy <- MCPolicy
  Outstanding = {}
  Starts <- MCStarts
  Days = {3, 4, 5, 6}
  Today = 20
  BusinessTimezone = "London"
  ToleranceRate = 1
  ReconciledRange <- MCRange
  Expected <- MCExpected
SPECIFICATION Spec
INVARIANTS
  PlatformSpendIsCountedOnce
CHECK_DEADLOCK FALSE
