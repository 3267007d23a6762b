CONSTANTS
  Workers = {w1, w2}
  JobKeys = {cron, manual}
  Records = {1, 2}
  Listing <- MCFullListing
  Endless = {}
  MaxPages = 3
  StaleAfter = 0
  MaxAttempts = 2
  BoundedRuns = FALSE
  FailPoints = {"importing", "advancing", "completing", "recording"}
  CrashPoints = {"claimed", "started", "importing", "advancing", "completing", "failing"}
  Orders = {"o1", "o2"}
  TestOrders = {}
  CustomerOf <- MCCustomerOf
  OrderedAt <- MCOrderedAt
  VariantOf <- MCVariantOf
  OrdersPerPage = 1
  OrderWindow = 1
  BackfillSince = 2
  LastDay = 3
  MaxEdits = 3
  MaxIncidents = 1
  Careless = FALSE
  Settlements = "not_permitted"
  MetaEntities = {"m1", "m2"}
  TikTokEntities = {"t1"}
  RestatementWindow = 1
  RestatedDays = 0
  Undated = {"t1"}
  Refused = TRUE
  LastAdDay = 3
  MaxCharges = 2
  MaxAdFaults = 1
SPECIFICATION MCSpec
SYMMETRY MCSymmetry
INVARIANTS
  TypeOK
  OneWinnerPerAttempt
  SucceededImportedItsWindow
  CursorSkipsNothing
  WindowsLeaveNoGap
  SpendIsCountedOnce
  RestatementsAreImported
PROPERTIES
  SyncHoldsItsWindow
  FirstDateOnlyMovesBack
ACTION_CONSTRAINT ChangesMeetReads
