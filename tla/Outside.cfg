CONSTANTS
  Processes = {"p1", "p2"}
  Faults = {"callFails", "answerLost", "saveFails", "saveAnswerLost", "markLost", "crash", "revoked"}
  MaxTokenFaults = 1
  MaxTokens = 3
  QuietReconnects = FALSE
  Transactions = {"t1", "t2"}
  Invoices = {"i1"}
  Dropped = {"t1"}
  Accounts = {"rent", "fees"}
  AccountOf <- MCAccountOf
  PageSize = 1
  MaxChanges = 3
  MaxFaults = 2
  Exporters = {"cron", "hand"}
  Nightly = {"cron"}
  Tabs = {"P&L", "STOCK"}
  LastFigures = 2
  MaxTouches = 1
  MaxExportFaults = 1
SPECIFICATION MCSpec
CHECK_DEADLOCK FALSE
INVARIANTS
  RotationIsRecordedBeforeUse
  RotationKeepsTheConnection
  CompletedReadMissesNothing
  ExportIsWhole
  ProtectionsDoNotStack
PROPERTIES
  BrokenChainIsReported
  StoredFollowsTheLedger
  WorkbookCatchesUp
