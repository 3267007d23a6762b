CONSTANTS
  Publishers = {"cron"}
  LastDay = 2
  RecalculationWindow = 2
  Versions = {"v1", "v2"}
  VersionOf <- MCVersionOf
  HandPicked <- MCHandPicked
  Scheduled = {"cron"}
  MaxEdits = 1
CHECK_DEADLOCK FALSE
SPECIFICATION DailySpec
PROPERTY
  PastKeepsItsNumbers
