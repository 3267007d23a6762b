CONSTANTS
  Workers = {w1, w2}
  JobKeys = {"cron"}
  Records = {1, 2}
  Listing <- MCFullListing
  Endless = {"cron"}
  MaxPages = 3
  StaleAfter = 1
  MaxAttempts = 2
  BoundedRuns = TRUE
  FailPoints = {"importing", "advancing", "completing", "recording"}
  CrashPoints = {"claimed", "started", "importing", "advancing", "completing", "recording", "failing", "recordingFailure"}
  Publishers = {"cron", "script"}
  LastDay = 2
  RecalculationWindow = 1
  Versions = {"v1", "v2"}
  VersionOf <- MCVersionOf
  HandPicked <- MCHandPicked
  Scheduled = {"cron"}
  MaxEdits = 1
  LastTargetDay = 3
  ScriptDates = {1, 2, 3}
  SummerTime = TRUE
CHECK_DEADLOCK FALSE
SPECIFICATION MCSpec
INVARIANTS
  OneRunAtATime
  OneTargetFromTomorrow
  ClearedIsNotJudged
PROPERTIES
  ImplementsImportService
  SucceededNeverRunsAgain
  EveryRunEnds
  AbandonedRunningIsReclaimable
  SetNeverUnjudges
  OnlyTheNightHourRestates
  PublishedDayStaysPublished
  CorrectionsArePublished
