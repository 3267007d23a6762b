CONSTANTS
  Workers = {w1}
  JobKeys = {"cron"}
  Records = {1, 2}
  Listing <- MCFullListing
  Endless = {}
  MaxPages = 3
  StaleAfter = 1
  MaxAttempts = 2
  BoundedRuns = FALSE
  FailPoints = {"importing", "advancing", "completing", "recording"}
  CrashPoints = {"claimed", "started", "importing", "advancing", "completing", "recording", "failing", "recordingFailure"}
SPECIFICATION FairSpec
PROPERTIES
  AbandonedQueuedIsReclaimable
