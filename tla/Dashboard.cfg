CONSTANTS
  Refreshes = {"cron", "button"}
  Manual = {"button"}
  Connected = {"xero"}
  Discriminator <- MCSameJobs
  People = {"ann", "bob"}
  Viewers = {}
  Names = {"n"}
  Metrics = {"a", "b", "c"}
  DefaultMetrics = {"a"}
  MostMetrics = 2
  Dates = {1, 2}
  Links <- MCLinks
  MaxSaves = 2
  MaxDeployments = 2
  Runners = {"old", "new"}
  Files = {1, 2, 3, 4}
  CheckoutOf <- MCCheckoutOf
  BadFiles = {4}
  MaxKills = 2
CHECK_DEADLOCK FALSE
SPECIFICATION MCSpec
INVARIANTS
  FailuresAreReported
  NothingLeftOut
  AnswersArePublished
  SavedReportsReopen
  RecordedIsApplied
