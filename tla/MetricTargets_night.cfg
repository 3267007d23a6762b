CONSTANTS
  LastTargetDay = 3
  ScriptDates = {1, 3}
  SummerTime = TRUE
CHECK_DEADLOCK FALSE
SPECIFICATION TargetsSpec
PROPERTY
  ReportedStands
