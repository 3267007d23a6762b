CONSTANTS
  Processes = {p1, p2}
  Faults = {}
  MaxTokenFaults = 0
  MaxTokens = 4
  QuietReconnects = TRUE
CHECK_DEADLOCK FALSE
SPECIFICATION TokensSpec
SYMMETRY MCSymmetry
INVARIANTS
  NeedsReauthIsTrue
