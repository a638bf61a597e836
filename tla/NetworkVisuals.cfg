CONSTANTS
  Pages = {p, q}
  States = {"original", "relicensed", "removed"}
  CandidateTTL = 1
  VerificationTTL = 2
  MaxWait = 1
  MaxClock = 2
  MaxTurns = 1
  MaxSearches = 2
  MaxRevalidations = 1
SPECIFICATION VisualsSpec
INVARIANT SiblingsAreKept
CHECK_DEADLOCK FALSE
