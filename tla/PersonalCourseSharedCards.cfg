SPECIFICATION Spec
CONSTANTS
  r1 = r1  r2 = r2  k1 = k1  k2 = k2  k3 = k3  w1 = w1  w2 = w2  c1 = c1  c2 = c2  h1 = h1  h2 = h2
  Runs = {r1, r2}
  Cards = {k1, k2, k3}
  Helpers = {h1}
  Workers = {w1}
  Callers = {c1}
  Home <- OneHome
  CardsOf <- SharedCards
  KindOf <- Mixed
  IntactRuns = {r1, r2}
  GapRuns = {}
  MissingVisuals = {r1}
  TicketNumbers = {1, 2, 3}
  LapCeiling = 16
  AttentionLimit = 20
  ResumeLimit = 100
  IndexCeiling = 2
  MaxJobs = 1
  MaxCalls = 3
  MaxCrashes = 1
INVARIANTS PublishedIsReviewed
PROPERTIES RunsFailOnlyOverEarlierWork
