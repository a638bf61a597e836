SPECIFICATION Spec
CONSTANTS
  r1 = r1  r2 = r2  k1 = k1  k2 = k2  k3 = k3  w1 = w1  w2 = w2  c1 = c1  c2 = c2  h1 = h1  h2 = h2
  Runs = {r1}
  Cards = {k1, k2}
  Helpers = {h1}
  Workers = {w1, w2}
  Callers = {c1, c2}
  Home <- OneHome
  CardsOf <- BothCards
  KindOf <- Conflict
  IntactRuns = {r1}
  GapRuns = {}
  MissingVisuals = {r1}
  TicketNumbers = {1, 2, 3}
  LapCeiling = 16
  AttentionLimit = 20
  ResumeLimit = 100
  IndexCeiling = 500
  MaxJobs = 0
  MaxCalls = 4
  MaxCrashes = 0
INVARIANTS OneFuturePerRun ReadyIsBacked QuestionStaysAnswerable
PROPERTIES MovesAreJustified KeepsPublicPromise
