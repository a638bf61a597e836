SPECIFICATION FairSpec
CONSTANTS
  d1 = d1  d2 = d2  c1 = c1  c2 = c2  rd1 = rd1  rd2 = rd2  rc1 = rc1  rc2 = rc2
  j1 = j1  j2 = j2  w1 = w1  card1 = card1  card2 = card2  older = older  newer = newer
  Imported = {d1, d2}
  Candidates = {c1, c2}
  Releases = {rd1, rd2, rc1, rc2}
  ReleaseOf <- MCReleaseOf
  CardOf <- MCCardOf
  ContentOf <- MCContentOf
  UpgradeOf <- MCUpgradeOf
  Affected <- MCAffected
  Alike <- MCAlike
  Jobs = {j1, j2}
  Submits <- MCSubmits
  Decisions <- MCDecisions
  MaxToggles = 2
  Direct = {d1}
  Suspendable = {rd2}
  MaxProposals = 1
  Workers = {w1}
  MaxLapses = 1
INVARIANTS PublishedOnce OneHandPerRow IndexedIsFound
PROPERTIES ReplacedStaysReplaced RefusedUpgradesStayOut QueuedIsIndexed
CHECK_DEADLOCK FALSE
