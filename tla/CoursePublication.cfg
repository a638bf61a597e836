CONSTANTS
  Cards <- MCCards
  Goals <- MCGoals
  ObjectiveOf <- MCObjectiveOf
  PrerequisitesOf <- MCPrerequisitesOf
  RankOf <- MCRankOf
  SuggestedOf <- MCSuggestedOf
  Slots = 5
  Illustrated = {"b"}
  VisualNeeded = TRUE
  Measured = {"tool"}
  DatasetNeeded = TRUE
  Pages = {"page"}
  States = {"original", "removed"}
  CandidateTTL = 0
  VerificationTTL = 0
  MaxWait = 1
  MaxClock = 2
  MaxTurns = 1
  MaxSearches = 1
  MaxRevalidations = 1
  Composers = {"c1", "c2"}
  VersionOf <- MCVersionOf
  LogicalOf <- MCLogicalOf
  RevisionOf <- MCRevisionOf
  IncludedBy <- MCIncludedBy
  ExcludedBy <- MCExcludedBy
  Confirmers = {"j1", "j2", "j3"}
  ConfirmedBy <- MCConfirmedBy
  ConfirmationOf <- MCConfirmationOf
  CourseOf <- MCCourseOf
  EditionOf <- MCEditionOf
  Placements = {"p1", "p2"}
  Illustrates <- MCIllustrates
  Reviewable <- MCReviewable
  Withdrawable <- MCWithdrawable
  MaxBootstrap = 5
  MaxChanges = 2
  MaxEdition = 3
SPECIFICATION Spec
INVARIANTS OutlineIsTeachable EditionsDoNotFork EditionsOpenInOrder
PROPERTIES WithdrawnStaysOut StalePlacementsStayOut VerdictsAreKept
CHECK_DEADLOCK FALSE
