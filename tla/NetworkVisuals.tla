--------------------------- MODULE NetworkVisuals ---------------------------
(***************************************************************************)
(* Visuals from Wikimedia Commons (network_visuals.py): a search keeps     *)
(* candidates for ten minutes; acquiring one downloads it and makes it an  *)
(* immutable visual with a first verification; a revalidation, later, asks *)
(* the provider again and replaces the verdict.                            *)
(*                                                                         *)
(* Every operation is one write transaction (operations.py) that includes  *)
(* its requests to the provider, but its time is read before it waits for  *)
(* the lock: Now.                                                          *)
(*                                                                         *)
(* Simplifications:                                                        *)
(*  - what the provider says of a page is one of a few states: as it was   *)
(*    found, under another accepted license, with other bytes, or gone;    *)
(*  - requests that fail leave a candidate or a verdict as it was, which   *)
(*    is a batch without that candidate, or no revalidation;               *)
(*  - bytes at rest are not changed.                                       *)
(***************************************************************************)
EXTENDS Naturals, FiniteSets

CONSTANTS Pages,             \* pages of the provider
          States,            \* what the provider may say of a page
          CandidateTTL,      \* how long a candidate may be acquired
          VerificationTTL,   \* how long a verification holds
          MaxWait,           \* how long an operation waits for the lock
          MaxClock,          \* bound: the clock
          MaxTurns,          \* bound: changes at the provider
          MaxSearches,       \* bound: searches
          MaxRevalidations   \* bound: revalidations of a visual

ASSUME VisualsAssumption ==
  /\ States \subseteq {"original", "relicensed", "replaced", "removed"}
  /\ "original" \in States
  /\ {CandidateTTL, VerificationTTL, MaxWait, MaxClock, MaxTurns, MaxSearches,
      MaxRevalidations} \subseteq Nat

VARIABLES
  clock,       \* the time
  provider,    \* what the provider says of each page
  turns,       \* changes at the provider so far
  searches,    \* searches so far
  candidates,  \* network_visual_candidates
  artifacts,   \* artifact_metadata: when each artifact was first stored
  acquired,    \* network_visual_acquisitions: the candidate each visual is from
  verified,    \* network_visual_verifications: the verdict on each visual
  lost         \* candidates that could be acquired, in operations that failed as a whole

visualVars == <<clock, provider, turns, searches, candidates, artifacts, acquired, verified,
                lost>>

\* A table, and the rows of another whose keys it does not have (f @@ g of TLC, which
\* the provers do not know).
Plus(f, g) == [x \in DOMAIN f \cup DOMAIN g |-> IF x \in DOMAIN f THEN f[x] ELSE g[x]]

Now == {t \in 0..MaxClock : t <= clock /\ clock <= t + MaxWait}

LicenseIn(state) == IF state = "relicensed" THEN "other" ELSE "first"
BytesIn(state) == IF state = "replaced" THEN "other" ELSE "first"

\* The identity of a visual digests its page, the metadata and the bytes, and that
\* of an artifact its bytes.
VisualOf(c) == <<c.page, c.state>>
PageOf(v) == v[1]
ArtifactOf(v) == <<v[1], BytesIn(v[2])>>
Visuals == Pages \X (States \ {"removed"})

Verdict(status, at, revision) == [status |-> status, at |-> at, revision |-> revision]

VisualsInit ==
  /\ clock = 0
  /\ provider = [p \in Pages |-> "original"]
  /\ turns = 0 /\ searches = 0
  /\ candidates = {}
  /\ artifacts = [a \in {} |-> 0]
  /\ acquired = [v \in {} |-> 0]
  /\ verified = [v \in {} |-> 0]
  /\ lost = {}

-----------------------------------------------------------------------------
Tick ==
  /\ clock < MaxClock
  /\ clock' = clock + 1
  /\ UNCHANGED <<provider, turns, searches, candidates, artifacts, acquired, verified, lost>>

\* The provider changes a page, or takes it away.
Turn(p, s) ==
  /\ turns < MaxTurns /\ provider[p] # s
  /\ turns' = turns + 1
  /\ provider' = [provider EXCEPT ![p] = s]
  /\ UNCHANGED <<clock, searches, candidates, artifacts, acquired, verified, lost>>

\* _register_candidate: what a search saw of a page.  Found again in the same state
\* at the same time, it is the same candidate.
Candidate(p, now) == [page |-> p, state |-> provider[p], at |-> now]

\* discover_network_visuals: a candidate for every page that is there.
Discover(now) ==
  /\ searches < MaxSearches
  /\ searches' = searches + 1
  /\ candidates' = candidates \cup
       {Candidate(p, now) : p \in {q \in Pages : provider[q] # "removed"}}
  /\ UNCHANGED <<clock, provider, turns, artifacts, acquired, verified, lost>>

\* _acquire_one up to its transaction: the candidate has not expired and the page
\* is as the candidate says.
Acquirable(c, now) == now <= c.at + CandidateTTL /\ provider[c.page] = c.state

\* A visual has one acquisition (a UNIQUE column), so a second candidate for it is
\* an error of the database.
Clashes(c, valid) ==
  \/ \E d \in valid : d # c /\ VisualOf(d) = VisualOf(c)
  \/ VisualOf(c) \in DOMAIN acquired /\ acquired[VisualOf(c)] # c

\* Fault: a visual that is acquired again gets the verdict of a new one.
AcquireAfresh(now, batch) ==
  LET valid == {c \in batch : Acquirable(c, now)}
      had == {VisualOf(c) : c \in valid}
      stored == Plus(artifacts, [a \in {ArtifactOf(v) : v \in had} |-> now])
  IN  /\ artifacts' = stored
      /\ acquired' = Plus(acquired, [v \in had |-> CHOOSE c \in valid : VisualOf(c) = v])
      /\ verified' = Plus([v \in had |-> Verdict("verified", stored[ArtifactOf(v)], 1)], verified)
      /\ UNCHANGED <<clock, provider, turns, searches, candidates, lost>>

\* _acquire_one: the candidates that are acquired become visuals.  The bytes of an
\* artifact that is stored keep the time they were first stored at, and so do the
\* visual and its first verification.
Keep(now, valid) ==
  LET had == {VisualOf(c) : c \in valid} \ DOMAIN acquired
      stored == Plus(artifacts, [a \in {ArtifactOf(v) : v \in had} |-> now])
  IN  /\ artifacts' = stored
      /\ acquired' = Plus(acquired, [v \in had |-> CHOOSE c \in valid : VisualOf(c) = v])
      /\ verified' = Plus(verified,
           [v \in had |-> Verdict("verified", stored[ArtifactOf(v)], 1)])
      /\ UNCHANGED lost

\* acquire_network_visuals: a candidate that can not be had is left out.  The error
\* of a clash is not taken for the failure of its candidate: the whole operation is
\* rolled back.
Acquire(now, batch) ==
  LET valid == {c \in batch : Acquirable(c, now)}
  IN  /\ IF \E c \in valid : Clashes(c, valid)
         THEN /\ lost' = lost \cup {c \in valid : ~Clashes(c, valid)}
              /\ UNCHANGED <<artifacts, acquired, verified>>
         ELSE Keep(now, valid)
      /\ UNCHANGED <<clock, provider, turns, searches, candidates>>

\* What a revalidation finds.
Found(v) ==
  LET state == provider[PageOf(v)]
  IN  IF state = "removed" THEN "removed"
      ELSE IF LicenseIn(state) # LicenseIn(v[2]) THEN "license-changed"
      ELSE IF BytesIn(state) # BytesIn(v[2]) THEN "content-changed"
      ELSE "verified"

\* _store_projection: a verdict of the next revision takes the place of the last.
WithVerdict(v, status, now) ==
  [verified EXCEPT ![v] = Verdict(status, now, @.revision + 1)]

\* revalidate_network_visual: what the provider says now, with evidence of its own.
Revalidate(now, v) ==
  /\ v \in DOMAIN acquired /\ verified[v].revision <= MaxRevalidations
  /\ verified' = WithVerdict(v, Found(v), now)
  /\ UNCHANGED <<clock, provider, turns, searches, candidates, artifacts, acquired, lost>>

\* current_network_visual_verification
StatusAt(v, now) ==
  IF verified[v].status = "verified" /\ now > verified[v].at + VerificationTTL THEN "expired"
  ELSE verified[v].status

Batches == SUBSET candidates \ {{}}

VisualsNext ==
  \/ Tick
  \/ \E p \in Pages, s \in States : Turn(p, s)
  \/ \E now \in Now : Discover(now)
  \/ \E now \in Now, batch \in Batches : Acquire(now, batch)
  \/ \E now \in Now, v \in Visuals : Revalidate(now, v)

VisualsSpec == VisualsInit /\ [][VisualsNext]_visualVars

-----------------------------------------------------------------------------
\* A candidate that fails does not take its siblings with it: whatever of a batch
\* could be acquired is (acquire_network_visuals; tests/test_network_visuals.py:190
\* asks it of a batch with a candidate that was never found).
SiblingsAreKept == lost = {}

\* A verdict is replaced by a later verdict only, and one against a visual by what
\* the provider says of it again: acquiring the page again does not clear it
\* (_store_projection, revalidate_network_visual).
VerdictsAreKept ==
  [][\A v \in DOMAIN verified :
       /\ v \in DOMAIN verified'
       /\ verified'[v] # verified[v] => verified'[v].revision = verified[v].revision + 1
       /\ verified[v].status # "verified" /\ verified'[v].status = "verified"
            => provider[PageOf(v)] = v[2]]_visualVars
=============================================================================
