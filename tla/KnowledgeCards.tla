--------------------------- MODULE KnowledgeCards ---------------------------
(***************************************************************************)
(* The governance of knowledge cards: drafts are imported or proposed as   *)
(* upgrades of cards whose source has changed (import_pipeline.py,         *)
(* upgrades.py), reviewed (reviews.py, near_duplicates.py) and published   *)
(* as immutable releases (cards.py), whose status is a projection of an    *)
(* append-only ledger of events (lifecycle.py).  A publication queued by   *)
(* an operation (operations.py, jobs.py) leaves a row in the outbox of the *)
(* index.                                                                  *)
(*                                                                         *)
(* Every action is one BEGIN IMMEDIATE transaction, except that a proposal *)
(* reads the cards it is about before it opens its own.                    *)
(*                                                                         *)
(* Simplifications:                                                        *)
(*  - an identifier that is a digest is the value that is digested: the    *)
(*    release of a draft is a constant of the draft, and the basis of a    *)
(*    review task is the set of versions its evidence digests;             *)
(*  - bytes at rest are not changed, so a digest a caller expects is the   *)
(*    stored one, and what a draft refers to stays valid;                  *)
(*  - an operation repeated under its identifier is answered from the      *)
(*    ledger and changes nothing (KnowledgeImports has its actors).        *)
(***************************************************************************)
EXTENDS Naturals, FiniteSets, SequencesExt

CONSTANTS Imported,     \* drafts an import extracts
          Candidates,   \* drafts a source change proposes
          Releases,     \* the versions publication creates
          ReleaseOf,    \* the version each draft is published as
          CardOf,       \* the logical card of each version
          ContentOf,    \* the canonical content of each version
          UpgradeOf,    \* the version each candidate is an upgrade of
          Affected,     \* versions that cite the source that changes
          Alike,        \* pairs of contents a near-duplicate scan proposes
          Jobs,         \* publish jobs, by operation identifier
          Submits,      \* the draft each publish job submits
          Direct,       \* bound: drafts published without an operation
          Suspendable,  \* bound: versions that are suspended
          Decisions,    \* bound: decisions taken on each kind of review task
          MaxToggles,   \* bound: suspensions and reinstatements
          MaxProposals  \* bound: proposals of upgrades

Drafts == Imported \cup Candidates
Versions == Drafts \cup Releases

ASSUME CardsAssumption ==
  /\ Imported \cap Candidates = {} /\ Drafts \cap Releases = {}
  /\ ReleaseOf \in [Drafts -> Releases]
  /\ \A d, e \in Drafts : ReleaseOf[d] = ReleaseOf[e] => d = e
  /\ \A d \in Drafts : /\ CardOf[ReleaseOf[d]] = CardOf[d]
                       /\ ContentOf[ReleaseOf[d]] = ContentOf[d]
  /\ UpgradeOf \in [Candidates -> Versions]
  /\ Affected \subseteq Versions
  /\ Submits \in [Jobs -> Drafts]
  /\ Direct \subseteq Drafts /\ Suspendable \subseteq Versions
  /\ "none" \notin Versions
  /\ MaxToggles \in Nat /\ MaxProposals \in Nat

VARIABLES
  events,     \* card_lifecycle_events: the ledger of each version
  status,     \* card_lifecycle_current: the status of each version
  suspended,  \* card_lifecycle_current: the suspended versions
  fts,        \* card_fts: the versions with a row
  decision,   \* review_tasks and their resolutions
  suggested,  \* upgrade_suggestions: candidate and basis
  dedup,      \* lineage: the edges of relation "deduplicates"
  outcome,    \* operation_outcomes: what each publish job has published
  outbox,     \* knowledge_index_outbox, in the order of its rows
  proposal,   \* what a proposal under way has read
  toggles, proposals

cardVars == <<events, status, suspended, fts, decision, suggested, dedup, outcome, outbox,
              proposal, toggles, proposals>>
lifecycleVars == <<events, status, suspended, fts>>

Statuses == {"none", "review", "published", "superseded", "archived"}
EventTypes == {"review", "release", "duplicate", "supersede", "archive", "suspend", "reinstate"}
Kinds == {"provenance", "near-duplicate", "exact-duplicate", "source-changed"}
Answers == {"accept", "reject", "dismiss"}
Tasks == [kind : Kinds, subject : Versions, basis : SUBSET Versions]
NoProposal == {"none"}

CardsInit ==
  /\ events = [v \in Versions |-> <<>>]
  /\ status = [v \in Versions |-> "none"]
  /\ suspended = {}
  /\ fts = {}
  /\ decision = [t \in {} |-> "open"]
  /\ suggested = {}
  /\ dedup = {}
  /\ outcome = [j \in Jobs |-> "none"]
  /\ outbox = <<>>
  /\ proposal = NoProposal
  /\ toggles = 0
  /\ proposals = 0

-----------------------------------------------------------------------------
(* lifecycle.py *)

\* Fault: a release that was replaced counts as not there.
StoredLive(v) == status[v] \notin {"none", "superseded"}

Stored(v) == status[v] # "none"
Live(v) == status[v] = "published" /\ v \notin suspended

\* The state after an event.  The state before it allows the event.
Event(s, e) ==
  CASE e = "review"     -> [status |-> "review", suspended |-> FALSE]
    [] e = "release"    -> [status |-> "published", suspended |-> FALSE]
    [] e = "duplicate"  -> [status |-> "archived", suspended |-> FALSE]
    [] e = "supersede"  -> [s EXCEPT !.status = "superseded"]
    [] e = "archive"    -> [s EXCEPT !.status = "archived"]
    [] e = "suspend"    -> [s EXCEPT !.suspended = TRUE]
    [] e = "reinstate"  -> [s EXCEPT !.suspended = FALSE]

Current(v) == [status |-> status[v], suspended |-> v \in suspended]

\* _insert_event and _refresh_card_fts, of one event to each version of a set: an
\* event carries the state after it, and the projection and the index of the text
\* follow it.
Record(e) ==
  LET next == [v \in DOMAIN e |-> Event(Current(v), e[v])]
  IN  /\ events' = [v \in Versions |->
                      IF v \in DOMAIN e THEN Append(events[v], [type |-> e[v], after |-> next[v]])
                      ELSE events[v]]
      /\ status' = [v \in Versions |-> IF v \in DOMAIN e THEN next[v].status ELSE status[v]]
      /\ suspended' = {v \in Versions : IF v \in DOMAIN e THEN next[v].suspended
                                        ELSE v \in suspended}
      /\ fts' = (fts \ DOMAIN e)
                   \cup {v \in DOMAIN e : next[v] = [status |-> "published", suspended |-> FALSE]}

\* register_card_lifecycle, of new drafts.
Register(new) == Record([v \in new |-> "review"])

\* insert_card: a draft that is there stays as it is.
InsertCards(drafts) == Register({d \in drafts : ~Stored(d)})

\* A version a lecturer suspends, or reinstates.
Suspend(v) ==
  /\ toggles < MaxToggles /\ Stored(v) /\ v \notin suspended
  /\ Record([w \in {v} |-> "suspend"])
  /\ toggles' = toggles + 1
  /\ UNCHANGED <<decision, suggested, dedup, outcome, outbox, proposal, proposals>>

Reinstate(v) ==
  /\ toggles < MaxToggles /\ Stored(v) /\ v \in suspended
  /\ Record([w \in {v} |-> "reinstate"])
  /\ toggles' = toggles + 1
  /\ UNCHANGED <<decision, suggested, dedup, outcome, outbox, proposal, proposals>>

\* rebuild_card_lifecycle_projection: every ledger is replayed, and every event
\* compared with the state before it.
Unborn == [status |-> "none", suspended |-> FALSE]
After(v, n) == IF n = 0 THEN Unborn ELSE events[v][n].after
Replayed(v) == After(v, Len(events[v]))
Consistent(v) ==
  \A n \in 1 .. Len(events[v]) : After(v, n) = Event(After(v, n - 1), events[v][n].type)

Rebuild ==
  /\ \A v \in Versions : Consistent(v)
  /\ status' = [v \in Versions |-> Replayed(v).status]
  /\ suspended' = {v \in Versions : Replayed(v).suspended}
  /\ fts' = {v \in Versions : Replayed(v) = [status |-> "published", suspended |-> FALSE]}
  /\ UNCHANGED <<events, decision, suggested, dedup, outcome, outbox, proposal, toggles,
                 proposals>>

-----------------------------------------------------------------------------
(* reviews.py *)

Task(kind, v, basis) == [kind |-> kind, subject |-> v, basis |-> basis]
Open(t) == t \in DOMAIN decision /\ decision[t] = "open"

\* create_review_task: a task that is there, open or resolved, stays as it is.
WithTasks(new) == [t \in DOMAIN decision \cup new |->
                     IF t \in DOMAIN decision THEN decision[t] ELSE "open"]

\* resolve_review_task: once, whatever the decision.
ResolveReview(t, answer) ==
  /\ Open(t)
  /\ decision' = [decision EXCEPT ![t] = answer]

\* resolve_upgrade_suggestion: the review of a suggestion is resolved; the
\* candidate stays a draft.
ResolveUpgrade(s, answer) == ResolveReview(Task("source-changed", s[1], s[2]), answer)

\* The jobs of a decision leave nothing but the decision: no card changes, and no
\* work is queued for the index.
RunReview(t, answer) ==
  /\ answer \in Decisions[t.kind] /\ ResolveReview(t, answer)
  /\ UNCHANGED <<lifecycleVars, suggested, dedup, outcome, outbox, proposal, toggles, proposals>>

RunUpgrade(s, answer) ==
  /\ answer \in Decisions["source-changed"] /\ ResolveUpgrade(s, answer)
  /\ UNCHANGED <<lifecycleVars, suggested, dedup, outcome, outbox, proposal, toggles, proposals>>

-----------------------------------------------------------------------------
(* near_duplicates.py and cards.py *)

\* _published_index
Index(v) == {w \in Versions \ {v} : Live(w)}

\* find_exact_duplicate
ExactDuplicates(v) == {w \in Index(v) : ContentOf[w] = ContentOf[v]}

\* _proposed_candidates, of the scan an index was read for.
Proposed(v, index) == {w \in index : <<ContentOf[v], ContentOf[w]>> \in Alike}

\* scan_near_duplicates, of a draft: its callers pass no provider of embeddings, so
\* the semantic lane is not available, and the scan opens a task whether it
\* proposes a duplicate or not.  Its evidence digests the index it has read.
MayScan(v) == status[v] = "review" /\ v \notin suspended
ScanTask(v) == Task("near-duplicate", v, Index(v))

\* _review_candidate_ids: what the scan of a task has proposed.
ProposedBy(t) == Proposed(t.subject, t.basis)

\* resolve_near_duplicate_review: the draft is a duplicate of a published card.
LinkDuplicate(t, target) ==
  /\ Open(t) /\ t.kind = "near-duplicate"
  /\ target \in ProposedBy(t) /\ Live(target)
  /\ status[t.subject] # "archived"
  /\ ResolveReview(t, "accept")
  /\ dedup' = dedup \cup {<<t.subject, target>>}
  /\ Record([w \in {t.subject} |-> "archive"])
  /\ UNCHANGED <<suggested, outcome, outbox, proposal, toggles, proposals>>

\* persist_governed_import, of one draft: its review tasks come with it.  Bound:
\* a draft is imported once.
Import(d) ==
  /\ ~Stored(d)
  /\ InsertCards({d})
  /\ decision' = WithTasks({Task("provenance", d, {}), ScanTask(d)}
                           \cup {Task("exact-duplicate", d, {}) : w \in ExactDuplicates(d)})
  /\ UNCHANGED <<suggested, dedup, outcome, outbox, proposal, toggles, proposals>>

-----------------------------------------------------------------------------
(* upgrades.py *)

\* _affected_snapshot: every version that cites the source, whatever its status.
AffectedNow == {v \in Affected : Stored(v)}

\* propose_source_change_upgrades, up to its BEGIN.
ReadAffected ==
  /\ proposal = NoProposal /\ proposals < MaxProposals
  /\ proposal' = AffectedNow
  /\ proposals' = proposals + 1
  /\ UNCHANGED <<lifecycleVars, decision, suggested, dedup, outcome, outbox, toggles>>

\* The candidates of the affected versions, those a basis has been given already
\* among them.
Asked(basis) == {c \in Candidates : UpgradeOf[c] \in basis}
Unmade(basis) == {c \in Asked(basis) : <<c, basis>> \notin suggested}

\* _reuse_candidate: the candidate of an earlier proposal is used again.
Absent(new) == {c \in new : ~Stored(c)}

\* _candidate_gate_evidence and the scan: the reviews of a candidate.
Gates(c, basis) == {ScanTask(c), Task("provenance", c, basis)}

\* _require_existing_card_replay_gates
GatesStand(c, basis) ==
  /\ \E t \in DOMAIN decision : t.kind = "near-duplicate" /\ t.subject = c
  /\ Task("provenance", c, basis) \in DOMAIN decision

\* _make_upgrade_suggestion: its review, and the suggestion it is bound to.
SuggestionTask(c, basis) == Task("source-changed", c, basis)
WithSuggestions(new, basis) == suggested \cup {<<c, basis>> : c \in new}

\* propose_source_change_upgrades, from its BEGIN: the scan refuses a candidate
\* that is no longer an unsuspended draft, and with it everything.
ProposeUpgrades ==
  LET new == Unmade(proposal)
  IN  /\ proposal # NoProposal
      /\ \A c \in new \ Absent(new) : MayScan(c)
      /\ \A c \in Asked(proposal) \ new : GatesStand(c, proposal)
      /\ InsertCards(Absent(new))
      /\ decision' = WithTasks(UNION {Gates(c, proposal) \cup {SuggestionTask(c, proposal)} : c \in new})
      /\ suggested' = WithSuggestions(new, proposal)
      /\ proposal' = NoProposal
      /\ UNCHANGED <<dedup, outcome, outbox, toggles, proposals>>

\* It fails, for one of its candidates, or its process is gone.
AbandonProposal ==
  /\ proposal # NoProposal
  /\ proposal' = NoProposal
  /\ UNCHANGED <<lifecycleVars, decision, suggested, dedup, outcome, outbox, toggles, proposals>>

-----------------------------------------------------------------------------
(* cards.py: publication *)

\* The published card an archived version was found to be a duplicate of.
Targets(v) == {w \in Versions : <<v, w>> \in dedup /\ Live(w)}
ReturnsTarget(v, w) == status[v] = "archived" /\ Targets(v) = {w} /\ w # v

\* Fault: whatever was decided.
UnblockedByDecision(d) == \A t \in DOMAIN decision : t.subject = d => ~Open(t)

\* _validate_no_blocking_reviews
Unblocked(d) ==
  /\ \A t \in DOMAIN decision : t.subject = d => ~Open(t)
  /\ \A t \in DOMAIN decision : t.subject = d /\ t.kind = "source-changed"
                                  => <<d, t.basis>> \in suggested /\ decision[t] = "accept"

\* A draft that may be published: one that was archived as a duplicate is
\* answered with its target, as long as there is exactly one.
Publishable(d) ==
  /\ Stored(d) /\ d \notin suspended
  /\ ~\E w \in Versions : ReturnsTarget(d, w)
  /\ Unblocked(d)

\* _stored_version_outcome
ReturnsRelease(d, w) ==
  LET r == ReleaseOf[d]
  IN  /\ Publishable(d) /\ Stored(r) /\ r \notin suspended
      /\ \/ status[r] = "published" /\ w = r
         \/ ReturnsTarget(r, w)

\* What publish_card returns for a draft without writing anything.
Returns(d, w) ==
  \/ Stored(d) /\ d \notin suspended /\ ReturnsTarget(d, w)
  \/ ReturnsRelease(d, w)

\* Fault: only the version the draft was made from.
SupersededBase(r) == {v \in Versions \ {r} : status[v] = "published" /\ \E c \in Candidates : ReleaseOf[c] = r /\ UpgradeOf[c] = v}

\* _supersede_published_revisions
Superseded(r) == {v \in Versions \ {r} : CardOf[v] = CardOf[r] /\ status[v] = "published"}

\* publish_card of a draft whose content is not published: the release takes
\* the place of the published version of its card.
ReleaseNew(d) ==
  LET r == ReleaseOf[d]
  IN  /\ Publishable(d) /\ ~Stored(r)
      /\ ExactDuplicates(r) = {}
      /\ Record([v \in {r} \cup Superseded(r) |-> IF v = r THEN "release" ELSE "supersede"])
      /\ UNCHANGED <<decision, dedup>>

\* _insert_dedup_lineage and _record_exact_duplicate_audit
WithDuplicate(r, w) == dedup \cup {<<r, w>>}
WithAudit(r, w) ==
  LET t == Task("exact-duplicate", r, {w})
  IN  [x \in DOMAIN decision \cup {t} |-> IF x = t THEN "accept" ELSE decision[x]]

\* publish_card of a draft whose content is published: the release is archived,
\* and its review is created and resolved with it.
ReleaseDuplicate(d, w) ==
  LET r == ReleaseOf[d]
  IN  /\ Publishable(d) /\ ~Stored(r)
      /\ w \in ExactDuplicates(r)
      /\ Record([v \in {r} |-> "duplicate"])
      /\ dedup' = WithDuplicate(r, w)
      /\ decision' = WithAudit(r, w)

\* What publish_card of a draft does and returns; the writer picks the duplicate.
Publishes(d, w) ==
  \/ Returns(d, w) /\ UNCHANGED <<lifecycleVars, decision, dedup>>
  \/ w = ReleaseOf[d] /\ ReleaseNew(d)
  \/ ReleaseDuplicate(d, w)

\* publish_card, called by the other pipelines: without an operation.
PublishDirect(d) ==
  /\ ReleaseNew(d) \/ \E w \in Versions : ReleaseDuplicate(d, w)
  /\ UNCHANGED <<suggested, outcome, outbox, proposal, toggles, proposals>>

\* publication_receipt: of the archived versions of one submission at most one
\* may name the card.  Drafts of one card and one content are one submission.
ReceiptIsUnique(d, w, edges) ==
  Cardinality({r \in Releases : /\ <<r, w>> \in edges
                                /\ CardOf[r] = CardOf[d] /\ ContentOf[r] = ContentOf[d]}) <= 1

\* _publish_card_mutation under run_operation: the outcome and the row of the
\* outbox are written with the publication.
RunPublish(j) ==
  /\ outcome[j] = "none"
  /\ \E w \in Versions :
       /\ Publishes(Submits[j], w)
       /\ ReceiptIsUnique(Submits[j], w, dedup')
       /\ status'[w] = "published" /\ w \notin suspended'
       /\ outcome' = [outcome EXCEPT ![j] = w]
       /\ outbox' = Append(outbox, w)
  /\ UNCHANGED <<suggested, proposal, toggles, proposals>>

-----------------------------------------------------------------------------
CardsNext ==
  \/ \E v \in Suspendable : Suspend(v) \/ Reinstate(v)
  \/ Rebuild
  \/ \E t \in DOMAIN decision : \/ \E answer \in Answers : RunReview(t, answer)
                                \/ \E target \in Versions : LinkDuplicate(t, target)
  \/ \E s \in suggested, answer \in Answers : RunUpgrade(s, answer)
  \/ \E d \in Imported : Import(d)
  \/ \E d \in Direct : PublishDirect(d)
  \/ ReadAffected \/ ProposeUpgrades \/ AbandonProposal
  \/ \E j \in Jobs : RunPublish(j)

CardsSpec == CardsInit /\ [][CardsNext]_cardVars

-----------------------------------------------------------------------------
TypeOK ==
  /\ events \in [Versions -> Seq([type : EventTypes,
                                  after : [status : Statuses, suspended : BOOLEAN]])]
  /\ status \in [Versions -> Statuses]
  /\ suspended \subseteq Versions /\ fts \subseteq Versions
  /\ DOMAIN decision \subseteq Tasks
  /\ \A t \in DOMAIN decision : decision[t] \in Answers \cup {"open"}
  /\ suggested \subseteq Candidates \X SUBSET Versions
  /\ dedup \subseteq Versions \X Versions
  /\ outcome \in [Jobs -> Versions \cup {"none"}]
  /\ outbox \in Seq(Versions)
  /\ proposal = NoProposal \/ proposal \subseteq Versions
  /\ toggles \in Nat /\ proposals \in Nat

\* A card has one published version, whatever pipelines, retries and duplicates
\* its releases come from (cards.py _supersede_published_revisions).
OnePublishedVersion ==
  \A v, w \in Versions :
    status[v] = "published" /\ status[w] = "published" /\ CardOf[v] = CardOf[w] => v = w

WasSuspended(v) == \E n \in DOMAIN events[v] : events[v][n].type = "suspend"

\* Content is published once (cards.py find_exact_duplicate), unless one of its
\* versions was suspended when the other came out.
TwinsWereSuspended ==
  \A v, w \in Versions :
    Live(v) /\ Live(w) /\ v # w /\ ContentOf[v] = ContentOf[w]
      => WasSuspended(v) \/ WasSuspended(w)

\* Both: retrieval, and whatever pins a card, would otherwise find two for one
\* (cards.py publish_card, from two pipelines and for drafts of equal content).
PublishedOnce == OnePublishedVersion /\ TwinsWereSuspended

\* What a newer release has replaced, or a duplicate, is never published again:
\* not by the retry of its own publication under a new operation (cards.py
\* _stored_version_outcome).
ReplacedStaysReplaced ==
  [][\A v \in Versions : status[v] \in {"superseded", "archived"} => status'[v] # "published"]_cardVars

\* An upgrade whose source change was refused, in any of the proposals that made
\* it a candidate, does not come out, even when all its other reviews are
\* settled (cards.py _validate_no_blocking_reviews).
RefusedUpgradesStayOut ==
  [][\A c \in Candidates :
       /\ \E t \in DOMAIN decision : /\ t.kind = "source-changed" /\ t.subject = c
                                     /\ decision[t] \in {"reject", "dismiss"}
       /\ status[ReleaseOf[c]] = "none"
       => status'[ReleaseOf[c]] = "none"]_cardVars
=============================================================================
