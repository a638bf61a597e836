# Course Studio: TLA+ models, checks and proofs

This directory holds a formal model of Course Studio (`src/platform`): TLA+
modules translated from its source, the TLC configurations that check them on
small instances, and TLAPS proofs of what matters most for every instance.
`PROJECT.json` is the index: components, runs, the source lines each definition
stands for, hazards, findings and theorems.

    tlc -workers 2 -config PersonalCourseAnswers.cfg MCPersonalCourse.tla
    tlapm PersonalCourseProofs.tla

## 1. The system

Course Studio turns imported material (slides, notes, data) into a course. A
teacher runs a local *helper* (Python, `helper/course_helper`), works in a web
page it serves (`web/`), and projects the result through a Windows *projection
host* (`windows/`). Everything durable is in one SQLite database in WAL mode and in
content-addressed files beside it; catalog objects are immutable versions, and
writing an identity again with other bytes is refused
(`ImmutableVersionConflict`).

| Component | State | Operations | Talks to |
|---|---|---|---|
| Personal course runs (`domain/personal_course.py`, `personal_runs.py`) | one row per run: status, revision, evidence, pending question | create, read, list resumable, advance by compare-and-swap on the revision | everything below |
| Supervisor (`personal_supervisor.py`) | a thread pool, `_active` futures by run, a lock | start, done callback, resume pending runs at boot, shutdown | runs, orchestrator |
| Orchestrator (`personal_orchestrator.py`, `personal_knowledge.py`) | locals of a thread; the run's artifacts in the catalog | a loop of at most 16 laps over six phases | ledger, outbox, cards, composer |
| Personal jobs (`personal_jobs.py`) | none of their own | create, status, resolve (answer a question) | runs, supervisor, reviews |
| Server (`server.py`) | process mode | boot, bind, serve, close, crash | supervisors, API |
| Operation ledger (`operations.py`) | outcomes by operation, bound to actor, session and request digest | run once, replay, refuse, look up | catalog |
| Uploads and imports (`uploads.py`, `import_pipeline.py`) | uploads, leases, source files, knowledge rows | upload, lease, promote, import, cancel | ledger, parsers |
| Job runner (`jobs.py`) | one spawned child per request, evidence files | run under a deadline, kill, recover the outcome, report | ledger, every handler |
| API and session (`api.py`, `session.py`) | launch nonce, token, request threads, projection gate | requests of the page | job runner, supervisors |
| Cards, reviews, upgrades (`cards.py`, `lifecycle.py`, `reviews.py`, `near_duplicates.py`, `upgrades.py`) | a ledger of events per version with its projection, review tasks, suggestions, edges between duplicates | import, review, publish, supersede, suspend, propose, decide | ledger, outbox |
| Index (`index_outbox.py`) | rows of work, claims with leases, snapshots | enqueue, claim, expire, complete, reopen | cards |
| Composition and courses (`composer.py`, `catalog.py`, `slide_builder.py`) | outlines, confirmations, courses with decks and manifests, placements | search and compose, register, confirm, attach, publish | cards, index, visuals |
| Network visuals (`network_visuals.py`) | candidates, acquisitions, verdicts | discover, acquire in batches, revalidate | Wikimedia Commons, courses |
| Projection client (`projection_host.py`, `projection_bundle.py`) | the transport of one host, cached receipts | six commands, cancel, shutdown | courses, API, host |
| Projection host (`windows/…`) | session, windows, presentation, certification | commands, frames, witness | client |
| Embedding model (`model_cache.py`, `embedding_live.py`, `qa/run.py`) | candidate, manifest, a promoted generation with its access lists, receipts | bootstrap, final phase, bind, replay, seal | package index |
| Web workspace (`web/src/state`, `web/src/domain`) | course draft, teaching session, local storage | edit, save, restore, follow jobs | API, projection bus |

Parsers and chart builders are functions without state; the rest of the acceptance
harness (`qa/`), fixtures and assets are outside the running system.

### What is hard

- **Threads over one row.** The supervisor's threads, request threads and, when
  two helpers are started, threads of two processes write the same run; only
  the compare-and-swap on its revision is between them.
- **Answers that outlive their request.** A request of a personal course is
  answered 504 after 5 seconds while its thread goes on; a projection command is
  cancelled while its thread may be launching a host.
- **Crashes between transactions.** A phase writes several artifacts, an answer
  three transactions; at boot the run is resumed by another actor than the one
  that created it, and every operation is bound to its actor.
- **Children killed anywhere.** Every other job runs in a child that is
  terminated at a deadline or when the client goes away; whether its work was
  committed is found out afterwards from the ledger.
- **Reading before the transaction that writes.** Searches precede the transaction
  that registers an outline, the affected cards precede the one that proposes
  upgrades, the clock precedes the wait for the database lock.
- **One card from many pipelines.** Imports, upgrades, duplicates, reviews and
  suspensions each decide in a transaction of their own whether a version is live.
- **Leases.** Index work is claimed, its worker may be slow or gone, and the next
  one takes over; the slow one may still answer.
- **Two processes with one pipe.** The native host hangs, crashes and loses
  windows while commands, frames and the witness go on.
- **Undoing.** A run that promotes a generation or moves a receipt aside fails
  halfway and takes back what is its own, while others use it.

What makes each part correct: a run is driven by one future per process, moves
only on the evidence of the phase or the answer it leaves, is always in
somebody's hands, and ends ready only over complete work; an answer is never
spent in vain; unsettled cards are never published; an input is never lost
while it can be imported, and what the client is told of a job is what is
stored; a card has one published version and what was replaced stays replaced;
every publication is indexed and found; an outline can be taught, what was
withdrawn is not, and editions follow one another; no command of the projection
meets the answer to another, and a certification speaks of one frame; a sealed
receipt is backed by what it certifies. The hazards behind these, at their lines,
are in `PROJECT.json`.

## 2. The modules

### Personal courses

`PersonalRuns` — the persisted row and the pure functions over it: the transition
table of `PersonalCourseRun`, what `advance` may do and the row it yields,
the search for the phase that asked (`_attention_phase`) and the phase an answer
resumes at (`_resume_status`).

`PersonalCourse` — the engine: one action per transaction or per critical section
of the supervisor's lock.

| Actions | Code |
|---|---|
| `Boot`, `Bind`, `Close`, `Exit`, `Crash` | `server.main`, `resume_pending`, `shutdown` |
| `Callback` and the thread actions from taking a future to returning | `PersonalCourseSupervisor.start/_forget`, `resume_personal_course` |
| begin and end of each handler, one action per transaction inside | the six phase handlers, `organize_personal_knowledge`, the index loop |
| the request actions: create; resolve, record, resume, start | `run_personal_job`, `_resolve_attention` |
| `User` | the page sending a request; nothing obliges it to |
| `OtherJob`: `RunKnowledgePublish`, `RunKnowledgeIndex` | jobs of the page over the same database: an upgrade of a card is published and takes its place; the oldest index work is claimed and completed in one transaction |

Cards are model values with what the import left open about them (`KindOf`);
evidence is a record of who wrote it, about which phase and with which verdict; the
immutable artifacts of a run are reduced to who committed them and over which
cards or snapshot, because that is what a replay is compared with. A card that was
`replaced` fails every operation that asks for live cards (`PublishCard`,
`MeetReplaced`), and the index loop ends at a ceiling of attempts (`IndexEnd`).

`PublicCourse` — the abstract specification: what the page is shown of a request
(`creating`, `needs-attention`, `ready`, `failed`, and the stage). The
property `KeepsPublicPromise` says that `PersonalCourse` implements it under the
mapping of `_PHASE` and `_stage`.

### Imports

`KnowledgeImports` — uploads, leases, the content-addressed store and the bounded
runner of spawned children. A request occupies a slot: `runner` is the
coroutine in `BoundedJobRunner.run`, `child` the spawned process. One action per
transaction or file operation of the child:

| Actions | Code |
|---|---|
| `CreateUpload`, `PassExpiry` | `_UploadWriter.finish`, `UPLOAD_TTL` |
| `LeaseUpload` | `operation_status`, `start_import` |
| `BeginPromotion` … `CleanInput` | `promote_import`, `_install_blob`: replay or check, copy, link, unlink, verify, commit, delete the input |
| `InspectSource`, `PersistImport` | `import_status` and the parser, then the import's operation |
| `CancelImport`, `DiscardInput` | `cancel_import_operation` |
| `ExitChild` | `result_queue.put`; a result larger than the pipe blocks |
| `Submit`, `ReadResult`, `Interrupt`, `Abandon`, `Reap` | `BoundedJobRunner.run`, with `_recover_committed_operation` |
| `CrashHelper` | a crash and the next launch with a new token; children go on |

The lease and the promotion are operations of their own whose rows are committed
with the state of the lease, so the state of the lease stands for them.

### Cards and their index

`KnowledgeCards` — the governance of cards. A *version* is a draft or the release
publication makes of it; each has its ledger of events, from which its status, its
suspension and its row of the text index follow (`Record`). One action per
transaction:

| Actions | Code |
|---|---|
| `Import` | `persist_governed_import`: the draft, its provenance task, the scan for near duplicates, the task of an exact duplicate |
| `RunReview`, `RunUpgrade`, `LinkDuplicate` | `resolve_review_task`, `resolve_upgrade_suggestion`, `resolve_near_duplicate_review` |
| `ReadAffected`, `ProposeUpgrades`, `AbandonProposal` | `propose_source_change_upgrades`, before and after its `BEGIN` |
| `PublishDirect`, `RunPublish` | `publish_card` by other pipelines, and by `_publish_card_mutation` with its outcome and its row of the outbox |
| `Suspend`, `Reinstate`, `Rebuild` | `append_card_lifecycle_event`, `rebuild_card_lifecycle_projection` |

A review task is identified, as in the code, by what its evidence digests: two
proposals over the same affected versions are one basis. Publishing a draft has the
outcomes of `_publish_card_in_transaction`: the target of a duplicate
(`ReturnsTarget`), the release that is there (`ReturnsRelease`), a new release that
supersedes its card's published version (`ReleaseNew`), or one archived as the
duplicate of another (`ReleaseDuplicate`).

`KnowledgeIndex` — extends it by the outbox: claims with leases by workers that
claim and complete in two transactions, jobs that do both in one (`IndexJob`),
failed completions, snapshots with the facts they were sealed over, and what a
search reads (`Searchable`).

### Projection

`NativeHost` — the host as functions of a record (the process dies with its state):
the commands of `NativeProjectionCommandExecutor` with their outcomes, the
presentation that keeps two windows on one frame, and the reducer of
`ProjectionReducer.cs` that certifies.

`Projection` — composes hosts with the supervisor and the gate of the API:

| Actions | Code |
|---|---|
| `Request`, `Acquire`, `Answer`, `Cancel`, `CancelCurrent`, `CancelClosed`, `Join` | the gate and `_run_projection_job`, `_cancel_and_join_projection` |
| `Begin`, `Launch`, `Ensure`, `Resolve`, `Send`, `ExpectReady`, `Transfer`, `Broken`, `Receive`, `HostTimeout`, `CloseTransport` | `ProjectionHostSupervisor._execute` and what it calls, in the thread of a command; a message is written at once, or in part and then waits (`Blocked`) for the host to read on or to end |
| `Shutdown`, `ShutdownClosed` | `shutdown`, which takes no lock of the commands |
| `HostReadsOn`, `HostReceives`, `HostOpens`, `HostWitnessed` | the loop of `RunAsync`, `ProcessCommandAsync`, `ProcessBootstrapAsync`, the awaited witness of `VerifyAsync` |
| `Navigate`, `Commit`, `LoseWindow`, `HostCrash` | `ApplyControlAsync`, `ObserveCommit`, `OnWindowInvalidated`, the process |

Launching happens under `_transport_lock`, so it is one action; closing a transport
is two (taken, then ended), and what the host wrote before its end can still be read.

### Courses

`CourseOutline` — the pure part of composition: search, selection of cards with what
they presuppose, chapters, slots and gaps, as recursive functions and folds.

`NetworkVisuals` — candidates, acquisition in batches, verdicts and their expiry,
against a provider that changes its mind.

`CoursePublication` — composes both: composing (`RetrieveFor` a search at a time,
`PrepareFor`, `RegisterFor`), confirming (`RunConfirm`), attaching (`RunAttach`) and
publishing (`RunPublishCourse`), while cards are withdrawn and reviews open. What
`PublishedProjectionBundleResolver` accepts is `Opens`, which is what `Resolve` of
`Projection` asks for. `course_validate` and `course_visual_detach` change no state:
the one registers a draft that is not referred to, the other nothing.

### The embedding model

`WheelResolver` — the choice of wheels by backtracking, and the closure the
final phase requires of them. `EmbeddingModel` — runs of the producer, each a
sequence of steps (`Final`, `Bind`, `Replay`, `Seal`) over the tree of the promoted
generation with its access lists and held handles, the receipts and their copies;
with failure, rollback, kill, strange files and edits between any two steps. Every step
may fail, closing the access lists or putting them back also halfway; a generation that
was promoted is `known` to its run once its identity has been read, and only what is
known is taken back.

### MC modules and proofs

`MC…` modules give the constants of TLC's instances. `PersonalCourseProofs`,
`PersonalSafetyProofs`, `KnowledgeImportsProofs`, `KnowledgeIndexProofs`,
`CoursePublicationProofs`, `ProjectionProofs` and `EmbeddingModelProofs` hold the theorems,
`Recursion` the lemmas about numbers and recursive functions (section 5).

Each module keeps, beside an operator, the faulty variants of it ("Fault: …",
"A plausible slip") that a bug would make of it. Every property of a passing run is
violated under one of them (`mutants` in `PROJECT.json`): it depends on
the code that operator stands for.


## 3. The runs

| Run | Instance | Shows |
|---|---|---|
| `settles` | 2 personal runs with nothing to ask, 1 thread, 1 request at a time, 1 crash, fair | a run at a phase status is in somebody's hands; runs settle |
| `answers` | 1 run that asks about a conflict, a near duplicate and a missing visual; 2 threads, 2 requests at a time | one future per run, moves are justified, ready is backed, questions stay answerable, and the refinement of `PublicCourse` |
| `two_processes` | 2 processes over one run, 1 crash | current reads are current; a lost race starts another lap |
| `shared_cards` | 2 runs that share 2 cards in another order, with a near duplicate, a conflict and a missing visual; 1 thread, 3 requests, 1 job that replaces a card or completes index work, 2 attempts of the index loop, 1 crash | nothing unsettled is published; a run fails only over earlier work that its thread cannot repeat: another actor's operation, its own outline over an index since replaced, a card that was replaced, an index lost to the job or over the ceiling |
| `imports` | 2 uploads of the same bytes; 3 imports (one a repetition), a cancellation; 2 children at a time, 3 requests, a result larger than the pipe, 1 crash, fair | inputs are kept, one fate, sources are stored, success is complete, what is done is not refused, requests are answered |
| `knowledge_index` | 2 imported drafts, one with the content another card's upgrade has; 2 candidates of one source change; 2 publication jobs and a direct publication; 1 suspension; 1 worker whose lease may pass once; fair | published once, replaced stays replaced, refused upgrades stay out, one hand per row, indexed is found, queued is indexed |
| `projection` | 7 commands of one session (two assignments, one with swapped screens), 2 requests, 2 hosts that may stop reading, 2 frames, 1 fault, fair | fresh channel, quiet between commands, certifications, commands are answered unless a message stays half read for ever |
| `embedding_model` | 4 producer runs, 3 packages of up to 2 versions with every useful choice of dependencies, 1 trouble (kill, overlap, strange file, edit) | what is resolved is closed and nothing is missed; a sealed receipt is backed; failure leaves nothing the run knows as its own; the replay runs intact; the prior receipt is recoverable |
| `publication` | 2 goals over 5 cards, of which one presupposes cards of another goal and of none, 2 composers, 3 confirmation jobs of which two share a confirmation, 2 placements, 3 editions, 1 page, 2 withdrawals or reviews, 1 turn of the provider, 1 revalidation, 2 turns of the clock | chapters can be taught, withdrawn and stale stay out, verdicts are kept, editions do not fork and open when illustrated in order and small enough |

The largest instances have 1,910,000 (`shared_cards`), 1,580,000
(`two_processes`), 1,390,000 (`embedding_model`), 580,000 (`imports`), 500,000
(`projection`), 485,000 (`publication`), 310,000 (`answers`) and 280,000
(`knowledge_index`) distinct states.

Three runs end in a violation: a test of the repository, or what it tells a client,
says one thing, and the code does another.

| Run | Finding |
|---|---|
| `imports_retried` | A job killed between `os.link` and `unlink` is reported as retryable (`jobs.py:1774`), and its file, which has two names now, is refused by every later import of the same bytes. |
| `projection_replay` | After the loss of a host, the next host answers a repeated command with the cached receipt of the lost one; `test_projection_host.py:285` says it is never replayed. |
| `visuals_siblings` | A second candidate of one image breaks a unique column, an error the batch does not catch, and its siblings are rolled back; `test_network_visuals.py:190` says the failure of one candidate leaves the others. |

Nine more configurations are kept beside them. Each reproduces a known departure
(section 7) in seconds and is not listed as a run, because a run stands for a property
that holds or for a document that is contradicted:
`PersonalCourseResume`, `PersonalCourseRepeatedQuestion`, `PersonalCourseLostStart`,
`PersonalCourseLostAnswer`, `PersonalCourseNewerIndex` (with `MCPersonalCourse`),
`EmbeddingModelShared` and `EmbeddingModelUnknown` (with `MCEmbeddingModel`),
`ProjectionBlocked` (with `MCProjection`) and `CourseUnopened` (with
`MCCoursePublication`).

### Bounds

Threads, processes, hosts, slots and requests: two of a kind, since every race in
question is between two. Runs, cards, uploads, drafts, confirmations: two, so that
one can be shared and one not; candidates of one image, two pages. Bounds on
how often something is done (`MaxCalls`, `MaxRequests`, `MaxRuns`, `MaxProposals`,
`MaxSearches`, `MaxEdition`, …) leave room for an action, its repetition and
a competitor; a competitor needs only one (`Second = 1` in `Projection.cfg`).
Bounds on faults (`MaxCrashes`, `MaxFaults`, `MaxLapses`, `MaxTroubles`) are
one: it may fall between any two steps, and what is done about it is done by
steps that may be disturbed by everything but another fault. Numbers that say
when something is over (`CandidateTTL`, `VerificationTTL`, `MaxWait`, `MaxClock`) are
the smallest for which in time, late, and sampled before the wait all differ. The
ceilings of the code (16 laps, 20 questions, 100 runs, 500 attempts of the index loop)
have their own values, but for the last one in `shared_cards`, where it is 2 so that it
is reached; `MaxJobs` (jobs of the page) is 1 there and 0 elsewhere. `MaxBootstrap`
counts the cards and visuals of an edition, and some have one more.
A card with an unsafe visual is asked about again whatever was answered, so its run never
gets further; it is in no instance, and in every proof.
`TicketNumbers` tells futures of one run apart: three are never all in use.

`EmbeddingModel` draws its package index from all indexes with up to two versions
of three packages whose optional dependencies are every choice that differs for the
resolver (`MCIndexes`), so the search is checked against its definition
(`ResolutionIsRight`) on every one; the runs that promote use three of them.

Deadlock is checked for personal courses. The other instances stop when what they may
do is used up, and say so (`CHECK_DEADLOCK FALSE`); that somebody waits for ever is
a matter of their liveness properties.

### Fairness

- *Personal courses.* Threads of the pool, request threads, done callbacks and the
  steps of a booting or draining process run on if they can: weak fairness per
  thread and process, as the operating system schedules them. The user starts a
  stopped helper again in `settles`, without which nothing could be promised after
  a crash.
- *Imports.* A child runs on, and the runner reads its result or meets its
  deadline, which passes by itself (`Interrupt`).
- *Index.* A worker completes what it claims unless its lease passes, and whoever
  queued a row asks for its index again until it is consumed: that is what the page
  and the personal loop do, and without it nothing would ever be indexed.
- *Projection.* Threads and tasks of the helper run on; their timeouts are disjuncts
  of `Thread`. Nothing is assumed of a host, of its witness or of the page. The gate
  is a lock polled every 10 ms, which nobody is sure to get, so
  `RequestsAreAnswered` starts where a request has passed it. A host that leaves a
  message half read and lives holds its thread, whoever closes the pipe, and the gate, so
  `CommandsAreAnswered` is `RequestsAreAnswered` where no writer is blocked for ever;
  without that condition it fails (`ProjectionBlocked`).

No fairness is assumed of requests, disconnections, crashes and losses, of the
provider, or of the choice between outcomes. `PublicCourse`, `EmbeddingModel`,
`CoursePublication` and `NetworkVisuals` promise nothing that needs fairness: what they
do is done by whoever asks for it.

## 4. Abstractions

- Database transactions are atomic (WAL, `BEGIN IMMEDIATE`); what is read before a
  transaction and checked again in it is read in it. What is read and *not*
  checked again (the row a thread works from, the bundle an answer was compared
  with, the input a promotion copies, the hits of earlier searches, the cards a
  proposal is about, the time) is in the state and may be stale.
- Digests and generated identifiers are values that are equal when what they
  digest is; a name that contains a time differs after a repetition. An
  edition is the path of placements that leads to it, a review task the versions its
  evidence digests, a release a constant of its draft.
- An operation repeated under its identifier is answered from the ledger and
  changes nothing. `KnowledgeImports` and `PersonalCourse` have the ledger's actors and
  sessions; the other modules have operations that are new.
- Frames of the pipe arrive whole and in order while the pipe lasts: sequence numbers
  and codes are checked on both sides, and any difference ends the pipe.
- The trees, locks and access lists of a generation are one tree with one list; a
  file that does not belong stands for every difference verification can find.
- What the provider says of a page is one of a few states: as found, under another
  accepted licence, gone.
- Time is a small clock, or a step that passes a deadline. Numbers that only grow
  (revisions, sequence numbers, frames) are naturals; the code's are too.
- Wording, layout, logging, response formats and the events of evidence nobody reads
  back are left out.

## 5. Proofs

All theorems are proved for any values of the constants that satisfy the named
assumption of their module (`ConstantsAssumption`, `JobsAssumption`,
`CardsAssumption` and `IndexAssumption`, `OutlineAssumption` and
`PublicationAssumption`, `ProjectionAssumption`, `ModelAssumption` and
`ResolverAssumption`), which TLC evaluates in every run.

`PersonalCourseProofs`
- `TypeCorrect`: `Spec => []TypeOK`. The invariant is inductive as it stands; it
  holds what a thread at each place knows of its locals. The lemmas follow the
  operators (rows, evidence, outcomes, tickets), then one step per action.
- `ReadsAreSound`: `Spec => []ReadsAreCurrentOrStale`, the soundness of the
  compare-and-swap. The strengthening says that revisions never decrease and
  that a row changes only with its revision; so a thread's read is either equal to
  the row or behind it.

`PersonalSafetyProofs`
- `RunsHaveOneDriver`: `OneFuturePerRun`, from `Supervised`: a future that is not done is
  the active one of its run (`PendingAreActive`), one that is done is not pending
  (`DoneAreNotPending`), and a process that is down holds nothing (`DownIsEmpty`).
  That a boot submits each run once rests on `TouchedOnce`: the order of `updated_at`
  names each run once (`MovedToEndOnce`: the move is a permutation).
- `NothingUnreviewedIsPublished`: `PublishedIsReviewed`, from `Careful`: only the user
  closes the task of a conflict, a thread about to close a task has a safe one, one
  about to publish has a reviewed card, and a review once done stays done.
- `ReadyCoursesAreBacked`: `ReadyIsBacked`, from `Backed`. What is committed for a run is in
  order (`Basis`): its cards before its index work, that before the requirement, that before
  the outline. A row that has come to the composition, or has evidence of it, is indexed
  (`RowIsBacked`); a thread that organizes has published what it has passed, or asks about
  it, and one that decides has what its outcome takes (`LocalsBacked`); a request resumes
  only where the run has been (`CallIsBacked`). Nothing committed is taken back (`Grows`),
  so a step need only look at the thread that takes it. A card that an upgrade replaced
  before the course was composed is left out of it, and the property says so. This is where
  the names of threads must differ from the states of a claim (`ConstantsAssumption`).
- `RunsMoveOnEvidence`: `MovesAreJustified`, from `Backed` and the reads: a row that
  is written under a current revision has the status that was read, and the
  evidence is of that status (`RowSteps`).
- `EngineKeepsPublicPromise`: `KeepsPublicPromise`, the refinement of `PublicCourse`. Each
  change of a row is one of its actions (`PublicStep`). The invariant adds `Asking`:
  the last evidence of a run that asks or has failed is the checkpoint of the phase that
  asked or failed, so that `_attention_phase` finds that phase, and an answer
  resumes at it or leaves the visuals behind.
- `OnlyCrashesLoseAnswers`: until a process crashes, `QuestionStaysAnswerable`. The
  invariant is `Questions`. A row asks a question once: its evidence would be cited a second
  time, which the store refuses (`RowAskedOnce`), so a question that was answered and has
  passed does not come back (`QuestionsPass`). A request knows what it answers
  (`CallKnows`), and an answer that is recorded is in the hands of a request that will
  resume the run, or its question has passed (`AnswersAreSpent`). The exception is a crash
  between the record and the write (`PersonalCourseLostAnswer`).
- `StraightRunsEndSettled`: with more than 6 laps, a call of `resume_personal_course` for a
  run that needs no decision ends only when the run is ready or failed, whatever other
  runs and processes do; `ResumeEndsSettled` is `ResumeRunsUntilSettled`, where no run needs
  a decision. A run that passes its stages one by one has no more revisions than stages
  (`RowIsStraight`), so none of its evidence is refused (`StraightAdvances`); and a thread has
  taken no more laps than its run has revisions (`LapsCount`), since a lap is lost only to
  another thread's write. Where questions are asked it is false:
  `PersonalCourseRepeatedQuestion`.
- `StraightRunsAreAttended`: with one process, and no more runs than a boot resumes, a run
  that needs no decision and is not settled has a future, or a request about to start it,
  or waits for the next boot; `RunsAreAttended` is `ActiveRunIsAttended`, where no run
  needs a decision. A future ends only with its run settled (`StraightRunsEndSettled`), a
  request is served only while the process answers (`CallsAreServed`), what
  `start` finds under a run is the run's own (`ActiveIsOwn`), and a boot resumes every run
  it has room for (`BootResumesAll`, by counting). A question may lose its start
  (`PersonalCourseLostStart`), and a second process that booted before the run was made does
  not take it over when the first one crashes, so neither hypothesis can be dropped.
- `RunsFailOverEarlierWork`: with one thread (the supervisor's default), and no more cards
  in a run than fit one question (`QuestionsFit`), `RunsFailOnlyOverEarlierWork`, whatever
  the jobs of the page replace, claim or let expire. The invariant, `Repeating`, excludes
  the failures of each handler one by one (`Knows`): a thread closes a task only where it
  is safe and still open, and a safe task has been left by nobody but an actor, since no
  question and no answer is about one (`WorkIsFound`); a card is refused only once it is
  replaced; the work a run enqueued is in the outbox until it is consumed, so there is
  something to claim, and a claim that cannot be completed has lapsed to a job; what was
  consumed is in a snapshot; a run that comes to its visuals has an outline, and one that
  comes to its validation has its confirmation and the evidence of its visuals
  (`Prepared`). What is left is what `EarlierWork` names. Both hypotheses are needed: a
  longer question fails the run, and so does a second thread that holds all index work.

`KnowledgeImportsProofs` proves every safety property of the imports from one
inductive invariant, `IInv`: the four state properties, that an import with an
outcome has no input left, and, per child, what it knows where it is
(`ChildKnows`): that its lease exists while it promotes, that the file is in place
when it commits, that the lease is promoted when it goes on, that success it
carries is already durable. The argument is the same for every step: nothing that
was known is undone (`Grows`), so the other children keep their knowledge
(`OthersKnow`), past answers stay true (`OutcomesStay`), and only the moving
child has something to show. That a repetition is accepted rests on the same: what is done
has its outcome in the ledger and its file in place under one name, so a child of the
same session replays it (`OthersAreNotRefused`: no other child's step refuses it).
Theorems: `TypeCorrect`, `LeasedInputsAreKept`,
`ImportsHaveOneFate`, `RegisteredSourcesAreStored`, `ToldSuccessIsComplete`,
`RepetitionsAreAccepted`.

`KnowledgeIndexProofs`: `CardsArePublishedOnce`, `ReplacedVersionsStayReplaced`,
`RefusedUpgradesAreNotPublished`. What a version is, is a projection of its ledger of
events, which `Rebuild` computes again; so the invariant says that the
projection equals a replay of the ledger, that a suspended version has the event of
its suspension, and that a task about near duplicates is about drafts (a decision on
one about a release would archive it). From there each transaction is looked at for
the events it records: only publication records `publish`, and it supersedes what is
published of its card in the same transaction. None of it depends on the index, whose
actions leave the cards alone.

The same module proves `RowsAreConsumedOnce` and `IndexedCardsAreFound`, from the
invariant `Indexes`. Only the last claim of a row may be in hand or have succeeded
(`ClaimsInTurn`), which bounds both by one. Ledgers and the outbox only grow
(`CardsGrow`), so a snapshot that was true when it was sealed can be validated for
ever (`SnapshotsStand`); watermarks grow with the snapshots (`SnapshotsInOrder`), and a
row is consumed with a snapshot that covers it (`RowsAreCovered`). A card that is live
and was never suspended has been live since its row was written
(`QueuedWasPublished`), so every snapshot that covers the row has it
(`LiveAreCovered`). The oldest free row exists because a finite set of numbers has a
least one (`OldestIsFree`).

`CoursePublicationProofs`: `OutlinesAreTeachable`, `EditionsOpenIfInOrder`,
`EditionsFormOneChain`, `WithdrawnCardsStayOut`, `RejectedVisualsStayOut`,
`VerdictsGiveWayToLaterOnes`. Courses are keyed by the path of placements that leads to
them; the invariant says that the parent of a path is a
course with the revision before, and that no two courses of a logical course have the
same revision (`PathsLead`, `RevisionsAreTakenOnce`). Two editions with one parent
would then have the revision after it twice. What the two other action
properties say of a publication is read off its transaction, once the decks and
placements it goes through are known to have their types. `@@` of the module `TLC` is
opaque to the provers, so `NetworkVisuals` defines the extension of a function, `Plus`.

That outlines are teachable is a fact about the composition, whatever the searches
return; the invariant (`Teaches`) only says that a job has hits that are lists of cards,
and then an outline made of cards that are in order and cover every goal, or one with
gaps (`WellMade`). The argument goes along the code:
- A call of `select_with_prerequisites` is followed by calls with one more card under
  way, and there are finitely many cards (`CallsAreWellFounded`), so the function its
  equation asks for exists (`TakingEquation`). What is selected stays in order, each card
  once and after those it presupposes, in no more places than there are slots, and a
  card that was taken is there (`TakingServes`).
- Through all goals and all cards to include it stays so, and a goal is covered or
  counted as a gap (`SelectionSelects`, `WithIncludedSelects`).
- Each card falls into one chapter (`OneChapter`), so the chapters together have each
  card once; a goal that is covered has cards in its own chapter or in that of an earlier
  goal in the same words (`ChaptersTeach`). A chapter keeps the order of the selection
  (`AmongInOrder`), and a prerequisite that is in a later chapter than a card which
  presupposes it covers none of the goals up to there (`ChaptersFollow`).
- After i cards `_allocate` has given i slots and what they took of the rest, and the turns
  are `left \div n` for each and one more for the first `left % n`; so after the last
  card all slots are given (`TurnsGoOn`, `SlotsAreAllotted`).

`EditionsOpenInOrder` relates an edition to the moment it was published, so its invariant
(`Standing`) says what holds since then: a course has the outline of the confirmed course it
goes back to (`GoesBack`, with `RootOfPath` for the root the code looks up edition by
edition), a placement is on a slide of that outline and of a visual that was acquired
(`Stands`), and an edition has the deck and the manifest of what it was asked for (`Fits`).
No step takes an outline, a course, a placement or an artifact back (`Grows`), so only what
is new is to be looked at (`OnlyTheNew`). Then what a deck shows is each of its visuals
once, in the order of the slides (`ShownAreInOrder`), what a manifest lists is theirs
(`OnceKeepsAll`), and there is one way only to put them in that order (`OrderIsOne`): the
list that was asked for is what is shown exactly when it is in order. What is too large
cannot be opened either (`SmallEnough`).

`ProjectionProofs`: `CertificationIsOfOneFrame`, `InvalidationLasts`. The host is a
record, and each of its commands a set of outcomes, so the proof is one lemma per
command (`DetectOK`, `OpenOK`, `AssignOK`, …): from a good record (`HostOK`: a phase
that is certified has one frame in all roles, and was witnessed; an invalid session is
not certified) every outcome is good, and an invalid session stays so
(`Remains`). The composition adds that every step changes one host at most, in one
of these ways (`OneHostBecomes`).

The same module proves `CommandsMeetNoOtherAnswer` and `SupervisorIsQuietBetweenCommands`,
from the invariant `Channels`, which says who may touch a pipe. One thread is in the
supervisor at a time (`OneIsBusy`). A host that lives is the transport, or somebody is
closing it (`HostsAreHeld`). What is on its way to or from a host that nobody is closing is
awaited by a thread (`PendingIsAwaited`), one thing at a time (`OneIsPending`). Hosts are
launched in order, with empty pipes (`BornInOrder`, `HeldAreBorn`). The pipe is empty at the
next command because a thread that stops waiting without its answer takes the transport with
it, in the same step (`TakingKeeps`).

`EmbeddingModelProofs` proves all properties of the producer of the embedding model:
`RunsAreInOrder`, `FailuresLeaveNoTrace`, `SealedGenerationsStay`, `ReplaysRunIntact`,
`PriorsAreRecoverable`, `ReceiptsSettle`, `TypeCorrect`, `WheelsAreWhatWasFound`,
`ResolutionsAreRight`.
- The runs. A run is a script and a place in it, so `IInv` says what a run has in hand at
  each place: its handles (`Handles`), its lease (`Leased`), the generation it
  promoted and has not sealed (`Promotions`), the prior receipt and its copy
  (`Receipts`). The places are numbers, and the lemmas under "The script" compute
  which step each one is, once, for every phase. `OneAtATime` is what `Alone` gives:
  one run under way. The rest are the run's own properties and what keeps them: a tree
  or a receipt that a run has made belongs to no other (`TreesAreTheirOwn`,
  `ReceiptsAreTheirOwn`), so what the steps of one run do to theirs leaves the others'
  alone (`ReceiptsStay`, `TreeStays`).
- The choice of wheels. `solve` calls itself with one more package selected, so its
  calls are well founded (`Later`) and the function that its equation asks for exists
  (`SolverEquation`). What it returns keeps to every constraint on the way to it
  (`SolverIsSound`), and it fails only if no selection extends the one it has
  (`SolverIsComplete`). `Reachable` stops at the least closed set, because no more than
  `Cardinality(Packages)` of its steps can add a package (`ReachableIsLeast`). From
  both: what `Resolve` returns is the closed part of a consistent selection, and it
  refuses only where there is none or the one it found lacks the runtime
  (`ResolveIsRight`).

`Recursion` has what those proofs need of data: least and greatest elements of sets of
numbers, induction over numbers, the existence of a recursive function over a
well-founded relation (`RecursionExists`), and that a fold goes through the places of
its list one by one (`FoldExists`, `FoldSteps`). The theorems of the prover's library
take operators as parameters, which no installed prover can instantiate. Here an
induction is about a set, and a recursion about the function `G` that takes `f` to
`[x \in D |-> e(f, x)]`, so each fact is first-order and can be cited.

Model-checked only:
- liveness (`RunsSettle`, `RequestsAreAnswered`, `QueuedIsIndexed`,
  `CommandsAreAnswered`): it needs fairness, out of the prover's reach.

`QuestionStaysAnswerable`, `ActiveRunIsAttended`, `ResumeRunsUntilSettled`,
`RunsFailOnlyOverEarlierWork` and `EditionsOpenInOrder` are proved under the hypotheses
named above; section 7 says where they do not hold without them.

## 6. Not modelled

- `cancel_upload`, `cancel_import`, `expire_uploads`: called by tests only; the
  passing of the deadline itself is modelled. The source inventory: read-only.
- A second import of one draft from other bytes: "a draft is imported once" is a
  bound of `KnowledgeCards`, since a repetition appends a ledger of its own and
  the instance would no longer be checked in minutes.
- Proposals of upgrades from datasets, assets and feedback: the same steps as the
  proposals from sources, over another set of affected cards.
- Numerical ranking, vectors and the embedding runtime: a search returns a rank
  (`RankOf`) that does not change. Validation of single model files and archives: whether
  a file is as it should be.
- Parsers, slide contents, charts, exports: functions whose results only matter through
  what is left open about a card or asked of a slide.
- `course_validate`, `course_visual_detach` and the read-only handlers of the job
  runner: no state is left behind that anything refers to.
- Window placement, web views and the attended hardware check
  (`windows/…/Windowing`, `Witness`): their state is the desktop. The host sees them as
  commands that may fail, windows that may be lost and a witness that may not
  answer, and so does `NativeHost`.
- The web workspace, the services of the page and its projection bus (`web/`): the
  page is the environment of the models and may send any request at any time.
  Its own state (a draft saved against late answers, local storage, the bus between
  windows) is the next thing to model.
- The rest of the acceptance harness, demo servers and fixtures.

## 7. Known departures and observations

Found while modelling. What a document of the repository contradicts is a finding in
`PROJECT.json`; these are the others.

Personal courses:
- A run with nothing to ask, resumed after a crash by the system actor, meets its own
  operations under the owner and fails (`PersonalCourseResume`).
- A question asked twice has the same evidence, which a row may not cite twice: the
  error escapes, and the run stays in the middle (`PersonalCourseRepeatedQuestion`).
- An answer given before the asking future is done is not followed by a start: nobody
  drives the run until the next boot (`PersonalCourseLostStart`).
- A crash between the evidence of an answer and the write of the run: the same answer is
  refused for ever (`PersonalCourseLostAnswer`).
- A run that composed its outline and was interrupted before it moved on, resumed after
  another run was indexed, composes over the newer snapshot and fails over its own outline
  (`PersonalCourseNewerIndex`; `composition.py:42-60`, `composer.py:391-400`).
- A card of a run that a job of the page replaces before the course is published fails
  the run (`cards.py:379-416`, `catalog.py:719-734`), and so does index work that another
  job claims when its lease has expired, or more than 500 attempts
  (`personal_orchestrator.py:443-471`): `RunsFailOnlyOverEarlierWork` names these cases.
- More than 20 cards held back do not fit one question: the run fails. At most 100 runs
  are resumed at boot.

Cards and index:
- A review of provenance or of a near duplicate that was rejected unblocks publication like one
  that was accepted.
- The retry of an old publication under a new operation is refused
  (`_stored_version_outcome`), and so is that of a draft whose release was archived.
- `reinstate` queues no index work: the card is found again after the next
  publication, which is why `IndexedIsFound` excepts cards that were suspended.
- An index job takes the oldest row, whoever queued it; the personal loop raises
  when its own row is in another worker's hands. A failed completion inside an
  operation leaves no trace of its attempt.

Courses and visuals:
- An edition whose placements were asked for in another order than its slides is
  published, and can never be opened (`CourseUnopened`; `slide_builder.py:1206`,
  `projection_bundle.py:133`).
- Publishing does not ask whether the bootstrap of an edition fits 40 KiB: one that does
  not is published and cannot be opened (`projection_bundle.py:166`).
- Chapters go by goals (`composer.py:644-690`): a prerequisite that covers only a later
  goal, or none, is taught after what depends on it; prerequisites of a card that did not
  fit stay selected; only the first hit per goal is tried.
- A new visual over an artifact that is there already takes the time of the artifact
  for its verification, and may be expired from birth (`network_visuals.py:951`).
- The time of an operation is read before it waits for the lock, and requests to the
  provider are made inside the write transaction.
- A confirmed course at a later revision of the same logical course blocks the
  publication of the older chain, with an error nobody catches.

Projection:
- The second `open` of a session is refused, and the digest of the first is
  forgotten; a second `fullscreen` invalidates a certified session, as does
  navigation before it.
- `shutdown` takes no lock of the commands: a thread may launch a host after it,
  which is why `QuietBetweenCommands` speaks of a supervisor that is not closed.
- Writing to the host has no time limit, and `close` begins with `stdin.close()`, which
  waits for a write that is under way (`projection_host.py:883-892`, `911-920`): a host
  that lives and stops reading in the middle of a message holds the thread, its
  cancellation and the gate (`ProjectionBlocked`).
- After the loss of a host the first command is answered `host_not_running`; the next
  one launches another.
- A record of evidence that cannot be written fails a command whose receipt is kept,
  and closes the host.
- A file of the write-ahead log beside the published database makes `open` fail
  (`projection_bundle.py:402`).

Embedding model:
- A run that reuses a generation may seal it while the run that promoted it fails and
  takes it back (`EmbeddingModelShared`); `SealedIsBacked` holds for runs one at a time.
- When the identity of a generation cannot be read, or is another one, after `os.replace`,
  the run fails with an ordinary error and leaves the generation there
  (`model_cache.py:4001-4003`, `4074-4078`; `EmbeddingModelUnknown` contradicts
  `test_model_cache.py:1972`, whose failure comes later). `FailureLeavesNoTrace` speaks of
  what the run knows as its own.
- A seal that cannot undo what it did fails with the error that made it undo
  (`embedding_live.py:2499-2506`, `2877-2898`): nothing tells such a receipt from one that
  was restored, which is why `SettledReceipt` excepts it by its state.
- A killed run leaves the access lists closed, and a later run saves and restores
  the closed lists; two runs that interleave open them while one still verifies.
- A kill between moving the prior receipt aside and installing the new one leaves
  none under its name (`PriorIsRecoverable`: it can be found).
- The resolver fails when the first solution it finds lacks the runtime.

## 8. What could follow

The web workspace: save and restore against late answers of the helper, and the
projection bus between windows.
