--------------------------- MODULE PersonalCourse ---------------------------
(***************************************************************************)
(* The personal course engine of course_helper: the supervisor's pool of   *)
(* worker threads, the phase machine each worker drives over a persisted   *)
(* run, the create and resolve jobs of the loopback API, and the crash,    *)
(* boot and shutdown of the helper processes that share one database.      *)
(*                                                                         *)
(* A step is one database transaction or one critical section of the       *)
(* supervisor's lock; what a handler reads between two transactions is     *)
(* read in the step of the transaction that follows.  A process may crash  *)
(* between any two steps.                                                  *)
(*                                                                         *)
(* Simplifications:                                                        *)
(*  - a card has at most one review task, the least safe of those the      *)
(*    import left open for it;                                             *)
(*  - the index work of a run is one outbox item;                          *)
(*  - the outline confirmation, the confirmed course, the draft and the    *)
(*    visual placements of a run are one artifact: they are written in     *)
(*    that order and bound to the same actor, so the first one decides;    *)
(*  - whether a run's goals leave a gap, and whether a declared visual     *)
(*    is missing, does not change while the run exists;                    *)
(*  - of the other jobs on the database, those are modelled that put an    *)
(*    upgrade in the place of a published card and those that work off     *)
(*    the index; none adds a card or a review to the sources of a run, as  *)
(*    importing them again or proposing an upgrade from them would.        *)
(***************************************************************************)
EXTENDS PersonalRuns, FiniteSets, SequencesExt

CONSTANTS Helpers,        \* helper processes over the same database
          Workers,        \* threads of the supervisors' pools
          Callers,        \* API requests in progress (threads)
          Home,           \* the process a worker or a caller belongs to
          CardsOf,        \* the cards extracted from a run's sources, in order
          KindOf,         \* what the import left open about a card
          IntactRuns,     \* runs whose sources still match their snapshot
          GapRuns,        \* runs whose cards leave a course goal uncovered
          MissingVisuals, \* runs with a declared visual that is not available
          TicketNumbers,  \* bound: futures of one run told apart at one time
          LapCeiling,     \* resume_personal_course: at most 16 laps
          AttentionLimit, \* an attention bundle has at most 20 items
          ResumeLimit,    \* list_resumable_personal_runs: at most 100 runs
          IndexCeiling,   \* _index_personal_cards: at most 500 attempts
          MaxCalls,       \* bound: API calls
          MaxJobs,        \* bound: other jobs on the database
          MaxCrashes      \* bound: crashes

CardKinds == {"plain", "provenance", "near_duplicate", "conflict", "unsafe_visual"}

\* The human owner of every run, and the actor that resumes runs at boot.
Actors == {"owner", "system"}
Nobody == "nobody"

ASSUME ConstantsAssumption ==
  /\ Home \in [Workers \cup Callers -> Helpers]
  /\ Workers \cap {"none", "waiting", "consumed"} = {}
  /\ IsFiniteSet(Runs) /\ IsFiniteSet(Cards)
  /\ CardsOf \in [Runs -> Seq(Cards)]
  /\ KindOf \in [Cards -> CardKinds]
  /\ IntactRuns \subseteq Runs /\ GapRuns \subseteq Runs /\ MissingVisuals \subseteq Runs
  /\ TicketNumbers \subseteq Nat
  /\ LapCeiling \in Nat /\ AttentionLimit \in Nat /\ ResumeLimit \in Nat
  /\ IndexCeiling \in Nat
  /\ MaxCalls \in Nat /\ MaxJobs \in Nat /\ MaxCrashes \in Nat

VARIABLES
  \* persisted
  row,         \* personal_course_runs: the row of each run
  touched,     \* the runs with a row, in the order of updated_at
  task,        \* review task of each card: none, open, or who closed it
  published,   \* cards whose effective version has been published
  replaced,    \* those of them whose place an upgrade has taken since
  bound,       \* who committed the actor-bound artifacts of each run
  outbox,      \* the runs whose index work is enqueued, in the order of rowid
  claim,       \* index work of each run: none, waiting, its claimant, consumed
  lapsed,      \* the threads whose latest claim was resolved as expired
  snapshot,    \* the latest embedding index snapshot (0: there is none)
  requirement, \* the cards the run's requirement was registered from
  outline,     \* the snapshot the run's outline was composed over (0: no outline)
  recorded,    \* resolution evidence inserted so far
  \* helper processes
  mode,        \* of the process: see Modes
  queue,       \* work items of the executor
  active,      \* PersonalCourseSupervisor._active
  settling,    \* done futures whose callback has not run
  worker,      \* threads of the executor
  call,        \* API jobs in progress
  calls, jobs, crashes

rowVars      == <<row, touched>>
materialVars == <<task, published, replaced>>
indexVars    == <<outbox, claim, lapsed, snapshot>>
artifactVars == <<bound, indexVars, requirement, outline>>
poolVars     == <<mode, queue, active, settling>>
boundVars    == <<calls, jobs, crashes>>
vars == <<row, touched, task, published, replaced, bound, outbox, claim, lapsed, snapshot,
          requirement, outline, recorded, mode, queue, active, settling, worker, call,
          calls, jobs, crashes>>

-----------------------------------------------------------------------------
(* Values. *)

Ticket == [run: Runs, actor: Actors, number: TicketNumbers]
NoTicket == [run |-> "none", actor |-> Nobody, number |-> 0]

Artifacts == {"index", "confirmation", "publication"}

\* A process that is booting has no server yet; one that is closing has shut
\* its supervisor down while the server still answers; one that is draining
\* could not bind the port.
Modes == {"down", "booting", "up", "closing", "draining"}

Outcome(next, evidence, cards) == [next |-> next, evidence |-> evidence, cards |-> cards]
NoOutcome == Outcome("failed", Checkpoint("none", "failed", {}, 0), {})

\* A thread of the pool: the future it runs, the row it read last, and the
\* locals of the phase handler it is in.
IdleWorker ==
  [pc |-> "idle", ticket |-> NoTicket, laps |-> 0, status |-> "absent",
   revision |-> 0, todo |-> << >>, asked |-> {}, item |-> "none", claims |-> 0, over |-> 0,
   outcome |-> NoOutcome]

\* A request thread: a create or a resolve job.
IdleCall ==
  [pc |-> "idle", run |-> "none", action |-> "retry", bundle |-> NoBundle,
   revision |-> 0, resume |-> "none", todo |-> {}]

RunOf(w) == worker[w].ticket.run
ActorOf(w) == worker[w].ticket.actor
CandidatesOf(r) == ToSet(CardsOf[r])

\* The sequence with r, which it holds, moved to the end.
MovedToEnd(seq, r) ==
  [i \in DOMAIN seq |-> IF i = Len(seq) THEN r
                        ELSE IF \E j \in 1..i : seq[j] = r THEN seq[i + 1] ELSE seq[i]]

\* _published_source_cards
PublishedOf(r) == (published \ replaced) \cap CandidatesOf(r)

Init ==
  /\ row = [r \in Runs |-> AbsentRow]
  /\ touched = << >>
  /\ task = [c \in Cards |-> IF KindOf[c] \in {"plain", "unsafe_visual"}
                             THEN "none" ELSE "open"]
  /\ published = {}
  /\ replaced = {}
  /\ bound = [r \in Runs |-> [a \in Artifacts |-> Nobody]]
  /\ outbox = << >>
  /\ claim = [r \in Runs |-> "none"]
  /\ lapsed = {}
  /\ snapshot = 0
  /\ requirement = [r \in Runs |-> {}]
  /\ outline = [r \in Runs |-> 0]
  /\ recorded = {}
  /\ mode = [h \in Helpers |-> "down"]
  /\ queue = [h \in Helpers |-> << >>]
  /\ active = [h \in Helpers |-> [r \in Runs |-> NoTicket]]
  /\ settling = [h \in Helpers |-> {}]
  /\ worker = [w \in Workers |-> IdleWorker]
  /\ call = [c \in Callers |-> IdleCall]
  /\ calls = 0
  /\ jobs = 0
  /\ crashes = 0

-----------------------------------------------------------------------------
(* personal_supervisor.py *)

\* Futures submitted and not done: queued, or run by a worker.
Pending(h) == ToSet(queue[h]) \cup {worker[w].ticket : w \in {v \in Workers :
                                       Home[v] = h /\ worker[v].pc # "idle"}}

\* The least number no known future of the run has.
Unused(h, r) ==
  {n \in TicketNumbers : \A t \in Pending(h) \cup settling[h] : t.run = r => t.number # n}

\* PersonalCourseSupervisor.start: returns the existing future unless it is
\* done, else submits a new one and makes it the active one.
Start(h, r, actor) ==
  IF active[h][r] \in Pending(h)
  THEN UNCHANGED <<queue, active>>
  ELSE \E n \in Unused(h, r) :
         /\ \A m \in Unused(h, r) : n <= m
         /\ LET future == [run |-> r, actor |-> actor, number |-> n]
            IN  /\ queue' = [queue EXCEPT ![h] = Append(@, future)]
                /\ active' = [active EXCEPT ![h][r] = future]

\* Fault: the done callback drops whatever entry its run has.
ForgetWhateverIsActive(h, future) ==
  /\ future \in settling[h]
  /\ settling' = [settling EXCEPT ![h] = @ \ {future}]
  /\ active' = [active EXCEPT ![h][future.run] = NoTicket]
  /\ UNCHANGED <<rowVars, materialVars, artifactVars, recorded, mode, queue,
                 worker, call, boundVars>>

\* _forget: the done callback drops the entry only if it is its own.
Forget(h, future) ==
  /\ future \in settling[h]
  /\ settling' = [settling EXCEPT ![h] = @ \ {future}]
  /\ active' = IF active[h][future.run] = future
               THEN [active EXCEPT ![h][future.run] = NoTicket] ELSE active
  /\ UNCHANGED <<rowVars, materialVars, artifactVars, recorded, mode, queue,
                 worker, call, boundVars>>

\* A free thread of the executor takes the next work item.
TakeTicket(w) ==
  LET h == Home[w] IN
  /\ worker[w].pc = "idle"
  /\ mode[h] # "down"
  /\ queue[h] # << >>
  /\ queue' = [queue EXCEPT ![h] = Tail(@)]
  /\ worker' = [worker EXCEPT ![w] =
                  [IdleWorker EXCEPT !.pc = "reading", !.ticket = Head(queue[h])]]
  /\ UNCHANGED <<rowVars, materialVars, artifactVars, recorded, mode, active,
                 settling, call, boundVars>>

-----------------------------------------------------------------------------
(* resume_personal_course *)

Goto(w, pc) == worker' = [worker EXCEPT ![w] = [@ EXCEPT !.pc = pc]]

Decide(w, outcome) ==
  worker' = [worker EXCEPT ![w] = [@ EXCEPT !.pc = "advancing", !.outcome = outcome]]

\* _failed_phase: an exception of a handler becomes the outcome "failed".
Fail(w) ==
  Decide(w, Outcome("failed", Checkpoint(worker[w].status, "failed", {}, 0), {}))

\* Fault: a ceiling below the number of phases.
AtLowCeiling(w) == worker[w].laps >= 5

AtCeiling(w) == worker[w].laps = LapCeiling

\* The head of the loop: raise at the ceiling or if there is no such run, return
\* the run if it is settled, else enter the handler of its status.
ReadRun(w) ==
  LET current == row[RunOf(w)] IN
  /\ worker[w].pc = "reading"
  /\ IF AtCeiling(w) \/ current.status = "absent"
     THEN Goto(w, "returning")
     ELSE worker' = [worker EXCEPT
            ![w] = [@ EXCEPT !.pc = IF current.status \in Settled THEN "returning" ELSE "handling",
                             !.laps = worker[w].laps + 1,
                             !.status = current.status,
                             !.revision = current.revision]]
  /\ UNCHANGED <<rowVars, materialVars, artifactVars, recorded, poolVars, call, boundVars>>

\* Fault: a write that compares no revision.
CurrentAlways(r, revision) == TRUE

\* The compare of the compare-and-swap: the row still has the revision read.
Current(r, revision) == row[r].revision = revision

\* Fault: a conflict ends the loop.
AfterConflictReturns == "returning"

\* After a conflict the loop starts another lap.
AfterConflict == "reading"

\* The tail of the loop: advance_personal_run under the revision the worker
\* read.  A conflict starts another lap, any other exception escapes, and the
\* run as it was written is returned if it is settled.
AdvanceRun(w) ==
  LET r    == RunOf(w)
      done == worker[w].outcome IN
  /\ worker[w].pc = "advancing"
  /\ IF ~Current(r, worker[w].revision)
     THEN Goto(w, AfterConflict) /\ UNCHANGED rowVars
     ELSE IF ~MayAdvance(row[r], done.next, done.evidence)
     THEN Goto(w, "returning") /\ UNCHANGED rowVars
     ELSE /\ row' = [row EXCEPT ![r] =
                Advanced(@, done.next, done.evidence,
                         [phase |-> worker[w].status, cards |-> done.cards])]
          /\ touched' = MovedToEnd(touched, r)
          /\ worker' = [worker EXCEPT
                 ![w] = [@ EXCEPT !.pc = IF done.next \in Settled THEN "returning" ELSE "reading",
                                  !.status = done.next,
                                  !.revision = row[r].revision + 1]]
  /\ UNCHANGED <<materialVars, artifactVars, recorded, poolVars, call, boundVars>>

\* The call is over, by return or by exception, and its future is done.
Finish(w) ==
  /\ worker[w].pc = "returning"
  /\ worker' = [worker EXCEPT ![w] = IdleWorker]
  /\ settling' = [settling EXCEPT ![Home[w]] = @ \cup {worker[w].ticket}]
  /\ UNCHANGED <<rowVars, materialVars, artifactVars, recorded, mode, queue, active,
                 call, boundVars>>

InHandler(w, status) == worker[w].pc = "handling" /\ worker[w].status = status

OnlyWorker == UNCHANGED <<rowVars, recorded, poolVars, call, boundVars>>

\* _start_phase
StartPhase(w) ==
  /\ InHandler(w, "queued")
  /\ Decide(w, Outcome("importing", Checkpoint("queued", "passed", {}, 0), {}))
  /\ OnlyWorker /\ UNCHANGED <<materialVars, artifactVars>>

\* _import_phase: the source rows must still have the snapshot's digests.
ImportPhase(w) ==
  /\ InHandler(w, "importing")
  /\ IF RunOf(w) \in IntactRuns
     THEN Decide(w, Outcome("organizing_knowledge", Checkpoint("importing", "passed", {}, 0), {}))
     ELSE Decide(w, Outcome("needs_attention", Checkpoint("importing", "attention", {}, 0), {}))
  /\ OnlyWorker /\ UNCHANGED <<materialVars, artifactVars>>

-----------------------------------------------------------------------------
(* _organize_phase and organize_personal_knowledge: the candidates one by  *)
(* one, each publication a transaction of its own.                         *)

OrganizePhase(w) ==
  /\ InHandler(w, "organizing_knowledge")
  /\ worker' = [worker EXCEPT ![w] = [@ EXCEPT !.pc = "organizing",
                                               !.todo = CardsOf[RunOf(w)],
                                               !.asked = {}]]
  /\ OnlyWorker /\ UNCHANGED <<materialVars, artifactVars>>

\* Fault: a conflict between sources counts as safe.
SafeTaskOrConflict(c) == \/ KindOf[c] \in {"provenance", "conflict"}
                         \/ KindOf[c] = "near_duplicate" /\ published = {}

\* _safe_task.  Without embeddings a near duplicate that names no candidate
\* is safe only while no card at all is published.
SafeTask(c) == \/ KindOf[c] = "provenance"
               \/ KindOf[c] = "near_duplicate" /\ published = {}

\* _card_attention, _open_tasks
OrganizeCard(w) ==
  /\ worker[w].pc = "organizing" /\ worker[w].todo # << >>
  /\ LET c == Head(worker[w].todo) IN
     IF KindOf[c] = "unsafe_visual" \/ (task[c] = "open" /\ ~SafeTask(c))
     THEN worker' = [worker EXCEPT ![w] = [@ EXCEPT !.todo = Tail(worker[w].todo),
                                                  !.asked = worker[w].asked \cup {c}]]
     ELSE Goto(w, IF task[c] = "open" THEN "closing_task" ELSE "publishing_card")
  /\ OnlyWorker /\ UNCHANGED <<materialVars, artifactVars>>

\* _resolve_safe_task: identical bytes replay, other bytes conflict.
CloseSafeTask(w) ==
  LET c == Head(worker[w].todo) IN
  /\ worker[w].pc = "closing_task"
  /\ IF task[c] \in {"open", ActorOf(w)}
     THEN task' = [task EXCEPT ![c] = ActorOf(w)] /\ Goto(w, "publishing_card")
     ELSE Fail(w) /\ UNCHANGED task
  /\ OnlyWorker /\ UNCHANGED <<published, replaced, artifactVars>>

\* publish_card: a replay returns the effective version published before, unless
\* that is not published any more (PublishBlocked).
PublishCard(w) ==
  LET c == Head(worker[w].todo) IN
  /\ worker[w].pc = "publishing_card"
  /\ IF c \in replaced
     THEN Fail(w) /\ UNCHANGED published
     ELSE /\ published' = published \cup {c}
          /\ worker' = [worker EXCEPT ![w] = [@ EXCEPT !.pc = "organizing",
                                                       !.todo = Tail(worker[w].todo)]]
  /\ OnlyWorker /\ UNCHANGED <<task, replaced, artifactVars>>

\* Fault: the cards held back are forgotten at the end.
HeldBackNothing(w) == {}

HeldBack(w) == worker[w].asked

\* Ask about the cards held back, in one bundle of bounded size, or index.
OrganizeEnd(w) ==
  LET r     == RunOf(w)
      asked == HeldBack(w) IN
  /\ worker[w].pc = "organizing" /\ worker[w].todo = << >>
  /\ IF asked = {} THEN Goto(w, "enqueueing")
     ELSE IF Cardinality(asked) > AttentionLimit THEN Fail(w)
     ELSE Decide(w, Outcome("needs_attention",
                            Checkpoint("organizing_knowledge", "attention",
                                       CandidatesOf(r) \ asked, 0), asked))
  /\ OnlyWorker /\ UNCHANGED <<materialVars, artifactVars>>

-----------------------------------------------------------------------------
(* _index_personal_cards and the actor-bound operations *)

\* Fault: an operation that is repeated does not replay.
MayCommitOnce(r, artifact, actor) == bound[r][artifact] = Nobody

\* run_operation authenticates the actor of a stored operation, and an
\* immutable row that names its author accepts no other author.
MayCommit(r, artifact, actor) == bound[r][artifact] \in {Nobody, actor}
Commit(r, artifact, actor) == bound' = [bound EXCEPT ![r][artifact] = actor]

EnqueueIndex(w) ==
  LET r == RunOf(w) IN
  /\ worker[w].pc = "enqueueing"
  /\ IF CandidatesOf(r) # {} /\ MayCommit(r, "index", ActorOf(w))
     THEN /\ Commit(r, "index", ActorOf(w))
          /\ outbox' = IF claim[r] = "none" THEN Append(outbox, r) ELSE outbox
          /\ claim' = [claim EXCEPT ![r] = IF @ = "none" THEN "waiting" ELSE @]
          /\ worker' = [worker EXCEPT ![w] = [@ EXCEPT !.pc = "adopting", !.claims = 0]]
     ELSE Fail(w) /\ UNCHANGED <<bound, outbox, claim>>
  /\ OnlyWorker /\ UNCHANGED <<materialVars, lapsed, snapshot, requirement, outline>>

\* A snapshot is a function of the cards published and replaced and of the
\* enqueued work: none of them shrinks, so their number tells snapshots apart.
\* Sealing an index that has not changed reopens its snapshot.
Seal == snapshot' = Cardinality(published) + Cardinality(replaced) + Len(outbox)

\* Unresolved claims on the run's own work: one with time left on its lease is
\* completed on the claimant's behalf, an expired one is left to the next step.
AdoptClaim(w) ==
  LET r == RunOf(w) IN
  /\ worker[w].pc = "adopting"
  /\ IF claim[r] \in Workers
     THEN claim' = [claim EXCEPT ![r] = "consumed"] /\ Seal
     ELSE UNCHANGED <<claim, snapshot>>
  /\ Goto(w, "claiming")
  /\ OnlyWorker /\ UNCHANGED <<materialVars, bound, outbox, lapsed, requirement, outline>>

\* The threads at work on an item of E under a claim of their own.
Holders(E) == {v \in Workers : worker[v].pc = "indexing" /\ worker[v].item \in E
                                 /\ claim[worker[v].item] = v}

\* The work that can be claimed once the claims on the items in E have expired.
Claimable(E) == {i \in DOMAIN outbox : claim[outbox[i]] = "waiting" \/ outbox[i] \in E}

\* claim_next_index_outbox: any claim may have expired (a lease lasts 60 seconds
\* of a clock the claimant reads once), and the oldest work is claimed, of
\* whatever run.  If all that is left is claimed, there is no work (RuntimeError).
ClaimIndex(w) ==
  LET r == RunOf(w) IN
  /\ worker[w].pc \in {"adopting", "claiming"} /\ claim[r] # "consumed"
  /\ worker[w].claims < IndexCeiling
  /\ \E E \in SUBSET {s \in Runs : claim[s] \in Workers} :
       /\ worker[w].pc = "adopting" => r \in E
       /\ lapsed' = (lapsed \cup Holders(E)) \ {w}
       /\ IF Claimable(E) = {}
          THEN /\ claim' = [s \in Runs |-> IF s \in E THEN "waiting" ELSE claim[s]]
               /\ Fail(w)
          ELSE \E i \in Claimable(E) :
                 /\ \A j \in Claimable(E) : i <= j
                 /\ claim' = [s \in Runs |-> IF s = outbox[i] THEN w
                                             ELSE IF s \in E THEN "waiting" ELSE claim[s]]
                 /\ worker' = [worker EXCEPT
                        ![w] = [@ EXCEPT !.pc = "indexing", !.item = outbox[i],
                                         !.claims = worker[w].claims + 1]]
  /\ OnlyWorker /\ UNCHANGED <<materialVars, bound, outbox, snapshot, requirement, outline>>

\* complete_index_claim: an expired claim raises, one that was completed by
\* another is reopened.
CompleteIndex(w) ==
  LET s == worker[w].item IN
  /\ worker[w].pc = "indexing"
  /\ IF w \in lapsed
     THEN Fail(w) /\ UNCHANGED <<claim, snapshot>>
     ELSE /\ claim' = [claim EXCEPT ![s] = "consumed"]
          /\ IF claim[s] = "consumed" THEN UNCHANGED snapshot ELSE Seal
          /\ Goto(w, "claiming")
  /\ OnlyWorker /\ UNCHANGED <<materialVars, bound, outbox, lapsed, requirement, outline>>

\* The run's work is consumed: the phase passes, over the latest snapshot.  The
\* last attempt that is allowed is not followed by a look at what it achieved.
IndexEnd(w) ==
  LET r == RunOf(w) IN
  /\ worker[w].pc = "claiming"
  /\ IF worker[w].claims = IndexCeiling
     THEN Fail(w)
     ELSE /\ claim[r] = "consumed"
          /\ Decide(w, Outcome("composing", Checkpoint("organizing_knowledge", "passed",
                                                       CandidatesOf(r), snapshot), {}))
  /\ OnlyWorker /\ UNCHANGED <<materialVars, artifactVars>>

-----------------------------------------------------------------------------
(* _compose_phase *)

\* register_course_requirement, over the latest snapshot and the published cards
ComposePhase(w) ==
  LET r     == RunOf(w)
      cards == PublishedOf(r) IN
  /\ InHandler(w, "composing")
  /\ IF snapshot # 0 /\ cards # {} /\ requirement[r] \in {{}, cards}
     THEN /\ requirement' = [requirement EXCEPT ![r] = cards]
          /\ worker' = [worker EXCEPT ![w] = [@ EXCEPT !.pc = "outlining", !.over = snapshot]]
     ELSE Fail(w) /\ UNCHANGED requirement
  /\ OnlyWorker /\ UNCHANGED <<materialVars, bound, indexVars, outline>>

\* register_prepared_composition: the outline's semantics name its snapshot.
OutlinePhase(w) ==
  LET r    == RunOf(w)
      over == worker[w].over IN
  /\ worker[w].pc = "outlining"
  /\ IF r \in GapRuns
     THEN /\ Decide(w, Outcome("needs_attention",
                               Checkpoint("composing", "attention", {}, 0), {}))
          /\ UNCHANGED outline
     ELSE IF outline[r] \in {0, over}
     THEN /\ outline' = [outline EXCEPT ![r] = over]
          /\ Decide(w, Outcome("assigning_visuals",
                [by |-> "composition", phase |-> "none", verdict |-> "passed",
                 cards |-> requirement[r], snapshot |-> over], {}))
     ELSE Fail(w) /\ UNCHANGED outline
  /\ OnlyWorker /\ UNCHANGED <<materialVars, bound, indexVars, requirement>>

\* Cards that the run is to be composed of have been replaced.  Whether one of
\* them is in the outline is up to the composer.
Outdated(r) == requirement[r] \cap replaced # {}

\* A replaced card may not be composed, confirmed, or drafted; what is published
\* replays.
MeetReplaced(w) ==
  LET r == RunOf(w) IN
  /\ \/ worker[w].pc = "outlining"
     \/ InHandler(w, "assigning_visuals")
     \/ InHandler(w, "validating") /\ bound[r]["publication"] = Nobody
  /\ Outdated(r) /\ Fail(w)
  /\ OnlyWorker /\ UNCHANGED <<materialVars, artifactVars>>

\* _assign_visuals_phase: confirmation, confirmed course, draft, placements.
AssignVisualsPhase(w) ==
  LET r == RunOf(w) IN
  /\ InHandler(w, "assigning_visuals")
  /\ IF requirement[r] # {} /\ outline[r] # 0 /\ MayCommit(r, "confirmation", ActorOf(w))
     THEN /\ Commit(r, "confirmation", ActorOf(w))
          /\ \/ Outdated(r) /\ Fail(w)
             \/ IF r \in MissingVisuals
                THEN Decide(w, Outcome("needs_attention",
                                 Checkpoint("assigning_visuals", "attention", {}, 0), {}))
                ELSE Decide(w, Outcome("validating",
                                 Checkpoint("assigning_visuals", "passed", {}, 0), {}))
     ELSE Fail(w) /\ UNCHANGED bound
  /\ OnlyWorker /\ UNCHANGED <<materialVars, indexVars, requirement, outline>>

\* _validate_phase: the visuals come from the latest evidence of the phase
\* before, the course is published in one operation.
ValidatePhase(w) ==
  LET r == RunOf(w) IN
  /\ InHandler(w, "validating")
  /\ IF /\ bound[r]["confirmation"] # Nobody
        /\ outline[r] # 0 /\ requirement[r] # {}
        /\ \E i \in DOMAIN row[r].evidence :
              row[r].evidence[i].by = "phase" /\ row[r].evidence[i].phase = "assigning_visuals"
        /\ MayCommit(r, "publication", ActorOf(w))
     THEN /\ Commit(r, "publication", ActorOf(w))
          /\ Decide(w, Outcome("ready", Checkpoint("validating", "passed", {}, 0), {}))
     ELSE Fail(w) /\ UNCHANGED bound
  /\ OnlyWorker /\ UNCHANGED <<materialVars, indexVars, requirement, outline>>

-----------------------------------------------------------------------------
(* personal_jobs.py: the create and resolve jobs, run in request threads of *)
(* the process that listens on the port.                                    *)

OnlyCall == UNCHANGED <<worker, mode, settling, jobs, crashes>>

EndCall(c) == call' = [call EXCEPT ![c] = IdleCall]

Listening(h) == mode[h] \in {"up", "closing"}

SubmitCreate(c, r) ==
  /\ call[c].pc = "idle" /\ Listening(Home[c]) /\ calls < MaxCalls
  /\ calls' = calls + 1
  /\ call' = [call EXCEPT ![c] = [IdleCall EXCEPT !.pc = "creating", !.run = r]]
  /\ OnlyCall /\ UNCHANGED <<rowVars, materialVars, artifactVars, recorded, queue, active>>

\* create_personal_run: a repeated request finds its run.
CreateRun(c) ==
  LET r == call[c].run IN
  /\ call[c].pc = "creating"
  /\ IF row[r].status = "absent"
     THEN row' = [row EXCEPT ![r] = NewRow] /\ touched' = Append(touched, r)
     ELSE UNCHANGED rowVars
  /\ call' = [call EXCEPT ![c] = [@ EXCEPT !.pc = "starting"]]
  /\ OnlyCall /\ UNCHANGED <<materialVars, artifactVars, recorded, queue, active, calls>>

\* The actions the items of a bundle allow.
AllowedActions(bundle) ==
  CASE bundle.phase = "importing"         -> {"retry", "exclude-source"}
    [] bundle.phase = "composing"         -> {"retry", "approve", "reject"}
    [] bundle.phase = "assigning_visuals" -> {"continue-without-visual", "use-source-visual"}
    [] bundle.phase = "organizing_knowledge" ->
         UNION {IF KindOf[k] = "unsafe_visual"
                THEN {"continue-without-visual", "use-source-visual"}
                ELSE {"approve", "reject"} : k \in bundle.cards}
    [] OTHER -> {}

\* The user answers the question the status of the run showed.
SubmitResolve(c, r, action) ==
  /\ call[c].pc = "idle" /\ Listening(Home[c]) /\ calls < MaxCalls
  /\ row[r].status = "needs_attention" /\ action \in AllowedActions(row[r].bundle)
  /\ calls' = calls + 1
  /\ call' = [call EXCEPT ![c] = [IdleCall EXCEPT !.pc = "resolving", !.run = r,
                                    !.action = action, !.bundle = row[r].bundle]]
  /\ OnlyCall /\ UNCHANGED <<rowVars, materialVars, artifactVars, recorded, queue, active>>

\* The cards whose open task the action answers: only conflicts have one.
Answered(bundle, action) ==
  IF bundle.phase = "organizing_knowledge" /\ action \in {"approve", "reject"}
  THEN {k \in bundle.cards : KindOf[k] # "unsafe_visual" /\ task[k] = "open"}
  ELSE {}

\* _resolve_attention, up to the first write: the question must still stand,
\* and a row without any checkpoint cannot be resumed.
ReadAttention(c) ==
  LET r      == call[c].run
      resume == ResumeStatus(AttentionPhase(row[r]), call[c].action) IN
  /\ call[c].pc = "resolving"
  /\ IF /\ row[r].status = "needs_attention" /\ row[r].bundle = call[c].bundle
        /\ Checkpoints(row[r]) # {}
     THEN call' = [call EXCEPT ![c] =
                     [@ EXCEPT !.pc = "recording", !.revision = row[r].revision,
                               !.resume = resume,
                               !.todo = Answered(row[r].bundle, call[c].action)]]
     ELSE EndCall(c)
  /\ OnlyCall /\ UNCHANGED <<rowVars, materialVars, artifactVars, recorded, queue,
                             active, calls>>

\* _resolve_knowledge_review_tasks, one task: a task closed meanwhile raises.
AnswerTask(c, k) ==
  /\ call[c].pc = "recording" /\ k \in call[c].todo
  /\ IF task[k] = "open"
     THEN /\ task' = [task EXCEPT ![k] = "answered"]
          /\ call' = [call EXCEPT ![c] = [@ EXCEPT !.todo = call[c].todo \ {k}]]
     ELSE EndCall(c) /\ UNCHANGED task
  /\ OnlyCall /\ UNCHANGED <<rowVars, published, replaced, artifactVars, recorded, queue, active,
                             calls>>

\* The resolution's evidence carries the time of the call: a second call with
\* the same bundle and action has its identifier but other bytes, and raises.
RecordResolution(c) ==
  LET evidence == [run |-> call[c].run, bundle |-> call[c].bundle, action |-> call[c].action] IN
  /\ call[c].pc = "recording" /\ call[c].todo = {}
  /\ IF evidence \in recorded
     THEN EndCall(c) /\ UNCHANGED recorded
     ELSE /\ recorded' = recorded \cup {evidence}
          /\ call' = [call EXCEPT ![c] = [@ EXCEPT !.pc = "resuming"]]
  /\ OnlyCall /\ UNCHANGED <<rowVars, materialVars, artifactVars, queue, active, calls>>

\* resolve_personal_attention
ResumeRun(c) ==
  LET r        == call[c].run
      evidence == Resolution(call[c].bundle, call[c].action) IN
  /\ call[c].pc = "resuming"
  /\ IF Current(r, call[c].revision) /\ MayAdvance(row[r], call[c].resume, evidence)
     THEN /\ row' = [row EXCEPT ![r] = Advanced(@, call[c].resume, evidence, NoBundle)]
          /\ touched' = MovedToEnd(touched, r)
          /\ call' = [call EXCEPT ![c] = [@ EXCEPT !.pc = "starting"]]
     ELSE EndCall(c) /\ UNCHANGED rowVars
  /\ OnlyCall /\ UNCHANGED <<materialVars, artifactVars, recorded, queue, active, calls>>

\* supervisor.start; after shutdown it raises and the run is left for the
\* next boot.
StartRun(c) ==
  LET h == Home[c] IN
  /\ call[c].pc = "starting"
  /\ IF mode[h] = "up" THEN Start(h, call[c].run, "owner") ELSE UNCHANGED <<queue, active>>
  /\ EndCall(c)
  /\ OnlyCall /\ UNCHANGED <<rowVars, materialVars, artifactVars, recorded, calls>>

-----------------------------------------------------------------------------
(* jobs.py: other jobs of the API, a transaction each. *)

\* _run_knowledge_publish: an upgrade takes the place of what it revises.
RunKnowledgePublish ==
  /\ \E c \in published \ replaced : replaced' = replaced \cup {c}
  /\ UNCHANGED <<task, published, artifactVars>>

\* _run_knowledge_index: the oldest work is claimed and completed, once the claims
\* that have expired are recorded as that.
RunKnowledgeIndex ==
  /\ \E E \in SUBSET {s \in Runs : claim[s] \in Workers} : \E i \in Claimable(E) :
       /\ \A j \in Claimable(E) : i <= j
       /\ claim' = [s \in Runs |-> IF s = outbox[i] THEN "consumed"
                                   ELSE IF s \in E THEN "waiting" ELSE claim[s]]
       /\ lapsed' = lapsed \cup Holders(E)
  /\ Seal
  /\ UNCHANGED <<materialVars, bound, outbox, requirement, outline>>

OtherJob(h) ==
  /\ Listening(h) /\ jobs < MaxJobs
  /\ jobs' = jobs + 1
  /\ RunKnowledgePublish \/ RunKnowledgeIndex
  /\ UNCHANGED <<rowVars, recorded, poolVars, worker, call, calls, crashes>>

-----------------------------------------------------------------------------
(* server.py: boot, shutdown and crash of a helper process. *)

Earlier(r, s) == \E i, j \in DOMAIN touched : i < j /\ touched[i] = r /\ touched[j] = s

\* Fault: a run that was not begun is not resumed.
ResumableOnceBegun(r) == row[r].status \in Phases \ {"queued"}

Resumable(r) == row[r].status \in Phases

\* list_resumable_personal_runs: the runs at a phase status, in the order of
\* updated_at, at most ResumeLimit of them.
ResumeOrders ==
  LET pending == {r \in Runs : Resumable(r)}
      size    == IF Cardinality(pending) <= ResumeLimit THEN Cardinality(pending) ELSE ResumeLimit
  IN  {order \in [1..size -> pending] :
         /\ \A i, j \in 1..size : i < j => Earlier(order[i], order[j])
         /\ \A r \in pending : r \in Range(order) \/ \A i \in 1..size : Earlier(order[i], r)}

\* The supervisor resumes what is pending, before the server is started.
Boot(h) ==
  /\ mode[h] = "down"
  /\ mode' = [mode EXCEPT ![h] = "booting"]
  /\ \E order \in ResumeOrders : \E n \in TicketNumbers :
       LET future(r) == [run |-> r, actor |-> "system", number |-> n] IN
       /\ \A m \in TicketNumbers : n <= m
       /\ queue' = [queue EXCEPT ![h] = [i \in DOMAIN order |-> future(order[i])]]
       /\ active' = [active EXCEPT ![h] = [r \in Runs |->
                       IF r \in Range(order) THEN future(r) ELSE NoTicket]]
  /\ UNCHANGED <<rowVars, materialVars, artifactVars, recorded, settling, worker, call, boundVars>>

\* The server binds the port; if another process has it, the server thread
\* ends and the supervisor is shut down, draining what it has started.
Bind(h) ==
  /\ mode[h] = "booting"
  /\ mode' = [mode EXCEPT ![h] = IF \E g \in Helpers : Listening(g) THEN "draining" ELSE "up"]
  /\ UNCHANGED <<rowVars, materialVars, artifactVars, recorded, queue, active,
                 settling, worker, call, boundVars>>

\* An interrupt shuts the supervisor down; the server's thread is a daemon
\* and answers until the process is gone.
Close(h) ==
  /\ mode[h] = "up"
  /\ mode' = [mode EXCEPT ![h] = "closing"]
  /\ UNCHANGED <<rowVars, materialVars, artifactVars, recorded, queue, active,
                 settling, worker, call, boundVars>>

\* Everything the process held in memory is gone.
Vanish(h) ==
  /\ mode' = [mode EXCEPT ![h] = "down"]
  /\ queue' = [queue EXCEPT ![h] = << >>]
  /\ active' = [active EXCEPT ![h] = [r \in Runs |-> NoTicket]]
  /\ settling' = [settling EXCEPT ![h] = {}]
  /\ worker' = [w \in Workers |-> IF Home[w] = h THEN IdleWorker ELSE worker[w]]
  /\ call' = [c \in Callers |-> IF Home[c] = h THEN IdleCall ELSE call[c]]
  /\ UNCHANGED <<rowVars, materialVars, artifactVars, recorded, calls, jobs>>

\* shutdown(wait=True) has returned, nothing queued and no thread busy, and
\* the interpreter has joined the threads of the requests.
Exit(h) ==
  /\ mode[h] \in {"closing", "draining"}
  /\ Pending(h) = {}
  /\ \A c \in Callers : Home[c] = h => call[c].pc = "idle"
  /\ Vanish(h)
  /\ UNCHANGED crashes

Crash(h) ==
  /\ mode[h] # "down"
  /\ crashes < MaxCrashes
  /\ crashes' = crashes + 1
  /\ Vanish(h)

-----------------------------------------------------------------------------

PhaseStep(w) ==
  \/ StartPhase(w) \/ ImportPhase(w)
  \/ OrganizePhase(w) \/ OrganizeCard(w) \/ CloseSafeTask(w) \/ PublishCard(w) \/ OrganizeEnd(w)
  \/ EnqueueIndex(w) \/ AdoptClaim(w) \/ ClaimIndex(w) \/ CompleteIndex(w) \/ IndexEnd(w)
  \/ ComposePhase(w) \/ OutlinePhase(w)
  \/ MeetReplaced(w) \/ AssignVisualsPhase(w) \/ ValidatePhase(w)

WorkerStep(w) == TakeTicket(w) \/ ReadRun(w) \/ PhaseStep(w) \/ AdvanceRun(w) \/ Finish(w)

CallStep(c) ==
  \/ CreateRun(c) \/ ReadAttention(c) \/ (\E k \in Cards : AnswerTask(c, k))
  \/ RecordResolution(c) \/ ResumeRun(c) \/ StartRun(c)

Callback(h) == \E future \in settling[h] : Forget(h, future)

User(c) == \E r \in Runs : SubmitCreate(c, r) \/ \E a \in Actions : SubmitResolve(c, r, a)

Next ==
  \/ \E w \in Workers : WorkerStep(w)
  \/ \E c \in Callers : CallStep(c) \/ User(c)
  \/ \E h \in Helpers :
       Callback(h) \/ Boot(h) \/ Bind(h) \/ Close(h) \/ Exit(h) \/ Crash(h) \/ OtherJob(h)

Spec == Init /\ [][Next]_vars

\* Threads run, callbacks are called, and the user starts the helper again
\* after it has stopped.  Nothing obliges the user to send a request, or to
\* close the helper.
FairSpec ==
  /\ Spec
  /\ \A w \in Workers : WF_vars(WorkerStep(w))
  /\ \A c \in Callers : WF_vars(CallStep(c))
  /\ \A h \in Helpers : WF_vars(Callback(h)) /\ WF_vars(Boot(h)) /\ WF_vars(Bind(h)) /\ WF_vars(Exit(h))

-----------------------------------------------------------------------------
(* Properties. *)

\* The state has its types: the one type invariant of the module.  A thread
\* that is not idle has a future, one inside a handler has read a phase, and a
\* request that is not idle is about a run.
WorkerPcs == {"idle", "reading", "handling", "organizing", "closing_task", "publishing_card",
              "enqueueing", "adopting", "claiming", "indexing", "outlining", "advancing", "returning"}
CallPcs == {"idle", "creating", "resolving", "recording", "resuming", "starting"}
Statuses == Phases \cup Settled \cup {"absent"}
Outcomes == [next: Phases \cup Settled, evidence: Evidence, cards: SUBSET Cards]

WorkerStates ==
  {s \in [pc: WorkerPcs, ticket: Ticket \cup {NoTicket}, laps: Nat, status: Statuses,
          revision: Nat, todo: Seq(Cards), asked: SUBSET Cards, item: Runs \cup {"none"},
          claims: Nat, over: Nat, outcome: Outcomes] :
     /\ s.pc # "idle" => s.ticket \in Ticket
     /\ s.pc \notin {"idle", "reading", "returning"} => s.status \in Phases
     /\ s.pc \in {"closing_task", "publishing_card"} => s.todo # << >>
     /\ s.pc = "indexing" => s.item \in Runs}

CallStates ==
  {s \in [pc: CallPcs, run: Runs \cup {"none"}, action: Actions, bundle: Bundle,
          revision: Nat, resume: Phases \cup {"none"}, todo: SUBSET Cards] :
     s.pc # "idle" => s.run \in Runs}

TypeOK ==
  /\ row \in [Runs -> Row]
  /\ touched \in Seq(Runs)
  /\ task \in [Cards -> {"none", "open", "answered"} \cup Actors]
  /\ published \subseteq Cards
  /\ replaced \subseteq published
  /\ bound \in [Runs -> [Artifacts -> Actors \cup {Nobody}]]
  /\ outbox \in Seq(Runs)
  /\ claim \in [Runs -> {"none", "waiting", "consumed"} \cup Workers]
  /\ lapsed \subseteq Workers
  /\ snapshot \in Nat
  /\ requirement \in [Runs -> SUBSET Cards]
  /\ outline \in [Runs -> Nat]
  /\ recorded \subseteq [run: Runs, bundle: Bundle, action: Actions]
  /\ mode \in [Helpers -> Modes]
  /\ queue \in [Helpers -> Seq(Ticket)]
  /\ active \in [Helpers -> [Runs -> Ticket \cup {NoTicket}]]
  /\ settling \in [Helpers -> SUBSET Ticket]
  /\ worker \in [Workers -> WorkerStates]
  /\ call \in [Callers -> CallStates]
  /\ calls \in Nat /\ jobs \in Nat /\ crashes \in Nat

\* One process never has two futures that are not done for one run, so two of
\* its threads never drive the same run: what _active and the identity check
\* of _forget are for.
OneFuturePerRun ==
  \A h \in Helpers :
    /\ \A i, j \in DOMAIN queue[h] : i # j => queue[h][i].run # queue[h][j].run
    /\ \A v, w \in Workers :
         v # w /\ Home[v] = h /\ Home[w] = h /\ worker[v].pc # "idle" /\ worker[w].pc # "idle"
           => RunOf(v) # RunOf(w)
    /\ \A w \in Workers : \A i \in DOMAIN queue[h] :
         Home[w] = h /\ worker[w].pc # "idle" => RunOf(w) # queue[h][i].run

\* Optimistic concurrency is sound: a thread whose revision is still current
\* has read the current status, whoever else has written in between, so a
\* write under that revision cannot overwrite anything unseen.
ReadsAreCurrentOrStale ==
  /\ \A w \in Workers :
       worker[w].pc # "idle" =>
         LET current == row[RunOf(w)] IN
         /\ worker[w].revision <= current.revision
         /\ worker[w].revision = current.revision => worker[w].status = current.status
  /\ \A c \in Callers :
       call[c].pc \in {"recording", "resuming"} =>
         LET current == row[call[c].run] IN
         /\ call[c].revision <= current.revision
         /\ call[c].revision = current.revision =>
              current.status = "needs_attention" /\ current.bundle = call[c].bundle

\* A step that moves a run on leaves the evidence of the status it leaves: a
\* stale outcome or a stale decision never moves a run that has moved on.
MovesAreJustified ==
  [][\A r \in Runs :
       row[r].status # "absent" /\ row'[r] # row[r] =>
         LET last == row'[r].evidence[Len(row'[r].evidence)] IN
         /\ (last.by = "resolution") <=> (row[r].status = "needs_attention")
         /\ last.by = "resolution" => last.phase = row[r].bundle.phase
         /\ last.by = "phase" => last.phase = row[r].status
         /\ last.by = "composition" => row[r].status = "composing"]_vars

\* A course is ready only over a complete basis: every card of its sources
\* published and asked of the course unless an upgrade took its place first, its
\* index work consumed, an outline over an existing snapshot, confirmed and
\* published.
ReadyIsBacked ==
  \A r \in Runs : row[r].status = "ready" =>
    /\ CandidatesOf(r) \subseteq published
    /\ claim[r] = "consumed"
    /\ requirement[r] # {} /\ requirement[r] \subseteq CandidatesOf(r)
    /\ CandidatesOf(r) \ requirement[r] \subseteq replaced
    /\ outline[r] \in 1..snapshot
    /\ \A a \in Artifacts : bound[r][a] # Nobody

\* "Run the bounded state machine until ready, attention, failure, or
\* checkpoint": the run a call of resume_personal_course last saw when it ends
\* is settled; neither the ceiling nor an exception ends it before.
ResumeRunsUntilSettled ==
  \A w \in Workers : worker[w].pc = "returning" => worker[w].status \in Settled

\* "If a question comes up, confirm the suggestion once and go on": while a run
\* waits for an answer, no answer to its question is spent, except by a call
\* that is about to resume the run.
QuestionStaysAnswerable ==
  \A evidence \in recorded :
    LET r == evidence.run IN
    row[r].status = "needs_attention" /\ row[r].bundle = evidence.bundle =>
      \E c \in Callers : call[c].pc = "resuming" /\ call[c].run = r

\* Work in progress is in somebody's hands: a run at a phase status has a
\* future in some process, or a request about to start one, or it waits for
\* the next boot because a process has stopped accepting.
ActiveRunIsAttended ==
  \A r \in Runs : row[r].status \in Phases =>
    \/ \E h \in Helpers : \E future \in Pending(h) : future.run = r
    \/ \E c \in Callers : call[c].run = r /\ call[c].pc = "starting"
    \/ \A h \in Helpers : mode[h] \notin {"booting", "up"}

\* A run with nothing to ask and nothing missing never fails, whenever its
\* process was restarted: persisted work "can safely resume".
NeedsNoDecision(r) ==
  /\ r \in IntactRuns \ (GapRuns \cup MissingVisuals)
  /\ CandidatesOf(r) # {}
  /\ \A c \in CandidatesOf(r) : KindOf[c] \in {"plain", "provenance"}

CleanRunNeverFails ==
  \A r \in Runs : NeedsNoDecision(r) => row[r].status # "failed"

\* What fails a run over available cards, phase by phase, where a process has one
\* thread: an operation another actor has committed; the run's own outline,
\* composed over an index that was replaced before the run moved on; a card of the
\* run whose place an upgrade has taken; or the index, kept from the run by a job
\* that found its lease expired or by more work than it may attempt.  Operations
\* of the same actor replay, and two runs over the same cards do not collide.
BoundIn == [organizing_knowledge |-> "index", assigning_visuals |-> "confirmation",
            validating |-> "publication"]

FoundAnotherActor(w) ==
  /\ worker[w].status \in DOMAIN BoundIn
  /\ bound[RunOf(w)][BoundIn[worker[w].status]] \notin {Nobody, ActorOf(w)}

FoundOlderOutline(w) ==
  /\ worker[w].status = "composing"
  /\ worker[w].over # 0 /\ outline[RunOf(w)] \notin {0, worker[w].over}

FoundReplaced(w) ==
  IF worker[w].status \in {"organizing_knowledge", "composing"}
  THEN CandidatesOf(RunOf(w)) \cap replaced # {} ELSE Outdated(RunOf(w))

LostTheIndex(w) ==
  worker[w].status = "organizing_knowledge" /\ (w \in lapsed \/ worker[w].claims = IndexCeiling)

RunsFailOnlyOverEarlierWork ==
  [][\A r \in Runs :
       row[r].status # "failed" /\ row'[r].status = "failed" /\ CandidatesOf(r) # {} =>
         \E w \in Workers :
           /\ worker[w].pc = "advancing" /\ RunOf(w) = r
           /\ \/ FoundAnotherActor(w) \/ FoundOlderOutline(w)
              \/ FoundReplaced(w) \/ LostTheIndex(w)]_vars

\* Another actor is the only reason where no other job is at work and no index is
\* replaced behind a run that waits to be resumed; in general it is not.
RunsFailOnlyAcrossActors ==
  [][\A r \in Runs :
       row[r].status # "failed" /\ row'[r].status = "failed" /\ CandidatesOf(r) # {} =>
         \E w \in Workers : worker[w].pc = "advancing" /\ RunOf(w) = r /\ FoundAnotherActor(w)]_vars

\* No card is published before what the import left open about it is settled:
\* a conflict by the user, any other task by the user or as safe, and a card
\* with an unsafe visual never.
PublishedIsReviewed ==
  \A c \in published :
    /\ task[c] # "open" /\ KindOf[c] # "unsafe_visual"
    /\ KindOf[c] = "conflict" => task[c] = "answered"

\* The public projection of a row: _PHASE, and the stage from the status, from
\* the phase that asked, or from the phase that failed.
PublicView(r) ==
  CASE row[r].status \in Phases           -> "creating"
    [] row[r].status = "needs_attention"  -> "needs-attention"
    [] row[r].status = "absent"           -> "none"
    [] OTHER                              -> row[r].status

StageOf == [queued |-> 1, importing |-> 2, organizing_knowledge |-> 3, composing |-> 4,
            assigning_visuals |-> 5, validating |-> 6]

PublicStage(r) ==
  CASE row[r].status \in Phases          -> StageOf[row[r].status]
    [] row[r].status = "needs_attention" -> StageOf[row[r].bundle.phase]
    [] row[r].status = "failed"          -> StageOf[row[r].evidence[Len(row[r].evidence)].phase]
    [] row[r].status = "ready"           -> 6
    [] OTHER                             -> 0

Public == INSTANCE PublicCourse
            WITH Requests <- Runs, LastStage <- 6,
                 view <- [r \in Runs |-> PublicView(r)],
                 stage <- [r \in Runs |-> PublicStage(r)]

\* The engine keeps the public promise: a course is accepted once, its stages
\* follow each other, an answer never sends it back before the stage that
\* asked, ready and failed are final, and only the last stage delivers.
KeepsPublicPromise == Public!PublicSpec

\* Every run that exists is brought to an end or to a question.
RunsSettle ==
  \A r \in Runs : row[r].status \in Phases ~> row[r].status \in Settled
=============================================================================
