---------------------------- MODULE PersonalRuns ----------------------------
(***************************************************************************)
(* The persisted row of one personal course run and the only way it        *)
(* changes: domain/personal_course.py (the transition table and the        *)
(* consistency rules of a run) and personal_runs.py (compare-and-swap on   *)
(* the revision).  Constant-level operators only; the modules that keep    *)
(* rows in a variable extend this one.                                     *)
(*                                                                         *)
(* An evidence identifier is the digest of what the evidence says, so the  *)
(* record of what it says stands for the identifier.                       *)
(***************************************************************************)
EXTENDS Naturals, Sequences

CONSTANTS Runs,          \* runs: one per (request digest, source snapshot digest)
          Cards          \* knowledge cards extracted from the sources

Phases == {"queued", "importing", "organizing_knowledge", "composing",
           "assigning_visuals", "validating"}

\* _TERMINAL: the statuses at which resume_personal_course returns.
Settled == {"ready", "needs_attention", "failed"}

\* Fault: after a question about its cards a run cannot organize them again.
TransitionsWithoutReorganizing ==
  [ queued               |-> {"importing", "failed"},
    importing            |-> {"organizing_knowledge", "needs_attention", "failed"},
    organizing_knowledge |-> {"composing", "needs_attention", "failed"},
    composing            |-> {"assigning_visuals", "needs_attention", "failed"},
    assigning_visuals    |-> {"validating", "needs_attention", "failed"},
    validating           |-> {"ready", "needs_attention", "failed"},
    needs_attention      |-> {"importing", "composing", "assigning_visuals",
                              "validating", "failed"},
    ready                |-> {},
    failed               |-> {} ]

\* _TRANSITIONS.
Transitions ==
  [ queued               |-> {"importing", "failed"},
    importing            |-> {"organizing_knowledge", "needs_attention", "failed"},
    organizing_knowledge |-> {"composing", "needs_attention", "failed"},
    composing            |-> {"assigning_visuals", "needs_attention", "failed"},
    assigning_visuals    |-> {"validating", "needs_attention", "failed"},
    validating           |-> {"ready", "needs_attention", "failed"},
    needs_attention      |-> {"importing", "organizing_knowledge", "composing",
                              "assigning_visuals", "validating", "failed"},
    ready                |-> {},
    failed               |-> {} ]

-----------------------------------------------------------------------------
(* What the user is asked, and what is written down about each phase. *)

Actions == {"retry", "exclude-source", "approve", "reject",
            "use-source-visual", "continue-without-visual"}

\* An attention bundle: the phase that asked (its created_at is the time of
\* that phase) and the cards asked about; a question about the run as a whole
\* has no card.
Bundle == [phase: Phases \cup {"none"}, cards: SUBSET Cards]
NoBundle == [phase |-> "none", cards |-> {}]

\* by: "phase" for the checkpoint of a phase, "resolution" for the record of
\* a decision of the user, "composition" for the composer's own evidence.
Evidence == [by: {"phase", "resolution", "composition"}, phase: Phases \cup {"none"},
             verdict: {"passed", "attention", "failed"} \cup Actions,
             cards: SUBSET Cards, snapshot: Nat]

Checkpoint(phase, verdict, cards, snapshot) ==
  [by |-> "phase", phase |-> phase, verdict |-> verdict,
   cards |-> cards, snapshot |-> snapshot]

\* The digest of a resolution covers the bundle, the action and the status to
\* resume at, which the first two determine.
Resolution(bundle, action) ==
  [by |-> "resolution", phase |-> bundle.phase, verdict |-> action,
   cards |-> bundle.cards, snapshot |-> 0]

-----------------------------------------------------------------------------
(* The row. *)

Row == [status: Phases \cup Settled \cup {"absent"}, revision: Nat,
        evidence: Seq(Evidence), bundle: Bundle]

AbsentRow == [status |-> "absent", revision |-> 0, evidence |-> << >>, bundle |-> NoBundle]

\* create_personal_run
NewRow == [AbsentRow EXCEPT !.status = "queued", !.revision = 1]

\* unique_evidence: an identifier already in the row
Cites(row, evidence) == \E i \in DOMAIN row.evidence : row.evidence[i] = evidence

\* PersonalCourseRun.advance raises ValueError unless this holds.
MayAdvance(row, next, evidence) ==
  /\ row.status \in DOMAIN Transitions
  /\ next \in Transitions[row.status]
  /\ ~Cites(row, evidence)

\* Fault: the write that settles a run leaves its revision.
AdvancedUncounted(row, next, evidence, bundle) ==
  [status   |-> next,
   revision |-> IF next \in Settled THEN row.revision ELSE row.revision + 1,
   evidence |-> Append(row.evidence, evidence),
   bundle   |-> IF next = "needs_attention" THEN bundle ELSE NoBundle]

\* PersonalCourseRun.advance: the bundle exists only while attention is needed.
Advanced(row, next, evidence, bundle) ==
  [status   |-> next,
   revision |-> row.revision + 1,
   evidence |-> Append(row.evidence, evidence),
   bundle   |-> IF next = "needs_attention" THEN bundle ELSE NoBundle]

Checkpoints(row) == {i \in DOMAIN row.evidence : row.evidence[i].by = "phase"}

\* _attention_phase: the phase of the latest checkpoint among the row's
\* evidence (the only kind of evidence that names a phase).
AttentionPhase(row) ==
  LET latest == CHOOSE i \in Checkpoints(row) : \A j \in Checkpoints(row) : j <= i
  IN  row.evidence[latest].phase

\* Fault: an answer about a visual sends the run back to its cards.
ResumeStatusRestarts(phase, action) ==
  IF phase = "assigning_visuals" THEN "organizing_knowledge" ELSE phase

\* _resume_status
ResumeStatus(phase, action) ==
  IF phase = "assigning_visuals" /\ action = "continue-without-visual"
  THEN "validating" ELSE phase
=============================================================================
