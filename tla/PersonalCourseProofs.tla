------------------------ MODULE PersonalCourseProofs ------------------------
(***************************************************************************)
(* Theorems about PersonalCourse, for any runs, cards, processes and       *)
(* threads: type correctness, and that reads under a current revision are  *)
(* current.                                                                *)
(***************************************************************************)
EXTENDS PersonalCourse, FiniteSetTheorems, SequenceTheorems, WellFoundedInduction, TLAPS

\* The null values and the values built by the operators have their types.
LEMMA NullTypes ==
  /\ NoBundle \in Bundle /\ AbsentRow \in Row /\ NewRow \in Row
  /\ NoOutcome \in Outcomes /\ IdleWorker \in WorkerStates /\ IdleCall \in CallStates
  <1>1. NoBundle \in Bundle
    BY DEF NoBundle, Bundle
  <1>2. AbsentRow \in Row
    BY <1>1, EmptySeq DEF AbsentRow, Row
  <1>3. NewRow \in Row
    BY <1>2 DEF NewRow, Row, Phases
  <1>4. NoOutcome \in Outcomes
    BY DEF NoOutcome, Outcome, Outcomes, Checkpoint, Evidence, Settled
  <1>5. IdleWorker \in WorkerStates
    BY <1>4, EmptySeq DEF IdleWorker, WorkerStates, WorkerPcs, Statuses
  <1>6. IdleCall \in CallStates
    BY <1>1 DEF IdleCall, CallStates, CallPcs, Actions
  <1> QED
    BY <1>1, <1>2, <1>3, <1>4, <1>5, <1>6

LEMMA CheckpointType ==
  ASSUME NEW phase \in Phases, NEW verdict \in {"passed", "attention", "failed"},
         NEW cards \in SUBSET Cards, NEW s \in Nat
  PROVE  Checkpoint(phase, verdict, cards, s) \in Evidence
  BY DEF Checkpoint, Evidence

LEMMA ResolutionType ==
  ASSUME NEW bundle \in Bundle, NEW action \in Actions
  PROVE  Resolution(bundle, action) \in Evidence
  BY DEF Resolution, Evidence, Bundle

LEMMA OutcomeType ==
  ASSUME NEW next \in Phases \cup Settled, NEW evidence \in Evidence, NEW cards \in SUBSET Cards
  PROVE  Outcome(next, evidence, cards) \in Outcomes
  BY DEF Outcome, Outcomes

LEMMA AdvancedType ==
  ASSUME NEW x \in Row, NEW next \in Phases \cup Settled, NEW evidence \in Evidence,
         NEW bundle \in Bundle
  PROVE  Advanced(x, next, evidence, bundle) \in Row
  <1>1. Append(x.evidence, evidence) \in Seq(Evidence)
    BY DEF Row
  <1>2. x.revision + 1 \in Nat
    BY DEF Row
  <1> QED
    BY <1>1, <1>2, NullTypes DEF Advanced, Row

\* There is a latest element of a nonempty set of positions.
LEMMA LatestExists ==
  ASSUME NEW n \in Nat, NEW S \in SUBSET (1..n), S # {}
  PROVE  \E i \in S : \A j \in S : j <= i
  <1> DEFINE T == {n - i : i \in S}
  <1>1. T \subseteq Nat /\ T # {}
    <2>1. \A i \in S : n - i \in Nat
      OBVIOUS
    <2>2. PICK i \in S : TRUE
      OBVIOUS
    <2>3. n - i \in T
      BY <2>2
    <2> QED
      BY <2>1, <2>3
  <1>2. PICK x \in T : \A y \in T : ~ (<<y, x>> \in OpToRel(<, Nat))
    BY <1>1, NatLessThanWellFounded, WFMin
  <1>3. \A y \in T : ~ (y < x)
    BY <1>1, <1>2 DEF OpToRel
  <1>4. PICK i \in S : x = n - i
    BY <1>2
  <1>5. ASSUME NEW j \in S PROVE j <= i
    <2>1. n - j \in T
      BY <1>5
    <2>2. ~ (n - j < n - i)
      BY <1>3, <1>4, <2>1
    <2> QED
      BY <1>4, <1>5, <2>2
  <1> QED
    BY <1>5

LEMMA AttentionPhaseType ==
  ASSUME NEW x \in Row, Checkpoints(x) # {}
  PROVE  AttentionPhase(x) \in Phases \cup {"none"}
  <1> DEFINE latest == CHOOSE i \in Checkpoints(x) : \A j \in Checkpoints(x) : j <= i
  <1>1. x.evidence \in Seq(Evidence)
    BY DEF Row
  <1>2. Checkpoints(x) \in SUBSET (1..Len(x.evidence)) /\ Len(x.evidence) \in Nat
    BY <1>1 DEF Checkpoints
  <1>3. latest \in Checkpoints(x)
    BY <1>2, LatestExists
  <1>4. x.evidence[latest] \in Evidence
    BY <1>1, <1>2, <1>3, ElementOfSeq
  <1> QED
    BY <1>4 DEF AttentionPhase, Evidence

\* _TRANSITIONS leads to statuses of a row only.
LEMMA TransitionTypes ==
  ASSUME NEW x, NEW next, NEW evidence, MayAdvance(x, next, evidence)
  PROVE  next \in Phases \cup Settled /\ x.status # "absent"
  BY DEF MayAdvance, Transitions, Phases, Settled

LEMMA MovedToEndType ==
  ASSUME NEW seq \in Seq(Runs), NEW r \in Runs
  PROVE  MovedToEnd(seq, r) \in Seq(Runs)
  <1>1. /\ Len(seq) \in Nat /\ DOMAIN seq = 1..Len(seq)
        /\ \A i \in 1..Len(seq) : seq[i] \in Runs
    BY LenProperties, ElementOfSeq
  <1>2. ASSUME NEW n \in Nat, NEW i \in 1..n, i # n PROVE i + 1 \in 1..n
    BY <1>2
  <1>3. MovedToEnd(seq, r) \in [1..Len(seq) -> Runs]
    BY <1>1, <1>2 DEF MovedToEnd
  <1> QED
    BY <1>1, <1>3, SeqDef

\* The fields of a thread's record, and what holds of them together.
WorkerFields ==
  [pc: WorkerPcs, ticket: Ticket \cup {NoTicket}, laps: Nat, status: Statuses,
   revision: Nat, todo: Seq(Cards), asked: SUBSET Cards, item: Runs \cup {"none"},
   claims: Nat, over: Nat, outcome: Outcomes]

WorkerRules(s) ==
  /\ s.pc # "idle" => s.ticket \in Ticket
  /\ s.pc \notin {"idle", "reading", "returning"} => s.status \in Phases
  /\ s.pc \in {"closing_task", "publishing_card"} => s.todo # << >>
  /\ s.pc = "indexing" => s.item \in Runs

LEMMA WorkerStatesAre == \A s : s \in WorkerStates <=> s \in WorkerFields /\ WorkerRules(s)
  BY DEF WorkerStates, WorkerFields, WorkerRules

\* What a thread's locals become.
LEMMA GotoType ==
  ASSUME worker \in [Workers -> WorkerStates], NEW w \in Workers, worker[w].pc # "idle",
         NEW pc \in WorkerPcs,
         pc \notin {"reading", "returning"} => worker[w].status \in Phases,
         pc \in {"closing_task", "publishing_card"} => worker[w].todo # << >>,
         pc = "indexing" => worker[w].item \in Runs,
         Goto(w, pc)
  PROVE  worker' \in [Workers -> WorkerStates]
  <1>1. [worker[w] EXCEPT !.pc = pc] \in WorkerStates
    BY DEF WorkerStates
  <1> QED
    BY <1>1 DEF Goto

LEMMA DecideType ==
  ASSUME worker \in [Workers -> WorkerStates], NEW w \in Workers, worker[w].pc # "idle",
         worker[w].status \in Phases, NEW outcome \in Outcomes, Decide(w, outcome)
  PROVE  worker' \in [Workers -> WorkerStates]
  <1> DEFINE new == [worker[w] EXCEPT !.pc = "advancing", !.outcome = outcome]
  <1>2. worker[w] \in WorkerFields /\ WorkerRules(worker[w])
    BY WorkerStatesAre
  <1>3. new \in WorkerFields
    BY <1>2 DEF WorkerFields, WorkerPcs
  <1>4. WorkerRules(new)
    BY <1>2 DEF WorkerFields, WorkerRules
  <1>5. new \in WorkerStates
    BY <1>3, <1>4, WorkerStatesAre
  <1> QED
    BY <1>5 DEF Decide

LEMMA FailType ==
  ASSUME worker \in [Workers -> WorkerStates], NEW w \in Workers, worker[w].pc # "idle",
         worker[w].status \in Phases, Fail(w)
  PROVE  worker' \in [Workers -> WorkerStates]
  <1>1. Checkpoint(worker[w].status, "failed", {}, 0) \in Evidence
    BY CheckpointType
  <1> QED
    BY <1>1, OutcomeType, DecideType DEF Fail, Settled

\* A thread inside a handler works for a run and has read one of its phases.
LEMMA HandlerFacts ==
  ASSUME TypeOK, NEW w \in Workers, worker[w].pc \notin {"idle", "reading", "returning"}
  PROVE  /\ worker[w].status \in Phases /\ RunOf(w) \in Runs /\ ActorOf(w) \in Actors
         /\ worker[w].todo \in Seq(Cards) /\ worker[w].asked \in SUBSET Cards
         /\ worker[w].over \in Nat
         /\ worker[w].pc \in {"closing_task", "publishing_card"} => worker[w].todo # << >>
         /\ worker[w].pc = "indexing" => worker[w].item \in Runs
         /\ worker \in [Workers -> WorkerStates]
  BY DEF TypeOK, WorkerStates, RunOf, ActorOf, Ticket

LEMMA CandidateTypes ==
  ASSUME NEW r \in Runs
  PROVE  CardsOf[r] \in Seq(Cards) /\ CandidatesOf(r) \in SUBSET Cards
  <1>1. CardsOf[r] \in Seq(Cards)
    BY ConstantsAssumption DEF ConstantsAssumption
  <1> QED
    BY <1>1, ElementOfSeq DEF CandidatesOf, ToSet

LEMMA CommitType ==
  ASSUME TypeOK, NEW r \in Runs, NEW artifact \in Artifacts, NEW actor \in Actors,
         Commit(r, artifact, actor)
  PROVE  bound' \in [Runs -> [Artifacts -> Actors \cup {Nobody}]]
  <1>1. [bound[r] EXCEPT ![artifact] = actor] \in [Artifacts -> Actors \cup {Nobody}]
    BY DEF TypeOK
  <1> QED
    BY <1>1 DEF Commit, TypeOK

LEMMA EndCallType ==
  ASSUME call \in [Callers -> CallStates], NEW c \in Callers, EndCall(c)
  PROVE  call' \in [Callers -> CallStates]
  BY NullTypes DEF EndCall

LEMMA InitType == Init => TypeOK
  <1> SUFFICES ASSUME Init PROVE TypeOK
    OBVIOUS
  <1>1. /\ row \in [Runs -> Row] /\ worker \in [Workers -> WorkerStates]
        /\ call \in [Callers -> CallStates]
    BY NullTypes DEF Init
  <1>2. /\ task \in [Cards -> {"none", "open", "answered"} \cup Actors]
        /\ bound \in [Runs -> [Artifacts -> Actors \cup {Nobody}]]
        /\ outbox \in Seq(Runs)
        /\ claim \in [Runs -> {"none", "waiting", "consumed"} \cup Workers]
        /\ requirement \in [Runs -> SUBSET Cards] /\ outline \in [Runs -> Nat]
    BY EmptySeq DEF Init
  <1>3. /\ mode \in [Helpers -> Modes]
        /\ queue \in [Helpers -> Seq(Ticket)]
        /\ active \in [Helpers -> [Runs -> Ticket \cup {NoTicket}]]
        /\ settling \in [Helpers -> SUBSET Ticket]
    BY DEF Init, Modes
  <1> QED
    BY <1>1, <1>2, <1>3 DEF Init, TypeOK

-----------------------------------------------------------------------------
(* Type correctness: every action preserves TypeOK. *)

\* The steps of a phase handler that touch the thread's locals only.
LEMMA HandlerTypes ==
  ASSUME TypeOK, NEW w \in Workers,
         \/ StartPhase(w) \/ ImportPhase(w) \/ OrganizePhase(w) \/ OrganizeCard(w)
         \/ OrganizeEnd(w) \/ MeetReplaced(w)
  PROVE  TypeOK'
  <1>1. worker[w].pc \in {"handling", "organizing", "outlining"}
    BY DEF StartPhase, ImportPhase, OrganizePhase, OrganizeCard, OrganizeEnd, MeetReplaced, InHandler
  <1>2. /\ worker[w].status \in Phases /\ RunOf(w) \in Runs
        /\ worker[w].todo \in Seq(Cards) /\ worker[w].asked \in SUBSET Cards
        /\ worker \in [Workers -> WorkerStates]
    BY <1>1, HandlerFacts
  <1>3. worker' \in [Workers -> WorkerStates]
    <2>1. CASE StartPhase(w)
      <3>1. Checkpoint("queued", "passed", {}, 0) \in Evidence
        BY CheckpointType DEF Phases
      <3> QED
        BY <1>1, <1>2, <2>1, <3>1, OutcomeType, DecideType DEF StartPhase, Phases
    <2>2. CASE ImportPhase(w)
      <3>1. /\ Checkpoint("importing", "passed", {}, 0) \in Evidence
            /\ Checkpoint("importing", "attention", {}, 0) \in Evidence
        BY CheckpointType DEF Phases
      <3> QED
        BY <1>1, <1>2, <2>2, <3>1, OutcomeType, DecideType DEF ImportPhase, Phases, Settled
    <2>3. CASE OrganizePhase(w)
      <3> DEFINE new == [worker[w] EXCEPT !.pc = "organizing", !.todo = CardsOf[RunOf(w)],
                                          !.asked = {}]
      <3>1. new \in WorkerStates
        <4> DEFINE cards == CardsOf[RunOf(w)]
        <4>1. cards \in Seq(Cards)
          BY <1>2, CandidateTypes
        <4> HIDE DEF cards
        <4> DEFINE entered == [worker[w] EXCEPT !.pc = "organizing", !.todo = cards, !.asked = {}]
        <4>2. worker[w] \in WorkerFields /\ WorkerRules(worker[w])
          BY <1>2, WorkerStatesAre
        <4>3. entered \in WorkerFields
          BY <4>1, <4>2 DEF WorkerFields, WorkerPcs
        <4>4. WorkerRules(entered)
          BY <1>1, <1>2, <4>2 DEF WorkerFields, WorkerRules
        <4> QED
          BY <4>3, <4>4, WorkerStatesAre DEF cards
      <3>2. worker' = [worker EXCEPT ![w] = new]
        BY <2>3 DEF OrganizePhase
      <3> QED
        BY <1>2, <3>1, <3>2
    <2>4. CASE OrganizeCard(w)
      <3> DEFINE c == Head(worker[w].todo)
                 new == [worker[w] EXCEPT !.todo = Tail(worker[w].todo),
                                   !.asked = worker[w].asked \cup {c}]
                 pc == IF task[c] = "open" THEN "closing_task" ELSE "publishing_card"
      <3>1. worker[w].todo # << >> /\ worker[w].pc = "organizing"
        BY <2>4 DEF OrganizeCard
      <3>2. c \in Cards /\ Tail(worker[w].todo) \in Seq(Cards)
        BY <1>2, <3>1, HeadTailProperties
      <3>3. new \in WorkerStates
        <4> DEFINE rest == Tail(worker[w].todo)
                   more == worker[w].asked \cup {c}
        <4>1. rest \in Seq(Cards) /\ more \in SUBSET Cards
          BY <1>2, <3>2
        <4> HIDE DEF rest, more
        <4>2. [worker[w] EXCEPT !.todo = rest, !.asked = more] \in WorkerStates
          BY <1>2, <3>1, <4>1 DEF WorkerStates
        <4> QED
          BY <4>2 DEF rest, more
      <3>4. worker' = [worker EXCEPT ![w] = new] \/ Goto(w, pc)
        BY <2>4 DEF OrganizeCard
      <3>5. pc \in WorkerPcs \ {"indexing"}
        BY DEF WorkerPcs
      <3>6. CASE Goto(w, pc)
        <4> HIDE DEF pc
        <4> QED
          BY <1>1, <1>2, <3>1, <3>5, <3>6, GotoType
      <3> QED
        BY <1>2, <3>3, <3>4, <3>6
    <2>5. CASE OrganizeEnd(w)
      <3>1. Checkpoint("organizing_knowledge", "attention", CandidatesOf(RunOf(w)) \ worker[w].asked, 0)
              \in Evidence
        BY <1>2, CandidateTypes, CheckpointType DEF Phases
      <3>2. CASE Goto(w, "enqueueing")
        BY <1>1, <1>2, <3>2, GotoType DEF WorkerPcs
      <3>3. CASE Fail(w)
        BY <1>1, <1>2, <3>3, FailType
      <3> QED
        BY <1>1, <1>2, <2>5, <3>1, <3>2, <3>3, OutcomeType, DecideType
         DEF OrganizeEnd, HeldBack, Settled
    <2>6. CASE MeetReplaced(w)
      BY <1>1, <1>2, <2>6, FailType DEF MeetReplaced
    <2> QED
      BY <2>1, <2>2, <2>3, <2>4, <2>5, <2>6
  <1>4. UNCHANGED <<row, touched, task, published, replaced, bound, outbox, claim, lapsed, snapshot, requirement,
                    outline, recorded, mode, queue, active, settling, call, calls, jobs, crashes>>
    BY DEF StartPhase, ImportPhase, OrganizePhase, OrganizeCard, OrganizeEnd, MeetReplaced,
           OnlyWorker, rowVars, materialVars, artifactVars, indexVars, poolVars, boundVars
  <1> QED
    BY <1>3, <1>4 DEF TypeOK

\* The steps of a phase handler that commit something.
LEMMA CommitTypes ==
  ASSUME TypeOK, NEW w \in Workers,
         \/ CloseSafeTask(w) \/ PublishCard(w) \/ EnqueueIndex(w)
  PROVE  TypeOK'
  <1> DEFINE r == RunOf(w)
  <1>1. worker[w].pc \in {"closing_task", "publishing_card", "enqueueing"}
    BY DEF CloseSafeTask, PublishCard, EnqueueIndex
  <1>2. /\ worker[w].status \in Phases /\ r \in Runs /\ ActorOf(w) \in Actors
        /\ worker[w].todo \in Seq(Cards)
        /\ worker[w].pc \in {"closing_task", "publishing_card"} =>
             /\ worker[w].todo # << >> /\ Head(worker[w].todo) \in Cards
             /\ Tail(worker[w].todo) \in Seq(Cards)
        /\ worker \in [Workers -> WorkerStates]
    BY <1>1, HandlerFacts, HeadTailProperties
  <1>3. UNCHANGED <<row, touched, recorded, mode, queue, active, settling, call, calls, jobs, crashes>>
    BY DEF CloseSafeTask, PublishCard, EnqueueIndex, OnlyWorker, rowVars, poolVars, boundVars
  <1>4. CASE CloseSafeTask(w)
    <2>1. worker' \in [Workers -> WorkerStates]
      <3>1. Goto(w, "publishing_card") \/ Fail(w)
        BY <1>4 DEF CloseSafeTask
      <3>2. worker[w].todo # << >>
        BY <1>2, <1>4 DEF CloseSafeTask
      <3> QED
        BY <1>1, <1>2, <3>1, <3>2, GotoType, FailType DEF WorkerPcs
    <2>2. task' \in [Cards -> {"none", "open", "answered"} \cup Actors]
      BY <1>2, <1>4 DEF CloseSafeTask, TypeOK
    <2>3. UNCHANGED <<published, replaced, bound, outbox, claim, lapsed, snapshot, requirement, outline>>
      BY <1>4 DEF CloseSafeTask, artifactVars, indexVars
    <2> QED
      BY <1>3, <2>1, <2>2, <2>3 DEF TypeOK
  <1>5. CASE PublishCard(w)
    <2> DEFINE new == [worker[w] EXCEPT !.pc = "organizing", !.todo = Tail(worker[w].todo)]
    <2>0. Tail(worker[w].todo) \in Seq(Cards) /\ Head(worker[w].todo) \in Cards
      BY <1>2, <1>5 DEF PublishCard
    <2>1. new \in WorkerStates
      <3> DEFINE rest == Tail(worker[w].todo)
      <3> HIDE DEF rest
      <3>1. ASSUME rest \in Seq(Cards)
            PROVE  [worker[w] EXCEPT !.pc = "organizing", !.todo = rest] \in WorkerStates
        <4> DEFINE passed == [worker[w] EXCEPT !.pc = "organizing", !.todo = rest]
        <4>1. worker[w] \in WorkerFields /\ WorkerRules(worker[w])
          BY <1>2, WorkerStatesAre
        <4>2. passed \in WorkerFields
          BY <3>1, <4>1 DEF WorkerFields, WorkerPcs
        <4>3. WorkerRules(passed)
          BY <1>1, <1>2, <4>1 DEF WorkerFields, WorkerRules
        <4> QED
          BY <4>2, <4>3, WorkerStatesAre
      <3> QED
        BY <2>0, <3>1 DEF rest
    <2>2. worker' \in [Workers -> WorkerStates]
      <3>1. worker' = [worker EXCEPT ![w] = new] \/ Fail(w)
        BY <1>5 DEF PublishCard
      <3> HIDE DEF new
      <3> QED
        BY <1>1, <1>2, <2>1, <3>1, FailType
    <2>3. published' \in SUBSET Cards /\ published \subseteq published'
      BY <1>5, <2>0 DEF PublishCard, TypeOK
    <2>4. UNCHANGED <<task, replaced, bound, outbox, claim, lapsed, snapshot, requirement, outline>>
      BY <1>5 DEF PublishCard, artifactVars, indexVars
    <2> QED
      BY <1>3, <2>2, <2>3, <2>4 DEF TypeOK
  <1>6. CASE EnqueueIndex(w)
    <2> DEFINE new == [worker[w] EXCEPT !.pc = "adopting", !.claims = 0]
    <2>1. worker' = [worker EXCEPT ![w] = new] \/ Fail(w)
      BY <1>6 DEF EnqueueIndex
    <2>2. worker' \in [Workers -> WorkerStates]
      <3>1. worker[w] \in WorkerFields /\ WorkerRules(worker[w])
        BY <1>2, WorkerStatesAre
      <3>2. new \in WorkerFields
        BY <3>1 DEF WorkerFields, WorkerPcs
      <3>3. WorkerRules(new)
        BY <1>1, <1>2, <3>1 DEF WorkerFields, WorkerRules
      <3>4. new \in WorkerStates
        BY <3>2, <3>3, WorkerStatesAre
      <3> HIDE DEF new
      <3> QED
        BY <1>1, <1>2, <2>1, <3>4, FailType
    <2>3. bound' \in [Runs -> [Artifacts -> Actors \cup {Nobody}]]
      BY <1>2, <1>6, CommitType DEF EnqueueIndex, Artifacts, TypeOK
    <2>4. outbox' \in Seq(Runs)
      <3>1. outbox' = Append(outbox, r) \/ outbox' = outbox
        BY <1>6 DEF EnqueueIndex
      <3>2. outbox \in Seq(Runs) /\ Append(outbox, r) \in Seq(Runs)
        BY <1>2, AppendProperties DEF TypeOK
      <3> QED
        BY <3>1, <3>2
    <2>5. claim' \in [Runs -> {"none", "waiting", "consumed"} \cup Workers]
      <3> DEFINE next == IF claim[r] = "none" THEN "waiting" ELSE claim[r]
      <3>1. claim' = [claim EXCEPT ![r] = next] \/ claim' = claim
        BY <1>6 DEF EnqueueIndex
      <3>2. next \in {"none", "waiting", "consumed"} \cup Workers
        BY <1>2 DEF TypeOK
      <3> HIDE DEF next
      <3> QED
        BY <3>1, <3>2 DEF TypeOK
    <2>6. UNCHANGED <<task, published, replaced, lapsed, snapshot, requirement, outline>>
      BY <1>6 DEF EnqueueIndex, materialVars
    <2> QED
      BY <1>3, <2>2, <2>3, <2>4, <2>5, <2>6 DEF TypeOK
  <1> QED
    BY <1>4, <1>5, <1>6

\* A snapshot has a number.
LEMMA SealType ==
  ASSUME TypeOK, Seal
  PROVE  snapshot' \in Nat
  <1>1. IsFiniteSet(published) /\ IsFiniteSet(replaced)
    BY ConstantsAssumption, FS_Subset DEF ConstantsAssumption, TypeOK
  <1>2. Cardinality(published) \in Nat /\ Cardinality(replaced) \in Nat
    BY <1>1, FS_CardinalityType
  <1>3. Len(outbox) \in Nat
    BY LenProperties DEF TypeOK
  <1> QED
    BY <1>2, <1>3 DEF Seal

\* The steps over the shared index work.
LEMMA IndexTypes ==
  ASSUME TypeOK, NEW w \in Workers,
         AdoptClaim(w) \/ ClaimIndex(w) \/ CompleteIndex(w) \/ IndexEnd(w)
  PROVE  TypeOK'
  <1> DEFINE r == RunOf(w)
             Claims == {"none", "waiting", "consumed"} \cup Workers
  <1>1. worker[w].pc \in {"adopting", "claiming", "indexing"}
    BY DEF AdoptClaim, ClaimIndex, CompleteIndex, IndexEnd
  <1>2. /\ worker[w].status \in Phases /\ r \in Runs
        /\ worker[w].pc = "indexing" => worker[w].item \in Runs
        /\ worker \in [Workers -> WorkerStates] /\ worker[w] \in WorkerStates
    BY <1>1, HandlerFacts
  <1>3. /\ claim \in [Runs -> Claims] /\ outbox \in Seq(Runs) /\ lapsed \subseteq Workers
        /\ snapshot \in Nat
    BY DEF TypeOK
  <1>4. UNCHANGED <<row, touched, task, published, replaced, bound, outbox, requirement, outline, recorded,
                    mode, queue, active, settling, call, calls, jobs, crashes>>
    BY DEF AdoptClaim, ClaimIndex, CompleteIndex, IndexEnd, OnlyWorker, rowVars, materialVars,
           artifactVars, indexVars, poolVars, boundVars
  <1>5. SUFFICES /\ worker' \in [Workers -> WorkerStates] /\ claim' \in [Runs -> Claims]
                 /\ lapsed' \subseteq Workers /\ snapshot' \in Nat
    BY <1>4, <1>5 DEF TypeOK
  <1>6. CASE AdoptClaim(w)
    <2>1. worker' \in [Workers -> WorkerStates]
      BY <1>1, <1>2, <1>6, GotoType DEF AdoptClaim, WorkerPcs
    <2>2. claim' = [claim EXCEPT ![r] = "consumed"] \/ claim' = claim
      BY <1>6 DEF AdoptClaim
    <2>3. claim' \in [Runs -> Claims]
      BY <1>3, <2>2
    <2>4. snapshot' \in Nat /\ lapsed' = lapsed
      BY <1>3, <1>6, SealType DEF AdoptClaim
    <2> QED
      BY <1>3, <2>1, <2>3, <2>4
  <1>7. CASE ClaimIndex(w)
    <2>1. PICK E \in SUBSET {s \in Runs : claim[s] \in Workers} :
            /\ lapsed' = (lapsed \cup Holders(E)) \ {w}
            /\ \/ /\ claim' = [s \in Runs |-> IF s \in E THEN "waiting" ELSE claim[s]]
                  /\ Fail(w)
               \/ \E i \in Claimable(E) :
                    /\ claim' = [s \in Runs |-> IF s = outbox[i] THEN w
                                                ELSE IF s \in E THEN "waiting" ELSE claim[s]]
                    /\ worker' = [worker EXCEPT ![w] =
                         [worker[w] EXCEPT !.pc = "indexing", !.item = outbox[i],
                                           !.claims = worker[w].claims + 1]]
      BY <1>7 DEF ClaimIndex
    <2>2. lapsed' \subseteq Workers
      BY <1>3, <2>1 DEF Holders
    <2>3. snapshot' = snapshot
      BY <1>7 DEF ClaimIndex
    <2>4. CASE /\ claim' = [s \in Runs |-> IF s \in E THEN "waiting" ELSE claim[s]]
               /\ Fail(w)
      <3>1. claim' \in [Runs -> Claims]
        BY <1>3, <2>4
      <3> QED
        BY <1>1, <1>2, <1>3, <2>2, <2>3, <2>4, <3>1, FailType
    <2>5. ASSUME NEW i \in Claimable(E),
                 claim' = [s \in Runs |-> IF s = outbox[i] THEN w
                                          ELSE IF s \in E THEN "waiting" ELSE claim[s]],
                 worker' = [worker EXCEPT ![w] =
                   [worker[w] EXCEPT !.pc = "indexing", !.item = outbox[i],
                                     !.claims = worker[w].claims + 1]]
          PROVE  claim' \in [Runs -> Claims] /\ worker' \in [Workers -> WorkerStates]
      <3> DEFINE item == outbox[i]
      <3>1. item \in Runs
        BY <1>3, ElementOfSeq DEF Claimable
      <3>2. claim' \in [Runs -> Claims]
        BY <1>3, <2>5
      <3> HIDE DEF item
      <3> DEFINE new == [worker[w] EXCEPT !.pc = "indexing", !.item = item,
                                          !.claims = worker[w].claims + 1]
      <3>3. new \in WorkerStates
        <4>1. worker[w] \in WorkerFields /\ WorkerRules(worker[w])
          BY <1>2, WorkerStatesAre
        <4>2. worker[w].claims + 1 \in Nat
          BY <4>1 DEF WorkerFields
        <4>3. new \in WorkerFields
          BY <3>1, <4>1, <4>2 DEF WorkerFields, WorkerPcs
        <4>4. WorkerRules(new)
          BY <1>1, <1>2, <3>1, <4>1 DEF WorkerFields, WorkerRules
        <4> QED
          BY <4>3, <4>4, WorkerStatesAre
      <3>4. worker' = [worker EXCEPT ![w] = new]
        BY <2>5 DEF item
      <3> HIDE DEF new
      <3> QED
        BY <1>2, <3>2, <3>3, <3>4
    <2> QED
      BY <1>3, <2>1, <2>2, <2>3, <2>4, <2>5
  <1>8. CASE CompleteIndex(w)
    <2> DEFINE s == worker[w].item
    <2>1. Goto(w, "claiming") \/ Fail(w)
      BY <1>8 DEF CompleteIndex
    <2>2. worker' \in [Workers -> WorkerStates]
      BY <1>1, <1>2, <2>1, GotoType, FailType DEF WorkerPcs
    <2>3. claim' = [claim EXCEPT ![s] = "consumed"] \/ claim' = claim
      BY <1>8 DEF CompleteIndex
    <2>4. claim' \in [Runs -> Claims]
      BY <1>3, <2>3
    <2>5. snapshot' \in Nat /\ lapsed' = lapsed
      BY <1>3, <1>8, SealType DEF CompleteIndex
    <2> QED
      BY <1>3, <2>2, <2>4, <2>5
  <1>9. CASE IndexEnd(w)
    <2> DEFINE done == Checkpoint("organizing_knowledge", "passed", CandidatesOf(r), snapshot)
    <2>1. done \in Evidence
      BY <1>2, <1>3, CandidateTypes, CheckpointType DEF Phases
    <2>2. Decide(w, Outcome("composing", done, {})) \/ Fail(w)
      BY <1>9 DEF IndexEnd
    <2> HIDE DEF done
    <2>3. worker' \in [Workers -> WorkerStates]
      BY <1>1, <1>2, <2>1, <2>2, OutcomeType, DecideType, FailType DEF Phases
    <2> QED
      BY <1>3, <1>9, <2>3 DEF IndexEnd, artifactVars, indexVars
  <1> QED
    BY <1>6, <1>7, <1>8, <1>9

LEMMA CourseTypes ==
  ASSUME TypeOK, NEW w \in Workers,
         \/ ComposePhase(w) \/ OutlinePhase(w) \/ AssignVisualsPhase(w) \/ ValidatePhase(w)
  PROVE  TypeOK'
  <1> DEFINE r == RunOf(w)
  <1>1. worker[w].pc \in {"handling", "outlining"}
    BY DEF ComposePhase, OutlinePhase, AssignVisualsPhase, ValidatePhase, InHandler
  <1>2. /\ worker[w].status \in Phases /\ r \in Runs /\ ActorOf(w) \in Actors
        /\ worker[w].over \in Nat
        /\ worker \in [Workers -> WorkerStates]
    BY <1>1, HandlerFacts
  <1>3. UNCHANGED <<row, touched, task, published, replaced, outbox, claim, lapsed, snapshot, recorded, mode, queue,
                    active, settling, call, calls, jobs, crashes>>
    BY DEF ComposePhase, OutlinePhase, AssignVisualsPhase, ValidatePhase,
           OnlyWorker, rowVars, poolVars, boundVars, materialVars, indexVars
  <1>4. CASE ComposePhase(w)
    <2> DEFINE new == [worker[w] EXCEPT !.pc = "outlining", !.over = snapshot]
    <2>1. new \in WorkerStates
      <3>1. snapshot \in Nat
        BY DEF TypeOK
      <3>2. worker[w] \in WorkerFields /\ WorkerRules(worker[w])
        BY <1>2, WorkerStatesAre
      <3>3. new \in WorkerFields
        BY <3>1, <3>2 DEF WorkerFields, WorkerPcs
      <3>4. WorkerRules(new)
        BY <1>1, <1>2, <3>2 DEF WorkerFields, WorkerRules
      <3> QED
        BY <3>3, <3>4, WorkerStatesAre
    <2>2. worker' = [worker EXCEPT ![w] = new] \/ Fail(w)
      BY <1>4 DEF ComposePhase
    <2>3. worker' \in [Workers -> WorkerStates]
      BY <1>1, <1>2, <2>1, <2>2, FailType
    <2>4. PublishedOf(r) \in SUBSET Cards
      BY <1>2, CandidateTypes DEF PublishedOf
    <2>5. requirement' \in [Runs -> SUBSET Cards]
      BY <1>2, <1>4, <2>4 DEF ComposePhase, TypeOK
    <2>6. UNCHANGED <<bound, outline>>
      BY <1>4 DEF ComposePhase
    <2> QED
      BY <1>3, <2>3, <2>5, <2>6 DEF TypeOK
  <1>5. CASE OutlinePhase(w)
    <2> DEFINE composed == [by |-> "composition", phase |-> "none", verdict |-> "passed",
                            cards |-> requirement[r], snapshot |-> worker[w].over]
    <2>1. /\ composed \in Evidence
          /\ Checkpoint("composing", "attention", {}, 0) \in Evidence
      BY <1>2, CheckpointType DEF TypeOK, Evidence, Phases
    <2>2. \/ Decide(w, Outcome("needs_attention", Checkpoint("composing", "attention", {}, 0), {}))
          \/ Decide(w, Outcome("assigning_visuals", composed, {}))
          \/ Fail(w)
      BY <1>5 DEF OutlinePhase
    <2> HIDE DEF composed
    <2>3. worker' \in [Workers -> WorkerStates]
      BY <1>1, <1>2, <2>1, <2>2, OutcomeType, DecideType, FailType DEF Phases, Settled
    <2>4. outline' \in [Runs -> Nat]
      BY <1>2, <1>5 DEF OutlinePhase, TypeOK
    <2>5. UNCHANGED <<bound, requirement>>
      BY <1>5 DEF OutlinePhase
    <2> QED
      BY <1>3, <2>3, <2>4, <2>5 DEF TypeOK
  <1>6. CASE AssignVisualsPhase(w)
    <2>1. /\ Checkpoint("assigning_visuals", "attention", {}, 0) \in Evidence
          /\ Checkpoint("assigning_visuals", "passed", {}, 0) \in Evidence
      BY CheckpointType DEF Phases
    <2>2. \/ Decide(w, Outcome("needs_attention",
                              Checkpoint("assigning_visuals", "attention", {}, 0), {}))
          \/ Decide(w, Outcome("validating", Checkpoint("assigning_visuals", "passed", {}, 0), {}))
          \/ Fail(w)
      BY <1>6 DEF AssignVisualsPhase
    <2>3. worker' \in [Workers -> WorkerStates]
      BY <1>1, <1>2, <2>1, <2>2, OutcomeType, DecideType, FailType DEF Phases, Settled
    <2>4. bound' \in [Runs -> [Artifacts -> Actors \cup {Nobody}]]
      BY <1>2, <1>6, CommitType DEF AssignVisualsPhase, Artifacts, TypeOK
    <2>5. UNCHANGED <<requirement, outline>>
      BY <1>6 DEF AssignVisualsPhase
    <2> QED
      BY <1>3, <2>3, <2>4, <2>5 DEF TypeOK
  <1>7. CASE ValidatePhase(w)
    <2>1. Checkpoint("validating", "passed", {}, 0) \in Evidence
      BY CheckpointType DEF Phases
    <2>2. \/ Decide(w, Outcome("ready", Checkpoint("validating", "passed", {}, 0), {}))
          \/ Fail(w)
      BY <1>7 DEF ValidatePhase
    <2>3. worker' \in [Workers -> WorkerStates]
      BY <1>1, <1>2, <2>1, <2>2, OutcomeType, DecideType, FailType DEF Phases, Settled
    <2>4. bound' \in [Runs -> [Artifacts -> Actors \cup {Nobody}]]
      BY <1>2, <1>7, CommitType DEF ValidatePhase, Artifacts, TypeOK
    <2>5. UNCHANGED <<requirement, outline>>
      BY <1>7 DEF ValidatePhase
    <2> QED
      BY <1>3, <2>3, <2>4, <2>5 DEF TypeOK
  <1> QED
    BY <1>4, <1>5, <1>6, <1>7

\* The steps of the loop around the handlers.
LEMMA LoopTypes ==
  ASSUME TypeOK, NEW w \in Workers,
         TakeTicket(w) \/ ReadRun(w) \/ AdvanceRun(w) \/ Finish(w)
  PROVE  TypeOK'
  <1> DEFINE r == RunOf(w)
             h == Home[w]
  <1>1. h \in Helpers
    BY ConstantsAssumption DEF ConstantsAssumption
  <1>2. UNCHANGED <<task, published, replaced, bound, outbox, claim, lapsed, snapshot, requirement, outline, recorded,
                    mode, active, call, calls, jobs, crashes>>
    BY DEF TakeTicket, ReadRun, AdvanceRun, Finish, rowVars, materialVars, artifactVars, indexVars,
           poolVars, boundVars
  <1>3. worker \in [Workers -> WorkerStates] /\ worker[w] \in WorkerStates
    BY DEF TypeOK
  <1>4. CASE TakeTicket(w)
    <2>1. queue[h] \in Seq(Ticket) /\ queue[h] # << >>
      BY <1>1, <1>4 DEF TakeTicket, TypeOK
    <2>2. Head(queue[h]) \in Ticket /\ Tail(queue[h]) \in Seq(Ticket)
      BY <2>1, HeadTailProperties
    <2> DEFINE t == Head(queue[h])
               new == [IdleWorker EXCEPT !.pc = "reading", !.ticket = t]
    <2>3. new \in WorkerStates
      <3> HIDE DEF t
      <3>1. t \in Ticket => new \in WorkerStates
        BY NullTypes DEF WorkerStates, IdleWorker, WorkerPcs
      <3> QED
        BY <2>2, <3>1 DEF t
    <2>4. worker' \in [Workers -> WorkerStates]
      BY <1>3, <1>4, <2>3 DEF TakeTicket
    <2>5. queue' \in [Helpers -> Seq(Ticket)]
      <3>1. queue' = [queue EXCEPT ![h] = Tail(queue[h])]
        BY <1>4 DEF TakeTicket
      <3> QED
        BY <1>1, <2>2, <3>1 DEF TypeOK
    <2>6. UNCHANGED <<row, touched, settling>>
      BY <1>4 DEF TakeTicket, rowVars
    <2> QED
      BY <1>2, <2>4, <2>5, <2>6 DEF TypeOK
  <1>5. CASE ReadRun(w)
    <2> DEFINE status == row[r].status
               revision == row[r].revision
               pc == IF status \in Settled THEN "returning" ELSE "handling"
               new == [worker[w] EXCEPT !.pc = pc, !.laps = worker[w].laps + 1,
                                        !.status = status, !.revision = revision]
    <2>1. worker[w].pc = "reading" /\ r \in Runs
      BY <1>3, <1>5 DEF ReadRun, WorkerStates, RunOf, Ticket
    <2>2. row[r].status \in Statuses /\ row[r].revision \in Nat
      BY <2>1 DEF TypeOK, Row, Statuses
    <2>3. ASSUME Goto(w, "returning") PROVE worker' \in [Workers -> WorkerStates]
      BY <1>3, <2>1, <2>3, GotoType DEF WorkerPcs
    <2>4. ASSUME worker' = [worker EXCEPT ![w] = new] /\ row[r].status # "absent"
          PROVE  worker' \in [Workers -> WorkerStates]
      <3>1. new \in WorkerStates
        <4>1. status \in Statuses \ {"absent"} /\ revision \in Nat
          BY <2>2, <2>4
        <4>2. pc \in {"returning", "handling"} /\ (pc = "handling" => status \in Phases)
          BY <4>1 DEF Statuses
        <4>3. worker[w].laps + 1 \in Nat /\ worker[w].ticket \in Ticket
          BY <1>3, <2>1 DEF WorkerStates
        <4> HIDE DEF status, revision, pc
        <4> QED
          BY <1>3, <4>1, <4>2, <4>3 DEF WorkerStates, WorkerPcs
      <3> QED
        BY <1>3, <2>4, <3>1
    <2>5. worker' \in [Workers -> WorkerStates]
      BY <1>5, <2>3, <2>4 DEF ReadRun
    <2>6. UNCHANGED <<row, touched, queue, settling>>
      BY <1>5 DEF ReadRun, rowVars, poolVars
    <2> QED
      BY <1>2, <2>5, <2>6 DEF TypeOK
  <1>6. CASE AdvanceRun(w)
    <2> DEFINE done == worker[w].outcome
               bundle == [phase |-> worker[w].status, cards |-> done.cards]
    <2>1. worker[w].pc = "advancing"
      BY <1>6 DEF AdvanceRun
    <2>2. /\ worker[w].status \in Phases /\ r \in Runs /\ worker[w].outcome \in Outcomes
          /\ row[r] \in Row /\ touched \in Seq(Runs)
      BY <1>3, <2>1, HandlerFacts DEF TypeOK, WorkerStates
    <2>3. UNCHANGED <<queue, settling>>
      BY <1>6 DEF AdvanceRun, poolVars
    <2>4. CASE Goto(w, "reading") /\ UNCHANGED rowVars
      BY <1>2, <1>3, <2>1, <2>3, <2>4, GotoType DEF WorkerPcs, rowVars, TypeOK
    <2>5. CASE Goto(w, "returning") /\ UNCHANGED rowVars
      BY <1>2, <1>3, <2>1, <2>3, <2>5, GotoType DEF WorkerPcs, rowVars, TypeOK
    <2>6. CASE /\ row[r].revision = worker[w].revision /\ MayAdvance(row[r], done.next, done.evidence)
      <3> DEFINE pc == IF done.next \in Settled THEN "returning" ELSE "reading"
                 new == [worker[w] EXCEPT !.pc = pc, !.status = done.next,
                                          !.revision = row[r].revision + 1]
                 next == Advanced(row[r], done.next, done.evidence, bundle)
      <3>1. /\ row' = [row EXCEPT ![r] = next] /\ touched' = MovedToEnd(touched, r)
            /\ worker' = [worker EXCEPT ![w] = new]
        BY <1>6, <2>6 DEF AdvanceRun, Current
      <3>2. done.next \in Phases \cup Settled /\ done.evidence \in Evidence /\ bundle \in Bundle
        BY <2>2 DEF Outcomes, Bundle
      <3>3. next \in Row
        BY <2>2, <3>2, AdvancedType
      <3>4. new \in WorkerStates
        <4>1. row[r].revision + 1 \in Nat
          BY <2>2 DEF Row
        <4> QED
          BY <1>3, <2>1, <3>2, <4>1 DEF WorkerStates, WorkerPcs, Statuses
      <3>5. touched' \in Seq(Runs)
        BY <2>2, <3>1, MovedToEndType
      <3>6. row' \in [Runs -> Row] /\ worker' \in [Workers -> WorkerStates]
        <4> HIDE DEF next, new
        <4> QED
          BY <1>3, <2>2, <3>1, <3>3, <3>4 DEF TypeOK
      <3> QED
        BY <1>2, <2>3, <3>5, <3>6 DEF TypeOK
    <2> QED
      BY <1>6, <2>4, <2>5, <2>6 DEF AdvanceRun, AfterConflict, Current
  <1>7. CASE Finish(w)
    <2>1. worker' \in [Workers -> WorkerStates]
      BY <1>3, <1>7, NullTypes DEF Finish
    <2>2. worker[w].ticket \in Ticket
      BY <1>3, <1>7 DEF Finish, WorkerStates
    <2>3. settling' \in [Helpers -> SUBSET Ticket]
      BY <1>1, <1>7, <2>2 DEF Finish, TypeOK
    <2>4. UNCHANGED <<row, touched, queue>>
      BY <1>7 DEF Finish, rowVars
    <2> QED
      BY <1>2, <2>1, <2>3, <2>4 DEF TypeOK
  <1> QED
    BY <1>4, <1>5, <1>6, <1>7

LEMMA StartType ==
  ASSUME TypeOK, NEW h \in Helpers, NEW r \in Runs, NEW actor \in Actors, Start(h, r, actor)
  PROVE  /\ queue' \in [Helpers -> Seq(Ticket)]
         /\ active' \in [Helpers -> [Runs -> Ticket \cup {NoTicket}]]
  <1>1. CASE UNCHANGED <<queue, active>>
    BY <1>1 DEF TypeOK
  <1>2. CASE \E n \in TicketNumbers : LET future == [run |-> r, actor |-> actor, number |-> n]
                                IN  /\ queue' = [queue EXCEPT ![h] = Append(@, future)]
                                    /\ active' = [active EXCEPT ![h][r] = future]
    <2>1. PICK n \in TicketNumbers :
            LET future == [run |-> r, actor |-> actor, number |-> n]
            IN  /\ queue' = [queue EXCEPT ![h] = Append(queue[h], future)]
                /\ active' = [active EXCEPT ![h] = [active[h] EXCEPT ![r] = future]]
      BY <1>2
    <2> DEFINE future == [run |-> r, actor |-> actor, number |-> n]
    <2>2. future \in Ticket
      BY DEF Ticket
    <2> HIDE DEF future
    <2>3. queue[h] \in Seq(Ticket) /\ active[h] \in [Runs -> Ticket \cup {NoTicket}]
      BY DEF TypeOK
    <2>4. /\ Append(queue[h], future) \in Seq(Ticket)
          /\ [active[h] EXCEPT ![r] = future] \in [Runs -> Ticket \cup {NoTicket}]
      BY <2>2, <2>3
    <2>5. /\ queue' = [queue EXCEPT ![h] = Append(queue[h], future)]
          /\ active' = [active EXCEPT ![h] = [active[h] EXCEPT ![r] = future]]
      BY <2>1 DEF future
    <2> QED
      BY <2>4, <2>5 DEF TypeOK
  <1> QED
    BY <1>1, <1>2 DEF Start, Unused

\* The requests.
LEMMA CallTypes ==
  ASSUME TypeOK, NEW c \in Callers, CallStep(c) \/ User(c)
  PROVE  TypeOK'
  <1> DEFINE r == call[c].run
  <1>1. call \in [Callers -> CallStates] /\ call[c] \in CallStates
    BY DEF TypeOK
  <1>2. call[c].pc # "idle" => r \in Runs /\ row[r] \in Row
    BY <1>1 DEF CallStates, TypeOK
  <1>3. CASE \E x \in Runs : SubmitCreate(c, x)
    <2>1. PICK x \in Runs : SubmitCreate(c, x)
      BY <1>3
    <2>2. [IdleCall EXCEPT !.pc = "creating", !.run = x] \in CallStates
      BY NullTypes DEF CallStates, IdleCall, CallPcs
    <2>3. call' \in [Callers -> CallStates] /\ calls' \in Nat
      BY <1>1, <2>1, <2>2 DEF SubmitCreate, TypeOK
    <2> QED
      BY <2>1, <2>3 DEF SubmitCreate, OnlyCall, rowVars, materialVars, artifactVars, indexVars, TypeOK
  <1>4. CASE \E x \in Runs : \E a \in Actions : SubmitResolve(c, x, a)
    <2>1. PICK x \in Runs, a \in Actions : SubmitResolve(c, x, a)
      BY <1>4
    <2>2. row[x].bundle \in Bundle
      BY DEF TypeOK, Row
    <2> DEFINE bundle == row[x].bundle
               new == [IdleCall EXCEPT !.pc = "resolving", !.run = x, !.action = a,
                                       !.bundle = bundle]
    <2>3. new \in CallStates
      <3> HIDE DEF bundle
      <3>1. bundle \in Bundle => new \in CallStates
        BY NullTypes DEF CallStates, IdleCall, CallPcs
      <3> QED
        BY <2>2, <3>1 DEF bundle
    <2>4. call' \in [Callers -> CallStates] /\ calls' \in Nat
      BY <1>1, <2>1, <2>3 DEF SubmitResolve, TypeOK
    <2> QED
      BY <2>1, <2>4 DEF SubmitResolve, OnlyCall, rowVars, materialVars, artifactVars, indexVars, TypeOK
  <1>5. CASE CreateRun(c)
    <2>1. r \in Runs /\ touched \in Seq(Runs)
      BY <1>2, <1>5 DEF CreateRun, TypeOK
    <2>2. touched' \in Seq(Runs) /\ row' \in [Runs -> Row]
      <3>1. CASE UNCHANGED rowVars
        BY <2>1, <3>1 DEF rowVars, TypeOK
      <3>2. CASE row' = [row EXCEPT ![r] = NewRow] /\ touched' = Append(touched, r)
        <4>1. Append(touched, r) \in Seq(Runs)
          BY <2>1
        <4>2. row' \in [Runs -> Row]
          BY <2>1, <3>2, NullTypes DEF TypeOK
        <4> QED
          BY <3>2, <4>1, <4>2
      <3> QED
        BY <1>5, <3>1, <3>2 DEF CreateRun
    <2>3. [call[c] EXCEPT !.pc = "starting"] \in CallStates
      BY <1>1, <2>1 DEF CallStates, CallPcs
    <2>4. call' \in [Callers -> CallStates]
      BY <1>1, <1>5, <2>3 DEF CreateRun
    <2> QED
      BY <1>5, <2>2, <2>4 DEF CreateRun, OnlyCall, materialVars, artifactVars, indexVars, TypeOK
  <1>6. CASE ReadAttention(c)
    <2> DEFINE resume == ResumeStatus(AttentionPhase(row[r]), call[c].action)
               todo == Answered(row[r].bundle, call[c].action)
               new == [call[c] EXCEPT !.pc = "recording", !.revision = row[r].revision,
                                      !.resume = resume, !.todo = todo]
    <2>1. call[c].pc = "resolving" /\ r \in Runs /\ row[r].revision \in Nat /\ row[r].bundle \in Bundle
      BY <1>2, <1>6 DEF ReadAttention, Row
    <2>2. todo \in SUBSET Cards
      BY <2>1 DEF Answered, Bundle
    <2>3. ASSUME Checkpoints(row[r]) # {} PROVE new \in CallStates
      <3>1. row[r] \in Row
        BY <2>1 DEF TypeOK
      <3>2. resume \in Phases \cup {"none"}
        BY <2>3, <3>1, AttentionPhaseType DEF ResumeStatus, Phases
      <3> HIDE DEF resume, todo
      <3> QED
        BY <1>1, <2>1, <2>2, <3>2 DEF CallStates, CallPcs
    <2>4. \/ Checkpoints(row[r]) # {} /\ call' = [call EXCEPT ![c] = new]
          \/ EndCall(c)
      BY <1>6 DEF ReadAttention
    <2>5. call' \in [Callers -> CallStates]
      BY <1>1, <2>3, <2>4, EndCallType
    <2> QED
      BY <1>6, <2>5 DEF ReadAttention, OnlyCall, rowVars, materialVars, artifactVars, indexVars, TypeOK
  <1>7. CASE \E k \in Cards : AnswerTask(c, k)
    <2>1. PICK k \in Cards : AnswerTask(c, k)
      BY <1>7
    <2> DEFINE rest == call[c].todo \ {k}
    <2>2. rest \in SUBSET Cards
      BY <1>1 DEF CallStates
    <2>3. [call[c] EXCEPT !.todo = rest] \in CallStates
      <3> HIDE DEF rest
      <3> QED
        BY <1>1, <2>2 DEF CallStates
    <2>4. call' \in [Callers -> CallStates]
      BY <1>1, <2>1, <2>3, EndCallType DEF AnswerTask
    <2>5. task' \in [Cards -> {"none", "open", "answered"} \cup Actors]
      BY <2>1 DEF AnswerTask, TypeOK
    <2> QED
      BY <2>1, <2>4, <2>5 DEF AnswerTask, OnlyCall, rowVars, artifactVars, indexVars, TypeOK
  <1>8. CASE RecordResolution(c)
    <2>1. r \in Runs /\ call[c].bundle \in Bundle /\ call[c].action \in Actions
      BY <1>1, <1>2, <1>8 DEF RecordResolution, CallStates
    <2>2. [call[c] EXCEPT !.pc = "resuming"] \in CallStates
      BY <1>1, <2>1 DEF CallStates, CallPcs
    <2>3. call' \in [Callers -> CallStates]
      BY <1>1, <1>8, <2>2, EndCallType DEF RecordResolution
    <2>4. recorded' \subseteq [run: Runs, bundle: Bundle, action: Actions]
      BY <1>8, <2>1 DEF RecordResolution, TypeOK
    <2> QED
      BY <1>8, <2>3, <2>4 DEF RecordResolution, OnlyCall, rowVars, materialVars, artifactVars, indexVars, TypeOK
  <1>9. CASE ResumeRun(c)
    <2> DEFINE resume == call[c].resume
               evidence == Resolution(call[c].bundle, call[c].action)
               next == Advanced(row[r], resume, evidence, NoBundle)
    <2>1. /\ r \in Runs /\ row[r] \in Row /\ touched \in Seq(Runs)
          /\ call[c].bundle \in Bundle /\ call[c].action \in Actions
      BY <1>1, <1>2, <1>9 DEF ResumeRun, CallStates, TypeOK
    <2>2. evidence \in Evidence
      BY <2>1, ResolutionType
    <2>3. [call[c] EXCEPT !.pc = "starting"] \in CallStates
      BY <1>1, <2>1 DEF CallStates, CallPcs
    <2>4. CASE MayAdvance(row[r], resume, evidence) /\ row' = [row EXCEPT ![r] = next]
               /\ touched' = MovedToEnd(touched, r)
               /\ call' = [call EXCEPT ![c] = [call[c] EXCEPT !.pc = "starting"]]
      <3>1. next \in Row
        BY <2>1, <2>2, <2>4, TransitionTypes, NullTypes, AdvancedType
      <3>2. row' \in [Runs -> Row]
        <4> HIDE DEF next
        <4> QED
          BY <2>1, <2>4, <3>1 DEF TypeOK
      <3>3. touched' \in Seq(Runs) /\ call' \in [Callers -> CallStates]
        BY <1>1, <2>1, <2>3, <2>4, MovedToEndType
      <3> QED
        BY <1>9, <3>2, <3>3 DEF ResumeRun, OnlyCall, materialVars, artifactVars, indexVars, TypeOK
    <2>5. CASE EndCall(c) /\ UNCHANGED rowVars
      BY <1>1, <1>9, <2>5, EndCallType
         DEF ResumeRun, OnlyCall, rowVars, materialVars, artifactVars, indexVars, TypeOK
    <2> QED
      BY <1>9, <2>4, <2>5 DEF ResumeRun
  <1>10. CASE StartRun(c)
    <2>1. r \in Runs /\ Home[c] \in Helpers
      BY <1>2, <1>10, ConstantsAssumption DEF StartRun, ConstantsAssumption
    <2>2. Start(Home[c], r, "owner") \/ UNCHANGED <<queue, active>>
      BY <1>10 DEF StartRun
    <2>3. /\ queue' \in [Helpers -> Seq(Ticket)]
          /\ active' \in [Helpers -> [Runs -> Ticket \cup {NoTicket}]]
      BY <2>1, <2>2, StartType DEF Actors, TypeOK
    <2>4. call' \in [Callers -> CallStates]
      BY <1>1, <1>10, EndCallType DEF StartRun
    <2> QED
      BY <1>10, <2>3, <2>4 DEF StartRun, OnlyCall, rowVars, materialVars, artifactVars, indexVars, TypeOK
  <1> QED
    BY <1>3, <1>4, <1>5, <1>6, <1>7, <1>8, <1>9, <1>10 DEF CallStep, User

\* The futures a boot submits.
LEMMA BootTypes ==
  ASSUME TypeOK, NEW h \in Helpers, Boot(h)
  PROVE  TypeOK'
  <1>1. PICK order \in ResumeOrders, n \in TicketNumbers :
          /\ queue' = [queue EXCEPT ![h] = [i \in DOMAIN order |->
                         [run |-> order[i], actor |-> "system", number |-> n]]]
          /\ active' = [active EXCEPT ![h] = [r \in Runs |->
                          IF r \in Range(order)
                          THEN [run |-> r, actor |-> "system", number |-> n] ELSE NoTicket]]
    BY DEF Boot
  <1> DEFINE pending == {r \in Runs : Resumable(r)}
             size    == IF Cardinality(pending) <= ResumeLimit
                        THEN Cardinality(pending) ELSE ResumeLimit
             futures == [i \in DOMAIN order |-> [run |-> order[i], actor |-> "system", number |-> n]]
             entries == [r \in Runs |-> IF r \in Range(order)
                           THEN [run |-> r, actor |-> "system", number |-> n] ELSE NoTicket]
  <1>2. size \in Nat
    <2>1. IsFiniteSet(pending)
      BY ConstantsAssumption, FS_Subset DEF ConstantsAssumption
    <2> QED
      BY <2>1, ConstantsAssumption, FS_CardinalityType DEF ConstantsAssumption
  <1>3. order \in [1..size -> pending]
    BY DEF ResumeOrders
  <1>4. futures \in Seq(Ticket)
    <2> HIDE DEF size
    <2>1. \A i \in 1..size : [run |-> order[i], actor |-> "system", number |-> n] \in Ticket
      BY <1>3 DEF Ticket, Actors
    <2>2. futures \in [1..size -> Ticket]
      BY <1>3, <2>1
    <2> QED
      BY <1>2, <2>2, SeqDef
  <1>5. entries \in [Runs -> Ticket \cup {NoTicket}]
    BY DEF Ticket, Actors
  <1>6. queue' \in [Helpers -> Seq(Ticket)] /\ active' \in [Helpers -> [Runs -> Ticket \cup {NoTicket}]]
    <2>1. queue' = [queue EXCEPT ![h] = futures] /\ active' = [active EXCEPT ![h] = entries]
      BY <1>1
    <2> HIDE DEF futures, entries
    <2> QED
      BY <1>4, <1>5, <2>1 DEF TypeOK
  <1>7. mode' \in [Helpers -> Modes]
    BY DEF Boot, Modes, TypeOK
  <1> QED
    BY <1>6, <1>7 DEF Boot, rowVars, materialVars, artifactVars, indexVars, boundVars, TypeOK

\* The callbacks, the shutdown and the crash of a process.
LEMMA ProcessTypes ==
  ASSUME TypeOK, NEW h \in Helpers, Callback(h) \/ Bind(h) \/ Close(h) \/ Exit(h) \/ Crash(h)
  PROVE  TypeOK'
  <1>1. CASE Callback(h)
    <2>1. PICK future \in settling[h] : Forget(h, future)
      BY <1>1 DEF Callback
    <2>2. future \in Ticket
      BY DEF TypeOK
    <2>3. settling' \in [Helpers -> SUBSET Ticket]
      BY <2>1 DEF Forget, TypeOK
    <2>4. active' \in [Helpers -> [Runs -> Ticket \cup {NoTicket}]]
      <3>1. \/ active' = [active EXCEPT ![h] = [active[h] EXCEPT ![future.run] = NoTicket]]
            \/ active' = active
        BY <2>1 DEF Forget
      <3>2. [active[h] EXCEPT ![future.run] = NoTicket] \in [Runs -> Ticket \cup {NoTicket}]
        BY <2>2 DEF TypeOK
      <3> QED
        BY <3>1, <3>2 DEF TypeOK
    <2> QED
      BY <2>1, <2>3, <2>4 DEF Forget, rowVars, materialVars, artifactVars, indexVars, boundVars, TypeOK
  <1>2. CASE Bind(h) \/ Close(h)
    BY <1>2 DEF Bind, Close, Modes, rowVars, materialVars, artifactVars, indexVars, boundVars, TypeOK
  <1>3. ASSUME Vanish(h), crashes' \in Nat PROVE TypeOK'
    <2>1. /\ mode' \in [Helpers -> Modes]
          /\ queue' \in [Helpers -> Seq(Ticket)]
          /\ active' \in [Helpers -> [Runs -> Ticket \cup {NoTicket}]]
          /\ settling' \in [Helpers -> SUBSET Ticket]
      BY <1>3 DEF Vanish, Modes, TypeOK
    <2>2. worker' \in [Workers -> WorkerStates] /\ call' \in [Callers -> CallStates]
      BY <1>3, NullTypes DEF Vanish, TypeOK
    <2> QED
      BY <1>3, <2>1, <2>2 DEF Vanish, rowVars, materialVars, artifactVars, indexVars, TypeOK
  <1>4. CASE Exit(h)
    BY <1>3, <1>4 DEF Exit, TypeOK
  <1>5. CASE Crash(h)
    BY <1>3, <1>5 DEF Crash, TypeOK
  <1> QED
    BY <1>1, <1>2, <1>4, <1>5

\* The other jobs on the database.
LEMMA JobTypes ==
  ASSUME TypeOK, NEW h \in Helpers, OtherJob(h)
  PROVE  TypeOK'
  <1> DEFINE Claims == {"none", "waiting", "consumed"} \cup Workers
  <1>1. UNCHANGED <<row, touched, task, published, bound, outbox, requirement, outline, recorded,
                    mode, queue, active, settling, worker, call, calls, crashes>>
    BY DEF OtherJob, RunKnowledgePublish, RunKnowledgeIndex, rowVars, materialVars, artifactVars,
           indexVars, poolVars
  <1>2. jobs' \in Nat
    BY DEF OtherJob, TypeOK
  <1>3. SUFFICES /\ replaced' \subseteq published /\ claim' \in [Runs -> Claims]
                 /\ lapsed' \subseteq Workers /\ snapshot' \in Nat
    BY <1>1, <1>2, <1>3 DEF TypeOK
  <1>4. CASE RunKnowledgePublish
    BY <1>4 DEF RunKnowledgePublish, artifactVars, indexVars, TypeOK
  <1>5. CASE RunKnowledgeIndex
    <2>1. PICK E \in SUBSET {s \in Runs : claim[s] \in Workers} : \E i \in Claimable(E) :
            /\ claim' = [s \in Runs |-> IF s = outbox[i] THEN "consumed"
                                        ELSE IF s \in E THEN "waiting" ELSE claim[s]]
            /\ lapsed' = lapsed \cup Holders(E)
      BY <1>5 DEF RunKnowledgeIndex
    <2>2. claim' \in [Runs -> Claims]
      BY <2>1 DEF TypeOK
    <2>3. lapsed' \subseteq Workers
      BY <2>1 DEF Holders, TypeOK
    <2>4. snapshot' \in Nat /\ replaced' = replaced
      BY <1>5, SealType DEF RunKnowledgeIndex, materialVars
    <2> QED
      BY <2>2, <2>3, <2>4 DEF TypeOK
  <1> QED
    BY <1>4, <1>5 DEF OtherJob

LEMMA StepTypes == TypeOK /\ [Next]_vars => TypeOK'
  <1> SUFFICES ASSUME TypeOK, [Next]_vars PROVE TypeOK'
    OBVIOUS
  <1>1. ASSUME NEW w \in Workers, WorkerStep(w) PROVE TypeOK'
    BY <1>1, HandlerTypes, CommitTypes, IndexTypes, CourseTypes, LoopTypes DEF WorkerStep, PhaseStep
  <1>2. ASSUME NEW c \in Callers, CallStep(c) \/ User(c) PROVE TypeOK'
    BY <1>2, CallTypes
  <1>3. ASSUME NEW h \in Helpers,
               Callback(h) \/ Boot(h) \/ Bind(h) \/ Close(h) \/ Exit(h) \/ Crash(h) \/ OtherJob(h)
        PROVE  TypeOK'
    BY <1>3, BootTypes, ProcessTypes, JobTypes
  <1>4. CASE UNCHANGED vars
    BY <1>4 DEF vars, TypeOK
  <1> QED
    BY <1>1, <1>2, <1>3, <1>4 DEF Next

\* The state of the engine always has its types: no handler, request, boot or
\* crash leaves a thread in a handler without a run, a row at a status that is
\* none, or a future of no run.
THEOREM TypeCorrect == Spec => []TypeOK
  BY InitType, StepTypes, PTL DEF Spec

-----------------------------------------------------------------------------
(* Reads under a current revision are current.                             *)

\* A run has revision 0 until it exists and never again: the reason why the
\* null read of a thread that has just taken a future is not a current one.
RevisionsCount == \A r \in Runs : row[r].status = "absent" <=> row[r].revision = 0

WorkerReadOK(w) ==
  worker[w].pc # "idle" =>
    /\ worker[w].revision <= row[RunOf(w)].revision
    /\ worker[w].revision = row[RunOf(w)].revision => worker[w].status = row[RunOf(w)].status

CallReadOK(c) ==
  call[c].pc \in {"recording", "resuming"} =>
    /\ call[c].revision <= row[call[c].run].revision
    /\ call[c].revision = row[call[c].run].revision =>
         /\ row[call[c].run].status = "needs_attention"
         /\ row[call[c].run].bundle = call[c].bundle

ReadsInductive ==
  /\ TypeOK
  /\ RevisionsCount
  /\ \A w \in Workers : WorkerReadOK(w)
  /\ \A c \in Callers : CallReadOK(c)

\* What a thread has read of its run.
SameRead(w) ==
  /\ worker[w].pc # "idle"
  /\ worker'[w].ticket = worker[w].ticket
  /\ worker'[w].revision = worker[w].revision
  /\ worker'[w].status = worker[w].status

\* A phase handler rereads nothing and writes no row.
LEMMA HandlerReads ==
  ASSUME TypeOK, NEW w \in Workers, PhaseStep(w)
  PROVE  /\ SameRead(w) /\ row' = row /\ call' = call
         /\ \A v \in Workers : v # w => worker'[v] = worker[v]
  <1>1. worker \in [Workers -> WorkerStates] /\ worker[w] \in WorkerStates
    BY DEF TypeOK
  <1>2. ASSUME NEW pc, Goto(w, pc), worker[w].pc # "idle"
        PROVE  SameRead(w) /\ \A v \in Workers : v # w => worker'[v] = worker[v]
    BY <1>1, <1>2 DEF Goto, SameRead, WorkerStates
  <1>3. ASSUME NEW outcome, Decide(w, outcome), worker[w].pc # "idle"
        PROVE  SameRead(w) /\ \A v \in Workers : v # w => worker'[v] = worker[v]
    BY <1>1, <1>3 DEF Decide, SameRead, WorkerStates
  <1>4. ASSUME Fail(w), worker[w].pc # "idle"
        PROVE  SameRead(w) /\ \A v \in Workers : v # w => worker'[v] = worker[v]
    BY <1>3, <1>4 DEF Fail
  <1>5. row' = row /\ call' = call
    BY DEF PhaseStep, StartPhase, ImportPhase, OrganizePhase, OrganizeCard, CloseSafeTask,
           PublishCard, OrganizeEnd, EnqueueIndex, AdoptClaim, ClaimIndex, CompleteIndex,
           IndexEnd, MeetReplaced, ComposePhase, OutlinePhase, AssignVisualsPhase, ValidatePhase,
           OnlyWorker, rowVars
  <1>6. CASE StartPhase(w) \/ ImportPhase(w)
    BY <1>3, <1>5, <1>6 DEF StartPhase, ImportPhase, InHandler
  <1>7. CASE OrganizePhase(w) \/ PublishCard(w)
    <2> DEFINE entered   == [worker[w] EXCEPT !.pc = "organizing", !.todo = CardsOf[RunOf(w)],
                                              !.asked = {}]
               passed == [worker[w] EXCEPT !.pc = "organizing", !.todo = Tail(worker[w].todo)]
    <2>1. /\ worker[w].pc # "idle"
          /\ \/ worker' = [worker EXCEPT ![w] = entered] \/ worker' = [worker EXCEPT ![w] = passed]
             \/ Fail(w)
      BY <1>7 DEF OrganizePhase, PublishCard, InHandler
    <2>2. /\ entered.ticket = worker[w].ticket /\ passed.ticket = worker[w].ticket
          /\ entered.revision = worker[w].revision /\ passed.revision = worker[w].revision
          /\ entered.status = worker[w].status /\ passed.status = worker[w].status
      BY <1>1 DEF WorkerStates
    <2> HIDE DEF entered, passed
    <2> QED
      BY <1>1, <1>4, <1>5, <2>1, <2>2 DEF SameRead
  <1>8. CASE OrganizeCard(w)
    <2>1. CASE worker' = [worker EXCEPT ![w] = [worker[w] EXCEPT !.todo = Tail(worker[w].todo),
                                         !.asked = worker[w].asked \cup {Head(worker[w].todo)}]]
      BY <1>1, <1>5, <1>8, <2>1 DEF OrganizeCard, SameRead, WorkerStates
    <2> QED
      BY <1>2, <1>5, <1>8, <2>1 DEF OrganizeCard
  <1>9. CASE CloseSafeTask(w) \/ AdoptClaim(w) \/ CompleteIndex(w) \/ MeetReplaced(w)
    BY <1>2, <1>4, <1>5, <1>9 DEF CloseSafeTask, AdoptClaim, CompleteIndex, MeetReplaced, InHandler
  <1>15. CASE EnqueueIndex(w)
    <2>1. CASE worker' = [worker EXCEPT ![w] = [worker[w] EXCEPT !.pc = "adopting", !.claims = 0]]
      BY <1>1, <1>5, <1>15, <2>1 DEF EnqueueIndex, SameRead, WorkerStates
    <2> QED
      BY <1>4, <1>5, <1>15, <2>1 DEF EnqueueIndex
  <1>10. CASE OrganizeEnd(w)
    BY <1>2, <1>3, <1>4, <1>5, <1>10 DEF OrganizeEnd
  <1>11. CASE ClaimIndex(w) \/ IndexEnd(w)
    <2>1. worker[w].pc # "idle"
      BY <1>11 DEF ClaimIndex, IndexEnd
    <2>2. CASE \E item : worker' = [worker EXCEPT ![w] =
                 [worker[w] EXCEPT !.pc = "indexing", !.item = item,
                                   !.claims = worker[w].claims + 1]]
      <3>1. PICK item, count : worker' = [worker EXCEPT ![w] =
                [worker[w] EXCEPT !.pc = "indexing", !.item = item, !.claims = count]]
        BY <2>2
      <3> QED
        BY <1>1, <1>5, <2>1, <3>1 DEF SameRead, WorkerStates
    <2>3. CASE Fail(w) \/ IndexEnd(w)
      BY <1>3, <1>4, <1>5, <2>1, <2>3 DEF IndexEnd
    <2> QED
      BY <1>11, <2>2, <2>3 DEF ClaimIndex
  <1>12. CASE ComposePhase(w)
    <2>1. CASE worker' = [worker EXCEPT ![w] = [worker[w] EXCEPT !.pc = "outlining",
                                                                !.over = snapshot]]
      BY <1>1, <1>5, <1>12, <2>1 DEF ComposePhase, InHandler, SameRead, WorkerStates
    <2> QED
      BY <1>4, <1>5, <1>12, <2>1 DEF ComposePhase, InHandler
  <1>13. CASE OutlinePhase(w)
    BY <1>3, <1>4, <1>5, <1>13 DEF OutlinePhase
  <1>14. CASE AssignVisualsPhase(w) \/ ValidatePhase(w)
    BY <1>3, <1>4, <1>5, <1>14 DEF AssignVisualsPhase, ValidatePhase, InHandler
  <1> QED
    BY <1>6, <1>7, <1>8, <1>9, <1>10, <1>11, <1>12, <1>13, <1>14, <1>15 DEF PhaseStep

\* A row changes only by a revision of its own.
RowsGrow ==
  \A r \in Runs : \/ row'[r] = row[r]
                  \/ row'[r].revision = row[r].revision + 1 /\ row'[r].status # "absent"

SameCallRead(c) ==
  /\ call[c].pc \in {"recording", "resuming"}
  /\ call'[c].run = call[c].run /\ call'[c].revision = call[c].revision
  /\ call'[c].bundle = call[c].bundle

LEMMA RevisionsKept ==
  ASSUME TypeOK, RevisionsCount, RowsGrow PROVE RevisionsCount'
  <1>1. \A r \in Runs : row[r].revision \in Nat
    BY DEF TypeOK, Row
  <1> QED
    BY <1>1 DEF RevisionsCount, RowsGrow

LEMMA WorkerReadKept ==
  ASSUME TypeOK, RowsGrow, NEW w \in Workers, WorkerReadOK(w),
         worker'[w].pc = "idle" \/ SameRead(w)
  PROVE  WorkerReadOK(w)'
  <1>1. CASE worker'[w].pc = "idle"
    BY <1>1 DEF WorkerReadOK
  <1>2. CASE SameRead(w)
    <2>1. /\ RunOf(w) \in Runs /\ worker[w].revision \in Nat /\ row[RunOf(w)].revision \in Nat
          /\ RunOf(w)' = RunOf(w)
      BY <1>2 DEF TypeOK, WorkerStates, Row, Ticket, RunOf, SameRead
    <2> QED
      BY <1>2, <2>1 DEF WorkerReadOK, SameRead, RowsGrow
  <1> QED
    BY <1>1, <1>2

LEMMA CallReadKept ==
  ASSUME TypeOK, RowsGrow, NEW c \in Callers, CallReadOK(c),
         call'[c].pc \notin {"recording", "resuming"} \/ SameCallRead(c)
  PROVE  CallReadOK(c)'
  <1>1. CASE call'[c].pc \notin {"recording", "resuming"}
    BY <1>1 DEF CallReadOK
  <1>2. CASE SameCallRead(c)
    <2>1. /\ call[c].run \in Runs /\ call[c].revision \in Nat
          /\ row[call[c].run].revision \in Nat
      BY <1>2 DEF TypeOK, CallStates, Row, SameCallRead
    <2> QED
      BY <1>2, <2>1 DEF CallReadOK, SameCallRead, RowsGrow
  <1> QED
    BY <1>1, <1>2

\* The threads: a handler keeps what was read, the loop reads again, and a
\* written row is a row just read.
LEMMA WorkerReads ==
  ASSUME ReadsInductive, NEW w \in Workers, WorkerStep(w), TypeOK'
  PROVE  ReadsInductive'
  <1> DEFINE r == RunOf(w)
  <1>1. TypeOK /\ worker \in [Workers -> WorkerStates] /\ worker[w] \in WorkerStates
    BY DEF ReadsInductive, TypeOK
  <1>2. SUFFICES /\ RowsGrow /\ WorkerReadOK(w)' /\ call' = call
                 /\ \A v \in Workers \ {w} : worker'[v] = worker[v]
    <2>1. ASSUME NEW v \in Workers, v # w PROVE WorkerReadOK(v)'
      BY <1>1, <1>2, <2>1, WorkerReadKept DEF ReadsInductive, SameRead
    <2>2. ASSUME NEW c \in Callers PROVE CallReadOK(c)'
      BY <1>1, <1>2, <2>2, CallReadKept DEF ReadsInductive, SameCallRead
    <2> QED
      BY <1>1, <1>2, <2>1, <2>2, RevisionsKept DEF ReadsInductive
  <1>3. CASE PhaseStep(w)
    <2>1. SameRead(w) /\ RowsGrow
      BY <1>1, <1>3, HandlerReads DEF RowsGrow
    <2> QED
      BY <1>1, <1>3, <2>1, HandlerReads, WorkerReadKept DEF ReadsInductive
  <1>4. CASE TakeTicket(w)
    <2>1. /\ worker'[w].revision = 0 /\ worker'[w].status = "absent"
          /\ \A v \in Workers \ {w} : worker'[v] = worker[v]
      BY <1>1, <1>4 DEF TakeTicket, IdleWorker
    <2>2. worker'[w].ticket.run \in Runs
      BY <1>1, <1>4 DEF TypeOK, WorkerStates, TakeTicket, IdleWorker, Ticket
    <2>3. row' = row /\ call' = call /\ row[worker'[w].ticket.run].revision \in Nat
      BY <1>1, <1>4, <2>2 DEF TakeTicket, rowVars, TypeOK, Row
    <2> QED
      BY <2>1, <2>2, <2>3 DEF RowsGrow, WorkerReadOK, RunOf, ReadsInductive, RevisionsCount
  <1>5. CASE ReadRun(w)
    <2>1. row' = row /\ call' = call /\ \A v \in Workers \ {w} : worker'[v] = worker[v]
      BY <1>1, <1>5 DEF ReadRun, rowVars, Goto
    <2>2. CASE Goto(w, "returning")
      <3>1. SameRead(w)
        BY <1>1, <1>5, <2>2 DEF ReadRun, Goto, SameRead, WorkerStates
      <3> QED
        BY <1>1, <2>1, <3>1, WorkerReadKept DEF RowsGrow, ReadsInductive
    <2>3. CASE ~ Goto(w, "returning")
      <3>1. /\ worker'[w].revision = row[r].revision /\ worker'[w].status = row[r].status
            /\ worker'[w].ticket = worker[w].ticket
        <4> DEFINE new == [worker[w] EXCEPT
                             !.pc = IF row[r].status \in Settled THEN "returning" ELSE "handling",
                             !.laps = worker[w].laps + 1,
                             !.status = row[r].status, !.revision = row[r].revision]
        <4>1. worker' = [worker EXCEPT ![w] = new]
          BY <1>5, <2>3 DEF ReadRun
        <4>2. /\ new.revision = row[r].revision /\ new.status = row[r].status
              /\ new.ticket = worker[w].ticket
          BY <1>1 DEF WorkerStates
        <4> HIDE DEF new
        <4> QED
          BY <1>1, <4>1, <4>2
      <3>2. r \in Runs /\ row[r].revision \in Nat
        BY <1>1, <1>5 DEF ReadRun, TypeOK, WorkerStates, RunOf, Ticket, Row
      <3> QED
        BY <2>1, <3>1, <3>2 DEF RowsGrow, WorkerReadOK, RunOf
    <2> QED
      BY <2>2, <2>3
  <1>6. CASE AdvanceRun(w)
    <2> DEFINE done == worker[w].outcome
    <2>1. call' = call /\ worker[w].pc = "advancing"
      BY <1>6 DEF AdvanceRun
    <2>2. r \in Runs /\ row[r].revision \in Nat /\ worker[w].revision \in Nat
      BY <1>1, <2>1 DEF TypeOK, WorkerStates, RunOf, Ticket, Row
    <2>3. ASSUME NEW pc, Goto(w, pc), UNCHANGED rowVars
          PROVE  SameRead(w) /\ RowsGrow /\ \A v \in Workers \ {w} : worker'[v] = worker[v]
      BY <1>1, <2>1, <2>3 DEF Goto, SameRead, WorkerStates, RowsGrow, rowVars
    <2>4. CASE row[r].revision # worker[w].revision
      BY <1>1, <1>6, <2>1, <2>3, <2>4, WorkerReadKept
         DEF AdvanceRun, AfterConflict, Current, ReadsInductive
    <2>5. CASE row[r].revision = worker[w].revision /\ ~ MayAdvance(row[r], done.next, done.evidence)
      BY <1>1, <1>6, <2>1, <2>3, <2>5, WorkerReadKept
         DEF AdvanceRun, Current, ReadsInductive
    <2>6. CASE row[r].revision = worker[w].revision /\ MayAdvance(row[r], done.next, done.evidence)
      <3> DEFINE bundle == [phase |-> worker[w].status, cards |-> done.cards]
                 next == Advanced(row[r], done.next, done.evidence, bundle)
      <3>1. /\ row' = [row EXCEPT ![r] = next]
            /\ worker'[w].status = done.next /\ worker'[w].revision = row[r].revision + 1
            /\ worker'[w].ticket = worker[w].ticket
            /\ \A v \in Workers \ {w} : worker'[v] = worker[v]
        <4> DEFINE pc == IF done.next \in Settled THEN "returning" ELSE "reading"
                   new == [worker[w] EXCEPT !.pc = pc, !.status = done.next,
                                            !.revision = row[r].revision + 1]
        <4>1. row' = [row EXCEPT ![r] = next] /\ worker' = [worker EXCEPT ![w] = new]
          BY <1>6, <2>6 DEF AdvanceRun, Current
        <4>2. /\ new.status = done.next /\ new.revision = row[r].revision + 1
              /\ new.ticket = worker[w].ticket
          BY <1>1 DEF WorkerStates
        <4>3. worker'[w] = new /\ \A v \in Workers \ {w} : worker'[v] = worker[v]
          <5> HIDE DEF new
          <5> QED
            BY <1>1, <4>1
        <4> QED
          BY <4>1, <4>2, <4>3
      <3>2. /\ next.status = done.next /\ next.revision = row[r].revision + 1
            /\ done.next # "absent"
        BY <2>6, TransitionTypes DEF Advanced, Phases, Settled
      <3>3. row'[r] = next /\ \A q \in Runs \ {r} : row'[q] = row[q]
        BY <1>1, <2>2, <3>1 DEF TypeOK
      <3> HIDE DEF next
      <3>4. RowsGrow
        BY <3>2, <3>3 DEF RowsGrow
      <3>5. WorkerReadOK(w)'
        BY <2>2, <3>1, <3>2, <3>3 DEF WorkerReadOK, RunOf
      <3> QED
        BY <2>1, <3>1, <3>4, <3>5
    <2> QED
      BY <2>4, <2>5, <2>6
  <1>7. CASE Finish(w)
    <2>1. /\ row' = row /\ call' = call /\ worker'[w].pc = "idle"
          /\ \A v \in Workers \ {w} : worker'[v] = worker[v]
      BY <1>1, <1>7 DEF Finish, rowVars, IdleWorker
    <2> QED
      BY <2>1 DEF RowsGrow, WorkerReadOK
  <1> QED
    BY <1>3, <1>4, <1>5, <1>6, <1>7 DEF WorkerStep

\* The requests.
LEMMA CallReads ==
  ASSUME ReadsInductive, NEW c \in Callers, CallStep(c) \/ User(c), TypeOK'
  PROVE  ReadsInductive'
  <1> DEFINE r == call[c].run
  <1>1. TypeOK /\ call \in [Callers -> CallStates] /\ call[c] \in CallStates
    BY DEF ReadsInductive, TypeOK
  <1>2. call[c].pc # "idle" => r \in Runs /\ row[r] \in Row
    BY <1>1 DEF CallStates, TypeOK
  <1>3. SUFFICES RowsGrow /\ CallReadOK(c)' /\ worker' = worker
                 /\ \A d \in Callers \ {c} : call'[d] = call[d]
    <2>1. ASSUME NEW v \in Workers PROVE WorkerReadOK(v)'
      BY <1>1, <1>3, <2>1, WorkerReadKept DEF ReadsInductive, SameRead
    <2>2. ASSUME NEW d \in Callers, d # c PROVE CallReadOK(d)'
      BY <1>1, <1>3, <2>2, CallReadKept DEF ReadsInductive, SameCallRead
    <2> QED
      BY <1>1, <1>3, <2>1, <2>2, RevisionsKept DEF ReadsInductive
  <1>4. worker' = worker
    BY DEF CallStep, User, SubmitCreate, SubmitResolve, CreateRun, ReadAttention, AnswerTask,
           RecordResolution, ResumeRun, StartRun, OnlyCall
  <1>5. ASSUME EndCall(c)
        PROVE  CallReadOK(c)' /\ \A d \in Callers \ {c} : call'[d] = call[d]
    BY <1>1, <1>5 DEF EndCall, IdleCall, CallReadOK
  <1>6. CASE User(c)
    <2>1. /\ row' = row /\ call'[c].pc \in {"creating", "resolving"}
          /\ \A d \in Callers \ {c} : call'[d] = call[d]
      BY <1>1, <1>6 DEF User, SubmitCreate, SubmitResolve, IdleCall, rowVars
    <2> QED
      BY <1>4, <2>1 DEF RowsGrow, CallReadOK
  <1>7. CASE CreateRun(c)
    <2>1. r \in Runs /\ row[r] \in Row
      BY <1>2, <1>7 DEF CreateRun
    <2>2. call'[c].pc = "starting" /\ \A d \in Callers \ {c} : call'[d] = call[d]
      BY <1>1, <1>7 DEF CreateRun, CallStates
    <2>3. RowsGrow
      <3>1. CASE UNCHANGED rowVars
        BY <3>1 DEF rowVars, RowsGrow
      <3>2. CASE row[r].status = "absent" /\ row' = [row EXCEPT ![r] = NewRow]
        <4>1. row[r].revision = 0 /\ NewRow.revision = 1 /\ NewRow.status = "queued"
          BY <2>1, <3>2 DEF ReadsInductive, RevisionsCount, NewRow, AbsentRow
        <4>2. \A q \in Runs : row'[q] = IF q = r THEN NewRow ELSE row[q]
          BY <1>1, <3>2 DEF TypeOK
        <4> QED
          BY <4>1, <4>2 DEF RowsGrow
      <3> QED
        BY <1>7, <3>1, <3>2 DEF CreateRun
    <2> QED
      BY <1>4, <2>2, <2>3 DEF CallReadOK
  <1>8. CASE ReadAttention(c)
    <2> DEFINE resume == ResumeStatus(AttentionPhase(row[r]), call[c].action)
               todo == Answered(row[r].bundle, call[c].action)
               new == [call[c] EXCEPT !.pc = "recording", !.revision = row[r].revision,
                                      !.resume = resume, !.todo = todo]
    <2>1. row' = row
      BY <1>8 DEF ReadAttention, rowVars
    <2>2. CASE EndCall(c)
      BY <1>4, <1>5, <2>1, <2>2 DEF RowsGrow
    <2>3. CASE /\ row[r].status = "needs_attention" /\ row[r].bundle = call[c].bundle
               /\ call' = [call EXCEPT ![c] = new]
      <3>1. new.run = r /\ new.revision = row[r].revision /\ new.bundle = call[c].bundle
        BY <1>1 DEF CallStates
      <3>2. call'[c] = new /\ \A d \in Callers \ {c} : call'[d] = call[d]
        <4> HIDE DEF new
        <4> QED
          BY <1>1, <2>3
      <3>3. row[r].revision \in Nat
        BY <1>2, <1>8 DEF ReadAttention, Row
      <3> HIDE DEF new
      <3>4. CallReadOK(c)'
        BY <2>1, <2>3, <3>1, <3>2, <3>3 DEF CallReadOK
      <3> QED
        BY <1>4, <2>1, <3>2, <3>4 DEF RowsGrow
    <2> QED
      BY <1>8, <2>2, <2>3 DEF ReadAttention
  <1>9. CASE (\E k \in Cards : AnswerTask(c, k)) \/ RecordResolution(c)
    <2>1. row' = row /\ call[c].pc = "recording"
      BY <1>9 DEF AnswerTask, RecordResolution, rowVars
    <2>2. CASE EndCall(c)
      BY <1>4, <1>5, <2>1, <2>2 DEF RowsGrow
    <2>3. CASE ~ EndCall(c)
      <3>1. SameCallRead(c) /\ \A d \in Callers \ {c} : call'[d] = call[d]
        <4>1. CASE RecordResolution(c)
          BY <1>1, <2>1, <2>3, <4>1 DEF RecordResolution, SameCallRead, CallStates
        <4>2. CASE \E k \in Cards : AnswerTask(c, k)
          <5>1. PICK k \in Cards : AnswerTask(c, k)
            BY <4>2
          <5>2. call' = [call EXCEPT ![c] = [call[c] EXCEPT !.todo = call[c].todo \ {k}]]
            BY <2>3, <5>1 DEF AnswerTask
          <5> QED
            BY <1>1, <2>1, <5>2 DEF SameCallRead, CallStates
        <4> QED
          BY <1>9, <4>1, <4>2
      <3>2. RowsGrow
        BY <2>1 DEF RowsGrow
      <3> QED
        BY <1>1, <1>4, <3>1, <3>2, CallReadKept DEF ReadsInductive
    <2> QED
      BY <2>2, <2>3
  <1>10. CASE ResumeRun(c)
    <2> DEFINE resume == call[c].resume
               evidence == Resolution(call[c].bundle, call[c].action)
               next == Advanced(row[r], resume, evidence, NoBundle)
    <2>1. r \in Runs /\ row[r].revision \in Nat
      BY <1>2, <1>10 DEF ResumeRun, Row
    <2>2. CASE EndCall(c) /\ UNCHANGED rowVars
      BY <1>4, <1>5, <2>2 DEF RowsGrow, rowVars
    <2>3. CASE /\ MayAdvance(row[r], resume, evidence)
               /\ row' = [row EXCEPT ![r] = next]
               /\ call' = [call EXCEPT ![c] = [call[c] EXCEPT !.pc = "starting"]]
      <3>1. next.revision = row[r].revision + 1 /\ next.status = resume /\ resume # "absent"
        BY <2>3, TransitionTypes DEF Advanced, Phases, Settled
      <3>2. RowsGrow
        <4> HIDE DEF next
        <4> QED
          BY <1>1, <2>1, <2>3, <3>1 DEF RowsGrow, TypeOK
      <3>3. call'[c].pc = "starting" /\ \A d \in Callers \ {c} : call'[d] = call[d]
        BY <1>1, <2>3 DEF CallStates
      <3> QED
        BY <1>4, <3>2, <3>3 DEF CallReadOK
    <2> QED
      BY <1>10, <2>2, <2>3 DEF ResumeRun
  <1>11. CASE StartRun(c)
    BY <1>4, <1>5, <1>11 DEF StartRun, RowsGrow, rowVars
  <1> QED
    BY <1>6, <1>7, <1>8, <1>9, <1>10, <1>11 DEF CallStep

\* The processes: a crash forgets what was read.
LEMMA ProcessReads ==
  ASSUME ReadsInductive, NEW h \in Helpers, TypeOK',
         Callback(h) \/ Boot(h) \/ Bind(h) \/ Close(h) \/ Exit(h) \/ Crash(h) \/ OtherJob(h)
  PROVE  ReadsInductive'
  <1>1. RowsGrow
    BY DEF Callback, Forget, Boot, Bind, Close, Exit, Crash, OtherJob, Vanish, rowVars, RowsGrow
  <1>2. ASSUME NEW w \in Workers PROVE worker'[w] = worker[w] \/ worker'[w].pc = "idle"
    BY DEF Callback, Forget, Boot, Bind, Close, Exit, Crash, OtherJob, Vanish, IdleWorker
  <1>3. ASSUME NEW c \in Callers PROVE call'[c] = call[c] \/ call'[c].pc = "idle"
    BY DEF Callback, Forget, Boot, Bind, Close, Exit, Crash, OtherJob, Vanish, IdleCall
  <1>4. ASSUME NEW w \in Workers PROVE WorkerReadOK(w)'
    BY <1>1, <1>2, WorkerReadKept DEF ReadsInductive, SameRead
  <1>5. ASSUME NEW c \in Callers PROVE CallReadOK(c)'
    BY <1>1, <1>3, CallReadKept DEF ReadsInductive, SameCallRead
  <1> QED
    BY <1>1, <1>4, <1>5, RevisionsKept DEF ReadsInductive

LEMMA ReadsStep == ReadsInductive /\ [Next]_vars => ReadsInductive'
  <1> SUFFICES ASSUME ReadsInductive, [Next]_vars PROVE ReadsInductive'
    OBVIOUS
  <1>1. TypeOK'
    BY StepTypes DEF ReadsInductive
  <1>2. CASE UNCHANGED vars
    BY <1>1, <1>2 DEF vars, ReadsInductive, RevisionsCount, WorkerReadOK, CallReadOK, RunOf
  <1> QED
    BY <1>1, <1>2, WorkerReads, CallReads, ProcessReads DEF Next

LEMMA ReadsInit == Init => ReadsInductive
  BY InitType DEF Init, ReadsInductive, RevisionsCount, WorkerReadOK, CallReadOK,
                  AbsentRow, IdleWorker, IdleCall

\* Optimistic concurrency is sound for any number of processes, threads and
\* requests: a thread that writes under a revision it has read, or a request
\* that resumes under one, has seen the row it replaces, whoever wrote in
\* between and whatever crashed.
THEOREM ReadsAreSound == Spec => []ReadsAreCurrentOrStale
  <1>1. ReadsInductive => ReadsAreCurrentOrStale
    BY DEF ReadsInductive, WorkerReadOK, CallReadOK, ReadsAreCurrentOrStale
  <1> QED
    BY <1>1, ReadsInit, ReadsStep, PTL DEF Spec
=============================================================================
