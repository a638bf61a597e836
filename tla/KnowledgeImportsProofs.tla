------------------------ MODULE KnowledgeImportsProofs ------------------------
(***************************************************************************)
(* The safety of governed imports, for any uploads, jobs, requests and     *)
(* crashes: the inductive invariant is stated first, then every step of a  *)
(* child and of the runner is shown to keep it.                            *)
(***************************************************************************)
EXTENDS KnowledgeImports, TLAPS

-----------------------------------------------------------------------------
(* The inductive invariant. *)

PromotingPcs == {"promoting", "copying", "linking", "unlinking", "verifying", "committing"}

\* What a child knows where it is: of the lease it works on, of the file it has
\* installed or verified, and of the job whose success it reports.
ChildKnows(s) ==
  LET j == child[s].job IN
  /\ child[s].pc \in PromotingPcs => lease[j] # "none"
  /\ child[s].pc = "committing" => blob[Content(j)] = "stored"
  /\ child[s].pc \in {"cleaning", "inspecting", "persisting"} => lease[j] = "promoted"
  /\ child[s].pc \in {"inspecting", "persisting"} => Input(j) \notin inputs
  /\ child[s].pc = "discarding" => j \in committed
  /\ child[s].verdict = "ok" => j \in committed /\ Input(j) \notin inputs

\* The input of an import that has an outcome is gone: success can be told of it
\* at any time later.
ImportsAreClean == \A j \in committed \cap StartJobs : Input(j) \notin inputs

IInv ==
  /\ TypeOK
  /\ InputsAreKept
  /\ OneFate
  /\ SourcesAreStored
  /\ SuccessIsComplete
  /\ ImportsAreClean
  /\ \A s \in Slots : ChildKnows(s)

-----------------------------------------------------------------------------
(* Types. *)

LEMMA InitIsTyped == ASSUME Init PROVE TypeOK
BY JobsAssumption DEF Init, TypeOK, NoChild, Verdicts, ChildPcs, UploadStates, LeaseStates, EvidenceKinds, Jobs

\* The types of what is stored and of what a child keeps, and what a child at a
\* place works on.
StoreTyped ==
  /\ upload \in [Uploads -> UploadStates]
  /\ owner \in [Uploads -> Nat]
  /\ overdue \subseteq Uploads
  /\ inputs \subseteq Uploads
  /\ lease \in [StartJobs -> LeaseStates]
  /\ blob \in [Contents -> {"absent", "linked", "stored"}]
  /\ sources \subseteq Contents
  /\ committed \subseteq Jobs
  /\ evidence \subseteq [job: Jobs, says: EvidenceKinds]
  /\ session \in Nat
  /\ runner \in [Slots -> {"idle", "watching", "failed"}]
  /\ requests \in Nat /\ crashes \in Nat

ChildStates == [pc: ChildPcs, job: Jobs \cup {"none"}, session: Nat, verdict: Verdicts]

ChildFits(s) ==
  /\ child[s].pc = "idle" <=> child[s].job = "none"
  /\ child[s].pc \in {"cancelling", "discarding"} => child[s].job \in CancelJobs
  /\ child[s].pc \notin {"idle", "cancelling", "discarding", "reporting", "over"}
       => child[s].job \in StartJobs
  /\ runner[s] = "watching" => child[s].pc # "idle"

LEMMA TypeParts ==
  TypeOK <=> StoreTyped /\ child \in [Slots -> ChildStates] /\ \A s \in Slots : ChildFits(s)
  BY DEF TypeOK, StoreTyped, ChildStates, ChildFits

\* Going on and reporting change the place and the verdict of one child.
Moved(s, pc, verdict) ==
  /\ child' \in [Slots -> ChildStates]
  /\ child'[s].pc = pc /\ child'[s].verdict = verdict
  /\ child'[s].job = child[s].job /\ child'[s].session = child[s].session
  /\ \A t \in Slots \ {s} : child'[t] = child[t]

LEMMA GotoMoves ==
  ASSUME child \in [Slots -> ChildStates], NEW s \in Slots, NEW pc \in ChildPcs, Goto(s, pc)
  PROVE  Moved(s, pc, child[s].verdict)
  BY DEF Goto, ChildStates, Moved

LEMMA ReportMoves ==
  ASSUME child \in [Slots -> ChildStates], NEW s \in Slots, NEW verdict \in Verdicts,
         Report(s, verdict)
  PROVE  Moved(s, "reporting", verdict)
  BY DEF Report, ChildStates, Moved, ChildPcs

\* A child that goes on where its job belongs still fits.
LEMMA MovedFits ==
  ASSUME TypeOK, NEW s \in Slots, NEW pc, NEW verdict, Moved(s, pc, verdict),
         runner' = runner, pc # "idle", child[s].pc # "idle",
         pc \in {"cancelling", "discarding"} => child[s].job \in CancelJobs,
         pc \notin {"cancelling", "discarding", "reporting", "over"} => child[s].job \in StartJobs
  PROVE  child' \in [Slots -> ChildStates] /\ \A t \in Slots : ChildFits(t)'
  <1>1. child' \in [Slots -> ChildStates] /\ \A t \in Slots : ChildFits(t)
    BY TypeParts DEF Moved
  <1>2. ASSUME NEW t \in Slots PROVE ChildFits(t)'
    <2>1. CASE t = s
      BY <2>1, <1>1 DEF Moved, ChildFits
    <2>2. CASE t # s
      BY <2>2, <1>1 DEF Moved, ChildFits
    <2> QED
      BY <2>1, <2>2
  <1> QED
    BY <1>1, <1>2

-----------------------------------------------------------------------------
(* What is known of a job stays known. *)

LEMMA JobData ==
  /\ \A j \in Jobs : Input(j) \in Uploads /\ Content(j) \in Contents
  /\ \A j \in StartJobs : Input(j) = UploadOf[j] /\ j \notin CancelJobs
  /\ \A k \in CancelJobs : Input(k) = Input(ImportOf[k]) /\ ImportOf[k] \in StartJobs /\ k \notin StartJobs
  /\ "none" \notin Jobs
  BY JobsAssumption DEF Jobs, Input, Content

\* A lease tells what has become of its upload, and so does a committed job.
LEMMA Fates ==
  ASSUME IInv
  PROVE  /\ \A j \in StartJobs : lease[j] # "none" =>
              upload[Input(j)] \in {"leased", "promoted", "cancelled"}
         /\ \A j \in StartJobs : lease[j] = "promoted" => upload[Input(j)] = "promoted"
         /\ \A j \in committed : upload[Input(j)] \in {"promoted", "cancelled"}
  <1>1. \A j \in StartJobs : lease[j] # "none" => upload[Input(j)] = LeaseFate[lease[j]]
    BY JobData DEF IInv, OneFate
  <1>2. \A j \in StartJobs : lease[j] \in {"none", "active", "promoted", "cancelled"}
    BY TypeParts DEF IInv, StoreTyped, LeaseStates
  <1>3. \A j \in StartJobs : lease[j] = "promoted" => upload[Input(j)] = "promoted"
    BY <1>1 DEF LeaseFate
  <1>4. \A j \in StartJobs : lease[j] = "cancelled" => upload[Input(j)] = "cancelled"
    BY <1>1 DEF LeaseFate
  <1>5. \A j \in StartJobs : lease[j] = "active" => upload[Input(j)] = "leased"
    BY <1>1 DEF LeaseFate
  <1>6. ASSUME NEW j \in committed PROVE upload[Input(j)] \in {"promoted", "cancelled"}
    <2>1. j \in StartJobs \/ j \in CancelJobs
      BY TypeParts DEF IInv, StoreTyped, Jobs
    <2>2. CASE j \in StartJobs
      BY <2>2, <1>3 DEF IInv, OneFate
    <2>3. CASE j \in CancelJobs
      <3>1. lease[ImportOf[j]] = "cancelled"
        BY <2>3 DEF IInv, OneFate
      <3> QED
        BY <2>3, <3>1, <1>4, JobData
    <2> QED
      BY <2>1, <2>2, <2>3
  <1> QED
    BY <1>2, <1>3, <1>4, <1>5, <1>6

\* What no step undoes: leases, promotions, stored files, outcomes, and the
\* deletion of an input.
Grows ==
  /\ \A j \in StartJobs : lease[j] # "none" => lease'[j] # "none"
  /\ \A j \in StartJobs : lease[j] = "promoted" => lease'[j] = "promoted"
  /\ \A c \in Contents : blob[c] = "stored" => blob'[c] = "stored"
  /\ \A u \in Uploads \ inputs : upload[u] # "none" => u \notin inputs'
  /\ committed \subseteq committed'

LEMMA OthersKnow ==
  ASSUME IInv, Grows, NEW s \in Slots, child'[s] = child[s]
  PROVE  ChildKnows(s)'
  <1> DEFINE j == child[s].job
  <1>1. ChildKnows(s) /\ ChildFits(s)
    BY TypeParts DEF IInv
  <1>2. child[s].pc \in PromotingPcs => j \in StartJobs /\ lease'[j] # "none"
    BY <1>1 DEF ChildKnows, ChildFits, PromotingPcs, Grows
  <1>3. child[s].pc = "committing" => blob'[Content(j)] = "stored"
    BY <1>1, JobData DEF ChildKnows, ChildFits, Grows, Jobs
  <1>4. child[s].pc \in {"cleaning", "inspecting", "persisting"} =>
          j \in StartJobs /\ lease[j] = "promoted" /\ lease'[j] = "promoted"
    BY <1>1 DEF ChildKnows, ChildFits, Grows
  <1>5. child[s].pc \in {"inspecting", "persisting"} => Input(j) \notin inputs'
    BY <1>1, <1>4, JobData, Fates DEF ChildKnows, Grows, Jobs
  <1>6. child[s].pc = "discarding" => j \in committed'
    BY <1>1 DEF ChildKnows, Grows
  <1>7. child[s].verdict = "ok" => j \in committed' /\ Input(j) \notin inputs'
    <2>1. committed \subseteq Jobs
      BY TypeParts DEF IInv, StoreTyped
    <2> QED
      BY <1>1, <2>1, JobData, Fates DEF ChildKnows, Grows
  <1> QED
    BY <1>2, <1>3, <1>4, <1>5, <1>6, <1>7 DEF ChildKnows, Input, Content

\* What was told as a success remains true, and the imports that were committed
\* remain clean.
LEMMA OutcomesStay ==
  ASSUME IInv, Grows
  PROVE  /\ \A j \in committed : Input(j) \notin inputs => Input(j) \notin inputs'
         /\ \A e \in evidence : e.says = "verified" => e.job \in committed' /\ Input(e.job) \notin inputs'
         /\ \A j \in committed \cap StartJobs : Input(j) \notin inputs'
  <1>1. committed \subseteq Jobs
    BY TypeParts DEF IInv, StoreTyped
  <1>2. \A j \in committed : Input(j) \notin inputs => Input(j) \notin inputs'
    BY <1>1, JobData, Fates DEF Grows
  <1>3. \A e \in evidence : e.says = "verified" => e.job \in committed /\ Input(e.job) \notin inputs
    BY DEF IInv, SuccessIsComplete
  <1>4. \A j \in committed \cap StartJobs : Input(j) \notin inputs
    BY DEF IInv, ImportsAreClean
  <1> QED
    BY <1>2, <1>3, <1>4 DEF Grows

-----------------------------------------------------------------------------
(* Steps of a child. *)

\* Where a child may go on, with the job it has.
Fitting(s, pc) ==
  /\ child[s].pc # "idle" /\ pc \in ChildPcs \ {"idle"}
  /\ pc \in {"cancelling", "discarding"} => child[s].job \in CancelJobs
  /\ pc \notin {"cancelling", "discarding", "reporting", "over"} => child[s].job \in StartJobs

LEMMA ChildStepKeeps ==
  ASSUME IInv, NEW s \in Slots, NEW pc, NEW verdict, Moved(s, pc, verdict), Fitting(s, pc),
         OnlyChild, StoreTyped', Grows, InputsAreKept', OneFate', SourcesAreStored',
         \A j \in (committed' \ committed) \cap StartJobs : Input(j) \notin inputs',
         ChildKnows(s)'
  PROVE  IInv'
  <1>1. TypeOK'
    <2>1. child' \in [Slots -> ChildStates] /\ \A t \in Slots : ChildFits(t)'
      BY MovedFits DEF IInv, Fitting, OnlyChild
    <2> QED
      BY <2>1 DEF TypeOK, StoreTyped, ChildStates, ChildFits
  <1>2. SuccessIsComplete'
    <2>1. evidence' = evidence
      BY DEF OnlyChild
    <2> QED
      BY <2>1, OutcomesStay DEF SuccessIsComplete, Input
  <1>3. ImportsAreClean'
    BY OutcomesStay DEF ImportsAreClean, Input
  <1>4. ASSUME NEW t \in Slots PROVE ChildKnows(t)'
    <2>1. CASE t = s
      BY <2>1
    <2>2. CASE t # s
      <3>1. child'[t] = child[t]
        BY <2>2 DEF Moved
      <3> QED
        BY <3>1, OthersKnow
    <2> QED
      BY <2>1, <2>2
  <1> QED
    BY <1>1, <1>2, <1>3, <1>4 DEF IInv

\* A child that only reads.
LEMMA ReadingKeeps ==
  ASSUME IInv, NEW s \in Slots, NEW pc, NEW verdict, Moved(s, pc, verdict), Fitting(s, pc),
         OnlyChild, UNCHANGED <<upload, inputs, lease, blob, sources, committed>>, ChildKnows(s)'
  PROVE  IInv'
  <1>1. StoreTyped'
    BY TypeParts DEF IInv, StoreTyped, OnlyChild
  <1>2. Grows
    BY DEF Grows
  <1>3. InputsAreKept' /\ OneFate' /\ SourcesAreStored'
    BY DEF IInv, InputsAreKept, OneFate, SourcesAreStored, Content, Input
  <1> QED
    BY <1>1, <1>2, <1>3, ChildStepKeeps

\* What a child knows of its own success when it goes on, and when it reports an
\* error.
LEMMA VerdictKnows ==
  ASSUME IInv, NEW s \in Slots, NEW pc, NEW verdict, Moved(s, pc, verdict), Grows,
         verdict = child[s].verdict \/ verdict # "ok"
  PROVE  child'[s].verdict = "ok" =>
           child'[s].job \in committed' /\ Input(child'[s].job) \notin inputs'
  <1>1. ChildKnows(s) /\ committed \subseteq Jobs
    BY TypeParts DEF IInv, StoreTyped
  <1> QED
    BY <1>1, JobData, Fates DEF ChildKnows, Grows, Moved

\* An error is reported: nothing has to be known.
LEMMA ErrorKeeps ==
  ASSUME IInv, NEW s \in Slots, NEW verdict \in Verdicts \ {"ok"}, Report(s, verdict),
         child[s].pc # "idle",
         OnlyChild, UNCHANGED <<upload, inputs, lease, blob, sources, committed>>
  PROVE  IInv'
  <1>1. Moved(s, "reporting", verdict)
    BY ReportMoves, TypeParts DEF IInv
  <1>2. Grows /\ Fitting(s, "reporting")
    BY DEF Grows, Fitting, ChildPcs
  <1>3. ChildKnows(s)'
    BY <1>1, <1>2, VerdictKnows DEF ChildKnows, Moved, Input, PromotingPcs
  <1> QED
    BY <1>1, <1>2, <1>3, ReadingKeeps

LEMMA LeaseUploadKeeps ==
  ASSUME IInv, NEW s \in Slots, LeaseUpload(s)
  PROVE  IInv'
  <1> DEFINE j == child[s].job
             u == Input(j)
  <1>1. child \in [Slots -> ChildStates] /\ StoreTyped /\ ChildFits(s) /\ ChildKnows(s)
    BY TypeParts DEF IInv
  <1>2. child[s].pc = "leasing" /\ j \in StartJobs /\ u \in Uploads /\ u = UploadOf[j] /\ OnlyChild
    BY <1>1, JobData DEF LeaseUpload, At, ChildFits, Jobs
  <1>3. ASSUME NEW verdict \in Verdicts \ {"ok"}, Report(s, verdict), UNCHANGED storeVars
        PROVE  IInv'
    BY <1>2, <1>3, ErrorKeeps DEF storeVars
  <1>4. ASSUME j \in committed, Report(s, "ok"), UNCHANGED storeVars
        PROVE  IInv'
    <2>1. Moved(s, "reporting", "ok") /\ Fitting(s, "reporting")
      BY <1>1, <1>2, <1>4, ReportMoves DEF Verdicts, Fitting, ChildPcs
    <2>2. ChildKnows(s)'
      BY <1>2, <1>4, <2>1 DEF ChildKnows, Moved, IInv, ImportsAreClean, Input, storeVars, PromotingPcs
    <2> QED
      BY <1>2, <1>4, <2>1, <2>2, ReadingKeeps DEF storeVars
  <1>5. ASSUME lease[j] # "none", Goto(s, "promoting"), UNCHANGED storeVars
        PROVE  IInv'
    <2>1. Moved(s, "promoting", child[s].verdict) /\ Fitting(s, "promoting")
      BY <1>1, <1>2, <1>5, GotoMoves DEF Fitting, ChildPcs
    <2>2. ChildKnows(s)'
      <3>1. Grows
        BY <1>5 DEF Grows, storeVars
      <3> QED
        BY <1>5, <2>1, <3>1, VerdictKnows DEF ChildKnows, Moved, Input, storeVars, PromotingPcs
    <2> QED
      BY <1>2, <1>5, <2>1, <2>2, ReadingKeeps DEF storeVars
  <1>6. ASSUME lease[j] = "none", upload[u] = "available", u \in inputs,
               upload' = [upload EXCEPT ![u] = "leased"], lease' = [lease EXCEPT ![j] = "active"],
               Goto(s, "promoting"), UNCHANGED <<inputs, blob, sources, committed>>
        PROVE  IInv'
    <2>1. Moved(s, "promoting", child[s].verdict) /\ Fitting(s, "promoting")
      BY <1>1, <1>2, <1>6, GotoMoves DEF Fitting, ChildPcs
    <2>2. /\ lease'[j] = "active" /\ \A i \in StartJobs \ {j} : lease'[i] = lease[i]
          /\ upload'[u] = "leased" /\ \A v \in Uploads \ {u} : upload'[v] = upload[v]
      BY <1>1, <1>2, <1>6 DEF StoreTyped
    <2>3. StoreTyped'
      BY <1>1, <1>2, <1>6 DEF StoreTyped, OnlyChild, UploadStates, LeaseStates
    <2>4. Grows
      BY <1>6, <2>2 DEF Grows
    <2>5. InputsAreKept'
      BY <1>2, <1>6, <2>2 DEF InputsAreKept, IInv
    <2>6. SourcesAreStored'
      BY <1>6, <2>2 DEF SourcesAreStored, IInv, Content, Input
    <2>7. OneFate'
      <3>1. \A i \in StartJobs \ {j} : UploadOf[i] = u => lease[i] = "none"
        BY <1>6, Fates, JobData
      <3>2. \A i \in StartJobs : lease'[i] # "none" => upload'[UploadOf[i]] = LeaseFate[lease'[i]]
        BY <1>2, <2>2, <3>1, JobsAssumption DEF IInv, OneFate, LeaseFate
      <3>3. \A i, k \in StartJobs :
              UploadOf[i] = UploadOf[k] /\ lease'[i] # "none" /\ lease'[k] # "none" => i = k
        BY <1>2, <2>2, <3>1 DEF IInv, OneFate
      <3>4. \A i \in committed \cap StartJobs : lease'[i] = "promoted"
        BY <1>6, <2>2 DEF IInv, OneFate
      <3>5. \A k \in committed \cap CancelJobs : lease'[ImportOf[k]] = "cancelled"
        BY <1>6, <2>2, JobData DEF IInv, OneFate
      <3> QED
        BY <1>6, <3>2, <3>3, <3>4, <3>5 DEF OneFate
    <2>8. ChildKnows(s)'
      BY <2>1, <2>2, <2>4, VerdictKnows DEF ChildKnows, Moved, Input, PromotingPcs
    <2> QED
      BY <1>2, <1>6, <2>1, <2>3, <2>4, <2>5, <2>6, <2>7, <2>8, ChildStepKeeps
  <1> QED
    BY <1>2, <1>3, <1>4, <1>5, <1>6 DEF LeaseUpload, storeVars, OnlyChild, Verdicts

\* A child that deletes an input nobody can import any more.
LEMMA DeletionKeeps ==
  ASSUME IInv, NEW s \in Slots, NEW pc, NEW verdict, Moved(s, pc, verdict), Fitting(s, pc),
         OnlyChild, UNCHANGED <<upload, lease, blob, sources, committed>>,
         inputs' = inputs \ {Input(child[s].job)},
         upload[Input(child[s].job)] \notin {"available", "leased"},
         ChildKnows(s)'
  PROVE  IInv'
  <1>1. StoreTyped'
    BY TypeParts DEF IInv, StoreTyped, OnlyChild
  <1>2. Grows
    BY DEF Grows
  <1>3. InputsAreKept'
    BY DEF IInv, InputsAreKept
  <1>4. OneFate' /\ SourcesAreStored'
    BY DEF IInv, OneFate, SourcesAreStored, Content, Input
  <1> QED
    BY <1>1, <1>2, <1>3, <1>4, ChildStepKeeps

LEMMA BeginPromotionKeeps ==
  ASSUME IInv, NEW s \in Slots, BeginPromotion(s)
  PROVE  IInv'
  <1> DEFINE j == child[s].job
             u == Input(j)
  <1>1. child \in [Slots -> ChildStates] /\ ChildFits(s) /\ ChildKnows(s)
    BY TypeParts DEF IInv
  <1>2. child[s].pc = "promoting" /\ j \in StartJobs /\ u \in Uploads /\ lease[j] # "none" /\ OnlyChild
    BY <1>1, JobData DEF BeginPromotion, At, ChildFits, ChildKnows, PromotingPcs, Jobs
  <1>3. CASE Report(s, "integrity") /\ UNCHANGED <<upload, inputs, lease, blob, sources, committed>>
    BY <1>2, <1>3, ErrorKeeps DEF Verdicts
  <1>4. CASE Goto(s, "copying") /\ UNCHANGED <<upload, inputs, lease, blob, sources, committed>>
    <2>1. Moved(s, "copying", child[s].verdict) /\ Fitting(s, "copying")
      BY <1>1, <1>2, <1>4, GotoMoves DEF Fitting, ChildPcs
    <2>2. Grows
      BY <1>4 DEF Grows
    <2>3. ChildKnows(s)'
      BY <1>2, <1>4, <2>1, <2>2, VerdictKnows DEF ChildKnows, Moved, Input, PromotingPcs
    <2> QED
      BY <1>2, <1>4, <2>1, <2>3, ReadingKeeps
  <1>5. CASE /\ lease[j] = "promoted" /\ inputs' = inputs \ {u} /\ Goto(s, "inspecting")
             /\ UNCHANGED <<upload, lease, blob, sources, committed>>
    <2>1. Moved(s, "inspecting", child[s].verdict) /\ Fitting(s, "inspecting")
      BY <1>1, <1>2, <1>5, GotoMoves DEF Fitting, ChildPcs
    <2>2. upload[u] = "promoted"
      BY <1>2, <1>5, Fates
    <2>3. Grows
      BY <1>5 DEF Grows
    <2>4. ChildKnows(s)'
      BY <1>2, <1>5, <2>1, <2>3, VerdictKnows DEF ChildKnows, Moved, Input, PromotingPcs
    <2> QED
      BY <1>2, <1>5, <2>1, <2>2, <2>4, DeletionKeeps
  <1> QED
    BY <1>2, <1>3, <1>4, <1>5 DEF BeginPromotion, Promoted

LEMMA CopyInputKeeps ==
  ASSUME IInv, NEW s \in Slots, CopyInput(s)
  PROVE  IInv'
  <1> DEFINE j == child[s].job
  <1>1. child \in [Slots -> ChildStates] /\ ChildFits(s) /\ ChildKnows(s)
    BY TypeParts DEF IInv
  <1>2. /\ child[s].pc = "copying" /\ j \in StartJobs /\ lease[j] # "none" /\ OnlyChild
        /\ UNCHANGED <<upload, inputs, lease, blob, sources, committed>>
    BY <1>1 DEF CopyInput, At, ChildFits, ChildKnows, PromotingPcs
  <1>3. Grows
    BY <1>2 DEF Grows
  <1>4. CASE Report(s, "integrity") \/ Report(s, "failed")
    BY <1>2, <1>4, ErrorKeeps DEF Verdicts
  <1>5. ASSUME NEW pc \in {"committing", "linking"}, Goto(s, pc),
               pc = "committing" => blob[Content(j)] = "stored"
        PROVE  IInv'
    <2>1. Moved(s, pc, child[s].verdict) /\ Fitting(s, pc)
      BY <1>1, <1>2, <1>5, GotoMoves DEF Fitting, ChildPcs
    <2>2. ChildKnows(s)'
      BY <1>2, <1>3, <1>5, <2>1, VerdictKnows DEF ChildKnows, Moved, Input, Content, PromotingPcs
    <2> QED
      BY <1>2, <2>1, <2>2, ReadingKeeps
  <1> QED
    BY <1>4, <1>5 DEF CopyInput, VerifiedBlob

\* A child that gives the file of its content a name, or takes one from it.
LEMMA InstallationKeeps ==
  ASSUME IInv, NEW s \in Slots, child[s].pc \in {"linking", "unlinking"},
         NEW pc \in {"unlinking", "verifying"}, Goto(s, pc), NEW links \in {"linked", "stored"},
         OnlyChild, UNCHANGED <<upload, inputs, lease, sources, committed>>,
         blob' = [blob EXCEPT ![Content(child[s].job)] = links],
         links = "stored" \/ blob[Content(child[s].job)] = "absent"
  PROVE  IInv'
  <1> DEFINE j == child[s].job
             c == Content(j)
  <1>1. child \in [Slots -> ChildStates] /\ StoreTyped /\ ChildFits(s) /\ ChildKnows(s)
    BY TypeParts DEF IInv
  <1>2. j \in StartJobs /\ lease[j] # "none" /\ c \in Contents
    BY <1>1, JobData DEF ChildFits, ChildKnows, PromotingPcs, Jobs
  <1>3. blob'[c] = links /\ \A d \in Contents \ {c} : blob'[d] = blob[d]
    BY <1>1, <1>2 DEF StoreTyped
  <1>4. Moved(s, pc, child[s].verdict) /\ Fitting(s, pc)
    BY <1>1, <1>2, GotoMoves DEF Fitting, ChildPcs
  <1>5. Grows
    BY <1>2, <1>3 DEF Grows
  <1>6. StoreTyped'
    BY <1>1, <1>2 DEF StoreTyped, OnlyChild
  <1>7. SourcesAreStored'
    <2>1. \A d \in sources : blob'[d] = "stored"
      BY <1>1, <1>3 DEF IInv, SourcesAreStored, StoreTyped
    <2> QED
      BY <2>1 DEF IInv, SourcesAreStored, Content, Input
  <1>8. InputsAreKept' /\ OneFate'
    BY DEF IInv, InputsAreKept, OneFate
  <1>9. ChildKnows(s)'
    BY <1>2, <1>4, <1>5, VerdictKnows DEF ChildKnows, Moved, Input, PromotingPcs
  <1> QED
    BY <1>4, <1>5, <1>6, <1>7, <1>8, <1>9, ChildStepKeeps

LEMMA LinkBlobKeeps ==
  ASSUME IInv, NEW s \in Slots, LinkBlob(s)
  PROVE  IInv'
  <1> DEFINE c == Content(child[s].job)
  <1>1. child \in [Slots -> ChildStates] /\ ChildFits(s) /\ ChildKnows(s)
    BY TypeParts DEF IInv
  <1>2. child[s].pc = "linking" /\ child[s].job \in StartJobs /\ OnlyChild
        /\ UNCHANGED <<upload, inputs, lease, sources, committed>>
    BY <1>1 DEF LinkBlob, At, ChildFits
  <1>3. CASE blob[c] = "absent" /\ blob' = [blob EXCEPT ![c] = "linked"] /\ Goto(s, "unlinking")
    BY <1>2, <1>3, InstallationKeeps
  <1>4. CASE blob[c] = "absent" /\ blob' = [blob EXCEPT ![c] = "stored"] /\ Goto(s, "verifying")
    BY <1>2, <1>4, InstallationKeeps
  <1>5. CASE Goto(s, "verifying") /\ UNCHANGED blob
    <2>1. Moved(s, "verifying", child[s].verdict) /\ Fitting(s, "verifying")
      BY <1>1, <1>2, <1>5, GotoMoves DEF Fitting, ChildPcs
    <2>2. Grows
      BY <1>2, <1>5 DEF Grows
    <2>3. ChildKnows(s)'
      BY <1>1, <1>2, <1>5, <2>1, <2>2, VerdictKnows DEF ChildKnows, Moved, Input, PromotingPcs
    <2> QED
      BY <1>2, <1>5, <2>1, <2>3, ReadingKeeps
  <1> QED
    BY <1>3, <1>4, <1>5 DEF LinkBlob

LEMMA UnlinkTemporaryKeeps ==
  ASSUME IInv, NEW s \in Slots, UnlinkTemporary(s)
  PROVE  IInv'
  BY InstallationKeeps DEF UnlinkTemporary, At

LEMMA VerifyInstalledKeeps ==
  ASSUME IInv, NEW s \in Slots, VerifyInstalled(s)
  PROVE  IInv'
  <1>1. child \in [Slots -> ChildStates] /\ ChildFits(s) /\ ChildKnows(s)
    BY TypeParts DEF IInv
  <1>2. /\ child[s].pc = "verifying" /\ child[s].job \in StartJobs /\ OnlyChild
        /\ UNCHANGED <<upload, inputs, lease, blob, sources, committed>>
    BY <1>1 DEF VerifyInstalled, At, ChildFits
  <1>3. CASE Report(s, "integrity")
    BY <1>2, <1>3, ErrorKeeps DEF Verdicts
  <1>4. CASE blob[Content(child[s].job)] = "stored" /\ Goto(s, "committing")
    <2>1. Moved(s, "committing", child[s].verdict) /\ Fitting(s, "committing")
      BY <1>1, <1>2, <1>4, GotoMoves DEF Fitting, ChildPcs
    <2>2. Grows
      BY <1>2 DEF Grows
    <2>3. ChildKnows(s)'
      BY <1>1, <1>2, <1>4, <2>1, <2>2, VerdictKnows DEF ChildKnows, Moved, Input, Content, PromotingPcs
    <2> QED
      BY <1>2, <2>1, <2>3, ReadingKeeps
  <1> QED
    BY <1>3, <1>4 DEF VerifyInstalled, VerifiedBlob

LEMMA CommitPromotionKeeps ==
  ASSUME IInv, NEW s \in Slots, CommitPromotion(s)
  PROVE  IInv'
  <1> DEFINE j == child[s].job
             u == Input(j)
  <1>1. child \in [Slots -> ChildStates] /\ StoreTyped /\ ChildFits(s) /\ ChildKnows(s)
    BY TypeParts DEF IInv
  <1>2. /\ child[s].pc = "committing" /\ j \in StartJobs /\ u = UploadOf[j] /\ u \in Uploads
        /\ Content(j) \in Contents /\ blob[Content(j)] = "stored"
        /\ OnlyChild /\ UNCHANGED <<inputs, blob, committed>>
    BY <1>1, JobData DEF CommitPromotion, At, ChildFits, ChildKnows, Jobs
  <1>3. CASE Report(s, "conflict") /\ UNCHANGED <<upload, lease, sources>>
    BY <1>2, <1>3, ErrorKeeps DEF Verdicts
  <1>4. CASE lease[j] = "promoted" /\ Goto(s, "cleaning") /\ UNCHANGED <<upload, lease, sources>>
    <2>1. Moved(s, "cleaning", child[s].verdict) /\ Fitting(s, "cleaning")
      BY <1>1, <1>2, <1>4, GotoMoves DEF Fitting, ChildPcs
    <2>2. Grows
      BY <1>2, <1>4 DEF Grows
    <2>3. ChildKnows(s)'
      BY <1>4, <2>1, <2>2, VerdictKnows DEF ChildKnows, Moved, Input, PromotingPcs
    <2> QED
      BY <1>2, <1>4, <2>1, <2>3, ReadingKeeps
  <1>5. CASE /\ lease[j] = "active" /\ upload[u] = "leased" /\ Goto(s, "cleaning")
             /\ sources' = sources \cup {Content(j)}
             /\ lease' = [lease EXCEPT ![j] = "promoted"]
             /\ upload' = [upload EXCEPT ![u] = "promoted"]
    <2>1. Moved(s, "cleaning", child[s].verdict) /\ Fitting(s, "cleaning")
      BY <1>1, <1>2, <1>5, GotoMoves DEF Fitting, ChildPcs
    <2>2. /\ lease'[j] = "promoted" /\ \A i \in StartJobs \ {j} : lease'[i] = lease[i]
          /\ upload'[u] = "promoted" /\ \A v \in Uploads \ {u} : upload'[v] = upload[v]
      BY <1>1, <1>2, <1>5 DEF StoreTyped
    <2>3. StoreTyped'
      BY <1>1, <1>2, <1>5 DEF StoreTyped, OnlyChild, UploadStates, LeaseStates
    <2>4. Grows
      BY <1>2, <1>5, <2>2 DEF Grows
    <2>5. InputsAreKept'
      BY <1>2, <2>2 DEF InputsAreKept, IInv
    <2>6. SourcesAreStored'
      BY <1>2, <1>5, <2>2 DEF SourcesAreStored, IInv, Content, Input
    <2>7. OneFate'
      <3>1. \A i \in StartJobs \ {j} : UploadOf[i] = u => lease[i] = "none"
        BY <1>2, <1>5 DEF IInv, OneFate
      <3>2. \A i \in StartJobs : lease'[i] # "none" => upload'[UploadOf[i]] = LeaseFate[lease'[i]]
        BY <1>2, <2>2, <3>1, JobsAssumption DEF IInv, OneFate, LeaseFate
      <3>3. \A i, k \in StartJobs :
              UploadOf[i] = UploadOf[k] /\ lease'[i] # "none" /\ lease'[k] # "none" => i = k
        BY <1>2, <2>2, <3>1 DEF IInv, OneFate
      <3>4. \A i \in committed \cap StartJobs : lease'[i] = "promoted"
        BY <1>2, <2>2 DEF IInv, OneFate
      <3>5. \A k \in committed \cap CancelJobs : lease'[ImportOf[k]] = "cancelled"
        BY <1>5, <2>2, JobData DEF IInv, OneFate
      <3> QED
        BY <1>2, <3>2, <3>3, <3>4, <3>5 DEF OneFate
    <2>8. ChildKnows(s)'
      BY <2>1, <2>2, <2>4, VerdictKnows DEF ChildKnows, Moved, Input, PromotingPcs
    <2>9. committed' = committed
      BY <1>2
    <2> QED
      BY <1>2, <2>1, <2>3, <2>4, <2>5, <2>6, <2>7, <2>8, <2>9, ChildStepKeeps
  <1> QED
    BY <1>2, <1>3, <1>4, <1>5 DEF CommitPromotion, Promoted, Leased

LEMMA CleanInputKeeps ==
  ASSUME IInv, NEW s \in Slots, CleanInput(s)
  PROVE  IInv'
  <1> DEFINE j == child[s].job
  <1>1. child \in [Slots -> ChildStates] /\ ChildFits(s) /\ ChildKnows(s)
    BY TypeParts DEF IInv
  <1>2. /\ child[s].pc = "cleaning" /\ j \in StartJobs /\ lease[j] = "promoted"
        /\ inputs' = inputs \ {Input(j)} /\ Goto(s, "inspecting")
        /\ OnlyChild /\ UNCHANGED <<upload, lease, blob, sources, committed>>
    BY <1>1 DEF CleanInput, At, ChildFits, ChildKnows
  <1>3. Moved(s, "inspecting", child[s].verdict) /\ Fitting(s, "inspecting")
    BY <1>1, <1>2, GotoMoves DEF Fitting, ChildPcs
  <1>4. upload[Input(j)] = "promoted"
    BY <1>2, Fates
  <1>5. Grows
    BY <1>2 DEF Grows
  <1>6. ChildKnows(s)'
    BY <1>2, <1>3, <1>5, VerdictKnows DEF ChildKnows, Moved, Input, PromotingPcs
  <1> QED
    BY <1>2, <1>3, <1>4, <1>6, DeletionKeeps

LEMMA InspectSourceKeeps ==
  ASSUME IInv, NEW s \in Slots, InspectSource(s)
  PROVE  IInv'
  <1>1. child \in [Slots -> ChildStates] /\ ChildFits(s) /\ ChildKnows(s)
    BY TypeParts DEF IInv
  <1>2. /\ child[s].pc = "inspecting" /\ child[s].job \in StartJobs /\ OnlyChild
        /\ UNCHANGED <<upload, inputs, lease, blob, sources, committed>>
    BY <1>1 DEF InspectSource, At, ChildFits
  <1>3. CASE Report(s, "failed") \/ Report(s, "integrity")
    BY <1>2, <1>3, ErrorKeeps DEF Verdicts
  <1>4. CASE Goto(s, "persisting")
    <2>1. Moved(s, "persisting", child[s].verdict) /\ Fitting(s, "persisting")
      BY <1>1, <1>2, <1>4, GotoMoves DEF Fitting, ChildPcs
    <2>2. Grows
      BY <1>2 DEF Grows
    <2>3. ChildKnows(s)'
      BY <1>1, <1>2, <2>1, <2>2, VerdictKnows DEF ChildKnows, Moved, Input, PromotingPcs
    <2> QED
      BY <1>2, <2>1, <2>3, ReadingKeeps
  <1> QED
    BY <1>3, <1>4 DEF InspectSource

LEMMA PersistImportKeeps ==
  ASSUME IInv, NEW s \in Slots, PersistImport(s)
  PROVE  IInv'
  <1> DEFINE j == child[s].job
  <1>1. child \in [Slots -> ChildStates] /\ StoreTyped /\ ChildFits(s) /\ ChildKnows(s)
    BY TypeParts DEF IInv
  <1>2. /\ child[s].pc = "persisting" /\ j \in StartJobs /\ j \in Jobs /\ lease[j] = "promoted"
        /\ Input(j) \notin inputs /\ committed' = committed \cup {j} /\ Report(s, "ok")
        /\ OnlyChild /\ UNCHANGED <<upload, inputs, lease, blob, sources>>
    BY <1>1 DEF PersistImport, At, ChildFits, ChildKnows, Jobs
  <1>3. Moved(s, "reporting", "ok") /\ Fitting(s, "reporting")
    BY <1>1, <1>2, ReportMoves DEF Verdicts, Fitting, ChildPcs
  <1>4. StoreTyped'
    BY <1>1, <1>2 DEF StoreTyped, OnlyChild
  <1>5. Grows
    BY <1>2 DEF Grows
  <1>6. InputsAreKept' /\ SourcesAreStored'
    BY <1>2 DEF IInv, InputsAreKept, SourcesAreStored, Content, Input
  <1>7. OneFate'
    BY <1>2, JobData DEF IInv, OneFate
  <1>8. ChildKnows(s)'
    BY <1>2, <1>3 DEF ChildKnows, Moved, Input, PromotingPcs
  <1> QED
    BY <1>2, <1>3, <1>4, <1>5, <1>6, <1>7, <1>8, ChildStepKeeps

LEMMA CancelImportKeeps ==
  ASSUME IInv, NEW s \in Slots, CancelImport(s)
  PROVE  IInv'
  <1> DEFINE k == child[s].job
             j == ImportOf[k]
             u == UploadOf[j]
  <1>1. child \in [Slots -> ChildStates] /\ StoreTyped /\ ChildFits(s) /\ ChildKnows(s)
    BY TypeParts DEF IInv
  <1>2. /\ child[s].pc = "cancelling" /\ k \in CancelJobs /\ k \in Jobs /\ j \in StartJobs
        /\ u \in Uploads /\ OnlyChild /\ UNCHANGED <<inputs, blob, sources>>
    BY <1>1, JobsAssumption DEF CancelImport, At, ChildFits, Jobs
  <1>3. ASSUME NEW verdict \in Verdicts \ {"ok"}, Report(s, verdict), UNCHANGED <<upload, lease, committed>>
        PROVE  IInv'
    BY <1>2, <1>3, ErrorKeeps
  <1>4. CASE k \in committed /\ Goto(s, "discarding") /\ UNCHANGED <<upload, lease, committed>>
    <2>1. Moved(s, "discarding", child[s].verdict) /\ Fitting(s, "discarding")
      BY <1>1, <1>2, <1>4, GotoMoves DEF Fitting, ChildPcs
    <2>2. Grows
      BY <1>2, <1>4 DEF Grows
    <2>3. ChildKnows(s)'
      BY <1>4, <2>1, <2>2, VerdictKnows DEF ChildKnows, Moved, Input, PromotingPcs
    <2> QED
      BY <1>2, <1>4, <2>1, <2>3, ReadingKeeps
  <1>5. CASE /\ lease[j] = "active" /\ upload[u] = "leased"
             /\ lease' = [lease EXCEPT ![j] = "cancelled"]
             /\ upload' = [upload EXCEPT ![u] = "cancelled"]
             /\ committed' = committed \cup {k}
             /\ Goto(s, "discarding")
    <2>1. Moved(s, "discarding", child[s].verdict) /\ Fitting(s, "discarding")
      BY <1>1, <1>2, <1>5, GotoMoves DEF Fitting, ChildPcs
    <2>2. /\ lease'[j] = "cancelled" /\ \A i \in StartJobs \ {j} : lease'[i] = lease[i]
          /\ upload'[u] = "cancelled" /\ \A v \in Uploads \ {u} : upload'[v] = upload[v]
      BY <1>1, <1>2, <1>5 DEF StoreTyped
    <2>3. StoreTyped'
      BY <1>1, <1>2, <1>5 DEF StoreTyped, OnlyChild, UploadStates, LeaseStates
    <2>4. Grows
      BY <1>2, <1>5, <2>2 DEF Grows
    <2>5. InputsAreKept'
      BY <1>2, <2>2 DEF InputsAreKept, IInv
    <2>6. SourcesAreStored'
      BY <1>2, <2>2 DEF SourcesAreStored, IInv, Content, Input
    <2>7. OneFate'
      <3>1. \A i \in StartJobs \ {j} : UploadOf[i] = u => lease[i] = "none"
        BY <1>2, <1>5 DEF IInv, OneFate
      <3>2. \A i \in StartJobs : lease'[i] # "none" => upload'[UploadOf[i]] = LeaseFate[lease'[i]]
        BY <1>2, <2>2, <3>1, JobsAssumption DEF IInv, OneFate, LeaseFate
      <3>3. \A i, l \in StartJobs :
              UploadOf[i] = UploadOf[l] /\ lease'[i] # "none" /\ lease'[l] # "none" => i = l
        BY <1>2, <2>2, <3>1 DEF IInv, OneFate
      <3>4. \A i \in committed' \cap StartJobs : lease'[i] = "promoted"
        BY <1>2, <1>5, <2>2, JobData DEF IInv, OneFate
      <3>5. \A l \in committed' \cap CancelJobs : lease'[ImportOf[l]] = "cancelled"
        BY <1>5, <2>2, JobData DEF IInv, OneFate
      <3> QED
        BY <3>2, <3>3, <3>4, <3>5 DEF OneFate
    <2>8. ChildKnows(s)'
      BY <1>5, <2>1, <2>4, VerdictKnows DEF ChildKnows, Moved, Input, PromotingPcs
    <2>9. \A i \in (committed' \ committed) \cap StartJobs : Input(i) \notin inputs'
      BY <1>2, <1>5, JobData
    <2> QED
      BY <1>2, <2>1, <2>3, <2>4, <2>5, <2>6, <2>7, <2>8, <2>9, ChildStepKeeps
  <1> QED
    BY <1>2, <1>3, <1>4, <1>5 DEF CancelImport, Leased, Verdicts

LEMMA DiscardInputKeeps ==
  ASSUME IInv, NEW s \in Slots, DiscardInput(s)
  PROVE  IInv'
  <1> DEFINE k == child[s].job
  <1>1. child \in [Slots -> ChildStates] /\ ChildFits(s) /\ ChildKnows(s)
    BY TypeParts DEF IInv
  <1>2. /\ child[s].pc = "discarding" /\ k \in committed
        /\ inputs' = inputs \ {Input(k)} /\ Report(s, "ok")
        /\ OnlyChild /\ UNCHANGED <<upload, lease, blob, sources, committed>>
    BY <1>1 DEF DiscardInput, At, ChildKnows
  <1>3. Moved(s, "reporting", "ok") /\ Fitting(s, "reporting")
    BY <1>1, <1>2, ReportMoves DEF Verdicts, Fitting, ChildPcs
  <1>4. upload[Input(k)] \in {"promoted", "cancelled"}
    BY <1>2, Fates
  <1>5. ChildKnows(s)'
    BY <1>2, <1>3 DEF ChildKnows, Moved, Input, PromotingPcs
  <1> QED
    BY <1>2, <1>3, <1>4, <1>5, DeletionKeeps

LEMMA ExitChildKeeps ==
  ASSUME IInv, NEW s \in Slots, ExitChild(s)
  PROVE  IInv'
  <1>1. child \in [Slots -> ChildStates] /\ ChildFits(s) /\ ChildKnows(s)
    BY TypeParts DEF IInv
  <1>2. /\ child[s].pc = "reporting" /\ Goto(s, "over") /\ OnlyChild
        /\ UNCHANGED <<upload, inputs, lease, blob, sources, committed>>
    BY <1>1 DEF ExitChild, At, Goto
  <1>3. Moved(s, "over", child[s].verdict) /\ Fitting(s, "over")
    BY <1>1, <1>2, GotoMoves DEF Fitting, ChildPcs
  <1>4. Grows
    BY <1>2 DEF Grows
  <1>5. ChildKnows(s)'
    BY <1>3, <1>4, VerdictKnows DEF ChildKnows, Moved, Input, PromotingPcs
  <1> QED
    BY <1>2, <1>3, <1>5, ReadingKeeps

LEMMA ChildStepsKeep ==
  ASSUME IInv, NEW s \in Slots, ChildStep(s)
  PROVE  IInv'
  BY LeaseUploadKeeps, BeginPromotionKeeps, CopyInputKeeps, LinkBlobKeeps, UnlinkTemporaryKeeps,
     VerifyInstalledKeeps, CommitPromotionKeeps, CleanInputKeeps, InspectSourceKeeps,
     PersistImportKeeps, CancelImportKeeps, DiscardInputKeeps, ExitChildKeeps
  DEF ChildStep

-----------------------------------------------------------------------------
(* Steps of the runner and of its surroundings. *)

\* A slot without a child fits and knows everything.
LEMMA EmptySlot ==
  ASSUME NEW s \in Slots, child'[s] = NoChild, runner'[s] # "watching"
  PROVE  ChildFits(s)' /\ ChildKnows(s)'
  BY DEF ChildFits, ChildKnows, NoChild, PromotingPcs

LEMMA NoChildType == NoChild \in ChildStates
  BY DEF NoChild, ChildStates, ChildPcs, Verdicts

\* The parts of the invariant that depend on neither runner nor child.
LEMMA StoreKeeps ==
  ASSUME IInv, UNCHANGED <<upload, lease, blob, sources, committed>>,
         inputs' \subseteq inputs,
         \A u \in inputs \ inputs' : upload[u] \notin {"available", "leased"}
  PROVE  /\ Grows /\ InputsAreKept' /\ OneFate' /\ SourcesAreStored' /\ ImportsAreClean'
  <1>1. Grows
    BY DEF Grows
  <1>2. InputsAreKept'
    BY DEF IInv, InputsAreKept
  <1>3. OneFate' /\ SourcesAreStored'
    BY DEF IInv, OneFate, SourcesAreStored, Content, Input
  <1>4. ImportsAreClean'
    BY <1>1, OutcomesStay DEF ImportsAreClean, Input
  <1> QED
    BY <1>1, <1>2, <1>3, <1>4

LEMMA AnswerKeeps ==
  ASSUME IInv, NEW s \in Slots, runner[s] = "watching",
         NEW says \in SUBSET EvidenceKinds, NEW response \in {"idle", "failed"},
         Answer(s, says, response), OnlyRunner,
         \/ inputs' = inputs
         \/ /\ inputs' = inputs \ {Input(child[s].job)}
            /\ upload[Input(child[s].job)] \notin {"available", "leased"},
         "verified" \in says => child[s].job \in committed /\ Input(child[s].job) \notin inputs'
  PROVE  IInv'
  <1> DEFINE j == child[s].job
             new == {[job |-> j, says |-> kind] : kind \in says}
  <1>1. child \in [Slots -> ChildStates] /\ StoreTyped /\ ChildFits(s)
    BY TypeParts DEF IInv
  <1>2. j \in Jobs
    BY <1>1 DEF ChildFits, ChildStates
  <1>3. /\ evidence' = evidence \cup new
        /\ runner' = [runner EXCEPT ![s] = response] /\ child' = [child EXCEPT ![s] = NoChild]
    BY DEF Answer
  <1>4. Grows /\ InputsAreKept' /\ OneFate' /\ SourcesAreStored' /\ ImportsAreClean'
    BY StoreKeeps DEF OnlyRunner
  <1>5. StoreTyped'
    <2>1. new \subseteq [job: Jobs, says: EvidenceKinds]
      BY <1>2
    <2>2. evidence' \subseteq [job: Jobs, says: EvidenceKinds]
      BY <1>1, <1>3, <2>1 DEF StoreTyped
    <2>3. runner' \in [Slots -> {"idle", "watching", "failed"}] /\ inputs' \subseteq Uploads
      BY <1>1, <1>3 DEF StoreTyped
    <2> QED
      BY <1>1, <2>2, <2>3 DEF StoreTyped, OnlyRunner
  <1>6. child' \in [Slots -> ChildStates]
    BY <1>1, <1>3, NoChildType
  <1>7. ASSUME NEW t \in Slots PROVE ChildFits(t)' /\ ChildKnows(t)'
    <2>1. CASE t = s
      BY <1>1, <1>3, <2>1, EmptySlot DEF StoreTyped
    <2>2. CASE t # s
      <3>1. child'[t] = child[t] /\ runner'[t] = runner[t]
        BY <1>1, <1>3, <2>2 DEF StoreTyped
      <3>2. ChildFits(t)
        BY TypeParts DEF IInv
      <3> QED
        BY <1>4, <3>1, <3>2, OthersKnow DEF ChildFits
    <2> QED
      BY <2>1, <2>2
  <1>8. TypeOK'
    BY <1>5, <1>6, <1>7 DEF TypeOK, StoreTyped, ChildStates, ChildFits
  <1>9. SuccessIsComplete'
    <2>1. ASSUME NEW e \in evidence', e.says = "verified"
          PROVE  e.job \in committed' /\ Input(e.job) \notin inputs'
      <3>1. CASE e \in evidence
        BY <1>4, <2>1, <3>1, OutcomesStay
      <3>2. CASE e \in new
        BY <2>1, <3>2 DEF OnlyRunner
      <3> QED
        BY <1>3, <3>1, <3>2
    <2> QED
      BY <2>1 DEF SuccessIsComplete, Input
  <1> QED
    BY <1>4, <1>7, <1>8, <1>9 DEF IInv

\* The deletion that recovering a cancellation repeats.
LEMMA RecoveredInputs ==
  ASSUME IInv, NEW s \in Slots, Recoverable(s)
  PROVE  /\ \/ FinishedInputs(s) = inputs
            \/ FinishedInputs(s) = inputs \ {Input(child[s].job)}
         /\ upload[Input(child[s].job)] \notin {"available", "leased"}
         /\ child[s].job \in committed /\ Input(child[s].job) \notin FinishedInputs(s)
  <1>1. child[s].job \in committed /\ committed \subseteq Jobs
    BY TypeParts DEF IInv, StoreTyped, Recoverable
  <1>2. upload[Input(child[s].job)] \in {"promoted", "cancelled"}
    BY <1>1, Fates
  <1>3. child[s].job \in StartJobs => Input(child[s].job) \notin inputs
    BY <1>1 DEF IInv, ImportsAreClean
  <1> QED
    BY <1>1, <1>2, <1>3 DEF FinishedInputs, Jobs

LEMMA RecoverOrFailKeeps ==
  ASSUME IInv, NEW s \in Slots, runner[s] = "watching",
         NEW says \in SUBSET {"retryable"}, RecoverOrFail(s, says), OnlyRunner
  PROVE  IInv'
  <1>1. CASE Recoverable(s)
    <2>1. Answer(s, {"verified"}, "idle") /\ inputs' = FinishedInputs(s)
      BY <1>1 DEF RecoverOrFail, Succeed
    <2> QED
      BY <1>1, <2>1, RecoveredInputs, AnswerKeeps DEF EvidenceKinds
  <1>2. CASE ~Recoverable(s)
    <2>1. Answer(s, says, "failed") /\ inputs' = inputs
      BY <1>2 DEF RecoverOrFail
    <2> QED
      BY <2>1, AnswerKeeps DEF EvidenceKinds
  <1> QED
    BY <1>1, <1>2

LEMMA InterruptKeeps ==
  ASSUME IInv, NEW s \in Slots, Interrupt(s)
  PROVE  IInv'
  BY RecoverOrFailKeeps DEF Interrupt, Interruptible

LEMMA AbandonKeeps ==
  ASSUME IInv, NEW s \in Slots, Abandon(s)
  PROVE  IInv'
  <1>1. inputs' = inputs \/ (Recoverable(s) /\ inputs' = FinishedInputs(s))
    BY DEF Abandon
  <1>2. runner[s] = "watching" /\ Answer(s, {"retryable"}, "idle") /\ OnlyRunner
    BY DEF Abandon
  <1> QED
    BY <1>1, <1>2, RecoveredInputs, AnswerKeeps DEF EvidenceKinds

LEMMA ReadResultKeeps ==
  ASSUME IInv, NEW s \in Slots, ReadResult(s)
  PROVE  IInv'
  <1>1. CASE child[s].verdict = "ok"
    <2>1. child[s].job \in committed /\ Input(child[s].job) \notin inputs
      BY <1>1 DEF IInv, ChildKnows
    <2>2. runner[s] = "watching" /\ Answer(s, {"verified"}, "idle") /\ inputs' = inputs /\ OnlyRunner
      BY <1>1 DEF ReadResult, Succeed
    <2> QED
      BY <2>1, <2>2, AnswerKeeps DEF EvidenceKinds
  <1>2. CASE child[s].verdict # "ok"
    BY <1>2, RecoverOrFailKeeps DEF ReadResult
  <1> QED
    BY <1>1, <1>2

\* A step that starts, drops or leaves children and stores nothing.
LEMMA OutsideKeeps ==
  ASSUME IInv, UNCHANGED <<storeVars, evidence>>,
         session' \in Nat, requests' \in Nat, crashes' \in Nat,
         runner' \in [Slots -> {"idle", "watching", "failed"}], child' \in [Slots -> ChildStates],
         \A s \in Slots : \/ child'[s] = child[s] /\ (runner'[s] = "watching" => runner[s] = "watching")
                          \/ ChildFits(s)' /\ ChildKnows(s)'
  PROVE  IInv'
  <1>1. UNCHANGED <<upload, owner, overdue, inputs, lease, blob, sources, committed, evidence>>
    BY DEF storeVars
  <1>2. Grows /\ InputsAreKept' /\ OneFate' /\ SourcesAreStored' /\ ImportsAreClean'
    BY <1>1, StoreKeeps
  <1>3. ASSUME NEW s \in Slots PROVE ChildFits(s)' /\ ChildKnows(s)'
    <2>1. CASE child'[s] = child[s] /\ (runner'[s] = "watching" => runner[s] = "watching")
      <3>1. ChildFits(s)
        BY TypeParts DEF IInv
      <3> QED
        BY <1>2, <2>1, <3>1, OthersKnow DEF ChildFits
    <2> QED
      BY <2>1
  <1>4. TypeOK'
    <2>1. StoreTyped
      BY TypeParts DEF IInv
    <2>2. StoreTyped'
      BY <1>1, <2>1 DEF StoreTyped
    <2> QED
      BY <1>3, <2>2 DEF TypeOK, StoreTyped, ChildStates, ChildFits
  <1>5. SuccessIsComplete'
    BY <1>1 DEF IInv, SuccessIsComplete, Input
  <1> QED
    BY <1>2, <1>3, <1>4, <1>5 DEF IInv

LEMMA ReapKeeps ==
  ASSUME IInv, NEW s \in Slots, Reap(s)
  PROVE  IInv'
  <1>1. child \in [Slots -> ChildStates] /\ StoreTyped
    BY TypeParts DEF IInv
  <1>2. /\ child' = [child EXCEPT ![s] = NoChild] /\ runner[s] # "watching"
        /\ UNCHANGED <<storeVars, evidence>> /\ runner' = runner
        /\ session' \in Nat /\ requests' \in Nat /\ crashes' \in Nat
    BY <1>1 DEF Reap, StoreTyped
  <1>3. child' \in [Slots -> ChildStates]
    BY <1>1, <1>2, NoChildType
  <1>4. ChildFits(s)' /\ ChildKnows(s)'
    BY <1>1, <1>2, EmptySlot
  <1>5. \A t \in Slots \ {s} : child'[t] = child[t]
    BY <1>1, <1>2
  <1> QED
    BY <1>1, <1>2, <1>3, <1>4, <1>5, OutsideKeeps DEF StoreTyped

LEMMA SubmitKeeps ==
  ASSUME IInv, NEW s \in Slots, NEW j \in Jobs, Submit(s, j)
  PROVE  IInv'
  <1> DEFINE new == [pc |-> Handler(j), job |-> j, session |-> session, verdict |-> "none"]
  <1>1. child \in [Slots -> ChildStates] /\ StoreTyped
    BY TypeParts DEF IInv
  <1>2. /\ child' = [child EXCEPT ![s] = new] /\ runner' = [runner EXCEPT ![s] = "watching"]
        /\ UNCHANGED <<storeVars, evidence>> /\ session' \in Nat /\ requests' \in Nat /\ crashes' \in Nat
    BY <1>1 DEF Submit, StoreTyped
  <1>3. new \in ChildStates
    BY <1>1 DEF ChildStates, Handler, ChildPcs, Verdicts, StoreTyped
  <1>4. child' \in [Slots -> ChildStates] /\ child'[s] = new
    BY <1>1, <1>2, <1>3
  <1>5. runner' \in [Slots -> {"idle", "watching", "failed"}]
    BY <1>1, <1>2 DEF StoreTyped
  <1>6. ChildFits(s)' /\ ChildKnows(s)'
    <2>1. j \in StartJobs \/ (j \in CancelJobs /\ j \notin StartJobs)
      BY JobsAssumption DEF Jobs
    <2>2. child'[s].pc = Handler(j) /\ child'[s].job = j /\ child'[s].verdict = "none"
      BY <1>4
    <2>3. j # "none"
      BY JobData
    <2>4. CASE j \in StartJobs
      BY <2>2, <2>3, <2>4 DEF ChildFits, ChildKnows, Handler, PromotingPcs
    <2>5. CASE j \in CancelJobs /\ j \notin StartJobs
      BY <2>2, <2>3, <2>5 DEF ChildFits, ChildKnows, Handler, PromotingPcs
    <2> QED
      BY <2>1, <2>4, <2>5
  <1>7. \A t \in Slots \ {s} : child'[t] = child[t] /\ runner'[t] = runner[t]
    BY <1>1, <1>2 DEF StoreTyped
  <1> QED
    BY <1>2, <1>4, <1>5, <1>6, <1>7, OutsideKeeps

LEMMA CrashHelperKeeps ==
  ASSUME IInv, CrashHelper
  PROVE  IInv'
  <1>1. child \in [Slots -> ChildStates] /\ StoreTyped
    BY TypeParts DEF IInv
  <1>2. /\ child' = child /\ UNCHANGED <<storeVars, evidence>>
        /\ session' \in Nat /\ requests' \in Nat /\ crashes' \in Nat
        /\ runner' \in [Slots -> {"idle", "watching", "failed"}]
        /\ \A s \in Slots : runner'[s] = "idle"
    BY <1>1 DEF CrashHelper, StoreTyped
  <1> QED
    BY <1>1, <1>2, OutsideKeeps

LEMMA PassExpiryKeeps ==
  ASSUME IInv, NEW u \in Uploads, PassExpiry(u)
  PROVE  IInv'
  <1>1. /\ UNCHANGED <<upload, inputs, lease, blob, sources, committed, evidence>>
        /\ runner' = runner /\ child' = child
    BY DEF PassExpiry
  <1>2. Grows /\ InputsAreKept' /\ OneFate' /\ SourcesAreStored' /\ ImportsAreClean'
    BY <1>1, StoreKeeps
  <1>3. TypeOK'
    BY DEF IInv, TypeOK, PassExpiry
  <1>4. SuccessIsComplete' /\ \A s \in Slots : ChildKnows(s)'
    BY <1>1, <1>2, OthersKnow DEF IInv, SuccessIsComplete, Input
  <1> QED
    BY <1>2, <1>3, <1>4 DEF IInv

LEMMA CreateUploadKeeps ==
  ASSUME IInv, NEW u \in Uploads, CreateUpload(u)
  PROVE  IInv'
  <1>1. StoreTyped
    BY TypeParts DEF IInv
  <1>2. /\ upload[u] = "none" /\ upload'[u] = "available" /\ inputs' = inputs \cup {u}
        /\ \A v \in Uploads \ {u} : upload'[v] = upload[v]
        /\ UNCHANGED <<lease, blob, sources, committed, evidence, runner, child>>
    BY <1>1 DEF CreateUpload, StoreTyped
  <1>3. TypeOK'
    <2>1. upload' \in [Uploads -> UploadStates] /\ owner' \in [Uploads -> Nat]
      BY <1>1 DEF CreateUpload, StoreTyped, UploadStates
    <2> QED
      BY <1>2, <2>1 DEF IInv, TypeOK, CreateUpload
  <1>4. Grows
    BY <1>2 DEF Grows
  <1>5. InputsAreKept'
    BY <1>2 DEF IInv, InputsAreKept
  <1>6. \A j \in StartJobs : lease[j] # "none" => UploadOf[j] # u /\ UploadOf[j] \in Uploads
    BY <1>2, Fates, JobData, JobsAssumption
  <1>7. OneFate'
    BY <1>2, <1>6 DEF IInv, OneFate
  <1>8. SourcesAreStored'
    BY <1>2 DEF IInv, SourcesAreStored, Content, Input
  <1>9. SuccessIsComplete' /\ ImportsAreClean'
    BY <1>2, <1>4, OutcomesStay DEF SuccessIsComplete, ImportsAreClean, Input
  <1>10. \A s \in Slots : ChildKnows(s)'
    BY <1>2, <1>4, OthersKnow
  <1> QED
    BY <1>3, <1>5, <1>7, <1>8, <1>9, <1>10 DEF IInv

-----------------------------------------------------------------------------
(* Theorems. *)

LEMMA InitEstablishes == Init => IInv
  <1> SUFFICES ASSUME Init PROVE IInv
    OBVIOUS
  <1>1. \A u \in Uploads : upload[u] = "none"
    BY DEF Init
  <1>2. \A j \in StartJobs : lease[j] = "none"
    BY DEF Init
  <1>3. committed = {} /\ evidence = {} /\ sources = {} /\ \A s \in Slots : child[s] = NoChild
    BY DEF Init
  <1>4. InputsAreKept /\ OneFate /\ SourcesAreStored /\ SuccessIsComplete /\ ImportsAreClean
    BY <1>1, <1>2, <1>3 DEF InputsAreKept, OneFate, SourcesAreStored, SuccessIsComplete, ImportsAreClean
  <1>5. \A s \in Slots : ChildKnows(s)
    BY <1>3 DEF ChildKnows, NoChild, PromotingPcs
  <1> QED
    BY <1>4, <1>5, InitIsTyped DEF IInv

\* Every step keeps the inductive invariant.
THEOREM Inductive == IInv /\ [Next]_vars => IInv'
  <1> SUFFICES ASSUME IInv, [Next]_vars PROVE IInv'
    OBVIOUS
  <1>1. ASSUME NEW u \in Uploads, CreateUpload(u) \/ PassExpiry(u) PROVE IInv'
    BY <1>1, CreateUploadKeeps, PassExpiryKeeps
  <1>2. ASSUME NEW s \in Slots, ChildStep(s) PROVE IInv'
    BY <1>2, ChildStepsKeep
  <1>3. ASSUME NEW s \in Slots, RunnerStep(s) \/ Abandon(s) PROVE IInv'
    BY <1>3, InterruptKeeps, ReadResultKeeps, ReapKeeps, AbandonKeeps DEF RunnerStep
  <1>4. ASSUME NEW s \in Slots, NEW j \in Jobs, Submit(s, j) PROVE IInv'
    BY <1>4, SubmitKeeps
  <1>5. CASE CrashHelper
    BY <1>5, CrashHelperKeeps
  <1>6. CASE UNCHANGED vars
    <2>1. /\ UNCHANGED <<storeVars, evidence>>
          /\ session' = session /\ requests' = requests /\ crashes' = crashes
          /\ runner' = runner /\ child' = child
      BY <1>6 DEF vars, storeVars
    <2>2. child \in [Slots -> ChildStates] /\ StoreTyped
      BY TypeParts DEF IInv
    <2> QED
      BY <2>1, <2>2, OutsideKeeps DEF StoreTyped
  <1> QED
    BY <1>1, <1>2, <1>3, <1>4, <1>5, <1>6 DEF Next

THEOREM Invariance == Spec => []IInv
  BY InitEstablishes, Inductive, PTL DEF Spec

\* The state has its types.
THEOREM TypeCorrect == Spec => []TypeOK
  <1>1. IInv => TypeOK
    BY DEF IInv
  <1> QED
    BY <1>1, Invariance, PTL

\* The bytes of an upload that can still be imported are never deleted.
THEOREM LeasedInputsAreKept == Spec => []InputsAreKept
  <1>1. IInv => InputsAreKept
    BY DEF IInv
  <1> QED
    BY <1>1, Invariance, PTL

\* An upload is leased at most once, and an import is either imported or
\* cancelled.
THEOREM ImportsHaveOneFate == Spec => []OneFate
  <1>1. IInv => OneFate
    BY DEF IInv
  <1> QED
    BY <1>1, Invariance, PTL

\* A registered source has its file in the store.
THEOREM RegisteredSourcesAreStored == Spec => []SourcesAreStored
  <1>1. IInv => SourcesAreStored
    BY DEF IInv
  <1> QED
    BY <1>1, Invariance, PTL

\* An answer of success is durable and leaves no input behind.
THEOREM ToldSuccessIsComplete == Spec => []SuccessIsComplete
  <1>1. IInv => SuccessIsComplete
    BY DEF IInv
  <1> QED
    BY <1>1, Invariance, PTL

-----------------------------------------------------------------------------
(* What is done is not refused.  A step that refuses a job is looked at when the *)
(* job is done: its lease is promoted, so its source is in the store.            *)

Deserved(s) == child'[s].verdict = "failed" /\ Content(child[s].job) \in Unreadable
Repeats(s) == Refused(s) /\ child[s].job # "none" /\ Mine(s) /\ Done(child[s].job)

\* A step of another process, or one that goes on, refuses nothing.
LEMMA GoingOnIsNoRefusal ==
  ASSUME child \in [Slots -> ChildStates], NEW s \in Slots,
         \/ child'[s] = child[s]
         \/ \E pc : Goto(s, pc)
         \/ child'[s] = NoChild
         \/ Report(s, "ok")
  PROVE  ~Refused(s)
  <1>1. CASE \E pc : Goto(s, pc)
    <2>1. PICK pc : child' = [child EXCEPT ![s].pc = pc]
      BY <1>1 DEF Goto
    <2>2. child'[s].verdict = child[s].verdict
      BY <2>1 DEF ChildStates
    <2> QED
      BY <2>2 DEF Refused
  <1>2. CASE Report(s, "ok")
    <2>1. child'[s].verdict = "ok"
      BY <1>2 DEF Report, ChildStates
    <2> QED
      BY <2>1 DEF Refused
  <1> QED
    BY <1>1, <1>2 DEF Refused, NoChild

\* Of a job that is done everything is in place.
LEMMA DoneIsInPlace ==
  ASSUME IInv, NEW s \in Slots, Repeats(s)
  PROVE  /\ child[s].job \in StartJobs =>
              /\ Promoted(child[s].job) /\ lease[child[s].job] # "none"
              /\ VerifiedBlob(Content(child[s].job))
         /\ child[s].job \in CancelJobs =>
              child[s].job \in committed /\ lease[ImportOf[child[s].job]] = "cancelled"
  <1>1. CASE child[s].job \in StartJobs
    BY <1>1, JobData DEF Repeats, Done, Promoted, VerifiedBlob, IInv, SourcesAreStored
  <1>2. CASE child[s].job \in CancelJobs
    BY <1>2, JobData DEF Repeats, Done, IInv, OneFate
  <1> QED
    BY <1>1, <1>2, JobData

LEMMA LeasingRefusesNothingDone ==
  ASSUME IInv, NEW s \in Slots, LeaseUpload(s), Repeats(s)
  PROVE  FALSE
  <1>1. child \in [Slots -> ChildStates] /\ ChildFits(s) /\ Mine(s)
    BY TypeParts DEF IInv, Repeats
  <1>2. child[s].job \in StartJobs
    BY <1>1 DEF LeaseUpload, At, ChildFits
  <1>3. Report(s, "ok") \/ Goto(s, "promoting")
    BY <1>1, <1>2, DoneIsInPlace DEF LeaseUpload
  <1> QED
    BY <1>1, <1>3, GoingOnIsNoRefusal DEF Repeats

LEMMA PromotingRefusesNothingDone ==
  ASSUME IInv, NEW s \in Slots, Repeats(s),
         BeginPromotion(s) \/ CopyInput(s) \/ VerifyInstalled(s) \/ CommitPromotion(s)
  PROVE  FALSE
  <1>1. child \in [Slots -> ChildStates] /\ ChildFits(s)
    BY TypeParts DEF IInv
  <1>2. child[s].job \in StartJobs
    BY <1>1 DEF BeginPromotion, CopyInput, VerifyInstalled, CommitPromotion, At, ChildFits
  <1>3. Promoted(child[s].job) /\ VerifiedBlob(Content(child[s].job))
    BY <1>2, DoneIsInPlace
  <1>4. blob[Content(child[s].job)] # "absent"
    BY <1>3 DEF VerifiedBlob
  <1>5. \E pc : Goto(s, pc)
    <2>1. CASE BeginPromotion(s)
      BY <1>3, <2>1 DEF BeginPromotion
    <2>2. CASE CopyInput(s)
      BY <1>3, <1>4, <2>2 DEF CopyInput
    <2>3. CASE VerifyInstalled(s)
      BY <1>3, <2>3 DEF VerifyInstalled
    <2>4. CASE CommitPromotion(s)
      BY <1>3, <2>4 DEF CommitPromotion
    <2> QED
      BY <2>1, <2>2, <2>3, <2>4
  <1> QED
    BY <1>1, <1>5, GoingOnIsNoRefusal DEF Repeats

LEMMA InspectingRefusesTheUnreadable ==
  ASSUME IInv, NEW s \in Slots, InspectSource(s), Repeats(s)
  PROVE  Deserved(s)
  <1>1. child \in [Slots -> ChildStates] /\ ChildFits(s)
    BY TypeParts DEF IInv
  <1>2. child[s].job \in StartJobs
    BY <1>1 DEF InspectSource, At, ChildFits
  <1>3. VerifiedBlob(Content(child[s].job))
    BY <1>2, DoneIsInPlace
  <1>4. \/ Goto(s, "persisting")
        \/ Report(s, "failed") /\ Content(child[s].job) \in Unreadable
    BY <1>3 DEF InspectSource
  <1>5. CASE Goto(s, "persisting")
    BY <1>1, <1>5, GoingOnIsNoRefusal DEF Repeats
  <1>6. CASE Report(s, "failed") /\ Content(child[s].job) \in Unreadable
    BY <1>1, <1>6 DEF Report, ChildStates, Deserved
  <1> QED
    BY <1>4, <1>5, <1>6

LEMMA CancellingRefusesNothingDone ==
  ASSUME IInv, NEW s \in Slots, CancelImport(s), Repeats(s)
  PROVE  FALSE
  <1>1. child \in [Slots -> ChildStates] /\ ChildFits(s) /\ Mine(s)
    BY TypeParts DEF IInv, Repeats
  <1>2. child[s].job \in CancelJobs
    BY <1>1 DEF CancelImport, At, ChildFits
  <1>3. Goto(s, "discarding")
    BY <1>1, <1>2, DoneIsInPlace DEF CancelImport
  <1> QED
    BY <1>1, <1>3, GoingOnIsNoRefusal DEF Repeats

\* The other steps of a child go on, exit, or report success.
LEMMA OtherStepsRefuseNothing ==
  ASSUME IInv, NEW s \in Slots,
         \/ LinkBlob(s) \/ UnlinkTemporary(s) \/ CleanInput(s)
         \/ PersistImport(s) \/ DiscardInput(s) \/ ExitChild(s)
  PROVE  ~Refused(s)
  <1>1. child \in [Slots -> ChildStates]
    BY TypeParts DEF IInv
  <1>2. (\E pc : Goto(s, pc)) \/ Report(s, "ok")
    BY DEF LinkBlob, UnlinkTemporary, CleanInput, PersistImport, DiscardInput, ExitChild, Goto
  <1> QED
    BY <1>1, <1>2, GoingOnIsNoRefusal

\* A step of a child is its own, and every other step ends or begins one.
LEMMA OthersAreNotRefused ==
  ASSUME child \in [Slots -> ChildStates], NEW s \in Slots, NEW t \in Slots, s # t,
         \/ \E pc : Goto(t, pc)
         \/ \E verdict : Report(t, verdict)
         \/ \E new : child' = [child EXCEPT ![t] = new]
  PROVE  child'[s] = child[s]
  BY DEF Goto, Report, ChildStates

\* A repetition of what is done is not refused (promote_import and
\* cancel_import_operation replay the outcome in the ledger).
THEOREM RepetitionsAreAccepted == Spec => DoneIsNotRefused
  <1>1. ASSUME IInv, [Next]_vars, NEW s \in Slots, Repeats(s) PROVE Deserved(s)
    <2>1. child \in [Slots -> ChildStates]
      BY <1>1, TypeParts DEF IInv
    <2>2. ASSUME child'[s] = child[s] PROVE Deserved(s)
      BY <1>1, <2>1, <2>2, GoingOnIsNoRefusal DEF Repeats
    <2>3. ASSUME NEW u \in Uploads, CreateUpload(u) \/ PassExpiry(u) PROVE Deserved(s)
      BY <2>2, <2>3 DEF CreateUpload, PassExpiry
    <2>4. ASSUME NEW t \in Slots, ChildStep(t) PROVE Deserved(s)
      <3>1. CASE s = t
        BY <1>1, <2>4, <3>1, LeasingRefusesNothingDone, PromotingRefusesNothingDone,
           InspectingRefusesTheUnreadable, CancellingRefusesNothingDone, OtherStepsRefuseNothing
           DEF ChildStep, Repeats
      <3>2. CASE s # t
        <4>1. \/ \E pc : Goto(t, pc)
              \/ \E verdict : Report(t, verdict)
          BY <2>4 DEF ChildStep, LeaseUpload, BeginPromotion, CopyInput, LinkBlob, UnlinkTemporary,
             VerifyInstalled, CommitPromotion, CleanInput, InspectSource, PersistImport, CancelImport,
             DiscardInput, ExitChild, Goto
        <4> QED
          BY <2>1, <2>2, <3>2, <4>1, OthersAreNotRefused
      <3> QED
        BY <3>1, <3>2
    <2>5. ASSUME NEW t \in Slots, child' = [child EXCEPT ![t] = NoChild] PROVE Deserved(s)
      <3>1. child'[s] = NoChild \/ child'[s] = child[s]
        BY <2>1, <2>5
      <3> QED
        BY <1>1, <2>1, <3>1, GoingOnIsNoRefusal DEF Repeats
    <2>6. ASSUME NEW t \in Slots, RunnerStep(t) \/ Abandon(t) PROVE Deserved(s)
      <3>1. child' = [child EXCEPT ![t] = NoChild]
        BY <2>6 DEF RunnerStep, Interrupt, ReadResult, Reap, Abandon, RecoverOrFail, Succeed, Answer
      <3> QED
        BY <2>5, <3>1
    <2>7. ASSUME NEW t \in Slots, NEW j \in Jobs, Submit(t, j) PROVE Deserved(s)
      <3>1. child' = [child EXCEPT ![t] = [pc |-> Handler(j), job |-> j, session |-> session,
                                           verdict |-> "none"]]
        BY <2>7 DEF Submit
      <3>2. child'[s].verdict = "none" \/ child'[s] = child[s]
        BY <2>1, <3>1
      <3> QED
        BY <1>1, <2>2, <3>2 DEF Repeats, Refused
    <2>8. CASE CrashHelper
      BY <2>2, <2>8 DEF CrashHelper
    <2>9. CASE UNCHANGED vars
      BY <2>2, <2>9 DEF vars
    <2> QED
      BY <1>1, <2>3, <2>4, <2>6, <2>7, <2>8, <2>9 DEF Next
  <1>2. IInv /\ [Next]_vars =>
          [\A s \in Slots :
             Refused(s) /\ child[s].job # "none" /\ Mine(s) /\ Done(child[s].job) =>
               child'[s].verdict = "failed" /\ Content(child[s].job) \in Unreadable]_vars
    BY <1>1 DEF Repeats, Deserved
  <1> QED
    BY <1>2, Invariance, PTL DEF Spec, DoneIsNotRefused
=============================================================================
