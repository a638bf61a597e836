-------------------------- MODULE KnowledgeImports --------------------------
(***************************************************************************)
(* Governed imports: an upload is leased, promoted into the content-       *)
(* addressed store and persisted as knowledge by a job that the API runs   *)
(* in a spawned child under a deadline (jobs.py, BoundedJobRunner), over   *)
(* the operation ledger (operations.py) and the upload store (uploads.py). *)
(* A child may be killed between any two steps: the client goes away, the  *)
(* deadline passes, the request is cancelled.                              *)
(*                                                                         *)
(* A step is one database transaction or one file operation.  What is read *)
(* before a transaction and rechecked in it is read with it.               *)
(*                                                                         *)
(* Simplifications:                                                        *)
(*  - a start job runs three operations, whose identifiers are digests of  *)
(*    its own: the lease, the promotion and the import.  The first two are *)
(*    committed with the state of the lease, which therefore stands for    *)
(*    their rows in the ledger;                                            *)
(*  - a file that is being written under a temporary name, or whose row a  *)
(*    crash has kept from being inserted, is not part of the state;        *)
(*  - of a failed job that may not be retried the evidence is left out;    *)
(*  - the runner looks in the ledger and answers in one step;             *)
(*  - bytes are changed by nobody, and one human actor is behind every     *)
(*    session.                                                             *)
(***************************************************************************)
EXTENDS Naturals

CONSTANTS Uploads,      \* uploads
          Contents,     \* what an upload contains, by its digest
          ContentOf,    \* the content of each upload
          StartJobs,    \* import start jobs, by operation identifier
          CancelJobs,   \* import cancel jobs, by operation identifier
          UploadOf,     \* the upload a start job imports
          ImportOf,     \* the start job whose import a cancel job is about
          Unreadable,   \* contents the parser rejects
          Bulky,        \* start jobs whose result does not fit the pipe
          Slots,        \* bound: requests in progress
          MaxRequests,  \* bound: requests
          MaxCrashes    \* bound: crashes of the helper

Jobs == StartJobs \cup CancelJobs

ASSUME JobsAssumption ==
  /\ ContentOf \in [Uploads -> Contents]
  /\ UploadOf \in [StartJobs -> Uploads]
  /\ ImportOf \in [CancelJobs -> StartJobs]
  /\ StartJobs \cap CancelJobs = {}
  /\ "none" \notin Jobs
  /\ Unreadable \subseteq Contents /\ Bulky \subseteq StartJobs
  /\ MaxRequests \in Nat /\ MaxCrashes \in Nat

VARIABLES
  \* persisted
  upload,     \* governed_uploads: the state of each upload
  owner,      \* the session an upload belongs to
  overdue,    \* uploads past their expires_at
  inputs,     \* uploads whose bytes are on disk
  lease,      \* import_leases: the import of each start job
  blob,       \* content-addressed files: "linked" while a second link exists
  sources,    \* contents registered as sources with a governed blob
  committed,  \* jobs whose own operation has an outcome
  evidence,   \* job evidence files: what they say of which job
  \* the helper and the children it has spawned
  session,    \* of the running helper: every launch has its own
  runner,     \* of each request: idle, watching its child, or answered with a failure
  child,      \* the spawned child of each request
  requests, crashes

storeVars == <<upload, owner, overdue, inputs, lease, blob, sources, committed>>
vars == <<upload, owner, overdue, inputs, lease, blob, sources, committed, evidence,
          session, runner, child, requests, crashes>>

UploadStates == {"none", "available", "leased", "promoted", "cancelled"}
LeaseStates  == {"none", "active", "promoted", "cancelled"}

\* What a child reports: its result, or which of its errors.
Verdicts == {"none", "ok", "unauthorized", "not-found", "conflict", "expired", "integrity", "failed"}

\* What the evidence of a job says: a verified result, the child's or the one
\* found in the ledger, or that the job was cut short (499 and 504) and may be
\* retried.
EvidenceKinds == {"verified", "retryable"}

\* "idle" before the child is spawned, "over" once it has exited.
ChildPcs == {"idle", "leasing", "promoting", "copying", "linking", "unlinking", "verifying",
             "committing", "cleaning", "inspecting", "persisting", "cancelling",
             "discarding", "reporting", "over"}
NoChild == [pc |-> "idle", job |-> "none", session |-> 0, verdict |-> "none"]

\* The upload an operation is about, and the content to be stored.
Input(j) == IF j \in StartJobs THEN UploadOf[j] ELSE UploadOf[ImportOf[j]]
Content(j) == ContentOf[Input(j)]

Init ==
  /\ upload = [u \in Uploads |-> "none"]
  /\ owner = [u \in Uploads |-> 0]
  /\ overdue = {}
  /\ inputs = {}
  /\ lease = [j \in StartJobs |-> "none"]
  /\ blob = [c \in Contents |-> "absent"]
  /\ sources = {}
  /\ committed = {}
  /\ evidence = {}
  /\ session = 1
  /\ runner = [s \in Slots |-> "idle"]
  /\ child = [s \in Slots |-> NoChild]
  /\ requests = 0
  /\ crashes = 0

-----------------------------------------------------------------------------
(* Uploads. *)

\* create_upload: the bytes get their name, then the row is inserted.
CreateUpload(u) ==
  /\ upload[u] = "none"
  /\ upload' = [upload EXCEPT ![u] = "available"]
  /\ owner' = [owner EXCEPT ![u] = session]
  /\ inputs' = inputs \cup {u}
  /\ UNCHANGED <<overdue, lease, blob, sources, committed, evidence, session, runner, child,
                 requests, crashes>>

\* UPLOAD_TTL passes.
PassExpiry(u) ==
  /\ upload[u] = "available" /\ u \notin overdue
  /\ overdue' = overdue \cup {u}
  /\ UNCHANGED <<upload, owner, inputs, lease, blob, sources, committed, evidence, session,
                 runner, child, requests, crashes>>

-----------------------------------------------------------------------------
(* The child of a start job: _run_knowledge_import_start. *)

At(s, pc) == child[s].pc = pc
Goto(s, pc) == child' = [child EXCEPT ![s].pc = pc]
Report(s, verdict) == child' = [child EXCEPT ![s].pc = "reporting", ![s].verdict = verdict]

OnlyChild == UNCHANGED <<owner, overdue, evidence, session, runner, requests, crashes>>

\* The session an operation is committed under is that of its upload.
Mine(s) == child[s].session = owner[Input(child[s].job)]

\* Fault: a file with a second link is taken for a sealed one.
ExistingBlob(c) == blob[c] # "absent"

\* _verify_blob: a regular file with exactly one link and the right bytes.
VerifiedBlob(c) == blob[c] = "stored"

\* Fault: a lease that has been given up can still be promoted.
LeasedOnce(j) == lease[j] # "none"

\* The condition under which a lease is promoted or cancelled.
Leased(j) == lease[j] = "active" /\ upload[UploadOf[j]] = "leased"

\* Fault: a promotion is replayed only while its input is there.
PromotedWithInput(j) == lease[j] = "promoted" /\ UploadOf[j] \in inputs

\* The promotion of the job has an outcome in the ledger.
Promoted(j) == lease[j] = "promoted"

\* operation_status, then the lease operation.
LeaseUpload(s) ==
  LET j == child[s].job
      u == Input(j) IN
  /\ At(s, "leasing")
  /\ \/ /\ ~Mine(s)
        /\ Report(s, "unauthorized") /\ UNCHANGED <<upload, lease>>
     \/ /\ Mine(s) /\ j \in committed
        /\ Report(s, "ok") /\ UNCHANGED <<upload, lease>>
     \/ /\ Mine(s) /\ j \notin committed /\ lease[j] # "none"
        /\ Goto(s, "promoting") /\ UNCHANGED <<upload, lease>>
     \/ /\ Mine(s) /\ lease[j] = "none"
        /\ \/ /\ upload[u] # "available"
              /\ Report(s, "conflict") /\ UNCHANGED <<upload, lease>>
           \/ /\ upload[u] = "available" /\ (u \in overdue \/ u \notin inputs)
              /\ Report(s, IF u \in overdue THEN "expired" ELSE "integrity")
              /\ UNCHANGED <<upload, lease>>
           \/ /\ upload[u] = "available" /\ u \notin overdue /\ u \in inputs
              /\ upload' = [upload EXCEPT ![u] = "leased"]
              /\ lease' = [lease EXCEPT ![j] = "active"]
              /\ Goto(s, "promoting")
  /\ OnlyChild /\ UNCHANGED <<inputs, blob, sources, committed>>

\* promote_import up to the copy: an outcome is replayed, which deletes the
\* input again; else the lease and the input are checked.
BeginPromotion(s) ==
  LET j == child[s].job
      u == Input(j) IN
  /\ At(s, "promoting")
  /\ \/ /\ Promoted(j) /\ VerifiedBlob(Content(j))
        /\ inputs' = inputs \ {u}
        /\ Goto(s, "inspecting")
     \/ /\ ~Promoted(j) /\ u \in inputs
        /\ Goto(s, "copying") /\ UNCHANGED inputs
     \/ /\ IF Promoted(j) THEN ~VerifiedBlob(Content(j)) ELSE u \notin inputs
        /\ Report(s, "integrity") /\ UNCHANGED inputs
  /\ OnlyChild /\ UNCHANGED <<upload, lease, blob, sources, committed>>

\* _install_blob: an existing file is verified, else the input is copied to a
\* temporary file beside it.
CopyInput(s) ==
  LET c == Content(child[s].job) IN
  /\ At(s, "copying")
  /\ \/ /\ blob[c] # "absent" /\ VerifiedBlob(c)
        /\ Goto(s, "committing")
     \/ /\ blob[c] # "absent" /\ ~VerifiedBlob(c)
        /\ Report(s, "integrity")
     \/ /\ blob[c] = "absent" /\ Input(child[s].job) \in inputs
        /\ Goto(s, "linking")
     \/ /\ blob[c] = "absent" /\ Input(child[s].job) \notin inputs
        /\ Report(s, "failed")
  /\ OnlyChild /\ UNCHANGED <<upload, inputs, lease, blob, sources, committed>>

\* os.link, or os.replace on a file system without hard links.  If another
\* child has been faster, its file is kept.
LinkBlob(s) ==
  LET c == Content(child[s].job) IN
  /\ At(s, "linking")
  /\ \/ /\ blob[c] = "absent"
        /\ blob' = [blob EXCEPT ![c] = "linked"]
        /\ Goto(s, "unlinking")
     \/ /\ blob[c] = "absent"
        /\ blob' = [blob EXCEPT ![c] = "stored"]
        /\ Goto(s, "verifying")
     \/ /\ blob[c] # "absent"
        /\ Goto(s, "verifying") /\ UNCHANGED blob
  /\ OnlyChild /\ UNCHANGED <<upload, inputs, lease, sources, committed>>

\* The temporary name of the file is removed.
UnlinkTemporary(s) ==
  /\ At(s, "unlinking")
  /\ blob' = [blob EXCEPT ![Content(child[s].job)] = "stored"]
  /\ Goto(s, "verifying")
  /\ OnlyChild /\ UNCHANGED <<upload, inputs, lease, sources, committed>>

VerifyInstalled(s) ==
  /\ At(s, "verifying")
  /\ IF VerifiedBlob(Content(child[s].job)) THEN Goto(s, "committing") ELSE Report(s, "integrity")
  /\ OnlyChild /\ UNCHANGED <<upload, inputs, lease, blob, sources, committed>>

\* The promotion: source, blob, lease and upload change together.
CommitPromotion(s) ==
  LET j == child[s].job IN
  /\ At(s, "committing")
  /\ \/ /\ ~Promoted(j) /\ Leased(j)
        /\ sources' = sources \cup {Content(j)}
        /\ lease' = [lease EXCEPT ![j] = "promoted"]
        /\ upload' = [upload EXCEPT ![UploadOf[j]] = "promoted"]
        /\ Goto(s, "cleaning")
     \/ /\ Promoted(j)
        /\ Goto(s, "cleaning") /\ UNCHANGED <<upload, lease, sources>>
     \/ /\ ~Promoted(j) /\ ~Leased(j)
        /\ Report(s, "conflict") /\ UNCHANGED <<upload, lease, sources>>
  /\ OnlyChild /\ UNCHANGED <<inputs, blob, committed>>

CleanInput(s) ==
  /\ At(s, "cleaning")
  /\ inputs' = inputs \ {Input(child[s].job)}
  /\ Goto(s, "inspecting")
  /\ OnlyChild /\ UNCHANGED <<upload, lease, blob, sources, committed>>

\* import_status, then parse_promoted_source or profile_promoted_dataset.
InspectSource(s) ==
  LET c == Content(child[s].job) IN
  /\ At(s, "inspecting")
  /\ \/ /\ ~VerifiedBlob(c) \/ c \in Unreadable
        /\ Report(s, IF VerifiedBlob(c) THEN "failed" ELSE "integrity")
     \/ /\ VerifiedBlob(c) /\ c \notin Unreadable
        /\ Goto(s, "persisting")
  /\ OnlyChild /\ UNCHANGED <<upload, inputs, lease, blob, sources, committed>>

\* The import operation: chunks, visuals, cards and review tasks, once.
PersistImport(s) ==
  /\ At(s, "persisting")
  /\ committed' = committed \cup {child[s].job}
  /\ Report(s, "ok")
  /\ OnlyChild /\ UNCHANGED <<upload, inputs, lease, blob, sources>>

-----------------------------------------------------------------------------
(* The child of a cancel job: cancel_import_operation. *)

CancelImport(s) ==
  LET k == child[s].job
      j == ImportOf[k] IN
  /\ At(s, "cancelling")
  /\ \/ /\ lease[j] = "none"
        /\ Report(s, "not-found") /\ UNCHANGED <<upload, lease, committed>>
     \/ /\ lease[j] # "none" /\ ~Mine(s)
        /\ Report(s, "unauthorized") /\ UNCHANGED <<upload, lease, committed>>
     \/ /\ lease[j] # "none" /\ Mine(s) /\ k \in committed
        /\ Goto(s, "discarding") /\ UNCHANGED <<upload, lease, committed>>
     \/ /\ Mine(s) /\ k \notin committed /\ Leased(j)
        /\ lease' = [lease EXCEPT ![j] = "cancelled"]
        /\ upload' = [upload EXCEPT ![UploadOf[j]] = "cancelled"]
        /\ committed' = committed \cup {k}
        /\ Goto(s, "discarding")
     \/ /\ lease[j] # "none" /\ Mine(s) /\ k \notin committed /\ ~Leased(j)
        /\ Report(s, "conflict") /\ UNCHANGED <<upload, lease, committed>>
  /\ OnlyChild /\ UNCHANGED <<inputs, blob, sources>>

DiscardInput(s) ==
  /\ At(s, "discarding")
  /\ inputs' = inputs \ {Input(child[s].job)}
  /\ Report(s, "ok")
  /\ OnlyChild /\ UNCHANGED <<upload, lease, blob, sources, committed>>

\* result_queue.put: the runner reads after the child has exited, so a result
\* that does not fit the pipe blocks the child while the helper lives.
ExitChild(s) ==
  /\ At(s, "reporting")
  /\ child[s].verdict = "ok" /\ child[s].job \in Bulky => runner[s] # "watching"
  /\ child' = [child EXCEPT ![s].pc = "over"]
  /\ OnlyChild /\ UNCHANGED <<upload, inputs, lease, blob, sources, committed>>

-----------------------------------------------------------------------------
(* The runner: BoundedJobRunner.run. *)

\* Fault: a cancel job is handed to the handler of imports.
ImportHandler(j) == "leasing"

\* _ALLOWLISTED_HANDLERS: where the child of a job begins.
Handler(j) == IF j \in StartJobs THEN "leasing" ELSE "cancelling"

\* A request of the running helper's session.  A start job names an upload the
\* client was told of.
Submit(s, j) ==
  /\ child[s] = NoChild
  /\ requests < MaxRequests
  /\ requests' = requests + 1
  /\ upload[Input(j)] # "none"
  /\ runner' = [runner EXCEPT ![s] = "watching"]
  /\ child' = [child EXCEPT ![s] =
                 [pc |-> Handler(j), job |-> j, session |-> session, verdict |-> "none"]]
  /\ UNCHANGED <<storeVars, evidence, session, crashes>>

Answer(s, says, response) ==
  /\ evidence' = evidence \cup {[job |-> child[s].job, says |-> kind] : kind \in says}
  /\ runner' = [runner EXCEPT ![s] = response]
  /\ child' = [child EXCEPT ![s] = NoChild]

Succeed(s) == Answer(s, {"verified"}, "idle")

\* Fault: an operation without an outcome is taken for a finished one.
RecoverableUnknown(s) == Mine(s)

\* operation_status tells the outcome to its own session only.
Recoverable(s) == Mine(s) /\ child[s].job \in committed

\* Fault: a cancellation found in the ledger is not carried on.
NothingToFinish(s) == inputs

\* A cancellation found in the ledger is run again, which deletes the input.
FinishedInputs(s) ==
  IF child[s].job \in CancelJobs THEN inputs \ {Input(child[s].job)} ELSE inputs

\* _recover_committed_operation, else the failure.
RecoverOrFail(s, says) ==
  IF Recoverable(s)
  THEN Succeed(s) /\ inputs' = FinishedInputs(s)
  ELSE Answer(s, says, "failed") /\ UNCHANGED inputs

OnlyRunner == UNCHANGED <<upload, owner, overdue, lease, blob, sources, committed, session,
                          requests, crashes>>

\* Fault: a child that has a result to report is not killed.
InterruptibleAtWork(s) == runner[s] = "watching" /\ child[s].pc # "reporting"

\* The child may have exited since the runner last looked.
Interruptible(s) == runner[s] = "watching"

\* The client has gone away or the deadline has passed: the child is killed.
Interrupt(s) ==
  /\ Interruptible(s)
  /\ RecoverOrFail(s, {"retryable"})
  /\ OnlyRunner

\* The request is cancelled: the ledger is looked at, but nobody is told.
Abandon(s) ==
  /\ runner[s] = "watching"
  /\ Answer(s, {"retryable"}, "idle")
  /\ inputs' = IF Recoverable(s) THEN FinishedInputs(s) ELSE inputs
  /\ OnlyRunner

\* The child has exited by itself.
ReadResult(s) ==
  /\ runner[s] = "watching" /\ child[s].pc = "over"
  /\ IF child[s].verdict = "ok"
     THEN Succeed(s) /\ UNCHANGED inputs
     ELSE RecoverOrFail(s, {})
  /\ OnlyRunner

\* A child whose helper has crashed ends unnoticed.
Reap(s) ==
  /\ runner[s] # "watching" /\ child[s].pc = "over"
  /\ child' = [child EXCEPT ![s] = NoChild]
  /\ UNCHANGED <<storeVars, evidence, session, runner, requests, crashes>>

\* The helper is started again under a new session; the children of the old
\* one go on.
CrashHelper ==
  /\ crashes < MaxCrashes
  /\ crashes' = crashes + 1
  /\ session' = session + 1
  /\ runner' = [s \in Slots |-> "idle"]
  /\ UNCHANGED <<storeVars, evidence, child, requests>>

-----------------------------------------------------------------------------

ChildStep(s) ==
  \/ LeaseUpload(s) \/ BeginPromotion(s) \/ CopyInput(s) \/ LinkBlob(s) \/ UnlinkTemporary(s)
  \/ VerifyInstalled(s) \/ CommitPromotion(s) \/ CleanInput(s) \/ InspectSource(s)
  \/ PersistImport(s) \/ CancelImport(s) \/ DiscardInput(s) \/ ExitChild(s)

RunnerStep(s) == Interrupt(s) \/ ReadResult(s) \/ Reap(s)

Next ==
  \/ \E u \in Uploads : CreateUpload(u) \/ PassExpiry(u)
  \/ \E s \in Slots : ChildStep(s) \/ RunnerStep(s) \/ Abandon(s) \/ \E j \in Jobs : Submit(s, j)
  \/ CrashHelper

Spec == Init /\ [][Next]_vars

\* Children run until they are killed, and the runner polls its child and its
\* deadline.  Nothing obliges a client to go away or to send a request.
FairSpec == Spec /\ \A s \in Slots : WF_vars(ChildStep(s)) /\ WF_vars(RunnerStep(s))

-----------------------------------------------------------------------------
(* Properties. *)

\* The state has its types, and a child that runs has a job of its kind.
TypeOK ==
  /\ upload \in [Uploads -> UploadStates]
  /\ owner \in [Uploads -> Nat]
  /\ overdue \subseteq Uploads
  /\ inputs \subseteq Uploads
  /\ lease \in [StartJobs -> LeaseStates]
  /\ blob \in [Contents -> {"absent", "linked", "stored"}]
  /\ sources \subseteq Contents
  /\ committed \subseteq Jobs
  /\ evidence \subseteq [job: Jobs, says: EvidenceKinds]
  /\ session \in Nat
  /\ runner \in [Slots -> {"idle", "watching", "failed"}]
  /\ child \in [Slots -> [pc: ChildPcs, job: Jobs \cup {"none"}, session: Nat, verdict: Verdicts]]
  /\ \A s \in Slots :
       /\ child[s].pc = "idle" <=> child[s].job = "none"
       /\ child[s].pc \in {"cancelling", "discarding"} => child[s].job \in CancelJobs
       /\ child[s].pc \notin {"idle", "cancelling", "discarding", "reporting", "over"}
            => child[s].job \in StartJobs
       /\ runner[s] = "watching" => child[s].pc # "idle"
  /\ requests \in Nat /\ crashes \in Nat

\* The durable lease protects its input: the bytes of an upload that can still
\* be imported are never deleted, whatever other job of the same upload is
\* replayed, cancelled or killed.
InputsAreKept ==
  \A u \in Uploads : upload[u] \in {"available", "leased"} => u \in inputs

\* Uploads and leases tell the same story, an upload is leased at most once,
\* and what was committed of an import agrees with how its lease ended:
\* imported and cancelled exclude each other.
LeaseFate == [active |-> "leased", promoted |-> "promoted", cancelled |-> "cancelled"]

OneFate ==
  /\ \A j \in StartJobs : lease[j] # "none" => upload[UploadOf[j]] = LeaseFate[lease[j]]
  /\ \A i, j \in StartJobs : UploadOf[i] = UploadOf[j] /\ lease[i] # "none" /\ lease[j] # "none" => i = j
  /\ \A j \in committed \cap StartJobs : lease[j] = "promoted"
  /\ \A k \in committed \cap CancelJobs : lease[ImportOf[k]] = "cancelled"

\* A registered source can be read: its file is in the store under its one name,
\* and every promoted lease has its source.
SourcesAreStored ==
  /\ \A c \in sources : blob[c] = "stored"
  /\ \A j \in StartJobs : lease[j] = "promoted" => Content(j) \in sources

\* An answer of success, the child's or recovered, means that the operation is
\* durable and that its short-lived input is gone.
SuccessIsComplete ==
  \A e \in evidence : e.says = "verified" =>
    e.job \in committed /\ Input(e.job) \notin inputs

\* What is done is not refused: once an import is promoted, or a cancellation is
\* committed, a child of its session that repeats the job, after one that was
\* killed or beside another, comes to no error but the parser's own, though the
\* input is gone and its bytes are shared (promote_import, cancel_import_operation).
Done(j) == IF j \in StartJobs THEN lease[j] = "promoted" ELSE j \in committed

Refused(s) == child[s].verdict = "none" /\ child'[s].verdict \notin {"none", "ok"}

DoneIsNotRefused ==
  [][\A s \in Slots :
       Refused(s) /\ child[s].job # "none" /\ Mine(s) /\ Done(child[s].job) =>
         child'[s].verdict = "failed" /\ Content(child[s].job) \in Unreadable]_vars

\* Every request is answered, also when its child hangs on its result.
RequestsAreAnswered ==
  \A s \in Slots : runner[s] = "watching" ~> runner[s] # "watching"

\* The evidence of an interrupted job says it is retryable: its repetition, by
\* the session that owns it, does not find its files invalid.
RetryableJobsAreAccepted ==
  \A s \in Slots :
    child[s].verdict = "integrity" /\ Mine(s) /\ lease[child[s].job] # "cancelled" =>
      [job |-> child[s].job, says |-> "retryable"] \notin evidence
=============================================================================
