--------------------------- MODULE EmbeddingModel ---------------------------
(***************************************************************************)
(* The embedding model: runs of the producer (produce_embedding_model_live *)
(* of qa/run.py) that share a repository.  While the manifest is open a    *)
(* run resolves the wheels and writes a candidate; once somebody has made  *)
(* it the manifest, a run stages a generation of model and runtime,        *)
(* promotes it or reuses the one that is there, verifies and uses it twice *)
(* under held handles and a write boundary (model_cache.py,                *)
(* embedding_live.py), and seals a receipt that replaces the prior one.    *)
(* Runs fail and are killed at every step.                                 *)
(*                                                                         *)
(* Simplifications:                                                        *)
(*  - the generation a manifest leads to is the same in every run;         *)
(*  - the directories of a generation are one tree, with one access list;  *)
(*  - a file that does not belong to the model or to the runtime stands    *)
(*    for every difference verification can find;                          *)
(*  - the sources the authority runs have versions;                        *)
(*  - what a run keeps under a name of its own, and never reads back, is   *)
(*    left out.                                                            *)
(***************************************************************************)
EXTENDS WheelResolver, Sequences

CONSTANTS Indexes,   \* what the package index may list
          Reviewed,  \* bound: of those, the ones whose candidate becomes the manifest
          MaxRuns,   \* bound: runs of the producer
          MaxTroubles \* bound: runs that overlap, runs that are killed, strange files, edits

Runs == 1 .. MaxRuns

ASSUME ModelAssumption ==
  /\ Reviewed \subseteq Indexes
  /\ {MaxRuns, MaxTroubles} \subseteq Nat
  /\ \A i \in Indexes : i \in [Packages -> [Versions -> [wheel : BOOLEAN, needs : SUBSET Specifiers]]]

VARIABLES
  index,      \* what the package index lists
  candidate,  \* the bootstrap candidate, NoneSelected when there is none
  manifest,   \* the runtime of the manifest, NoneSelected while it is open
  tree,       \* the promoted generation: who promoted it, is a file strange, its access list
  sources,    \* the sources of the authority: their version, which every edit raises
  loaded,     \* each run: the version its authority was loaded from
  run,        \* each run: how it goes and the step it is at
  known,      \* runs that promoted a generation and know it again (target_identity)
  saved,      \* each run: the access list it saved, "none" when it saved none
  holds,      \* runs that hold the directories and files of the tree
  dest,       \* the receipt at its place
  prior,      \* each run: the receipt it found there
  backup,     \* each run: the receipt it moved aside
  recovery,   \* each run: its copy of the prior receipt
  leases,     \* runs that hold the receipt at its place
  sealed,     \* the run that finalized its receipt last (history)
  overlaps,   \* runs that started while another one was under way
  kills, strays  \* runs killed, strange files put into the tree

treeVars == <<tree, known, saved, holds>>
receiptVars == <<dest, prior, backup, recovery, leases, sealed>>
lockVars == <<index, candidate, manifest, sources, loaded>>
faultVars == <<kills, strays>>
vars == <<lockVars, treeVars, run, receiptVars, overlaps, faultVars>>

NoTree == [by |-> 0, strange |-> "none", access |-> "open"]
NoFile == [of |-> 0, copy |-> 0]
Own(r) == [of |-> r, copy |-> 0]

\* The steps of a run, in their order: run_final_phase verifies before it closes
\* the tree to writers, _bound_verified_generation closes it first; the
\* expectation is bound without a use, the replay with one; then the receipt.
Final == <<"fetch", "install", "look", "promote",
           "hold", "verify", "read", "deny", "use", "restore", "check", "verify", "release">>
Bind == <<"hold", "read", "deny", "verify", "restore", "check", "release">>
\* A plausible slip: verified before it is closed to writers.
ReplayVerifiesFirst ==
  <<"hold", "verify", "read", "deny", "use", "verify", "restore", "check", "release">>
Replay == <<"hold", "read", "deny", "verify", "use", "verify", "restore", "check", "release">>
Seal == <<"prior", "recheck", "aside", "place", "reopen", "lease", "finalize">>
Script == Final \o Bind \o Replay \o Seal

InFinal(r) == run[r].step <= Len(Final)
InReplay(r) == run[r].step > Len(Final \o Bind) /\ run[r].step <= Len(Final \o Bind \o Replay)
InSeal(r) == run[r].step > Len(Final \o Bind \o Replay)

Init ==
  /\ index \in Indexes
  /\ candidate = NoneSelected /\ manifest = NoneSelected
  /\ tree = NoTree
  /\ sources = 0 /\ loaded = [r \in Runs |-> 0]
  /\ run = [r \in Runs |-> [mode |-> "new", step |-> 1]]
  /\ known = {} /\ holds = {} /\ leases = {}
  /\ saved = [r \in Runs |-> "none"]
  /\ dest = NoFile
  /\ prior = [r \in Runs |-> NoFile]
  /\ backup = [r \in Runs |-> NoFile]
  /\ recovery = [r \in Runs |-> NoFile]
  /\ sealed = 0 /\ overlaps = 0 /\ kills = 0 /\ strays = 0

Mode(r, mode) == run' = [run EXCEPT ![r].mode = mode]
Advance(r) == run' = [run EXCEPT ![r].step = @ + 1]
Give(r) == Mode(r, "failing")
At(r, step) == run[r].mode = "on" /\ Script[run[r].step] = step
\* A run that has ended is at the beginning of the phase it ended in.
\* "stuck": what was done could not be undone.  A final phase says so, by an error of
\* its own; a seal that could not be undone fails with the error of any other.
PhaseOf(r) ==
  IF InFinal(r) THEN 1 ELSE IF InSeal(r) THEN Len(Final \o Bind \o Replay) + 1 ELSE Len(Final) + 1
End(r, mode) == run' = [run EXCEPT ![r] = [mode |-> mode, step |-> PhaseOf(r)]]
Active == {r \in Runs : run[r].mode \in {"on", "failing", "undoing"}}

-----------------------------------------------------------------------------
(* qa/run.py: the phase of a run; model_cache.py: the candidate *)

Troubles == overlaps + kills + strays + sources

\* The authority holds the digests of the sources it was loaded from, and is valid
\* while they are what is read now.
AuthoritySources == sources
Load(r) == loaded' = [loaded EXCEPT ![r] = AuthoritySources]
Authentic(r) == loaded[r] = AuthoritySources

ManifestOpen == manifest = NoneSelected

Begins(r) ==
  /\ run[r].mode = "new" /\ \A q \in 1 .. r - 1 : run[q].mode # "new"
  /\ Active # {} => Troubles < MaxTroubles

\* Phase A: metadata and small files are fetched, the wheels are resolved, and the
\* candidate replaces the one before, which comes back when the new one cannot be
\* read back.
Candidate == Resolve(index)
MetadataFails(r) == Mode(r, "failed") /\ UNCHANGED candidate
Unresolved(r) == Candidate = Failed /\ Mode(r, "unresolved") /\ UNCHANGED candidate
WriteCandidate(r) == Candidate # Failed /\ candidate' = Candidate /\ Mode(r, "done")
Bootstrap(r) ==
  /\ Begins(r) /\ ManifestOpen /\ Load(r)
  /\ MetadataFails(r) \/ Unresolved(r) \/ WriteCandidate(r)
  /\ UNCHANGED <<index, manifest, sources, treeVars, receiptVars, overlaps, faultVars>>

\* The candidate becomes the manifest, by hand.
Review ==
  /\ candidate # NoneSelected /\ ManifestOpen /\ index \in Reviewed
  /\ manifest' = candidate
  /\ UNCHANGED <<index, candidate, sources, loaded, treeVars, run, receiptVars, overlaps, faultVars>>

Start(r) ==
  /\ Begins(r) /\ ~ManifestOpen
  /\ Load(r) /\ Mode(r, "on")
  /\ overlaps' = overlaps + (IF Active = {} THEN 0 ELSE 1)
  /\ UNCHANGED <<index, candidate, manifest, sources, treeVars, receiptVars, faultVars>>

-----------------------------------------------------------------------------
(* model_cache.py: run_final_phase *)

\* Every artifact is fetched once and must match the manifest.
Fetch(r) ==
  /\ At(r, "fetch")
  /\ Advance(r) \/ Give(r)
  /\ UNCHANGED <<lockVars, treeVars, receiptVars, overlaps, faultVars>>

\* The installer is a process that is stopped at its bounds of time and output; the
\* wheelhouse it installs from must be closed.
InstallerOutcomes == {"installed", "failed", "stopped"}

Install(r) ==
  /\ At(r, "install")
  /\ \E outcome \in InstallerOutcomes :
       IF outcome = "installed" /\ Closed(index, manifest) THEN Advance(r) ELSE Give(r)
  /\ UNCHANGED <<lockVars, treeVars, receiptVars, overlaps, faultVars>>

\* A generation that is there is reused; one that appears in between as well.
Look(r) ==
  /\ At(r, "look")
  /\ Give(r) \/ run' = [run EXCEPT ![r].step = @ + (IF tree.by # 0 THEN 2 ELSE 1)]
  /\ UNCHANGED <<lockVars, treeVars, receiptVars, overlaps, faultVars>>

\* Once it is moved, its identity is read, to know it again: when that cannot be done,
\* or is not what was staged, the run fails, or goes on as if somebody else had
\* promoted it.
Promote(r) ==
  /\ At(r, "promote")
  /\ \/ tree.by # 0 /\ Advance(r) /\ UNCHANGED <<tree, known>>
     \/ Give(r) /\ UNCHANGED <<tree, known>>
     \/ /\ tree.by = 0 /\ tree' = [NoTree EXCEPT !.by = r]
        /\ \/ known' = known \union {r} /\ Advance(r)
           \/ UNCHANGED known /\ (Advance(r) \/ Give(r))
  /\ UNCHANGED <<lockVars, saved, holds, receiptVars, overlaps, faultVars>>

\* Outside the final phase the authority binds the generation, and must be valid
\* before and afterwards.
Binds(r) == InFinal(r) \/ Authentic(r)

\* Held handles keep the tree from being renamed or removed.
Hold(r) ==
  /\ At(r, "hold")
  /\ \/ Give(r) /\ UNCHANGED holds
     \/ tree.by # 0 /\ Binds(r) /\ Advance(r) /\ holds' = holds \union {r}
  /\ UNCHANGED <<lockVars, tree, known, saved, receiptVars, overlaps, faultVars>>

ModelIntact == tree.strange # "model"
RuntimeIntact == tree.strange # "runtime"
Intact == tree.by # 0 /\ ModelIntact /\ RuntimeIntact

Verify(r) ==
  /\ At(r, "verify")
  /\ Give(r) \/ (Intact /\ Advance(r))
  /\ UNCHANGED <<lockVars, treeVars, receiptVars, overlaps, faultVars>>

\* _deny_generation_tree_writes: every access list is read, then every directory
\* is closed; afterwards the lists are put back, then compared.
ReadAccess(r) ==
  /\ At(r, "read")
  /\ \/ Give(r) /\ UNCHANGED saved
     \/ Advance(r) /\ saved' = [saved EXCEPT ![r] = tree.access]
  /\ UNCHANGED <<lockVars, tree, known, holds, receiptVars, overlaps, faultVars>>

Denied == [tree EXCEPT !.access = "denied"]
Deny(r) ==
  /\ At(r, "deny")
  /\ \/ Give(r) /\ tree' \in {tree, Denied}
     \/ Advance(r) /\ tree' = Denied
  /\ UNCHANGED <<lockVars, known, saved, holds, receiptVars, overlaps, faultVars>>

\* The fresh pipeline: a card is published, indexed and found again, with a
\* provider in a child process, which may fail.
Pipeline(r) ==
  /\ At(r, "use")
  /\ Give(r) \/ (Authentic(r) /\ Advance(r))
  /\ UNCHANGED <<lockVars, treeVars, receiptVars, overlaps, faultVars>>

UseFinal(r) == InFinal(r) /\ Pipeline(r)
UseReplay(r) == InReplay(r) /\ Pipeline(r)

\* A list that cannot be put back stays, and the run fails.
Restored(r) == [tree EXCEPT !.access = saved[r]]
Restore(r) ==
  /\ At(r, "restore")
  /\ \/ Give(r) /\ tree' \in {tree, Restored(r)} /\ saved' = [saved EXCEPT ![r] = "none"]
     \/ Advance(r) /\ tree' = Restored(r) /\ UNCHANGED saved
  /\ UNCHANGED <<lockVars, known, holds, receiptVars, overlaps, faultVars>>

Check(r) ==
  /\ At(r, "check")
  /\ saved' = [saved EXCEPT ![r] = "none"]
  /\ Give(r) \/ (tree.access = saved[r] /\ Advance(r))
  /\ UNCHANGED <<lockVars, tree, known, holds, receiptVars, overlaps, faultVars>>

\* What is held is looked at once more; a final phase that reused a generation then
\* removes what it staged itself, which may fail.
Release(r) ==
  /\ At(r, "release")
  /\ holds' = holds \ {r}
  /\ Give(r) \/ (Binds(r) /\ Advance(r))
  /\ UNCHANGED <<lockVars, tree, known, saved, receiptVars, overlaps, faultVars>>

-----------------------------------------------------------------------------
(* A run that fails before the receipt *)

\* The access lists come back, if they can, and the handles are closed.
Unwind(r) ==
  /\ run[r].mode = "failing" /\ (saved[r] # "none" \/ r \in holds)
  /\ saved' = [saved EXCEPT ![r] = "none"]
  /\ tree' \in {tree} \union (IF saved[r] # "none" THEN {Restored(r)} ELSE {})
  /\ holds' = holds \ {r}
  /\ UNCHANGED <<lockVars, known, run, receiptVars, overlaps, faultVars>>

Unwound(r) == run[r].mode = "failing" /\ saved[r] = "none" /\ r \notin holds

\* A final phase that fails takes back the generation it promoted, if it knows it,
\* unless somebody holds it or it cannot be removed.
\* Plausible slips: what a run reused is taken back too; what it promoted is known
\* as its own only once it is verified.
TakenBackAny(r) == tree.by # 0
TakenBackOnceHeld(r) == r \in known /\ tree.by = r /\ run[r].step > 6

TakenBack(r) == r \in known /\ tree.by = r
Rollback(r) ==
  /\ Unwound(r) /\ ~InSeal(r)
  /\ \/ ~(InFinal(r) /\ TakenBack(r)) /\ End(r, "failed") /\ UNCHANGED tree
     \/ InFinal(r) /\ TakenBack(r) /\ holds = {} /\ (End(r, "failed") \/ End(r, "stuck")) /\ tree' = NoTree
     \/ InFinal(r) /\ End(r, "stuck") /\ UNCHANGED tree
  /\ UNCHANGED <<lockVars, known, saved, holds, receiptVars, overlaps, faultVars>>

-----------------------------------------------------------------------------
(* embedding_live.py: the receipt *)

\* A receipt at its place reads as a run's own, under the authority it was made with.
Reads(r) == dest = Own(r) /\ Authentic(r)

\* seal_receipt: a copy of the receipt at its place is kept before it is moved.
CopyOfPrior(r) == IF dest = NoFile THEN NoFile ELSE [of |-> dest.of, copy |-> r]

ReadPrior(r) ==
  /\ At(r, "prior")
  /\ \/ Give(r) /\ UNCHANGED <<prior, recovery>>
     \/ /\ Authentic(r) /\ Advance(r)
        /\ prior' = [prior EXCEPT ![r] = dest]
        /\ recovery' = [recovery EXCEPT ![r] = CopyOfPrior(r)]
  /\ UNCHANGED <<lockVars, treeVars, dest, backup, leases, sealed, overlaps, faultVars>>

Recheck(r) ==
  /\ At(r, "recheck")
  /\ Give(r) \/ (dest = prior[r] /\ Advance(r))
  /\ UNCHANGED <<lockVars, treeVars, receiptVars, overlaps, faultVars>>

\* What was moved is compared once more: it may be another one.
MoveAside(r) ==
  /\ At(r, "aside")
  /\ \/ prior[r] = NoFile /\ Advance(r) /\ UNCHANGED <<dest, backup>>
     \/ prior[r] # NoFile /\ Give(r) /\ UNCHANGED <<dest, backup>>
     \/ /\ prior[r] # NoFile /\ dest # NoFile /\ leases = {}
        /\ backup' = [backup EXCEPT ![r] = dest]
        /\ dest' = NoFile
        /\ IF dest = prior[r] THEN Advance(r) ELSE Give(r)
  /\ UNCHANGED <<lockVars, treeVars, prior, recovery, leases, sealed, overlaps, faultVars>>

InstallReceipt(r) ==
  /\ At(r, "place")
  /\ \/ Give(r) /\ UNCHANGED dest
     \/ leases = {} /\ Advance(r) /\ dest' = Own(r)
  /\ UNCHANGED <<lockVars, treeVars, prior, backup, recovery, leases, sealed, overlaps, faultVars>>

Reopen(r) ==
  /\ At(r, "reopen")
  /\ Give(r) \/ (Reads(r) /\ Advance(r))
  /\ UNCHANGED <<lockVars, treeVars, receiptVars, overlaps, faultVars>>

\* A plausible slip: the prior receipt is let go when the new one is held.
LeaseAndTidy(r) ==
  /\ At(r, "lease")
  /\ \/ Give(r) /\ UNCHANGED <<backup, recovery, leases>>
     \/ /\ Reads(r) /\ Advance(r) /\ leases' = leases \union {r}
        /\ backup' = [backup EXCEPT ![r] = NoFile]
        /\ recovery' = [recovery EXCEPT ![r] = NoFile]
  /\ UNCHANGED <<lockVars, treeVars, dest, prior, sealed, overlaps, faultVars>>

\* commit: the receipt is held from here on.
Lease(r) ==
  /\ At(r, "lease")
  /\ \/ Give(r) /\ UNCHANGED leases
     \/ Reads(r) /\ Advance(r) /\ leases' = leases \union {r}
  /\ UNCHANGED <<lockVars, treeVars, dest, prior, backup, recovery, sealed, overlaps, faultVars>>

\* finalize: the one moved aside goes, then its copy, if it can.
Finalize(r) ==
  /\ At(r, "finalize")
  /\ \/ Give(r) /\ UNCHANGED <<backup, recovery, leases, sealed>>
     \/ /\ Reads(r) /\ Mode(r, "done")
        /\ sealed' = r
        /\ leases' = leases \ {r}
        /\ backup' = [backup EXCEPT ![r] = NoFile]
        /\ \E left \in {NoFile, recovery[r]} : recovery' = [recovery EXCEPT ![r] = left]
  /\ UNCHANGED <<lockVars, treeVars, dest, prior, overlaps, faultVars>>

\* _restore_seal_state: the run's own receipt goes, then the copy of the prior one
\* takes its place; both may fail, and the copy then stays where it is.
UndoOwn(r) ==
  /\ run[r].mode = "failing" /\ InSeal(r)
  /\ leases' = leases \ {r}
  /\ Mode(r, "undoing")
  /\ dest' \in {dest} \union (IF dest = Own(r) /\ leases \subseteq {r} THEN {NoFile} ELSE {})
  /\ UNCHANGED <<lockVars, treeVars, prior, backup, recovery, sealed, overlaps, faultVars>>

\* A plausible slip: the prior receipt comes back only when the new one was there.
UndoPriorIfInstalled(r) ==
  /\ run[r].mode = "undoing"
  /\ End(r, "failed")
  /\ \/ /\ backup[r] # NoFile /\ dest = NoFile /\ Script[run[r].step] # "place"
        /\ dest' = recovery[r]
        /\ recovery' = [recovery EXCEPT ![r] = NoFile]
     \/ Script[run[r].step] = "place" /\ UNCHANGED <<dest, recovery>>
  /\ UNCHANGED <<lockVars, treeVars, prior, backup, leases, sealed, overlaps, faultVars>>

UndoPrior(r) ==
  /\ run[r].mode = "undoing"
  /\ \/ /\ backup[r] # NoFile /\ dest = NoFile
        /\ dest' = recovery[r]
        /\ recovery' = [recovery EXCEPT ![r] = NoFile]
        /\ End(r, "failed")
     \/ /\ backup[r] # NoFile \/ dest = Own(r)
        /\ End(r, "stuck") /\ UNCHANGED <<dest, recovery>>
     \/ /\ backup[r] = NoFile /\ dest # Own(r)
        /\ End(r, "failed") /\ UNCHANGED <<dest, recovery>>
  /\ UNCHANGED <<lockVars, treeVars, prior, backup, leases, sealed, overlaps, faultVars>>

-----------------------------------------------------------------------------
(* What happens to runs and to the tree *)

\* A killed run leaves the tree, its access list and the receipts as they are.
Kill(r) ==
  /\ r \in Active /\ Troubles < MaxTroubles
  /\ End(r, "dead")
  /\ holds' = holds \ {r} /\ leases' = leases \ {r}
  /\ saved' = [saved EXCEPT ![r] = "none"]
  /\ kills' = kills + 1
  /\ UNCHANGED <<lockVars, tree, known, dest, prior, backup, recovery, sealed, overlaps, strays>>

\* A strange file comes while the tree is open to writers, and goes at any time.
Stray ==
  /\ tree.by # 0
  /\ \/ /\ tree.strange = "none" /\ tree.access = "open" /\ Troubles < MaxTroubles
        /\ \E part \in {"model", "runtime"} : tree' = [tree EXCEPT !.strange = part]
        /\ strays' = strays + 1
     \/ /\ tree.strange # "none" /\ UNCHANGED strays
        /\ tree' = [tree EXCEPT !.strange = "none"]
  /\ UNCHANGED <<lockVars, known, saved, holds, run, receiptVars, overlaps, kills>>

\* Somebody edits the sources the authority runs; between runs that changes nothing.
Edit ==
  /\ Active # {} /\ Troubles < MaxTroubles
  /\ sources' = sources + 1
  /\ UNCHANGED <<index, candidate, manifest, loaded, treeVars, run, receiptVars, overlaps, faultVars>>

Step(r) ==
  \/ Fetch(r) \/ Install(r) \/ Look(r) \/ Promote(r) \/ Hold(r) \/ Verify(r) \/ ReadAccess(r) \/ Deny(r)
  \/ UseFinal(r) \/ UseReplay(r) \/ Restore(r) \/ Check(r) \/ Release(r) \/ Unwind(r) \/ Rollback(r)
  \/ ReadPrior(r) \/ Recheck(r) \/ MoveAside(r) \/ InstallReceipt(r) \/ Reopen(r) \/ Lease(r)
  \/ Finalize(r) \/ UndoOwn(r) \/ UndoPrior(r)

Next == Review \/ Stray \/ Edit \/ \E r \in Runs : Bootstrap(r) \/ Start(r) \/ Step(r) \/ Kill(r)

Spec == Init /\ [][Next]_vars

-----------------------------------------------------------------------------
(* Properties *)

Files == [of : 0 .. MaxRuns, copy : 0 .. MaxRuns]

\* The type of the state; a run that saved an access list holds the tree, a held
\* tree is there, and a held receipt is at its place.
TypeOK ==
  /\ index \in Indexes
  /\ {candidate, manifest} \subseteq [Packages -> 0 .. MaxVersion]
  /\ tree \in [by : 0 .. MaxRuns, strange : {"none", "model", "runtime"}, access : {"open", "denied"}]
  /\ run \in [Runs -> [mode : {"new", "on", "failing", "undoing", "failed", "stuck", "dead", "done", "unresolved"},
                       step : 1 .. Len(Script)]]
  /\ known \subseteq Runs /\ holds \subseteq Active /\ leases \subseteq Active
  /\ saved \in [Runs -> {"none", "open", "denied"}]
  /\ {r \in Runs : saved[r] # "none"} \subseteq holds
  /\ holds # {} => tree.by # 0
  /\ \A r \in leases : dest = Own(r)
  /\ dest \in Files /\ {prior, backup, recovery} \subseteq [Runs -> Files]
  /\ sealed \in 0 .. MaxRuns /\ {overlaps, kills, strays, sources} \subseteq Nat /\ loaded \in [Runs -> 0 .. sources] /\ Troubles <= MaxTroubles

\* The search for wheels answers right (solve, against validate_offline_wheel_closure):
\* a candidate is a set of wheels that phase B accepts, every requirement met inside
\* it and nothing in it superfluous; and a run that reports that the wheels cannot
\* be resolved is right, there is no closed set, though the search takes the newest
\* versions first and one choice rules out another.
ResolutionIsRight ==
  /\ candidate # NoneSelected => Closed(index, candidate)
  /\ (/\ \E r \in Runs : run[r].mode = "unresolved"
      /\ Runtime \in {c.name : c \in index[Root][1].needs})
     => ~\E sel \in [Packages -> 0 .. MaxVersion] : Closed(index, sel)

\* So far no two runs were under way at a time.
Alone == overlaps = 0

\* The generation a finalized receipt speaks of is there, whatever later runs do
\* and however they fail.
SealedIsBacked == Alone /\ sealed # 0 => tree.by # 0

\* A final phase that fails leaves no generation behind that it knows as its own,
\* unless it says that it could not take it back, even when others reuse it meanwhile.
FailureLeavesNoTrace ==
  \A r \in Runs : run[r].mode = "failed" /\ InFinal(r) /\ tree.by = r => r \notin known

\* What a test says of every failure (test_model_cache.py, "phase b failure removes
\* unsealed generation"): none is there that nobody sealed.
FailureRemovesGeneration == \A r \in Runs : run[r].mode = "failed" /\ InFinal(r) => tree.by # r

\* While the replay uses the model, the tree is the one that was verified and no
\* one can write to it.
ReplayRunsIntact ==
  Alone => \A r \in Runs : At(r, "use") /\ InReplay(r) => Intact /\ tree.access = "denied"

\* "Keep the prior receipt recoverable until the caller's post-seal check"
\* (embedding_live.py, _DeferredReceiptSeal): the receipt finalized last is at its
\* place or kept aside, wherever a run fails or is killed.
PriorIsRecoverable ==
  Alone /\ sealed # 0
  => \E f \in {dest} \union {backup[r] : r \in Runs} \union {recovery[r] : r \in Runs} : f.of = sealed

\* When no run is under way, the receipt at its place is the one finalized last,
\* unless a run was killed while it sealed or could not undo what it had done.
SettledReceipt ==
  (/\ Alone /\ Active = {}
   /\ \A r \in Runs : run[r].mode \in {"dead", "stuck"} => ~InSeal(r))
  => dest.of = sealed

\* What a test says of two runs at a time (test_model_cache.py, "concurrent same
\* generation promotion reuses winner"): the run that reuses the generation of the
\* other one ends with a generation that is there.
ReusedGenerationStays == \A r \in Runs : run[r].mode = "done" /\ run[r].step > 1 => tree.by # 0
=============================================================================
