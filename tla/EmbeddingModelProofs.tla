------------------------ MODULE EmbeddingModelProofs ------------------------
(***************************************************************************)
(* For any packages, indexes, runs and troubles: a final phase that fails  *)
(* leaves no generation that it knows as its own, and runs one at a time   *)
(* use only the tree they verified, keep the generation a receipt speaks   *)
(* of, and lose no receipt.                                                *)
(*                                                                         *)
(* The script gives every step a number, and the invariant says what a run *)
(* has in hand at each of them: whether it holds the tree, has saved the   *)
(* access list, has moved the receipt aside.  As long as runs do not       *)
(* overlap, there is one run under way at most, so what it knows stays     *)
(* true until it takes its next step.                                      *)
(***************************************************************************)
EXTENDS EmbeddingModel, Recursion, SequenceTheorems, FiniteSetTheorems, WellFoundedInduction, TLAPS

Modes == {"new", "on", "failing", "undoing", "failed", "stuck", "dead", "done", "unresolved"}
RunType == [mode : Modes, step : 1 .. 36]

\* The type of the state, but for the wheels.
Typed ==
  /\ index \in Indexes
  /\ tree \in [by : 0 .. MaxRuns, strange : {"none", "model", "runtime"}, access : {"open", "denied"}]
  /\ run \in [Runs -> RunType]
  /\ known \subseteq Runs /\ holds \subseteq Runs /\ leases \subseteq Runs
  /\ saved \in [Runs -> {"none", "open", "denied"}]
  /\ dest \in Files /\ prior \in [Runs -> Files]
  /\ backup \in [Runs -> Files] /\ recovery \in [Runs -> Files]
  /\ sealed \in 0 .. MaxRuns

\* Troubles are counted.
Counted ==
  /\ overlaps \in Nat /\ kills \in Nat /\ strays \in Nat /\ sources \in Nat
  /\ loaded \in [Runs -> 0 .. sources]
  /\ Troubles <= MaxTroubles

\* Between "hold" and "release" a run holds the tree, between "read" and "check" it
\* has saved the access list.
HeldSteps == 6 .. 13 \cup 15 .. 20 \cup 22 .. 29
SavedSteps == 8 .. 11 \cup 16 .. 19 \cup 23 .. 28

Handles ==
  /\ holds # {} => tree.by # 0
  /\ \A r \in Runs :
       /\ r \in holds => r \in Active /\ run[r].step \in HeldSteps
       /\ run[r].mode = "on" /\ run[r].step \in HeldSteps => r \in holds
       /\ saved[r] # "none" => r \in holds
       /\ run[r].mode = "on" => (saved[r] # "none" <=> run[r].step \in SavedSteps)

\* A receipt is held from "lease" to the end of its run.
Leased ==
  \A r \in leases : dest = Own(r) /\ run[r].step = 36 /\ run[r].mode \in {"on", "failing"}

\* The generation that is there was promoted by a run that has come so far.
Promotions ==
  \A r \in Runs : run[r].mode = "new" \/ (run[r].mode = "on" /\ run[r].step <= 4) => tree.by # r

\* What a run has moved aside or copied it has come to; it has not sealed yet.
Receipts ==
  /\ \A r \in Runs :
       /\ run[r].mode = "new" => run[r].step = 1
       /\ run[r].mode = "undoing" => run[r].step > 29
       /\ run[r].mode \in {"new", "on"} /\ run[r].step <= 30 => recovery[r] = NoFile
       /\ run[r].mode \in {"new", "on"} /\ run[r].step <= 32 => backup[r] = NoFile
       /\ run[r].mode = "new" \/ r \in Active => sealed # r

OneAtATime == Alone => \A r, q \in Active : r = q

\* What the only run under way knows of the tree.
TreeIsItsOwn(r) ==
  /\ run[r].mode = "on" /\ run[r].step > 4 => tree.by # 0
  /\ run[r].step <= 13 /\ tree.by = r => sealed = 0
  /\ run[r].mode = "on" /\ run[r].step \in 24 .. 27 => tree.access = "denied"
  /\ run[r].mode = "on" /\ run[r].step = 25 => Intact
TreesAreTheirOwn == Alone => \A r \in Active : TreeIsItsOwn(r)

\* What it knows of the receipts.
ReceiptIsItsOwn(r) ==
  /\ run[r].mode = "on" /\ run[r].step \in {31, 32} => prior[r] = dest /\ recovery[r].of = dest.of
  /\ run[r].mode = "on" /\ run[r].step = 33 => dest = NoFile
ReceiptsAreTheirOwn == Alone => \A r \in Active : ReceiptIsItsOwn(r)

\* The receipt finalized last while a run is under way: at its place, or moved aside
\* with a copy; or there was none.
KilledSealing == \E r \in Runs : run[r].mode \in {"dead", "stuck"} /\ run[r].step > 29
Undisturbed == dest.of = sealed
Replacing(r) ==
  \/ backup[r] = NoFile /\ Undisturbed
  \/ backup[r] # NoFile /\ recovery[r].of = sealed /\ dest \in {NoFile, Own(r)}
  \/ backup[r] = NoFile /\ sealed = 0 /\ dest = Own(r)
ReceiptIsSettled ==
  Alone /\ ~KilledSealing =>
    /\ Active = {} => Undisturbed
    /\ \A r \in Active :
         /\ Replacing(r)
         /\ run[r].step <= 29 \/ (run[r].mode = "on" /\ run[r].step <= 32) => Undisturbed

IInv ==
  /\ Typed /\ Counted
  /\ Handles /\ Leased /\ Promotions /\ Receipts /\ OneAtATime
  /\ SealedIsBacked /\ FailureLeavesNoTrace /\ PriorIsRecoverable
  /\ TreesAreTheirOwn /\ ReceiptsAreTheirOwn /\ ReceiptIsSettled

-----------------------------------------------------------------------------
(* The script *)

Names == {"fetch", "install", "look", "promote", "hold", "verify", "read", "deny", "use", "restore",
          "check", "release", "prior", "recheck", "aside", "place", "reopen", "lease", "finalize"}

\* The elements of two sequences put together.
LEMMA Joined ==
  ASSUME NEW s \in Seq(Names), NEW t \in Seq(Names)
  PROVE  /\ s \o t \in Seq(Names) /\ Len(s \o t) = Len(s) + Len(t)
         /\ \A i \in 1 .. Len(s) : (s \o t)[i] = s[i]
         /\ \A i \in Len(s) + 1 .. Len(s) + Len(t) : (s \o t)[i] = t[i - Len(s)]
<1>1. /\ s \o t \in Seq(Names) /\ Len(s \o t) = Len(s) + Len(t)
      /\ \A i \in 1 .. Len(s) + Len(t) : (s \o t)[i] = IF i <= Len(s) THEN s[i] ELSE t[i - Len(s)]
  BY ConcatProperties
<1> QED
  BY <1>1

\* The parts of the script, in their order.
LEMMA ScriptParts ==
  /\ Len(Final) = 13 /\ Len(Final \o Bind) = 20 /\ Len(Final \o Bind \o Replay) = 29
  /\ Len(Script) = 36
  /\ \A i \in 1 .. 13 : Script[i] = Final[i]
  /\ \A i \in 14 .. 20 : Script[i] = Bind[i - 13]
  /\ \A i \in 21 .. 29 : Script[i] = Replay[i - 20]
  /\ \A i \in 30 .. 36 : Script[i] = Seal[i - 29]
<1> DEFINE FB == Final \o Bind
           FBR == FB \o Replay
<1>1. /\ Final \in Seq(Names) /\ Len(Final) = 13
      /\ Bind \in Seq(Names) /\ Len(Bind) = 7
      /\ Replay \in Seq(Names) /\ Len(Replay) = 9
      /\ Seal \in Seq(Names) /\ Len(Seal) = 7
  <2>1. Final \in Seq(Names) /\ Len(Final) = 13
    BY DEF Final, Names
  <2>2. Bind \in Seq(Names) /\ Len(Bind) = 7
    BY DEF Bind, Names
  <2>3. Replay \in Seq(Names) /\ Len(Replay) = 9
    BY DEF Replay, Names
  <2>4. Seal \in Seq(Names) /\ Len(Seal) = 7
    BY DEF Seal, Names
  <2> QED
    BY <2>1, <2>2, <2>3, <2>4
<1>2. FB = Final \o Bind /\ FBR = FB \o Replay /\ Script = FBR \o Seal
  BY DEF Script
<1>3. Len(FB) = Len(Final \o Bind) /\ Len(FBR) = Len(Final \o Bind \o Replay)
  OBVIOUS
<1> HIDE DEF FB, FBR
<1>4. /\ FB \in Seq(Names) /\ Len(FB) = 20
      /\ \A i \in 1 .. 13 : FB[i] = Final[i]
      /\ \A i \in 14 .. 20 : FB[i] = Bind[i - 13]
  <2>0. Final \in Seq(Names) /\ Bind \in Seq(Names) /\ FB = Final \o Bind
    BY <1>1, <1>2
  <2>1. /\ FB \in Seq(Names) /\ Len(FB) = Len(Final) + Len(Bind)
        /\ \A i \in 1 .. Len(Final) : FB[i] = Final[i]
        /\ \A i \in Len(Final) + 1 .. Len(Final) + Len(Bind) : FB[i] = Bind[i - Len(Final)]
    BY <2>0, Joined, Zenon
  <2> QED
    BY <1>1, <2>1
<1>5. /\ FBR \in Seq(Names) /\ Len(FBR) = 29
      /\ \A i \in 1 .. 20 : FBR[i] = FB[i]
      /\ \A i \in 21 .. 29 : FBR[i] = Replay[i - 20]
  <2>0. FB \in Seq(Names) /\ Replay \in Seq(Names) /\ FBR = FB \o Replay
    BY <1>1, <1>2, <1>4
  <2>1. /\ FBR \in Seq(Names) /\ Len(FBR) = Len(FB) + Len(Replay)
        /\ \A i \in 1 .. Len(FB) : FBR[i] = FB[i]
        /\ \A i \in Len(FB) + 1 .. Len(FB) + Len(Replay) : FBR[i] = Replay[i - Len(FB)]
    BY <2>0, Joined, Zenon
  <2> QED
    BY <1>1, <1>4, <2>1
<1>6. /\ Script \in Seq(Names) /\ Len(Script) = 36
      /\ \A i \in 1 .. 29 : Script[i] = FBR[i]
      /\ \A i \in 30 .. 36 : Script[i] = Seal[i - 29]
  <2>0. FBR \in Seq(Names) /\ Seal \in Seq(Names) /\ Script = FBR \o Seal
    BY <1>1, <1>2, <1>5
  <2>1. /\ Script \in Seq(Names) /\ Len(Script) = Len(FBR) + Len(Seal)
        /\ \A i \in 1 .. Len(FBR) : Script[i] = FBR[i]
        /\ \A i \in Len(FBR) + 1 .. Len(FBR) + Len(Seal) : Script[i] = Seal[i - Len(FBR)]
    BY <2>0, Joined, Zenon
  <2> QED
    BY <1>1, <1>5, <2>1
<1> QED
  BY <1>1, <1>3, <1>4, <1>5, <1>6

LEMMA FinalEnds == Len(Final) = 13
BY ScriptParts, Zenon

\* The numbers of a step.
LEMMA StepNumbers0 ==
  ASSUME NEW i \in 1 .. 36
  PROVE  /\ Script[i] = "fetch" => i = 1
         /\ Script[i] = "install" => i = 2
         /\ Script[i] = "look" => i = 3
         /\ Script[i] = "promote" => i = 4
<1>1. CASE i \in 1 .. 13
  <2>1. Script[i] = Final[i]
    BY <1>1, ScriptParts
  <2> QED
    BY <1>1, <2>1 DEF Final
<1>2. CASE i \in 14 .. 20
  <2>1. Script[i] = Bind[i - 13]
    BY <1>2, ScriptParts
  <2> QED
    BY <1>2, <2>1 DEF Bind
<1>3. CASE i \in 21 .. 29
  <2>1. Script[i] = Replay[i - 20]
    BY <1>3, ScriptParts
  <2> QED
    BY <1>3, <2>1 DEF Replay
<1>4. CASE i \in 30 .. 36
  <2>1. Script[i] = Seal[i - 29]
    BY <1>4, ScriptParts
  <2> QED
    BY <1>4, <2>1 DEF Seal
<1> QED
  BY <1>1, <1>2, <1>3, <1>4

LEMMA StepNumbers1 ==
  ASSUME NEW i \in 1 .. 36
  PROVE  /\ Script[i] = "hold" => i \in {5, 14, 21}
         /\ Script[i] = "verify" => i \in {6, 12, 17, 24, 26}
         /\ Script[i] = "read" => i \in {7, 15, 22}
         /\ Script[i] = "deny" => i \in {8, 16, 23}
<1>1. CASE i \in 1 .. 13
  <2>1. Script[i] = Final[i]
    BY <1>1, ScriptParts
  <2> QED
    BY <1>1, <2>1 DEF Final
<1>2. CASE i \in 14 .. 20
  <2>1. Script[i] = Bind[i - 13]
    BY <1>2, ScriptParts
  <2> QED
    BY <1>2, <2>1 DEF Bind
<1>3. CASE i \in 21 .. 29
  <2>1. Script[i] = Replay[i - 20]
    BY <1>3, ScriptParts
  <2> QED
    BY <1>3, <2>1 DEF Replay
<1>4. CASE i \in 30 .. 36
  <2>1. Script[i] = Seal[i - 29]
    BY <1>4, ScriptParts
  <2> QED
    BY <1>4, <2>1 DEF Seal
<1> QED
  BY <1>1, <1>2, <1>3, <1>4

LEMMA StepNumbers2 ==
  ASSUME NEW i \in 1 .. 36
  PROVE  /\ Script[i] = "use" => i \in {9, 25}
         /\ Script[i] = "restore" => i \in {10, 18, 27}
         /\ Script[i] = "check" => i \in {11, 19, 28}
         /\ Script[i] = "release" => i \in {13, 20, 29}
         /\ i \in {9, 25} => Script[i] = "use"
<1>1. CASE i \in 1 .. 13
  <2>1. Script[i] = Final[i]
    BY <1>1, ScriptParts
  <2> QED
    BY <1>1, <2>1 DEF Final
<1>2. CASE i \in 14 .. 20
  <2>1. Script[i] = Bind[i - 13]
    BY <1>2, ScriptParts
  <2> QED
    BY <1>2, <2>1 DEF Bind
<1>3. CASE i \in 21 .. 29
  <2>1. Script[i] = Replay[i - 20]
    BY <1>3, ScriptParts
  <2> QED
    BY <1>3, <2>1 DEF Replay
<1>4. CASE i \in 30 .. 36
  <2>1. Script[i] = Seal[i - 29]
    BY <1>4, ScriptParts
  <2> QED
    BY <1>4, <2>1 DEF Seal
<1> QED
  BY <1>1, <1>2, <1>3, <1>4

LEMMA StepNumbers3 ==
  ASSUME NEW i \in 1 .. 36
  PROVE  /\ Script[i] = "prior" => i = 30
         /\ Script[i] = "recheck" => i = 31
         /\ Script[i] = "aside" => i = 32
         /\ Script[i] = "place" => i = 33
<1>1. CASE i \in 1 .. 13
  <2>1. Script[i] = Final[i]
    BY <1>1, ScriptParts
  <2> QED
    BY <1>1, <2>1 DEF Final
<1>2. CASE i \in 14 .. 20
  <2>1. Script[i] = Bind[i - 13]
    BY <1>2, ScriptParts
  <2> QED
    BY <1>2, <2>1 DEF Bind
<1>3. CASE i \in 21 .. 29
  <2>1. Script[i] = Replay[i - 20]
    BY <1>3, ScriptParts
  <2> QED
    BY <1>3, <2>1 DEF Replay
<1>4. CASE i \in 30 .. 36
  <2>1. Script[i] = Seal[i - 29]
    BY <1>4, ScriptParts
  <2> QED
    BY <1>4, <2>1 DEF Seal
<1> QED
  BY <1>1, <1>2, <1>3, <1>4

LEMMA StepNumbers4 ==
  ASSUME NEW i \in 1 .. 36
  PROVE  /\ Script[i] = "reopen" => i = 34
         /\ Script[i] = "lease" => i = 35
         /\ Script[i] = "finalize" => i = 36
<1>1. CASE i \in 1 .. 13
  <2>1. Script[i] = Final[i]
    BY <1>1, ScriptParts
  <2> QED
    BY <1>1, <2>1 DEF Final
<1>2. CASE i \in 14 .. 20
  <2>1. Script[i] = Bind[i - 13]
    BY <1>2, ScriptParts
  <2> QED
    BY <1>2, <2>1 DEF Bind
<1>3. CASE i \in 21 .. 29
  <2>1. Script[i] = Replay[i - 20]
    BY <1>3, ScriptParts
  <2> QED
    BY <1>3, <2>1 DEF Replay
<1>4. CASE i \in 30 .. 36
  <2>1. Script[i] = Seal[i - 29]
    BY <1>4, ScriptParts
  <2> QED
    BY <1>4, <2>1 DEF Seal
<1> QED
  BY <1>1, <1>2, <1>3, <1>4


\* The step a run is at has one of its numbers.
LEMMA PartsOfSteps ==
  ASSUME Typed, NEW r \in Runs
  PROVE  /\ run[r] \in RunType
         /\ InFinal(r) <=> run[r].step <= 13
         /\ InReplay(r) <=> run[r].step \in 21 .. 29
         /\ InSeal(r) <=> run[r].step > 29
<1>1. run[r] \in RunType /\ run[r].step \in 1 .. 36
  BY DEF Typed, RunType
<1>2. /\ InFinal(r) <=> run[r].step <= 13
      /\ InReplay(r) <=> run[r].step > 20 /\ run[r].step <= 29
      /\ InSeal(r) <=> run[r].step > 29
  <2> HIDE DEF Typed
  <2> QED
    BY ScriptParts, Zenon DEF InFinal, InReplay, InSeal
<1> QED
  BY <1>1, <1>2

-----------------------------------------------------------------------------
(* Frames *)

Kept(r) == \A q \in Runs : q # r => run'[q] = run[q]

LEMMA ModeMoves ==
  ASSUME Typed, NEW r \in Runs, NEW m \in Modes, Mode(r, m)
  PROVE  /\ run' \in [Runs -> RunType] /\ Kept(r)
         /\ run'[r].mode = m /\ run'[r].step = run[r].step
<1>1. run \in [Runs -> RunType] /\ run[r] \in RunType
  BY DEF Typed
<1>2. run' = [run EXCEPT ![r] = [run[r] EXCEPT !.mode = m]]
  BY DEF Mode
<1>3. /\ [run[r] EXCEPT !.mode = m] \in RunType
      /\ [run[r] EXCEPT !.mode = m].mode = m /\ [run[r] EXCEPT !.mode = m].step = run[r].step
  BY <1>1 DEF RunType
<1> QED
  BY <1>1, <1>2, <1>3 DEF Kept

\* A run that ends stays in the phase it was in.
LEMMA EndMoves ==
  ASSUME Typed, NEW r \in Runs, NEW m \in Modes, End(r, m)
  PROVE  /\ run' \in [Runs -> RunType] /\ Kept(r) /\ run'[r].mode = m
         /\ run[r].step \in 1 .. 36 /\ run'[r].step \in 1 .. 36
         /\ run'[r].step <= 13 <=> run[r].step <= 13
         /\ run'[r].step <= 29 <=> run[r].step <= 29
<1>1. run \in [Runs -> RunType] /\ run[r].step \in 1 .. 36
  BY DEF Typed, RunType
<1>2. PhaseOf(r) = IF run[r].step <= 13 THEN 1 ELSE IF run[r].step > 29 THEN 30 ELSE 14
  BY <1>1, ScriptParts DEF PhaseOf, InFinal, InSeal
<1>3. [mode |-> m, step |-> PhaseOf(r)] \in RunType
  BY <1>2 DEF RunType
<1> QED
  BY <1>1, <1>2, <1>3 DEF End, Kept

LEMMA StepMoves ==
  ASSUME Typed, NEW r \in Runs, run[r].step < 36, Advance(r)
  PROVE  /\ run' \in [Runs -> RunType] /\ Kept(r)
         /\ run'[r].mode = run[r].mode /\ run'[r].step = run[r].step + 1
<1>1. run \in [Runs -> RunType] /\ run[r] \in RunType
  BY DEF Typed
<1>2. run' = [run EXCEPT ![r] = [run[r] EXCEPT !.step = run[r].step + 1]]
  BY DEF Advance
<1>3. /\ [run[r] EXCEPT !.step = run[r].step + 1] \in RunType
      /\ [run[r] EXCEPT !.step = run[r].step + 1].mode = run[r].mode
      /\ [run[r] EXCEPT !.step = run[r].step + 1].step = run[r].step + 1
  BY <1>1 DEF RunType
<1> QED
  BY <1>1, <1>2, <1>3 DEF Kept

\* A run at a step is under way, and gives up where it is.
LEMMA AtStep ==
  ASSUME Typed, NEW r \in Runs, NEW s, At(r, s)
  PROVE  /\ run[r].mode = "on" /\ r \in Active
         /\ run[r].step \in 1 .. 36 /\ Script[run[r].step] = s
BY DEF Typed, RunType, At, Active

LEMMA CountsStay ==
  ASSUME Counted, UNCHANGED <<lockVars, overlaps, faultVars>>
  PROVE  Counted'
BY DEF Counted, Troubles, lockVars, faultVars

\* A step of a run that has not come to the receipts leaves them as they are.
LEMMA ReceiptsStay ==
  ASSUME IInv, NEW r \in Active, UNCHANGED <<receiptVars, overlaps>>,
         run' \in [Runs -> RunType], Kept(r),
         run[r].step <= 29, run'[r].step <= 30,
         run'[r].mode = "on" \/ (run'[r].mode \in {"failing", "failed", "stuck"} /\ run'[r].step <= 29),
         run'[r].mode = "on" => run[r].mode = "on"
  PROVE  /\ Leased' /\ Receipts' /\ OneAtATime'
         /\ ReceiptsAreTheirOwn' /\ ReceiptIsSettled' /\ PriorIsRecoverable'
<1>1. r \in Runs /\ Active' \subseteq Active /\ Active \subseteq Runs
  BY DEF Active, Kept
<1>2. /\ dest' = dest /\ prior' = prior /\ backup' = backup /\ recovery' = recovery
      /\ leases' = leases /\ sealed' = sealed /\ overlaps' = overlaps /\ (Alone' <=> Alone)
  BY DEF receiptVars, Alone
<1>3. leases \subseteq Runs /\ run \in [Runs -> RunType] /\ run[r] \in RunType /\ run'[r] \in RunType
  BY <1>1 DEF IInv, Typed
<1>4. Leased'
  BY <1>1, <1>2, <1>3 DEF IInv, Leased, Kept, Own, RunType
<1>5. Receipts'
  BY <1>1, <1>2, <1>3 DEF IInv, Receipts, Kept, RunType
<1>6. OneAtATime'
  BY <1>1, <1>2 DEF IInv, OneAtATime
<1>7. ReceiptsAreTheirOwn'
  BY <1>1, <1>2, <1>3 DEF IInv, ReceiptsAreTheirOwn, ReceiptIsItsOwn, Kept, RunType
<1>8. PriorIsRecoverable'
  BY <1>1, <1>2 DEF IInv, PriorIsRecoverable
<1>9. ReceiptIsSettled'
  <2>1. KilledSealing => KilledSealing'
    BY <1>1, <1>3 DEF KilledSealing, Kept, Active
  <2>2. SUFFICES ASSUME Alone, ~KilledSealing
                 PROVE  /\ Active' = {} => Undisturbed'
                        /\ \A q \in Active' :
                             /\ Replacing(q)'
                             /\ run'[q].step <= 29 \/ (run'[q].mode = "on" /\ run'[q].step <= 32) => Undisturbed'
    BY <1>2, <2>1 DEF ReceiptIsSettled
  <2>3. Undisturbed /\ (Undisturbed' <=> Undisturbed)
    BY <1>2, <2>2 DEF IInv, ReceiptIsSettled, Undisturbed
  <2>4. \A q \in Active' : Replacing(q)' <=> Replacing(q)
    BY <1>2 DEF Replacing, Undisturbed
  <2> QED
    BY <1>1, <2>2, <2>3, <2>4 DEF IInv, ReceiptIsSettled
<1> QED
  BY <1>4, <1>5, <1>6, <1>7, <1>8, <1>9

\* A step of a run at the receipts leaves the tree as it is.
LEMMA TreeStays ==
  ASSUME IInv, NEW r \in Active, UNCHANGED <<treeVars, overlaps>>,
         run' \in [Runs -> RunType], Kept(r),
         run[r].step > 29, run'[r].step > 29,
         run'[r].mode \in {"on", "failing", "undoing", "failed", "stuck", "done"},
         run'[r].mode = "on" => run[r].mode = "on" /\ run[r].step \notin HeldSteps,
         sealed' = sealed \/ (run[r].mode = "on" /\ run'[r].mode = "done" /\ sealed' = r)
  PROVE  /\ Handles' /\ Promotions' /\ OneAtATime'
         /\ SealedIsBacked' /\ FailureLeavesNoTrace' /\ TreesAreTheirOwn'
<1>1. r \in Runs /\ Active' \subseteq Active /\ Active \subseteq Runs /\ \A q \in Active : q # r => q \in Active'
  BY DEF Active, Kept
<1>2. /\ tree' = tree /\ known' = known /\ saved' = saved /\ holds' = holds
      /\ overlaps' = overlaps /\ (Alone' <=> Alone)
  BY DEF treeVars, Alone
<1>3. /\ run \in [Runs -> RunType] /\ run[r] \in RunType /\ run'[r] \in RunType
      /\ run[r].step \notin HeldSteps /\ run'[r].step \notin HeldSteps
      /\ run[r].step \notin SavedSteps /\ run'[r].step \notin SavedSteps
      /\ run[r].step \in Nat /\ run'[r].step \in Nat
  BY <1>1 DEF IInv, Typed, RunType, HeldSteps, SavedSteps
<1>4. Handles'
  <2>1. r \notin holds /\ saved[r] = "none"
    BY <1>1, <1>3 DEF IInv, Handles
  <2> QED
    BY <1>1, <1>2, <1>3, <2>1 DEF IInv, Handles, Kept
<1>5. Promotions'
  BY <1>1, <1>2, <1>3 DEF IInv, Promotions, Kept
<1>6. OneAtATime'
  BY <1>1, <1>2 DEF IInv, OneAtATime
<1>7. Alone /\ run[r].mode = "on" => tree.by # 0
  BY <1>1, <1>3 DEF IInv, TreesAreTheirOwn, TreeIsItsOwn
<1>8. SealedIsBacked'
  BY <1>2, <1>7 DEF IInv, SealedIsBacked
<1>9. FailureLeavesNoTrace'
  <2>1. \A q \in Runs : run'[q].mode = "failed" /\ run'[q].step <= 13 => q # r
    BY <1>3
  <2> QED
    BY <1>2, <2>1, FinalEnds DEF IInv, FailureLeavesNoTrace, InFinal, Kept
<1>10. TreesAreTheirOwn'
  <2> SUFFICES ASSUME Alone, NEW q \in Active' PROVE TreeIsItsOwn(q)'
    BY <1>2 DEF TreesAreTheirOwn
  <2>1. q = r /\ run'[r].mode # "done"
    BY <1>1 DEF IInv, OneAtATime, Active
  <2> QED
    BY <1>2, <1>3, <1>7, <2>1 DEF TreeIsItsOwn
<1> QED
  BY <1>4, <1>5, <1>6, <1>8, <1>9, <1>10

-----------------------------------------------------------------------------
(* The beginning *)

LEMMA InitHolds == Init => IInv
<1> SUFFICES ASSUME Init PROVE IInv
  OBVIOUS
<1>1. MaxRuns \in Nat /\ MaxTroubles \in Nat
  BY ModelAssumption
<1>2. Active = {}
  BY DEF Init, Active
<1>3. Typed
  BY <1>1 DEF Init, Typed, RunType, Modes, NoTree, NoFile, Files
<1>4. Counted
  BY <1>1 DEF Init, Counted, Troubles
<1>5. Handles /\ Leased /\ Promotions /\ Receipts
  BY <1>1, <1>2 DEF Init, Handles, Leased, Promotions, Receipts, NoTree, Runs
<1>6. OneAtATime /\ TreesAreTheirOwn /\ ReceiptsAreTheirOwn
  BY <1>2 DEF OneAtATime, TreesAreTheirOwn, ReceiptsAreTheirOwn
<1>7. SealedIsBacked /\ PriorIsRecoverable /\ FailureLeavesNoTrace
  BY <1>2 DEF Init, SealedIsBacked, PriorIsRecoverable, FailureLeavesNoTrace
<1>8. ReceiptIsSettled
  BY <1>2 DEF Init, ReceiptIsSettled, Undisturbed, NoFile
<1> QED
  BY <1>3, <1>4, <1>5, <1>6, <1>7, <1>8 DEF IInv

-----------------------------------------------------------------------------
(* The steps at the tree *)

Trees == [by : 0 .. MaxRuns, strange : {"none", "model", "runtime"}, access : {"open", "denied"}]

\* A step that leaves the generation where it is, and says what the run has in hand
\* after it.
LEMMA AtTheTree ==
  ASSUME IInv, NEW r \in Active, run[r].step <= 29,
         UNCHANGED <<lockVars, known, receiptVars, overlaps, faultVars>>,
         tree' \in Trees, tree'.by = tree.by, saved' \in [Runs -> {"none", "open", "denied"}], holds' \subseteq Runs,
         run' \in [Runs -> RunType], Kept(r),
         \/ run'[r].mode = "failing" /\ run'[r].step = run[r].step
         \/ /\ run[r].mode = "on" /\ run'[r].mode = "on"
            /\ run'[r].step >= run[r].step /\ run'[r].step <= 30
            /\ run'[r].step > 4 => run[r].step > 4 \/ tree.by # 0
            /\ run'[r].step \in 24 .. 27 => tree'.access = "denied" \/ (run[r].step \in 24 .. 27 /\ tree' = tree)
            /\ run'[r].step = 25 => Intact',
         Handles'
  PROVE  IInv'
<1>1. r \in Runs /\ Active' = Active /\ Active \subseteq Runs
  BY DEF Active, Kept
<1>2. /\ index' = index /\ known' = known /\ sealed' = sealed /\ overlaps' = overlaps
      /\ dest' = dest /\ prior' = prior /\ backup' = backup /\ recovery' = recovery /\ leases' = leases
      /\ (Alone' <=> Alone)
  BY DEF lockVars, receiptVars, Alone
<1>3. /\ run \in [Runs -> RunType] /\ run[r] \in RunType /\ run'[r] \in RunType
      /\ run[r].step \in Nat /\ run'[r].step \in Nat
  BY <1>1 DEF IInv, Typed, RunType
<1>4. Typed'
  BY <1>2 DEF IInv, Typed, Trees
<1>5. Counted'
  BY CountsStay DEF IInv
<1>6. /\ Leased' /\ Receipts' /\ OneAtATime'
      /\ ReceiptsAreTheirOwn' /\ ReceiptIsSettled' /\ PriorIsRecoverable'
  BY <1>3, ReceiptsStay
<1>7. Promotions'
  BY <1>1, <1>2, <1>3 DEF IInv, Promotions, Kept, Active
<1>8. SealedIsBacked'
  BY <1>2 DEF IInv, SealedIsBacked
<1>9. FailureLeavesNoTrace'
  BY <1>2, FinalEnds DEF IInv, FailureLeavesNoTrace, InFinal, Kept
<1>10. TreesAreTheirOwn'
  <2> SUFFICES ASSUME Alone, NEW q \in Active PROVE TreeIsItsOwn(q)'
    BY <1>1, <1>2 DEF TreesAreTheirOwn
  <2>1. q = r /\ TreeIsItsOwn(r)
    BY <1>1 DEF IInv, OneAtATime, TreesAreTheirOwn
  <2> QED
    BY <1>2, <1>3, <2>1 DEF TreeIsItsOwn
<1> QED
  BY <1>4, <1>5, <1>6, <1>7, <1>8, <1>9, <1>10 DEF IInv

\* A step that only looks on.
LEMMA LookingOn ==
  ASSUME IInv, NEW r \in Runs, run[r].mode = "on",
         UNCHANGED <<lockVars, treeVars, receiptVars, overlaps, faultVars>>,
         run' \in [Runs -> RunType], Kept(r),
         \/ run'[r].mode = "failing" /\ run'[r].step = run[r].step
         \/ /\ run'[r].mode = "on" /\ run'[r].step >= run[r].step
            /\ run'[r].step > 4 => run[r].step > 4 \/ tree.by # 0
            /\ run'[r].step \in 24 .. 27 => run[r].step \in 24 .. 27
            /\ run'[r].step = 25 => Intact,
         run[r].step <= 29, run'[r].step <= 29,
         run'[r].step \in HeldSteps <=> run[r].step \in HeldSteps,
         run'[r].step \in SavedSteps <=> run[r].step \in SavedSteps
  PROVE  IInv'
<1>1. r \in Active /\ Active' = Active
  BY DEF Active, Kept
<1>2. /\ tree' = tree /\ known' = known /\ saved' = saved /\ holds' = holds
      /\ (Intact' <=> Intact)
  BY DEF treeVars, Intact, ModelIntact, RuntimeIntact
<1>3. /\ run[r].step \in Nat /\ run'[r].step \in Nat
      /\ tree \in Trees /\ saved \in [Runs -> {"none", "open", "denied"}] /\ holds \subseteq Runs
  <2>1. run \in [Runs -> RunType] /\ run[r] \in RunType /\ run'[r] \in RunType
    BY DEF IInv, Typed
  <2>2. run[r].step \in Nat /\ run'[r].step \in Nat
    BY <2>1 DEF RunType
  <2> QED
    BY <2>2 DEF IInv, Typed, Trees
<1>4. Handles'
  BY <1>1, <1>2, <1>3 DEF IInv, Handles, Kept
<1> QED
  BY <1>1, <1>2, <1>3, <1>4, AtTheTree

LEMMA FetchKeeps ==
  ASSUME IInv, NEW r \in Runs, Fetch(r)
  PROVE  IInv'
<1>1. Typed /\ At(r, "fetch")
  BY DEF IInv, Fetch
<1>2. run[r].mode = "on" /\ run[r].step = 1
  BY <1>1, AtStep, StepNumbers0
<1>3. /\ run' \in [Runs -> RunType] /\ Kept(r)
      /\ \/ run'[r].mode = "on" /\ run'[r].step = 2
         \/ run'[r].mode = "failing" /\ run'[r].step = 1
  BY <1>1, <1>2, ModeMoves, StepMoves DEF Fetch, Give, Modes
<1> QED
  BY <1>2, <1>3, LookingOn DEF Fetch, HeldSteps, SavedSteps

LEMMA InstallKeeps ==
  ASSUME IInv, NEW r \in Runs, Install(r)
  PROVE  IInv'
<1>1. Typed /\ At(r, "install") /\ (Advance(r) \/ Give(r))
  BY DEF IInv, Install
<1>2. run[r].mode = "on" /\ run[r].step = 2
  BY <1>1, AtStep, StepNumbers0
<1>3. /\ run' \in [Runs -> RunType] /\ Kept(r)
      /\ \/ run'[r].mode = "on" /\ run'[r].step = 3
         \/ run'[r].mode = "failing" /\ run'[r].step = 2
  BY <1>1, <1>2, ModeMoves, StepMoves DEF Give, Modes
<1> QED
  BY <1>2, <1>3, LookingOn DEF Install, HeldSteps, SavedSteps

LEMMA LookKeeps ==
  ASSUME IInv, NEW r \in Runs, Look(r)
  PROVE  IInv'
<1>1. Typed /\ At(r, "look")
  BY DEF IInv, Look
<1>2. run[r].mode = "on" /\ run[r].step = 3
  BY <1>1, AtStep, StepNumbers0
<1>3. CASE Give(r)
  <2>1. /\ run' \in [Runs -> RunType] /\ Kept(r)
        /\ run'[r].mode = "failing" /\ run'[r].step = 3
    BY <1>1, <1>2, <1>3, ModeMoves DEF Give, Modes
  <2> QED
    BY <1>2, <2>1, LookingOn DEF Look
<1>4. CASE run' = [run EXCEPT ![r].step = @ + (IF tree.by # 0 THEN 2 ELSE 1)]
  <2>1. /\ run' \in [Runs -> RunType] /\ Kept(r) /\ run'[r].mode = "on"
        /\ run'[r].step = IF tree.by # 0 THEN 5 ELSE 4
    BY <1>1, <1>2, <1>4 DEF Typed, RunType, Kept
  <2> QED
    BY <1>2, <2>1, LookingOn DEF Look, HeldSteps, SavedSteps
<1> QED
  BY <1>3, <1>4 DEF Look

LEMMA VerifyKeeps ==
  ASSUME IInv, NEW r \in Runs, Verify(r)
  PROVE  IInv'
<1>1. Typed /\ At(r, "verify") /\ (Give(r) \/ (Intact /\ Advance(r)))
  BY DEF IInv, Verify
<1>2. run[r].mode = "on" /\ run[r].step \in {6, 12, 17, 24, 26}
  BY <1>1, AtStep, StepNumbers1
<1>3. /\ run' \in [Runs -> RunType] /\ Kept(r)
      /\ \/ run'[r].mode = "on" /\ run'[r].step = run[r].step + 1 /\ Intact
         \/ run'[r].mode = "failing" /\ run'[r].step = run[r].step
  BY <1>1, <1>2, ModeMoves, StepMoves DEF Give, Modes
<1> QED
  BY <1>2, <1>3, LookingOn DEF Verify, HeldSteps, SavedSteps

LEMMA PipelineKeeps ==
  ASSUME IInv, NEW r \in Runs, Pipeline(r)
  PROVE  IInv'
<1>1. Typed /\ At(r, "use")
  BY DEF IInv, Pipeline
<1>2. run[r].mode = "on" /\ run[r].step \in {9, 25}
  BY <1>1, AtStep, StepNumbers2
<1>3. /\ run' \in [Runs -> RunType] /\ Kept(r)
      /\ \/ run'[r].mode = "on" /\ run'[r].step = run[r].step + 1
         \/ run'[r].mode = "failing" /\ run'[r].step = run[r].step
  BY <1>1, <1>2, ModeMoves, StepMoves DEF Pipeline, Give, Modes
<1> QED
  BY <1>2, <1>3, LookingOn DEF Pipeline, HeldSteps, SavedSteps

LEMMA HoldKeeps ==
  ASSUME IInv, NEW r \in Runs, Hold(r)
  PROVE  IInv'
<1>1. Typed /\ At(r, "hold")
  BY DEF IInv, Hold
<1>2. run[r].mode = "on" /\ run[r].step \in {5, 14, 21} /\ r \in Active
  BY <1>1, AtStep, StepNumbers1
<1>3. /\ tree' = tree /\ saved' = saved /\ tree \in Trees
      /\ UNCHANGED <<lockVars, known, receiptVars, overlaps, faultVars>>
      /\ saved \in [Runs -> {"none", "open", "denied"}]
  BY <1>1 DEF Hold, Typed, Trees
<1>4. CASE tree.by # 0 /\ holds' = holds \cup {r} /\ Advance(r)
  <2>1. /\ run' \in [Runs -> RunType] /\ Kept(r)
        /\ run'[r].mode = "on" /\ run'[r].step = run[r].step + 1
    BY <1>1, <1>2, <1>4, StepMoves
  <2>2. Active' = Active /\ holds' \subseteq Runs /\ holds \subseteq Runs
    BY <1>1, <1>2, <1>4, <2>1 DEF Active, Kept, Typed
  <2>3. Handles'
    BY <1>2, <1>3, <1>4, <2>1, <2>2 DEF IInv, Handles, Kept, HeldSteps, SavedSteps
  <2> QED
    BY <1>2, <1>3, <1>4, <2>1, <2>2, <2>3, AtTheTree
<1>5. CASE Give(r) /\ UNCHANGED holds
  <2>1. /\ run' \in [Runs -> RunType] /\ Kept(r)
        /\ run'[r].mode = "failing" /\ run'[r].step = run[r].step
    BY <1>1, <1>2, <1>5, ModeMoves DEF Give, Modes
  <2> QED
    BY <1>2, <1>3, <1>5, <2>1, LookingOn DEF treeVars
<1> QED
  BY <1>4, <1>5 DEF Hold

LEMMA ReadAccessKeeps ==
  ASSUME IInv, NEW r \in Runs, ReadAccess(r)
  PROVE  IInv'
<1>0. Typed /\ At(r, "read")
  BY DEF IInv, ReadAccess
<1>2. run[r].mode = "on" /\ run[r].step \in {7, 15, 22} /\ r \in Active
  BY <1>0, AtStep, StepNumbers1
<1>a. CASE Give(r) /\ UNCHANGED saved
  <2>1. /\ run' \in [Runs -> RunType] /\ Kept(r)
        /\ run'[r].mode = "failing" /\ run'[r].step = run[r].step
    BY <1>0, <1>2, <1>a, ModeMoves DEF Give, Modes
  <2>2. UNCHANGED <<lockVars, treeVars, receiptVars, overlaps, faultVars>>
    BY <1>a DEF ReadAccess, treeVars
  <2> QED
    BY <1>2, <2>1, <2>2, LookingOn
<1> SUFFICES ASSUME Advance(r), saved' = [saved EXCEPT ![r] = tree.access] PROVE IInv'
  BY <1>a DEF ReadAccess
<1>1. Typed /\ At(r, "read") /\ Advance(r)
  BY <1>0
<1>3. /\ run' \in [Runs -> RunType] /\ Kept(r)
      /\ run'[r].mode = "on" /\ run'[r].step = run[r].step + 1
  BY <1>1, <1>2, StepMoves
<1>4. /\ tree' = tree /\ tree \in Trees /\ holds' = holds /\ holds \subseteq Runs
      /\ saved' = [saved EXCEPT ![r] = tree.access] /\ saved \in [Runs -> {"none", "open", "denied"}]
      /\ UNCHANGED <<lockVars, known, receiptVars, overlaps, faultVars>>
  BY <1>1 DEF ReadAccess, Typed, Trees
<1>5. /\ saved' \in [Runs -> {"none", "open", "denied"}] /\ saved'[r] # "none"
      /\ \A q \in Runs : q # r => saved'[q] = saved[q]
  BY <1>4 DEF Trees
<1>6. Active' = Active /\ r \in holds
  BY <1>2, <1>3 DEF Active, Kept, IInv, Handles, HeldSteps
<1>7. Handles'
  BY <1>2, <1>3, <1>4, <1>5, <1>6 DEF IInv, Handles, Kept, HeldSteps, SavedSteps
<1> QED
  BY <1>2, <1>3, <1>4, <1>5, <1>7, AtTheTree

LEMMA DenyKeeps ==
  ASSUME IInv, NEW r \in Runs, Deny(r)
  PROVE  IInv'
<1>1. Typed /\ At(r, "deny") /\ (Give(r) \/ (Advance(r) /\ tree' = Denied))
  BY DEF IInv, Deny
<1>2. run[r].mode = "on" /\ run[r].step \in {8, 16, 23} /\ r \in Active
  BY <1>1, AtStep, StepNumbers1
<1>3. /\ run' \in [Runs -> RunType] /\ Kept(r)
      /\ \/ run'[r].mode = "on" /\ run'[r].step = run[r].step + 1 /\ tree' = Denied
         \/ run'[r].mode = "failing" /\ run'[r].step = run[r].step
  BY <1>1, <1>2, StepMoves, ModeMoves DEF Give, Modes
<1>4. /\ tree' \in Trees /\ tree'.by = tree.by /\ (tree' = Denied => tree'.access = "denied")
      /\ holds' = holds /\ holds \subseteq Runs
      /\ saved' = saved /\ saved \in [Runs -> {"none", "open", "denied"}]
      /\ UNCHANGED <<lockVars, known, receiptVars, overlaps, faultVars>>
  BY <1>1 DEF Deny, Denied, Typed, Trees
<1>5. Active' = Active
  BY <1>2, <1>3 DEF Active, Kept
<1>6. Handles'
  BY <1>2, <1>3, <1>4, <1>5 DEF IInv, Handles, Kept, HeldSteps, SavedSteps
<1> QED
  BY <1>2, <1>3, <1>4, <1>6, AtTheTree

LEMMA RestoreKeeps ==
  ASSUME IInv, NEW r \in Runs, Restore(r)
  PROVE  IInv'
<1>1. Typed /\ At(r, "restore")
  BY DEF IInv, Restore
<1>2. run[r].mode = "on" /\ run[r].step \in {10, 18, 27} /\ r \in Active
  BY <1>1, AtStep, StepNumbers2
<1>3. /\ run' \in [Runs -> RunType] /\ Kept(r)
      /\ \/ run'[r].mode = "on" /\ run'[r].step = run[r].step + 1 /\ saved' = saved
         \/ run'[r].mode = "failing" /\ run'[r].step = run[r].step /\ saved' = [saved EXCEPT ![r] = "none"]
  BY <1>1, <1>2, StepMoves, ModeMoves DEF Restore, Give, Modes
<1>4. saved[r] \in {"open", "denied"}
  BY <1>1, <1>2 DEF IInv, Handles, Typed, SavedSteps
<1>5. /\ tree' \in Trees /\ tree'.by = tree.by
      /\ holds' = holds /\ holds \subseteq Runs
      /\ saved \in [Runs -> {"none", "open", "denied"}] /\ saved' \in [Runs -> {"none", "open", "denied"}]
      /\ UNCHANGED <<lockVars, known, receiptVars, overlaps, faultVars>>
  BY <1>1, <1>4 DEF Restore, Restored, Typed, Trees
<1>6. Active' = Active
  BY <1>2, <1>3 DEF Active, Kept
<1>7. Handles'
  BY <1>2, <1>3, <1>5, <1>6 DEF IInv, Handles, Kept, HeldSteps, SavedSteps
<1> QED
  BY <1>2, <1>3, <1>5, <1>7, AtTheTree

LEMMA CheckKeeps ==
  ASSUME IInv, NEW r \in Runs, Check(r)
  PROVE  IInv'
<1>1. Typed /\ At(r, "check") /\ (Advance(r) \/ Give(r))
  BY DEF IInv, Check
<1>2. run[r].mode = "on" /\ run[r].step \in {11, 19, 28} /\ r \in Active
  BY <1>1, AtStep, StepNumbers2
<1>3. /\ run' \in [Runs -> RunType] /\ Kept(r)
      /\ \/ run'[r].mode = "on" /\ run'[r].step = run[r].step + 1
         \/ run'[r].mode = "failing" /\ run'[r].step = run[r].step
  BY <1>1, <1>2, StepMoves, ModeMoves DEF Give, Modes
<1>4. /\ tree' = tree /\ tree \in Trees /\ holds' = holds /\ holds \subseteq Runs
      /\ saved' \in [Runs -> {"none", "open", "denied"}] /\ saved'[r] = "none"
      /\ \A q \in Runs : q # r => saved'[q] = saved[q]
      /\ UNCHANGED <<lockVars, known, receiptVars, overlaps, faultVars>>
  BY <1>1 DEF Check, Typed, Trees
<1>5. Active' = Active
  BY <1>2, <1>3 DEF Active, Kept
<1>6. Handles'
  BY <1>2, <1>3, <1>4, <1>5 DEF IInv, Handles, Kept, HeldSteps, SavedSteps
<1> QED
  BY <1>2, <1>3, <1>4, <1>6, AtTheTree

LEMMA ReleaseKeeps ==
  ASSUME IInv, NEW r \in Runs, Release(r)
  PROVE  IInv'
<1>1. Typed /\ At(r, "release") /\ (Advance(r) \/ Give(r))
  BY DEF IInv, Release
<1>2. run[r].mode = "on" /\ run[r].step \in {13, 20, 29} /\ r \in Active
  BY <1>1, AtStep, StepNumbers2
<1>3. /\ run' \in [Runs -> RunType] /\ Kept(r)
      /\ \/ run'[r].mode = "on" /\ run'[r].step = run[r].step + 1
         \/ run'[r].mode = "failing" /\ run'[r].step = run[r].step
  BY <1>1, <1>2, StepMoves, ModeMoves DEF Give, Modes
<1>4. /\ tree' = tree /\ tree \in Trees /\ holds' = holds \ {r} /\ holds \subseteq Runs
      /\ saved' = saved /\ saved \in [Runs -> {"none", "open", "denied"}]
      /\ UNCHANGED <<lockVars, known, receiptVars, overlaps, faultVars>>
  BY <1>1 DEF Release, Typed, Trees
<1>5. Active' = Active
  BY <1>2, <1>3 DEF Active, Kept
<1>6. Handles'
  BY <1>2, <1>3, <1>4, <1>5 DEF IInv, Handles, Kept, HeldSteps, SavedSteps
<1> QED
  BY <1>2, <1>3, <1>4, <1>6, AtTheTree

LEMMA UnwindKeeps ==
  ASSUME IInv, NEW r \in Runs, Unwind(r)
  PROVE  IInv'
<1>1. Typed /\ run[r].mode = "failing" /\ run' = run /\ r \in Active /\ Active' = Active
  BY DEF IInv, Unwind, Active
<1>2. r \in holds /\ run[r].step <= 29 /\ run \in [Runs -> RunType] /\ run[r].step \in Nat
  BY <1>1 DEF Unwind, IInv, Handles, HeldSteps, Typed, RunType
<1>3. /\ tree' \in Trees /\ tree'.by = tree.by /\ holds' = holds \ {r} /\ holds \subseteq Runs
      /\ saved' \in [Runs -> {"none", "open", "denied"}] /\ saved'[r] = "none"
      /\ \A q \in Runs : q # r => saved'[q] = saved[q]
      /\ UNCHANGED <<lockVars, known, receiptVars, overlaps, faultVars>>
  BY <1>1 DEF Unwind, Restored, Typed, Trees
<1>4. Handles'
  BY <1>1, <1>2, <1>3 DEF IInv, Handles
<1> QED
  BY <1>1, <1>2, <1>3, <1>4, AtTheTree DEF Kept

\* Nothing is there when a run promotes, so nothing was sealed by runs one at a time.
LEMMA PromoteKeeps ==
  ASSUME IInv, NEW r \in Runs, Promote(r)
  PROVE  IInv'
<1>1. Typed /\ At(r, "promote")
  BY DEF IInv, Promote
<1>2. run[r].mode = "on" /\ run[r].step = 4 /\ r \in Active
  BY <1>1, AtStep, StepNumbers0
<1>3. CASE Give(r) /\ UNCHANGED <<tree, known>>
  <2>1. /\ run' \in [Runs -> RunType] /\ Kept(r)
        /\ run'[r].mode = "failing" /\ run'[r].step = run[r].step
    BY <1>1, <1>2, <1>3, ModeMoves DEF Give, Modes
  <2>2. UNCHANGED <<lockVars, treeVars, receiptVars, overlaps, faultVars>>
    BY <1>3 DEF Promote, treeVars
  <2> QED
    BY <1>2, <2>1, <2>2, LookingOn
<1>4. CASE tree.by # 0 /\ Advance(r) /\ UNCHANGED <<tree, known>>
  <2>1. /\ run' \in [Runs -> RunType] /\ Kept(r)
        /\ run'[r].mode = "on" /\ run'[r].step = 5
    BY <1>1, <1>2, <1>4, StepMoves
  <2>2. UNCHANGED <<lockVars, treeVars, receiptVars, overlaps, faultVars>>
    BY <1>4 DEF Promote, treeVars
  <2> QED
    BY <1>2, <1>4, <2>1, <2>2, LookingOn DEF HeldSteps, SavedSteps
<1>5. CASE /\ tree.by = 0 /\ tree' = [NoTree EXCEPT !.by = r]
           /\ \/ known' = known \cup {r} /\ Advance(r)
              \/ UNCHANGED known /\ (Advance(r) \/ Give(r))
  <2>1. /\ run' \in [Runs -> RunType] /\ Kept(r)
        /\ \/ run'[r].mode = "on" /\ run'[r].step = 5
           \/ run'[r].mode = "failing" /\ run'[r].step = 4
    BY <1>1, <1>2, <1>5, StepMoves, ModeMoves DEF Give, Modes
  <2>0. known' \in {known, known \cup {r}}
    BY <1>5
  <2>2. /\ tree' \in Trees /\ tree'.by = r /\ r # 0
        /\ saved' = saved /\ holds' = holds
        /\ UNCHANGED <<lockVars, receiptVars, overlaps, faultVars>>
    BY <1>5, ModelAssumption DEF Promote, NoTree, Trees, Runs
  <2>3. /\ index' = index /\ sealed' = sealed /\ overlaps' = overlaps /\ (Alone' <=> Alone)
        /\ dest' = dest /\ prior' = prior /\ backup' = backup /\ recovery' = recovery /\ leases' = leases
    BY <2>2 DEF lockVars, receiptVars, Alone
  <2>4. Active' = Active
    BY <1>2, <2>1 DEF Active, Kept
  <2>5. Typed'
    BY <1>1, <2>0, <2>1, <2>2, <2>3 DEF Typed, Trees
  <2>6. Counted'
    BY <2>2, CountsStay DEF IInv
  <2>7. /\ Leased' /\ Receipts' /\ OneAtATime'
        /\ ReceiptsAreTheirOwn' /\ ReceiptIsSettled' /\ PriorIsRecoverable'
    BY <1>2, <2>1, <2>2, ReceiptsStay
  <2>8. Handles'
    BY <1>2, <2>1, <2>2, <2>4 DEF IInv, Handles, Kept, HeldSteps, SavedSteps
  <2>9. Promotions'
    BY <1>2, <2>1, <2>2 DEF IInv, Promotions, Kept
  <2>10. SealedIsBacked'
    BY <2>2 DEF SealedIsBacked
  <2>11. FailureLeavesNoTrace'
    BY <2>1, <2>2, FinalEnds DEF FailureLeavesNoTrace, InFinal, Kept
  <2>12. TreesAreTheirOwn'
    <3> SUFFICES ASSUME Alone, NEW q \in Active PROVE TreeIsItsOwn(q)'
      BY <2>3, <2>4 DEF TreesAreTheirOwn
    <3>1. q = r /\ sealed = 0
      BY <1>2, <1>5 DEF IInv, OneAtATime, SealedIsBacked
    <3> QED
      BY <2>1, <2>2, <2>3, <3>1 DEF TreeIsItsOwn
  <2> QED
    BY <2>5, <2>6, <2>7, <2>8, <2>9, <2>10, <2>11, <2>12 DEF IInv
<1> QED
  BY <1>3, <1>4, <1>5 DEF Promote

\* A run that takes back its generation leaves none; it is one that nobody sealed.
LEMMA RollbackKeeps ==
  ASSUME IInv, NEW r \in Runs, Rollback(r)
  PROVE  IInv'
<1>1. Typed /\ run[r].mode = "failing" /\ r \notin holds /\ saved[r] = "none" /\ r \in Active
  BY DEF IInv, Rollback, Unwound, Active
<1>2. run[r].step \in Nat /\ run[r].step <= 29 /\ (InFinal(r) <=> run[r].step <= 13)
  BY <1>1, PartsOfSteps DEF Rollback, RunType
<1>3. /\ run' \in [Runs -> RunType] /\ Kept(r)
      /\ run'[r].mode \in {"failed", "stuck"}
      /\ run'[r].step \in Nat /\ run'[r].step <= 29 /\ (run'[r].step <= 13 <=> run[r].step <= 13)
      /\ run'[r].mode = "failed" => \/ ~(InFinal(r) /\ TakenBack(r)) /\ tree' = tree
                                    \/ InFinal(r) /\ TakenBack(r) /\ holds = {} /\ tree' = NoTree
      /\ tree' = tree \/ (InFinal(r) /\ TakenBack(r) /\ holds = {} /\ tree' = NoTree)
  <2>1. PICK m \in {"failed", "stuck"} :
          /\ End(r, m)
          /\ m = "failed" => \/ ~(InFinal(r) /\ TakenBack(r)) /\ tree' = tree
                             \/ InFinal(r) /\ TakenBack(r) /\ holds = {} /\ tree' = NoTree
          /\ tree' = tree \/ (InFinal(r) /\ TakenBack(r) /\ holds = {} /\ tree' = NoTree)
    BY DEF Rollback
  <2>2. m \in Modes
    BY DEF Modes
  <2> QED
    BY <1>1, <1>2, <2>1, <2>2, EndMoves
<1>4. /\ saved' = saved /\ holds' = holds /\ known' = known
      /\ UNCHANGED <<lockVars, receiptVars, overlaps, faultVars>>
  BY DEF Rollback
<1>5. /\ index' = index /\ sealed' = sealed /\ overlaps' = overlaps /\ (Alone' <=> Alone)
      /\ dest' = dest /\ prior' = prior /\ backup' = backup /\ recovery' = recovery /\ leases' = leases
  BY <1>4 DEF lockVars, receiptVars, Alone
<1>6. /\ tree \in Trees /\ tree' \in Trees
      /\ tree' = tree \/ (run[r].step <= 13 /\ tree.by = r /\ holds = {} /\ tree' = NoTree /\ tree'.by = 0)
  <2>1. NoTree \in Trees /\ NoTree.by = 0
    BY ModelAssumption DEF Trees, NoTree
  <2>2. tree \in Trees
    BY <1>1 DEF Typed, Trees
  <2>3. tree' = tree \/ (run[r].step <= 13 /\ tree.by = r /\ holds = {} /\ tree' = NoTree)
    BY <1>2, <1>3 DEF TakenBack
  <2> QED
    BY <2>1, <2>2, <2>3
<1>7. Active' = Active \ {r} /\ Active \subseteq Runs
  BY <1>1, <1>3 DEF Active, Kept
<1>8. Typed'
  BY <1>1, <1>3, <1>4, <1>5, <1>6 DEF Typed, Trees
<1>9. Counted'
  BY <1>4, CountsStay DEF IInv
<1>10. /\ Leased' /\ Receipts' /\ OneAtATime'
       /\ ReceiptsAreTheirOwn' /\ ReceiptIsSettled' /\ PriorIsRecoverable'
  BY <1>1, <1>2, <1>3, <1>4, ReceiptsStay
<1>11. Handles'
  BY <1>1, <1>3, <1>4, <1>6, <1>7 DEF IInv, Handles, Kept
<1>12. Promotions'
  <2> SUFFICES ASSUME NEW q \in Runs, run'[q].mode = "new" \/ (run'[q].mode = "on" /\ run'[q].step <= 4)
               PROVE  tree'.by # q
    BY DEF Promotions
  <2>1. run'[q] = run[q] /\ q # 0
    BY <1>3, ModelAssumption DEF Kept, Runs
  <2> QED
    BY <1>6, <2>1 DEF IInv, Promotions
<1>13. SealedIsBacked'
  <2>1. Alone /\ run[r].step <= 13 /\ tree.by = r => sealed = 0
    BY <1>1 DEF IInv, TreesAreTheirOwn, TreeIsItsOwn
  <2> QED
    BY <1>5, <1>6, <2>1 DEF IInv, SealedIsBacked
<1>14. FailureLeavesNoTrace'
  <2>0. known' = known
    BY <1>4
  <2> SUFFICES ASSUME NEW q \in Runs, run'[q].mode = "failed", run'[q].step <= 13, tree'.by = q
               PROVE  q \notin known
    BY <2>0, FinalEnds, Zenon DEF FailureLeavesNoTrace, InFinal
  <2>1. q # 0
    BY ModelAssumption DEF Runs
  <2>2. CASE q # r
    <3>1. run'[q] = run[q] /\ tree = tree'
      BY <1>3, <1>6, <2>1, <2>2 DEF Kept
    <3> QED
      BY <3>1, FinalEnds DEF IInv, FailureLeavesNoTrace, InFinal
  <2>3. CASE q = r
    <3> SUFFICES ASSUME r \in known PROVE FALSE
      BY <2>3
    <3>1. InFinal(r) /\ (TakenBack(r) \/ tree' = tree)
      BY <1>2, <1>3, <2>3
    <3>2. tree' = NoTree
      BY <1>3, <1>6, <2>1, <2>3, <3>1 DEF TakenBack
    <3> QED
      BY <2>1, <2>3, <3>2 DEF NoTree
  <2> QED
    BY <2>2, <2>3
<1>15. TreesAreTheirOwn'
  BY <1>1, <1>5, <1>7 DEF IInv, OneAtATime, TreesAreTheirOwn
<1> QED
  BY <1>8, <1>9, <1>10, <1>11, <1>12, <1>13, <1>14, <1>15 DEF IInv

-----------------------------------------------------------------------------
(* The steps at the receipts *)

\* A step at the receipts: the frame, and what is left to show of it.
LEMMA AtTheReceipt ==
  ASSUME IInv, NEW r \in Active, run[r].step > 29, run'[r].step > 29,
         UNCHANGED <<lockVars, treeVars, overlaps, faultVars>>,
         run' \in [Runs -> RunType], Kept(r),
         run'[r].mode \in {"on", "failing", "undoing", "failed", "stuck", "done"},
         run'[r].mode = "on" => run[r].mode = "on",
         run[r].mode = "on" /\ run'[r].mode = "failing" => run'[r].step = run[r].step,
         dest' \in Files, prior' \in [Runs -> Files], backup' \in [Runs -> Files], recovery' \in [Runs -> Files],
         leases' \subseteq Runs,
         sealed' = sealed \/ (run[r].mode = "on" /\ run'[r].mode = "done" /\ sealed' = r),
         Leased', Receipts', PriorIsRecoverable', ReceiptsAreTheirOwn', ReceiptIsSettled'
  PROVE  IInv'
<1>1. r \in Runs
  BY DEF Active
<1>2. run \in [Runs -> RunType] /\ run[r].step \in Nat
  <2>1. run \in [Runs -> RunType] /\ run[r] \in RunType
    BY <1>1 DEF IInv, Typed
  <2> QED
    BY <2>1 DEF RunType
<1>3. run[r].step \notin HeldSteps
  BY <1>2 DEF HeldSteps
<1>4. /\ Handles' /\ Promotions' /\ OneAtATime'
      /\ SealedIsBacked' /\ FailureLeavesNoTrace' /\ TreesAreTheirOwn'
  BY <1>3, TreeStays
<1>5. Typed'
  BY <1>1, ModelAssumption DEF IInv, Typed, lockVars, treeVars, Runs
<1>6. Counted'
  BY CountsStay DEF IInv
<1> QED
  BY <1>4, <1>5, <1>6 DEF IInv

\* A step that only looks at the receipt, or fails.
LEMMA LookingAtReceipt ==
  ASSUME IInv, NEW r \in Runs, run[r].mode = "on", run[r].step > 29,
         UNCHANGED <<lockVars, treeVars, receiptVars, overlaps, faultVars>>,
         run' \in [Runs -> RunType], Kept(r),
         \/ run'[r].mode = "failing" /\ run'[r].step = run[r].step
         \/ /\ run'[r].mode = "on" /\ run'[r].step = run[r].step + 1
            /\ \/ run[r].step = 31 /\ dest = prior[r]
               \/ run[r].step = 32 /\ prior[r] = NoFile
               \/ run[r].step = 34
  PROVE  IInv'
<1>1. r \in Active /\ Active' = Active /\ Active \subseteq Runs
  BY DEF Active, Kept
<1>2. /\ dest' = dest /\ prior' = prior /\ backup' = backup /\ recovery' = recovery
      /\ leases' = leases /\ sealed' = sealed /\ overlaps' = overlaps /\ (Alone' <=> Alone)
  BY DEF receiptVars, Alone
<1>3. /\ run \in [Runs -> RunType] /\ run[r] \in RunType /\ run'[r] \in RunType
      /\ run[r].step \in Nat /\ run'[r].step \in Nat
  <2>1. run \in [Runs -> RunType] /\ run[r] \in RunType /\ run'[r] \in RunType
    BY DEF IInv, Typed
  <2> QED
    BY <2>1 DEF RunType
<1>4. /\ dest \in Files /\ prior \in [Runs -> Files] /\ backup \in [Runs -> Files]
      /\ recovery \in [Runs -> Files] /\ leases \subseteq Runs
  BY DEF IInv, Typed
<1>5. Leased'
  BY <1>2, <1>3, <1>4 DEF IInv, Leased, Own, Kept
<1>6. Receipts'
  BY <1>1, <1>2, <1>3 DEF IInv, Receipts, Kept
<1>7. PriorIsRecoverable'
  BY <1>2 DEF IInv, PriorIsRecoverable
<1>8. ReceiptsAreTheirOwn'
  <2> SUFFICES ASSUME Alone, NEW q \in Active PROVE ReceiptIsItsOwn(q)'
    BY <1>1, <1>2 DEF ReceiptsAreTheirOwn
  <2>1. q = r /\ ReceiptIsItsOwn(r)
    BY <1>1 DEF IInv, OneAtATime, ReceiptsAreTheirOwn
  <2> QED
    BY <1>2, <1>3, <2>1 DEF ReceiptIsItsOwn
<1>9. ReceiptIsSettled'
  <2>1. KilledSealing' <=> KilledSealing
    BY <1>1, <1>3 DEF KilledSealing, Kept
  <2>2. SUFFICES ASSUME Alone, ~KilledSealing, NEW q \in Active
                 PROVE  /\ Replacing(q)'
                        /\ run'[q].step <= 29 \/ (run'[q].mode = "on" /\ run'[q].step <= 32) => Undisturbed'
    BY <1>1, <1>2, <2>1 DEF ReceiptIsSettled
  <2>3. q = r /\ Replacing(r) /\ (run[r].step <= 32 => Undisturbed)
    BY <1>1, <2>2 DEF IInv, OneAtATime, ReceiptIsSettled
  <2>4. (Replacing(r)' <=> Replacing(r)) /\ (Undisturbed' <=> Undisturbed)
    BY <1>2 DEF Replacing, Undisturbed
  <2> QED
    BY <1>3, <2>3, <2>4
<1> QED
  BY <1>1, <1>2, <1>3, <1>4, <1>5, <1>6, <1>7, <1>8, <1>9, AtTheReceipt

LEMMA RecheckKeeps ==
  ASSUME IInv, NEW r \in Runs, Recheck(r)
  PROVE  IInv'
<1>1. Typed /\ At(r, "recheck") /\ (Give(r) \/ (dest = prior[r] /\ Advance(r)))
  BY DEF IInv, Recheck
<1>2. run[r].mode = "on" /\ run[r].step = 31
  BY <1>1, AtStep, StepNumbers3
<1>3. /\ run' \in [Runs -> RunType] /\ Kept(r)
      /\ \/ run'[r].mode = "on" /\ run'[r].step = 32 /\ dest = prior[r]
         \/ run'[r].mode = "failing" /\ run'[r].step = 31
  BY <1>1, <1>2, ModeMoves, StepMoves DEF Give, Modes
<1> QED
  BY <1>2, <1>3, LookingAtReceipt DEF Recheck

LEMMA ReopenKeeps ==
  ASSUME IInv, NEW r \in Runs, Reopen(r)
  PROVE  IInv'
<1>1. Typed /\ At(r, "reopen") /\ (Give(r) \/ Advance(r))
  BY DEF IInv, Reopen
<1>2. run[r].mode = "on" /\ run[r].step = 34
  BY <1>1, AtStep, StepNumbers4
<1>3. /\ run' \in [Runs -> RunType] /\ Kept(r)
      /\ \/ run'[r].mode = "on" /\ run'[r].step = 35
         \/ run'[r].mode = "failing" /\ run'[r].step = 34
  BY <1>1, <1>2, ModeMoves, StepMoves DEF Give, Modes
<1> QED
  BY <1>2, <1>3, LookingAtReceipt DEF Reopen

\* While runs do not overlap, only the run that steps has something to show of the
\* receipts.
LEMMA OnlyOneShows ==
  ASSUME IInv, NEW r \in Active, run' \in [Runs -> RunType], Kept(r), overlaps' = overlaps,
         run[r].step > 29, run'[r].step > 29,
         run'[r].mode \in {"on", "failing", "undoing", "failed", "stuck", "done"},
         Alone /\ run'[r].mode = "on" => ReceiptIsItsOwn(r)',
         Alone /\ ~KilledSealing =>
           /\ run'[r].mode \in {"on", "failing", "undoing"} => Replacing(r)'
           /\ run'[r].mode = "on" /\ run'[r].step <= 32 => Undisturbed'
           /\ run'[r].mode \in {"failed", "done"} => Undisturbed'
  PROVE  ReceiptsAreTheirOwn' /\ ReceiptIsSettled'
<1>1. r \in Runs /\ Active' \subseteq Active /\ Active \subseteq Runs /\ (Alone' <=> Alone)
      /\ run'[r] \in RunType
  BY DEF Active, Kept, Alone
<1>2. run'[r].step \in Nat
  BY <1>1 DEF RunType
<1>3. r \in Active' <=> run'[r].mode \in {"on", "failing", "undoing"}
  BY <1>1 DEF Active
<1>4. ASSUME Alone, NEW q \in Active' PROVE q = r
  BY <1>1, <1>4 DEF IInv, OneAtATime
<1>5. ReceiptsAreTheirOwn'
  BY <1>1, <1>3, <1>4 DEF ReceiptsAreTheirOwn, ReceiptIsItsOwn
<1>6. KilledSealing => KilledSealing'
  BY <1>1 DEF KilledSealing, Kept, Active
<1>7. run'[r].mode = "stuck" => KilledSealing'
  BY <1>1 DEF KilledSealing
<1>8. ReceiptIsSettled'
  <2>1. SUFFICES ASSUME Alone, ~KilledSealing, run'[r].mode # "stuck"
                 PROVE  /\ Active' = {} => Undisturbed'
                        /\ \A q \in Active' :
                             /\ Replacing(q)'
                             /\ run'[q].step <= 29 \/ (run'[q].mode = "on" /\ run'[q].step <= 32) => Undisturbed'
    BY <1>1, <1>6, <1>7 DEF ReceiptIsSettled
  <2>2. Active' = {} => Undisturbed'
    BY <1>3, <2>1
  <2>3. ASSUME NEW q \in Active'
        PROVE  /\ Replacing(q)'
               /\ run'[q].step <= 29 \/ (run'[q].mode = "on" /\ run'[q].step <= 32) => Undisturbed'
    <3>1. q = r
      BY <1>4, <2>1
    <3>2. Replacing(r)' /\ (run'[r].step <= 29 \/ (run'[r].mode = "on" /\ run'[r].step <= 32) => Undisturbed')
      BY <1>2, <1>3, <2>1, <2>3, <3>1
    <3> QED
      BY <3>1, <3>2 DEF Replacing
  <2> QED
    BY <2>2, <2>3
<1> QED
  BY <1>5, <1>8

LEMMA Receipt ==
  ASSUME NEW r \in Runs
  PROVE  Own(r) \in Files /\ Own(r).of = r /\ Own(r) # NoFile /\ r # 0 /\ NoFile \in Files /\ NoFile.of = 0
BY ModelAssumption DEF Own, Files, NoFile, Runs

\* What the run that steps knows of the receipts.
LEMMA OfTheRun ==
  ASSUME IInv, NEW r \in Active, Alone
  PROVE  /\ ReceiptIsItsOwn(r)
         /\ ~KilledSealing => /\ Replacing(r)
                              /\ run[r].mode = "on" /\ run[r].step <= 32 => Undisturbed
BY DEF IInv, ReceiptsAreTheirOwn, ReceiptIsSettled

LEMMA ReadPriorKeeps ==
  ASSUME IInv, NEW r \in Runs, ReadPrior(r)
  PROVE  IInv'
<1>1. Typed /\ At(r, "prior")
  BY DEF IInv, ReadPrior
<1>2. run[r].mode = "on" /\ run[r].step = 30 /\ r \in Active
  BY <1>1, AtStep, StepNumbers3
<1>3. CASE Give(r) /\ UNCHANGED <<prior, recovery>>
  <2>1. /\ run' \in [Runs -> RunType] /\ Kept(r)
        /\ run'[r].mode = "failing" /\ run'[r].step = run[r].step
    BY <1>1, <1>2, <1>3, ModeMoves DEF Give, Modes
  <2>2. UNCHANGED <<lockVars, treeVars, receiptVars, overlaps, faultVars>>
    BY <1>3 DEF ReadPrior, receiptVars
  <2> QED
    BY <1>2, <2>1, <2>2, LookingAtReceipt
<1>4. CASE /\ Advance(r) /\ prior' = [prior EXCEPT ![r] = dest]
           /\ recovery' = [recovery EXCEPT ![r] = CopyOfPrior(r)]
  <2>1. /\ run' \in [Runs -> RunType] /\ Kept(r)
        /\ run'[r].mode = "on" /\ run'[r].step = 31
    BY <1>1, <1>2, <1>4, StepMoves
  <2>2. /\ dest' = dest /\ backup' = backup /\ leases' = leases /\ sealed' = sealed
        /\ dest \in Files /\ backup \in [Runs -> Files] /\ leases \subseteq Runs
        /\ overlaps' = overlaps /\ (Alone' <=> Alone)
        /\ UNCHANGED <<lockVars, treeVars, overlaps, faultVars>>
    BY <1>1 DEF ReadPrior, Typed, Alone
  <2>3. CopyOfPrior(r) \in Files /\ CopyOfPrior(r).of = dest.of
    BY <2>2 DEF CopyOfPrior, Files, NoFile, Runs
  <2>4. /\ prior' \in [Runs -> Files] /\ prior'[r] = dest
        /\ recovery' \in [Runs -> Files] /\ recovery'[r].of = dest.of
        /\ \A q \in Runs : q # r => prior'[q] = prior[q] /\ recovery'[q] = recovery[q]
    BY <1>1, <1>4, <2>2, <2>3 DEF Typed
  <2>5. Active' = Active /\ Active \subseteq Runs
    BY <1>2, <2>1 DEF Active, Kept
  <2>6. recovery[r] = NoFile /\ backup[r] = NoFile
    BY <1>2 DEF IInv, Receipts
  <2>7. Leased'
    BY <1>2, <2>1, <2>2 DEF IInv, Leased, Own, Kept
  <2>8. Receipts'
    BY <1>2, <2>1, <2>2, <2>4, <2>5 DEF IInv, Receipts, Kept
  <2>9. PriorIsRecoverable'
    <3>1. ASSUME sealed # 0, NEW q \in Runs, recovery[q].of = sealed PROVE recovery'[q].of = sealed
      BY <2>4, <2>6, <3>1, Receipt
    <3> QED
      BY <2>2, <3>1 DEF IInv, PriorIsRecoverable
  <2>10. Alone => ReceiptIsItsOwn(r)'
    BY <2>1, <2>2, <2>4 DEF ReceiptIsItsOwn
  <2>11. Alone /\ ~KilledSealing => Replacing(r)' /\ Undisturbed'
    BY <1>2, <2>2, <2>6, OfTheRun DEF Replacing, Undisturbed
  <2>12. ReceiptsAreTheirOwn' /\ ReceiptIsSettled'
    BY <1>2, <2>1, <2>2, <2>10, <2>11, OnlyOneShows
  <2> QED
    BY <1>2, <2>1, <2>2, <2>4, <2>7, <2>8, <2>9, <2>12, AtTheReceipt
<1> QED
  BY <1>3, <1>4 DEF ReadPrior

LEMMA MoveAsideKeeps ==
  ASSUME IInv, NEW r \in Runs, MoveAside(r)
  PROVE  IInv'
<1>1. Typed /\ At(r, "aside")
  BY DEF IInv, MoveAside
<1>2. run[r].mode = "on" /\ run[r].step = 32 /\ r \in Active
  BY <1>1, AtStep, StepNumbers3
<1>3. CASE (Give(r) \/ (prior[r] = NoFile /\ Advance(r))) /\ UNCHANGED <<dest, backup>>
  <2>1. /\ run' \in [Runs -> RunType] /\ Kept(r)
        /\ \/ run'[r].mode = "failing" /\ run'[r].step = run[r].step
           \/ run'[r].mode = "on" /\ run'[r].step = run[r].step + 1 /\ prior[r] = NoFile
    BY <1>1, <1>2, <1>3, ModeMoves, StepMoves DEF Give, Modes
  <2>2. UNCHANGED <<lockVars, treeVars, receiptVars, overlaps, faultVars>>
    BY <1>3 DEF MoveAside, receiptVars
  <2> QED
    BY <1>2, <2>1, <2>2, LookingAtReceipt
<1>4. CASE /\ dest # NoFile /\ leases = {}
           /\ backup' = [backup EXCEPT ![r] = dest] /\ dest' = NoFile
           /\ Advance(r) \/ Give(r)
  <2>1. /\ run' \in [Runs -> RunType] /\ Kept(r)
        /\ \/ run'[r].mode = "on" /\ run'[r].step = 33
           \/ run'[r].mode = "failing" /\ run'[r].step = 32
    BY <1>1, <1>2, <1>4, ModeMoves, StepMoves DEF Give, Modes
  <2>2. /\ prior' = prior /\ recovery' = recovery /\ leases' = leases /\ sealed' = sealed
        /\ prior \in [Runs -> Files] /\ recovery \in [Runs -> Files] /\ leases \subseteq Runs
        /\ overlaps' = overlaps /\ (Alone' <=> Alone)
        /\ UNCHANGED <<lockVars, treeVars, overlaps, faultVars>>
    BY <1>1 DEF MoveAside, Typed, Alone
  <2>3. /\ dest' \in Files /\ dest' = NoFile
        /\ backup' \in [Runs -> Files] /\ backup'[r] = dest
        /\ \A q \in Runs : q # r => backup'[q] = backup[q]
    BY <1>1, <1>4, Receipt DEF Typed
  <2>4. Active' = Active /\ Active \subseteq Runs
    BY <1>2, <2>1 DEF Active, Kept
  <2>5. backup[r] = NoFile
    BY <1>2 DEF IInv, Receipts
  <2>6. Leased'
    BY <1>4, <2>2 DEF Leased
  <2>7. Receipts'
    BY <1>2, <2>1, <2>2, <2>3, <2>4 DEF IInv, Receipts, Kept
  <2>8. PriorIsRecoverable'
    <3>1. ASSUME sealed # 0, NEW q \in Runs, backup[q].of = sealed PROVE backup'[q].of = sealed
      BY <2>3, <2>5, <3>1, Receipt
    <3> QED
      BY <2>2, <2>3, <3>1 DEF IInv, PriorIsRecoverable
  <2>9. Alone => ReceiptIsItsOwn(r)'
    BY <2>1, <2>3 DEF ReceiptIsItsOwn
  <2>10. Alone /\ ~KilledSealing => Replacing(r)'
    <3> SUFFICES ASSUME Alone, ~KilledSealing PROVE Replacing(r)'
      OBVIOUS
    <3>1. recovery[r].of = dest.of /\ dest.of = sealed
      BY <1>2, OfTheRun DEF ReceiptIsItsOwn, Undisturbed
    <3> QED
      BY <1>4, <2>2, <2>3, <3>1 DEF Replacing
  <2>11. ReceiptsAreTheirOwn' /\ ReceiptIsSettled'
    BY <1>2, <2>1, <2>2, <2>9, <2>10, OnlyOneShows
  <2> QED
    BY <1>2, <2>1, <2>2, <2>3, <2>6, <2>7, <2>8, <2>11, AtTheReceipt
<1> QED
  BY <1>3, <1>4 DEF MoveAside

\* While runs do not overlap, nothing is at the place when a run puts its own there.
LEMMA InstallReceiptKeeps ==
  ASSUME IInv, NEW r \in Runs, InstallReceipt(r)
  PROVE  IInv'
<1>1. Typed /\ At(r, "place")
  BY DEF IInv, InstallReceipt
<1>2. run[r].mode = "on" /\ run[r].step = 33 /\ r \in Active
  BY <1>1, AtStep, StepNumbers3
<1>3. CASE Give(r) /\ UNCHANGED dest
  <2>1. /\ run' \in [Runs -> RunType] /\ Kept(r)
        /\ run'[r].mode = "failing" /\ run'[r].step = run[r].step
    BY <1>1, <1>2, <1>3, ModeMoves DEF Give, Modes
  <2>2. UNCHANGED <<lockVars, treeVars, receiptVars, overlaps, faultVars>>
    BY <1>3 DEF InstallReceipt, receiptVars
  <2> QED
    BY <1>2, <2>1, <2>2, LookingAtReceipt
<1>4. CASE leases = {} /\ Advance(r) /\ dest' = Own(r)
  <2>1. /\ run' \in [Runs -> RunType] /\ Kept(r)
        /\ run'[r].mode = "on" /\ run'[r].step = 34
    BY <1>1, <1>2, <1>4, StepMoves
  <2>2. /\ prior' = prior /\ backup' = backup /\ recovery' = recovery /\ leases' = leases /\ sealed' = sealed
        /\ prior \in [Runs -> Files] /\ backup \in [Runs -> Files] /\ recovery \in [Runs -> Files]
        /\ leases \subseteq Runs /\ dest' \in Files
        /\ overlaps' = overlaps /\ (Alone' <=> Alone)
        /\ UNCHANGED <<lockVars, treeVars, overlaps, faultVars>>
    BY <1>1, <1>4, Receipt DEF InstallReceipt, Typed, Alone
  <2>3. Active' = Active /\ Active \subseteq Runs
    BY <1>2, <2>1 DEF Active, Kept
  <2>4. Leased'
    BY <1>4, <2>2 DEF Leased
  <2>5. Receipts'
    BY <1>2, <2>1, <2>2, <2>3 DEF IInv, Receipts, Kept
  <2>6. Alone => dest = NoFile
    BY <1>2, OfTheRun DEF ReceiptIsItsOwn
  <2>7. PriorIsRecoverable'
    BY <2>2, <2>6, Receipt DEF IInv, PriorIsRecoverable
  <2>8. Alone => ReceiptIsItsOwn(r)'
    BY <2>1 DEF ReceiptIsItsOwn
  <2>9. Alone /\ ~KilledSealing => Replacing(r)'
    <3> SUFFICES ASSUME Alone, ~KilledSealing PROVE Replacing(r)'
      OBVIOUS
    <3>1. Replacing(r) /\ dest = NoFile
      BY <1>2, <2>6, OfTheRun
    <3> QED
      BY <1>4, <2>2, <3>1, Receipt DEF Replacing, Undisturbed
  <2>10. ReceiptsAreTheirOwn' /\ ReceiptIsSettled'
    BY <1>2, <2>1, <2>2, <2>8, <2>9, OnlyOneShows
  <2> QED
    BY <1>2, <2>1, <2>2, <2>4, <2>5, <2>7, <2>10, AtTheReceipt
<1> QED
  BY <1>3, <1>4 DEF InstallReceipt

LEMMA LeaseKeeps ==
  ASSUME IInv, NEW r \in Runs, Lease(r)
  PROVE  IInv'
<1>1. Typed /\ At(r, "lease")
  BY DEF IInv, Lease
<1>2. run[r].mode = "on" /\ run[r].step = 35 /\ r \in Active
  BY <1>1, AtStep, StepNumbers4
<1>3. CASE Give(r) /\ UNCHANGED leases
  <2>1. /\ run' \in [Runs -> RunType] /\ Kept(r)
        /\ run'[r].mode = "failing" /\ run'[r].step = run[r].step
    BY <1>1, <1>2, <1>3, ModeMoves DEF Give, Modes
  <2>2. UNCHANGED <<lockVars, treeVars, receiptVars, overlaps, faultVars>>
    BY <1>3 DEF Lease, receiptVars
  <2> QED
    BY <1>2, <2>1, <2>2, LookingAtReceipt
<1>4. CASE dest = Own(r) /\ Advance(r) /\ leases' = leases \cup {r}
  <2>1. /\ run' \in [Runs -> RunType] /\ Kept(r)
        /\ run'[r].mode = "on" /\ run'[r].step = 36
    BY <1>1, <1>2, <1>4, StepMoves
  <2>2. /\ dest' = dest /\ prior' = prior /\ backup' = backup /\ recovery' = recovery /\ sealed' = sealed
        /\ dest \in Files /\ prior \in [Runs -> Files] /\ backup \in [Runs -> Files] /\ recovery \in [Runs -> Files]
        /\ leases' \subseteq Runs
        /\ overlaps' = overlaps /\ (Alone' <=> Alone)
        /\ UNCHANGED <<lockVars, treeVars, overlaps, faultVars>>
    BY <1>1, <1>4 DEF Lease, Typed, Alone
  <2>3. Active' = Active /\ Active \subseteq Runs
    BY <1>2, <2>1 DEF Active, Kept
  <2>4. Leased'
    BY <1>1, <1>4, <2>1, <2>2 DEF IInv, Leased, Kept, Own, Typed
  <2>5. Receipts'
    BY <1>2, <2>1, <2>2, <2>3 DEF IInv, Receipts, Kept
  <2>6. PriorIsRecoverable'
    BY <2>2 DEF IInv, PriorIsRecoverable
  <2>7. Alone => ReceiptIsItsOwn(r)'
    BY <2>1 DEF ReceiptIsItsOwn
  <2>8. Alone /\ ~KilledSealing => Replacing(r)'
    BY <1>2, <2>2, OfTheRun DEF Replacing, Undisturbed
  <2>9. ReceiptsAreTheirOwn' /\ ReceiptIsSettled'
    BY <1>2, <2>1, <2>2, <2>7, <2>8, OnlyOneShows
  <2> QED
    BY <1>2, <2>1, <2>2, <2>4, <2>5, <2>6, <2>9, AtTheReceipt
<1> QED
  BY <1>3, <1>4 DEF Lease, Reads

\* The receipt that is finalized is at its place.
LEMMA FinalizeKeeps ==
  ASSUME IInv, NEW r \in Runs, Finalize(r)
  PROVE  IInv'
<1>1. Typed /\ At(r, "finalize")
  BY DEF IInv, Finalize
<1>2. run[r].mode = "on" /\ run[r].step = 36 /\ r \in Active
  BY <1>1, AtStep, StepNumbers4
<1>3. CASE Give(r) /\ UNCHANGED <<backup, recovery, leases, sealed>>
  <2>1. /\ run' \in [Runs -> RunType] /\ Kept(r)
        /\ run'[r].mode = "failing" /\ run'[r].step = run[r].step
    BY <1>1, <1>2, <1>3, ModeMoves DEF Give, Modes
  <2>2. UNCHANGED <<lockVars, treeVars, receiptVars, overlaps, faultVars>>
    BY <1>3 DEF Finalize, receiptVars
  <2> QED
    BY <1>2, <2>1, <2>2, LookingAtReceipt
<1>4. CASE /\ dest = Own(r) /\ Mode(r, "done") /\ sealed' = r /\ leases' = leases \ {r}
           /\ backup' = [backup EXCEPT ![r] = NoFile]
           /\ \E left \in {NoFile, recovery[r]} : recovery' = [recovery EXCEPT ![r] = left]
  <2>1. /\ run' \in [Runs -> RunType] /\ Kept(r)
        /\ run'[r].mode = "done" /\ run'[r].step = 36
    BY <1>1, <1>2, <1>4, ModeMoves DEF Modes
  <2>2. /\ dest' = dest /\ prior' = prior
        /\ dest \in Files /\ prior \in [Runs -> Files]
        /\ leases' \subseteq Runs
        /\ overlaps' = overlaps /\ (Alone' <=> Alone)
        /\ UNCHANGED <<lockVars, treeVars, overlaps, faultVars>>
    BY <1>1, <1>4 DEF Finalize, Typed, Alone
  <2>3. /\ backup' \in [Runs -> Files] /\ recovery' \in [Runs -> Files]
        /\ \A q \in Runs : q # r => backup'[q] = backup[q] /\ recovery'[q] = recovery[q]
    BY <1>1, <1>4, Receipt DEF Typed
  <2>4. Active' \subseteq Active /\ Active \subseteq Runs
    BY <1>2, <2>1 DEF Active, Kept
  <2>5. Leased'
    BY <1>1, <1>4, <2>1, <2>2 DEF IInv, Leased, Kept, Own, Typed
  <2>6. Receipts'
    <3>1. ASSUME NEW q \in Runs, run'[q].mode = "new" \/ q \in Active' PROVE q # r
      BY <2>1, <3>1 DEF Active
    <3> QED
      BY <1>4, <2>1, <2>3, <2>4, <3>1 DEF IInv, Receipts, Kept
  <2>7. Undisturbed'
    BY <1>4, <2>2, Receipt DEF Undisturbed
  <2>8. PriorIsRecoverable'
    BY <1>4, <2>2, Receipt DEF PriorIsRecoverable
  <2>9. ReceiptsAreTheirOwn' /\ ReceiptIsSettled'
    BY <1>2, <2>1, <2>2, <2>7, OnlyOneShows
  <2> QED
    BY <1>2, <1>4, <2>1, <2>2, <2>3, <2>5, <2>6, <2>8, <2>9, AtTheReceipt
<1> QED
  BY <1>3, <1>4 DEF Finalize, Reads

\* What goes is the run's own receipt, which was not finalized.
LEMMA UndoOwnKeeps ==
  ASSUME IInv, NEW r \in Runs, UndoOwn(r)
  PROVE  IInv'
<1>1. Typed /\ run[r].mode = "failing" /\ r \in Active
  BY DEF IInv, UndoOwn, Active
<1>2. run[r].step > 29 /\ run[r].step \in Nat
  BY <1>1, PartsOfSteps DEF UndoOwn, RunType
<1>3. /\ run' \in [Runs -> RunType] /\ Kept(r)
      /\ run'[r].mode = "undoing" /\ run'[r].step = run[r].step
  BY <1>1, ModeMoves DEF UndoOwn, Modes
<1>4. /\ prior' = prior /\ backup' = backup /\ recovery' = recovery /\ sealed' = sealed /\ leases' = leases \ {r}
      /\ prior \in [Runs -> Files] /\ backup \in [Runs -> Files] /\ recovery \in [Runs -> Files]
      /\ leases' \subseteq Runs
      /\ overlaps' = overlaps /\ (Alone' <=> Alone)
      /\ UNCHANGED <<lockVars, treeVars, overlaps, faultVars>>
  BY <1>1 DEF UndoOwn, Typed, Alone
<1>5. dest' = dest \/ (dest = Own(r) /\ leases \subseteq {r} /\ dest' = NoFile)
  BY DEF UndoOwn
<1>6. dest' \in Files
  BY <1>1, <1>5, Receipt DEF Typed
<1>7. Active' = Active /\ Active \subseteq Runs
  BY <1>1, <1>3 DEF Active, Kept
<1>8. Leased'
  <2>1. ASSUME NEW q \in leases, q # r
        PROVE  q \in Runs /\ dest' = dest /\ dest = Own(q) /\ run'[q] = run[q]
               /\ run[q].step = 36 /\ run[q].mode \in {"on", "failing"}
    BY <1>1, <1>3, <1>5, <2>1 DEF IInv, Leased, Kept, Typed
  <2> QED
    BY <1>4, <2>1 DEF Leased, Own
<1>9. Receipts'
  BY <1>1, <1>2, <1>3, <1>4, <1>7 DEF IInv, Receipts, Kept
<1>10. sealed # r
  BY <1>1 DEF IInv, Receipts
<1>11. PriorIsRecoverable'
  BY <1>4, <1>5, <1>10, Receipt DEF IInv, PriorIsRecoverable
<1>12. Alone /\ ~KilledSealing => Replacing(r)'
  BY <1>1, <1>4, <1>5, <1>10, OfTheRun, Receipt DEF Replacing, Undisturbed
<1>13. ReceiptsAreTheirOwn' /\ ReceiptIsSettled'
  BY <1>1, <1>2, <1>3, <1>4, <1>12, OnlyOneShows
<1> QED
  BY <1>1, <1>2, <1>3, <1>4, <1>6, <1>8, <1>9, <1>11, <1>13, AtTheReceipt

\* What comes back is the copy of the receipt that was finalized last.
LEMMA UndoPriorKeeps ==
  ASSUME IInv, NEW r \in Runs, UndoPrior(r)
  PROVE  IInv'
<1>1. Typed /\ run[r].mode = "undoing" /\ r \in Active
  BY DEF IInv, UndoPrior, Active
<1>2. run[r].step > 29 /\ run \in [Runs -> RunType]
  BY <1>1 DEF IInv, Receipts, Typed
<1>3. /\ prior' = prior /\ backup' = backup /\ leases' = leases /\ sealed' = sealed
      /\ prior \in [Runs -> Files] /\ backup \in [Runs -> Files]
      /\ recovery \in [Runs -> Files] /\ leases \subseteq Runs /\ dest \in Files
      /\ overlaps' = overlaps /\ (Alone' <=> Alone)
      /\ UNCHANGED <<lockVars, treeVars, overlaps, faultVars>>
  BY <1>1 DEF UndoPrior, Typed, Alone
<1>4. sealed # r /\ (Alone /\ ~KilledSealing => Replacing(r))
  BY <1>1, OfTheRun DEF IInv, Receipts
<1>5. r \notin leases
  BY <1>1 DEF IInv, Leased
<1>6. CASE /\ backup[r] # NoFile /\ dest = NoFile /\ End(r, "failed")
           /\ dest' = recovery[r] /\ recovery' = [recovery EXCEPT ![r] = NoFile]
  <2>1. /\ run' \in [Runs -> RunType] /\ Kept(r)
        /\ run'[r].mode = "failed" /\ run'[r].step \in 1 .. 36 /\ run'[r].step > 29
    BY <1>1, <1>2, <1>6, EndMoves DEF Modes
  <2>2. /\ dest' \in Files /\ recovery' \in [Runs -> Files]
        /\ \A q \in Runs : q # r => recovery'[q] = recovery[q]
    BY <1>3, <1>6, Receipt
  <2>3. Active' \subseteq Active /\ Active \subseteq Runs
    BY <1>1, <2>1 DEF Active, Kept
  <2>4. leases = {}
    BY <1>3, <1>6, Receipt DEF IInv, Leased
  <2>5. Leased'
    BY <1>3, <2>4 DEF Leased
  <2>6. Receipts'
    BY <1>1, <1>3, <2>1, <2>2, <2>3 DEF IInv, Receipts, Kept
  <2>7. PriorIsRecoverable'
    <3> SUFFICES ASSUME Alone, sealed # 0
                 PROVE  \E f \in {dest'} \cup {backup[q] : q \in Runs} \cup {recovery'[q] : q \in Runs} : f.of = sealed
      BY <1>3 DEF PriorIsRecoverable
    <3>1. PICK f \in {dest} \cup {backup[q] : q \in Runs} \cup {recovery[q] : q \in Runs} : f.of = sealed
      BY DEF IInv, PriorIsRecoverable
    <3>2. f # dest
      BY <1>6, <3>1, Receipt
    <3>3. CASE f \in {backup[q] : q \in Runs}
      BY <3>1, <3>3
    <3>4. ASSUME NEW q \in Runs, f = recovery[q]
          PROVE  f \in {dest'} \cup {recovery'[p] : p \in Runs}
      BY <1>6, <2>2, <3>4
    <3> QED
      BY <3>1, <3>2, <3>3, <3>4
  <2>8. Alone /\ ~KilledSealing => Undisturbed'
    <3> SUFFICES ASSUME Alone, ~KilledSealing PROVE Undisturbed'
      OBVIOUS
    <3>1. recovery[r].of = sealed
      BY <1>4, <1>6 DEF Replacing
    <3> QED
      BY <1>3, <1>6, <3>1 DEF Undisturbed
  <2>9. ReceiptsAreTheirOwn' /\ ReceiptIsSettled'
    BY <1>1, <1>2, <1>3, <2>1, <2>8, OnlyOneShows
  <2> QED
    BY <1>1, <1>2, <1>3, <2>1, <2>2, <2>5, <2>6, <2>7, <2>9, AtTheReceipt
<1>7. CASE /\ UNCHANGED <<dest, recovery>>
           /\ \/ End(r, "stuck")
              \/ backup[r] = NoFile /\ dest # Own(r) /\ End(r, "failed")
  <2>1. /\ run' \in [Runs -> RunType] /\ Kept(r)
        /\ \/ run'[r].mode = "stuck"
           \/ run'[r].mode = "failed" /\ backup[r] = NoFile /\ dest # Own(r)
        /\ run'[r].step \in 1 .. 36 /\ run'[r].step > 29
    BY <1>1, <1>2, <1>7, EndMoves DEF Modes
  <2>2. Active' \subseteq Active /\ Active \subseteq Runs
    BY <1>1, <2>1 DEF Active, Kept
  <2>3. Leased'
    <3>1. \A q \in leases : q \in Runs /\ q # r /\ run'[q] = run[q]
      BY <1>3, <1>5, <2>1 DEF Kept
    <3> QED
      BY <1>3, <1>7, <3>1 DEF IInv, Leased, Own
  <2>4. Receipts'
    BY <1>1, <1>3, <1>7, <2>1, <2>2 DEF IInv, Receipts, Kept
  <2>5. PriorIsRecoverable'
    BY <1>3, <1>7 DEF IInv, PriorIsRecoverable
  <2>6. Alone /\ ~KilledSealing /\ run'[r].mode = "failed" => Undisturbed'
    BY <1>3, <1>4, <1>7, <2>1 DEF Replacing, Undisturbed
  <2>7. ReceiptsAreTheirOwn' /\ ReceiptIsSettled'
    BY <1>1, <1>2, <1>3, <2>1, <2>6, OnlyOneShows
  <2> QED
    BY <1>1, <1>2, <1>3, <1>7, <2>1, <2>3, <2>4, <2>5, <2>7, AtTheReceipt
<1> QED
  BY <1>6, <1>7 DEF UndoPrior

-----------------------------------------------------------------------------
(* What happens to runs and to the tree *)

\* A step that concerns neither runs nor the tree nor the receipts.
LEMMA ElsewhereKeeps ==
  ASSUME IInv, UNCHANGED <<index, treeVars, run, receiptVars, overlaps>>, Counted'
  PROVE  IInv'
<1>1. /\ index' = index /\ tree' = tree /\ known' = known /\ saved' = saved /\ holds' = holds /\ run' = run
      /\ dest' = dest /\ prior' = prior /\ backup' = backup /\ recovery' = recovery
      /\ leases' = leases /\ sealed' = sealed /\ overlaps' = overlaps /\ (Alone' <=> Alone)
  BY DEF treeVars, receiptVars, Alone
<1>2. Active' = Active /\ (KilledSealing' <=> KilledSealing) /\ (Undisturbed' <=> Undisturbed)
  BY <1>1 DEF Active, KilledSealing, Undisturbed
<1>3. /\ Typed' /\ Handles' /\ Leased' /\ Promotions' /\ Receipts' /\ OneAtATime'
  BY <1>1, <1>2 DEF IInv, Typed, Handles, Leased, Promotions, Receipts, OneAtATime, Own
<1>4. SealedIsBacked' /\ FailureLeavesNoTrace' /\ PriorIsRecoverable'
  BY <1>1 DEF IInv, SealedIsBacked, FailureLeavesNoTrace, PriorIsRecoverable, InFinal
<1>5. \A r : /\ TreeIsItsOwn(r)' <=> TreeIsItsOwn(r)
             /\ ReceiptIsItsOwn(r)' <=> ReceiptIsItsOwn(r)
             /\ Replacing(r)' <=> Replacing(r)
  BY <1>1, <1>2 DEF TreeIsItsOwn, ReceiptIsItsOwn, Replacing, Intact, ModelIntact, RuntimeIntact, Own
<1>6. TreesAreTheirOwn' /\ ReceiptsAreTheirOwn' /\ ReceiptIsSettled'
  BY <1>1, <1>2, <1>5 DEF IInv, TreesAreTheirOwn, ReceiptsAreTheirOwn, ReceiptIsSettled
<1> QED
  BY <1>3, <1>4, <1>6 DEF IInv

LEMMA ReviewKeeps ==
  ASSUME IInv, Review
  PROVE  IInv'
<1>1. Counted'
  BY DEF IInv, Counted, Troubles, Review, faultVars
<1> QED
  BY <1>1, ElsewhereKeeps DEF Review

LEMMA EditKeeps ==
  ASSUME IInv, Edit
  PROVE  IInv'
<1>1. Counted'
  <2>1. /\ overlaps' = overlaps /\ kills' = kills /\ strays' = strays /\ loaded' = loaded
        /\ sources' = sources + 1 /\ Troubles < MaxTroubles
    BY DEF Edit, faultVars
  <2>2. 0 .. sources \subseteq 0 .. sources' /\ sources' \in Nat
    BY <2>1 DEF IInv, Counted
  <2>3. loaded' \in [Runs -> 0 .. sources']
    BY <2>1, <2>2 DEF IInv, Counted
  <2> QED
    BY <2>1, <2>2, <2>3, ModelAssumption DEF IInv, Counted, Troubles
<1> QED
  BY <1>1, ElsewhereKeeps DEF Edit

\* A strange file cannot come while the tree is closed.
LEMMA StrayKeeps ==
  ASSUME IInv, Stray
  PROVE  IInv'
<1>1. /\ tree' \in Trees /\ tree'.by = tree.by /\ tree'.access = tree.access
      /\ tree'.strange = "none" \/ tree.access = "open"
      /\ known' = known /\ saved' = saved /\ holds' = holds /\ run' = run
      /\ overlaps' = overlaps /\ (Alone' <=> Alone)
      /\ UNCHANGED <<lockVars, receiptVars, kills>>
      /\ (strays' = strays \/ (strays' = strays + 1 /\ Troubles < MaxTroubles))
  BY DEF IInv, Typed, Trees, Stray, Alone
<1>2. /\ index' = index /\ dest' = dest /\ prior' = prior /\ backup' = backup /\ recovery' = recovery
      /\ leases' = leases /\ sealed' = sealed /\ Active' = Active
  BY <1>1 DEF lockVars, receiptVars, Active
<1>3. Typed'
  BY <1>1, <1>2 DEF IInv, Typed, Trees
<1>4. Counted'
  BY <1>1, ModelAssumption DEF IInv, Counted, Troubles, lockVars
<1>5. Handles' /\ Promotions' /\ SealedIsBacked' /\ FailureLeavesNoTrace'
  BY <1>1, <1>2 DEF IInv, Handles, Promotions, SealedIsBacked, FailureLeavesNoTrace, InFinal
<1>6. Leased' /\ Receipts' /\ OneAtATime' /\ PriorIsRecoverable'
  BY <1>1, <1>2 DEF IInv, Leased, Receipts, OneAtATime, PriorIsRecoverable, Own
<1>7. TreesAreTheirOwn'
  <2> SUFFICES ASSUME Alone, NEW r \in Active PROVE TreeIsItsOwn(r)'
    BY <1>1, <1>2 DEF TreesAreTheirOwn
  <2>1. TreeIsItsOwn(r)
    BY DEF IInv, TreesAreTheirOwn
  <2>2. Intact /\ tree.access = "denied" => Intact'
    BY <1>1 DEF Intact, ModelIntact, RuntimeIntact
  <2> QED
    BY <1>1, <1>2, <2>1, <2>2 DEF TreeIsItsOwn
<1>8. ReceiptsAreTheirOwn'
  BY <1>1, <1>2 DEF IInv, ReceiptsAreTheirOwn, ReceiptIsItsOwn
<1>9. ReceiptIsSettled'
  BY <1>1, <1>2 DEF IInv, ReceiptIsSettled, KilledSealing, Undisturbed, Replacing, Own
<1> QED
  BY <1>3, <1>4, <1>5, <1>6, <1>7, <1>8, <1>9 DEF IInv

LEMMA KillKeeps ==
  ASSUME IInv, NEW r \in Runs, Kill(r)
  PROVE  IInv'
<1>1. Typed /\ r \in Active /\ run[r].mode \in {"on", "failing", "undoing"}
  BY DEF IInv, Kill, Active
<1>2. /\ run' \in [Runs -> RunType] /\ Kept(r)
      /\ run'[r].mode = "dead" /\ (run'[r].step <= 29 <=> run[r].step <= 29)
      /\ run[r].step \in Nat /\ run'[r].step \in Nat
  BY <1>1, EndMoves DEF Kill, Modes
<1>3. /\ index' = index /\ tree' = tree /\ known' = known
      /\ dest' = dest /\ prior' = prior /\ backup' = backup /\ recovery' = recovery /\ sealed' = sealed
      /\ overlaps' = overlaps /\ (Alone' <=> Alone)
      /\ holds' = holds \ {r} /\ leases' = leases \ {r}
      /\ saved' = [saved EXCEPT ![r] = "none"]
  BY DEF Kill, lockVars, Alone
<1>4. /\ saved' \in [Runs -> {"none", "open", "denied"}] /\ saved'[r] = "none"
      /\ \A q \in Runs : q # r => saved'[q] = saved[q]
  BY <1>1, <1>3 DEF Typed
<1>5. Active' = Active \ {r} /\ Active \subseteq Runs
  BY <1>1, <1>2 DEF Active, Kept
<1>6. Typed'
  BY <1>1, <1>2, <1>3, <1>4 DEF Typed
<1>7. Counted'
  BY ModelAssumption DEF IInv, Counted, Troubles, Kill, lockVars
<1>8. Handles'
  BY <1>2, <1>3, <1>4, <1>5 DEF IInv, Handles, Kept
<1>9. Leased'
  <2>1. \A q \in leases' : q \in leases /\ q \in Runs /\ q # r /\ run'[q] = run[q]
    BY <1>1, <1>2, <1>3 DEF Typed, Kept
  <2> QED
    BY <1>3, <2>1 DEF IInv, Leased, Own
<1>10. Promotions' /\ SealedIsBacked'
  BY <1>2, <1>3 DEF IInv, Promotions, SealedIsBacked, Kept
<1>11. FailureLeavesNoTrace'
  BY <1>2, <1>3, FinalEnds DEF IInv, FailureLeavesNoTrace, InFinal, Kept
<1>12. Receipts' /\ OneAtATime' /\ PriorIsRecoverable'
  BY <1>2, <1>3, <1>5 DEF IInv, Receipts, OneAtATime, PriorIsRecoverable, Kept
<1>13. Alone => Active' = {}
  BY <1>1, <1>5 DEF IInv, OneAtATime
<1>14. TreesAreTheirOwn' /\ ReceiptsAreTheirOwn'
  BY <1>3, <1>13 DEF TreesAreTheirOwn, ReceiptsAreTheirOwn
<1>15. ReceiptIsSettled'
  <2>1. ~KilledSealing' => ~KilledSealing /\ run[r].step <= 29
    BY <1>1, <1>2 DEF KilledSealing, Kept
  <2>2. Alone /\ ~KilledSealing' => Undisturbed
    BY <1>1, <2>1 DEF IInv, ReceiptIsSettled
  <2> QED
    BY <1>3, <1>13, <2>2 DEF ReceiptIsSettled, Undisturbed
<1> QED
  BY <1>6, <1>7, <1>8, <1>9, <1>10, <1>11, <1>12, <1>14, <1>15 DEF IInv

\* The lock file of a run that begins: the sources its authority is loaded from.
LEMMA LoadCounts ==
  ASSUME Counted, NEW r \in Runs, Load(r), UNCHANGED <<sources, faultVars>>,
         overlaps' = overlaps \/ (overlaps' = overlaps + 1 /\ Troubles < MaxTroubles)
  PROVE  Counted'
<1>1. loaded' \in [Runs -> 0 .. sources]
  BY DEF Counted, Load, AuthoritySources
<1> QED
  BY <1>1, ModelAssumption DEF Counted, Troubles, faultVars

LEMMA BootstrapKeeps ==
  ASSUME IInv, NEW r \in Runs, Bootstrap(r)
  PROVE  IInv'
<1>1. Typed /\ run[r].mode = "new" /\ run[r].step = 1
  BY DEF IInv, Receipts, Bootstrap, Begins
<1>2. /\ run' \in [Runs -> RunType] /\ Kept(r)
      /\ run'[r].mode \in {"failed", "unresolved", "done"} /\ run'[r].step = 1
  BY <1>1, ModeMoves DEF Bootstrap, MetadataFails, Unresolved, WriteCandidate, Modes
<1>3. /\ index' = index /\ tree' = tree /\ known' = known /\ saved' = saved /\ holds' = holds
      /\ dest' = dest /\ prior' = prior /\ backup' = backup /\ recovery' = recovery
      /\ leases' = leases /\ sealed' = sealed /\ overlaps' = overlaps /\ (Alone' <=> Alone)
  BY DEF Bootstrap, treeVars, receiptVars, Alone
<1>4. Active' = Active /\ Active \subseteq Runs /\ r \notin Active
  BY <1>1, <1>2 DEF Active, Kept
<1>5. Typed'
  BY <1>1, <1>2, <1>3 DEF Typed
<1>6. Counted'
  BY LoadCounts DEF IInv, Bootstrap
<1>7. Handles' /\ Promotions'
  BY <1>2, <1>3, <1>4 DEF IInv, Handles, Promotions, Kept
<1>8. Leased'
  <2>1. \A q \in leases : q \in Runs /\ q # r /\ run'[q] = run[q]
    BY <1>1, <1>2 DEF IInv, Leased, Typed, Kept
  <2> QED
    BY <1>3, <2>1 DEF IInv, Leased, Own
<1>9. Receipts' /\ OneAtATime' /\ PriorIsRecoverable'
  BY <1>2, <1>3, <1>4 DEF IInv, Receipts, OneAtATime, PriorIsRecoverable, Kept
<1>10. SealedIsBacked' /\ FailureLeavesNoTrace'
  <2>1. tree.by # r
    BY <1>1, ModelAssumption DEF IInv, Promotions, Runs
  <2> QED
    BY <1>2, <1>3, <2>1, FinalEnds DEF IInv, SealedIsBacked, FailureLeavesNoTrace, InFinal, Kept
<1>11. \A q \in Active : run'[q] = run[q]
  BY <1>2, <1>4 DEF Kept
<1>12. TreesAreTheirOwn' /\ ReceiptsAreTheirOwn'
  BY <1>3, <1>4, <1>11 DEF IInv, TreesAreTheirOwn, ReceiptsAreTheirOwn, TreeIsItsOwn, ReceiptIsItsOwn,
                           Intact, ModelIntact, RuntimeIntact
<1>13. ReceiptIsSettled'
  <2>1. KilledSealing => KilledSealing'
    BY <1>1, <1>2 DEF KilledSealing, Kept
  <2> QED
    BY <1>3, <1>4, <1>11, <2>1 DEF IInv, ReceiptIsSettled, Undisturbed, Replacing, Own
<1> QED
  BY <1>5, <1>6, <1>7, <1>8, <1>9, <1>10, <1>12, <1>13 DEF IInv

\* A run that begins while none is under way finds the receipt that was finalized last.
LEMMA StartKeeps ==
  ASSUME IInv, NEW r \in Runs, Start(r)
  PROVE  IInv'
<1>1. Typed /\ run[r].mode = "new" /\ run[r].step = 1 /\ r # 0
  BY ModelAssumption DEF IInv, Receipts, Start, Begins, Runs
<1>2. /\ run' \in [Runs -> RunType] /\ Kept(r)
      /\ run'[r].mode = "on" /\ run'[r].step = 1
  BY <1>1, ModeMoves DEF Start, Modes
<1>3. /\ index' = index /\ tree' = tree /\ known' = known /\ saved' = saved /\ holds' = holds
      /\ dest' = dest /\ prior' = prior /\ backup' = backup /\ recovery' = recovery
      /\ leases' = leases /\ sealed' = sealed
  BY DEF Start, treeVars, receiptVars
<1>4. Active' = Active \cup {r} /\ Active \subseteq Runs /\ r \notin Active
  BY <1>1, <1>2 DEF Active, Kept
<1>5. overlaps' = overlaps \/ (overlaps' = overlaps + 1 /\ Troubles < MaxTroubles)
  BY DEF IInv, Counted, Start, Begins
<1>6. Alone' => Alone /\ Active = {}
  BY DEF IInv, Counted, Start, Alone
<1>7. Typed'
  BY <1>1, <1>2, <1>3 DEF Typed
<1>8. Counted'
  BY <1>5, LoadCounts DEF IInv, Start
<1>9. Handles'
  <2>1. r \notin holds /\ saved[r] = "none"
    BY <1>4 DEF IInv, Handles
  <2> QED
    BY <1>2, <1>3, <1>4, <2>1 DEF IInv, Handles, Kept, HeldSteps, SavedSteps
<1>10. Leased'
  <2>1. \A q \in leases : q \in Runs /\ q # r /\ run'[q] = run[q]
    BY <1>1, <1>2 DEF IInv, Leased, Typed, Kept
  <2> QED
    BY <1>3, <2>1 DEF IInv, Leased, Own
<1>11. Promotions' /\ tree.by # r
  BY <1>1, <1>2, <1>3 DEF IInv, Promotions, Kept
<1>12. Receipts'
  BY <1>1, <1>2, <1>3, <1>4 DEF IInv, Receipts, Kept
<1>13. OneAtATime'
  BY <1>4, <1>6 DEF OneAtATime
<1>14. SealedIsBacked' /\ PriorIsRecoverable'
  BY <1>3, <1>6 DEF IInv, SealedIsBacked, PriorIsRecoverable
<1>15. FailureLeavesNoTrace'
  BY <1>2, <1>3, FinalEnds DEF IInv, FailureLeavesNoTrace, InFinal, Kept
<1>16. Alone' => TreeIsItsOwn(r)' /\ ReceiptIsItsOwn(r)'
  BY <1>2, <1>3, <1>11 DEF TreeIsItsOwn, ReceiptIsItsOwn
<1>17. TreesAreTheirOwn' /\ ReceiptsAreTheirOwn'
  BY <1>4, <1>6, <1>16 DEF TreesAreTheirOwn, ReceiptsAreTheirOwn, TreeIsItsOwn, ReceiptIsItsOwn
<1>18. ReceiptIsSettled'
  <2>1. KilledSealing => KilledSealing'
    BY <1>1, <1>2 DEF KilledSealing, Kept
  <2>2. backup[r] = NoFile
    BY <1>1 DEF IInv, Receipts
  <2>3. Alone' /\ ~KilledSealing' => Undisturbed /\ Active = {}
    BY <1>6, <2>1 DEF IInv, ReceiptIsSettled
  <2> QED
    BY <1>3, <1>4, <2>2, <2>3 DEF ReceiptIsSettled, Replacing, Undisturbed
<1> QED
  BY <1>7, <1>8, <1>9, <1>10, <1>11, <1>12, <1>13, <1>14, <1>15, <1>17, <1>18 DEF IInv

-----------------------------------------------------------------------------
(* The theorems *)

LEMMA NextKeeps ==
  ASSUME IInv, [Next]_vars
  PROVE  IInv'
<1>1. CASE Review
  BY <1>1, ReviewKeeps
<1>2. CASE Stray
  BY <1>2, StrayKeeps
<1>3. CASE Edit
  BY <1>3, EditKeeps
<1>4. ASSUME NEW r \in Runs, Bootstrap(r) PROVE IInv'
  BY <1>4, BootstrapKeeps
<1>5. ASSUME NEW r \in Runs, Start(r) PROVE IInv'
  BY <1>5, StartKeeps
<1>6. ASSUME NEW r \in Runs, Kill(r) PROVE IInv'
  BY <1>6, KillKeeps
<1>7. ASSUME NEW r \in Runs, Step(r) PROVE IInv'
  <2>1. CASE Fetch(r) \/ Install(r) \/ Look(r) \/ Promote(r) \/ Hold(r) \/ Verify(r) \/ ReadAccess(r) \/ Deny(r)
    BY <2>1, FetchKeeps, InstallKeeps, LookKeeps, PromoteKeeps, HoldKeeps, VerifyKeeps, ReadAccessKeeps, DenyKeeps
  <2>2. CASE UseFinal(r) \/ UseReplay(r) \/ Restore(r) \/ Check(r) \/ Release(r) \/ Unwind(r) \/ Rollback(r)
    BY <2>2, PipelineKeeps, RestoreKeeps, CheckKeeps, ReleaseKeeps, UnwindKeeps, RollbackKeeps
       DEF UseFinal, UseReplay
  <2>3. CASE ReadPrior(r) \/ Recheck(r) \/ MoveAside(r) \/ InstallReceipt(r) \/ Reopen(r) \/ Lease(r)
    BY <2>3, ReadPriorKeeps, RecheckKeeps, MoveAsideKeeps, InstallReceiptKeeps, ReopenKeeps, LeaseKeeps
  <2>4. CASE Finalize(r) \/ UndoOwn(r) \/ UndoPrior(r)
    BY <2>4, FinalizeKeeps, UndoOwnKeeps, UndoPriorKeeps
  <2> QED
    BY <1>7, <2>1, <2>2, <2>3, <2>4 DEF Step
<1>8. CASE UNCHANGED vars
  <2>1. Counted'
    BY <1>8, CountsStay DEF IInv, vars
  <2> QED
    BY <1>8, <2>1, ElsewhereKeeps DEF vars, lockVars
<1> QED
  BY <1>1, <1>2, <1>3, <1>4, <1>5, <1>6, <1>7, <1>8 DEF Next

\* The inductive invariant: what every run has in hand at each step, and what the only
\* run under way knows.
THEOREM RunsAreInOrder == Spec => []IInv
<1>1. Init => IInv
  BY InitHolds
<1>2. IInv /\ [Next]_vars => IInv'
  BY NextKeeps
<1> QED
  BY <1>1, <1>2, PTL DEF Spec

\* The generation a finalized receipt speaks of is there, whatever later runs do and
\* however they fail: nobody takes back what another one sealed.
THEOREM SealedGenerationsStay == Spec => []SealedIsBacked
<1>1. IInv => SealedIsBacked
  BY DEF IInv
<1> QED
  BY <1>1, RunsAreInOrder, PTL

\* A final phase that fails leaves no generation behind that it knows as its own, also
\* when runs overlap.
THEOREM FailuresLeaveNoTrace == Spec => []FailureLeavesNoTrace
<1>1. IInv => FailureLeavesNoTrace
  BY DEF IInv
<1> QED
  BY <1>1, RunsAreInOrder, PTL

\* While the replay uses the model, the tree is the verified one and closed.
THEOREM ReplaysRunIntact == Spec => []ReplayRunsIntact
<1>1. IInv => ReplayRunsIntact
  <2> SUFFICES ASSUME IInv, Alone, NEW r \in Runs, At(r, "use"), InReplay(r)
               PROVE  Intact /\ tree.access = "denied"
    BY DEF ReplayRunsIntact
  <2>1. Typed
    BY DEF IInv
  <2>2. run[r].mode = "on" /\ r \in Active /\ run[r].step \in {9, 25} /\ run[r].step \in 21 .. 29
    BY <2>1, AtStep, StepNumbers2, PartsOfSteps
  <2>3. run[r].step = 25 /\ TreeIsItsOwn(r)
    BY <2>2 DEF IInv, TreesAreTheirOwn
  <2> QED
    BY <2>2, <2>3 DEF TreeIsItsOwn
<1> QED
  BY <1>1, RunsAreInOrder, PTL

\* The receipt finalized last can be found, wherever a run fails or is killed.
THEOREM PriorsAreRecoverable == Spec => []PriorIsRecoverable
<1>1. IInv => PriorIsRecoverable
  BY DEF IInv
<1> QED
  BY <1>1, RunsAreInOrder, PTL

\* When no run is under way, the receipt at its place is the one finalized last, unless
\* a run was killed while it sealed or could not undo it.
THEOREM ReceiptsSettle == Spec => []SettledReceipt
<1>1. IInv => SettledReceipt
  <2> SUFFICES ASSUME IInv, Alone, Active = {},
                      \A r \in Runs : run[r].mode \in {"dead", "stuck"} => ~InSeal(r)
               PROVE  dest.of = sealed
    BY DEF SettledReceipt
  <2>1. ~KilledSealing
    BY PartsOfSteps DEF IInv, KilledSealing
  <2> QED
    BY <2>1 DEF IInv, ReceiptIsSettled, Undisturbed
<1> QED
  BY <1>1, RunsAreInOrder, PTL

-----------------------------------------------------------------------------
(* The search for the wheels: selections and constraints *)

Selections == [Packages -> 0 .. MaxVersion]
Listing == [Packages -> [Versions -> [wheel : BOOLEAN, needs : SUBSET Specifiers]]]

\* The selection that gives a package a version as well.
With(sel, p, v) == [sel EXCEPT ![p] = v]

LEMMA SelectionsAreNotFailed ==
  /\ NoneSelected \in Selections /\ Selected(NoneSelected) = {}
  /\ Failed \notin Selections /\ Failed # NoneSelected
<1>1. Root \in Packages /\ MaxVersion \in Nat
  BY ResolverAssumption
<1>2. NoneSelected \in Selections /\ \A p \in Packages : NoneSelected[p] = 0
  BY <1>1 DEF NoneSelected, Selections
<1>3. Selected(NoneSelected) = {}
  BY <1>2 DEF Selected
<1>4. Failed \notin Selections
  <2> SUFFICES ASSUME Failed \in Selections PROVE FALSE
    OBVIOUS
  <2>1. Failed[Root] \in 0 .. MaxVersion
    BY <1>1 DEF Selections
  <2>2. Failed[Root] = MaxVersion + 1
    BY <1>1 DEF Failed
  <2> QED
    BY <1>1, <2>1, <2>2
<1> QED
  BY <1>2, <1>3, <1>4

LEMMA WithOneMore ==
  ASSUME NEW sel \in Selections, NEW p \in Packages, sel[p] = 0, NEW v \in Versions
  PROVE  /\ With(sel, p, v) \in Selections
         /\ With(sel, p, v)[p] = v
         /\ \A q \in Packages : q # p => With(sel, p, v)[q] = sel[q]
         /\ Selected(With(sel, p, v)) = Selected(sel) \union {p}
<1>1. MaxVersion \in Nat /\ v \in 0 .. MaxVersion /\ v # 0
  BY ResolverAssumption DEF Versions
<1>2. /\ With(sel, p, v) \in Selections
      /\ With(sel, p, v)[p] = v
      /\ \A q \in Packages : q # p => With(sel, p, v)[q] = sel[q]
  BY <1>1 DEF With, Selections
<1>3. Selected(With(sel, p, v)) = Selected(sel) \union {p}
  BY <1>1, <1>2 DEF Selected
<1> QED
  BY <1>2, <1>3

\* A constraint is the pin of the root, or a selected wheel needs it.
LEMMA ConstraintsHaveReasons ==
  ASSUME NEW list \in Listing, NEW sel \in Selections
  PROVE  /\ \A c : c \in Constraints(list, sel)
                   <=> c = Pin \/ \E p \in Selected(sel) : c \in list[p][sel[p]].needs
         /\ \A p \in Selected(sel) : p \in Packages /\ sel[p] \in Versions
         /\ \A p \in Selected(sel) : list[p][sel[p]].needs \subseteq Specifiers
         /\ \A c \in Constraints(list, sel) : c.name \in Packages
         /\ Pin.name = Root /\ Pin.allows = {1}
<1>1. \A c : c \in Constraints(list, sel)
             <=> c = Pin \/ \E p \in Selected(sel) : c \in list[p][sel[p]].needs
  BY DEF Constraints
<1>2. \A p \in Selected(sel) : p \in Packages /\ sel[p] \in Versions
  BY ResolverAssumption DEF Selected, Selections, Versions
<1>3. \A p \in Selected(sel) : list[p][sel[p]].needs \subseteq Specifiers
  <2> TAKE p \in Selected(sel)
  <2>1. p \in Packages /\ sel[p] \in Versions
    BY <1>2
  <2>2. list[p][sel[p]] \in [wheel : BOOLEAN, needs : SUBSET Specifiers]
    BY <2>1 DEF Listing
  <2> QED
    BY <2>2
<1>4. Pin.name = Root /\ Pin.allows = {1}
  BY DEF Pin
<1>5. \A c \in Constraints(list, sel) : c.name \in Packages
  <2> TAKE c \in Constraints(list, sel)
  <2>1. CASE c = Pin
    BY <1>4, <2>1, ResolverAssumption
  <2>2. CASE c # Pin
    <3>1. c \in Specifiers
      BY <1>1, <1>3, <2>2
    <3> QED
      BY <3>1 DEF Specifiers
  <2> QED
    BY <2>1, <2>2
<1> QED
  BY <1>1, <1>2, <1>3, <1>4, <1>5

\* One selection holds the choices of another one.
Extends(t, sel) == \A p \in Selected(sel) : t[p] = sel[p]

LEMMA ConstraintsStay ==
  ASSUME NEW list \in Listing, NEW sel \in Selections, NEW t \in Selections, Extends(t, sel)
  PROVE  Constraints(list, sel) \subseteq Constraints(list, t)
<1>1. \A p \in Selected(sel) : p \in Selected(t) /\ t[p] = sel[p]
  BY DEF Extends, Selected
<1>2. ASSUME NEW c \in Constraints(list, sel) PROVE c \in Constraints(list, t)
  <2>1. CASE c = Pin
    BY <2>1, ConstraintsHaveReasons
  <2>2. CASE c # Pin
    <3>1. PICK p \in Selected(sel) : c \in list[p][sel[p]].needs
      BY <2>2, ConstraintsHaveReasons
    <3> QED
      BY <1>1, <3>1, ConstraintsHaveReasons
  <2> QED
    BY <2>1, <2>2
<1> QED
  BY <1>2

\* The order of the search: selections that have chosen more come before.
Later == {x \in Selections \X Selections : Selected(x[2]) \subseteq Selected(x[1]) /\ Selected(x[1]) # Selected(x[2])}

LEMMA SearchIsWellFounded ==
  /\ IsWellFoundedOn(Later, Selections)
  /\ IsTransitive(Later, Selections)
<1> DEFINE R == StrictSubsetOrdering(Packages)
           F == FiniteSubsetsOf(Packages)
<1>1. IsWellFoundedOn(R, F)
  BY FS_StrictSubsetOrderingWellFounded
<1>2. ASSUME NEW T \in SUBSET Selections, T # {}
      PROVE  \E x \in T : \A y \in T : ~ (<<y, x>> \in Later)
  <2> DEFINE Rest == {Packages \ Selected(s) : s \in T}
  <2>1. Rest \subseteq F /\ Rest # {}
    <3>1. \A s \in T : Packages \ Selected(s) \in SUBSET Packages
      OBVIOUS
    <3>2. IsFiniteSet(Packages)
      BY ResolverAssumption
    <3>3. \A s \in T : IsFiniteSet(Packages \ Selected(s))
      BY <3>1, <3>2, FS_Subset
    <3> QED
      BY <1>2, <3>1, <3>3 DEF FiniteSubsetsOf
  <2>2. \E x \in Rest : \A y \in Rest : ~ (<<y, x>> \in R)
    <3> HIDE DEF Rest, R, F
    <3> QED
      BY <1>1, <2>1, WFMin, SMT
  <2>3. PICK s \in T : \A t \in T : ~ (<<Packages \ Selected(t), Packages \ Selected(s)>> \in R)
    BY <2>2
  <2>4. ASSUME NEW t \in T, <<t, s>> \in Later PROVE FALSE
    <3>1. Selected(s) \subseteq Selected(t) /\ Selected(t) # Selected(s)
      BY <2>4 DEF Later
    <3>2. Selected(s) \subseteq Packages /\ Selected(t) \subseteq Packages
      BY DEF Selected
    <3>3. <<Packages \ Selected(t), Packages \ Selected(s)>> \in R
      BY <3>1, <3>2 DEF StrictSubsetOrdering
    <3> QED
      BY <2>3, <3>3
  <2> QED
    BY <2>4
<1>3. IsWellFoundedOn(Later, Selections)
  BY <1>2, MinWF
<1>4. IsTransitive(Later, Selections)
  BY DEF Later, IsTransitive
<1> QED
  BY <1>3, <1>4

-----------------------------------------------------------------------------
(* The search for the wheels: solve is a function *)

Open(list, sel) == Constrained(list, sel) \ Selected(sel)
Good(list, f, sel) ==
  {v \in Allowed(list, sel, Min(Open(list, sel))) : f[With(sel, Min(Open(list, sel)), v)] # Failed}
Answer(list, f, sel) ==
  IF ~Consistent(list, sel) THEN Failed
  ELSE IF Open(list, sel) = {} THEN sel
  ELSE IF Good(list, f, sel) = {} THEN Failed
  ELSE f[With(sel, Min(Open(list, sel)), Max(Good(list, f, sel)))]

Solver(list) == CHOOSE f : f = [sel \in Selections |-> Answer(list, f, sel)]

LEMMA SolveIsSolver ==
  ASSUME NEW list
  PROVE  Solve(list) = Solver(list)[NoneSelected]
BY DEF Solve, Solver, Answer, Open, Good, With, Selections

Answers == Selections \union {Failed}

\* The package that comes next is an open one, and its newest good version is good.
LEMMA NextIsOpen ==
  ASSUME NEW list \in Listing, NEW sel \in Selections, Open(list, sel) # {}
  PROVE  /\ Min(Open(list, sel)) \in Open(list, sel)
         /\ Min(Open(list, sel)) \in Packages /\ sel[Min(Open(list, sel))] = 0
         /\ \A p : Allowed(list, sel, p) \subseteq Versions
<1>1. Open(list, sel) \subseteq Packages
  BY ConstraintsHaveReasons DEF Open, Constrained
<1>2. Open(list, sel) \subseteq Nat
  BY <1>1, ResolverAssumption
<1>3. Min(Open(list, sel)) \in Open(list, sel)
  <2>1. \E n \in Open(list, sel) : \A m \in Open(list, sel) : n <= m
    BY <1>2, LeastNumber
  <2> QED
    BY <2>1 DEF Min
<1>4. \A p \in Open(list, sel) : p \in Packages /\ sel[p] = 0
  BY <1>1 DEF Open, Selected
<1>5. \A p : Allowed(list, sel, p) \subseteq Versions
  BY DEF Allowed, Usable
<1> QED
  BY <1>3, <1>4, <1>5

LEMMA NewestIsGood ==
  ASSUME NEW S \in SUBSET Versions, S # {}
  PROVE  Max(S) \in S
<1>1. S \in SUBSET (0 .. MaxVersion) /\ MaxVersion \in Nat
  BY ResolverAssumption DEF Versions
<1>2. \E n \in S : \A m \in S : m <= n
  BY <1>1, GreatestNumber
<1>3. \E n \in S : \A m \in S : n >= m
  BY <1>1, <1>2
<1> QED
  BY <1>3 DEF Max

LEMMA AnswerIsAnswer ==
  ASSUME NEW list \in Listing, NEW f, NEW sel \in Selections,
         \A y \in Selections : <<y, sel>> \in Later => f[y] \in Answers
  PROVE  Answer(list, f, sel) \in Answers
<1>1. CASE ~Consistent(list, sel) \/ Open(list, sel) = {} \/ Good(list, f, sel) = {}
  BY <1>1 DEF Answer, Answers
<1>2. CASE ~ (~Consistent(list, sel) \/ Open(list, sel) = {} \/ Good(list, f, sel) = {})
  <2> DEFINE p == Min(Open(list, sel))
             v == Max(Good(list, f, sel))
  <2>1. p \in Packages /\ sel[p] = 0 /\ Good(list, f, sel) \in SUBSET Versions
    BY <1>2, NextIsOpen DEF Good
  <2>2. v \in Versions
    BY <1>2, <2>1, NewestIsGood
  <2>3. Answer(list, f, sel) = f[With(sel, p, v)]
    BY <1>2 DEF Answer
  <2> HIDE DEF p, v
  <2>4. With(sel, p, v) \in Selections /\ <<With(sel, p, v), sel>> \in Later
    <3>1. With(sel, p, v) \in Selections /\ Selected(With(sel, p, v)) = Selected(sel) \union {p}
      BY <2>1, <2>2, WithOneMore
    <3>2. p \notin Selected(sel)
      BY <2>1 DEF Selected
    <3> QED
      BY <3>1, <3>2 DEF Later
  <2> QED
    BY <2>3, <2>4
<1> QED
  BY <1>1, <1>2

LEMMA AnswerLooksAhead ==
  ASSUME NEW list \in Listing, NEW f \in [Selections -> Answers], NEW g \in [Selections -> Answers],
         NEW sel \in Selections, \A y \in Selections : <<y, sel>> \in Later => f[y] = g[y]
  PROVE  Answer(list, f, sel) = Answer(list, g, sel)
<1>1. CASE ~Consistent(list, sel) \/ Open(list, sel) = {}
  BY <1>1 DEF Answer
<1>2. CASE ~ (~Consistent(list, sel) \/ Open(list, sel) = {})
  <2> DEFINE p == Min(Open(list, sel))
  <2>1. p \in Packages /\ sel[p] = 0 /\ Allowed(list, sel, p) \in SUBSET Versions
    BY <1>2, NextIsOpen
  <2>0. /\ Good(list, f, sel) = {v \in Allowed(list, sel, p) : f[With(sel, p, v)] # Failed}
        /\ Good(list, g, sel) = {v \in Allowed(list, sel, p) : g[With(sel, p, v)] # Failed}
        /\ Good(list, f, sel) # {} => Answer(list, f, sel) = f[With(sel, p, Max(Good(list, f, sel)))]
        /\ Good(list, g, sel) # {} => Answer(list, g, sel) = g[With(sel, p, Max(Good(list, g, sel)))]
        /\ Good(list, f, sel) = {} => Answer(list, f, sel) = Failed
        /\ Good(list, g, sel) = {} => Answer(list, g, sel) = Failed
    BY <1>2 DEF Good, Answer
  <2> HIDE DEF p
  <2>2. ASSUME NEW v \in Versions PROVE f[With(sel, p, v)] = g[With(sel, p, v)]
    <3>1. /\ With(sel, p, v) \in Selections
          /\ Selected(With(sel, p, v)) = Selected(sel) \union {p}
      BY <2>1, WithOneMore
    <3>2. p \notin Selected(sel)
      BY <2>1 DEF Selected
    <3>3. <<With(sel, p, v), sel>> \in Later
      BY <3>1, <3>2 DEF Later
    <3> QED
      BY <3>1, <3>3
  <2>3. Good(list, f, sel) = Good(list, g, sel)
    BY <2>0, <2>1, <2>2
  <2>4. Good(list, f, sel) \in SUBSET Versions
    BY <2>0, <2>1
  <2>5. Good(list, f, sel) # {} => Max(Good(list, f, sel)) \in Versions
    BY <2>4, NewestIsGood
  <2> QED
    BY <2>0, <2>2, <2>3, <2>5
<1> QED
  BY <1>1, <1>2

LEMMA SolverEquation ==
  ASSUME NEW list \in Listing
  PROVE  /\ Solver(list) \in [Selections -> Answers]
         /\ \A sel \in Selections : Solver(list)[sel] = Answer(list, Solver(list), sel)
<1> DEFINE F == [Selections -> Answers]
           G == [f \in F |-> [sel \in Selections |-> Answer(list, f, sel)]]
           P(f) == f = [sel \in Selections |-> Answer(list, f, sel)]
<1>1. \A f \in F : \A sel \in Selections : Answer(list, f, sel) \in Answers
  BY AnswerIsAnswer
<1>2. \A f, g \in F : \A x \in Selections :
        (\A y \in Selections : <<y, x>> \in Later => f[y] = g[y]) => G[f][x] = G[g][x]
  BY AnswerLooksAhead
<1>3. LooksBack(G, Selections, Later, Answers)
  BY <1>1, <1>2 DEF LooksBack
<1>4. \A f \in Fixpoints(G, Selections, Answers) : P(f)
  BY DEF Fixpoints
<1>5. Solver(list) = CHOOSE f : P(f)
  BY DEF Solver
<1> HIDE DEF G, P
<1>6. Fixpoints(G, Selections, Answers) # {}
  <2>1. Answers # {}
    BY DEF Answers
  <2> QED
    BY <1>3, <2>1, SearchIsWellFounded, RecursionExists
<1>7. P(Solver(list))
  BY <1>4, <1>5, <1>6
<1>8. Solver(list) = [sel \in Selections |-> Answer(list, Solver(list), sel)]
  BY <1>7 DEF P
<1>9. \A sel \in Selections : Solver(list)[sel] = Answer(list, Solver(list), sel)
  BY <1>8
<1> QED
  <2> SUFFICES Solver(list) \in F
    BY <1>9
  <2> DEFINE B == {sel \in Selections : Solver(list)[sel] \notin Answers}
  <2>1. B = {}
    <3> SUFFICES ASSUME B # {} PROVE FALSE
      OBVIOUS
    <3>1. B \subseteq Selections
      OBVIOUS
    <3>2. PICK sel \in B : \A y \in B : ~ (<<y, sel>> \in Later)
      <4> HIDE DEF B
      <4> QED
        BY <3>1, SearchIsWellFounded, WFMin, SMT
    <3>3. \A y \in Selections : <<y, sel>> \in Later => Solver(list)[y] \in Answers
      BY <3>2
    <3>4. Answer(list, Solver(list), sel) \in Answers
      BY <3>1, <3>3, AnswerIsAnswer
    <3> QED
      BY <1>9, <3>4
  <2> QED
    BY <1>8, <2>1

-----------------------------------------------------------------------------
(* The search for the wheels: what it answers *)

\* A selection that breaks no constraint, leaves nothing open and takes usable wheels.
Solves(list, t) ==
  /\ Consistent(list, t) /\ Constrained(list, t) \subseteq Selected(t)
  /\ \A p \in Selected(t) : t[p] \in Usable(list, p)

\* The four ways in which solve answers.
LEMMA SolverBranches ==
  ASSUME NEW list \in Listing, NEW sel \in Selections
  PROVE  \/ ~Consistent(list, sel) /\ Solver(list)[sel] = Failed
         \/ /\ Consistent(list, sel) /\ Constrained(list, sel) \subseteq Selected(sel)
            /\ Solver(list)[sel] = sel
         \/ /\ Solver(list)[sel] = Failed
            /\ \E p \in Constrained(list, sel) \ Selected(sel) :
                 \A v \in Allowed(list, sel, p) : Solver(list)[With(sel, p, v)] = Failed
         \/ \E p \in Constrained(list, sel) \ Selected(sel) : \E v \in Allowed(list, sel, p) :
              Solver(list)[With(sel, p, v)] # Failed /\ Solver(list)[sel] = Solver(list)[With(sel, p, v)]
<1>1. Solver(list)[sel] = Answer(list, Solver(list), sel)
  BY SolverEquation
<1>2. CASE ~Consistent(list, sel)
  BY <1>1, <1>2 DEF Answer
<1>3. CASE Consistent(list, sel) /\ Open(list, sel) = {}
  BY <1>1, <1>3 DEF Answer, Open
<1>4. CASE Consistent(list, sel) /\ Open(list, sel) # {}
  <2> DEFINE p == Min(Open(list, sel))
             good == Good(list, Solver(list), sel)
  <2>1. p \in Constrained(list, sel) \ Selected(sel) /\ Allowed(list, sel, p) \in SUBSET Versions
    BY <1>4, NextIsOpen DEF Open
  <2>2. good = {v \in Allowed(list, sel, p) : Solver(list)[With(sel, p, v)] # Failed}
    BY DEF Good
  <2>3. /\ good = {} => Solver(list)[sel] = Failed
        /\ good # {} => Solver(list)[sel] = Solver(list)[With(sel, p, Max(good))]
    BY <1>1, <1>4 DEF Answer
  <2> HIDE DEF p, good
  <2>4. CASE good = {}
    <3>1. \A v \in Allowed(list, sel, p) : Solver(list)[With(sel, p, v)] = Failed
      BY <2>2, <2>4
    <3> QED
      BY <2>1, <2>3, <2>4, <3>1
  <2>5. CASE good # {}
    <3>1. good \in SUBSET Versions
      BY <2>1, <2>2
    <3>2. Max(good) \in good
      BY <2>5, <3>1, NewestIsGood
    <3>3. Max(good) \in Allowed(list, sel, p) /\ Solver(list)[With(sel, p, Max(good))] # Failed
      BY <2>2, <3>2
    <3> QED
      BY <2>1, <2>3, <2>5, <3>3
  <2> QED
    BY <2>4, <2>5
<1> QED
  BY <1>2, <1>3, <1>4

\* What the next package adds to a selection.
OneMore(list, sel, p, v) ==
  /\ p \in Packages /\ v \in Versions /\ v \in Usable(list, p)
  /\ \E c \in Constraints(list, sel) : c.name = p
  /\ With(sel, p, v) \in Selections /\ <<With(sel, p, v), sel>> \in Later
  /\ With(sel, p, v)[p] = v /\ \A q \in Packages : q # p => With(sel, p, v)[q] = sel[q]
  /\ Selected(With(sel, p, v)) = Selected(sel) \union {p}
  /\ p \notin Selected(sel) /\ Selected(sel) \subseteq Packages

LEMMA OpenIsNew ==
  ASSUME NEW list \in Listing, NEW sel \in Selections,
         NEW p \in Constrained(list, sel) \ Selected(sel), NEW v \in Allowed(list, sel, p)
  PROVE  OneMore(list, sel, p, v)
<1>1. \E c \in Constraints(list, sel) : c.name = p
  BY DEF Constrained
<1>2. p \in Packages
  BY <1>1, ConstraintsHaveReasons
<1>3. sel[p] = 0
  BY <1>2 DEF Selected
<1>4. v \in Versions /\ v \in Usable(list, p)
  BY DEF Allowed, Usable
<1>5. /\ With(sel, p, v) \in Selections /\ Selected(With(sel, p, v)) = Selected(sel) \union {p}
      /\ With(sel, p, v)[p] = v /\ \A q \in Packages : q # p => With(sel, p, v)[q] = sel[q]
  BY <1>2, <1>3, <1>4, WithOneMore
<1>6. <<With(sel, p, v), sel>> \in Later
  BY <1>5 DEF Later
<1>7. p \notin Selected(sel) /\ Selected(sel) \subseteq Packages
  BY DEF Selected
<1> QED
  BY <1>1, <1>2, <1>4, <1>5, <1>6, <1>7 DEF OneMore

\* A set of packages is closed when it has what the selected in it need.
ClosedUnder(list, sel, C) ==
  \A p \in C \intersect Selected(sel) : \A c \in list[p][sel[p]].needs : c.name \in C

\* Everything selected is there for the root.
Rooted(list, sel) ==
  \A C \in SUBSET Packages : Root \in C /\ ClosedUnder(list, sel, C) => Selected(sel) \subseteq C

OnTheWay(list, sel) == Rooted(list, sel) /\ \A p \in Selected(sel) : sel[p] \in Usable(list, p)

LEMMA OneMoreIsOnTheWay ==
  ASSUME NEW list \in Listing, NEW sel \in Selections, OnTheWay(list, sel),
         NEW p \in Constrained(list, sel) \ Selected(sel), NEW v \in Allowed(list, sel, p)
  PROVE  OnTheWay(list, With(sel, p, v))
<1> DEFINE t == With(sel, p, v)
<1>1. /\ p \in Packages /\ v \in Versions /\ v \in Usable(list, p)
      /\ t \in Selections /\ t[p] = v /\ \A q \in Packages : q # p => t[q] = sel[q]
      /\ Selected(t) = Selected(sel) \union {p} /\ p \notin Selected(sel) /\ Selected(sel) \subseteq Packages
  <2>1. OneMore(list, sel, p, v)
    BY OpenIsNew
  <2> QED
    BY <2>1 DEF OneMore
<1> HIDE DEF t
<1>2. \A q \in Selected(t) : t[q] \in Usable(list, q)
  BY <1>1 DEF OnTheWay
<1>3. ASSUME NEW C \in SUBSET Packages, Root \in C, ClosedUnder(list, t, C)
      PROVE  Selected(t) \subseteq C
  <2>1. \A q \in Selected(sel) : t[q] = sel[q] /\ q \in Selected(t)
    BY <1>1
  <2>2. ClosedUnder(list, sel, C)
    BY <1>3, <2>1 DEF ClosedUnder
  <2>3. Selected(sel) \subseteq C
    BY <1>3, <2>2 DEF OnTheWay, Rooted
  <2>4. PICK c \in Constraints(list, sel) : c.name = p
    <3>1. OneMore(list, sel, p, v)
      BY OpenIsNew
    <3> QED
      BY <3>1 DEF OneMore
  <2>5. CASE c = Pin
    BY <1>1, <1>3, <2>3, <2>4, <2>5, ConstraintsHaveReasons
  <2>6. CASE c # Pin
    <3>1. PICK q \in Selected(sel) : c \in list[q][sel[q]].needs
      BY <2>6, ConstraintsHaveReasons
    <3>2. c.name \in C
      BY <2>2, <2>3, <3>1 DEF ClosedUnder
    <3> QED
      BY <1>1, <2>3, <2>4, <3>2
  <2> QED
    BY <2>5, <2>6
<1>4. Rooted(list, t)
  BY <1>3 DEF Rooted
<1> QED
  BY <1>2, <1>4 DEF OnTheWay, t

\* What solve finds is a solution in which everything is there for the root.
LEMMA SolverIsSound ==
  ASSUME NEW list \in Listing, NEW start \in Selections, OnTheWay(list, start),
         Solver(list)[start] # Failed
  PROVE  /\ Solver(list)[start] \in Selections
         /\ Solves(list, Solver(list)[start]) /\ Rooted(list, Solver(list)[start])
<1> DEFINE Right(t) == t \in Selections /\ Solves(list, t) /\ Rooted(list, t)
           B == {sel \in Selections : OnTheWay(list, sel) /\ Solver(list)[sel] # Failed
                                      /\ ~Right(Solver(list)[sel])}
<1>1. B = {}
  <2> SUFFICES ASSUME B # {} PROVE FALSE
    OBVIOUS
  <2>1. PICK sel \in B : \A y \in B : ~ (<<y, sel>> \in Later)
    <3>1. B \subseteq Selections
      OBVIOUS
    <3> HIDE DEF B
    <3> QED
      BY <3>1, SearchIsWellFounded, WFMin, SMT
  <2>2. /\ sel \in Selections /\ OnTheWay(list, sel) /\ Solver(list)[sel] # Failed
        /\ ~Right(Solver(list)[sel])
    OBVIOUS
  <2>3. ~ (Consistent(list, sel) /\ Constrained(list, sel) \subseteq Selected(sel) /\ Solver(list)[sel] = sel)
    BY <2>2 DEF OnTheWay, Solves
  <2> HIDE DEF Right
  <2>4. PICK p \in Constrained(list, sel) \ Selected(sel) : \E v \in Allowed(list, sel, p) :
          Solver(list)[sel] = Solver(list)[With(sel, p, v)]
    BY <2>2, <2>3, SolverBranches
  <2>5. PICK v \in Allowed(list, sel, p) : Solver(list)[sel] = Solver(list)[With(sel, p, v)]
    BY <2>4
  <2>6. With(sel, p, v) \in Selections /\ <<With(sel, p, v), sel>> \in Later
    BY <2>2, OpenIsNew DEF OneMore
  <2>7. OnTheWay(list, With(sel, p, v))
    BY <2>2, OneMoreIsOnTheWay
  <2>8. With(sel, p, v) \in B
    BY <2>2, <2>5, <2>6, <2>7
  <2> QED
    BY <2>1, <2>6, <2>8
<1> QED
  BY <1>1

\* Where solve finds nothing, no solution holds the choices made so far.
LEMMA SolverIsComplete ==
  ASSUME NEW list \in Listing, NEW start \in Selections, Solver(list)[start] = Failed,
         NEW t \in Selections, Solves(list, t), Extends(t, start)
  PROVE  FALSE
<1> DEFINE B == {sel \in Selections : Solver(list)[sel] = Failed /\ Extends(t, sel)}
<1>1. B # {} /\ B \subseteq Selections
  OBVIOUS
<1>2. PICK sel \in B : \A y \in B : ~ (<<y, sel>> \in Later)
  <2> HIDE DEF B
  <2> QED
    BY <1>1, SearchIsWellFounded, WFMin, SMT
<1>3. sel \in Selections /\ Solver(list)[sel] = Failed /\ Extends(t, sel)
  OBVIOUS
<1>4. Constraints(list, sel) \subseteq Constraints(list, t)
  BY <1>3, ConstraintsStay
<1>5. Consistent(list, sel)
  <2> SUFFICES ASSUME NEW c \in Constraints(list, sel), sel[c.name] # 0 PROVE sel[c.name] \in c.allows
    BY DEF Consistent
  <2>1. c.name \in Selected(sel)
    BY <1>3, ConstraintsHaveReasons DEF Selected
  <2>2. t[c.name] = sel[c.name]
    BY <1>3, <2>1 DEF Extends
  <2> QED
    BY <1>4, <2>2 DEF Solves, Consistent
<1>6. Solver(list)[sel] # sel
  BY <1>3, SelectionsAreNotFailed
<1>7. PICK p \in Constrained(list, sel) \ Selected(sel) :
        \A v \in Allowed(list, sel, p) : Solver(list)[With(sel, p, v)] = Failed
  BY <1>3, <1>5, <1>6, SolverBranches
<1> DEFINE v == t[p]
<1> HIDE DEF B
<1>8. p \in Packages /\ p \in Selected(t)
  <2>1. p \in Packages /\ p \in Constrained(list, t)
    BY <1>4, <1>3, ConstraintsHaveReasons DEF Constrained
  <2> QED
    BY <2>1 DEF Solves
<1>9. v \in Usable(list, p) /\ v \in Versions
  BY <1>8 DEF Solves, Usable
<1>10. \A c \in Constraints(list, sel) : c.name = p => v \in c.allows
  BY <1>4, <1>8 DEF Solves, Consistent, Selected
<1>11. v \in Allowed(list, sel, p)
  BY <1>9, <1>10 DEF Allowed
<1>12. OneMore(list, sel, p, v)
  BY <1>3, <1>11, OpenIsNew
<1>13. Extends(t, With(sel, p, v))
  <2>1. Selected(With(sel, p, v)) = Selected(sel) \union {p}
    BY <1>12 DEF OneMore
  <2>2. ASSUME NEW q \in Selected(With(sel, p, v)) PROVE t[q] = With(sel, p, v)[q]
    BY <1>3, <1>12, <2>1, <2>2 DEF Extends, OneMore
  <2> QED
    BY <2>2 DEF Extends
<1>14. With(sel, p, v) \in B
  BY <1>7, <1>11, <1>12, <1>13 DEF B, OneMore
<1> QED
  BY <1>2, <1>12, <1>14 DEF OneMore

-----------------------------------------------------------------------------
(* The wheelhouse: what is reachable from the root *)

\* The packages of a set, and what the selected in it need.
Spread(list, sel, C) == C \union UNION {Needed(list, sel, p) : p \in C \intersect Selected(sel)}
Reaches(list, sel) ==
  CHOOSE after : after = [n \in Nat |-> IF n = 0 THEN {Root} ELSE Spread(list, sel, after[n - 1])]

LEMMA ReachableIsReached ==
  ASSUME NEW list, NEW sel
  PROVE  Reachable(list, sel) = Reaches(list, sel)[Cardinality(Packages)]
BY DEF Reachable, Reaches, Spread

LEMMA SpreadIsNeeded ==
  ASSUME NEW list \in Listing, NEW sel \in Selections, NEW C \in SUBSET Packages
  PROVE  /\ Spread(list, sel, C) \in SUBSET Packages /\ C \subseteq Spread(list, sel, C)
         /\ ClosedUnder(list, sel, C) <=> Spread(list, sel, C) = C
         /\ \A D \in SUBSET Packages :
              C \subseteq D /\ ClosedUnder(list, sel, D) => Spread(list, sel, C) \subseteq D
<1>1. \A p : Needed(list, sel, p) = {c.name : c \in list[p][sel[p]].needs}
  BY DEF Needed, Contract
<1>2. \A x : x \in Spread(list, sel, C)
             <=> x \in C \/ \E p \in C \intersect Selected(sel) : \E c \in list[p][sel[p]].needs : x = c.name
  BY <1>1 DEF Spread
<1>3. \A p \in Selected(sel) : \A c \in list[p][sel[p]].needs : c.name \in Packages
  BY ConstraintsHaveReasons
<1>4. Spread(list, sel, C) \in SUBSET Packages /\ C \subseteq Spread(list, sel, C)
  BY <1>2, <1>3
<1>5. ClosedUnder(list, sel, C) <=> Spread(list, sel, C) = C
  BY <1>2 DEF ClosedUnder
<1>6. ASSUME NEW D \in SUBSET Packages, C \subseteq D, ClosedUnder(list, sel, D)
      PROVE  Spread(list, sel, C) \subseteq D
  BY <1>2, <1>6 DEF ClosedUnder
<1> QED
  BY <1>4, <1>5, <1>6

LEMMA ReachesEquation ==
  ASSUME NEW list \in Listing, NEW sel \in Selections
  PROVE  /\ Reaches(list, sel)[0] = {Root}
         /\ \A n \in Nat : Reaches(list, sel)[n + 1] = Spread(list, sel, Reaches(list, sel)[n])
<1> DEFINE V == SUBSET Packages
           F == [Nat -> V]
           G == [f \in F |-> [n \in Nat |-> IF n = 0 THEN {Root} ELSE Spread(list, sel, f[n - 1])]]
           P(f) == f = [n \in Nat |-> IF n = 0 THEN {Root} ELSE Spread(list, sel, f[n - 1])]
<1>1. \A C \in V : Spread(list, sel, C) \in V
  BY SpreadIsNeeded
<1>2. \A f \in F : \A n \in Nat : (IF n = 0 THEN {Root} ELSE Spread(list, sel, f[n - 1])) \in V
  BY <1>1, ResolverAssumption
<1>3. G \in [F -> F]
  BY <1>2
<1>4. ASSUME NEW f \in F, NEW g \in F, NEW x \in Nat, \A y \in Nat : <<y, x>> \in Below => f[y] = g[y]
      PROVE  G[f][x] = G[g][x]
  <2>1. x # 0 => x - 1 \in Nat /\ <<x - 1, x>> \in Below
    BY DEF Below
  <2>2. x # 0 => f[x - 1] = g[x - 1]
    BY <1>4, <2>1
  <2>3. /\ G[f][x] = IF x = 0 THEN {Root} ELSE Spread(list, sel, f[x - 1])
        /\ G[g][x] = IF x = 0 THEN {Root} ELSE Spread(list, sel, g[x - 1])
    OBVIOUS
  <2> HIDE DEF G
  <2> QED
    BY <2>2, <2>3
<1>5. LooksBack(G, Nat, Below, V)
  BY <1>3, <1>4 DEF LooksBack
<1>6. \A f \in Fixpoints(G, Nat, V) : P(f)
  BY DEF Fixpoints
<1>7. Reaches(list, sel) = CHOOSE f : P(f)
  BY DEF Reaches
<1> HIDE DEF G, P
<1>8. Fixpoints(G, Nat, V) # {}
  <2>1. IsTransitive(Below, Nat)
    BY DEF Below, IsTransitive
  <2>2. V # {}
    OBVIOUS
  <2> HIDE DEF V
  <2> QED
    BY <1>5, <2>1, <2>2, BelowIsWellFounded, RecursionExists
<1>9. P(Reaches(list, sel))
  BY <1>6, <1>7, <1>8
<1>10. \A n \in Nat : Reaches(list, sel)[n] = IF n = 0 THEN {Root} ELSE Spread(list, sel, Reaches(list, sel)[n - 1])
  BY <1>9 DEF P
<1> QED
  BY <1>10

\* Reachable is the least closed set of packages with the root in it: each step adds a
\* package until nothing is missing, and there are only so many.
LEMMA ReachableIsLeast ==
  ASSUME NEW list \in Listing, NEW sel \in Selections
  PROVE  /\ Reachable(list, sel) \in SUBSET Packages /\ Root \in Reachable(list, sel)
         /\ ClosedUnder(list, sel, Reachable(list, sel))
         /\ \A C \in SUBSET Packages :
              Root \in C /\ ClosedUnder(list, sel, C) => Reachable(list, sel) \subseteq C
<1> DEFINE after == Reaches(list, sel)
           S == {n \in Nat : after[n] \in SUBSET Packages /\ Root \in after[n]}
           Ends == {n \in Nat : after[n + 1] = after[n] \/ Cardinality(after[n]) >= n + 1}
<1>1. after[0] = {Root} /\ \A n \in Nat : after[n + 1] = Spread(list, sel, after[n])
  BY ReachesEquation
<1> HIDE DEF after
<1>2. \A n \in Nat : n \in S
  <2>1. 0 \in S
    BY <1>1, ResolverAssumption
  <2>2. ASSUME NEW n \in Nat, n \in S PROVE n + 1 \in S
    BY <1>1, <2>2, SpreadIsNeeded
  <2> HIDE DEF S
  <2> QED
    BY <2>1, <2>2, EveryNumber
<1>3. \A n \in Nat : /\ after[n] \in SUBSET Packages /\ Root \in after[n]
                     /\ after[n] \subseteq after[n + 1] /\ IsFiniteSet(after[n])
                     /\ Cardinality(after[n]) \in Nat /\ Cardinality(after[n]) <= Cardinality(Packages)
  <2> TAKE n \in Nat
  <2>1. n \in S
    BY <1>2
  <2>2. after[n] \in SUBSET Packages /\ Root \in after[n]
    BY <2>1
  <2>3. after[n] \subseteq after[n + 1]
    BY <1>1, <2>2, SpreadIsNeeded
  <2>4. IsFiniteSet(after[n]) /\ Cardinality(after[n]) <= Cardinality(Packages)
    BY <2>2, FS_Subset, ResolverAssumption
  <2>5. Cardinality(after[n]) \in Nat
    BY <2>4, FS_CardinalityType
  <2> QED
    BY <2>2, <2>3, <2>4, <2>5
<1> HIDE DEF S, Ends
<1>4. \A n \in Nat : n \in Ends
  <2> USE DEF Ends
  <2>1. 0 \in Ends
    <3>1. Cardinality(after[0]) = 1
      BY <1>1, FS_Singleton
    <3> QED
      BY <3>1
  <2>2. ASSUME NEW n \in Nat, n \in Ends PROVE n + 1 \in Ends
    <3>1. CASE after[n + 1] = after[n]
      <4>1. after[n + 2] = Spread(list, sel, after[n + 1]) /\ after[n + 1] = Spread(list, sel, after[n])
        <5>1. n + 1 \in Nat /\ (n + 1) + 1 = n + 2
          OBVIOUS
        <5> QED
          BY <1>1, <5>1
      <4> QED
        BY <3>1, <4>1
    <3>2. CASE after[n + 1] # after[n]
      <4>1. n + 1 \in Nat /\ Cardinality(after[n]) >= n + 1
        BY <2>2, <3>2
      <4>2. Cardinality(after[n]) <= Cardinality(after[n + 1]) /\ Cardinality(after[n]) # Cardinality(after[n + 1])
        BY <1>3, <3>2, <4>1, FS_Subset
      <4>3. Cardinality(after[n]) \in Nat /\ Cardinality(after[n + 1]) \in Nat
        BY <1>3, <4>1
      <4>4. Cardinality(after[n + 1]) >= (n + 1) + 1
        BY <4>1, <4>2, <4>3
      <4> QED
        BY <4>1, <4>4
    <3> QED
      BY <3>1, <3>2
  <2> HIDE DEF Ends
  <2> QED
    BY <2>1, <2>2, EveryNumber
<1> DEFINE k == Cardinality(Packages)
<1>5. k \in Nat /\ Reachable(list, sel) = after[k]
  BY FS_CardinalityType, ResolverAssumption, ReachableIsReached DEF after
<1> HIDE DEF k
<1>6. after[k + 1] = after[k]
  <2>1. after[k + 1] = after[k] \/ Cardinality(after[k]) >= k + 1
    BY <1>4, <1>5 DEF Ends
  <2>2. Cardinality(after[k]) \in Nat /\ Cardinality(after[k]) <= k
    BY <1>3, <1>5 DEF k
  <2> QED
    BY <1>5, <2>1, <2>2
<1>7. ClosedUnder(list, sel, after[k])
  BY <1>1, <1>3, <1>5, <1>6, SpreadIsNeeded
<1>8. ASSUME NEW C \in SUBSET Packages, Root \in C, ClosedUnder(list, sel, C)
      PROVE  after[k] \subseteq C
  <2> DEFINE T == {n \in Nat : after[n] \subseteq C}
  <2>1. 0 \in T
    BY <1>1, <1>8
  <2>2. ASSUME NEW n \in Nat, n \in T PROVE n + 1 \in T
    <3>1. after[n] \in SUBSET Packages /\ after[n] \subseteq C
      BY <1>3, <2>2
    <3>2. Spread(list, sel, after[n]) \subseteq C
      BY <1>8, <3>1, SpreadIsNeeded
    <3>3. after[n + 1] \subseteq C
      BY <1>1, <3>2
    <3>4. n + 1 \in Nat
      OBVIOUS
    <3> QED
      BY <3>3, <3>4
  <2>3. k \in T
    <3> HIDE DEF T
    <3> QED
      BY <1>5, <2>1, <2>2, EveryNumber
  <2> QED
    BY <2>3
<1> QED
  BY <1>3, <1>5, <1>7, <1>8

-----------------------------------------------------------------------------
(* Phase A and phase B *)

\* A solution in which everything is there for the root is what phase B accepts.
LEMMA SolutionIsClosed ==
  ASSUME NEW list \in Listing, NEW t \in Selections, Solves(list, t), Rooted(list, t), t[Runtime] # 0
  PROVE  Closed(list, t)
<1>1. Root \in Packages /\ Runtime \in Packages
  BY ResolverAssumption
<1>2. Pin \in Constraints(list, t)
  BY ConstraintsHaveReasons
<1>3. Root \in Selected(t)
  BY <1>2, ConstraintsHaveReasons DEF Solves, Constrained
<1>4. t[Root] = 1
  BY <1>2, <1>3, ConstraintsHaveReasons DEF Solves, Consistent, Selected
<1>5. \A p \in Selected(t) : \A c \in list[p][t[p]].needs :
        c \in Constraints(list, t) /\ c.name \in Selected(t) /\ t[c.name] # 0 /\ t[c.name] \in c.allows
  <2> TAKE p \in Selected(t)
  <2> TAKE c \in list[p][t[p]].needs
  <2>1. c \in Constraints(list, t)
    BY ConstraintsHaveReasons
  <2>2. c.name \in Selected(t)
    BY <2>1 DEF Solves, Constrained
  <2>3. t[c.name] # 0
    BY <2>2 DEF Selected
  <2> QED
    BY <2>1, <2>2, <2>3 DEF Solves, Consistent
<1>6. Reachable(list, t) = Selected(t)
  <2>1. Selected(t) \in SUBSET Packages
    BY DEF Selected
  <2>2. ClosedUnder(list, t, Selected(t))
    BY <1>5 DEF ClosedUnder
  <2>3. Reachable(list, t) \subseteq Selected(t)
    BY <1>3, <2>1, <2>2, ReachableIsLeast
  <2>4. Selected(t) \subseteq Reachable(list, t)
    BY ReachableIsLeast DEF Rooted
  <2> QED
    BY <2>3, <2>4
<1>7. {Root, Runtime} \subseteq Selected(t)
  BY <1>1, <1>3 DEF Selected
<1>8. \A p \in Selected(t) :
        t[p] \in Usable(list, p)
        /\ \A c \in Contract(list, t, p).needs : t[c.name] # 0 /\ t[c.name] \in c.allows
  BY <1>5 DEF Solves, Contract
<1> QED
  BY <1>4, <1>6, <1>7, <1>8 DEF Closed

\* What phase B accepts is a solution.
LEMMA ClosedIsSolution ==
  ASSUME NEW list \in Listing, NEW t \in Selections, Closed(list, t)
  PROVE  Solves(list, t)
<1>1. Root \in Selected(t) /\ t[Root] = 1
  BY DEF Closed
<1>2. \A p \in Selected(t) : \A c \in list[p][t[p]].needs : t[c.name] # 0 /\ t[c.name] \in c.allows
  BY DEF Closed, Contract
<1>3. ASSUME NEW c \in Constraints(list, t)
      PROVE  c.name \in Selected(t) /\ t[c.name] \in c.allows
  <2>1. CASE c = Pin
    BY <1>1, <2>1, ConstraintsHaveReasons
  <2>2. CASE c # Pin
    <3>1. PICK p \in Selected(t) : c \in list[p][t[p]].needs
      BY <1>3, <2>2, ConstraintsHaveReasons
    <3>2. t[c.name] # 0 /\ t[c.name] \in c.allows
      BY <1>2, <3>1
    <3> QED
      BY <1>3, <3>2, ConstraintsHaveReasons DEF Selected
  <2> QED
    BY <2>1, <2>2
<1>4. Consistent(list, t) /\ Constrained(list, t) \subseteq Selected(t)
  BY <1>3 DEF Consistent, Constrained
<1> QED
  BY <1>4 DEF Solves, Closed

\* What resolve_runtime_wheels_from_pypi answers: a set that validate_offline_wheel_closure
\* accepts, or rightly nothing, where the root needs the runtime.
LEMMA ResolveIsRight ==
  ASSUME NEW list \in Listing
  PROVE  /\ Resolve(list) # Failed => Resolve(list) \in Selections /\ Closed(list, Resolve(list))
         /\ Resolve(list) = Failed /\ Runtime \in {c.name : c \in list[Root][1].needs}
            => \A t \in Selections : ~Closed(list, t)
<1> DEFINE sel == Solve(list)
<1>1. sel = Solver(list)[NoneSelected]
  BY SolveIsSolver
<1>2. NoneSelected \in Selections /\ Selected(NoneSelected) = {}
  BY SelectionsAreNotFailed
<1>3. OnTheWay(list, NoneSelected)
  BY <1>2 DEF OnTheWay, Rooted
<1>4. Resolve(list) = IF sel = Failed \/ sel[Runtime] = 0 THEN Failed ELSE sel
  BY DEF Resolve
<1> HIDE DEF sel
<1>5. sel # Failed => sel \in Selections /\ Solves(list, sel) /\ Rooted(list, sel)
  BY <1>1, <1>2, <1>3, SolverIsSound
<1>6. Resolve(list) # Failed => Resolve(list) \in Selections /\ Closed(list, Resolve(list))
  BY <1>4, <1>5, SolutionIsClosed
<1>7. ASSUME Resolve(list) = Failed, Runtime \in {c.name : c \in list[Root][1].needs},
             NEW t \in Selections, Closed(list, t)
      PROVE  FALSE
  <2>1. Solves(list, t) /\ Extends(t, NoneSelected)
    BY <1>2, <1>7, ClosedIsSolution DEF Extends
  <2>2. sel # Failed
    BY <1>1, <1>2, <2>1, SolverIsComplete
  <2>3. sel \in Selections /\ Solves(list, sel) /\ sel[Runtime] = 0
    BY <1>4, <1>5, <1>7, <2>2
  <2>4. Root \in Selected(sel) /\ sel[Root] = 1
    <3>1. Pin \in Constraints(list, sel)
      BY <2>3, ConstraintsHaveReasons
    <3>2. Root \in Selected(sel)
      BY <2>3, <3>1, ConstraintsHaveReasons DEF Solves, Constrained
    <3>3. sel[Root] \in Pin.allows
      BY <2>3, <3>1, <3>2, ConstraintsHaveReasons DEF Solves, Consistent, Selected
    <3> QED
      BY <2>3, <3>2, <3>3, ConstraintsHaveReasons
  <2>5. PICK c \in list[Root][1].needs : c.name = Runtime
    BY <1>7
  <2>6. c \in Constraints(list, sel)
    BY <2>3, <2>4, <2>5, ConstraintsHaveReasons
  <2>7. Runtime \in Selected(sel)
    BY <2>3, <2>5, <2>6 DEF Solves, Constrained
  <2> QED
    BY <2>3, <2>7 DEF Selected
<1> QED
  BY <1>6, <1>7

-----------------------------------------------------------------------------
(* The candidate and the manifest *)

\* Wheels that were written are what the search found.
Found(sel) == sel = NoneSelected \/ (sel = Resolve(index) /\ sel # Failed)

WheelsAreFound ==
  /\ Found(candidate) /\ Found(manifest)
  /\ \A r \in Runs : run[r].mode = "unresolved" => Resolve(index) = Failed

LEMMA IndexIsListing ==
  ASSUME Typed
  PROVE  index \in Listing
BY ModelAssumption DEF Typed, Listing

\* Outside the bootstrap no run comes to say that the wheels cannot be resolved, and
\* nothing but the bootstrap and the review writes wheels.
Resolved == Modes \ {"unresolved"}

LEMMA StepsGoOn ==
  ASSUME NEW r \in Runs, Step(r) \/ Kill(r)
  PROVE  /\ index' = index /\ candidate' = candidate /\ manifest' = manifest
         /\ \/ run' = run
            \/ \E n \in {1, 2} : run' = [run EXCEPT ![r].step = @ + n]
            \/ \E m \in Resolved : Mode(r, m) \/ End(r, m)
<1> DEFINE Goal == /\ index' = index /\ candidate' = candidate /\ manifest' = manifest
                   /\ \/ run' = run
                      \/ \E n \in {1, 2} : run' = [run EXCEPT ![r].step = @ + n]
                      \/ \E m \in Resolved : Mode(r, m) \/ End(r, m)
<1>1. \A m \in {"failing", "undoing", "failed", "stuck", "dead", "done"} : m \in Resolved
  BY DEF Resolved, Modes
<1>2. Give(r) => \E m \in Resolved : Mode(r, m)
  BY <1>1 DEF Give
<1>3. Advance(r) => \E n \in {1, 2} : run' = [run EXCEPT ![r].step = @ + n]
  BY DEF Advance
<1>4. CASE Fetch(r) \/ Install(r) \/ Verify(r) \/ UseFinal(r) \/ UseReplay(r)
  BY <1>2, <1>3, <1>4 DEF Fetch, Install, Verify, UseFinal, UseReplay, Pipeline, lockVars
<1>5. CASE Look(r)
  BY <1>2, <1>5 DEF Look, lockVars
<1>6. CASE Promote(r) \/ Hold(r) \/ ReadAccess(r) \/ Deny(r) \/ Restore(r) \/ Check(r) \/ Release(r)
  BY <1>2, <1>3, <1>6 DEF Promote, Hold, ReadAccess, Deny, Restore, Check, Release, lockVars
<1>7. CASE Unwind(r) \/ Rollback(r) \/ Kill(r)
  BY <1>1, <1>7 DEF Unwind, Rollback, Kill, lockVars
<1>8. CASE ReadPrior(r) \/ Recheck(r) \/ MoveAside(r) \/ InstallReceipt(r) \/ Reopen(r) \/ Lease(r)
  BY <1>2, <1>3, <1>8 DEF ReadPrior, Recheck, MoveAside, InstallReceipt, Reopen, Lease, receiptVars, lockVars
<1>9. CASE Finalize(r) \/ UndoOwn(r) \/ UndoPrior(r)
  BY <1>1, <1>2, <1>9 DEF Finalize, UndoOwn, UndoPrior, lockVars
<1> QED
  BY <1>4, <1>5, <1>6, <1>7, <1>8, <1>9 DEF Step

LEMMA WheelsStay ==
  ASSUME WheelsAreFound, index' = index, candidate' = candidate, manifest' = manifest,
         \A r \in Runs : run'[r].mode = "unresolved" => run[r].mode = "unresolved"
  PROVE  WheelsAreFound'
<1>1. Resolve(index)' = Resolve(index)
  BY Zenon
<1> QED
  BY <1>1 DEF WheelsAreFound, Found

LEMMA NextFindsWheels ==
  ASSUME IInv, WheelsAreFound, [Next]_vars
  PROVE  WheelsAreFound'
<1>1. Typed /\ run \in [Runs -> RunType]
  BY DEF IInv, Typed
<1>2. ASSUME NEW r \in Runs, Step(r) \/ Kill(r) PROVE WheelsAreFound'
  <2>1. \A q \in Runs : run'[q].mode = "unresolved" => run[q].mode = "unresolved"
    <3>1. CASE run' = run
      BY <3>1
    <3>2. ASSUME NEW n \in {1, 2}, run' = [run EXCEPT ![r].step = @ + n]
          PROVE  \A q \in Runs : run'[q].mode = run[q].mode
      BY <1>1, <3>2 DEF RunType
    <3>3. ASSUME NEW m \in Resolved, Mode(r, m) \/ End(r, m)
          PROVE  \A q \in Runs : run'[q].mode = "unresolved" => run[q].mode = "unresolved"
      <4>1. m \in Modes /\ m # "unresolved"
        BY DEF Resolved
      <4> QED
        BY <1>1, <3>3, <4>1, ModeMoves, EndMoves DEF Kept
    <3> QED
      BY <1>2, <3>1, <3>2, <3>3, StepsGoOn
  <2> QED
    BY <1>2, <2>1, StepsGoOn, WheelsStay
<1>3. ASSUME NEW r \in Runs, Bootstrap(r) PROVE WheelsAreFound'
  <2>1. index' = index /\ manifest' = manifest
    BY <1>3 DEF Bootstrap
  <2>2. \/ candidate' = candidate /\ Mode(r, "failed")
        \/ candidate' = candidate /\ Mode(r, "unresolved") /\ Resolve(index) = Failed
        \/ candidate' = Resolve(index) /\ Resolve(index) # Failed /\ Mode(r, "done")
    BY <1>3 DEF Bootstrap, MetadataFails, Unresolved, WriteCandidate, Candidate
  <2>3. \A q \in Runs : run'[q].mode = "unresolved" => run[q].mode = "unresolved" \/ Resolve(index) = Failed
    BY <1>1, <2>2 DEF RunType, Mode
  <2> QED
    BY <2>1, <2>2, <2>3 DEF WheelsAreFound, Found
<1>4. CASE Review
  BY <1>4 DEF Review, WheelsAreFound, Found
<1>5. ASSUME NEW r \in Runs, Start(r) PROVE WheelsAreFound'
  <2>1. Mode(r, "on")
    BY <1>5 DEF Start
  <2>2. \A q \in Runs : run'[q].mode = "unresolved" => run[q].mode = "unresolved"
    BY <1>1, <2>1 DEF RunType, Mode
  <2> QED
    BY <1>5, <2>2, WheelsStay DEF Start
<1>6. CASE Stray \/ Edit \/ UNCHANGED vars
  BY <1>6, WheelsStay DEF Stray, Edit, vars, lockVars
<1> QED
  BY <1>2, <1>3, <1>4, <1>5, <1>6 DEF Next

\* The wheels of the candidate and of the manifest are those the search finds, and a run
\* says that there are none only where it finds none.
THEOREM WheelsAreWhatWasFound == Spec => []WheelsAreFound
<1>1. Init => WheelsAreFound
  BY DEF Init, WheelsAreFound, Found
<1>2. IInv /\ WheelsAreFound /\ [Next]_vars => WheelsAreFound'
  BY NextFindsWheels
<1> QED
  BY <1>1, <1>2, RunsAreInOrder, PTL DEF Spec

\* The type of the state.
THEOREM TypeCorrect == Spec => []TypeOK
<1>1. IInv /\ WheelsAreFound => TypeOK
  <2> SUFFICES ASSUME IInv, WheelsAreFound PROVE TypeOK
    OBVIOUS
  <2>1. Typed /\ Counted
    BY DEF IInv
  <2>2. {candidate, manifest} \subseteq Selections
    <3>1. \A sel : Found(sel) => sel \in Selections
      BY <2>1, IndexIsListing, ResolveIsRight, SelectionsAreNotFailed DEF Found
    <3> QED
      BY <3>1 DEF WheelsAreFound
  <2>3. run \in [Runs -> [mode : Modes, step : 1 .. Len(Script)]]
    BY <2>1, ScriptParts DEF Typed, RunType
  <2>4. holds \subseteq Active /\ {r \in Runs : saved[r] # "none"} \subseteq holds /\ (holds # {} => tree.by # 0)
    BY <2>1 DEF IInv, Typed, Handles
  <2>5. leases \subseteq Active /\ \A r \in leases : dest = Own(r)
    BY <2>1 DEF IInv, Typed, Leased, Active
  <2> QED
    BY <2>1, <2>2, <2>3, <2>4, <2>5 DEF TypeOK, Typed, Counted, Modes, Selections
<1> QED
  BY <1>1, RunsAreInOrder, WheelsAreWhatWasFound, PTL

\* A candidate is a set of wheels that phase B accepts, and a run that reports that the
\* wheels cannot be resolved is right: the search neither misses a way back nor lets in
\* what a later constraint rules out.
THEOREM ResolutionsAreRight == Spec => []ResolutionIsRight
<1>1. IInv /\ WheelsAreFound => ResolutionIsRight
  <2> SUFFICES ASSUME IInv, WheelsAreFound PROVE ResolutionIsRight
    OBVIOUS
  <2>1. index \in Listing
    BY IndexIsListing DEF IInv
  <2>2. candidate # NoneSelected => Closed(index, candidate)
    BY <2>1, ResolveIsRight DEF WheelsAreFound, Found
  <2>3. ASSUME NEW r \in Runs, run[r].mode = "unresolved",
               Runtime \in {c.name : c \in index[Root][1].needs}
        PROVE  ~\E sel \in Selections : Closed(index, sel)
    BY <2>1, <2>3, ResolveIsRight DEF WheelsAreFound
  <2> QED
    BY <2>2, <2>3 DEF ResolutionIsRight, Selections
<1> QED
  BY <1>1, RunsAreInOrder, WheelsAreWhatWasFound, PTL
=============================================================================
