------------------------ MODULE KnowledgeIndexProofs ------------------------
(***************************************************************************)
(* For any drafts, duplicates, upgrades, jobs, workers and lapses: a card  *)
(* and a content are published once, what was replaced stays replaced, an  *)
(* upgrade that was refused stays out; a row of the outbox is in one       *)
(* worker's hands and is consumed once, and what has been indexed is       *)
(* found.                                                                  *)
(*                                                                         *)
(* The properties of cards speak of the projection of the lifecycle        *)
(* ledger, and a rebuild replaces the projection by a replay of the        *)
(* ledger.  So the inductive invariant says that the two agree, and that a *)
(* version that is suspended has the event of its suspension; and a        *)
(* near-duplicate review is about a draft, so that none of its decisions   *)
(* touches a release.                                                      *)
(***************************************************************************)
EXTENDS KnowledgeIndex, FiniteSetTheorems, WellFoundedInduction, TLAPS

States == [status : Statuses, suspended : BOOLEAN]
Entries == [type : EventTypes, after : States]

Typed ==
  /\ events \in [Versions -> Seq(Entries)]
  /\ status \in [Versions -> Statuses]
  /\ suspended \subseteq Versions

\* The projection is what a replay of the ledger would yield.
ProjectionFollows == \A v \in Versions : Replayed(v) = Current(v)

SuspendedWas == \A v \in suspended : WasSuspended(v)

ScansAreOfDrafts == \A t \in DOMAIN decision : t.kind = "near-duplicate" => t.subject \in Drafts

Ledgers == Typed /\ ProjectionFollows /\ SuspendedWas

IInv == Ledgers /\ ScansAreOfDrafts /\ OnePublishedVersion /\ TwinsWereSuspended

\* The steps of the two action properties.
StaysReplaced ==
  \A v \in Versions : status[v] \in {"superseded", "archived"} => status'[v] # "published"

Refused(c) == \E t \in DOMAIN decision : /\ t.kind = "source-changed" /\ t.subject = c
                                         /\ decision[t] \in {"reject", "dismiss"}
StaysOut ==
  \A c \in Candidates : Refused(c) /\ status[ReleaseOf[c]] = "none" => status'[ReleaseOf[c]] = "none"

Kept == IInv' /\ StaysReplaced /\ StaysOut

-----------------------------------------------------------------------------
(* The ledger and its projection *)

LEMMA EventStates ==
  ASSUME NEW s \in States, NEW e \in EventTypes
  PROVE  /\ Event(s, e) \in States
         /\ Event(s, e).suspended => e = "suspend" \/ s.suspended
BY DEF Event, States, Statuses, EventTypes

LEMMA CurrentState == ASSUME Typed, NEW v \in Versions PROVE Current(v) \in States
BY DEF Typed, Current, States

\* What recording events does to the versions it is about, and that it leaves
\* the others alone.
LEMMA RecordMoves ==
  ASSUME Typed, NEW e, DOMAIN e \subseteq Versions, \A v \in DOMAIN e : e[v] \in EventTypes, Record(e)
  PROVE  /\ Typed'
         /\ \A v \in Versions \ DOMAIN e :
              /\ events'[v] = events[v] /\ status'[v] = status[v]
              /\ v \in suspended' <=> v \in suspended
         /\ \A v \in DOMAIN e :
              /\ events'[v] = Append(events[v], [type |-> e[v], after |-> Event(Current(v), e[v])])
              /\ status'[v] = Event(Current(v), e[v]).status
              /\ v \in suspended' <=> Event(Current(v), e[v]).suspended
<1> DEFINE next == [v \in DOMAIN e |-> Event(Current(v), e[v])]
<1>1. \A v \in DOMAIN e : next[v] \in States
  BY CurrentState, EventStates
<1>2. \A v \in DOMAIN e : next[v].status \in Statuses
  BY <1>1 DEF States
<1>3. \A v \in DOMAIN e : [type |-> e[v], after |-> next[v]] \in Entries
  BY <1>1 DEF Entries
<1>4. /\ events' = [v \in Versions |-> IF v \in DOMAIN e
                                        THEN Append(events[v], [type |-> e[v], after |-> next[v]])
                                        ELSE events[v]]
      /\ status' = [v \in Versions |-> IF v \in DOMAIN e THEN next[v].status ELSE status[v]]
      /\ suspended' = {v \in Versions : IF v \in DOMAIN e THEN next[v].suspended ELSE v \in suspended}
  BY DEF Record
<1>5. \A v \in DOMAIN e : next[v] = Event(Current(v), e[v])
  OBVIOUS
<1> HIDE DEF next
<1>6. events' \in [Versions -> Seq(Entries)]
  BY <1>3, <1>4 DEF Typed
<1>7. status' \in [Versions -> Statuses] /\ suspended' \subseteq Versions
  BY <1>2, <1>4 DEF Typed
<1> QED
  BY <1>4, <1>5, <1>6, <1>7 DEF Typed

LEMMA LedgersGrow ==
  ASSUME Ledgers, NEW e, DOMAIN e \subseteq Versions, \A v \in DOMAIN e : e[v] \in EventTypes, Record(e)
  PROVE  Ledgers' /\ \A v \in Versions : WasSuspended(v) => WasSuspended(v)'
<1>1. Typed /\ Typed'
  BY RecordMoves DEF Ledgers
<1>2. ASSUME NEW v \in Versions \ DOMAIN e
      PROVE  /\ Replayed(v)' = Current(v)'
             /\ WasSuspended(v) => WasSuspended(v)'
             /\ v \in suspended' => WasSuspended(v)'
  <2>1. events'[v] = events[v] /\ status'[v] = status[v] /\ (v \in suspended' <=> v \in suspended)
    BY <1>1, <1>2, RecordMoves
  <2>2. Replayed(v) = Current(v) /\ (v \in suspended => WasSuspended(v))
    BY <1>2 DEF Ledgers, ProjectionFollows, SuspendedWas
  <2> QED
    BY <2>1, <2>2 DEF Replayed, After, Current, WasSuspended
<1>3. ASSUME NEW v \in DOMAIN e
      PROVE  /\ Replayed(v)' = Current(v)'
             /\ WasSuspended(v) => WasSuspended(v)'
             /\ v \in suspended' => WasSuspended(v)'
  <2> DEFINE s == Event(Current(v), e[v])
             entry == [type |-> e[v], after |-> s]
  <2>1. /\ events'[v] = Append(events[v], entry)
        /\ status'[v] = s.status
        /\ v \in suspended' <=> s.suspended
    BY <1>1, <1>3, RecordMoves
  <2>2. v \in Versions /\ Current(v) \in States /\ e[v] \in EventTypes
    BY <1>1, <1>3, CurrentState
  <2>3. s \in States /\ (s.suspended => e[v] = "suspend" \/ Current(v).suspended)
    BY <2>2, EventStates
  <2>4. events[v] \in Seq(Entries) /\ entry \in Entries
    BY <1>1, <2>2, <2>3 DEF Typed, Entries
  <2>5. entry.after = s /\ entry.type = e[v]
    OBVIOUS
  <2> HIDE DEF s, entry
  <2>6. /\ Len(events'[v]) = Len(events[v]) + 1 /\ Len(events[v]) \in Nat
        /\ events'[v][Len(events[v]) + 1] = entry
        /\ \A n \in 1 .. Len(events[v]) : events'[v][n] = events[v][n]
        /\ DOMAIN events[v] = 1 .. Len(events[v])
        /\ DOMAIN events'[v] = 1 .. Len(events[v]) + 1
    BY <2>1, <2>4
  <2>7. Replayed(v)' = s
    BY <2>5, <2>6 DEF Replayed, After
  <2>8. Current(v)' = s
    BY <2>1, <2>3 DEF Current, States
  <2>9. WasSuspended(v) => WasSuspended(v)'
    BY <2>6 DEF WasSuspended
  <2>10. e[v] = "suspend" => WasSuspended(v)'
    BY <2>5, <2>6 DEF WasSuspended
  <2>11. Current(v).suspended => WasSuspended(v)
    BY DEF Current, Ledgers, SuspendedWas
  <2> QED
    BY <2>1, <2>3, <2>7, <2>8, <2>9, <2>10, <2>11
<1>4. \A v \in Versions : /\ Replayed(v)' = Current(v)'
                          /\ WasSuspended(v) => WasSuspended(v)'
                          /\ v \in suspended' => WasSuspended(v)'
  BY <1>2, <1>3
<1> QED
  BY <1>1, <1>4 DEF Ledgers, ProjectionFollows, SuspendedWas, Typed

-----------------------------------------------------------------------------
(* Steps that publish nothing *)

\* Nothing becomes published, and what becomes live was suspended once.
Quiet ==
  /\ \A v \in Versions : status'[v] = "published" => status[v] = "published"
  /\ \A v \in Versions : WasSuspended(v) => WasSuspended(v)'
  /\ \A v \in Versions : Live(v)' => Live(v) \/ WasSuspended(v)'

Unreleased == \A r \in Releases : status[r] = "none" => status'[r] = "none"

LEMMA QuietKeeps ==
  ASSUME IInv, Ledgers', ScansAreOfDrafts', Quiet
  PROVE  IInv' /\ StaysReplaced
<1>1. OnePublishedVersion'
  BY DEF IInv, OnePublishedVersion, Quiet
<1>2. TwinsWereSuspended'
  BY DEF IInv, TwinsWereSuspended, Quiet
<1>3. StaysReplaced
  BY DEF StaysReplaced, Quiet
<1> QED
  BY <1>1, <1>2, <1>3 DEF IInv

LEMMA UnreleasedStaysOut == Unreleased => StaysOut
BY CardsAssumption DEF Unreleased, StaysOut, Drafts

\* Events that neither publish nor reinstate, to versions that allow them.
LEMMA QuietRecord ==
  ASSUME IInv, ScansAreOfDrafts', NEW V, V \subseteq Versions, NEW type,
         type \in {"review", "duplicate", "archive", "suspend", "reinstate"},
         type = "reinstate" => V \subseteq suspended,
         Record([v \in V |-> type])
  PROVE  /\ IInv' /\ StaysReplaced
         /\ (\A v \in V : v \in Drafts \/ (Stored(v) /\ type \in {"suspend", "reinstate"})) => Unreleased
<1> DEFINE e == [v \in V |-> type]
<1>1. DOMAIN e = V /\ \A v \in V : e[v] = type /\ e[v] \in EventTypes
  BY DEF EventTypes
<1>2. Record(e)
  OBVIOUS
<1> HIDE DEF e
<1>3. Typed /\ Ledgers
  BY DEF IInv, Ledgers
<1>4. Ledgers' /\ \A v \in Versions : WasSuspended(v) => WasSuspended(v)'
  BY <1>1, <1>2, <1>3, LedgersGrow
<1>5. \A v \in Versions \ V : status'[v] = status[v] /\ (v \in suspended' <=> v \in suspended)
  BY <1>1, <1>2, <1>3, RecordMoves
<1>6. \A v \in V : /\ status'[v] = Event(Current(v), type).status
                   /\ v \in suspended' <=> Event(Current(v), type).suspended
  <2> SUFFICES ASSUME NEW v \in V
               PROVE  /\ status'[v] = Event(Current(v), type).status
                      /\ v \in suspended' <=> Event(Current(v), type).suspended
    OBVIOUS
  <2>1. /\ status'[v] = Event(Current(v), e[v]).status
        /\ v \in suspended' <=> Event(Current(v), e[v]).suspended
    BY <1>1, <1>2, <1>3, RecordMoves
  <2>2. e[v] = type
    BY <1>1
  <2> QED
    BY <2>1, <2>2
<1>7. \A v \in V : Current(v) \in States /\ Current(v).status = status[v]
  BY <1>3, CurrentState DEF Current
<1>8. \A v \in V : status'[v] = "published" => status[v] = "published"
  BY <1>6, <1>7 DEF Event, States
<1>9. \A v \in V : type \in {"suspend", "reinstate"} => status'[v] = status[v]
  BY <1>6, <1>7 DEF Event, States
<1>10. \A v \in V : Live(v)' => Live(v) \/ WasSuspended(v)
  <2> SUFFICES ASSUME NEW v \in V, Live(v)' PROVE Live(v) \/ WasSuspended(v)
    OBVIOUS
  <2>1. CASE type = "reinstate"
    BY <2>1, <1>3 DEF Ledgers, SuspendedWas
  <2>2. CASE type # "reinstate"
    BY <2>2, <1>6, <1>7 DEF Event, States, Live
  <2> QED
    BY <2>1, <2>2
<1>11. Quiet
  BY <1>4, <1>5, <1>8, <1>10 DEF Quiet, Live
<1>12. IInv' /\ StaysReplaced
  BY <1>4, <1>11, QuietKeeps
<1>13. (\A v \in V : v \in Drafts \/ (Stored(v) /\ type \in {"suspend", "reinstate"})) => Unreleased
  BY <1>5, <1>9, CardsAssumption DEF Unreleased, Versions, Stored
<1> QED
  BY <1>12, <1>13

\* Steps that leave the lifecycle alone.
LEMMA LifecycleUnchanged ==
  ASSUME IInv, ScansAreOfDrafts', UNCHANGED lifecycleVars
  PROVE  Kept
<1>1. Ledgers'
  BY DEF IInv, Ledgers, Typed, ProjectionFollows, SuspendedWas, Replayed, After, Current,
         WasSuspended, lifecycleVars
<1>2. Quiet
  BY DEF Quiet, Live, WasSuspended, lifecycleVars
<1>3. Unreleased
  BY DEF Unreleased, lifecycleVars
<1> QED
  BY <1>1, <1>2, <1>3, QuietKeeps, UnreleasedStaysOut DEF Kept

-----------------------------------------------------------------------------
(* Reviews and drafts *)

LEMMA ToggleKeeps ==
  ASSUME IInv, NEW v \in Suspendable, Suspend(v) \/ Reinstate(v)
  PROVE  Kept
<1> v \in Versions
  BY CardsAssumption
<1>1. ScansAreOfDrafts'
  BY DEF IInv, ScansAreOfDrafts, Suspend, Reinstate
<1>2. CASE Suspend(v)
  <2>1. Record([w \in {v} |-> "suspend"]) /\ Stored(v)
    BY <1>2 DEF Suspend
  <2> QED
    BY <1>1, <2>1, QuietRecord, UnreleasedStaysOut DEF Kept
<1>3. CASE Reinstate(v)
  <2>1. Record([w \in {v} |-> "reinstate"]) /\ Stored(v) /\ v \in suspended
    BY <1>3 DEF Reinstate
  <2> QED
    BY <1>1, <2>1, QuietRecord, UnreleasedStaysOut DEF Kept
<1> QED
  BY <1>2, <1>3

LEMMA RebuildKeeps == ASSUME IInv, Rebuild PROVE Kept
<1>1. events' = events /\ decision' = decision
  BY DEF Rebuild
<1>2. \A v \in Versions : Replayed(v).status = status[v] /\ Replayed(v).suspended = (v \in suspended)
  BY DEF IInv, Ledgers, ProjectionFollows, Current
<1>3. status' = status
  BY <1>2 DEF Rebuild, IInv, Ledgers, Typed
<1>4. suspended' = suspended
  BY <1>2 DEF Rebuild, IInv, Ledgers, Typed
<1>5. Ledgers'
  BY <1>1, <1>3, <1>4 DEF IInv, Ledgers, Typed, ProjectionFollows, SuspendedWas, Replayed, After,
                          Current, WasSuspended
<1>6. ScansAreOfDrafts'
  BY <1>1 DEF IInv, ScansAreOfDrafts
<1>7. Quiet /\ Unreleased
  BY <1>1, <1>3, <1>4 DEF Quiet, Unreleased, Live, WasSuspended
<1> QED
  BY <1>5, <1>6, <1>7, QuietKeeps, UnreleasedStaysOut DEF Kept

LEMMA DecisionKeeps ==
  ASSUME IInv, NEW t, NEW answer, ResolveReview(t, answer)
  PROVE  ScansAreOfDrafts'
BY DEF IInv, ScansAreOfDrafts, ResolveReview

LEMMA RunReviewKeeps == ASSUME IInv, NEW t, NEW answer, RunReview(t, answer) PROVE Kept
<1>1. UNCHANGED lifecycleVars /\ ResolveReview(t, answer)
  BY DEF RunReview
<1> QED
  BY <1>1, DecisionKeeps, LifecycleUnchanged

LEMMA RunUpgradeKeeps == ASSUME IInv, NEW s, NEW answer, RunUpgrade(s, answer) PROVE Kept
<1>1. UNCHANGED lifecycleVars /\ ResolveReview(Task("source-changed", s[1], s[2]), answer)
  BY DEF RunUpgrade, ResolveUpgrade
<1> QED
  BY <1>1, DecisionKeeps, LifecycleUnchanged

LEMMA LinkDuplicateKeeps == ASSUME IInv, NEW t, NEW target, LinkDuplicate(t, target) PROVE Kept
<1>1. /\ ResolveReview(t, "accept")
      /\ Record([w \in {t.subject} |-> "archive"])
      /\ Open(t) /\ t.kind = "near-duplicate"
  BY DEF LinkDuplicate
<1>2. t.subject \in Drafts
  BY <1>1 DEF Open, IInv, ScansAreOfDrafts
<1>3. {t.subject} \subseteq Versions
  BY <1>2 DEF Versions
<1>4. ScansAreOfDrafts'
  BY <1>1, DecisionKeeps
<1>5. IInv' /\ StaysReplaced
  BY <1>1, <1>3, <1>4, QuietRecord
<1>6. Unreleased
  BY <1>1, <1>2, <1>3, <1>4, QuietRecord
<1> QED
  BY <1>5, <1>6, UnreleasedStaysOut DEF Kept

LEMMA InsertKeeps ==
  ASSUME IInv, ScansAreOfDrafts', NEW drafts, drafts \subseteq Drafts, InsertCards(drafts)
  PROVE  Kept
<1> DEFINE new == {d \in drafts : ~Stored(d)}
<1>1. Record([v \in new |-> "review"])
  BY DEF InsertCards, Register
<1>2. new \subseteq Versions /\ \A v \in new : v \in Drafts
  BY DEF Versions
<1> HIDE DEF new
<1>3. IInv' /\ StaysReplaced
  BY <1>1, <1>2, QuietRecord
<1>4. Unreleased
  BY <1>1, <1>2, QuietRecord
<1> QED
  BY <1>3, <1>4, UnreleasedStaysOut DEF Kept

LEMMA TasksOfDrafts ==
  ASSUME IInv, NEW new, \A t \in new : t.kind = "near-duplicate" => t.subject \in Drafts,
         decision' = WithTasks(new)
  PROVE  ScansAreOfDrafts'
BY DEF IInv, ScansAreOfDrafts, WithTasks

LEMMA ImportKeeps == ASSUME IInv, NEW d \in Imported, Import(d) PROVE Kept
<1> DEFINE new == {Task("provenance", d, {}), ScanTask(d)}
                    \cup {Task("exact-duplicate", d, {}) : w \in ExactDuplicates(d)}
<1>1. InsertCards({d}) /\ decision' = WithTasks(new)
  BY DEF Import
<1>2. \A t \in new : t.kind = "near-duplicate" => t.subject \in Drafts
  BY DEF Task, ScanTask, Drafts
<1> HIDE DEF new
<1>3. ScansAreOfDrafts'
  BY <1>1, <1>2, TasksOfDrafts
<1> QED
  BY <1>1, <1>3, InsertKeeps DEF Drafts

LEMMA ProposeUpgradesKeeps == ASSUME IInv, ProposeUpgrades PROVE Kept
<1> DEFINE candidates == Unmade(proposal)
           new == UNION {Gates(c, proposal) \cup {SuggestionTask(c, proposal)} : c \in candidates}
<1>1. InsertCards(Absent(candidates)) /\ decision' = WithTasks(new)
  BY DEF ProposeUpgrades
<1>2. candidates \subseteq Drafts
  BY DEF Unmade, Asked, Drafts
<1>3. \A t \in new : t.kind = "near-duplicate" => t.subject \in Drafts
  BY <1>2 DEF Gates, SuggestionTask, Task, ScanTask
<1>4. Absent(candidates) \subseteq Drafts
  BY <1>2 DEF Absent
<1> HIDE DEF new, candidates
<1>5. ScansAreOfDrafts'
  BY <1>1, <1>3, TasksOfDrafts
<1> QED
  BY <1>1, <1>4, <1>5, InsertKeeps

-----------------------------------------------------------------------------
(* Publication *)

\* A release takes the place of the published version of its card: no other
\* version of the card stays published, and no live version has its content.
LEMMA ReleaseNewKeeps == ASSUME IInv, NEW d \in Drafts, ReleaseNew(d) PROVE Kept
<1> DEFINE r == ReleaseOf[d]
           gone == Superseded(r)
           e == [v \in {r} \cup gone |-> IF v = r THEN "release" ELSE "supersede"]
<1>1. /\ Record(e) /\ decision' = decision
      /\ Unblocked(d) /\ ~Stored(r) /\ ExactDuplicates(r) = {}
  BY DEF ReleaseNew, Publishable
<1>2. r \in Versions /\ gone \subseteq Versions
  BY CardsAssumption DEF Superseded, Versions
<1>3. /\ DOMAIN e = {r} \cup gone
      /\ e[r] = "release" /\ \A v \in gone : v # r /\ e[v] = "supersede"
      /\ \A v \in DOMAIN e : e[v] \in EventTypes
  BY DEF EventTypes, Superseded
<1> HIDE DEF e
<1>4. Typed /\ Ledgers
  BY DEF IInv, Ledgers
<1>5. Ledgers' /\ \A v \in Versions : WasSuspended(v) => WasSuspended(v)'
  BY <1>1, <1>2, <1>3, <1>4, LedgersGrow
<1>6. \A v \in Versions \ DOMAIN e : status'[v] = status[v] /\ (v \in suspended' <=> v \in suspended)
  BY <1>1, <1>2, <1>3, <1>4, RecordMoves
<1>7. ASSUME NEW v \in gone
      PROVE  status'[v] = "superseded"
  <2>1. v \in DOMAIN e /\ e[v] = "supersede"
    BY <1>3
  <2>2. status'[v] = Event(Current(v), e[v]).status
    BY <1>1, <1>2, <1>3, <1>4, <2>1, RecordMoves
  <2>3. Current(v) \in States
    BY <1>2, <1>4, CurrentState
  <2> QED
    BY <2>1, <2>2, <2>3 DEF Event, States
<1> HIDE DEF gone
<1>8. \A v \in Versions : status'[v] = "published" => v = r \/ (v \notin gone /\ status[v] = "published")
  <2> SUFFICES ASSUME NEW v \in Versions, status'[v] = "published", v # r
               PROVE  v \notin gone /\ status[v] = "published"
    OBVIOUS
  <2>1. v \notin gone
    BY <1>7
  <2>2. v \notin DOMAIN e
    BY <1>3, <2>1
  <2> QED
    BY <1>6, <2>1, <2>2
<1>9. \A v \in Versions : Live(v)' => v = r \/ (v \notin gone /\ Live(v))
  BY <1>3, <1>6, <1>8 DEF Live
<1>10. OnePublishedVersion'
  <2> SUFFICES ASSUME NEW v \in Versions, NEW w \in Versions,
                      status'[v] = "published", status'[w] = "published", CardOf[v] = CardOf[w]
               PROVE  v = w
    BY DEF OnePublishedVersion
  <2>1. \A x \in Versions \ gone : status[x] = "published" /\ CardOf[x] = CardOf[r] => x = r
    BY DEF gone, Superseded
  <2> QED
    BY <1>8, <2>1 DEF IInv, OnePublishedVersion
<1>11. TwinsWereSuspended'
  <2> SUFFICES ASSUME NEW v \in Versions, NEW w \in Versions,
                      Live(v)', Live(w)', v # w, ContentOf[v] = ContentOf[w]
               PROVE  WasSuspended(v)' \/ WasSuspended(w)'
    BY DEF TwinsWereSuspended
  <2>1. \A x \in Versions : Live(x) /\ ContentOf[x] = ContentOf[r] => x = r
    BY <1>1 DEF ExactDuplicates, Index
  <2> QED
    BY <1>5, <1>9, <2>1 DEF IInv, TwinsWereSuspended
<1>12. StaysReplaced
  BY <1>1, <1>8 DEF StaysReplaced, Stored
<1>13. StaysOut
  <2> SUFFICES ASSUME NEW c \in Candidates, Refused(c), status[ReleaseOf[c]] = "none"
               PROVE  status'[ReleaseOf[c]] = "none"
    BY DEF StaysOut
  <2>1. c # d
    BY <1>1 DEF Refused, Unblocked
  <2>2. ReleaseOf[c] # r /\ ReleaseOf[c] \in Versions
    BY <2>1, CardsAssumption DEF Drafts, Versions
  <2>3. ReleaseOf[c] \notin gone
    BY DEF gone, Superseded
  <2> QED
    BY <1>3, <1>6, <2>2, <2>3
<1>14. ScansAreOfDrafts'
  BY <1>1 DEF IInv, ScansAreOfDrafts
<1> QED
  BY <1>5, <1>10, <1>11, <1>12, <1>13, <1>14 DEF IInv, Kept

\* A release whose content is published is archived at once.
LEMMA ReleaseDuplicateKeeps ==
  ASSUME IInv, NEW d \in Drafts, NEW w, ReleaseDuplicate(d, w)
  PROVE  Kept
<1> DEFINE r == ReleaseOf[d]
<1>1. /\ Record([v \in {r} |-> "duplicate"]) /\ decision' = WithAudit(r, w)
      /\ Unblocked(d) /\ ~Stored(r)
  BY DEF ReleaseDuplicate, Publishable
<1>2. {r} \subseteq Versions /\ r \in Versions
  BY CardsAssumption DEF Versions
<1>3. ScansAreOfDrafts'
  <2>1. \A t \in DOMAIN decision' : t \in DOMAIN decision \/ t.kind = "exact-duplicate"
    BY <1>1 DEF WithAudit, Task
  <2> QED
    BY <2>1 DEF IInv, ScansAreOfDrafts
<1>4. IInv' /\ StaysReplaced
  BY <1>1, <1>2, <1>3, QuietRecord
<1>5. \A v \in Versions \ {r} : status'[v] = status[v]
  <2> DEFINE e == [v \in {r} |-> "duplicate"]
  <2>1. Record(e) /\ DOMAIN e = {r} /\ \A v \in DOMAIN e : e[v] \in EventTypes
    BY <1>1 DEF EventTypes
  <2>2. Typed
    BY DEF IInv, Ledgers
  <2> HIDE DEF e
  <2> QED
    BY <1>2, <2>1, <2>2, RecordMoves
<1>6. StaysOut
  <2> SUFFICES ASSUME NEW c \in Candidates, Refused(c), status[ReleaseOf[c]] = "none"
               PROVE  status'[ReleaseOf[c]] = "none"
    BY DEF StaysOut
  <2>1. c # d
    BY <1>1 DEF Refused, Unblocked
  <2>2. ReleaseOf[c] # r /\ ReleaseOf[c] \in Versions
    BY <2>1, CardsAssumption DEF Drafts, Versions
  <2> QED
    BY <1>5, <2>2
<1> QED
  BY <1>4, <1>6 DEF Kept

LEMMA PublishDirectKeeps == ASSUME IInv, NEW d \in Direct, PublishDirect(d) PROVE Kept
<1> d \in Drafts
  BY CardsAssumption
<1> QED
  BY ReleaseNewKeeps, ReleaseDuplicateKeeps DEF PublishDirect

LEMMA RunPublishKeeps == ASSUME IInv, NEW j \in Jobs, RunPublish(j) PROVE Kept
<1>1. PICK w \in Versions : Publishes(Submits[j], w)
  BY DEF RunPublish
<1>2. Submits[j] \in Drafts
  BY CardsAssumption
<1>3. CASE UNCHANGED <<lifecycleVars, decision, dedup>>
  <2>1. UNCHANGED lifecycleVars /\ decision' = decision
    BY <1>3
  <2>2. ScansAreOfDrafts'
    BY <2>1 DEF IInv, ScansAreOfDrafts
  <2> QED
    BY <2>1, <2>2, LifecycleUnchanged
<1> QED
  BY <1>1, <1>2, <1>3, ReleaseNewKeeps, ReleaseDuplicateKeeps DEF Publishes

-----------------------------------------------------------------------------
LEMMA InitEstablishes == Init => IInv
<1> SUFFICES ASSUME Init PROVE IInv
  OBVIOUS
<1>1. /\ events = [v \in Versions |-> <<>>]
      /\ status = [v \in Versions |-> "none"]
      /\ suspended = {}
      /\ DOMAIN decision = {}
  BY DEF Init, CardsInit
<1>2. Typed
  BY <1>1 DEF Typed, Statuses
<1>3. ProjectionFollows
  <2> SUFFICES ASSUME NEW v \in Versions PROVE Replayed(v) = Current(v)
    BY DEF ProjectionFollows
  <2>1. events[v] = <<>> /\ status[v] = "none" /\ v \notin suspended
    BY <1>1
  <2>2. Len(events[v]) = 0
    BY <2>1
  <2>3. Replayed(v) = Unborn
    BY <2>2 DEF Replayed, After
  <2>4. Current(v) = [status |-> "none", suspended |-> FALSE]
    <3>1. (v \in suspended) = FALSE
      BY <2>1
    <3> QED
      BY <2>1, <3>1, Zenon DEF Current
  <2> QED
    BY <2>3, <2>4 DEF Unborn
<1>4. SuspendedWas /\ ScansAreOfDrafts
  BY <1>1 DEF SuspendedWas, ScansAreOfDrafts
<1>5. OnePublishedVersion /\ TwinsWereSuspended
  BY <1>1 DEF OnePublishedVersion, TwinsWereSuspended, Live
<1> QED
  BY <1>2, <1>3, <1>4, <1>5 DEF IInv, Ledgers

LEMMA UnchangedKeeps == ASSUME IInv, UNCHANGED cardVars PROVE Kept
<1>1. UNCHANGED lifecycleVars /\ decision' = decision
  BY DEF cardVars, lifecycleVars
<1>2. ScansAreOfDrafts'
  BY <1>1 DEF IInv, ScansAreOfDrafts
<1> QED
  BY <1>1, <1>2, LifecycleUnchanged

LEMMA ReadingKeeps == ASSUME IInv, ReadAffected \/ AbandonProposal PROVE Kept
<1>1. UNCHANGED lifecycleVars /\ decision' = decision
  BY DEF ReadAffected, AbandonProposal
<1>2. ScansAreOfDrafts'
  BY <1>1 DEF IInv, ScansAreOfDrafts
<1> QED
  BY <1>1, <1>2, LifecycleUnchanged

\* One step of the governance keeps the invariant, whichever it is.
LEMMA CardsStepKeeps == ASSUME IInv, CardsNext PROVE Kept
<1>1. CASE \E v \in Suspendable : Suspend(v) \/ Reinstate(v)
  BY <1>1, ToggleKeeps
<1>2. CASE Rebuild
  BY <1>2, RebuildKeeps
<1>3. CASE \E t \in DOMAIN decision, answer \in Answers : RunReview(t, answer)
  BY <1>3, RunReviewKeeps
<1>4. CASE \E t \in DOMAIN decision, target \in Versions : LinkDuplicate(t, target)
  BY <1>4, LinkDuplicateKeeps
<1>5. CASE \E s \in suggested, answer \in Answers : RunUpgrade(s, answer)
  BY <1>5, RunUpgradeKeeps
<1>6. CASE \E d \in Imported : Import(d)
  BY <1>6, ImportKeeps
<1>7. CASE \E d \in Direct : PublishDirect(d)
  BY <1>7, PublishDirectKeeps
<1>8. CASE ReadAffected \/ AbandonProposal
  BY <1>8, ReadingKeeps
<1>9. CASE ProposeUpgrades
  BY <1>9, ProposeUpgradesKeeps
<1>10. CASE \E j \in Jobs : RunPublish(j)
  BY <1>10, RunPublishKeeps
<1> QED
  BY <1>1, <1>2, <1>3, <1>4, <1>5, <1>6, <1>7, <1>8, <1>9, <1>10 DEF CardsNext

\* The index writes no card.
LEMMA IndexLeavesCards == IndexNext => UNCHANGED cardVars
BY DEF IndexNext, Claim, Complete, FailCompletion, Lapse, IndexJob

LEMMA StepKeeps == ASSUME IInv, [Next]_vars PROVE Kept
<1>1. CASE CardsNext
  BY <1>1, CardsStepKeeps
<1>2. CASE UNCHANGED cardVars
  BY <1>2, UnchangedKeeps
<1> QED
  BY <1>1, <1>2, IndexLeavesCards DEF Next, vars

\* Every state the cards can reach satisfies the invariant: the projection of the
\* lifecycle is the replay of its ledger, among the rest.
THEOREM Invariance == Spec => []IInv
<1>1. IInv /\ [Next]_vars => IInv'
  BY StepKeeps DEF Kept
<1> QED
  BY <1>1, InitEstablishes, PTL DEF Spec

\* A card has one published version, and content is published once unless one of
\* its versions was suspended (cards.py publish_card), for any number of drafts,
\* duplicates, upgrades and publish jobs.
THEOREM CardsArePublishedOnce == Spec => []PublishedOnce
<1>1. IInv => PublishedOnce
  BY DEF IInv, PublishedOnce
<1> QED
  BY <1>1, Invariance, PTL

\* What a newer release has replaced, or a duplicate, is never published again
\* (cards.py _stored_version_outcome), whatever is retried, suspended, reinstated or
\* rebuilt.
THEOREM ReplacedVersionsStayReplaced == Spec => ReplacedStaysReplaced
<1>1. IInv /\ [Next]_vars =>
        [\A v \in Versions : status[v] \in {"superseded", "archived"} => status'[v] # "published"]_cardVars
  BY StepKeeps DEF Kept, StaysReplaced
<1> QED
  BY <1>1, Invariance, PTL DEF Spec, ReplacedStaysReplaced

\* An upgrade whose source change was refused does not come out (cards.py
\* _validate_no_blocking_reviews), whichever pipeline publishes it.
THEOREM RefusedUpgradesAreNotPublished == Spec => RefusedUpgradesStayOut
<1>1. IInv /\ [Next]_vars =>
        [\A c \in Candidates :
           /\ \E t \in DOMAIN decision : /\ t.kind = "source-changed" /\ t.subject = c
                                         /\ decision[t] \in {"reject", "dismiss"}
           /\ status[ReleaseOf[c]] = "none"
           => status'[ReleaseOf[c]] = "none"]_cardVars
  BY StepKeeps DEF Kept, StaysOut, Refused
<1> QED
  BY <1>1, Invariance, PTL DEF Spec, RefusedUpgradesStayOut

-----------------------------------------------------------------------------
(***************************************************************************)
(* Rows, claims and snapshots.  Ledgers and the outbox only grow, so a     *)
(* snapshot that was true of them when it was sealed can be validated for  *)
(* ever.  And a card that is live and was never suspended has been live    *)
(* since its row was written, so every snapshot that covers the row has    *)
(* it.                                                                     *)
(***************************************************************************)

InHand == {"held", "overdue"}
Entry == [worker : Workers \cup {"job"}, state : ClaimStates]

\* Only the last claim of a row may be in somebody's hands or have succeeded, and a
\* row is consumed when its last claim has.
InTurn(c, done) ==
  /\ DOMAIN c \subseteq Rows /\ done \subseteq DOMAIN c
  /\ c = [o \in DOMAIN c |-> c[o]]
  /\ \A o \in DOMAIN c :
       /\ c[o] \in Seq(Entry) /\ Len(c[o]) > 0
       /\ \A n \in 1 .. Len(c[o]) : n # Len(c[o]) => c[o][n].state \in {"expired", "failed"}
       /\ o \in done <=> c[o][Len(c[o])].state = "succeeded"
ClaimsInTurn == InTurn(claims, DOMAIN consumed)

\* A snapshot is true of the ledgers and of the outbox, as they were.
Stands(s) ==
  /\ DOMAIN s.facts.eligible \subseteq Versions
  /\ FactsStand(s.facts) /\ s.rows = CandidateRows(s.facts)
  /\ s.facts.watermark \in Nat

Sealable == [facts : [eligible : UNION {[V -> Nat] : V \in SUBSET Versions}, watermark : Nat],
             rows : SUBSET Versions]

SnapshotsStand ==
  /\ snapshots \in Seq(Sealable)
  /\ \A n \in 1 .. Len(snapshots) : Stands(snapshots[n])

SnapshotsInOrder ==
  \A m, n \in 1 .. Len(snapshots) : m <= n => snapshots[m].facts.watermark <= snapshots[n].facts.watermark

\* A row is consumed with a snapshot that covers it.
RowsAreCovered ==
  \A o \in DOMAIN consumed :
    /\ consumed[o] \in 1 .. Len(snapshots)
    /\ o <= snapshots[consumed[o]].facts.watermark

Released == {"published", "superseded", "archived"}
QueuedWasPublished ==
  /\ outbox \in Seq(Versions)
  /\ \A o \in 1 .. Len(outbox) : status[outbox[o]] \in Released

Undisturbed(v) == Live(v) /\ ~WasSuspended(v)
LiveAreCovered ==
  \A o \in 1 .. Len(outbox), n \in 1 .. Len(snapshots) :
    Undisturbed(outbox[o]) /\ o <= snapshots[n].facts.watermark => outbox[o] \in snapshots[n].rows

Indexes == /\ ClaimsInTurn /\ SnapshotsStand /\ SnapshotsInOrder /\ RowsAreCovered
           /\ QueuedWasPublished /\ LiveAreCovered

-----------------------------------------------------------------------------
(* What the governance of the cards does to the ledgers and to the outbox *)

LedgersOnlyGrow ==
  \A v \in Versions :
    /\ Len(events[v]) <= Len(events'[v])
    /\ \A n \in 1 .. Len(events[v]) : events'[v][n] = events[v][n]

StaysReleased == \A v \in Versions : status[v] \in Released => status'[v] \in Released

Growth == LedgersOnlyGrow /\ StaysReleased

LEMMA RecordGrows ==
  ASSUME Typed, NEW e, DOMAIN e \subseteq Versions, Record(e),
         \A v \in DOMAIN e : e[v] \in EventTypes /\ (e[v] = "review" => ~Stored(v))
  PROVE  Growth
<1>1. ASSUME NEW v \in Versions \ DOMAIN e
      PROVE  events'[v] = events[v] /\ status'[v] = status[v] /\ events[v] \in Seq(Entries)
  BY <1>1, RecordMoves DEF Typed
<1>2. ASSUME NEW v \in DOMAIN e
      PROVE  /\ Len(events[v]) <= Len(events'[v])
             /\ \A n \in 1 .. Len(events[v]) : events'[v][n] = events[v][n]
             /\ status[v] \in Released => status'[v] \in Released
  <2> DEFINE s == Event(Current(v), e[v])
             entry == [type |-> e[v], after |-> s]
  <2>1. events'[v] = Append(events[v], entry) /\ status'[v] = s.status
    BY <1>2, RecordMoves
  <2>2. Current(v) \in States /\ Current(v).status = status[v]
    BY CurrentState DEF Current
  <2>3. events[v] \in Seq(Entries) /\ entry \in Entries
    BY <2>2, EventStates DEF Typed, Entries
  <2>4. status[v] \in Released => s.status \in Released
    BY <2>2 DEF Event, States, Statuses, EventTypes, Released, Stored
  <2> HIDE DEF s, entry
  <2> QED
    BY <2>1, <2>3, <2>4
<1>3. LedgersOnlyGrow
  BY <1>1, <1>2 DEF LedgersOnlyGrow
<1>4. StaysReleased
  BY <1>1, <1>2 DEF StaysReleased
<1> QED
  BY <1>3, <1>4 DEF Growth

\* One kind of event, to every version of a set.
LEMMA RecordAllGrows ==
  ASSUME Typed, NEW V, V \subseteq Versions, NEW type \in EventTypes,
         Record([v \in V |-> type]), type = "review" => \A v \in V : ~Stored(v)
  PROVE  Growth
<1> DEFINE e == [v \in V |-> type]
<1>1. DOMAIN e = V /\ Record(e) /\ \A v \in DOMAIN e : e[v] = type
  OBVIOUS
<1> HIDE DEF e
<1> QED
  BY <1>1, RecordGrows

LEMMA UnchangedGrows == ASSUME Typed, events' = events, status' = status PROVE Growth
BY DEF Typed, Growth, LedgersOnlyGrow, StaysReleased

LEMMA InsertGrows ==
  ASSUME Typed, NEW drafts, drafts \subseteq Drafts, InsertCards(drafts)
  PROVE  Growth
<1> DEFINE new == {d \in drafts : ~Stored(d)}
<1>1. Record([v \in new |-> "review"]) /\ new \subseteq Versions /\ \A v \in new : ~Stored(v)
  BY DEF InsertCards, Register, Versions
<1> HIDE DEF new
<1> QED
  BY <1>1, RecordAllGrows DEF EventTypes

LEMMA ReleaseGrows ==
  ASSUME Typed, NEW d \in Drafts, ReleaseNew(d) \/ \E w : ReleaseDuplicate(d, w)
  PROVE  Growth
<1> DEFINE r == ReleaseOf[d]
<1>1. r \in Versions /\ Superseded(r) \subseteq Versions
  BY CardsAssumption DEF Versions, Superseded
<1>2. CASE ReleaseNew(d)
  <2> DEFINE e == [v \in {r} \cup Superseded(r) |-> IF v = r THEN "release" ELSE "supersede"]
  <2>1. Record(e) /\ DOMAIN e \subseteq Versions /\ \A v \in DOMAIN e : e[v] \in {"release", "supersede"}
    BY <1>1, <1>2 DEF ReleaseNew
  <2> HIDE DEF e
  <2> QED
    BY <2>1, RecordGrows DEF EventTypes
<1>3. CASE \E w : ReleaseDuplicate(d, w)
  <2>1. Record([v \in {r} |-> "duplicate"])
    BY <1>3 DEF ReleaseDuplicate
  <2> QED
    BY <1>1, <2>1, RecordAllGrows DEF EventTypes
<1> QED
  BY <1>2, <1>3

\* The replay of the ledgers changes nothing.
LEMMA RebuildGrows == ASSUME IInv, Rebuild PROVE Growth
<1>1. events' = events /\ \A v \in Versions : status'[v] = Replayed(v).status
  BY DEF Rebuild
<1>2. \A v \in Versions : Replayed(v).status = status[v]
  BY DEF IInv, Ledgers, ProjectionFollows, Current
<1> QED
  BY <1>1, <1>2 DEF IInv, Ledgers, Typed, Growth, LedgersOnlyGrow, StaysReleased

\* The row a publication queues is of a version that is published by it.
Queues == \/ outbox' = outbox
          \/ \E w \in Versions : outbox' = Append(outbox, w) /\ status'[w] = "published"

LEMMA RunPublishGrows == ASSUME IInv, NEW j \in Jobs, RunPublish(j) PROVE Growth /\ Queues
<1>1. PICK w \in Versions : /\ Publishes(Submits[j], w)
                            /\ status'[w] = "published" /\ outbox' = Append(outbox, w)
  BY DEF RunPublish
<1>2. Typed /\ Submits[j] \in Drafts
  BY CardsAssumption DEF IInv, Ledgers
<1>3. UNCHANGED lifecycleVars => Growth
  BY <1>2, UnchangedGrows DEF lifecycleVars
<1>4. ReleaseNew(Submits[j]) \/ ReleaseDuplicate(Submits[j], w) => Growth
  BY <1>2, ReleaseGrows
<1>5. Growth
  BY <1>1, <1>3, <1>4 DEF Publishes
<1> QED
  BY <1>1, <1>5 DEF Queues

\* Ledgers only grow, versions that came out stay out of review, and what is queued
\* is published.
LEMMA CardsGrow == ASSUME IInv, CardsNext PROVE Growth /\ Queues
<1>0. Typed
  BY DEF IInv, Ledgers
<1>1. CASE \E v \in Suspendable : Suspend(v) \/ Reinstate(v)
  <2>1. PICK v \in Suspendable : Suspend(v) \/ Reinstate(v)
    BY <1>1
  <2>2. {v} \subseteq Versions
    BY CardsAssumption
  <2>3. PICK type \in {"suspend", "reinstate"} : Record([w \in {v} |-> type])
    BY <2>1 DEF Suspend, Reinstate
  <2>4. Growth
    BY <1>0, <2>2, <2>3, RecordAllGrows DEF EventTypes
  <2> QED
    BY <2>1, <2>4 DEF Suspend, Reinstate, Queues
<1>2. CASE Rebuild
  BY <1>2, RebuildGrows DEF Rebuild, Queues
<1>3. CASE \E t \in DOMAIN decision, answer \in Answers : RunReview(t, answer)
  BY <1>0, <1>3, UnchangedGrows DEF RunReview, lifecycleVars, Queues
<1>4. CASE \E t \in DOMAIN decision, target \in Versions : LinkDuplicate(t, target)
  <2>1. PICK t \in DOMAIN decision : /\ Record([w \in {t.subject} |-> "archive"])
                                     /\ t.kind = "near-duplicate" /\ outbox' = outbox
    BY <1>4 DEF LinkDuplicate
  <2>2. {t.subject} \subseteq Versions
    BY <2>1 DEF IInv, ScansAreOfDrafts, Versions
  <2>3. Growth
    BY <1>0, <2>1, <2>2, RecordAllGrows DEF EventTypes
  <2> QED
    BY <2>1, <2>3 DEF Queues
<1>5. CASE \E s \in suggested, answer \in Answers : RunUpgrade(s, answer)
  BY <1>0, <1>5, UnchangedGrows DEF RunUpgrade, lifecycleVars, Queues
<1>6. CASE \E d \in Imported : Import(d)
  <2>1. PICK d \in Imported : InsertCards({d}) /\ outbox' = outbox
    BY <1>6 DEF Import
  <2>2. {d} \subseteq Drafts
    BY DEF Drafts
  <2> QED
    BY <1>0, <2>1, <2>2, InsertGrows DEF Queues
<1>7. CASE \E d \in Direct : PublishDirect(d)
  <2>1. PICK d \in Direct : PublishDirect(d)
    BY <1>7
  <2>2. d \in Drafts
    BY CardsAssumption
  <2>3. ReleaseNew(d) \/ \E w : ReleaseDuplicate(d, w)
    BY <2>1 DEF PublishDirect
  <2> QED
    BY <1>0, <2>1, <2>2, <2>3, ReleaseGrows DEF PublishDirect, Queues
<1>8. CASE ReadAffected \/ AbandonProposal
  BY <1>0, <1>8, UnchangedGrows DEF ReadAffected, AbandonProposal, lifecycleVars, Queues
<1>9. CASE ProposeUpgrades
  <2> DEFINE new == Absent(Unmade(proposal))
  <2>1. InsertCards(new) /\ outbox' = outbox
    BY <1>9 DEF ProposeUpgrades
  <2>2. new \subseteq Drafts
    BY DEF Absent, Unmade, Asked, Drafts
  <2> HIDE DEF new
  <2> QED
    BY <1>0, <2>1, <2>2, InsertGrows DEF Queues
<1>10. CASE \E j \in Jobs : RunPublish(j)
  BY <1>10, RunPublishGrows
<1> QED
  BY <1>1, <1>2, <1>3, <1>4, <1>5, <1>6, <1>7, <1>8, <1>9, <1>10 DEF CardsNext

-----------------------------------------------------------------------------
(* The snapshots *)

\* A version that is live has the event that made it so.
LEMMA LiveIsOnRecord ==
  ASSUME IInv, NEW v \in Versions, Live(v)
  PROVE  /\ Len(events[v]) \in DOMAIN events[v]
         /\ events[v][Len(events[v])].after = [status |-> "published", suspended |-> FALSE]
<1>1. events[v] \in Seq(Entries) /\ Replayed(v) = Current(v)
  BY DEF IInv, Ledgers, Typed, ProjectionFollows
<1>2. Current(v) = [status |-> "published", suspended |-> FALSE]
  <2>1. (v \in suspended) = FALSE
    BY DEF Live
  <2> QED
    BY <2>1, Zenon DEF Live, Current
<1>3. Len(events[v]) # 0
  BY <1>1, <1>2 DEF Replayed, After, Unborn
<1> QED
  BY <1>1, <1>2, <1>3 DEF Replayed, After

\* What is sealed is true at that moment, and has every live version.
LEMMA CandidateStands ==
  ASSUME IInv, outbox \in Seq(Versions)
  PROVE  /\ Stands(Candidate) /\ Candidate \in Sealable
         /\ Candidate.facts.watermark = Len(outbox)
         /\ \A v \in Versions : Live(v) => v \in Candidate.rows
<1>1. Candidate.facts = IndexState /\ Candidate.rows = CandidateRows(IndexState)
  BY DEF Candidate
<1>2. /\ IndexState.eligible = [v \in Eligible |-> Len(events[v])]
      /\ IndexState.watermark = Len(outbox)
  BY DEF IndexState
<1>3. DOMAIN IndexState.eligible = Eligible /\ Eligible \subseteq Versions
  BY <1>2 DEF Eligible
<1>4. FactsStand(IndexState)
  <2>1. ASSUME NEW v \in Eligible
        PROVE  /\ IndexState.eligible[v] \in DOMAIN events[v]
               /\ events[v][IndexState.eligible[v]].after = [status |-> "published", suspended |-> FALSE]
    BY <1>2, LiveIsOnRecord DEF Eligible
  <2>2. IndexState.watermark <= Len(outbox)
    BY <1>2
  <2> QED
    BY <1>3, <2>1, <2>2 DEF FactsStand
<1>5. IndexState \in [eligible : UNION {[V -> Nat] : V \in SUBSET Versions}, watermark : Nat]
  <2>1. Len(outbox) \in Nat
    OBVIOUS
  <2>2. \A v \in Eligible : Len(events[v]) \in Nat
    BY DEF Eligible, IInv, Ledgers, Typed
  <2>3. [v \in Eligible |-> Len(events[v])] \in UNION {[V -> Nat] : V \in SUBSET Versions}
    BY <1>3, <2>2
  <2> QED
    BY <2>1, <2>3 DEF IndexState
<1>6. Candidate \in Sealable
  BY <1>3, <1>5 DEF Candidate, CandidateRows, Sealable
<1> QED
  BY <1>1, <1>2, <1>3, <1>4, <1>6 DEF Stands, CandidateRows, Eligible

\* What is true of ledgers and of an outbox stays true when they grow.
LEMMA StandingLasts ==
  ASSUME Typed, Typed', LedgersOnlyGrow, NEW s, Stands(s),
         Len(outbox) \in Nat, Len(outbox') \in Nat, Len(outbox) <= Len(outbox')
  PROVE  Stands(s)'
<1>1. ASSUME NEW v \in DOMAIN s.facts.eligible
      PROVE  /\ s.facts.eligible[v] \in DOMAIN events'[v]
             /\ events'[v][s.facts.eligible[v]].after = [status |-> "published", suspended |-> FALSE]
  <2>1. v \in Versions /\ events[v] \in Seq(Entries) /\ events'[v] \in Seq(Entries)
    BY DEF Stands, Typed
  <2>2. /\ s.facts.eligible[v] \in DOMAIN events[v]
        /\ events[v][s.facts.eligible[v]].after = [status |-> "published", suspended |-> FALSE]
    BY DEF Stands, FactsStand
  <2>3. /\ Len(events[v]) <= Len(events'[v])
        /\ \A n \in 1 .. Len(events[v]) : events'[v][n] = events[v][n]
    BY <2>1 DEF LedgersOnlyGrow
  <2>4. /\ DOMAIN events[v] = 1 .. Len(events[v]) /\ DOMAIN events'[v] = 1 .. Len(events'[v])
        /\ Len(events[v]) \in Nat /\ Len(events'[v]) \in Nat
    BY <2>1
  <2> QED
    BY <2>2, <2>3, <2>4
<1>2. s.facts.watermark <= Len(outbox')
  BY DEF Stands, FactsStand
<1> QED
  BY <1>1, <1>2 DEF Stands, FactsStand

\* The governance disturbs nothing of the index: what is undisturbed after a step
\* was so before.
LEMMA CardsKeep == ASSUME IInv, Indexes, CardsNext, UNCHANGED indexVars PROVE Indexes'
<1>1. Growth /\ Queues /\ Kept
  BY CardsGrow, CardsStepKeeps
<1>2. claims' = claims /\ consumed' = consumed /\ snapshots' = snapshots
  BY DEF indexVars
<1>3. Typed /\ Typed' /\ outbox \in Seq(Versions)
  BY <1>1 DEF Kept, IInv, Ledgers, Indexes, QueuedWasPublished
<1>4. /\ outbox' \in Seq(Versions) /\ Len(outbox) <= Len(outbox')
      /\ Len(outbox) \in Nat /\ Len(outbox') \in Nat
      /\ \A o \in 1 .. Len(outbox) : outbox'[o] = outbox[o]
      /\ \A o \in 1 .. Len(outbox') : o \in 1 .. Len(outbox) \/ status'[outbox'[o]] = "published"
  BY <1>1, <1>3 DEF Queues
<1>5. ClaimsInTurn'
  BY <1>2, <1>3, <1>4 DEF Indexes, ClaimsInTurn, InTurn, Rows
<1>6. SnapshotsStand'
  BY <1>1, <1>2, <1>3, <1>4, StandingLasts DEF Indexes, SnapshotsStand, Growth
<1>7. SnapshotsInOrder' /\ RowsAreCovered'
  BY <1>2 DEF Indexes, SnapshotsInOrder, RowsAreCovered
<1>8. QueuedWasPublished'
  <2>1. \A o \in 1 .. Len(outbox) : outbox[o] \in Versions /\ status'[outbox[o]] \in Released
    BY <1>1, <1>3 DEF Growth, StaysReleased, Indexes, QueuedWasPublished
  <2> QED
    BY <1>4, <2>1 DEF QueuedWasPublished, Released
<1>9. ASSUME NEW v \in Versions, Undisturbed(v)', status[v] \in Released
      PROVE  Undisturbed(v)
  <2>1. status[v] = "published"
    BY <1>1, <1>9 DEF Kept, StaysReplaced, Released, Undisturbed, Live
  <2>2. events[v] \in Seq(Entries) /\ events'[v] \in Seq(Entries)
    BY <1>3 DEF Typed
  <2>3. WasSuspended(v) => WasSuspended(v)'
    BY <1>1, <2>2 DEF Growth, LedgersOnlyGrow, WasSuspended
  <2>4. ~WasSuspended(v)
    BY <1>9, <2>3 DEF Undisturbed
  <2> QED
    BY <2>1, <2>4 DEF Undisturbed, Live, IInv, Ledgers, SuspendedWas
<1>10. LiveAreCovered'
  <2> SUFFICES ASSUME NEW o \in 1 .. Len(outbox'), NEW n \in 1 .. Len(snapshots),
                      NEW v, v = outbox'[o], Undisturbed(v)', o <= snapshots[n].facts.watermark
               PROVE  v \in snapshots[n].rows
    BY <1>2 DEF LiveAreCovered, Undisturbed, Live, WasSuspended
  <2>1. o \in 1 .. Len(outbox)
    BY <1>4 DEF Indexes, SnapshotsStand, Stands, FactsStand
  <2>2. v = outbox[o] /\ v \in Versions /\ status[v] \in Released
    BY <1>3, <1>4, <2>1 DEF Indexes, QueuedWasPublished
  <2>3. Undisturbed(v)
    BY <1>9, <2>2
  <2> QED
    BY <2>1, <2>2, <2>3 DEF Indexes, LiveAreCovered
<1> QED
  BY <1>5, <1>6, <1>7, <1>8, <1>10 DEF Indexes

-----------------------------------------------------------------------------
(* Claims *)

\* Rows have numbers, so some free row is the oldest: of the intervals that end in
\* one, a minimal one exists.
LEMMA OldestIsFree ==
  ASSUME outbox \in Seq(Versions), NEW c, Free(c) # {}
  PROVE  Next1(c) \in Free(c)
<1> DEFINE older == {1 .. o : o \in Free(c)}
           R == StrictSubsetOrdering(Nat)
<1>1. \A o \in Free(c) : o \in Nat /\ o >= 1
  BY DEF Free, Rows
<1>2. older \subseteq FiniteSubsetsOf(Nat) /\ older # {}
  <2>1. \A o \in Free(c) : IsFiniteSet(1 .. o) /\ 1 .. o \subseteq Nat
    BY <1>1, FS_Interval
  <2> QED
    BY <2>1 DEF FiniteSubsetsOf
<1>3. IsWellFoundedOn(R, FiniteSubsetsOf(Nat))
  BY FS_StrictSubsetOrderingWellFounded
<1> HIDE DEF R
<1>4. \E x \in older : \A y \in older : ~ (<<y, x>> \in R)
  <2> HIDE DEF older
  <2> QED
    BY <1>2, <1>3, WFMin, Zenon
<1>5. PICK o \in Free(c) : \A p \in Free(c) : ~ (<<1 .. p, 1 .. o>> \in R)
  BY <1>4
<1>6. ASSUME NEW p \in Free(c) PROVE o <= p
  <2> SUFFICES ASSUME p < o PROVE FALSE
    BY <1>1
  <2>1. 1 .. p \subseteq 1 .. o /\ o \in 1 .. o /\ o \notin 1 .. p
    BY <1>1
  <2>2. 1 .. p # 1 .. o
    BY <2>1
  <2>3. 1 .. p \in SUBSET Nat /\ 1 .. o \in SUBSET Nat
    BY <1>1
  <2>4. <<1 .. p, 1 .. o>> \in R
    BY <2>1, <2>2, <2>3 DEF R, StrictSubsetOrdering
  <2> QED
    BY <1>5, <2>4
<1> QED
  BY <1>6 DEF Next1

LEMMA ExpiryKeeps ==
  ASSUME NEW c, NEW done, InTurn(c, done)
  PROVE  InTurn(Expired(c), done)
<1> DEFINE d == Expired(c)
           after(o, n) == IF c[o][n].state = "overdue" THEN [c[o][n] EXCEPT !.state = "expired"]
                          ELSE c[o][n]
<1>1. DOMAIN d = DOMAIN c /\ d = [o \in DOMAIN d |-> d[o]]
  BY DEF Expired
<1>2. ASSUME NEW o \in DOMAIN c
      PROVE  /\ d[o] \in Seq(Entry) /\ Len(d[o]) = Len(c[o]) /\ Len(c[o]) > 0
             /\ \A n \in 1 .. Len(c[o]) : d[o][n] = after(o, n)
  <2>1. c[o] \in Seq(Entry) /\ Len(c[o]) \in Nat /\ DOMAIN c[o] = 1 .. Len(c[o]) /\ Len(c[o]) > 0
    BY DEF InTurn
  <2>2. d[o] = [n \in 1 .. Len(c[o]) |-> after(o, n)]
    BY <2>1 DEF Expired
  <2>3. ASSUME NEW n \in 1 .. Len(c[o]) PROVE after(o, n) \in Entry
    <3>1. c[o][n] \in Entry
      BY <2>1
    <3>2. [c[o][n] EXCEPT !.state = "expired"] \in Entry
      BY <3>1 DEF Entry, ClaimStates
    <3> QED
      BY <3>1, <3>2
  <2> HIDE DEF after, d
  <2> QED
    BY <2>1, <2>2, <2>3
<1>3. ASSUME NEW o \in DOMAIN c, NEW n \in 1 .. Len(c[o])
      PROVE  /\ after(o, n).state = "succeeded" <=> c[o][n].state = "succeeded"
             /\ c[o][n].state \in {"expired", "failed"} => after(o, n) = c[o][n]
  <2>1. c[o][n] \in Entry
    BY DEF InTurn
  <2> QED
    BY <2>1 DEF Entry
<1> HIDE DEF d, after
<1>4. ASSUME NEW o \in DOMAIN c
      PROVE  /\ \A n \in 1 .. Len(d[o]) : n # Len(d[o]) => d[o][n].state \in {"expired", "failed"}
             /\ o \in done <=> d[o][Len(d[o])].state = "succeeded"
  <2>1. Len(c[o]) \in 1 .. Len(c[o])
    BY DEF InTurn
  <2>2. d[o][Len(c[o])].state = "succeeded" <=> c[o][Len(c[o])].state = "succeeded"
    BY <1>2, <1>3, <2>1
  <2>3. \A n \in 1 .. Len(c[o]) : n # Len(c[o]) => d[o][n] = c[o][n] /\ c[o][n].state \in {"expired", "failed"}
    BY <1>2, <1>3 DEF InTurn
  <2>4. Len(d[o]) = Len(c[o])
    BY <1>2
  <2>5. o \in done <=> c[o][Len(c[o])].state = "succeeded"
    BY DEF InTurn
  <2> QED
    BY <2>2, <2>3, <2>4, <2>5
<1>5. DOMAIN d \subseteq Rows /\ done \subseteq DOMAIN d
  BY <1>1 DEF InTurn
<1>6. \A o \in DOMAIN c : d[o] \in Seq(Entry) /\ Len(d[o]) > 0
  BY <1>2
<1>7. InTurn(d, done)
  BY <1>1, <1>4, <1>5, <1>6 DEF InTurn
<1> QED
  BY <1>7 DEF d

\* A row that is free has no claim, or its last one was lost: it can be claimed.
LEMMA ClaimingKeeps ==
  ASSUME NEW c, InTurn(c, DOMAIN consumed), NEW o \in Free(c), NEW claim \in Entry,
         NEW done, \/ claim.state = "held" /\ done = DOMAIN consumed
                   \/ claim.state = "succeeded" /\ done = DOMAIN consumed \cup {o}
  PROVE  InTurn(WithClaim(c, o, claim), done)
<1> DEFINE d == WithClaim(c, o, claim)
<1>1. /\ DOMAIN d = DOMAIN c \cup {o} /\ d[o] = Append(ClaimsOf(c, o), claim)
      /\ \A p \in DOMAIN c \ {o} : d[p] = c[p]
      /\ d = [p \in DOMAIN d |-> d[p]]
  BY DEF WithClaim
<1>2. o \in Rows /\ o \notin DOMAIN consumed /\ ~Unresolved(c, o)
  BY DEF Free
<1>3. /\ ClaimsOf(c, o) \in Seq(Entry)
      /\ \A n \in 1 .. Len(ClaimsOf(c, o)) : ClaimsOf(c, o)[n].state \in {"expired", "failed"}
  <2>1. CASE o \notin DOMAIN c
    BY <2>1 DEF ClaimsOf
  <2>2. CASE o \in DOMAIN c
    <3>1. /\ ClaimsOf(c, o) = c[o] /\ c[o] \in Seq(Entry) /\ Len(c[o]) > 0
          /\ \A n \in 1 .. Len(c[o]) : n # Len(c[o]) => c[o][n].state \in {"expired", "failed"}
          /\ c[o][Len(c[o])].state # "succeeded"
      BY <1>2, <2>2 DEF InTurn, ClaimsOf
    <3>2. c[o][Len(c[o])] \in Entry /\ Len(c[o]) \in DOMAIN c[o]
      BY <3>1
    <3>3. c[o][Len(c[o])].state \notin {"held", "overdue"}
      BY <1>2, <3>1, <3>2 DEF Unresolved
    <3> QED
      BY <3>1, <3>2, <3>3 DEF Entry, ClaimStates
  <2> QED
    BY <2>1, <2>2
<1>4. /\ d[o] \in Seq(Entry) /\ Len(d[o]) = Len(ClaimsOf(c, o)) + 1 /\ Len(ClaimsOf(c, o)) \in Nat
      /\ d[o][Len(d[o])] = claim
      /\ \A n \in 1 .. Len(ClaimsOf(c, o)) : d[o][n] = ClaimsOf(c, o)[n]
  BY <1>1, <1>3
<1> HIDE DEF d
<1>5. DOMAIN d \subseteq Rows /\ done \subseteq DOMAIN d
  BY <1>1, <1>2 DEF InTurn
<1>6. ASSUME NEW p \in DOMAIN d
      PROVE  /\ d[p] \in Seq(Entry) /\ Len(d[p]) > 0
             /\ \A n \in 1 .. Len(d[p]) : n # Len(d[p]) => d[p][n].state \in {"expired", "failed"}
             /\ p \in done <=> d[p][Len(d[p])].state = "succeeded"
  <2>1. CASE p = o
    BY <1>2, <1>3, <1>4, <2>1
  <2>2. CASE p # o
    BY <1>1, <1>6, <2>2 DEF InTurn
  <2> QED
    BY <2>1, <2>2
<1> QED
  BY <1>1, <1>5, <1>6 DEF InTurn, d

\* A claim in somebody's hands is the last of its row, and gets its result.
LEMMA ResultKeeps ==
  ASSUME ClaimsInTurn, NEW o \in DOMAIN claims, NEW n \in DOMAIN claims[o],
         claims[o][n].state = "held", NEW result \in {"overdue", "failed", "succeeded"},
         NEW done, done = (IF result = "succeeded" THEN DOMAIN consumed \cup {o} ELSE DOMAIN consumed)
  PROVE  InTurn([claims EXCEPT ![o][n].state = result], done) /\ o \notin DOMAIN consumed
<1> DEFINE d == [claims EXCEPT ![o][n].state = result]
<1>1. /\ claims[o] \in Seq(Entry) /\ Len(claims[o]) \in Nat /\ DOMAIN claims[o] = 1 .. Len(claims[o])
      /\ claims = [p \in DOMAIN claims |-> claims[p]]
  BY DEF ClaimsInTurn, InTurn
<1>2. n = Len(claims[o]) /\ o \notin DOMAIN consumed
  BY <1>1 DEF ClaimsInTurn, InTurn
<1>3. claims[o][n] \in Entry
  BY <1>1
<1>4. [claims[o][n] EXCEPT !.state = result] \in Entry
      /\ [claims[o][n] EXCEPT !.state = result].state = result
  BY <1>3 DEF Entry, ClaimStates
<1>5. /\ DOMAIN d = DOMAIN claims
      /\ d[o] = [claims[o] EXCEPT ![n] = [claims[o][n] EXCEPT !.state = result]]
      /\ \A p \in DOMAIN claims \ {o} : d[p] = claims[p]
      /\ d = [p \in DOMAIN d |-> d[p]]
  OBVIOUS
<1> HIDE DEF d
<1>6. /\ d[o] \in Seq(Entry) /\ Len(d[o]) = Len(claims[o])
      /\ d[o][n].state = result
      /\ \A m \in 1 .. Len(claims[o]) : m # n => d[o][m] = claims[o][m]
  BY <1>1, <1>4, <1>5
<1>7. DOMAIN d \subseteq Rows /\ done \subseteq DOMAIN d
  BY <1>5 DEF ClaimsInTurn, InTurn
<1>8. ASSUME NEW p \in DOMAIN d
      PROVE  /\ d[p] \in Seq(Entry) /\ Len(d[p]) > 0
             /\ \A m \in 1 .. Len(d[p]) : m # Len(d[p]) => d[p][m].state \in {"expired", "failed"}
             /\ p \in done <=> d[p][Len(d[p])].state = "succeeded"
  <2>1. CASE p = o
    BY <1>1, <1>2, <1>6, <2>1 DEF ClaimsInTurn, InTurn
  <2>2. CASE p # o
    BY <1>5, <1>8, <2>2 DEF ClaimsInTurn, InTurn
  <2> QED
    BY <2>1, <2>2
<1> QED
  BY <1>2, <1>5, <1>7, <1>8 DEF InTurn, d

-----------------------------------------------------------------------------
(* Steps of the index *)

CardsStay == UNCHANGED <<events, status, suspended, outbox>>
SnapshotParts == SnapshotsStand /\ SnapshotsInOrder /\ RowsAreCovered /\ LiveAreCovered

\* Sealing the present state and consuming a row with it.
LEMMA ConsumingKeeps ==
  ASSUME IInv, Indexes, CardsStay, NEW o \in Rows, Consume(o)
  PROVE  SnapshotParts' /\ DOMAIN consumed' = DOMAIN consumed \cup {o}
<1>1. /\ snapshots' = Sealed
      /\ consumed' = [p \in DOMAIN consumed \cup {o} |->
                        IF p = o THEN SnapshotOf(Sealed) ELSE consumed[p]]
  BY DEF Consume
<1>2. /\ snapshots \in Seq(Sealable) /\ outbox \in Seq(Versions) /\ o \in 1 .. Len(outbox)
      /\ Len(outbox) \in Nat /\ Len(snapshots) \in Nat
  BY DEF Indexes, SnapshotsStand, QueuedWasPublished, Rows
<1>3. /\ Stands(Candidate) /\ Candidate \in Sealable /\ Candidate.facts.watermark = Len(outbox)
      /\ \A v \in Versions : Live(v) => v \in Candidate.rows
  BY <1>2, CandidateStands
<1>4. \A n \in 1 .. Len(snapshots) : /\ Stands(snapshots[n])
                                     /\ snapshots[n].facts.watermark <= Len(outbox)
                                     /\ snapshots[n].facts.watermark \in Nat
  BY DEF Indexes, SnapshotsStand, Stands, FactsStand
<1>5. /\ Sealed \in Seq(Sealable)
      /\ \A n \in 1 .. Len(snapshots) : Sealed[n] = snapshots[n]
      /\ \A n \in 1 .. Len(Sealed) : n \in 1 .. Len(snapshots)
                                     \/ (Sealed[n] = Candidate /\ \A m \in 1 .. Len(Sealed) : m <= n)
      /\ Len(snapshots) <= Len(Sealed) /\ Len(Sealed) \in Nat
      /\ \E n \in 1 .. Len(Sealed) : Sealed[n] = Candidate
  <2>1. CASE Contains(snapshots, Candidate)
    <3>1. Sealed = snapshots
      BY <2>1 DEF Sealed
    <3>2. \E n \in 1 .. Len(snapshots) : snapshots[n] = Candidate
      BY <2>1 DEF Contains
    <3> HIDE DEF Candidate
    <3> QED
      BY <1>2, <3>1, <3>2
  <2>2. CASE ~Contains(snapshots, Candidate)
    <3>1. Sealed = Append(snapshots, Candidate)
      BY <2>2 DEF Sealed
    <3>2. /\ Len(Sealed) = Len(snapshots) + 1 /\ Sealed \in Seq(Sealable)
          /\ Sealed[Len(snapshots) + 1] = Candidate
          /\ \A n \in 1 .. Len(snapshots) : Sealed[n] = snapshots[n]
      BY <1>2, <1>3, <3>1
    <3>3. Len(snapshots) + 1 \in 1 .. Len(Sealed)
      BY <1>2, <3>2
    <3>4. \E n \in 1 .. Len(Sealed) : Sealed[n] = Candidate
      BY <3>2, <3>3
    <3>5. ASSUME NEW n \in 1 .. Len(Sealed)
          PROVE  n \in 1 .. Len(snapshots)
                 \/ (Sealed[n] = Candidate /\ \A m \in 1 .. Len(Sealed) : m <= n)
      BY <1>2, <3>2
    <3> QED
      BY <1>2, <3>2, <3>4, <3>5
  <2> QED
    BY <2>1, <2>2
<1>6. SnapshotOf(Sealed) \in 1 .. Len(Sealed) /\ Sealed[SnapshotOf(Sealed)] = Candidate
  <2>1. DOMAIN Sealed = 1 .. Len(Sealed)
    BY <1>5
  <2> QED
    BY <1>5, <2>1 DEF SnapshotOf
<1>7. \A s : Stands(s) => Stands(s)'
  BY DEF Stands, FactsStand, CardsStay
<1>8. SnapshotsStand'
  <2>1. \A n \in 1 .. Len(Sealed) : Stands(Sealed[n])
    BY <1>3, <1>4, <1>5
  <2>2. \A n \in 1 .. Len(snapshots') : Stands(snapshots'[n])
    BY <1>1, <2>1
  <2>3. \A n \in 1 .. Len(snapshots') : Stands(snapshots[n])'
    BY <2>2 DEF Stands, FactsStand, CardsStay
  <2> QED
    BY <1>1, <1>5, <2>3 DEF SnapshotsStand
<1>9. SnapshotsInOrder'
  <2> SUFFICES ASSUME NEW m \in 1 .. Len(Sealed), NEW n \in 1 .. Len(Sealed), m <= n
               PROVE  Sealed[m].facts.watermark <= Sealed[n].facts.watermark
    BY <1>1 DEF SnapshotsInOrder
  <2>1. CASE n \in 1 .. Len(snapshots)
    <3>1. m \in 1 .. Len(snapshots)
      BY <1>2, <2>1
    <3> QED
      BY <1>5, <2>1, <3>1 DEF Indexes, SnapshotsInOrder
  <2>2. CASE n \notin 1 .. Len(snapshots)
    <3>1. Sealed[n].facts.watermark = Len(outbox)
      BY <1>3, <1>5, <2>2
    <3>2. Sealed[m].facts.watermark <= Len(outbox)
      BY SMTT(20), <1>2, <1>3, <1>4, <1>5
    <3> QED
      BY <3>1, <3>2
  <2> QED
    BY <2>1, <2>2
<1>10. RowsAreCovered'
  <2>1. ASSUME NEW p \in DOMAIN consumed'
        PROVE  /\ consumed'[p] \in 1 .. Len(Sealed)
               /\ p <= Sealed[consumed'[p]].facts.watermark
    <3>1. CASE p = o
      BY <1>1, <1>2, <1>3, <1>6, <3>1
    <3>2. CASE p # o
      <4>1. p \in DOMAIN consumed /\ consumed'[p] = consumed[p]
        BY <1>1, <2>1, <3>2
      <4>2. consumed[p] \in 1 .. Len(snapshots) /\ p <= snapshots[consumed[p]].facts.watermark
        BY <4>1 DEF Indexes, RowsAreCovered
      <4> QED
        BY <1>2, <1>5, <4>1, <4>2
    <3> QED
      BY <3>1, <3>2
  <2> QED
    BY <1>1, <2>1 DEF RowsAreCovered
<1>11. LiveAreCovered'
  <2> SUFFICES ASSUME NEW p \in 1 .. Len(outbox), NEW n \in 1 .. Len(Sealed),
                      Undisturbed(outbox[p]), p <= Sealed[n].facts.watermark
               PROVE  outbox[p] \in Sealed[n].rows
    BY <1>1 DEF LiveAreCovered, CardsStay, Undisturbed, Live, WasSuspended
  <2>1. CASE n \in 1 .. Len(snapshots)
    BY <1>5, <2>1 DEF Indexes, LiveAreCovered
  <2>2. CASE n \notin 1 .. Len(snapshots)
    <3>1. outbox[p] \in Versions /\ Live(outbox[p])
      BY <1>2 DEF Undisturbed
    <3> QED
      BY <1>3, <1>5, <2>2, <3>1
  <2> QED
    BY <2>1, <2>2
<1> QED
  BY <1>1, <1>8, <1>9, <1>10, <1>11 DEF SnapshotParts

\* Steps that seal nothing.
LEMMA SnapshotsStay ==
  ASSUME IInv, Indexes, CardsStay, UNCHANGED <<consumed, snapshots>>
  PROVE  SnapshotParts' /\ QueuedWasPublished'
<1>1. SnapshotsStand'
  BY DEF Indexes, SnapshotsStand, Stands, FactsStand, CardsStay
<1>2. SnapshotsInOrder' /\ RowsAreCovered'
  BY DEF Indexes, SnapshotsInOrder, RowsAreCovered
<1>3. LiveAreCovered' /\ QueuedWasPublished'
  BY DEF Indexes, LiveAreCovered, QueuedWasPublished, CardsStay, Undisturbed, Live, WasSuspended
<1> QED
  BY <1>1, <1>2, <1>3 DEF SnapshotParts

LEMMA ClaimsStay ==
  ASSUME CardsStay, NEW done, InTurn(claims', done), DOMAIN consumed' = done
  PROVE  ClaimsInTurn'
BY DEF ClaimsInTurn, InTurn, Rows, CardsStay

LEMMA IndexKeeps == ASSUME IInv, Indexes, IndexNext PROVE Indexes'
<1>1. CardsStay
  BY IndexLeavesCards DEF cardVars, CardsStay
<1>2. QueuedWasPublished'
  BY <1>1 DEF Indexes, QueuedWasPublished, CardsStay
<1>3. ClaimsInTurn /\ InTurn(claims, DOMAIN consumed) /\ outbox \in Seq(Versions)
  BY DEF Indexes, ClaimsInTurn, QueuedWasPublished
<1>4. ASSUME NEW w \in Workers, Claim(w) PROVE Indexes'
  <2> DEFINE c == Expired(claims)
             claim == [worker |-> w, state |-> "held"]
  <2>1. /\ Free(c) # {} /\ claims' = WithClaim(c, Next1(c), claim)
        /\ consumed' = consumed /\ snapshots' = snapshots
    BY <1>4 DEF Claim
  <2>2. claim \in Entry /\ claim.state = "held"
    BY DEF Entry, ClaimStates
  <2>3. InTurn(c, DOMAIN consumed) /\ Next1(c) \in Free(c)
    BY <1>3, <2>1, ExpiryKeeps, OldestIsFree
  <2> HIDE DEF c, claim
  <2>4. PICK o : o \in Free(c) /\ o = Next1(c)
    BY <2>3
  <2>5. InTurn(WithClaim(c, o, claim), DOMAIN consumed)
    BY <2>2, <2>3, <2>4, ClaimingKeeps
  <2>6. InTurn(claims', DOMAIN consumed)
    BY <2>1, <2>4, <2>5
  <2> QED
    BY <1>1, <1>2, <2>1, <2>6, ClaimsStay, SnapshotsStay DEF Indexes, SnapshotParts
<1>5. ASSUME NEW w \in Workers, Complete(w) PROVE Indexes'
  <2>0. PICK o \in DOMAIN claims : \E n \in DOMAIN claims[o] :
          /\ MayComplete(w, o, n)
          /\ claims' = WithResult(o, n, "succeeded") /\ Consume(o)
    BY <1>5 DEF Complete
  <2>1. PICK n \in DOMAIN claims[o] :
          /\ MayComplete(w, o, n)
          /\ claims' = WithResult(o, n, "succeeded") /\ Consume(o)
    BY <2>0
  <2>2. claims[o][n].state = "held" /\ o \in Rows
    BY <1>3, <2>1 DEF MayComplete, Held, InTurn
  <2>3. InTurn(claims', DOMAIN consumed \cup {o})
    BY <1>3, <2>1, <2>2, ResultKeeps DEF WithResult
  <2>4. SnapshotParts' /\ DOMAIN consumed' = DOMAIN consumed \cup {o}
    BY <1>1, <2>1, <2>2, ConsumingKeeps
  <2> QED
    BY <1>1, <1>2, <2>3, <2>4, ClaimsStay DEF Indexes, SnapshotParts
<1>6. ASSUME NEW w \in Workers, FailCompletion(w) PROVE Indexes'
  <2>0. PICK o \in DOMAIN claims : \E n \in DOMAIN claims[o] :
          MayComplete(w, o, n) /\ claims' = WithResult(o, n, "failed")
    BY <1>6 DEF FailCompletion
  <2>1. PICK n \in DOMAIN claims[o] : MayComplete(w, o, n) /\ claims' = WithResult(o, n, "failed")
    BY <2>0
  <2>2. claims[o][n].state = "held" /\ consumed' = consumed /\ snapshots' = snapshots
    BY <1>6, <2>1 DEF MayComplete, Held, FailCompletion
  <2>3. InTurn(claims', DOMAIN consumed)
    BY <1>3, <2>1, <2>2, ResultKeeps DEF WithResult
  <2> QED
    BY <1>1, <1>2, <2>2, <2>3, ClaimsStay, SnapshotsStay DEF Indexes, SnapshotParts
<1>7. ASSUME Lapse PROVE Indexes'
  <2>0. PICK o \in DOMAIN claims : \E n \in DOMAIN claims[o] :
          claims[o][n].state = "held" /\ claims' = [claims EXCEPT ![o][n].state = "overdue"]
    BY <1>7 DEF Lapse
  <2>1. PICK n \in DOMAIN claims[o] :
          claims[o][n].state = "held" /\ claims' = [claims EXCEPT ![o][n].state = "overdue"]
    BY <2>0
  <2>2. consumed' = consumed /\ snapshots' = snapshots
    BY <1>7 DEF Lapse
  <2>3. InTurn(claims', DOMAIN consumed)
    BY <1>3, <2>1, ResultKeeps
  <2> QED
    BY <1>1, <1>2, <2>2, <2>3, ClaimsStay, SnapshotsStay DEF Indexes, SnapshotParts
<1>8. ASSUME NEW o \in Rows, IndexJob(o) PROVE Indexes'
  <2> DEFINE c == Expired(claims)
             claim == [worker |-> "job", state |-> "succeeded"]
  <2>1. o \in Free(c) /\ claims' = WithClaim(c, o, claim) /\ Consume(o)
    BY <1>8 DEF IndexJob
  <2>2. claim \in Entry /\ claim.state = "succeeded"
    BY DEF Entry, ClaimStates
  <2>3. InTurn(c, DOMAIN consumed)
    BY <1>3, ExpiryKeeps
  <2> HIDE DEF c, claim
  <2>4. InTurn(claims', DOMAIN consumed \cup {o})
    BY <2>1, <2>2, <2>3, ClaimingKeeps
  <2>5. SnapshotParts' /\ DOMAIN consumed' = DOMAIN consumed \cup {o}
    BY <1>1, <2>1, ConsumingKeeps
  <2> QED
    BY <1>1, <1>2, <2>4, <2>5, ClaimsStay DEF Indexes, SnapshotParts
<1> QED
  BY <1>4, <1>5, <1>6, <1>7, <1>8 DEF IndexNext

LEMMA IndexStarts == Init => Indexes
<1> SUFFICES ASSUME Init PROVE Indexes
  OBVIOUS
<1>1. /\ outbox = <<>> /\ snapshots = <<>>
      /\ claims = [o \in {} |-> <<>>] /\ DOMAIN claims = {}
      /\ consumed = [o \in {} |-> 0] /\ DOMAIN consumed = {}
  BY DEF Init, CardsInit
<1>2. ClaimsInTurn
  BY <1>1 DEF ClaimsInTurn, InTurn
<1>3. /\ outbox \in Seq(Versions) /\ snapshots \in Seq(Sealable)
      /\ Len(outbox) = 0 /\ Len(snapshots) = 0
  BY <1>1
<1> QED
  BY <1>1, <1>2, <1>3 DEF Indexes, SnapshotsStand, SnapshotsInOrder, RowsAreCovered,
                          QueuedWasPublished, LiveAreCovered

\* Ledgers, outbox, claims and snapshots agree: the invariant of both properties.
THEOREM IndexAgrees == Spec => []Indexes
<1>1. IInv /\ Indexes /\ [Next]_vars => Indexes'
  <2> SUFFICES ASSUME IInv, Indexes, [Next]_vars PROVE Indexes'
    OBVIOUS
  <2>1. CASE UNCHANGED vars
    <3>1. CardsStay /\ consumed' = consumed /\ snapshots' = snapshots /\ claims' = claims
      BY <2>1 DEF vars, cardVars, indexVars, CardsStay
    <3>2. ClaimsInTurn'
      BY <3>1, ClaimsStay DEF Indexes, ClaimsInTurn
    <3> QED
      BY <3>1, <3>2, SnapshotsStay DEF Indexes, SnapshotParts
  <2> QED
    BY <2>1, CardsKeep, IndexKeeps DEF Next
<1> QED
  BY <1>1, IndexStarts, Invariance, PTL DEF Spec

\* A row is in one worker's hands at a time and is consumed by one success, and its
\* worker is told the same again (index_outbox.py), for any number of workers,
\* lapses, failures and jobs that race for it.
THEOREM RowsAreConsumedOnce == Spec => []OneHandPerRow
<1>1. Indexes => OneHandPerRow
  <2> SUFFICES ASSUME Indexes, NEW o \in DOMAIN claims
               PROVE  /\ Cardinality({n \in DOMAIN claims[o] : claims[o][n].state \in {"held", "overdue"}}) <= 1
                      /\ Cardinality({n \in DOMAIN claims[o] : claims[o][n].state = "succeeded"})
                           = (IF o \in DOMAIN consumed THEN 1 ELSE 0)
                      /\ o \in DOMAIN consumed => ToldAgain(o)
    BY DEF OneHandPerRow
  <2> DEFINE last == Len(claims[o])
             inHand == {n \in DOMAIN claims[o] : claims[o][n].state \in {"held", "overdue"}}
             done == {n \in DOMAIN claims[o] : claims[o][n].state = "succeeded"}
  <2>1. /\ DOMAIN claims[o] = 1 .. last /\ last \in 1 .. last
        /\ \A n \in 1 .. last : n # last => claims[o][n].state \in {"expired", "failed"}
        /\ o \in DOMAIN consumed <=> claims[o][last].state = "succeeded"
    BY DEF Indexes, ClaimsInTurn, InTurn
  <2>2. inHand \in SUBSET {last}
    BY <2>1
  <2>3. Cardinality(inHand) <= 1
    <3> HIDE DEF inHand, last
    <3>1. IsFiniteSet({last}) /\ Cardinality({last}) = 1
      BY FS_Singleton
    <3> QED
      BY <2>2, <3>1, FS_Subset
  <2>4. done = IF o \in DOMAIN consumed THEN {last} ELSE {}
    BY <2>1
  <2>5. Cardinality(done) = IF o \in DOMAIN consumed THEN 1 ELSE 0
    <3> HIDE DEF done, last
    <3> QED
      BY <2>4, FS_EmptySet, FS_Singleton
  <2>6. o \in DOMAIN consumed => ToldAgain(o)
    BY DEF ToldAgain, Reopens, Indexes, RowsAreCovered, SnapshotsStand, Stands
  <2> QED
    BY <2>3, <2>5, <2>6
<1> QED
  BY <1>1, IndexAgrees, PTL

\* A card whose publication has been indexed is found while it is live, unless it
\* has been suspended (api.py reads the last snapshot), whatever was sealed since.
THEOREM IndexedCardsAreFound == Spec => []IndexedIsFound
<1>1. Indexes => IndexedIsFound
  <2> SUFFICES ASSUME Indexes, NEW o \in DOMAIN consumed, Undisturbed(outbox[o])
               PROVE  outbox[o] \in Searchable
    BY DEF IndexedIsFound, Undisturbed
  <2> DEFINE last == Len(snapshots)
  <2>1. /\ consumed[o] \in 1 .. last /\ o <= snapshots[consumed[o]].facts.watermark
        /\ o \in 1 .. Len(outbox)
    BY DEF Indexes, RowsAreCovered, ClaimsInTurn, InTurn, Rows, QueuedWasPublished
  <2>2. last \in Nat /\ last \in 1 .. last /\ consumed[o] <= last /\ DOMAIN snapshots = 1 .. last
    BY <2>1 DEF Indexes, SnapshotsStand
  <2>3. snapshots[consumed[o]].facts.watermark <= snapshots[last].facts.watermark
    BY <2>1, <2>2 DEF Indexes, SnapshotsInOrder
  <2>4. Stands(snapshots[consumed[o]]) /\ Stands(snapshots[last])
    BY <2>1, <2>2 DEF Indexes, SnapshotsStand
  <2>5. o <= snapshots[last].facts.watermark
    BY <2>1, <2>3, <2>4 DEF Stands
  <2>6. outbox[o] \in snapshots[last].rows
    BY <2>1, <2>2, <2>5 DEF Indexes, LiveAreCovered
  <2>7. Reopens(last)
    BY <2>2, <2>4 DEF Reopens, Stands
  <2> QED
    BY <2>6, <2>7 DEF Searchable, Last
<1> QED
  BY <1>1, IndexAgrees, PTL
=============================================================================
