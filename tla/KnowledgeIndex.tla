--------------------------- MODULE KnowledgeIndex ---------------------------
(***************************************************************************)
(* The index of the published cards, composed with their governance.  A    *)
(* row of the outbox is claimed under a lease, and completing the claim    *)
(* seals a snapshot of all the cards that are eligible at that moment and  *)
(* consumes the row (index_outbox.py).  Workers that claim and complete in *)
(* two transactions (personal_orchestrator.py, embedding_live.py) meet     *)
(* index jobs, which do both in one operation (jobs.py).                   *)
(*                                                                         *)
(* Simplifications:                                                        *)
(*  - a snapshot is the content it digests: two completions that find the  *)
(*    same state seal the same one, and the rows of a candidate, the       *)
(*    vectors among them, are part of it;                                  *)
(*  - the clock only matters where a lease is compared with it.            *)
(***************************************************************************)
EXTENDS KnowledgeCards

CONSTANTS Workers,     \* workers that claim
          MaxLapses    \* bound: leases that pass unused, and completions that fail

ASSUME IndexAssumption == MaxLapses \in Nat

VARIABLES
  claims,     \* knowledge_index_outbox_claims and their results, by row and attempt
  consumed,   \* knowledge_index_outbox_consumptions: the snapshot of each consumed row
  snapshots,  \* embedding_index_snapshots, in the order of their rows
  lapses

indexVars == <<claims, consumed, snapshots, lapses>>
vars == <<cardVars, indexVars>>

\* "held" until its lease passes; the other states but "overdue" are results.
ClaimStates == {"held", "overdue", "expired", "failed", "succeeded"}

Init ==
  /\ CardsInit
  /\ claims = [o \in {} |-> <<>>]
  /\ consumed = [o \in {} |-> 0]
  /\ snapshots = <<>>
  /\ lapses = 0

-----------------------------------------------------------------------------
Rows == DOMAIN outbox
ClaimsOf(c, o) == IF o \in DOMAIN c THEN c[o] ELSE <<>>
Unresolved(c, o) == \E n \in DOMAIN ClaimsOf(c, o) : ClaimsOf(c, o)[n].state \in {"held", "overdue"}

\* Fault: claims are only closed by their workers.
ExpiredNever(c) == c

\* _append_expired_result, for every claim whose lease has passed.
Expired(c) ==
  [o \in DOMAIN c |->
     [n \in DOMAIN c[o] |-> IF c[o][n].state = "overdue" THEN [c[o][n] EXCEPT !.state = "expired"]
                            ELSE c[o][n]]]

\* Fault: a lease is what keeps a row, whether it is consumed or not.
FreeUnlessHeld(c) == {o \in Rows : ~Unresolved(c, o)}

\* The oldest row that is neither consumed nor in somebody's hands.
Free(c) == {o \in Rows : o \notin DOMAIN consumed /\ ~Unresolved(c, o)}
Next1(c) == CHOOSE o \in Free(c) : \A p \in Free(c) : o <= p

WithClaim(c, o, claim) ==
  [p \in DOMAIN c \cup {o} |-> IF p = o THEN Append(ClaimsOf(c, o), claim) ELSE c[p]]

\* claim_next_index_outbox: leases that have passed are recorded first, and free
\* their rows.
Claim(w) ==
  LET c == Expired(claims)
  IN  /\ Free(c) # {}
      /\ claims' = WithClaim(c, Next1(c), [worker |-> w, state |-> "held"])
      /\ UNCHANGED <<cardVars, consumed, snapshots, lapses>>

\* _read_index_state: the eligible cards, each with the sequence of its last event,
\* and the rows of the outbox.
Eligible == {v \in Versions : Live(v)}
IndexState == [eligible |-> [v \in Eligible |-> Len(events[v])], watermark |-> Len(outbox)]

\* The text of every eligible card is there as it should be, or nothing is sealed.
Projected == Eligible \subseteq fts

\* _insert_candidate_rows: a row of text for every eligible card, and none besides;
\* the helper passes no provider, so there are no rows of vectors.
CandidateRows(facts) == DOMAIN facts.eligible
Candidate == [facts |-> IndexState, rows |-> CandidateRows(IndexState)]

\* _insert_or_validate_candidate and _seal_snapshot: the snapshot of a state
\* that has one is used again.
Sealed == IF Contains(snapshots, Candidate) THEN snapshots ELSE Append(snapshots, Candidate)
SnapshotOf(s) == CHOOSE n \in DOMAIN s : s[n] = Candidate

\* _validate_historical_candidate: what a snapshot says of the cards and of the
\* outbox is on record to this day.
FactsStand(facts) ==
  /\ \A v \in DOMAIN facts.eligible :
       /\ facts.eligible[v] \in DOMAIN events[v]
       /\ events[v][facts.eligible[v]].after = [status |-> "published", suspended |-> FALSE]
  /\ facts.watermark <= Len(outbox)

\* reopen_index_snapshot
Reopens(n) ==
  /\ n \in DOMAIN snapshots
  /\ FactsStand(snapshots[n].facts) /\ snapshots[n].rows = CandidateRows(snapshots[n].facts)

\* _reopen_succeeded_claim: a worker that completes its claim again gets what the
\* row was consumed with.
ToldAgain(o) == Reopens(consumed[o])

\* Fault: a row that any snapshot has covered gets that one.
ConsumeKnown(o) ==
  /\ snapshots' = IF snapshots = <<>> THEN Sealed ELSE snapshots
  /\ consumed' = [p \in DOMAIN consumed \cup {o} |-> IF p = o THEN 1 ELSE consumed[p]]

\* _append_success_result: the row is consumed with the result.
Consume(o) ==
  /\ snapshots' = Sealed
  /\ consumed' = [p \in DOMAIN consumed \cup {o} |-> IF p = o THEN SnapshotOf(Sealed) ELSE consumed[p]]

\* complete_index_claim: the worker's own claim, the last of its row, in its
\* lease, without a result.
Held(w, o, n) == claims[o][n] = [worker |-> w, state |-> "held"]
MayComplete(w, o, n) == n = Len(claims[o]) /\ Held(w, o, n)

WithResult(o, n, result) == [claims EXCEPT ![o][n].state = result]

Complete(w) ==
  \E o \in DOMAIN claims : \E n \in DOMAIN claims[o] :
    /\ MayComplete(w, o, n) /\ Projected
    /\ claims' = WithResult(o, n, "succeeded")
    /\ Consume(o)
    /\ UNCHANGED <<cardVars, lapses>>

\* The storage rejects the snapshot, or a text is missing: the savepoint is rolled back, the failure
\* is a result, and the row is free again.
FailCompletion(w) ==
  \E o \in DOMAIN claims : \E n \in DOMAIN claims[o] :
    /\ MayComplete(w, o, n)
    /\ Projected => lapses < MaxLapses
    /\ claims' = WithResult(o, n, "failed")
    /\ lapses' = lapses + 1
    /\ UNCHANGED <<cardVars, consumed, snapshots>>

\* The lease of a claim passes: its worker is slow, or has crashed.
Lapse ==
  \E o \in DOMAIN claims : \E n \in DOMAIN claims[o] :
    /\ claims[o][n].state = "held"
    /\ lapses < MaxLapses
    /\ claims' = [claims EXCEPT ![o][n].state = "overdue"]
    /\ lapses' = lapses + 1
    /\ UNCHANGED <<cardVars, consumed, snapshots>>

\* _run_knowledge_index: the job of a row claims and completes it in one
\* operation, and leaves no trace, expired leases included, unless the row is
\* the next one.
IndexJob(o) ==
  LET c == Expired(claims)
  IN  /\ o \in Free(c) /\ o = Next1(c) /\ Projected
      /\ claims' = WithClaim(c, o, [worker |-> "job", state |-> "succeeded"])
      /\ Consume(o)
      /\ UNCHANGED <<cardVars, lapses>>

\* What is searched: the rows of the last snapshot, if it can be reopened.
Searchable == IF Reopens(Len(snapshots)) THEN Last(snapshots).rows ELSE {}

-----------------------------------------------------------------------------
IndexNext ==
  \/ \E w \in Workers : Claim(w) \/ Complete(w) \/ FailCompletion(w)
  \/ Lapse
  \/ \E o \in Rows : IndexJob(o)

Next == (CardsNext /\ UNCHANGED indexVars) \/ IndexNext

Spec == Init /\ [][Next]_vars

\* Whoever has queued a row asks for its index again and again, and workers
\* complete what they claim unless its lease passes.
FairSpec ==
  /\ Spec
  /\ \A o \in 1 .. Cardinality(Jobs) : WF_vars(o \in Rows /\ IndexJob(o))
  /\ \A w \in Workers : WF_vars(Complete(w))

-----------------------------------------------------------------------------
\* A row is in one worker's hands at a time, it is consumed by one success, and
\* by nothing else (index_outbox.py claim_next_index_outbox, complete_index_claim);
\* a worker whose answer was lost is told the same again (_reopen_succeeded_claim).
OneHandPerRow ==
  \A o \in DOMAIN claims :
    /\ Cardinality({n \in DOMAIN claims[o] : claims[o][n].state \in {"held", "overdue"}}) <= 1
    /\ Cardinality({n \in DOMAIN claims[o] : claims[o][n].state = "succeeded"})
         = (IF o \in DOMAIN consumed THEN 1 ELSE 0)
    /\ o \in DOMAIN consumed => ToldAgain(o)

\* A card whose publication has been indexed is found: it is in the last
\* snapshot for as long as it is published, unless it has been suspended, which
\* queues nothing (api.py reads the last snapshot, personal_orchestrator.py:470).
IndexedIsFound ==
  \A o \in DOMAIN consumed :
    LET v == outbox[o]
    IN  Live(v) /\ ~WasSuspended(v) => v \in Searchable

\* Every publication is indexed in the end, whichever workers crash in between.
QueuedIsIndexed ==
  \A o \in 1 .. Cardinality(Jobs) : (o \in Rows) ~> (o \in DOMAIN consumed)
=============================================================================
