------------------------ MODULE PersonalSafetyProofs ------------------------
(***************************************************************************)
(* For any runs, cards, processes and threads: a process drives a run with *)
(* one thread, cards are published reviewed, a course is ready over a      *)
(* complete basis, a run moves on the evidence of the status it leaves,    *)
(* and so the engine implements PublicCourse.  No answer is lost without   *)
(* a crash.  A run that needs no decision is driven until it is settled,   *)
(* and with one process it is never dropped.  With one thread a run over   *)
(* available cards fails only over earlier work that cannot be repeated.   *)
(***************************************************************************)
EXTENDS PersonalCourseProofs

Busy(w) == worker[w].pc # "idle"

\* A phase handler leaves its thread busy with its run, and takes no lap.
LEMMA HandlerStaysBusy ==
  ASSUME TypeOK, NEW w \in Workers, PhaseStep(w)
  PROVE  worker'[w].pc \notin {"idle", "reading", "returning"} /\ worker'[w].laps = worker[w].laps
  <1> DEFINE StaysBusy(x) == /\ x.pc \notin {"idle", "reading", "returning"}
                            /\ x.laps = worker[w].laps
  <1>1. worker \in [Workers -> WorkerStates] /\ worker[w] \in WorkerStates /\ worker[w] \in WorkerFields
    BY WorkerStatesAre DEF TypeOK
  <1>0. ASSUME NEW x, worker' = [worker EXCEPT ![w] = x], StaysBusy(x)
        PROVE  StaysBusy(worker'[w])
    BY <1>0, <1>1
  <1>2. ASSUME NEW pc, pc \notin {"idle", "reading", "returning"}, Goto(w, pc)
        PROVE  StaysBusy(worker'[w])
    <2>1. PICK x : x = [worker[w] EXCEPT !.pc = pc]
      OBVIOUS
    <2>2. StaysBusy(x)
      BY <1>1, <1>2, <2>1 DEF WorkerFields
    <2> QED
      BY <1>0, <1>2, <2>1, <2>2 DEF Goto
  <1>3. ASSUME NEW outcome, Decide(w, outcome)
        PROVE  StaysBusy(worker'[w])
    <2>1. PICK x : x = [worker[w] EXCEPT !.pc = "advancing", !.outcome = outcome]
      OBVIOUS
    <2>2. StaysBusy(x)
      BY <1>1, <2>1 DEF WorkerFields
    <2> QED
      BY <1>0, <1>3, <2>1, <2>2 DEF Decide
  <1>4. ASSUME Fail(w)
        PROVE  StaysBusy(worker'[w])
    BY <1>3, <1>4 DEF Fail
  <1>5. CASE StartPhase(w) \/ ImportPhase(w)
    BY <1>3, <1>5 DEF StartPhase, ImportPhase
  <1>6. CASE OrganizePhase(w) \/ PublishCard(w)
    <2>1. CASE Fail(w)
      BY <1>4, <2>1
    <2>2. ASSUME ~Fail(w) PROVE StaysBusy(worker'[w])
      <3>1. PICK x : /\ worker' = [worker EXCEPT ![w] = x]
                     /\ \/ x = [worker[w] EXCEPT !.pc = "organizing", !.todo = CardsOf[RunOf(w)],
                                                  !.asked = {}]
                        \/ x = [worker[w] EXCEPT !.pc = "organizing", !.todo = Tail(worker[w].todo)]
        BY <1>6, <2>2 DEF OrganizePhase, PublishCard
      <3>2. StaysBusy(x)
        BY <1>1, <3>1 DEF WorkerFields
      <3> QED
        BY <1>0, <3>1, <3>2
    <2> QED
      BY <2>1, <2>2
  <1>7. CASE OrganizeCard(w)
    <2>1. CASE worker' = [worker EXCEPT ![w] = [worker[w] EXCEPT !.todo = Tail(worker[w].todo),
                                         !.asked = worker[w].asked \cup {Head(worker[w].todo)}]]
      <3>1. PICK x : x = [worker[w] EXCEPT !.todo = Tail(worker[w].todo),
                                         !.asked = worker[w].asked \cup {Head(worker[w].todo)}]
        OBVIOUS
      <3>2. StaysBusy(x)
        BY <1>1, <1>7, <3>1 DEF OrganizeCard, WorkerFields
      <3> QED
        BY <1>0, <2>1, <3>1, <3>2
    <2> QED
      BY <1>2, <1>7, <2>1 DEF OrganizeCard
  <1>8. CASE CloseSafeTask(w) \/ AdoptClaim(w) \/ CompleteIndex(w) \/ MeetReplaced(w)
    BY <1>2, <1>4, <1>8 DEF CloseSafeTask, AdoptClaim, CompleteIndex, MeetReplaced
  <1>13. CASE EnqueueIndex(w)
    <2>1. PICK x : x = [worker[w] EXCEPT !.pc = "adopting", !.claims = 0]
      OBVIOUS
    <2>2. StaysBusy(x)
      BY <1>1, <2>1 DEF WorkerFields
    <2>3. Fail(w) \/ worker' = [worker EXCEPT ![w] = x]
      BY <1>13, <2>1 DEF EnqueueIndex
    <2> QED
      BY <1>0, <1>4, <2>2, <2>3
  <1>9. CASE OrganizeEnd(w)
    BY <1>2, <1>3, <1>4, <1>9 DEF OrganizeEnd
  <1>10. CASE ClaimIndex(w) \/ IndexEnd(w)
    <2>1. CASE \E item : worker' = [worker EXCEPT ![w] =
                  [worker[w] EXCEPT !.pc = "indexing", !.item = item, !.claims = worker[w].claims + 1]]
      <3>1. PICK item : worker' = [worker EXCEPT ![w] =
                  [worker[w] EXCEPT !.pc = "indexing", !.item = item, !.claims = worker[w].claims + 1]]
        BY <2>1
      <3>2. PICK x : x = [worker[w] EXCEPT !.pc = "indexing", !.item = item,
                                           !.claims = worker[w].claims + 1]
        OBVIOUS
      <3>3. StaysBusy(x)
        BY <1>1, <3>2 DEF WorkerFields
      <3> QED
        BY <1>0, <3>1, <3>2, <3>3
    <2>2. CASE Fail(w) \/ IndexEnd(w)
      BY <1>3, <1>4, <2>2 DEF IndexEnd
    <2> QED
      BY <1>10, <2>1, <2>2 DEF ClaimIndex, IndexEnd
  <1>11. CASE ComposePhase(w)
    <2>1. CASE worker' = [worker EXCEPT ![w] = [worker[w] EXCEPT !.pc = "outlining",
                                                                !.over = snapshot]]
      <3>1. PICK x : x = [worker[w] EXCEPT !.pc = "outlining", !.over = snapshot]
        OBVIOUS
      <3>2. StaysBusy(x)
        BY <1>1, <3>1 DEF WorkerFields
      <3> QED
        BY <1>0, <2>1, <3>1, <3>2
    <2> QED
      BY <1>4, <1>11, <2>1 DEF ComposePhase
  <1>12. CASE OutlinePhase(w) \/ AssignVisualsPhase(w) \/ ValidatePhase(w)
    BY <1>3, <1>4, <1>12 DEF OutlinePhase, AssignVisualsPhase, ValidatePhase
  <1> QED
    BY <1>5, <1>6, <1>7, <1>8, <1>9, <1>10, <1>11, <1>12, <1>13 DEF PhaseStep

\* Between taking its future and finishing it, a thread keeps it.
LEMMA ThreadKeepsFuture ==
  ASSUME TypeOK, NEW w \in Workers, PhaseStep(w) \/ ReadRun(w) \/ AdvanceRun(w)
  PROVE  /\ \A v \in Workers : Busy(v)' <=> Busy(v)
         /\ \A v \in Workers : worker'[v].ticket = worker[v].ticket
         /\ UNCHANGED <<poolVars, call>>
  <1>1. worker \in [Workers -> WorkerStates] /\ worker[w] \in WorkerStates
    BY DEF TypeOK
  <1>2. CASE PhaseStep(w)
    <2>1. UNCHANGED poolVars
      BY <1>2 DEF PhaseStep, StartPhase, ImportPhase, OrganizePhase, OrganizeCard, CloseSafeTask,
           PublishCard, OrganizeEnd, EnqueueIndex, AdoptClaim, ClaimIndex, CompleteIndex,
           IndexEnd, MeetReplaced, ComposePhase, OutlinePhase, AssignVisualsPhase, ValidatePhase, OnlyWorker
    <2> QED
      BY <1>2, <2>1, HandlerReads, HandlerStaysBusy DEF SameRead, Busy
  <1>3. ASSUME NEW pc, pc # "idle", worker[w].pc # "idle", Goto(w, pc)
        PROVE  /\ \A v \in Workers : Busy(v)' <=> Busy(v)
               /\ \A v \in Workers : worker'[v].ticket = worker[v].ticket
    BY <1>1, <1>3 DEF Goto, WorkerStates, Busy
  <1>4. CASE ReadRun(w)
    <2> DEFINE current == row[RunOf(w)]
               pc == IF current.status \in Settled THEN "returning" ELSE "handling"
               new == [worker[w] EXCEPT !.pc = pc, !.laps = worker[w].laps + 1,
                         !.status = current.status, !.revision = current.revision]
    <2>1. worker[w].pc # "idle" /\ UNCHANGED <<poolVars, call>>
      BY <1>4 DEF ReadRun
    <2>2. Goto(w, "returning") \/ worker' = [worker EXCEPT ![w] = new]
      BY <1>4 DEF ReadRun
    <2>3. new.pc # "idle" /\ new.ticket = worker[w].ticket
      BY <1>1 DEF WorkerStates
    <2> HIDE DEF new
    <2> QED
      BY <1>1, <1>3, <2>1, <2>2, <2>3 DEF Busy
  <1>5. CASE AdvanceRun(w)
    <2> DEFINE done == worker[w].outcome
               pc == IF done.next \in Settled THEN "returning" ELSE "reading"
               new == [worker[w] EXCEPT !.pc = pc, !.status = done.next,
                                        !.revision = row[RunOf(w)].revision + 1]
    <2>1. worker[w].pc # "idle" /\ UNCHANGED <<poolVars, call>>
      BY <1>5 DEF AdvanceRun
    <2>2. \/ Goto(w, "returning") \/ Goto(w, "reading") \/ worker' = [worker EXCEPT ![w] = new]
      BY <1>5 DEF AdvanceRun, AfterConflict
    <2>3. new.pc # "idle" /\ new.ticket = worker[w].ticket
      BY <1>1 DEF WorkerStates
    <2> HIDE DEF new
    <2> QED
      BY <1>1, <1>3, <2>1, <2>2, <2>3 DEF Busy
  <1> QED
    BY <1>2, <1>4, <1>5

-----------------------------------------------------------------------------
(* One future per run. *)

\* A future that is not done is the active one of its run, one that is done is
\* not pending, and a process that is down has nothing.
PendingAreActive == \A h \in Helpers : \A t \in Pending(h) : active[h][t.run] = t
DoneAreNotPending == \A h \in Helpers : settling[h] \cap Pending(h) = {}
DownIsEmpty ==
  \A h \in Helpers : mode[h] = "down" =>
    /\ queue[h] = << >> /\ settling[h] = {}
    /\ \A w \in Workers : Home[w] = h => ~Busy(w)

\* The order of updated_at has every run that exists, once.
TouchedOnce ==
  /\ \A i, j \in 1..Len(touched) : touched[i] = touched[j] => i = j
  /\ \A r \in Runs : row[r].status # "absent" <=> \E i \in 1..Len(touched) : touched[i] = r

Supervised == PendingAreActive /\ DoneAreNotPending /\ DownIsEmpty /\ OneFuturePerRun


\* A future is pending if it is queued or some thread runs it.
PendingIsSomewhere ==
  \A h \in Helpers : \A t : t \in Pending(h) <=>
    \/ \E i \in 1..Len(queue[h]) : queue[h][i] = t
    \/ \E w \in Workers : Home[w] = h /\ Busy(w) /\ worker[w].ticket = t

LEMMA PendingIs == (TypeOK => PendingIsSomewhere) /\ (TypeOK' => PendingIsSomewhere')
  <1>1. ASSUME TypeOK PROVE PendingIsSomewhere
    <2>1. \A h \in Helpers : DOMAIN queue[h] = 1..Len(queue[h])
      BY <1>1 DEF TypeOK
    <2> QED
      BY <2>1 DEF PendingIsSomewhere, Pending, ToSet, Busy
  <1>2. ASSUME TypeOK' PROVE PendingIsSomewhere'
    <2>1. \A h \in Helpers : DOMAIN queue'[h] = 1..Len(queue'[h])
      BY <1>2 DEF TypeOK
    <2> QED
      BY <2>1 DEF PendingIsSomewhere, Pending, ToSet, Busy
  <1> QED
    BY <1>1, <1>2

LEMMA PoolTypes ==
  ASSUME TypeOK
  PROVE  /\ queue \in [Helpers -> Seq(Ticket)]
         /\ \A h \in Helpers : queue[h] \in Seq(Ticket) /\ DOMAIN queue[h] = 1..Len(queue[h])
         /\ active \in [Helpers -> [Runs -> Ticket \cup {NoTicket}]]
         /\ settling \in [Helpers -> SUBSET Ticket]
         /\ worker \in [Workers -> WorkerStates]
         /\ \A w \in Workers : Busy(w) => worker[w].ticket \in Ticket
         /\ \A w \in Workers : Home[w] \in Helpers
  BY ConstantsAssumption DEF ConstantsAssumption, TypeOK, WorkerStates, Busy

\* What is pending where nothing moves.
LEMMA SupervisedKept ==
  ASSUME TypeOK, TypeOK', Supervised, UNCHANGED <<queue, active, settling>>,
         \A h \in Helpers : mode'[h] = "down" => mode[h] = "down",
         \A v \in Workers : Busy(v)' <=> Busy(v),
         \A v \in Workers : worker'[v].ticket = worker[v].ticket
  PROVE  Supervised'
  <1>1. \A h \in Helpers : \A t : t \in Pending(h)' <=> t \in Pending(h)
    BY PendingIs DEF PendingIsSomewhere
  <1>2. PendingAreActive' /\ DoneAreNotPending'
    BY <1>1 DEF Supervised, PendingAreActive, DoneAreNotPending
  <1>3. DownIsEmpty'
    BY DEF Supervised, DownIsEmpty
  <1>4. OneFuturePerRun'
    <2>1. \A v \in Workers : RunOf(v)' = RunOf(v)
      BY DEF RunOf
    <2> QED
      BY <2>1 DEF Supervised, OneFuturePerRun, Busy
  <1> QED
    BY <1>2, <1>3, <1>4 DEF Supervised

\* The head of the queue goes to a free thread.
LEMMA TakingSupervised ==
  ASSUME TypeOK, TypeOK', Supervised, NEW w \in Workers, TakeTicket(w)
  PROVE  Supervised'
  <1> DEFINE h == Home[w]
             q == queue[h]
             taken == [IdleWorker EXCEPT !.pc = "reading", !.ticket = Head(q)]
  <1>1. /\ h \in Helpers /\ q \in Seq(Ticket) /\ q # << >> /\ ~Busy(w) /\ mode[h] # "down"
        /\ queue' = [queue EXCEPT ![h] = Tail(q)]
        /\ worker' = [worker EXCEPT ![w] = taken]
        /\ UNCHANGED <<mode, active, settling>>
    BY PoolTypes DEF TakeTicket, Busy
  <1>2. /\ Len(q) \in Nat /\ Len(q) > 0 /\ Head(q) = q[1] /\ Len(Tail(q)) = Len(q) - 1
        /\ \A i \in 1..Len(Tail(q)) : i + 1 \in 1..Len(q) /\ Tail(q)[i] = q[i + 1]
        /\ DOMAIN Tail(q) = 1..Len(Tail(q)) /\ DOMAIN q = 1..Len(q)
    BY <1>1, HeadTailProperties
  <1>3. taken.pc = "reading" /\ taken.ticket = q[1]
    BY <1>2 DEF IdleWorker
  <1> HIDE DEF q, taken
  <1>4. /\ Busy(w)' /\ worker'[w].ticket = q[1] /\ RunOf(w)' = q[1].run
        /\ \A v \in Workers : v # w => (Busy(v)' <=> Busy(v)) /\ worker'[v] = worker[v]
                                       /\ RunOf(v)' = RunOf(v)
        /\ queue'[h] = Tail(q) /\ \A g \in Helpers : g # h => queue'[g] = queue[g]
    BY <1>1, <1>3, PoolTypes DEF Busy, RunOf
  <1>5. \A g \in Helpers : \A t : t \in Pending(g)' => t \in Pending(g)
    <2> SUFFICES ASSUME NEW g \in Helpers, NEW t, t \in Pending(g)' PROVE t \in Pending(g)
      OBVIOUS
    <2>1. CASE \E i \in 1..Len(queue'[g]) : queue'[g][i] = t
      <3>1. CASE g = h
        <4>1. PICK i \in 1..Len(Tail(q)) : Tail(q)[i] = t
          BY <1>4, <2>1, <3>1
        <4>2. i + 1 \in 1..Len(q) /\ q[i + 1] = t
          BY <1>2, <4>1
        <4> QED
          BY <3>1, <4>2, PendingIs DEF PendingIsSomewhere, q
      <3>2. CASE g # h
        BY <1>4, <2>1, <3>2, PendingIs DEF PendingIsSomewhere
      <3> QED
        BY <3>1, <3>2
    <2>2. CASE \E v \in Workers : Home[v] = g /\ Busy(v)' /\ worker'[v].ticket = t
      <3>1. PICK v \in Workers : Home[v] = g /\ Busy(v)' /\ worker'[v].ticket = t
        BY <2>2
      <3>2. CASE v = w
        <4>1. t = q[1] /\ 1 \in 1..Len(q) /\ g = h
          BY <1>2, <1>4, <3>1, <3>2
        <4> QED
          BY <4>1, PendingIs DEF PendingIsSomewhere, q
      <3>3. CASE v # w
        BY <1>4, <3>1, <3>3, PendingIs DEF PendingIsSomewhere
      <3> QED
        BY <3>2, <3>3
    <2> QED
      BY <2>1, <2>2, PendingIs DEF PendingIsSomewhere
  <1>6. PendingAreActive' /\ DoneAreNotPending'
    BY <1>1, <1>5 DEF Supervised, PendingAreActive, DoneAreNotPending
  <1>7. DownIsEmpty'
    BY <1>1, <1>4 DEF Supervised, DownIsEmpty
  <1>8. ASSUME NEW g \in Helpers
        PROVE  /\ \A i, j \in 1..Len(queue'[g]) : i # j => queue'[g][i].run # queue'[g][j].run
               /\ \A u, v \in Workers : u # v /\ Home[u] = g /\ Home[v] = g /\ Busy(u)' /\ Busy(v)'
                    => RunOf(u)' # RunOf(v)'
               /\ \A v \in Workers : \A i \in 1..Len(queue'[g]) :
                    Home[v] = g /\ Busy(v)' => RunOf(v)' # queue'[g][i].run
    <2>1. /\ \A i, j \in 1..Len(queue[g]) : i # j => queue[g][i].run # queue[g][j].run
          /\ \A u, v \in Workers : u # v /\ Home[u] = g /\ Home[v] = g /\ Busy(u) /\ Busy(v)
               => RunOf(u) # RunOf(v)
          /\ \A v \in Workers : \A i \in 1..Len(queue[g]) :
               Home[v] = g /\ Busy(v) => RunOf(v) # queue[g][i].run
      BY <1>8, PoolTypes DEF Supervised, OneFuturePerRun, Busy
    <2>2. CASE g # h
      <3>1. queue'[g] = queue[g]
        BY <1>4, <2>2
      <3>2. \A v \in Workers : Home[v] = g => (Busy(v)' <=> Busy(v)) /\ RunOf(v)' = RunOf(v)
        BY <1>4, <2>2
      <3> QED
        BY <2>1, <3>1, <3>2
    <2>3. CASE g = h
      <3>1. q = queue[g]
        BY <2>3 DEF q
      <3>2. \A i, j \in 1..Len(Tail(q)) : i # j => Tail(q)[i].run # Tail(q)[j].run
        BY <1>2, <2>1, <3>1
      <3>3. 1 \in 1..Len(q) /\ \A i \in 1..Len(Tail(q)) : q[1].run # Tail(q)[i].run
        BY <1>2, <2>1, <3>1
      <3>4. \A v \in Workers : v # w /\ Home[v] = g /\ Busy(v) =>
              /\ RunOf(v) # q[1].run
              /\ \A i \in 1..Len(Tail(q)) : RunOf(v) # Tail(q)[i].run
        BY <1>2, <2>1, <3>1, <3>3
      <3>5. \A i, j \in 1..Len(queue'[g]) : i # j => queue'[g][i].run # queue'[g][j].run
        <4>1. queue'[g] = Tail(q)
          BY <1>4, <2>3
        <4> QED
          BY <3>2, <4>1
      <3>6. \A u, v \in Workers : u # v /\ Home[u] = g /\ Home[v] = g /\ Busy(u)' /\ Busy(v)'
              => RunOf(u)' # RunOf(v)'
        <4> SUFFICES ASSUME NEW u \in Workers, NEW v \in Workers, u # v, Home[u] = g, Home[v] = g,
                            Busy(u)', Busy(v)'
                     PROVE  RunOf(u)' # RunOf(v)'
          OBVIOUS
        <4>1. CASE u = w
          BY <1>4, <3>4, <4>1
        <4>2. CASE v = w
          BY <1>4, <3>4, <4>2
        <4>3. CASE u # w /\ v # w
          BY <1>4, <2>1, <4>3
        <4> QED
          BY <4>1, <4>2, <4>3
      <3>7. \A v \in Workers : \A i \in 1..Len(queue'[g]) :
              Home[v] = g /\ Busy(v)' => RunOf(v)' # queue'[g][i].run
        <4> SUFFICES ASSUME NEW v \in Workers, NEW i \in 1..Len(queue'[g]), Home[v] = g, Busy(v)'
                     PROVE  RunOf(v)' # queue'[g][i].run
          OBVIOUS
        <4>1. queue'[g] = Tail(q)
          BY <1>4, <2>3
        <4>2. CASE v = w
          BY <1>4, <3>3, <4>1, <4>2
        <4>3. CASE v # w
          BY <1>4, <3>4, <4>1, <4>3
        <4> QED
          BY <4>2, <4>3
      <3> QED
        BY <3>5, <3>6, <3>7
    <2> QED
      BY <2>2, <2>3
  <1>9. OneFuturePerRun'
    <2>1. \A g \in Helpers : DOMAIN queue'[g] = 1..Len(queue'[g])
      BY DEF TypeOK
    <2> QED
      BY <1>8, <2>1 DEF OneFuturePerRun, Busy
  <1> QED
    BY <1>6, <1>7, <1>9 DEF Supervised

\* A future that is done leaves its thread, and nothing else of its run is pending.
LEMMA FinishingSupervised ==
  ASSUME TypeOK, TypeOK', Supervised, NEW w \in Workers, Finish(w)
  PROVE  Supervised'
  <1> DEFINE h == Home[w]
             t == worker[w].ticket
  <1>1. /\ h \in Helpers /\ Busy(w) /\ t \in Ticket
        /\ worker' = [worker EXCEPT ![w] = IdleWorker]
        /\ settling' = [settling EXCEPT ![h] = settling[h] \cup {t}]
        /\ UNCHANGED <<mode, queue, active>>
    BY PoolTypes DEF Finish, Busy
  <1>2. /\ ~Busy(w)'
        /\ \A v \in Workers : v # w => (Busy(v)' <=> Busy(v)) /\ worker'[v] = worker[v]
                                       /\ RunOf(v)' = RunOf(v)
    BY <1>1, PoolTypes DEF Busy, RunOf, IdleWorker
  <1>3. \A g \in Helpers : \A x : x \in Pending(g)' => x \in Pending(g)
    BY <1>1, <1>2, PendingIs DEF PendingIsSomewhere
  <1>4. t \notin Pending(h)'
    <2>1. RunOf(w) = t.run
      BY DEF RunOf
    <2>2. \A i \in 1..Len(queue[h]) : queue[h][i] # t
      BY <1>1, <2>1, PoolTypes DEF Supervised, OneFuturePerRun, Busy
    <2>3. \A v \in Workers : v # w /\ Home[v] = h /\ Busy(v) => worker[v].ticket # t
      BY <1>1, <2>1 DEF Supervised, OneFuturePerRun, Busy, RunOf
    <2> QED
      BY <1>1, <1>2, <2>2, <2>3, PendingIs DEF PendingIsSomewhere
  <1>5. PendingAreActive'
    BY <1>1, <1>3 DEF Supervised, PendingAreActive
  <1>6. DoneAreNotPending'
    <2>1. settling'[h] = settling[h] \cup {t} /\ \A g \in Helpers : g # h => settling'[g] = settling[g]
      BY <1>1, PoolTypes
    <2> QED
      BY <1>3, <1>4, <2>1 DEF Supervised, DoneAreNotPending
  <1>7. mode[h] # "down"
    BY <1>1 DEF Supervised, DownIsEmpty
  <1>8. DownIsEmpty'
    BY <1>1, <1>2, <1>7, PoolTypes DEF Supervised, DownIsEmpty
  <1>9. OneFuturePerRun'
    BY <1>1, <1>2 DEF Supervised, OneFuturePerRun, Busy
  <1> QED
    BY <1>5, <1>6, <1>8, <1>9 DEF Supervised

\* The callback forgets no future that is pending.
LEMMA ForgettingSupervised ==
  ASSUME TypeOK, TypeOK', Supervised, NEW h \in Helpers, Callback(h)
  PROVE  Supervised'
  <1>1. PICK future \in settling[h] : Forget(h, future)
    BY DEF Callback
  <1>2. /\ settling' = [settling EXCEPT ![h] = settling[h] \ {future}]
        /\ UNCHANGED <<mode, queue, worker>>
        /\ \/ active' = active
           \/ /\ active[h][future.run] = future
              /\ active' = [active EXCEPT ![h] = [active[h] EXCEPT ![future.run] = NoTicket]]
    BY <1>1 DEF Forget
  <1>3. \A g \in Helpers : Pending(g)' = Pending(g)
    BY <1>2 DEF Pending
  <1>4. future \notin Pending(h)
    BY <1>1 DEF Supervised, DoneAreNotPending
  <1>5. PendingAreActive'
    <2> SUFFICES ASSUME NEW g \in Helpers, NEW t \in Pending(g) PROVE active'[g][t.run] = t
      BY <1>3 DEF PendingAreActive
    <2>1. active[g][t.run] = t
      BY DEF Supervised, PendingAreActive
    <2>2. CASE active' = active
      BY <2>1, <2>2
    <2>3. CASE /\ active[h][future.run] = future
               /\ active' = [active EXCEPT ![h] = [active[h] EXCEPT ![future.run] = NoTicket]]
      <3>1. g = h => t.run # future.run
        BY <1>4, <2>1, <2>3
      <3> QED
        BY <2>1, <2>3, <3>1, PoolTypes
    <2> QED
      BY <1>2, <2>2, <2>3
  <1>6. DoneAreNotPending' /\ DownIsEmpty'
    <2>1. \A g \in Helpers : settling'[g] \subseteq settling[g]
      BY <1>2, PoolTypes
    <2> QED
      BY <1>2, <1>3, <2>1 DEF Supervised, DoneAreNotPending, DownIsEmpty, Busy
  <1>7. OneFuturePerRun'
    BY <1>2 DEF Supervised, OneFuturePerRun, RunOf
  <1> QED
    BY <1>5, <1>6, <1>7 DEF Supervised

\* A run is given a future only when it has none that is pending.
LEMMA StartingSupervised ==
  ASSUME TypeOK, TypeOK', Supervised, NEW h \in Helpers, NEW r \in Runs, NEW actor \in Actors,
         mode[h] = "up", Start(h, r, actor), UNCHANGED <<mode, settling, worker>>
  PROVE  Supervised'
  <1>1. CASE UNCHANGED <<queue, active>>
    BY <1>1, SupervisedKept DEF Busy
  <1>2. CASE ~UNCHANGED <<queue, active>>
    <2>1. active[h][r] \notin Pending(h)
      BY <1>2 DEF Start
    <2>2. PICK n \in Unused(h, r) :
            LET future == [run |-> r, actor |-> actor, number |-> n]
            IN  /\ queue' = [queue EXCEPT ![h] = Append(queue[h], future)]
                /\ active' = [active EXCEPT ![h] = [active[h] EXCEPT ![r] = future]]
      BY <1>2 DEF Start
    <2> DEFINE future == [run |-> r, actor |-> actor, number |-> n]
    <2>3. /\ future.run = r
          /\ queue' = [queue EXCEPT ![h] = Append(queue[h], future)]
          /\ active' = [active EXCEPT ![h] = [active[h] EXCEPT ![r] = future]]
      BY <2>2
    <2>4. \A t \in Pending(h) : t.run # r
      BY <2>1 DEF Supervised, PendingAreActive
    <2>5. future \notin Pending(h) \cup settling[h]
      <3>1. \A t \in Pending(h) \cup settling[h] : t.run = r => t.number # n
        BY <2>2 DEF Unused
      <3>2. future.number = n
        OBVIOUS
      <3> QED
        BY <2>3, <3>1, <3>2
    <2> HIDE DEF future
    <2> DEFINE q == queue[h]
               longer == Append(q, future)
    <2>6. /\ q \in Seq(Ticket) /\ Len(longer) = Len(q) + 1 /\ Len(q) \in Nat
          /\ longer[Len(q) + 1] = future
          /\ \A i \in 1..Len(q) : longer[i] = q[i]
          /\ queue'[h] = longer /\ \A g \in Helpers : g # h => queue'[g] = queue[g]
      BY <2>3, PoolTypes
    <2> HIDE DEF longer
    <2>7. /\ \A g \in Helpers : \A t : g # h => (t \in Pending(g)' <=> t \in Pending(g))
          /\ \A t : t \in Pending(h)' => t \in Pending(h) \/ t = future
      <3>1. \A t : (\E i \in 1..Len(longer) : longer[i] = t)
                     => (\E i \in 1..Len(q) : q[i] = t) \/ t = future
        <4> SUFFICES ASSUME NEW i \in 1..Len(longer)
                     PROVE  (\E j \in 1..Len(q) : q[j] = longer[i]) \/ longer[i] = future
          OBVIOUS
        <4>1. CASE i = Len(q) + 1
          BY <2>6, <4>1
        <4>2. CASE i # Len(q) + 1
          <5>1. i \in 1..Len(q)
            BY <2>6, <4>2
          <5> QED
            BY <2>6, <5>1
        <4> QED
          BY <4>1, <4>2
      <3> QED
        BY <2>6, <3>1, PendingIs DEF PendingIsSomewhere, Busy
    <2>8. PendingAreActive'
      <3> SUFFICES ASSUME NEW g \in Helpers, NEW t, t \in Pending(g)' PROVE active'[g][t.run] = t
        BY DEF PendingAreActive
      <3>1. CASE g # h
        BY <2>3, <2>7, <3>1, PoolTypes DEF Supervised, PendingAreActive
      <3>2. CASE g = h
        BY <2>3, <2>4, <2>7, <3>2, PoolTypes DEF Supervised, PendingAreActive
      <3> QED
        BY <3>1, <3>2
    <2>9. DoneAreNotPending' /\ DownIsEmpty'
      BY <2>5, <2>6, <2>7 DEF Supervised, DoneAreNotPending, DownIsEmpty, Busy
    <2>10. OneFuturePerRun'
      <3>1. \A i \in 1..Len(q) : q[i].run # r
        BY <2>4, PendingIs DEF PendingIsSomewhere
      <3>2. \A v \in Workers : Home[v] = h /\ Busy(v) => RunOf(v) # r
        BY <2>4, PendingIs DEF PendingIsSomewhere, RunOf
      <3>3. \A i \in 1..Len(longer) : i \in 1..Len(q) \/ i = Len(q) + 1
        BY <2>6
      <3>4. \A i, j \in DOMAIN queue'[h] : i # j => queue'[h][i].run # queue'[h][j].run
        <4>1. DOMAIN queue'[h] = 1..Len(longer) /\ DOMAIN q = 1..Len(q)
          BY <2>6, PoolTypes DEF longer
        <4>2. \A i, j \in 1..Len(q) : i # j => q[i].run # q[j].run
          BY <4>1 DEF Supervised, OneFuturePerRun
        <4>3. \A i, j \in 1..Len(longer) : i # j => longer[i].run # longer[j].run
          BY <2>3, <2>6, <3>1, <3>3, <4>2
        <4> QED
          BY <2>6, <4>1, <4>3
      <3>5. \A v \in Workers : \A i \in DOMAIN queue'[h] :
              Home[v] = h /\ Busy(v) => RunOf(v) # queue'[h][i].run
        <4>1. DOMAIN queue'[h] = 1..Len(longer) /\ DOMAIN q = 1..Len(q)
          BY <2>6, PoolTypes DEF longer
        <4>2. \A v \in Workers : \A i \in 1..Len(q) : Home[v] = h /\ Busy(v) => RunOf(v) # q[i].run
          BY <4>1 DEF Supervised, OneFuturePerRun, Busy
        <4> QED
          BY <2>3, <2>6, <3>2, <3>3, <4>1, <4>2
      <3> QED
        BY <2>6, <3>4, <3>5 DEF Supervised, OneFuturePerRun, Busy, RunOf
    <2> QED
      BY <2>8, <2>9, <2>10 DEF Supervised
  <1> QED
    BY <1>1, <1>2

\* What a process held in memory is gone.
LEMMA VanishingSupervised ==
  ASSUME TypeOK, TypeOK', Supervised, NEW h \in Helpers, Vanish(h)
  PROVE  Supervised'
  <1>1. /\ mode' = [mode EXCEPT ![h] = "down"]
        /\ queue' = [queue EXCEPT ![h] = << >>]
        /\ active' = [active EXCEPT ![h] = [r \in Runs |-> NoTicket]]
        /\ settling' = [settling EXCEPT ![h] = {}]
        /\ worker' = [w \in Workers |-> IF Home[w] = h THEN IdleWorker ELSE worker[w]]
    BY DEF Vanish
  <1>2. /\ queue'[h] = << >> /\ Len(queue'[h]) = 0 /\ settling'[h] = {}
        /\ \A w \in Workers : Home[w] = h => ~Busy(w)'
        /\ \A w \in Workers : Home[w] # h => (Busy(w)' <=> Busy(w)) /\ worker'[w] = worker[w]
                                             /\ RunOf(w)' = RunOf(w)
    BY <1>1, PoolTypes DEF Busy, IdleWorker, RunOf
  <1>3. \A g \in Helpers : g # h =>
          queue'[g] = queue[g] /\ active'[g] = active[g] /\ settling'[g] = settling[g] /\ mode'[g] = mode[g]
    BY <1>1, PoolTypes DEF TypeOK
  <1>4. /\ \A t : t \notin Pending(h)'
        /\ \A g \in Helpers : \A t : g # h => (t \in Pending(g)' <=> t \in Pending(g))
    BY <1>2, <1>3, PendingIs DEF PendingIsSomewhere
  <1>5. PendingAreActive' /\ DoneAreNotPending'
    BY <1>2, <1>3, <1>4 DEF Supervised, PendingAreActive, DoneAreNotPending
  <1>6. DownIsEmpty'
    BY <1>2, <1>3 DEF Supervised, DownIsEmpty
  <1>7. OneFuturePerRun'
    <2> SUFFICES ASSUME NEW g \in Helpers
                 PROVE  /\ \A i, j \in DOMAIN queue'[g] : i # j => queue'[g][i].run # queue'[g][j].run
                        /\ \A u, v \in Workers : u # v /\ Home[u] = g /\ Home[v] = g /\ Busy(u)' /\ Busy(v)'
                             => RunOf(u)' # RunOf(v)'
                        /\ \A v \in Workers : \A i \in DOMAIN queue'[g] :
                             Home[v] = g /\ Busy(v)' => RunOf(v)' # queue'[g][i].run
      BY DEF OneFuturePerRun, Busy
    <2>1. CASE g = h
      <3>1. DOMAIN queue'[h] = {}
        BY <1>2
      <3> QED
        BY <1>2, <2>1, <3>1
    <2>2. CASE g # h
      BY <1>2, <1>3, <2>2 DEF Supervised, OneFuturePerRun, Busy
    <2> QED
      BY <2>1, <2>2
  <1> QED
    BY <1>5, <1>6, <1>7 DEF Supervised

\* A process that boots gives each run it resumes one future: the order of
\* updated_at names no run twice.
LEMMA BootingSupervised ==
  ASSUME TypeOK, TypeOK', Supervised, TouchedOnce, NEW h \in Helpers, Boot(h)
  PROVE  Supervised'
  <1>1. PICK order \in ResumeOrders, n \in TicketNumbers :
          /\ queue' = [queue EXCEPT ![h] = [i \in DOMAIN order |->
                         [run |-> order[i], actor |-> "system", number |-> n]]]
          /\ active' = [active EXCEPT ![h] = [r \in Runs |->
                          IF r \in Range(order)
                          THEN [run |-> r, actor |-> "system", number |-> n] ELSE NoTicket]]
    BY DEF Boot
  <1> DEFINE pending == {r \in Runs : Resumable(r)}
             size    == IF Cardinality(pending) <= ResumeLimit
                        THEN Cardinality(pending) ELSE ResumeLimit
             future(r) == [run |-> r, actor |-> "system", number |-> n]
             futures == [i \in DOMAIN order |-> future(order[i])]
             entries == [r \in Runs |-> IF r \in Range(order) THEN future(r) ELSE NoTicket]
  <1>2. /\ mode[h] = "down" /\ mode' = [mode EXCEPT ![h] = "booting"]
        /\ UNCHANGED <<settling, worker>>
    BY DEF Boot
  <1>3. /\ settling[h] = {} /\ \A w \in Workers : Home[w] = h => ~Busy(w)
    BY <1>2 DEF Supervised, DownIsEmpty
  <1>4. size \in Nat
    <2>1. IsFiniteSet(pending)
      BY ConstantsAssumption, FS_Subset DEF ConstantsAssumption
    <2> QED
      BY <2>1, ConstantsAssumption, FS_CardinalityType DEF ConstantsAssumption
  <1>5. /\ order \in [1..size -> pending]
        /\ \A i, j \in 1..size : i < j => Earlier(order[i], order[j])
    BY DEF ResumeOrders
  <1>6. \A i, j \in 1..size : i # j => order[i] # order[j]
    <2>1. \A r : ~Earlier(r, r)
      <3>1. DOMAIN touched = 1..Len(touched) /\ Len(touched) \in Nat
        BY DEF TypeOK
      <3> QED
        BY <3>1 DEF Earlier, TouchedOnce
    <2> HIDE DEF size
    <2>2. \A i, j \in 1..size : i < j \/ j < i \/ i = j
      BY <1>4
    <2> QED
      BY <1>5, <2>1, <2>2
  <1> HIDE DEF size
  <1>7. /\ queue'[h] = futures /\ active'[h] = entries
        /\ \A g \in Helpers : g # h => queue'[g] = queue[g] /\ active'[g] = active[g]
    BY <1>1, PoolTypes
  <1>8. DOMAIN futures = 1..size /\ DOMAIN order = 1..size
    BY <1>5
  <1>9. \A i \in 1..size : futures[i].run = order[i] /\ futures[i] = future(order[i])
    BY <1>8
  <1>10. Len(queue'[h]) = size
    BY <1>4, <1>7, <1>8
  <1>11. /\ \A t : t \in Pending(h)' => \E i \in 1..size : t = futures[i]
         /\ \A g \in Helpers : \A t : g # h => (t \in Pending(g)' <=> t \in Pending(g))
    <2> HIDE DEF futures
    <2>1. \A t : t \in Pending(h)' => \E i \in 1..size : t = futures[i]
      BY <1>2, <1>3, <1>7, <1>10, PendingIs DEF PendingIsSomewhere, Busy
    <2>2. \A g \in Helpers : \A t : g # h => (t \in Pending(g)' <=> t \in Pending(g))
      BY <1>2, <1>7, PendingIs DEF PendingIsSomewhere, Busy
    <2> QED
      BY <2>1, <2>2
  <1>12. PendingAreActive'
    <2> SUFFICES ASSUME NEW g \in Helpers, NEW t, t \in Pending(g)' PROVE active'[g][t.run] = t
      BY DEF PendingAreActive
    <2>1. CASE g = h
      <3>1. PICK i \in 1..size : t = futures[i]
        BY <1>11, <2>1
      <3>2. order[i] \in Runs /\ order[i] \in Range(order)
        BY <1>5, <1>8 DEF Range
      <3>3. entries[order[i]] = future(order[i])
        BY <3>2
      <3> QED
        BY <1>7, <1>9, <2>1, <3>1, <3>3
    <2>2. CASE g # h
      BY <1>7, <1>11, <2>2 DEF Supervised, PendingAreActive
    <2> QED
      BY <2>1, <2>2
  <1>13. DoneAreNotPending' /\ DownIsEmpty'
    <2>1. mode'[h] # "down" /\ \A g \in Helpers : g # h => mode'[g] = mode[g]
      BY <1>2 DEF TypeOK
    <2> QED
      BY <1>2, <1>3, <1>7, <1>11, <2>1 DEF Supervised, DoneAreNotPending, DownIsEmpty, Busy
  <1>14. OneFuturePerRun'
    <2> SUFFICES ASSUME NEW g \in Helpers
                 PROVE  /\ \A i, j \in DOMAIN queue'[g] : i # j => queue'[g][i].run # queue'[g][j].run
                        /\ \A u, v \in Workers : u # v /\ Home[u] = g /\ Home[v] = g /\ Busy(u) /\ Busy(v)
                             => RunOf(u) # RunOf(v)
                        /\ \A v \in Workers : \A i \in DOMAIN queue'[g] :
                             Home[v] = g /\ Busy(v) => RunOf(v) # queue'[g][i].run
      BY <1>2 DEF OneFuturePerRun, Busy, RunOf
    <2>1. CASE g = h
      <3>1. DOMAIN queue'[g] = 1..size /\ \A i \in 1..size : queue'[g][i].run = order[i]
        <4> HIDE DEF futures
        <4> QED
          BY <1>7, <1>8, <1>9, <2>1
      <3> QED
        BY <1>3, <1>6, <2>1, <3>1
    <2>2. CASE g # h
      BY <1>7, <2>2 DEF Supervised, OneFuturePerRun, Busy
    <2> QED
      BY <2>1, <2>2
  <1> QED
    BY <1>12, <1>13, <1>14 DEF Supervised

\* Where the elements of a sequence of n come from when its k-th moves to the end.
Shift(n, k) == [i \in 1..n |-> IF i = n THEN k ELSE IF k <= i THEN i + 1 ELSE i]

LEMMA ShiftPermutes ==
  ASSUME NEW n \in Nat, NEW k \in 1..n
  PROVE  /\ \A i \in 1..n : Shift(n, k)[i] \in 1..n
         /\ \A i, j \in 1..n : Shift(n, k)[i] = Shift(n, k)[j] => i = j
         /\ \A m \in 1..n : \E i \in 1..n : Shift(n, k)[i] = m
  <1>1. \A i \in 1..n : Shift(n, k)[i] = IF i = n THEN k ELSE IF k <= i THEN i + 1 ELSE i
    BY DEF Shift
  <1>2. \A i \in 1..n : Shift(n, k)[i] \in 1..n
    BY <1>1
  <1>3. \A i, j \in 1..n : Shift(n, k)[i] = Shift(n, k)[j] => i = j
    BY <1>1
  <1>4. ASSUME NEW m \in 1..n PROVE \E i \in 1..n : Shift(n, k)[i] = m
    <2>1. CASE m = k
      <3>1. n \in 1..n /\ Shift(n, k)[n] = m
        BY <1>1, <2>1
      <3> QED
        BY <3>1
    <2>2. CASE m < k
      <3>1. m # n /\ ~(k <= m)
        BY <2>2
      <3>2. Shift(n, k)[m] = m
        BY <1>1, <3>1
      <3> QED
        BY <3>2
    <2>3. CASE k < m
      <3>1. m - 1 \in 1..n /\ m - 1 # n /\ k <= m - 1 /\ (m - 1) + 1 = m
        BY <2>3
      <3>2. Shift(n, k)[m - 1] = m
        BY <1>1, <3>1
      <3> QED
        BY <3>1, <3>2
    <2>4. m = k \/ m < k \/ k < m
      OBVIOUS
    <2> QED
      BY <2>1, <2>2, <2>3, <2>4
  <1> QED
    BY <1>2, <1>3, <1>4

\* A run that is written again moves to the end of the order.
LEMMA MovedToEndOnce ==
  ASSUME NEW seq \in Seq(Runs), NEW r,
         \A i, j \in 1..Len(seq) : seq[i] = seq[j] => i = j,
         \E i \in 1..Len(seq) : seq[i] = r
  PROVE  LET moved == MovedToEnd(seq, r)
         IN  /\ \A i, j \in 1..Len(moved) : moved[i] = moved[j] => i = j
             /\ \A s : (\E i \in 1..Len(moved) : moved[i] = s) <=> \E i \in 1..Len(seq) : seq[i] = s
  <1> DEFINE n == Len(seq)
             moved == MovedToEnd(seq, r)
  <1>1. n \in Nat /\ DOMAIN seq = 1..n
    OBVIOUS
  <1>2. PICK k \in 1..n : seq[k] = r
    OBVIOUS
  <1>3. \A i \in 1..n : (\E j \in 1..i : seq[j] = r) <=> k <= i
    <2> SUFFICES ASSUME NEW i \in 1..n PROVE (\E j \in 1..i : seq[j] = r) <=> k <= i
      OBVIOUS
    <2>1. ASSUME NEW j \in 1..i, seq[j] = r PROVE k <= i
      <3>1. j \in 1..n
        BY <1>1
      <3>2. j = k
        BY <1>2, <2>1, <3>1
      <3> QED
        BY <1>1, <3>2
    <2>2. k <= i => k \in 1..i
      BY <1>1
    <2> QED
      BY <1>2, <2>1, <2>2
  <1>4. moved = [i \in 1..n |-> IF i = n THEN r ELSE IF k <= i THEN seq[i + 1] ELSE seq[i]]
    BY <1>1, <1>3 DEF MovedToEnd
  <1>5. moved = [i \in 1..n |-> seq[Shift(n, k)[i]]]
    <2>1. \A i \in 1..n : seq[Shift(n, k)[i]] = IF i = n THEN r ELSE IF k <= i THEN seq[i + 1] ELSE seq[i]
      BY <1>2 DEF Shift
    <2> QED
      BY <1>4, <2>1
  <1> HIDE DEF moved
  <1>6. DOMAIN moved = 1..n /\ \A i \in 1..n : moved[i] = seq[Shift(n, k)[i]]
    BY <1>5
  <1>7. moved \in Seq(Runs)
    <2>1. MovedToEnd(seq, r) \in Seq(Runs)
      <3>1. r \in Runs
        BY <1>2, ElementOfSeq
      <3> QED
        BY <3>1, MovedToEndType
    <2> QED
      BY <2>1 DEF moved
  <1>8. Len(moved) = n
    BY <1>1, <1>6, <1>7
  <1> DEFINE from == Shift(n, k)
  <1>9. /\ \A i \in 1..n : from[i] \in 1..n
        /\ \A i, j \in 1..n : from[i] = from[j] => i = j
        /\ \A m \in 1..n : \E i \in 1..n : from[i] = m
    BY <1>1, ShiftPermutes
  <1>10. /\ \A i \in 1..n : moved[i] = seq[from[i]]
         /\ \A i, j \in 1..n : seq[i] = seq[j] => i = j
    BY <1>6
  <1> HIDE DEF n, from
  <1>11. \A i, j \in 1..n : moved[i] = moved[j] => i = j
    <2> SUFFICES ASSUME NEW i \in 1..n, NEW j \in 1..n, moved[i] = moved[j] PROVE i = j
      OBVIOUS
    <2>1. from[i] \in 1..n /\ from[j] \in 1..n /\ seq[from[i]] = seq[from[j]]
      BY <1>9, <1>10
    <2>2. from[i] = from[j]
      BY <1>10, <2>1
    <2> QED
      BY <1>9, <2>2
  <1>12. \A s : (\E i \in 1..n : moved[i] = s) <=> \E i \in 1..n : seq[i] = s
    <2> SUFFICES ASSUME NEW s PROVE (\E i \in 1..n : moved[i] = s) <=> \E i \in 1..n : seq[i] = s
      OBVIOUS
    <2>1. ASSUME NEW m \in 1..n, seq[m] = s PROVE \E i \in 1..n : moved[i] = s
      <3>1. PICK i \in 1..n : from[i] = m
        BY <1>9
      <3> QED
        BY <1>10, <2>1, <3>1
    <2>2. ASSUME NEW i \in 1..n, moved[i] = s PROVE \E m \in 1..n : seq[m] = s
      BY <1>9, <1>10, <2>2
    <2> QED
      BY <2>1, <2>2
  <1> QED
    BY <1>8, <1>11, <1>12 DEF moved, n

\* A run is written as it moves on, or created.
Rewritten ==
  \E r \in Runs : /\ row[r].status # "absent" /\ row'[r].status # "absent"
                  /\ \A s \in Runs : s # r => row'[s] = row[s]
                  /\ touched' = MovedToEnd(touched, r)
Created ==
  \E r \in Runs : /\ row[r].status = "absent" /\ row'[r].status # "absent"
                  /\ \A s \in Runs : s # r => row'[s] = row[s]
                  /\ touched' = Append(touched, r)

LEMMA AdvancedStatus ==
  ASSUME NEW x, NEW next \in Phases \cup Settled, NEW evidence, NEW bundle
  PROVE  Advanced(x, next, evidence, bundle).status # "absent"
  BY DEF Advanced, Phases, Settled

LEMMA RowsAreWritten ==
  ASSUME TypeOK, [Next]_vars
  PROVE  UNCHANGED rowVars \/ Rewritten \/ Created
  <1>1. ASSUME NEW w \in Workers, WorkerStep(w) PROVE UNCHANGED rowVars \/ Rewritten
    <2>1. CASE PhaseStep(w)
      BY <2>1 DEF PhaseStep, StartPhase, ImportPhase, OrganizePhase, OrganizeCard, CloseSafeTask,
           PublishCard, OrganizeEnd, EnqueueIndex, AdoptClaim, ClaimIndex, CompleteIndex,
           IndexEnd, MeetReplaced, ComposePhase, OutlinePhase, AssignVisualsPhase, ValidatePhase, OnlyWorker
    <2>2. CASE TakeTicket(w) \/ ReadRun(w) \/ Finish(w)
      BY <2>2 DEF TakeTicket, ReadRun, Finish
    <2>3. CASE AdvanceRun(w)
      <3> DEFINE r == RunOf(w)
                 done == worker[w].outcome
                 bundle == [phase |-> worker[w].status, cards |-> done.cards]
      <3>1. UNCHANGED rowVars \/
            /\ MayAdvance(row[r], done.next, done.evidence)
            /\ row' = [row EXCEPT ![r] = Advanced(row[r], done.next, done.evidence, bundle)]
            /\ touched' = MovedToEnd(touched, r)
        BY <2>3 DEF AdvanceRun
      <3>2. r \in Runs
        BY <2>3, HandlerFacts DEF AdvanceRun
      <3>3. MayAdvance(row[r], done.next, done.evidence) =>
              row[r].status # "absent" /\ Advanced(row[r], done.next, done.evidence, bundle).status # "absent"
        BY TransitionTypes, AdvancedStatus
      <3> HIDE DEF r, done, bundle
      <3> QED
        BY <3>1, <3>2, <3>3 DEF Rewritten, TypeOK
    <2> QED
      BY <1>1, <2>1, <2>2, <2>3 DEF WorkerStep
  <1>2. ASSUME NEW c \in Callers, CallStep(c) \/ User(c) PROVE UNCHANGED rowVars \/ Rewritten \/ Created
    <2>1. CASE User(c) \/ ReadAttention(c) \/ (\E k \in Cards : AnswerTask(c, k))
                \/ RecordResolution(c) \/ StartRun(c)
      BY <2>1 DEF User, SubmitCreate, SubmitResolve, ReadAttention, AnswerTask, RecordResolution, StartRun
    <2>2. CASE CreateRun(c)
      <3> DEFINE r == call[c].run
      <3>1. r \in Runs
        BY <2>2 DEF CreateRun, TypeOK, CallStates
      <3>2. \/ UNCHANGED rowVars
            \/ /\ row[r].status = "absent"
               /\ row' = [row EXCEPT ![r] = NewRow] /\ touched' = Append(touched, r)
        BY <2>2 DEF CreateRun
      <3>3. NewRow.status # "absent"
        BY DEF NewRow, AbsentRow
      <3> HIDE DEF r
      <3> QED
        BY <3>1, <3>2, <3>3 DEF Created, TypeOK
    <2>3. CASE ResumeRun(c)
      <3> DEFINE r == call[c].run
                 evidence == Resolution(call[c].bundle, call[c].action)
      <3>1. r \in Runs
        BY <2>3 DEF ResumeRun, TypeOK, CallStates
      <3>2. UNCHANGED rowVars \/
            /\ MayAdvance(row[r], call[c].resume, evidence)
            /\ row' = [row EXCEPT ![r] = Advanced(row[r], call[c].resume, evidence, NoBundle)]
            /\ touched' = MovedToEnd(touched, r)
        BY <2>3 DEF ResumeRun
      <3>3. MayAdvance(row[r], call[c].resume, evidence) =>
              /\ row[r].status # "absent"
              /\ Advanced(row[r], call[c].resume, evidence, NoBundle).status # "absent"
        BY TransitionTypes, AdvancedStatus
      <3> HIDE DEF r, evidence
      <3> QED
        BY <3>1, <3>2, <3>3 DEF Rewritten, TypeOK
    <2> QED
      BY <1>2, <2>1, <2>2, <2>3 DEF CallStep
  <1>3. ASSUME NEW h \in Helpers,
               Callback(h) \/ Boot(h) \/ Bind(h) \/ Close(h) \/ Exit(h) \/ Crash(h) \/ OtherJob(h)
        PROVE  UNCHANGED rowVars
    BY <1>3 DEF Callback, Forget, Boot, Bind, Close, Exit, Crash, OtherJob, Vanish
  <1>4. CASE UNCHANGED vars
    BY <1>4 DEF vars, rowVars
  <1> QED
    BY <1>1, <1>2, <1>3, <1>4 DEF Next

LEMMA TouchedStep ==
  ASSUME TypeOK, TouchedOnce, [Next]_vars
  PROVE  TouchedOnce'
  <1>1. CASE UNCHANGED rowVars
    BY <1>1 DEF rowVars, TouchedOnce
  <1>2. CASE Rewritten
    <2>1. PICK r \in Runs : /\ row[r].status # "absent" /\ row'[r].status # "absent"
                            /\ \A s \in Runs : s # r => row'[s] = row[s]
                            /\ touched' = MovedToEnd(touched, r)
      BY <1>2 DEF Rewritten
    <2>2. touched \in Seq(Runs)
      BY DEF TypeOK
    <2>3. \E i \in 1..Len(touched) : touched[i] = r
      BY <2>1 DEF TouchedOnce
    <2>4. \A i, j \in 1..Len(touched) : touched[i] = touched[j] => i = j
      BY DEF TouchedOnce
    <2> DEFINE moved == MovedToEnd(touched, r)
    <2>5. /\ \A i, j \in 1..Len(moved) : moved[i] = moved[j] => i = j
          /\ \A s : (\E i \in 1..Len(moved) : moved[i] = s) <=> \E i \in 1..Len(touched) : touched[i] = s
      BY <2>2, <2>3, <2>4, MovedToEndOnce
    <2> HIDE DEF moved
    <2>6. touched' = moved
      BY <2>1 DEF moved
    <2>7. \A s \in Runs : row'[s].status # "absent" <=> row[s].status # "absent"
      BY <2>1
    <2>8. \A i, j \in 1..Len(touched') : touched'[i] = touched'[j] => i = j
      BY <2>5, <2>6
    <2>9. \A s \in Runs : row'[s].status # "absent" <=> \E i \in 1..Len(touched') : touched'[i] = s
      BY <2>5, <2>6, <2>7 DEF TouchedOnce
    <2> QED
      BY <2>8, <2>9 DEF TouchedOnce
  <1>3. CASE Created
    <2>1. PICK r \in Runs : /\ row[r].status = "absent" /\ row'[r].status # "absent"
                            /\ \A s \in Runs : s # r => row'[s] = row[s]
                            /\ touched' = Append(touched, r)
      BY <1>3 DEF Created
    <2>2. /\ Len(touched) \in Nat /\ Len(touched') = Len(touched) + 1
          /\ touched'[Len(touched) + 1] = r
          /\ \A i \in 1..Len(touched) : touched'[i] = touched[i]
      BY <2>1 DEF TypeOK
    <2>3. \A i \in 1..Len(touched') : i \in 1..Len(touched) \/ i = Len(touched) + 1
      BY <2>2
    <2>4. \A i \in 1..Len(touched) : touched[i] # r /\ i \in 1..Len(touched')
      BY <2>1, <2>2 DEF TouchedOnce
    <2>5. \A i, j \in 1..Len(touched') : touched'[i] = touched'[j] => i = j
      BY <2>2, <2>3, <2>4 DEF TouchedOnce
    <2>6. \A s \in Runs : row'[s].status # "absent" <=> \E i \in 1..Len(touched') : touched'[i] = s
      <3> SUFFICES ASSUME NEW s \in Runs
                   PROVE  row'[s].status # "absent" <=> \E i \in 1..Len(touched') : touched'[i] = s
        OBVIOUS
      <3>1. CASE s = r
        <4>1. Len(touched) + 1 \in 1..Len(touched')
          BY <2>2
        <4> QED
          BY <2>1, <2>2, <3>1, <4>1
      <3>2. CASE s # r
        BY <2>1, <2>2, <2>3, <2>4, <3>2 DEF TouchedOnce
      <3> QED
        BY <3>1, <3>2
    <2> QED
      BY <2>5, <2>6 DEF TouchedOnce
  <1> QED
    BY <1>1, <1>2, <1>3, RowsAreWritten

LEMMA SupervisedStep ==
  ASSUME TypeOK, TypeOK', Supervised, TouchedOnce, [Next]_vars
  PROVE  Supervised'
  <1>1. ASSUME NEW w \in Workers, WorkerStep(w) PROVE Supervised'
    <2>1. CASE PhaseStep(w) \/ ReadRun(w) \/ AdvanceRun(w)
      <3>1. /\ \A v \in Workers : Busy(v)' <=> Busy(v)
            /\ \A v \in Workers : worker'[v].ticket = worker[v].ticket
            /\ UNCHANGED <<mode, queue, active, settling>>
        BY <2>1, ThreadKeepsFuture DEF poolVars
      <3> QED
        BY <3>1, SupervisedKept
    <2> QED
      BY <1>1, <2>1, TakingSupervised, FinishingSupervised DEF WorkerStep
  <1>2. ASSUME UNCHANGED <<queue, active, settling, worker>>,
               \A h \in Helpers : mode'[h] = "down" => mode[h] = "down"
        PROVE  Supervised'
    BY <1>2, SupervisedKept DEF Busy
  <1>3. ASSUME NEW c \in Callers, CallStep(c) \/ User(c) PROVE Supervised'
    <2>1. CASE User(c) \/ CreateRun(c) \/ ReadAttention(c) \/ (\E k \in Cards : AnswerTask(c, k))
                \/ RecordResolution(c) \/ ResumeRun(c)
      BY <1>2, <2>1 DEF User, SubmitCreate, SubmitResolve, CreateRun, ReadAttention, AnswerTask,
                        RecordResolution, ResumeRun, OnlyCall
    <2>2. CASE StartRun(c)
      <3>1. /\ Home[c] \in Helpers /\ call[c].run \in Runs /\ "owner" \in Actors
            /\ UNCHANGED <<worker, mode, settling>>
        BY <2>2, ConstantsAssumption
         DEF ConstantsAssumption, StartRun, OnlyCall, TypeOK, CallStates, Actors
      <3>2. CASE mode[Home[c]] = "up"
        BY <2>2, <3>1, <3>2, StartingSupervised DEF StartRun
      <3>3. CASE mode[Home[c]] # "up"
        BY <1>2, <2>2, <3>1, <3>3 DEF StartRun
      <3> QED
        BY <3>2, <3>3
    <2> QED
      BY <1>3, <2>1, <2>2 DEF CallStep
  <1>4. ASSUME NEW h \in Helpers,
               Callback(h) \/ Boot(h) \/ Bind(h) \/ Close(h) \/ Exit(h) \/ Crash(h) \/ OtherJob(h)
        PROVE  Supervised'
    <2>1. CASE Bind(h) \/ Close(h)
      <3>1. \A g \in Helpers : mode'[g] = "down" => mode[g] = "down"
        BY <2>1 DEF Bind, Close, TypeOK
      <3> QED
        BY <1>2, <2>1, <3>1 DEF Bind, Close
    <2>2. CASE Exit(h) \/ Crash(h)
      BY <2>2, VanishingSupervised DEF Exit, Crash
    <2>3. CASE OtherJob(h)
      BY <1>2, <2>3 DEF OtherJob, poolVars
    <2> QED
      BY <1>4, <2>1, <2>2, <2>3, ForgettingSupervised, BootingSupervised
  <1>5. CASE UNCHANGED vars
    BY <1>2, <1>5 DEF vars
  <1> QED
    BY <1>1, <1>3, <1>4, <1>5 DEF Next

LEMMA SupervisedInit == Init => Supervised /\ TouchedOnce
  <1> SUFFICES ASSUME Init PROVE Supervised /\ TouchedOnce
    OBVIOUS
  <1>1. /\ \A w \in Workers : ~Busy(w)
        /\ \A h \in Helpers : queue[h] = << >> /\ DOMAIN queue[h] = {} /\ settling[h] = {}
    BY DEF Init, Busy, IdleWorker
  <1>2. \A h \in Helpers : Pending(h) = {}
    BY <1>1 DEF Pending, ToSet, Busy
  <1>3. TouchedOnce
    <2>1. Len(touched) = 0 /\ \A r \in Runs : row[r].status = "absent"
      BY DEF Init, AbsentRow
    <2> QED
      BY <2>1 DEF TouchedOnce
  <1> QED
    BY <1>1, <1>2, <1>3 DEF Supervised, PendingAreActive, DoneAreNotPending, DownIsEmpty,
                            OneFuturePerRun, Busy

\* In every process a run has one future that is not done, however its callbacks,
\* its requests, its boot and its threads fall together (_active, _forget).
THEOREM RunsHaveOneDriver == Spec => []OneFuturePerRun
<1>1. Init => TypeOK /\ Supervised /\ TouchedOnce
  BY InitType, SupervisedInit
<1>2. TypeOK /\ Supervised /\ TouchedOnce /\ [Next]_vars => (TypeOK /\ Supervised /\ TouchedOnce)'
  BY StepTypes, SupervisedStep, TouchedStep
<1>3. Supervised => OneFuturePerRun
  BY DEF Supervised
<1> QED
  BY <1>1, <1>2, <1>3, PTL DEF Spec

-----------------------------------------------------------------------------
(* Cards are published reviewed. *)

\* Every conflict has a task, and nothing but the user's answer closes it.
ConflictsHaveTasks ==
  \A c \in Cards : KindOf[c] = "conflict" => task[c] \in {"open", "answered"}

Reviewed(c) ==
  /\ task[c] # "open" /\ KindOf[c] # "unsafe_visual"
  /\ KindOf[c] = "conflict" => task[c] = "answered"

\* A thread closes tasks that are safe, and publishes cards that are reviewed.
ThreadIsCareful(w) ==
  /\ worker[w].pc = "closing_task" =>
       KindOf[Head(worker[w].todo)] \in {"provenance", "near_duplicate"}
  /\ worker[w].pc = "publishing_card" => Reviewed(Head(worker[w].todo))

Careful ==
  /\ ConflictsHaveTasks
  /\ PublishedIsReviewed
  /\ \A w \in Workers : ThreadIsCareful(w)

\* A review once done stays done.
ReviewsStay == \A c \in Cards : Reviewed(c) => Reviewed(c)'

LEMMA CarefulKept ==
  ASSUME Careful, ConflictsHaveTasks', ReviewsStay, published' = published, published \subseteq Cards,
         \A w \in Workers : worker'[w].pc = "publishing_card" =>
           worker'[w].todo # << >> /\ Head(worker'[w].todo) \in Cards,
         \A v \in Workers : worker'[v] = worker[v] \/ ThreadIsCareful(v)'
  PROVE  Careful'
  <1>1. PublishedIsReviewed'
    BY DEF Careful, PublishedIsReviewed, ReviewsStay, Reviewed
  <1>2. ASSUME NEW v \in Workers PROVE ThreadIsCareful(v)'
    <2>1. CASE worker'[v] = worker[v]
      BY <2>1 DEF Careful, ThreadIsCareful, ReviewsStay
    <2> QED
      BY <2>1
  <1> QED
    BY <1>1, <1>2 DEF Careful

LEMMA TodoTypes ==
  (TypeOK => \A w \in Workers : worker[w].pc \in {"publishing_card", "closing_task"} =>
               worker[w].todo # << >> /\ Head(worker[w].todo) \in Cards)
  /\ (TypeOK' => \A w \in Workers : worker'[w].pc \in {"publishing_card", "closing_task"} =>
               worker'[w].todo # << >> /\ Head(worker'[w].todo) \in Cards)
  <1>1. \A s \in WorkerStates : s.pc \in {"publishing_card", "closing_task"} =>
          s.todo # << >> /\ s.todo \in Seq(Cards) /\ Head(s.todo) \in Cards
    BY WorkerStatesAre, HeadTailProperties DEF WorkerFields, WorkerRules
  <1> QED
    BY <1>1 DEF TypeOK

\* The steps of a thread that are about no single card.
Elsewhere == {"closing_task", "publishing_card"}

LEMMA ThreadLeavesCards ==
  ASSUME TypeOK, NEW w \in Workers, WorkerStep(w),
         ~(OrganizeCard(w) \/ CloseSafeTask(w) \/ PublishCard(w))
  PROVE  /\ worker'[w].pc \notin Elsewhere
         /\ \A v \in Workers : v # w => worker'[v] = worker[v]
         /\ UNCHANGED materialVars
  <1>1. worker \in [Workers -> WorkerStates] /\ worker[w] \in WorkerFields
    BY WorkerStatesAre DEF TypeOK
  <1> DEFINE Goal == worker'[w].pc \notin Elsewhere /\ \A v \in Workers : v # w => worker'[v] = worker[v]
  <1>2. ASSUME NEW x, x.pc \notin Elsewhere, worker' = [worker EXCEPT ![w] = x] PROVE Goal
    BY <1>1, <1>2
  <1>3. ASSUME NEW pc, pc \notin Elsewhere, Goto(w, pc) PROVE Goal
    <2>1. [worker[w] EXCEPT !.pc = pc].pc = pc
      BY <1>1 DEF WorkerFields
    <2> QED
      BY <1>2, <1>3, <2>1 DEF Goto
  <1>4. ASSUME NEW outcome, Decide(w, outcome) PROVE Goal
    <2>1. [worker[w] EXCEPT !.pc = "advancing", !.outcome = outcome].pc \notin Elsewhere
      BY <1>1 DEF WorkerFields, Elsewhere
    <2> QED
      BY <1>2, <1>4, <2>1 DEF Decide
  <1>5. ASSUME Fail(w) PROVE Goal
    BY <1>4, <1>5 DEF Fail
  <1>6. UNCHANGED materialVars
    BY DEF WorkerStep, TakeTicket, ReadRun, AdvanceRun, Finish, PhaseStep, StartPhase, ImportPhase,
           OrganizePhase, OrganizeEnd, EnqueueIndex, AdoptClaim, ClaimIndex, CompleteIndex,
           IndexEnd, MeetReplaced, ComposePhase, OutlinePhase, AssignVisualsPhase, ValidatePhase
  <1>7. CASE TakeTicket(w)
    <2> DEFINE x == [IdleWorker EXCEPT !.pc = "reading", !.ticket = Head(queue[Home[w]])]
    <2>1. x.pc \notin Elsewhere
      BY DEF IdleWorker, Elsewhere
    <2> HIDE DEF x
    <2>2. worker' = [worker EXCEPT ![w] = x]
      BY <1>7 DEF TakeTicket, x
    <2> QED
      BY <1>2, <1>6, <2>1, <2>2
  <1>8. CASE ReadRun(w)
    <2> DEFINE current == row[RunOf(w)]
               x == [worker[w] EXCEPT !.pc = IF current.status \in Settled THEN "returning" ELSE "handling",
                                      !.laps = worker[w].laps + 1,
                                      !.status = current.status, !.revision = current.revision]
    <2>1. x.pc \notin Elsewhere
      BY <1>1 DEF WorkerFields, Elsewhere
    <2>2. Goto(w, "returning") \/ worker' = [worker EXCEPT ![w] = x]
      BY <1>8 DEF ReadRun
    <2> HIDE DEF x
    <2>3. "returning" \notin Elsewhere
      BY DEF Elsewhere
    <2> QED
      BY <1>2, <1>3, <1>6, <2>1, <2>2, <2>3
  <1>9. CASE AdvanceRun(w)
    <2> DEFINE done == worker[w].outcome
               x == [worker[w] EXCEPT !.pc = IF done.next \in Settled THEN "returning" ELSE "reading",
                                      !.status = done.next, !.revision = row[RunOf(w)].revision + 1]
    <2>1. x.pc \notin Elsewhere
      BY <1>1 DEF WorkerFields, Elsewhere
    <2>2. Goto(w, "returning") \/ Goto(w, "reading") \/ worker' = [worker EXCEPT ![w] = x]
      BY <1>9 DEF AdvanceRun, AfterConflict
    <2> HIDE DEF x
    <2>3. "returning" \notin Elsewhere /\ "reading" \notin Elsewhere
      BY DEF Elsewhere
    <2> QED
      BY <1>2, <1>3, <1>6, <2>1, <2>2, <2>3
  <1>10. CASE Finish(w)
    BY <1>2, <1>6, <1>10 DEF Finish, IdleWorker, Elsewhere
  <1>11. CASE StartPhase(w) \/ ImportPhase(w) \/ OutlinePhase(w) \/ AssignVisualsPhase(w)
              \/ ValidatePhase(w) \/ IndexEnd(w) \/ MeetReplaced(w)
    BY <1>4, <1>5, <1>6, <1>11 DEF StartPhase, ImportPhase, OutlinePhase, AssignVisualsPhase,
                                   ValidatePhase, IndexEnd, MeetReplaced
  <1>12. CASE OrganizePhase(w)
    <2> DEFINE x == [worker[w] EXCEPT !.pc = "organizing", !.todo = CardsOf[RunOf(w)], !.asked = {}]
    <2>1. x.pc \notin Elsewhere
      BY <1>1 DEF WorkerFields, Elsewhere
    <2>2. worker' = [worker EXCEPT ![w] = x]
      BY <1>12 DEF OrganizePhase
    <2> HIDE DEF x
    <2> QED
      BY <1>2, <1>6, <2>1, <2>2
  <1>13. CASE OrganizeEnd(w) \/ AdoptClaim(w) \/ CompleteIndex(w)
    <2>1. {"enqueueing", "claiming"} \cap Elsewhere = {}
      BY DEF Elsewhere
    <2> QED
      BY <1>3, <1>4, <1>5, <1>6, <1>13, <2>1 DEF OrganizeEnd, AdoptClaim, CompleteIndex
  <1>16. CASE EnqueueIndex(w)
    <2> DEFINE x == [worker[w] EXCEPT !.pc = "adopting", !.claims = 0]
    <2>1. x.pc \notin Elsewhere
      BY <1>1 DEF WorkerFields, Elsewhere
    <2>2. Fail(w) \/ worker' = [worker EXCEPT ![w] = x]
      BY <1>16 DEF EnqueueIndex
    <2> HIDE DEF x
    <2> QED
      BY <1>2, <1>5, <1>6, <2>1, <2>2
  <1>14. CASE ClaimIndex(w)
    <2>1. CASE Fail(w)
      BY <1>5, <1>6, <2>1
    <2>2. ASSUME NEW item,
                 worker' = [worker EXCEPT ![w] = [worker[w] EXCEPT !.pc = "indexing", !.item = item,
                                                                   !.claims = worker[w].claims + 1]]
          PROVE  Goal
      <3> DEFINE x == [worker[w] EXCEPT !.pc = "indexing", !.item = item, !.claims = worker[w].claims + 1]
      <3>1. x.pc \notin Elsewhere
        BY <1>1 DEF WorkerFields, Elsewhere
      <3> HIDE DEF x
      <3> QED
        BY <1>2, <2>2, <3>1 DEF x
    <2> QED
      BY <1>6, <1>14, <2>1, <2>2 DEF ClaimIndex
  <1>15. CASE ComposePhase(w)
    <2> DEFINE x == [worker[w] EXCEPT !.pc = "outlining", !.over = snapshot]
    <2>1. x.pc \notin Elsewhere
      BY <1>1 DEF WorkerFields, Elsewhere
    <2>2. Fail(w) \/ worker' = [worker EXCEPT ![w] = x]
      BY <1>15 DEF ComposePhase
    <2> HIDE DEF x
    <2> QED
      BY <1>2, <1>5, <1>6, <2>1, <2>2
  <1> QED
    BY <1>7, <1>8, <1>9, <1>10, <1>11, <1>12, <1>13, <1>14, <1>15, <1>16 DEF WorkerStep, PhaseStep

\* A thread looks at a card: what is left open about it is read in the step that
\* decides to publish it.
LEMMA CardSteps ==
  ASSUME TypeOK, TypeOK', Careful, NEW w \in Workers,
         OrganizeCard(w) \/ CloseSafeTask(w) \/ PublishCard(w)
  PROVE  Careful'
  <1>0. /\ worker \in [Workers -> WorkerStates] /\ worker[w] \in WorkerFields
        /\ worker[w].todo # << >> /\ Head(worker[w].todo) \in Cards
        /\ published \subseteq Cards
    <2>1. worker[w].todo # << >> /\ worker[w].todo \in Seq(Cards)
      BY TodoTypes DEF OrganizeCard, CloseSafeTask, PublishCard, TypeOK, WorkerStates
    <2> QED
      BY <2>1, WorkerStatesAre, HeadTailProperties DEF TypeOK
  <1>1. PICK c \in Cards : c = Head(worker[w].todo)
    BY <1>0
  <1>2. ASSUME NEW pc, Goto(w, pc)
        PROVE  /\ worker'[w].pc = pc /\ worker'[w].todo = worker[w].todo
               /\ \A v \in Workers \ {w} : worker'[v] = worker[v]
    BY <1>0, <1>1, <1>2 DEF Goto, WorkerFields
  <1>3. ASSUME Fail(w)
        PROVE  /\ worker'[w].pc = "advancing"
               /\ \A v \in Workers \ {w} : worker'[v] = worker[v]
    BY <1>0, <1>1, <1>3 DEF Fail, Decide, WorkerFields
  <1>4. \A v \in Workers : worker'[v].pc = "publishing_card" =>
          worker'[v].todo # << >> /\ Head(worker'[v].todo) \in Cards
    BY TodoTypes
  <1>5. CASE OrganizeCard(w)
    <2>1. task' = task /\ published' = published
      BY <1>1, <1>5 DEF OrganizeCard, materialVars
    <2>2. ReviewsStay /\ ConflictsHaveTasks'
      BY <1>1, <2>1 DEF ReviewsStay, Reviewed, Careful, ConflictsHaveTasks
    <2>3. ThreadIsCareful(w)' /\ \A v \in Workers \ {w} : worker'[v] = worker[v]
      <3>1. CASE KindOf[c] = "unsafe_visual" \/ (task[c] = "open" /\ ~SafeTask(c))
        <4> DEFINE x == [worker[w] EXCEPT !.todo = Tail(worker[w].todo),
                                          !.asked = worker[w].asked \cup {c}]
        <4>1. x.pc = "organizing"
          BY <1>0, <1>1, <1>5 DEF OrganizeCard, WorkerFields
        <4>2. worker' = [worker EXCEPT ![w] = x]
          BY <1>1, <1>5, <3>1 DEF OrganizeCard
        <4> HIDE DEF x
        <4> QED
          BY <1>0, <1>1, <4>1, <4>2 DEF ThreadIsCareful
      <3>2. CASE KindOf[c] # "unsafe_visual" /\ task[c] = "open" /\ SafeTask(c)
        <4>1. Goto(w, "closing_task")
          BY <1>1, <1>5, <3>2 DEF OrganizeCard
        <4>2. KindOf[c] \in {"provenance", "near_duplicate"}
          BY <1>1, <3>2 DEF SafeTask
        <4> QED
          BY <1>1, <1>2, <4>1, <4>2 DEF ThreadIsCareful
      <3>3. CASE KindOf[c] # "unsafe_visual" /\ task[c] # "open"
        <4>1. Goto(w, "publishing_card")
          BY <1>1, <1>5, <3>3 DEF OrganizeCard
        <4>2. Reviewed(c)'
          BY <1>0, <1>1, <2>1, <3>3 DEF Reviewed, Careful, ConflictsHaveTasks
        <4>3. worker'[w].pc = "publishing_card" /\ Head(worker'[w].todo) = c
          BY <1>1, <1>2, <4>1
        <4> QED
          BY <1>1, <1>2, <4>1, <4>2, <4>3 DEF ThreadIsCareful, Reviewed
      <3> QED
        BY <1>1, <3>1, <3>2, <3>3
    <2> QED
      BY <1>0, <1>1, <1>4, <2>1, <2>2, <2>3, CarefulKept
  <1>6. CASE CloseSafeTask(w)
    <2>1. KindOf[c] \in {"provenance", "near_duplicate"} /\ ActorOf(w) \in Actors
      BY <1>1, <1>6, HandlerFacts DEF CloseSafeTask, Careful, ThreadIsCareful
    <2>2. published' = published /\ task \in [Cards -> {"none", "open", "answered"} \cup Actors]
      BY <1>1, <1>6 DEF CloseSafeTask, TypeOK
    <2>3. \A k \in Cards : k # c => task'[k] = task[k]
      BY <1>0, <1>1, <1>6, <2>2 DEF CloseSafeTask
    <2>4. CASE task[c] \in {"open", ActorOf(w)}
      <3>1. task'[c] = ActorOf(w) /\ Goto(w, "publishing_card")
        BY <1>0, <1>1, <1>6, <2>2, <2>4 DEF CloseSafeTask
      <3>2. Reviewed(c)'
        BY <1>1, <2>1, <3>1 DEF Reviewed, Actors
      <3>3. ReviewsStay /\ ConflictsHaveTasks'
        <4>1. ConflictsHaveTasks'
          BY <1>1, <2>1, <2>3 DEF Careful, ConflictsHaveTasks
        <4>2. ReviewsStay
          BY <1>1, <2>3, <3>2 DEF ReviewsStay, Reviewed
        <4> QED
          BY <1>1, <4>1, <4>2
      <3>4. worker'[w].pc = "publishing_card" /\ Head(worker'[w].todo) = c
        BY <1>1, <1>2, <3>1
      <3>5. ThreadIsCareful(w)'
        BY <1>1, <3>2, <3>4 DEF ThreadIsCareful, Reviewed
      <3> QED
        BY <1>0, <1>1, <1>2, <1>4, <2>2, <3>1, <3>3, <3>5, CarefulKept
    <2>5. CASE task[c] \notin {"open", ActorOf(w)}
      <3>1. task' = task /\ Fail(w)
        BY <1>1, <1>6, <2>5 DEF CloseSafeTask
      <3>2. ReviewsStay /\ ConflictsHaveTasks' /\ ThreadIsCareful(w)'
        BY <1>1, <1>3, <3>1 DEF ReviewsStay, Reviewed, Careful, ConflictsHaveTasks, ThreadIsCareful
      <3> QED
        BY <1>0, <1>1, <1>3, <1>4, <2>2, <3>1, <3>2, CarefulKept
    <2> QED
      BY <1>1, <2>4, <2>5
  <1>8. CASE PublishCard(w) /\ c \in replaced
    <2>1. Fail(w) /\ task' = task /\ published' = published
      BY <1>1, <1>8 DEF PublishCard
    <2>2. ReviewsStay /\ ConflictsHaveTasks' /\ ThreadIsCareful(w)'
      BY <1>1, <1>3, <2>1 DEF ReviewsStay, Reviewed, Careful, ConflictsHaveTasks, ThreadIsCareful
    <2> QED
      BY <1>0, <1>1, <1>3, <1>4, <2>1, <2>2, CarefulKept
  <1>7. CASE PublishCard(w) /\ c \notin replaced
    <2> DEFINE x == [worker[w] EXCEPT !.pc = "organizing", !.todo = Tail(worker[w].todo)]
    <2>1. task' = task /\ published' = published \cup {c} /\ worker' = [worker EXCEPT ![w] = x]
      BY <1>1, <1>7 DEF PublishCard
    <2>2. x.pc = "organizing"
      BY <1>0, <1>1 DEF WorkerFields
    <2>3. Reviewed(c)
      BY <1>1, <1>7 DEF PublishCard, Careful, ThreadIsCareful
    <2>4. PublishedIsReviewed'
      BY <1>1, <2>1, <2>3 DEF Careful, PublishedIsReviewed, Reviewed
    <2> HIDE DEF x
    <2>5. ASSUME NEW v \in Workers PROVE ThreadIsCareful(v)'
      <3>1. CASE v = w
        BY <1>0, <1>1, <2>1, <2>2, <3>1 DEF ThreadIsCareful
      <3>2. CASE v # w
        <4>1. worker'[v] = worker[v]
          BY <1>0, <1>1, <2>1, <3>2
        <4> QED
          BY <1>1, <2>1, <4>1 DEF Careful, ThreadIsCareful, Reviewed
      <3> QED
        BY <1>1, <3>1, <3>2
    <2> QED
      BY <1>1, <2>1, <2>4, <2>5 DEF Careful, ConflictsHaveTasks
  <1> QED
    BY <1>1, <1>5, <1>6, <1>7, <1>8

LEMMA CarefulStep ==
  ASSUME TypeOK, TypeOK', Careful, [Next]_vars
  PROVE  Careful'
  <1>1. /\ published \subseteq Cards
        /\ \A v \in Workers : worker'[v].pc = "publishing_card" =>
             worker'[v].todo # << >> /\ Head(worker'[v].todo) \in Cards
    BY TodoTypes DEF TypeOK
  <1>2. ASSUME UNCHANGED <<task, published>>,
               \A v \in Workers : worker'[v] = worker[v] \/ worker'[v].pc \notin Elsewhere
        PROVE  Careful'
    <2>1. ReviewsStay /\ ConflictsHaveTasks' /\ published' = published
      BY <1>2 DEF ReviewsStay, Reviewed, Careful, ConflictsHaveTasks
    <2>2. \A v \in Workers : worker'[v] = worker[v] \/ ThreadIsCareful(v)'
      BY <1>2 DEF Elsewhere, ThreadIsCareful
    <2> QED
      BY <1>1, <1>2, <2>1, <2>2, CarefulKept
  <1>3. ASSUME NEW w \in Workers, WorkerStep(w) PROVE Careful'
    <2>1. CASE OrganizeCard(w) \/ CloseSafeTask(w) \/ PublishCard(w)
      BY <2>1, CardSteps
    <2>2. CASE ~(OrganizeCard(w) \/ CloseSafeTask(w) \/ PublishCard(w))
      <3>1. /\ worker'[w].pc \notin Elsewhere /\ UNCHANGED <<task, published>>
            /\ \A v \in Workers \ {w} : worker'[v] = worker[v]
        BY <1>3, <2>2, ThreadLeavesCards DEF materialVars
      <3> QED
        BY <1>2, <3>1
    <2> QED
      BY <2>1, <2>2
  <1>4. ASSUME NEW c \in Callers, CallStep(c) \/ User(c) PROVE Careful'
    <2>1. worker' = worker
      BY <1>4 DEF CallStep, User, SubmitCreate, SubmitResolve, CreateRun, ReadAttention, AnswerTask,
                  RecordResolution, ResumeRun, StartRun, OnlyCall
    <2>2. CASE \E k \in Cards : AnswerTask(c, k)
      <3>1. PICK k \in Cards : AnswerTask(c, k)
        BY <2>2
      <3>2. /\ published' = published
            /\ \A j \in Cards : task'[j] = task[j] \/ (task[j] = "open" /\ task'[j] = "answered")
        BY <3>1 DEF AnswerTask, TypeOK
      <3>3. ReviewsStay /\ ConflictsHaveTasks'
        BY <3>2 DEF ReviewsStay, Reviewed, Careful, ConflictsHaveTasks
      <3> QED
        BY <1>1, <2>1, <3>2, <3>3, CarefulKept
    <2>3. CASE ~ \E k \in Cards : AnswerTask(c, k)
      <3>1. UNCHANGED <<task, published>>
        BY <1>4, <2>3 DEF CallStep, User, SubmitCreate, SubmitResolve, CreateRun, ReadAttention,
                          RecordResolution, ResumeRun, StartRun, materialVars
      <3> QED
        BY <1>2, <2>1, <3>1
    <2> QED
      BY <2>2, <2>3
  <1>5. ASSUME NEW h \in Helpers,
               Callback(h) \/ Boot(h) \/ Bind(h) \/ Close(h) \/ Exit(h) \/ Crash(h) \/ OtherJob(h)
        PROVE  Careful'
    <2>1. UNCHANGED <<task, published>>
      BY <1>5 DEF Callback, Forget, Boot, Bind, Close, Exit, Crash, OtherJob, RunKnowledgePublish,
                  RunKnowledgeIndex, Vanish, materialVars
    <2>2. CASE Exit(h) \/ Crash(h)
      <3>1. worker' = [w \in Workers |-> IF Home[w] = h THEN IdleWorker ELSE worker[w]]
        BY <2>2 DEF Exit, Crash, Vanish
      <3>2. \A v \in Workers : worker'[v] = worker[v] \/ worker'[v].pc \notin Elsewhere
        BY <3>1 DEF IdleWorker, Elsewhere
      <3> QED
        BY <1>2, <2>1, <3>2
    <2>3. CASE Callback(h) \/ Boot(h) \/ Bind(h) \/ Close(h) \/ OtherJob(h)
      <3>1. worker' = worker
        BY <2>3 DEF Callback, Forget, Boot, Bind, Close, OtherJob
      <3> QED
        BY <1>2, <2>1, <3>1
    <2> QED
      BY <1>5, <2>2, <2>3
  <1>6. CASE UNCHANGED vars
    BY <1>2, <1>6 DEF vars, materialVars
  <1> QED
    BY <1>3, <1>4, <1>5, <1>6 DEF Next

LEMMA CarefulInit == Init => Careful
  <1> SUFFICES ASSUME Init PROVE Careful
    OBVIOUS
  <1>1. \A w \in Workers : worker[w].pc = "idle"
    BY DEF Init, IdleWorker
  <1>2. ConflictsHaveTasks
    BY DEF Init, ConflictsHaveTasks
  <1> QED
    BY <1>1, <1>2 DEF Init, Careful, PublishedIsReviewed, ThreadIsCareful

\* Whoever organizes the cards, in how many processes, and whoever answers: nothing
\* is published before what the import left open about it is settled.
THEOREM NothingUnreviewedIsPublished == Spec => []PublishedIsReviewed
<1>1. Init => TypeOK /\ Careful
  BY InitType, CarefulInit
<1>2. TypeOK /\ Careful /\ [Next]_vars => (TypeOK /\ Careful)'
  BY StepTypes, CarefulStep
<1>3. Careful => PublishedIsReviewed
  BY DEF Careful
<1> QED
  BY <1>1, <1>2, <1>3, PTL DEF Spec

-----------------------------------------------------------------------------
(* A course is ready over a complete basis, and a run moves on its evidence. *)

Late == {"composing", "assigning_visuals", "validating"}

\* What is committed for a run: its cards before its index work, that before the
\* requirement, which leaves out what has been replaced, that before the outline,
\* which is over a snapshot there is.
Basis(r) ==
  /\ claim[r] # "none" => CandidatesOf(r) \subseteq published /\ bound[r]["index"] # Nobody
  /\ requirement[r] # {} => /\ requirement[r] \subseteq CandidatesOf(r)
                            /\ CandidatesOf(r) \ requirement[r] \subseteq replaced
                            /\ claim[r] = "consumed"
  /\ outline[r] # 0 => outline[r] <= snapshot /\ requirement[r] # {}

Complete(r) ==
  /\ requirement[r] # {} /\ outline[r] # 0
  /\ bound[r]["confirmation"] # Nobody /\ bound[r]["publication"] # Nobody

\* A row that has come to the composition, or has evidence of it, is indexed.
RowIsBacked(r) ==
  /\ row[r].status \in Late => claim[r] = "consumed"
  /\ \A i \in 1..Len(row[r].evidence) :
       row[r].evidence[i].by = "phase" /\ row[r].evidence[i].phase \in Late => claim[r] = "consumed"
  /\ row[r].status = "ready" => Complete(r)

\* The evidence of an outcome is of the status that the thread has read; what settles
\* a run is the checkpoint of a phase.
IsEvidenceOf(evidence, status, next) ==
  \/ evidence.by = "phase" /\ evidence.phase = status
  \/ evidence.by = "composition" /\ status = "composing" /\ next \notin Settled

\* Where a thread organizes the cards and has them indexed.
Organizing == {"organizing", "closing_task", "publishing_card", "enqueueing", "adopting",
               "claiming", "indexing"}

\* What the locals s of a thread say: one that organizes has published what it has
\* passed, or asks about it; one that decides has what it takes.
LocalsBacked(s) ==
  s.pc # "idle" =>
    LET r == s.ticket.run IN
    /\ s.status \in Late => claim[r] = "consumed"
    /\ s.pc \in Organizing => s.status = "organizing_knowledge"
    /\ s.pc = "outlining" => s.status = "composing"
    /\ s.pc \in {"organizing", "closing_task", "publishing_card"} =>
         \A c \in CandidatesOf(r) : \/ \E i \in 1..Len(s.todo) : s.todo[i] = c
                                    \/ c \in s.asked \/ c \in published
    /\ s.pc = "enqueueing" => CandidatesOf(r) \subseteq published
    /\ s.pc = "adopting" => claim[r] # "none"
    /\ s.pc = "indexing" => claim[s.item] # "none"
    /\ s.pc = "outlining" => requirement[r] # {} /\ 0 < s.over /\ s.over <= snapshot
    /\ s.pc = "advancing" =>
         /\ s.outcome.next \in Late => claim[r] = "consumed"
         /\ s.outcome.next = "ready" => Complete(r)
         /\ IsEvidenceOf(s.outcome.evidence, s.status, s.outcome.next)

CallIsBacked(c) ==
  call[c].pc # "idle" /\ call[c].resume \in Late => claim[call[c].run] = "consumed"

IndexIsBacked ==
  /\ snapshot <= Cardinality(published) + Cardinality(replaced) + Len(outbox)
  /\ \A i \in 1..Len(outbox) : claim[outbox[i]] # "none"

Backed ==
  /\ IndexIsBacked
  /\ \A r \in Runs : Basis(r) /\ RowIsBacked(r)
  /\ \A w \in Workers : LocalsBacked(worker[w])
  /\ \A c \in Callers : CallIsBacked(c)

\* Nothing that is committed is taken back.
Grows ==
  /\ published \subseteq published' /\ replaced \subseteq replaced'
  /\ snapshot <= snapshot'
  /\ \A r \in Runs :
       /\ claim[r] # "none" => claim'[r] # "none"
       /\ claim[r] = "consumed" => claim'[r] = "consumed"
       /\ \A a \in Artifacts : bound[r][a] # Nobody => bound'[r][a] # Nobody
       /\ requirement[r] # {} => requirement'[r] = requirement[r]
       /\ outline[r] # 0 => outline'[r] # 0

LEMMA CompleteKept ==
  ASSUME Grows, NEW r \in Runs, Complete(r) PROVE Complete(r)'
  BY DEF Grows, Complete, Artifacts

LEMMA LocalsKept ==
  ASSUME TypeOK, TypeOK', Grows, NEW s \in WorkerStates, LocalsBacked(s)
  PROVE  LocalsBacked(s)'
  <1> SUFFICES ASSUME s.pc # "idle" PROVE LocalsBacked(s)'
    BY DEF LocalsBacked
  <1>1. PICK r \in Runs : r = s.ticket.run
    BY DEF WorkerStates, Ticket
  <1>2. (s.pc = "indexing" => s.item \in Runs) /\ s.over \in Nat /\ snapshot \in Nat /\ snapshot' \in Nat
    BY DEF WorkerStates, TypeOK
  <1>3. /\ s.status \in Late => claim'[r] = "consumed"
        /\ s.pc = "adopting" => claim'[r] # "none"
        /\ s.pc = "indexing" => claim'[s.item] # "none"
    BY <1>1, <1>2 DEF LocalsBacked, Grows
  <1>4. /\ s.pc \in {"organizing", "closing_task", "publishing_card"} =>
             \A c \in CandidatesOf(r) : \/ \E i \in 1..Len(s.todo) : s.todo[i] = c
                                        \/ c \in s.asked \/ c \in published'
        /\ s.pc = "enqueueing" => CandidatesOf(r) \subseteq published'
    BY <1>1 DEF LocalsBacked, Grows
  <1>5. s.pc = "outlining" => requirement'[r] # {} /\ 0 < s.over /\ s.over <= snapshot'
    BY <1>1, <1>2 DEF LocalsBacked, Grows
  <1>6. s.pc = "advancing" =>
         /\ s.outcome.next \in Late => claim'[r] = "consumed"
         /\ s.outcome.next = "ready" => Complete(r)'
         /\ IsEvidenceOf(s.outcome.evidence, s.status, s.outcome.next)
    BY <1>1, CompleteKept DEF LocalsBacked, Grows
  <1>7. /\ s.pc \in Organizing => s.status = "organizing_knowledge"
        /\ s.pc = "outlining" => s.status = "composing"
    BY DEF LocalsBacked
  <1> QED
    BY <1>1, <1>3, <1>4, <1>5, <1>6, <1>7 DEF LocalsBacked, CandidatesOf

LEMMA BackedFrom ==
  ASSUME TypeOK, TypeOK', Backed, Grows, IndexIsBacked',
         \A r \in Runs : Basis(r)',
         \A r \in Runs : row'[r] = row[r] \/ RowIsBacked(r)',
         \A w \in Workers : worker'[w] = worker[w] \/ LocalsBacked(worker[w])',
         \A c \in Callers : \/ call'[c] = call[c]
                            \/ /\ call'[c].resume = call[c].resume /\ call'[c].run = call[c].run
                               /\ call[c].pc # "idle"
                            \/ CallIsBacked(c)'
  PROVE  Backed'
  <1>1. ASSUME NEW r \in Runs PROVE RowIsBacked(r)'
    <2>1. CASE row'[r] = row[r]
      BY <2>1, CompleteKept DEF Backed, RowIsBacked, Grows
    <2> QED
      BY <2>1
  <1>2. ASSUME NEW w \in Workers PROVE LocalsBacked(worker[w])'
    <2>1. CASE worker'[w] = worker[w]
      <3>1. PICK s \in WorkerStates : s = worker[w]
        BY DEF TypeOK
      <3>2. LocalsBacked(s)
        BY <3>1 DEF Backed
      <3>3. LocalsBacked(s)'
        BY <3>2, LocalsKept
      <3>4. s = worker'[w]
        BY <2>1, <3>1
      <3> QED
        BY <3>3, <3>4
    <2> QED
      BY <2>1
  <1>3. ASSUME NEW c \in Callers PROVE CallIsBacked(c)'
    <2>1. call[c].pc # "idle" => call[c].run \in Runs
      BY DEF TypeOK, CallStates
    <2>2. CASE call'[c] = call[c]
      BY <2>1, <2>2 DEF Backed, CallIsBacked, Grows
    <2>3. CASE /\ call'[c].resume = call[c].resume /\ call'[c].run = call[c].run
               /\ call[c].pc # "idle"
      BY <2>1, <2>3 DEF Backed, CallIsBacked, Grows
    <2> QED
      BY <2>2, <2>3
  <1> QED
    BY <1>1, <1>2, <1>3 DEF Backed

LEMMA QuietGrows ==
  ASSUME TypeOK, Backed, UNCHANGED <<published, replaced, artifactVars>>
  PROVE  Grows /\ IndexIsBacked' /\ \A r \in Runs : Basis(r)'
  <1>1. UNCHANGED <<published, replaced, bound, outbox, claim, lapsed, snapshot, requirement, outline>>
    BY DEF artifactVars, indexVars
  <1>2. snapshot \in Nat
    BY DEF TypeOK
  <1> QED
    BY <1>1, <1>2 DEF Grows, IndexIsBacked, Backed, Basis

-----------------------------------------------------------------------------
(* What a thread's locals become. *)

\* A thread does what it does with its own record.
NewLocals(w) == \A v \in Workers : worker'[v] = worker[v] \/ LocalsBacked(worker[v])'

LEMMA RecordLocals ==
  ASSUME TypeOK, NEW w \in Workers, NEW x, worker' = [worker EXCEPT ![w] = x], LocalsBacked(x)'
  PROVE  NewLocals(w)
  <1>1. worker'[w] = x /\ \A v \in Workers : v # w => worker'[v] = worker[v]
    BY DEF TypeOK
  <1> QED
    BY <1>1 DEF NewLocals

LEMMA DecideLocals ==
  ASSUME TypeOK, Backed, Grows, NEW w \in Workers, worker[w].pc # "idle",
         NEW r \in Runs, r = worker[w].ticket.run, NEW next, NEW evidence, NEW cards,
         Decide(w, Outcome(next, evidence, cards)),
         IsEvidenceOf(evidence, worker[w].status, next),
         next \in Late => claim'[r] = "consumed",
         next = "ready" => Complete(r)'
  PROVE  NewLocals(w)
  <1> DEFINE o == Outcome(next, evidence, cards)
  <1>0. PICK x : x = [worker[w] EXCEPT !.pc = "advancing", !.outcome = o]
    OBVIOUS
  <1>1. worker[w] \in WorkerFields /\ (worker[w].status \in Late => claim'[r] = "consumed")
    BY WorkerStatesAre DEF TypeOK, Backed, LocalsBacked, Grows
  <1>2. o.next = next /\ o.evidence = evidence
    BY DEF Outcome
  <1> HIDE DEF o
  <1>3. /\ x.pc = "advancing" /\ x.outcome = o
        /\ x.status = worker[w].status /\ x.ticket = worker[w].ticket
    BY <1>0, <1>1 DEF WorkerFields
  <1>4. worker' = [worker EXCEPT ![w] = x]
    BY <1>0 DEF Decide, o
  <1>5. LocalsBacked(x)'
    BY <1>1, <1>2, <1>3 DEF LocalsBacked, Organizing
  <1> QED
    BY <1>4, <1>5, RecordLocals

LEMMA FailLocals ==
  ASSUME TypeOK, Backed, Grows, NEW w \in Workers, worker[w].pc # "idle", Fail(w)
  PROVE  NewLocals(w)
  <1> DEFINE e == Checkpoint(worker[w].status, "failed", {}, 0)
  <1>1. IsEvidenceOf(e, worker[w].status, "failed")
    BY DEF IsEvidenceOf, Checkpoint
  <1>2. worker[w].ticket.run \in Runs
    BY DEF TypeOK, WorkerStates, Ticket
  <1>3. "failed" \notin Late
    BY DEF Late
  <1> HIDE DEF e
  <1> QED
    BY <1>1, <1>2, <1>3, DecideLocals DEF Fail, e

LEMMA GotoLocals ==
  ASSUME TypeOK, Backed, Grows, NEW w \in Workers, worker[w].pc # "idle",
         NEW r \in Runs, r = worker[w].ticket.run,
         NEW pc \in {"closing_task", "publishing_card", "enqueueing", "adopting", "claiming",
                     "returning", "reading"},
         Goto(w, pc),
         pc \notin {"returning", "reading"} => worker[w].pc \in Organizing,
         pc \in {"closing_task", "publishing_card"} => worker[w].pc \in {"organizing", "closing_task"},
         pc = "enqueueing" => CandidatesOf(r) \subseteq published',
         pc = "adopting" => claim'[r] # "none"
  PROVE  NewLocals(w)
  <1>0. PICK x : x = [worker[w] EXCEPT !.pc = pc]
    OBVIOUS
  <1>1. /\ worker[w] \in WorkerFields
        /\ worker[w].pc \in Organizing => worker[w].status = "organizing_knowledge"
        /\ worker[w].status \in Late => claim'[r] = "consumed"
        /\ worker[w].pc \in {"organizing", "closing_task"} =>
             \A c \in CandidatesOf(r) : \/ \E i \in 1..Len(worker[w].todo) : worker[w].todo[i] = c
                                        \/ c \in worker[w].asked \/ c \in published'
    BY WorkerStatesAre DEF TypeOK, Backed, LocalsBacked, Grows
  <1>2. /\ x.pc = pc /\ x.todo = worker[w].todo /\ x.asked = worker[w].asked
        /\ x.status = worker[w].status /\ x.ticket = worker[w].ticket
    BY <1>0, <1>1 DEF WorkerFields
  <1>3. worker' = [worker EXCEPT ![w] = x]
    BY <1>0 DEF Goto
  <1>4. /\ x.pc \in Organizing => x.status = "organizing_knowledge"
        /\ x.status \in Late => claim'[r] = "consumed"
        /\ x.pc \in {"organizing", "closing_task", "publishing_card"} =>
             \A c \in CandidatesOf(r) : \/ \E i \in 1..Len(x.todo) : x.todo[i] = c
                                        \/ c \in x.asked \/ c \in published'
    BY <1>1, <1>2 DEF Organizing
  <1>5. LocalsBacked(x)'
    BY <1>2, <1>4 DEF LocalsBacked, CandidatesOf
  <1> QED
    BY <1>3, <1>5, RecordLocals

\* The thread knows its run.
LEMMA ThreadRun ==
  ASSUME TypeOK, NEW w \in Workers, worker[w].pc # "idle"
  PROVE  \E r \in Runs : r = worker[w].ticket.run /\ r = RunOf(w)
  BY DEF TypeOK, WorkerStates, Ticket, RunOf

\* The steps of a thread that commit nothing for a run.
LEMMA QuietHandlers ==
  ASSUME TypeOK, TypeOK', Backed, NEW w \in Workers,
         StartPhase(w) \/ ImportPhase(w) \/ OrganizePhase(w) \/ OrganizeCard(w)
           \/ CloseSafeTask(w) \/ OrganizeEnd(w) \/ IndexEnd(w) \/ MeetReplaced(w)
  PROVE  Backed'
  <1>1. /\ UNCHANGED <<row, call, published, replaced, artifactVars>> /\ worker[w].pc # "idle"
    BY DEF StartPhase, ImportPhase, OrganizePhase, OrganizeCard, CloseSafeTask, OrganizeEnd,
           IndexEnd, MeetReplaced, InHandler, OnlyWorker, rowVars, materialVars
  <1>2. Grows /\ IndexIsBacked' /\ \A r \in Runs : Basis(r)'
    BY <1>1, QuietGrows
  <1>3. PICK r \in Runs : r = worker[w].ticket.run /\ r = RunOf(w)
    BY <1>1, ThreadRun
  <1>4. worker[w] \in WorkerFields /\ LocalsBacked(worker[w])
    BY WorkerStatesAre DEF TypeOK, Backed
  <1>5. CASE StartPhase(w)
    <2> DEFINE e == Checkpoint("queued", "passed", {}, 0)
    <2>1. IsEvidenceOf(e, worker[w].status, "importing") /\ "importing" \notin Late
      BY <1>5 DEF StartPhase, InHandler, IsEvidenceOf, Checkpoint, Late
    <2> HIDE DEF e
    <2>2. NewLocals(w)
      BY <1>1, <1>2, <1>3, <1>5, <2>1, DecideLocals DEF StartPhase, e
    <2> QED
      BY <1>1, <1>2, <2>2, BackedFrom DEF NewLocals
  <1>6. CASE ImportPhase(w)
    <2> DEFINE e == Checkpoint("importing", "passed", {}, 0)
               f == Checkpoint("importing", "attention", {}, 0)
    <2>1. /\ IsEvidenceOf(e, worker[w].status, "organizing_knowledge")
          /\ IsEvidenceOf(f, worker[w].status, "needs_attention")
          /\ "organizing_knowledge" \notin Late /\ "needs_attention" \notin Late
      BY <1>6 DEF ImportPhase, InHandler, IsEvidenceOf, Checkpoint, Late
    <2> HIDE DEF e, f
    <2>2. NewLocals(w)
      BY <1>1, <1>2, <1>3, <1>6, <2>1, DecideLocals DEF ImportPhase, e, f
    <2> QED
      BY <1>1, <1>2, <2>2, BackedFrom DEF NewLocals
  <1>7. CASE OrganizePhase(w)
    <2> DEFINE cards == CardsOf[r]
    <2>1. cards \in Seq(Cards) /\ \A c \in CandidatesOf(r) : \E i \in 1..Len(cards) : cards[i] = c
      <3>1. CardsOf[r] \in Seq(Cards) /\ DOMAIN CardsOf[r] = 1..Len(CardsOf[r])
        BY CandidateTypes
      <3> QED
        BY <3>1 DEF CandidatesOf, ToSet
    <2> HIDE DEF cards
    <2>0. PICK x : x = [worker[w] EXCEPT !.pc = "organizing", !.todo = cards, !.asked = {}]
      OBVIOUS
    <2>2. /\ x.pc = "organizing" /\ x.todo = cards /\ x.ticket = worker[w].ticket
          /\ x.status = "organizing_knowledge" /\ x.status \notin Late
      BY <1>4, <1>7, <2>0 DEF WorkerFields, OrganizePhase, InHandler, Late
    <2>3. worker' = [worker EXCEPT ![w] = x]
      BY <1>3, <1>7, <2>0 DEF OrganizePhase, cards
    <2>4. LocalsBacked(x)'
      BY <1>3, <2>1, <2>2 DEF LocalsBacked, CandidatesOf
    <2> QED
      BY <1>1, <1>2, <2>3, <2>4, RecordLocals, BackedFrom DEF NewLocals
  <1>8. CASE OrganizeCard(w)
    <2>1. PICK c : c = Head(worker[w].todo)
      OBVIOUS
    <2>2. CASE KindOf[c] = "unsafe_visual" \/ (task[c] = "open" /\ ~SafeTask(c))
      <3>1. /\ worker[w].todo \in Seq(Cards) /\ worker[w].todo # << >> /\ worker[w].pc = "organizing"
            /\ worker' = [worker EXCEPT ![w] = [worker[w] EXCEPT
                            !.todo = Tail(worker[w].todo), !.asked = worker[w].asked \cup {c}]]
        BY <1>4, <1>8, <2>1, <2>2 DEF OrganizeCard, WorkerFields
      <3> DEFINE todo == worker[w].todo
                 rest == Tail(worker[w].todo)
                 asked == worker[w].asked \cup {c}
      <3>2. \A i \in 1..Len(todo) : todo[i] = c \/ \E j \in 1..Len(rest) : rest[j] = todo[i]
        <4>1. /\ Len(todo) \in Nat /\ Len(todo) > 0 /\ Len(rest) = Len(todo) - 1 /\ c = todo[1]
              /\ \A j \in 1..Len(rest) : rest[j] = todo[j + 1]
          BY <2>1, <3>1, HeadTailProperties
        <4> HIDE DEF todo, rest
        <4> SUFFICES ASSUME NEW i \in 1..Len(todo), i # 1
                     PROVE  \E j \in 1..Len(rest) : rest[j] = todo[i]
          BY <4>1
        <4>2. i - 1 \in 1..Len(rest) /\ (i - 1) + 1 = i
          BY <4>1
        <4>3. rest[i - 1] = todo[i]
          BY <4>1, <4>2
        <4> QED
          BY <4>2, <4>3
      <3>3. \A k \in CandidatesOf(r) : \/ \E i \in 1..Len(rest) : rest[i] = k
                                       \/ k \in asked \/ k \in published'
        <4>1. \A k \in CandidatesOf(r) : \/ \E i \in 1..Len(todo) : todo[i] = k
                                         \/ k \in worker[w].asked \/ k \in published
          BY <1>3, <1>4, <3>1 DEF LocalsBacked
        <4> QED
          BY <1>1, <3>2, <4>1
      <3> HIDE DEF rest, asked
      <3>8. PICK x : x = [worker[w] EXCEPT !.todo = rest, !.asked = asked]
        OBVIOUS
      <3>4. /\ x.pc = "organizing" /\ x.todo = rest /\ x.asked = asked
            /\ x.ticket = worker[w].ticket /\ x.status = worker[w].status
        BY <1>4, <3>1, <3>8 DEF WorkerFields
      <3>5. worker' = [worker EXCEPT ![w] = x]
        BY <3>1, <3>8 DEF rest, asked
      <3>6. x.status = "organizing_knowledge" /\ x.status \notin Late
        BY <1>4, <3>1, <3>4 DEF LocalsBacked, Organizing, Late
      <3>7. LocalsBacked(x)'
        BY <1>3, <3>3, <3>4, <3>6 DEF LocalsBacked, CandidatesOf
      <3> QED
        BY <1>1, <1>2, <3>5, <3>7, RecordLocals, BackedFrom DEF NewLocals
    <2>3. CASE ~(KindOf[c] = "unsafe_visual" \/ (task[c] = "open" /\ ~SafeTask(c)))
      <3>1. /\ worker[w].pc = "organizing" /\ worker[w].pc \in Organizing
            /\ Goto(w, "closing_task") \/ Goto(w, "publishing_card")
        BY <1>8, <2>1, <2>3 DEF OrganizeCard, Organizing
      <3>2. NewLocals(w)
        BY <1>1, <1>2, <1>3, <3>1, GotoLocals
      <3> QED
        BY <1>1, <1>2, <3>2, BackedFrom DEF NewLocals
    <2> QED
      BY <2>2, <2>3
  <1>9. CASE CloseSafeTask(w)
    <2>1. /\ worker[w].pc = "closing_task" /\ worker[w].pc \in Organizing
          /\ Goto(w, "publishing_card") \/ Fail(w)
      BY <1>9 DEF CloseSafeTask, Organizing
    <2>2. NewLocals(w)
      BY <1>1, <1>2, <1>3, <2>1, GotoLocals, FailLocals
    <2> QED
      BY <1>1, <1>2, <2>2, BackedFrom DEF NewLocals
  <1>10. CASE OrganizeEnd(w)
    <2> DEFINE e == Checkpoint("organizing_knowledge", "attention", CandidatesOf(r) \ HeldBack(w), 0)
    <2>1. CASE Fail(w)
      BY <1>1, <1>2, <2>1, FailLocals, BackedFrom DEF NewLocals
    <2>2. CASE Goto(w, "enqueueing") /\ HeldBack(w) = {}
      <3>1. /\ worker[w].pc = "organizing" /\ worker[w].pc \in Organizing
            /\ Len(worker[w].todo) = 0 /\ worker[w].asked = {}
        BY <1>10, <2>2 DEF OrganizeEnd, HeldBack, Organizing
      <3>2. CandidatesOf(r) \subseteq published'
        BY <1>1, <1>3, <1>4, <3>1 DEF LocalsBacked
      <3> QED
        BY <1>1, <1>2, <1>3, <2>2, <3>1, <3>2, GotoLocals, BackedFrom DEF NewLocals
    <2>3. CASE Decide(w, Outcome("needs_attention", e, HeldBack(w)))
      <3>1. worker[w].status = "organizing_knowledge"
        <4>1. worker[w].pc = "organizing"
          BY <1>10 DEF OrganizeEnd
        <4> QED
          BY <1>4, <4>1 DEF LocalsBacked, Organizing
      <3>2. IsEvidenceOf(e, worker[w].status, "needs_attention") /\ "needs_attention" \notin Late
        BY <3>1 DEF IsEvidenceOf, Checkpoint, Late
      <3> DEFINE asked == HeldBack(w)
      <3>3. Decide(w, Outcome("needs_attention", e, asked))
        BY <2>3
      <3> HIDE DEF e, asked
      <3>4. NewLocals(w)
        BY <1>1, <1>2, <1>3, <3>2, <3>3, DecideLocals
      <3> QED
        BY <1>1, <1>2, <3>4, BackedFrom DEF NewLocals
    <2> QED
      BY <1>3, <1>10, <2>1, <2>2, <2>3 DEF OrganizeEnd
  <1>12. CASE Fail(w)
    BY <1>1, <1>2, <1>12, FailLocals, BackedFrom DEF NewLocals
  <1>11. CASE IndexEnd(w) /\ ~Fail(w)
    <2> DEFINE e == Checkpoint("organizing_knowledge", "passed", CandidatesOf(r), snapshot)
    <2>1. /\ worker[w].status = "organizing_knowledge" /\ claim'[r] = "consumed"
          /\ Decide(w, Outcome("composing", e, {}))
      BY <1>1, <1>3, <1>4, <1>11 DEF IndexEnd, LocalsBacked, Organizing, artifactVars, indexVars
    <2>2. IsEvidenceOf(e, worker[w].status, "composing")
      BY <2>1 DEF IsEvidenceOf, Checkpoint
    <2> HIDE DEF e
    <2> QED
      BY <1>1, <1>2, <1>3, <2>1, <2>2, DecideLocals, BackedFrom DEF NewLocals
  <1> QED
    BY <1>5, <1>6, <1>7, <1>8, <1>9, <1>10, <1>11, <1>12 DEF MeetReplaced

-----------------------------------------------------------------------------
(* The steps of a thread that commit something. *)

LEMMA CardsAreFinite ==
  ASSUME TypeOK, NEW S \in SUBSET Cards
  PROVE  IsFiniteSet(S) /\ Cardinality(S) \in Nat /\ Len(outbox) \in Nat
  BY ConstantsAssumption, FS_Subset, FS_CardinalityType, LenProperties
  DEF ConstantsAssumption, TypeOK

LEMMA ReplacedIsFinite ==
  ASSUME TypeOK PROVE IsFiniteSet(replaced) /\ Cardinality(replaced) \in Nat
  <1>1. replaced \in SUBSET Cards
    BY DEF TypeOK
  <1> QED
    BY <1>1, CardsAreFinite

\* A list without its first element has all the others.
LEMMA TailHasTheRest ==
  ASSUME NEW seq \in Seq(Cards), seq # << >>, NEW i \in 1..Len(seq), seq[i] # Head(seq)
  PROVE  \E j \in 1..Len(Tail(seq)) : Tail(seq)[j] = seq[i]
  <1>1. /\ Len(seq) \in Nat /\ Len(seq) > 0 /\ Len(Tail(seq)) = Len(seq) - 1 /\ Head(seq) = seq[1]
        /\ \A j \in 1..Len(Tail(seq)) : Tail(seq)[j] = seq[j + 1]
    BY HeadTailProperties
  <1>2. i - 1 \in 1..Len(Tail(seq)) /\ (i - 1) + 1 = i
    BY <1>1
  <1> QED
    BY <1>1, <1>2

LEMMA PublishingBacked ==
  ASSUME TypeOK, TypeOK', Backed, NEW w \in Workers, PublishCard(w)
  PROVE  Backed'
  <1>14. CASE Fail(w) /\ UNCHANGED published
    <2>1. UNCHANGED <<row, call, published, replaced, artifactVars>> /\ worker[w].pc # "idle"
      BY <1>14 DEF PublishCard, OnlyWorker, rowVars
    <2>2. Grows /\ IndexIsBacked' /\ \A r \in Runs : Basis(r)'
      BY <2>1, QuietGrows
    <2> QED
      BY <1>14, <2>1, <2>2, FailLocals, BackedFrom DEF NewLocals
  <1> SUFFICES ASSUME ~(Fail(w) /\ UNCHANGED published) PROVE Backed'
    BY <1>14
  <1>1. /\ UNCHANGED <<row, call, replaced, bound, outbox, claim, snapshot, requirement, outline>>
        /\ worker[w].pc = "publishing_card" /\ worker[w].pc \in Organizing
        /\ published' = published \cup {Head(worker[w].todo)}
    BY DEF PublishCard, OnlyWorker, rowVars, artifactVars, indexVars, Organizing
  <1>2. Grows
    BY <1>1 DEF Grows, TypeOK
  <1>3. IndexIsBacked'
    <2>1. published' \in SUBSET Cards
      BY DEF TypeOK
    <2>2. Cardinality(published) <= Cardinality(published')
      BY <1>1, <2>1, CardsAreFinite, FS_Subset
    <2>3. /\ Cardinality(published) \in Nat /\ Cardinality(published') \in Nat
          /\ Cardinality(replaced) \in Nat /\ Len(outbox) \in Nat /\ snapshot \in Nat
      BY <2>1, ReplacedIsFinite, CardsAreFinite DEF TypeOK
    <2> QED
      BY <1>1, <2>2, <2>3 DEF Backed, IndexIsBacked
  <1>4. \A r \in Runs : Basis(r)'
    BY <1>1 DEF Backed, Basis, CandidatesOf
  <1>5. PICK r \in Runs : r = worker[w].ticket.run
    BY <1>1, ThreadRun
  <1>6. /\ worker[w] \in WorkerFields /\ LocalsBacked(worker[w])
        /\ worker[w].todo \in Seq(Cards) /\ worker[w].todo # << >>
    <2>1. worker[w] \in WorkerStates /\ LocalsBacked(worker[w])
      BY DEF TypeOK, Backed
    <2>2. worker[w] \in WorkerFields /\ WorkerRules(worker[w])
      BY <2>1, WorkerStatesAre
    <2>3. worker[w].todo \in Seq(Cards)
      BY <2>2 DEF WorkerFields
    <2>4. worker[w].todo # << >>
      BY <1>1, <2>2 DEF WorkerRules
    <2> QED
      BY <2>1, <2>2, <2>3, <2>4
  <1> DEFINE todo == worker[w].todo
             rest == Tail(todo)
  <1>7. PICK x : x = [worker[w] EXCEPT !.pc = "organizing", !.todo = rest]
    OBVIOUS
  <1>8. /\ x.pc = "organizing" /\ x.todo = rest /\ x.asked = worker[w].asked
        /\ x.ticket = worker[w].ticket /\ x.status = worker[w].status
    BY <1>6, <1>7 DEF WorkerFields
  <1>9. \A c \in CandidatesOf(r) : \/ \E j \in 1..Len(rest) : rest[j] = c
                                   \/ c \in worker[w].asked \/ c \in published'
    <2> SUFFICES ASSUME NEW c \in CandidatesOf(r), c \notin worker[w].asked, c \notin published'
                 PROVE  \E j \in 1..Len(rest) : rest[j] = c
      OBVIOUS
    <2>1. PICK i \in 1..Len(todo) : todo[i] = c
      BY <1>1, <1>5, <1>6 DEF LocalsBacked
    <2>2. c # Head(todo)
      BY <1>1
    <2> QED
      BY <1>6, <2>1, <2>2, TailHasTheRest
  <1>10. x.status = "organizing_knowledge" /\ x.status \notin Late
    BY <1>1, <1>6, <1>8 DEF LocalsBacked, Late
  <1> HIDE DEF rest
  <1>11. LocalsBacked(x)'
    BY <1>5, <1>8, <1>9, <1>10 DEF LocalsBacked, CandidatesOf
  <1>12. worker' = [worker EXCEPT ![w] = x]
    BY <1>7 DEF PublishCard, rest
  <1>13. NewLocals(w)
    BY <1>11, <1>12, RecordLocals
  <1> QED
    BY <1>1, <1>2, <1>3, <1>4, <1>13, BackedFrom DEF NewLocals

LEMMA EnqueueBacked ==
  ASSUME TypeOK, TypeOK', Backed, NEW w \in Workers, EnqueueIndex(w)
  PROVE  Backed'
  <1>1. /\ UNCHANGED <<row, call, published, replaced, snapshot, requirement, outline>>
        /\ worker[w].pc = "enqueueing" /\ worker[w].pc \in Organizing
    BY DEF EnqueueIndex, OnlyWorker, rowVars, materialVars, Organizing
  <1>2. PICK r \in Runs : r = worker[w].ticket.run /\ r = RunOf(w)
    BY <1>1, ThreadRun
  <1>3. CandidatesOf(r) \subseteq published
    BY <1>1, <1>2 DEF Backed, LocalsBacked
  <1>4. CASE Fail(w) /\ UNCHANGED <<bound, outbox, claim>>
    <2>1. Grows /\ IndexIsBacked' /\ \A s \in Runs : Basis(s)'
      BY <1>1, <1>4 DEF Grows, IndexIsBacked, Backed, Basis, TypeOK
    <2> QED
      BY <1>1, <1>4, <2>1, FailLocals, BackedFrom DEF NewLocals
  <1>5. CASE /\ Commit(r, "index", ActorOf(w))
             /\ worker' = [worker EXCEPT ![w] = [@ EXCEPT !.pc = "adopting", !.claims = 0]]
             /\ outbox' = IF claim[r] = "none" THEN Append(outbox, r) ELSE outbox
             /\ claim' = [claim EXCEPT ![r] = IF @ = "none" THEN "waiting" ELSE @]
    <2>1. /\ claim'[r] # "none" /\ bound'[r]["index"] # Nobody
          /\ (claim'[r] = "consumed") <=> (claim[r] = "consumed")
          /\ \A s \in Runs \ {r} : claim'[s] = claim[s] /\ bound'[s] = bound[s]
          /\ \A a \in Artifacts : bound[r][a] # Nobody => bound'[r][a] # Nobody
      <3>1. ActorOf(w) # Nobody
        BY <1>1, HandlerFacts DEF Actors, Nobody
      <3>2. bound \in [Runs -> [Artifacts -> Actors \cup {Nobody}]] /\ "index" \in Artifacts
        BY DEF TypeOK, Artifacts
      <3>3. bound' = [bound EXCEPT ![r]["index"] = ActorOf(w)]
        BY <1>5 DEF Commit
      <3>4. claim \in [Runs -> {"none", "waiting", "consumed"} \cup Workers]
        BY DEF TypeOK
      <3> QED
        BY <1>5, <3>1, <3>2, <3>3, <3>4
    <2>2. Grows
      BY <1>1, <2>1 DEF Grows, TypeOK
    <2>3. /\ outbox \in Seq(Runs) /\ Len(outbox) \in Nat /\ snapshot \in Nat
          /\ Cardinality(published) \in Nat /\ Cardinality(replaced) \in Nat
      BY CardsAreFinite, ReplacedIsFinite DEF TypeOK
    <2>4. IndexIsBacked'
      <3>1. CASE outbox' = outbox
        BY <1>1, <2>2, <2>3, <3>1 DEF Backed, IndexIsBacked, Grows
      <3>2. CASE outbox' = Append(outbox, r)
        <4>1. /\ Len(outbox') = Len(outbox) + 1
              /\ \A i \in 1..Len(outbox') : outbox'[i] = r \/ \E j \in 1..Len(outbox) : outbox'[i] = outbox[j]
          BY <2>3, <3>2
        <4>2. \A i \in 1..Len(outbox') : claim'[outbox'[i]] # "none"
          <5> SUFFICES ASSUME NEW i \in 1..Len(outbox') PROVE claim'[outbox'[i]] # "none"
            OBVIOUS
          <5>1. CASE outbox'[i] = r
            BY <2>1, <5>1
          <5>2. ASSUME NEW j \in 1..Len(outbox), outbox'[i] = outbox[j] PROVE claim'[outbox'[i]] # "none"
            <6>1. outbox[j] \in Runs /\ claim[outbox[j]] # "none"
              BY <2>3 DEF Backed, IndexIsBacked
            <6> QED
              BY <2>2, <5>2, <6>1 DEF Grows
          <5> QED
            BY <4>1, <5>1, <5>2
        <4>3. snapshot <= Cardinality(published) + Cardinality(replaced) + Len(outbox)
          BY DEF Backed, IndexIsBacked
        <4>4. snapshot' <= Cardinality(published') + Cardinality(replaced') + Len(outbox')
          BY <1>1, <2>3, <4>1, <4>3
        <4> QED
          BY <4>2, <4>4 DEF IndexIsBacked
      <3> QED
        BY <1>5, <3>1, <3>2
    <2>5. \A s \in Runs : Basis(s)'
      <3> SUFFICES ASSUME NEW s \in Runs PROVE Basis(s)'
        OBVIOUS
      <3>1. CASE s = r
        BY <1>1, <1>3, <2>1, <3>1 DEF Backed, Basis, CandidatesOf
      <3>2. CASE s # r
        BY <1>1, <2>1, <3>2 DEF Backed, Basis, CandidatesOf
      <3> QED
        BY <3>1, <3>2
    <2>6. NewLocals(w)
      <3>1. PICK x : x = [worker[w] EXCEPT !.pc = "adopting", !.claims = 0]
        OBVIOUS
      <3>2. worker[w] \in WorkerFields /\ worker[w].status = "organizing_knowledge"
        BY <1>1, WorkerStatesAre DEF TypeOK, Backed, LocalsBacked
      <3>3. /\ x.pc = "adopting" /\ x.ticket = worker[w].ticket
            /\ x.status = "organizing_knowledge" /\ x.status \notin Late
        BY <3>1, <3>2 DEF WorkerFields, Late
      <3>4. LocalsBacked(x)'
        BY <1>2, <2>1, <3>3 DEF LocalsBacked
      <3> QED
        BY <1>5, <3>1, <3>4, RecordLocals
    <2> QED
      BY <1>1, <2>2, <2>4, <2>5, <2>6, BackedFrom DEF NewLocals
  <1> QED
    BY <1>2, <1>4, <1>5 DEF EnqueueIndex

\* A snapshot that is sealed is of what is published and enqueued.
LEMMA SealingGrows ==
  ASSUME TypeOK, Backed, Seal \/ UNCHANGED snapshot,
         UNCHANGED <<published, replaced, bound, outbox, requirement, outline>>,
         \A r \in Runs : /\ claim[r] # "none" => claim'[r] # "none"
                         /\ claim[r] = "none" => claim'[r] = "none"
                         /\ claim[r] = "consumed" => claim'[r] = "consumed"
  PROVE  Grows /\ IndexIsBacked' /\ \A r \in Runs : Basis(r)'
  <1>1. /\ Cardinality(published) \in Nat /\ Cardinality(replaced) \in Nat
        /\ Len(outbox) \in Nat /\ snapshot \in Nat /\ outbox \in Seq(Runs)
    BY CardsAreFinite, ReplacedIsFinite DEF TypeOK
  <1>2. snapshot <= snapshot' /\ snapshot' \in Nat
        /\ snapshot' <= Cardinality(published) + Cardinality(replaced) + Len(outbox)
    BY <1>1 DEF Seal, Backed, IndexIsBacked
  <1>3. Grows
    BY <1>2 DEF Grows
  <1>4. IndexIsBacked'
    <2>1. \A i \in 1..Len(outbox) : outbox[i] \in Runs
      BY <1>1
    <2> QED
      BY <1>2, <2>1 DEF Backed, IndexIsBacked
  <1>5. ASSUME NEW r \in Runs PROVE Basis(r)'
    <2>1. outline[r] \in Nat
      BY DEF TypeOK
    <2> QED
      BY <1>1, <1>2, <2>1 DEF Backed, Basis, CandidatesOf
  <1> QED
    BY <1>3, <1>4, <1>5

LEMMA AdoptBacked ==
  ASSUME TypeOK, TypeOK', Backed, NEW w \in Workers, AdoptClaim(w)
  PROVE  Backed'
  <1>1. /\ UNCHANGED <<row, call, published, replaced, bound, outbox, requirement, outline>>
        /\ worker[w].pc = "adopting" /\ worker[w].pc \in Organizing /\ Goto(w, "claiming")
    BY DEF AdoptClaim, OnlyWorker, rowVars, materialVars, Organizing
  <1>2. PICK r \in Runs : r = worker[w].ticket.run /\ r = RunOf(w)
    BY <1>1, ThreadRun
  <1>3. \/ claim[r] \in Workers /\ claim' = [claim EXCEPT ![r] = "consumed"] /\ Seal
        \/ UNCHANGED <<claim, snapshot>>
    BY <1>2 DEF AdoptClaim
  <1>4. claim[r] \in Workers => claim[r] \notin {"none", "consumed"}
    BY ConstantsAssumption DEF ConstantsAssumption
  <1>5. Grows /\ IndexIsBacked' /\ \A s \in Runs : Basis(s)'
    <2>1. \A s \in Runs : /\ claim[s] # "none" => claim'[s] # "none"
                          /\ claim[s] = "none" => claim'[s] = "none"
                          /\ claim[s] = "consumed" => claim'[s] = "consumed"
      BY <1>3, <1>4 DEF TypeOK
    <2> QED
      BY <1>1, <1>3, <2>1, SealingGrows
  <1>6. NewLocals(w)
    BY <1>1, <1>2, <1>5, GotoLocals
  <1> QED
    BY <1>1, <1>5, <1>6, BackedFrom DEF NewLocals

LEMMA ClaimBacked ==
  ASSUME TypeOK, TypeOK', Backed, NEW w \in Workers, ClaimIndex(w)
  PROVE  Backed'
  <1>1. /\ UNCHANGED <<row, call, published, replaced, bound, outbox, snapshot, requirement, outline>>
        /\ worker[w].pc \in {"adopting", "claiming"} /\ worker[w].pc \in Organizing
        /\ worker[w].pc # "idle"
    BY DEF ClaimIndex, OnlyWorker, rowVars, materialVars, Organizing
  <1>2. PICK E \in SUBSET {s \in Runs : claim[s] \in Workers} :
          IF Claimable(E) = {}
          THEN /\ claim' = [s \in Runs |-> IF s \in E THEN "waiting" ELSE claim[s]]
               /\ Fail(w)
          ELSE \E i \in Claimable(E) :
                 /\ \A j \in Claimable(E) : i <= j
                 /\ claim' = [s \in Runs |-> IF s = outbox[i] THEN w
                                             ELSE IF s \in E THEN "waiting" ELSE claim[s]]
                 /\ worker' = [worker EXCEPT ![w] = [@ EXCEPT !.pc = "indexing", !.item = outbox[i],
                                                              !.claims = worker[w].claims + 1]]
    BY DEF ClaimIndex
  <1>3. Workers \cap {"none", "waiting", "consumed"} = {}
    BY ConstantsAssumption DEF ConstantsAssumption
  <1>4. CASE Claimable(E) = {}
    <2>1. \A s \in Runs : /\ claim[s] # "none" => claim'[s] # "none"
                          /\ claim[s] = "none" => claim'[s] = "none"
                          /\ claim[s] = "consumed" => claim'[s] = "consumed"
      BY <1>2, <1>3, <1>4
    <2>2. Grows /\ IndexIsBacked' /\ \A s \in Runs : Basis(s)'
      BY <1>1, <2>1, SealingGrows
    <2> QED
      BY <1>1, <1>2, <1>4, <2>2, FailLocals, BackedFrom DEF NewLocals
  <1>5. CASE Claimable(E) # {}
    <2>1. PICK i \in Claimable(E) :
            /\ claim' = [s \in Runs |-> IF s = outbox[i] THEN w
                                        ELSE IF s \in E THEN "waiting" ELSE claim[s]]
            /\ worker' = [worker EXCEPT ![w] = [@ EXCEPT !.pc = "indexing", !.item = outbox[i],
                                                          !.claims = worker[w].claims + 1]]
      BY <1>2, <1>5
    <2>2. /\ outbox[i] \in Runs /\ claim[outbox[i]] \notin {"none", "consumed"}
      <3>1. outbox \in Seq(Runs) /\ i \in 1..Len(outbox)
        BY DEF Claimable, TypeOK
      <3>2. claim[outbox[i]] = "waiting" \/ claim[outbox[i]] \in Workers
        BY DEF Claimable
      <3> QED
        BY <1>3, <3>1, <3>2
    <2> DEFINE item == outbox[i]
    <2>3. \A s \in Runs : /\ claim[s] # "none" => claim'[s] # "none"
                          /\ claim[s] = "none" => claim'[s] = "none"
                          /\ claim[s] = "consumed" => claim'[s] = "consumed"
      BY <1>3, <2>1, <2>2
    <2>4. Grows /\ IndexIsBacked' /\ \A s \in Runs : Basis(s)'
      BY <1>1, <2>3, SealingGrows
    <2>5. claim'[item] = w /\ w # "none" /\ item \in Runs
      BY <1>3, <2>1, <2>2
    <2>6. PICK x : x = [worker[w] EXCEPT !.pc = "indexing", !.item = item,
                                         !.claims = worker[w].claims + 1]
      OBVIOUS
    <2>7. worker' = [worker EXCEPT ![w] = x]
      BY <2>1, <2>6
    <2>8. PICK r \in Runs : r = worker[w].ticket.run /\ r = RunOf(w)
      BY <1>1, ThreadRun
    <2>9. /\ worker[w] \in WorkerFields /\ worker[w].status = "organizing_knowledge"
      BY <1>1, WorkerStatesAre DEF TypeOK, Backed, LocalsBacked
    <2>10. PICK k : k = item
      OBVIOUS
    <2>11. /\ x.pc = "indexing" /\ x.item = k /\ x.status = "organizing_knowledge"
           /\ x.status \notin Late /\ claim'[k] # "none"
      BY <2>5, <2>6, <2>9, <2>10 DEF WorkerFields, Late
    <2>12. LocalsBacked(x)'
      BY <2>11 DEF LocalsBacked
    <2>13. NewLocals(w)
      BY <2>7, <2>12, RecordLocals
    <2> QED
      BY <1>1, <2>4, <2>13, BackedFrom DEF NewLocals
  <1> QED
    BY <1>4, <1>5

LEMMA CompleteBacked ==
  ASSUME TypeOK, TypeOK', Backed, NEW w \in Workers, CompleteIndex(w)
  PROVE  Backed'
  <1>1. /\ UNCHANGED <<row, call, published, replaced, bound, outbox, requirement, outline>>
        /\ worker[w].pc = "indexing" /\ worker[w].pc \in Organizing
        /\ worker[w].item \in Runs
    BY HandlerFacts DEF CompleteIndex, OnlyWorker, rowVars, materialVars, Organizing
  <1>2. PICK s \in Runs : s = worker[w].item
    BY <1>1
  <1>3. claim[s] # "none"
    BY <1>1, <1>2 DEF Backed, LocalsBacked
  <1>4. \/ Fail(w) /\ UNCHANGED <<claim, snapshot>>
        \/ /\ claim' = [claim EXCEPT ![s] = "consumed"] /\ (Seal \/ UNCHANGED snapshot)
           /\ Goto(w, "claiming")
    BY <1>2 DEF CompleteIndex
  <1>5. Grows /\ IndexIsBacked' /\ \A r \in Runs : Basis(r)'
    <2>1. \A r \in Runs : /\ claim[r] # "none" => claim'[r] # "none"
                          /\ claim[r] = "none" => claim'[r] = "none"
                          /\ claim[r] = "consumed" => claim'[r] = "consumed"
      BY <1>3, <1>4 DEF TypeOK
    <2> QED
      BY <1>1, <1>4, <2>1, SealingGrows
  <1>6. PICK r \in Runs : r = worker[w].ticket.run /\ r = RunOf(w)
    BY <1>1, ThreadRun
  <1>7. NewLocals(w)
    BY <1>1, <1>4, <1>5, <1>6, GotoLocals, FailLocals
  <1> QED
    BY <1>1, <1>5, <1>7, BackedFrom DEF NewLocals

\* A thread that composes has all the cards of the run to register that have not
\* been replaced.
LEMMA ComposeBacked ==
  ASSUME TypeOK, TypeOK', Backed, NEW w \in Workers, ComposePhase(w)
  PROVE  Backed'
  <1>1. /\ UNCHANGED <<row, call, published, replaced, bound, outbox, claim, snapshot, outline>>
        /\ worker[w].pc = "handling" /\ worker[w].pc # "idle" /\ worker[w].status = "composing"
    BY DEF ComposePhase, InHandler, OnlyWorker, rowVars, materialVars, indexVars
  <1>2. PICK r \in Runs : r = worker[w].ticket.run /\ r = RunOf(w)
    BY <1>1, ThreadRun
  <1>6. PICK cards : cards = PublishedOf(r)
    OBVIOUS
  <1>3. /\ claim[r] = "consumed" /\ cards \subseteq CandidatesOf(r)
        /\ CandidatesOf(r) \ cards \subseteq replaced
    BY <1>1, <1>2, <1>6 DEF Backed, LocalsBacked, Basis, Late, PublishedOf
  <1>4. CASE Fail(w) /\ UNCHANGED requirement
    <2>1. Grows /\ IndexIsBacked' /\ \A s \in Runs : Basis(s)'
      BY <1>1, <1>4, QuietGrows DEF artifactVars, indexVars, Grows, IndexIsBacked, Backed, Basis, TypeOK
    <2> QED
      BY <1>1, <1>4, <2>1, FailLocals, BackedFrom DEF NewLocals
  <1>5. CASE /\ snapshot # 0 /\ cards # {} /\ requirement[r] \in {{}, cards}
             /\ requirement' = [requirement EXCEPT ![r] = cards]
             /\ worker' = [worker EXCEPT ![w] = [@ EXCEPT !.pc = "outlining", !.over = snapshot]]
    <2>1. /\ requirement'[r] = cards /\ requirement'[r] # {}
          /\ \A s \in Runs \ {r} : requirement'[s] = requirement[s]
      BY <1>5 DEF TypeOK
    <2>2. snapshot \in Nat
      BY DEF TypeOK
    <2>3. Grows /\ IndexIsBacked'
      BY <1>1, <1>5, <2>1, <2>2 DEF Grows, Backed, IndexIsBacked
    <2>4. ASSUME NEW s \in Runs PROVE Basis(s)'
      <3>1. CASE s = r
        BY <1>1, <1>3, <2>1, <3>1 DEF Backed, Basis, CandidatesOf
      <3>2. CASE s # r
        BY <1>1, <2>1, <3>2 DEF Backed, Basis, CandidatesOf
      <3> QED
        BY <3>1, <3>2
    <2>5. PICK k : k = snapshot
      OBVIOUS
    <2>6. PICK x : x = [worker[w] EXCEPT !.pc = "outlining", !.over = k]
      OBVIOUS
    <2>7. worker' = [worker EXCEPT ![w] = x]
      BY <1>5, <2>5, <2>6
    <2>8. worker[w] \in WorkerFields
      BY WorkerStatesAre DEF TypeOK
    <2>9. /\ x.pc = "outlining" /\ x.over = k /\ 0 < k /\ k <= snapshot' /\ x.status = "composing"
          /\ x.ticket = worker[w].ticket
      BY <1>1, <1>5, <2>2, <2>5, <2>6, <2>8 DEF WorkerFields
    <2>10. LocalsBacked(x)'
      BY <1>1, <1>2, <1>3, <2>1, <2>9 DEF LocalsBacked, Organizing
    <2>11. NewLocals(w)
      BY <2>7, <2>10, RecordLocals
    <2> QED
      BY <1>1, <2>3, <2>4, <2>11, BackedFrom DEF NewLocals
  <1> QED
    BY <1>2, <1>4, <1>5, <1>6 DEF ComposePhase

LEMMA OutlineBacked ==
  ASSUME TypeOK, TypeOK', Backed, NEW w \in Workers, OutlinePhase(w)
  PROVE  Backed'
  <1>1. /\ UNCHANGED <<row, call, published, replaced, bound, outbox, claim, snapshot, requirement>>
        /\ worker[w].pc = "outlining" /\ worker[w].pc # "idle"
    BY DEF OutlinePhase, OnlyWorker, rowVars, materialVars, indexVars
  <1>2. PICK r \in Runs : r = worker[w].ticket.run /\ r = RunOf(w)
    BY <1>1, ThreadRun
  <1> DEFINE over == worker[w].over
             e == Checkpoint("composing", "attention", {}, 0)
             f == [by |-> "composition", phase |-> "none", verdict |-> "passed",
                   cards |-> requirement[r], snapshot |-> over]
  <1>3. /\ worker[w].status = "composing" /\ claim[r] = "consumed" /\ requirement[r] # {}
        /\ over \in Nat /\ 0 < over /\ over <= snapshot
    BY <1>1, <1>2, HandlerFacts DEF Backed, LocalsBacked, Late
  <1>4. /\ IsEvidenceOf(e, worker[w].status, "needs_attention")
        /\ IsEvidenceOf(f, worker[w].status, "assigning_visuals")
    BY <1>3 DEF IsEvidenceOf, Checkpoint, Settled
  <1>5. claim'[r] = "consumed" /\ "needs_attention" # "ready" /\ "assigning_visuals" # "ready"
    BY <1>1, <1>3
  <1>6. \/ outline' = outline
        \/ outline[r] \in {0, over} /\ outline' = [outline EXCEPT ![r] = over]
    BY <1>2 DEF OutlinePhase
  <1>7. Grows /\ IndexIsBacked' /\ \A s \in Runs : Basis(s)'
    <2>1. \A s \in Runs : \/ outline'[s] = outline[s]
                          \/ /\ s = r /\ outline'[s] = over
                             /\ outline[s] # 0 => outline'[s] # 0
      BY <1>3, <1>6 DEF TypeOK
    <2>2. snapshot \in Nat
      BY DEF TypeOK
    <2>3. Grows
      BY <1>1, <2>1, <2>2 DEF Grows
    <2>4. ASSUME NEW s \in Runs PROVE Basis(s)'
      BY <1>1, <1>3, <2>1 DEF Backed, Basis, CandidatesOf
    <2> QED
      BY <1>1, <2>3, <2>4 DEF Backed, IndexIsBacked
  <1>8. \/ Fail(w)
        \/ Decide(w, Outcome("needs_attention", e, {}))
        \/ Decide(w, Outcome("assigning_visuals", f, {}))
    BY <1>2 DEF OutlinePhase
  <1> HIDE DEF e, f
  <1>9. NewLocals(w)
    BY <1>1, <1>2, <1>4, <1>5, <1>7, <1>8, DecideLocals, FailLocals
  <1> QED
    BY <1>1, <1>7, <1>9, BackedFrom DEF NewLocals

\* An artifact that is committed to an actor is committed.
LEMMA CommitGrows ==
  ASSUME TypeOK, TypeOK', Backed, NEW r \in Runs, NEW a \in Artifacts, NEW w \in Workers,
         worker[w].pc \notin {"idle", "reading", "returning"},
         bound' = bound \/ Commit(r, a, ActorOf(w)),
         UNCHANGED <<published, replaced, outbox, claim, snapshot, requirement, outline>>
  PROVE  /\ Grows /\ IndexIsBacked' /\ \A s \in Runs : Basis(s)'
         /\ Commit(r, a, ActorOf(w)) => bound'[r][a] # Nobody
  <1>1. ActorOf(w) # Nobody
    BY HandlerFacts DEF Actors, Nobody
  <1>2. bound \in [Runs -> [Artifacts -> Actors \cup {Nobody}]]
    BY DEF TypeOK
  <1>3. /\ \A s \in Runs : \A b \in Artifacts : bound[s][b] # Nobody => bound'[s][b] # Nobody
        /\ Commit(r, a, ActorOf(w)) => bound'[r][a] # Nobody
    <2>1. CASE bound' = bound /\ ~Commit(r, a, ActorOf(w))
      BY <2>1
    <2>2. CASE Commit(r, a, ActorOf(w))
      <3>1. bound' = [bound EXCEPT ![r][a] = ActorOf(w)]
        BY <2>2 DEF Commit
      <3>2. bound'[r][a] = ActorOf(w)
        BY <1>2, <3>1
      <3>3. \A s \in Runs : \A b \in Artifacts : s # r \/ b # a => bound'[s][b] = bound[s][b]
        BY <1>2, <3>1
      <3> QED
        BY <1>1, <3>2, <3>3
    <2> QED
      BY <2>1, <2>2
  <1>4. Grows
    BY <1>3 DEF Grows, TypeOK
  <1>5. ASSUME NEW s \in Runs PROVE Basis(s)'
    BY <1>3 DEF Backed, Basis, CandidatesOf, Artifacts
  <1> QED
    BY <1>3, <1>4, <1>5 DEF Backed, IndexIsBacked

LEMMA VisualsBacked ==
  ASSUME TypeOK, TypeOK', Backed, NEW w \in Workers, AssignVisualsPhase(w)
  PROVE  Backed'
  <1>1. /\ UNCHANGED <<row, call, published, replaced, outbox, claim, snapshot, requirement, outline>>
        /\ worker[w].pc = "handling" /\ worker[w].status = "assigning_visuals"
    BY DEF AssignVisualsPhase, InHandler, OnlyWorker, rowVars, materialVars, indexVars
  <1>2. PICK r \in Runs : r = worker[w].ticket.run /\ r = RunOf(w)
    BY <1>1, ThreadRun
  <1> DEFINE e == Checkpoint("assigning_visuals", "attention", {}, 0)
             f == Checkpoint("assigning_visuals", "passed", {}, 0)
  <1>3. \/ Fail(w) /\ UNCHANGED bound
        \/ /\ Commit(r, "confirmation", ActorOf(w))
           /\ \/ Fail(w)
              \/ Decide(w, Outcome("needs_attention", e, {}))
              \/ Decide(w, Outcome("validating", f, {}))
    BY <1>2 DEF AssignVisualsPhase
  <1>4. /\ IsEvidenceOf(e, worker[w].status, "needs_attention")
        /\ IsEvidenceOf(f, worker[w].status, "validating")
    BY <1>1 DEF IsEvidenceOf, Checkpoint
  <1>5. Grows /\ IndexIsBacked' /\ \A s \in Runs : Basis(s)'
    BY <1>1, <1>3, CommitGrows DEF Artifacts
  <1>6. claim'[r] = "consumed"
    BY <1>1, <1>2 DEF Backed, LocalsBacked, Late
  <1>7. "needs_attention" # "ready" /\ "validating" # "ready" /\ worker[w].pc # "idle"
    BY <1>1
  <1> HIDE DEF e, f
  <1>8. NewLocals(w)
    BY <1>2, <1>3, <1>4, <1>5, <1>6, <1>7, DecideLocals, FailLocals
  <1> QED
    BY <1>1, <1>5, <1>8, BackedFrom DEF NewLocals

LEMMA ValidateBacked ==
  ASSUME TypeOK, TypeOK', Backed, NEW w \in Workers, ValidatePhase(w)
  PROVE  Backed'
  <1>1. /\ UNCHANGED <<row, call, published, replaced, outbox, claim, snapshot, requirement, outline>>
        /\ worker[w].pc = "handling" /\ worker[w].status = "validating"
    BY DEF ValidatePhase, InHandler, OnlyWorker, rowVars, materialVars, indexVars
  <1>2. PICK r \in Runs : r = worker[w].ticket.run /\ r = RunOf(w)
    BY <1>1, ThreadRun
  <1> DEFINE e == Checkpoint("validating", "passed", {}, 0)
  <1>3. \/ Fail(w) /\ UNCHANGED bound
        \/ /\ bound[r]["confirmation"] # Nobody /\ outline[r] # 0 /\ requirement[r] # {}
           /\ Commit(r, "publication", ActorOf(w))
           /\ Decide(w, Outcome("ready", e, {}))
    BY <1>2 DEF ValidatePhase
  <1>4. IsEvidenceOf(e, worker[w].status, "ready") /\ "ready" \notin Late
    BY <1>1 DEF IsEvidenceOf, Checkpoint, Late
  <1>5. /\ Grows /\ IndexIsBacked' /\ \A s \in Runs : Basis(s)'
        /\ Commit(r, "publication", ActorOf(w)) => bound'[r]["publication"] # Nobody
    BY <1>1, <1>3, CommitGrows DEF Artifacts
  <1>6. CASE Fail(w)
    <2>1. NewLocals(w)
      BY <1>1, <1>5, <1>6, FailLocals
    <2> QED
      BY <1>1, <1>5, <2>1, BackedFrom DEF NewLocals
  <1>7. CASE /\ bound[r]["confirmation"] # Nobody /\ outline[r] # 0 /\ requirement[r] # {}
             /\ Commit(r, "publication", ActorOf(w))
             /\ Decide(w, Outcome("ready", e, {}))
    <2>1. Complete(r)'
      BY <1>1, <1>5, <1>7 DEF Complete, Grows, Artifacts
    <2> HIDE DEF e
    <2>2. NewLocals(w)
      BY <1>1, <1>2, <1>4, <1>5, <1>7, <2>1, DecideLocals
    <2> QED
      BY <1>1, <1>5, <2>2, BackedFrom DEF NewLocals
  <1> QED
    BY <1>3, <1>6, <1>7

-----------------------------------------------------------------------------
(* The loop of a thread, the requests, and the processes. *)

\* A row that is advanced is backed if its new status is and if its new evidence is.
LEMMA AdvancedBacked ==
  ASSUME TypeOK, NEW r \in Runs, RowIsBacked(r), Grows,
         NEW next, NEW evidence, NEW bundle,
         row' = [row EXCEPT ![r] = Advanced(row[r], next, evidence, bundle)],
         next \in Late => claim'[r] = "consumed",
         evidence.by = "phase" /\ evidence.phase \in Late => claim'[r] = "consumed",
         next = "ready" => Complete(r)'
  PROVE  RowIsBacked(r)' /\ \A s \in Runs : row'[s] = row[s] \/ RowIsBacked(s)'
  <1> DEFINE before == row[r].evidence
             after == Append(before, evidence)
  <1>1. before \in Seq(Evidence)
    BY DEF TypeOK, Row
  <1>2. \A i \in 1..Len(after) : after[i] = evidence \/ \E j \in 1..Len(before) : after[i] = before[j]
    BY <1>1
  <1>3. \A i \in 1..Len(after) :
          after[i].by = "phase" /\ after[i].phase \in Late => claim'[r] = "consumed"
    BY <1>2 DEF RowIsBacked, Grows
  <1> HIDE DEF before, after
  <1>4. row'[r].status = next /\ row'[r].evidence = after
    BY DEF TypeOK, Advanced, before, after
  <1>5. RowIsBacked(r)'
    BY <1>3, <1>4 DEF RowIsBacked
  <1> QED
    BY <1>5 DEF TypeOK

LEMMA LoopBacked ==
  ASSUME TypeOK, TypeOK', Backed, NEW w \in Workers,
         TakeTicket(w) \/ ReadRun(w) \/ AdvanceRun(w) \/ Finish(w)
  PROVE  Backed'
  <1>1. UNCHANGED <<call, published, replaced, artifactVars>>
    BY DEF TakeTicket, ReadRun, AdvanceRun, Finish, materialVars
  <1>2. Grows /\ IndexIsBacked' /\ \A s \in Runs : Basis(s)'
    BY <1>1, QuietGrows
  <1>3. CASE TakeTicket(w)
    <2>1. PICK t : t = Head(queue[Home[w]])
      OBVIOUS
    <2>2. PICK x : x = [IdleWorker EXCEPT !.pc = "reading", !.ticket = t]
      OBVIOUS
    <2>3. x.pc = "reading" /\ x.status = "absent"
      BY <2>2 DEF IdleWorker
    <2>4. worker' = [worker EXCEPT ![w] = x] /\ row' = row
      BY <1>3, <2>1, <2>2 DEF TakeTicket, rowVars
    <2>5. LocalsBacked(x)'
      BY <2>3 DEF LocalsBacked, Late, Organizing
    <2> QED
      BY <1>1, <1>2, <2>4, <2>5, RecordLocals, BackedFrom DEF NewLocals
  <1>4. CASE Finish(w)
    <2>1. PICK x : x = IdleWorker
      OBVIOUS
    <2>2. worker' = [worker EXCEPT ![w] = x] /\ row' = row /\ x.pc = "idle"
      BY <1>4, <2>1 DEF Finish, rowVars, IdleWorker
    <2>3. LocalsBacked(x)'
      BY <2>2 DEF LocalsBacked
    <2> QED
      BY <1>1, <1>2, <2>2, <2>3, RecordLocals, BackedFrom DEF NewLocals
  <1>5. CASE ReadRun(w)
    <2>1. worker[w].pc = "reading" /\ worker[w].pc # "idle" /\ row' = row
      BY <1>5 DEF ReadRun, rowVars
    <2>2. PICK r \in Runs : r = worker[w].ticket.run /\ r = RunOf(w)
      BY <2>1, ThreadRun
    <2>3. CASE Goto(w, "returning")
      <3>1. NewLocals(w)
        BY <1>2, <2>1, <2>2, <2>3, GotoLocals
      <3> QED
        BY <1>1, <1>2, <2>1, <3>1, BackedFrom DEF NewLocals
    <2>4. CASE ~Goto(w, "returning")
      <3> DEFINE pc == IF row[r].status \in Settled THEN "returning" ELSE "handling"
                 laps == worker[w].laps + 1
                 status == row[r].status
                 revision == row[r].revision
      <3>1. worker' = [worker EXCEPT ![w] = [@ EXCEPT !.pc = pc, !.laps = laps, !.status = status,
                                                      !.revision = revision]]
        BY <1>5, <2>2, <2>4 DEF ReadRun
      <3>2. status \in Late => claim[r] = "consumed"
        BY DEF Backed, RowIsBacked
      <3>3. pc \in {"returning", "handling"}
        OBVIOUS
      <3> HIDE DEF pc, laps, status, revision
      <3>4. PICK x : x = [worker[w] EXCEPT !.pc = pc, !.laps = laps, !.status = status,
                                           !.revision = revision]
        OBVIOUS
      <3>5. worker[w] \in WorkerFields
        BY WorkerStatesAre DEF TypeOK
      <3>6. /\ x.pc \in {"returning", "handling"} /\ x.ticket = worker[w].ticket
            /\ x.status \in Late => claim'[r] = "consumed"
        BY <1>1, <3>2, <3>3, <3>4, <3>5 DEF WorkerFields, artifactVars, indexVars
      <3>7. LocalsBacked(x)'
        BY <2>2, <3>6 DEF LocalsBacked, Organizing
      <3>8. worker' = [worker EXCEPT ![w] = x]
        BY <3>1, <3>4
      <3> QED
        BY <1>1, <1>2, <2>1, <3>7, <3>8, RecordLocals, BackedFrom DEF NewLocals
    <2> QED
      BY <2>3, <2>4
  <1>6. CASE AdvanceRun(w)
    <2>1. worker[w].pc = "advancing" /\ worker[w].pc # "idle"
      BY <1>6 DEF AdvanceRun
    <2>2. PICK r \in Runs : r = worker[w].ticket.run /\ r = RunOf(w)
      BY <2>1, ThreadRun
    <2> DEFINE next == worker[w].outcome.next
               evidence == worker[w].outcome.evidence
               bundle == [phase |-> worker[w].status, cards |-> worker[w].outcome.cards]
               pc == IF next \in Settled THEN "returning" ELSE "reading"
               revision == row[r].revision + 1
    <2>3. \/ UNCHANGED row /\ (Goto(w, "reading") \/ Goto(w, "returning"))
          \/ /\ row' = [row EXCEPT ![r] = Advanced(row[r], next, evidence, bundle)]
             /\ worker' = [worker EXCEPT ![w] = [@ EXCEPT !.pc = pc, !.status = next,
                                                          !.revision = revision]]
      BY <1>6, <2>2 DEF AdvanceRun, AfterConflict, rowVars
    <2>4. /\ next \in Late => claim'[r] = "consumed"
          /\ next = "ready" => Complete(r)
          /\ IsEvidenceOf(evidence, worker[w].status, next)
          /\ worker[w].status \in Late => claim'[r] = "consumed"
      BY <1>1, <2>1, <2>2 DEF Backed, LocalsBacked, artifactVars, indexVars
    <2>5. next = "ready" => Complete(r)'
      BY <1>2, <2>4, CompleteKept
    <2>6. evidence.by = "phase" /\ evidence.phase \in Late => claim'[r] = "consumed"
      BY <2>4 DEF IsEvidenceOf
    <2>7. pc \in {"returning", "reading"}
      OBVIOUS
    <2> HIDE DEF next, evidence, bundle, pc, revision
    <2>8. CASE UNCHANGED row /\ (Goto(w, "reading") \/ Goto(w, "returning"))
      <3>1. NewLocals(w)
        BY <1>2, <2>1, <2>2, <2>8, GotoLocals
      <3> QED
        BY <1>1, <1>2, <2>8, <3>1, BackedFrom DEF NewLocals
    <2>9. CASE /\ row' = [row EXCEPT ![r] = Advanced(row[r], next, evidence, bundle)]
               /\ worker' = [worker EXCEPT ![w] = [@ EXCEPT !.pc = pc, !.status = next,
                                                            !.revision = revision]]
      <3>1. \A s \in Runs : row'[s] = row[s] \/ RowIsBacked(s)'
        <4>1. RowIsBacked(r)
          BY DEF Backed
        <4> QED
          BY <1>2, <2>4, <2>5, <2>6, <2>9, <4>1, AdvancedBacked
      <3>2. PICK x : x = [worker[w] EXCEPT !.pc = pc, !.status = next, !.revision = revision]
        OBVIOUS
      <3>3. worker[w] \in WorkerFields
        BY WorkerStatesAre DEF TypeOK
      <3>4. /\ x.pc \in {"returning", "reading"} /\ x.ticket = worker[w].ticket
            /\ x.status \in Late => claim'[r] = "consumed"
        BY <2>4, <2>7, <3>2, <3>3 DEF WorkerFields
      <3>5. LocalsBacked(x)'
        BY <2>2, <3>4 DEF LocalsBacked, Organizing
      <3>6. worker' = [worker EXCEPT ![w] = x]
        BY <2>9, <3>2
      <3> QED
        BY <1>1, <1>2, <3>1, <3>5, <3>6, RecordLocals, BackedFrom DEF NewLocals
    <2> QED
      BY <2>3, <2>8, <2>9
  <1> QED
    BY <1>3, <1>4, <1>5, <1>6

\* The status an answer resumes at has been reached before.
LEMMA ResumesBacked ==
  ASSUME TypeOK, Backed, NEW r \in Runs, Checkpoints(row[r]) # {}, NEW action,
         ResumeStatus(AttentionPhase(row[r]), action) \in Late
  PROVE  claim[r] = "consumed"
  <1> DEFINE found == Checkpoints(row[r])
             latest == CHOOSE i \in found : \A j \in found : j <= i
  <1>1. row[r].evidence \in Seq(Evidence)
    BY DEF TypeOK, Row
  <1>2. found \in SUBSET (1..Len(row[r].evidence)) /\ Len(row[r].evidence) \in Nat
    BY <1>1 DEF Checkpoints
  <1>3. \E i \in found : \A j \in found : j <= i
    BY <1>2, LatestExists
  <1>4. latest \in found
    BY <1>3
  <1>5. latest \in 1..Len(row[r].evidence) /\ row[r].evidence[latest].by = "phase"
    BY <1>2, <1>4 DEF Checkpoints
  <1>6. AttentionPhase(row[r]) = row[r].evidence[latest].phase
    BY DEF AttentionPhase
  <1>7. AttentionPhase(row[r]) \in Late
    BY DEF ResumeStatus, Late
  <1> QED
    BY <1>5, <1>6, <1>7 DEF Backed, RowIsBacked

LEMMA CallBacked ==
  ASSUME TypeOK, TypeOK', Backed, NEW c \in Callers, CallStep(c) \/ User(c)
  PROVE  Backed'
  <1>1. UNCHANGED <<worker, published, replaced, artifactVars>>
    BY DEF CallStep, User, SubmitCreate, SubmitResolve, CreateRun, ReadAttention, AnswerTask,
           RecordResolution, ResumeRun, StartRun, OnlyCall, materialVars
  <1>2. Grows /\ IndexIsBacked' /\ \A s \in Runs : Basis(s)'
    BY <1>1, QuietGrows
  <1>3. call \in [Callers -> CallStates] /\ call[c] \in CallStates
    BY DEF TypeOK
  <1> DEFINE CallKept == /\ call'[c].resume = call[c].resume /\ call'[c].run = call[c].run
                         /\ call[c].pc # "idle"
             Called == /\ \A d \in Callers \ {c} : call'[d] = call[d]
                       /\ call'[c] = call[c] \/ CallKept \/ CallIsBacked(c)'
  <1>4. ASSUME EndCall(c) PROVE Called
    BY <1>3, <1>4 DEF EndCall, IdleCall, CallIsBacked, Late
  <1>5. CASE User(c)
    <2>1. row' = row
      BY <1>5 DEF User, SubmitCreate, SubmitResolve, rowVars
    <2>2. PICK x : x.resume = "none" /\ call' = [call EXCEPT ![c] = x]
      <3>1. CASE \E r \in Runs : SubmitCreate(c, r)
        BY <3>1 DEF SubmitCreate, IdleCall
      <3>2. CASE \E r \in Runs : \E a \in Actions : SubmitResolve(c, r, a)
        BY <3>2 DEF SubmitResolve, IdleCall
      <3> QED
        BY <1>5, <3>1, <3>2 DEF User
    <2>3. Called
      BY <1>3, <2>2 DEF CallIsBacked, Late
    <2> QED
      BY <1>1, <1>2, <2>1, <2>3, BackedFrom
  <1>6. CASE CreateRun(c)
    <2>1. Called
      BY <1>3, <1>6 DEF CreateRun, CallStates
    <2>2. \A s \in Runs : row'[s] = row[s] \/ RowIsBacked(s)'
      <3>1. PICK r \in Runs : r = call[c].run
        BY <1>3, <1>6 DEF CreateRun, CallStates
      <3>2. row' = row \/ row' = [row EXCEPT ![r] = NewRow]
        BY <1>6, <3>1 DEF CreateRun, rowVars
      <3>3. NewRow.status = "queued" /\ NewRow.evidence = << >>
        BY DEF NewRow, AbsentRow
      <3>4. CASE row' = [row EXCEPT ![r] = NewRow]
        <4>1. row'[r].status = "queued" /\ row'[r].evidence = << >>
          BY <3>3, <3>4 DEF TypeOK
        <4>2. Len(row'[r].evidence) = 0 /\ row'[r].status \notin Late /\ row'[r].status # "ready"
          BY <4>1 DEF Late
        <4>3. RowIsBacked(r)'
          BY <4>2 DEF RowIsBacked
        <4> QED
          BY <3>4, <4>3 DEF TypeOK
      <3> QED
        BY <3>2, <3>4
    <2> QED
      BY <1>1, <1>2, <2>1, <2>2, BackedFrom
  <1>7. CASE ReadAttention(c)
    <2>1. row' = row
      BY <1>7 DEF ReadAttention, rowVars
    <2>2. CASE EndCall(c)
      BY <1>1, <1>2, <1>4, <2>1, <2>2, BackedFrom
    <2>3. CASE ~EndCall(c)
      <3>1. PICK r \in Runs : r = call[c].run
        BY <1>3, <1>7 DEF ReadAttention, CallStates
      <3> DEFINE resume == ResumeStatus(AttentionPhase(row[r]), call[c].action)
      <3>2. /\ Checkpoints(row[r]) # {} /\ call[c].pc = "resolving"
            /\ \E revision, todo : call' = [call EXCEPT ![c] =
                 [@ EXCEPT !.pc = "recording", !.revision = revision, !.resume = resume, !.todo = todo]]
        BY <1>7, <2>3, <3>1 DEF ReadAttention
      <3>3. resume \in Late => claim'[r] = "consumed"
        BY <1>1, <3>2, ResumesBacked DEF artifactVars, indexVars
      <3> HIDE DEF resume
      <3>4. /\ call'[c].resume = resume /\ call'[c].run = r
            /\ \A d \in Callers \ {c} : call'[d] = call[d]
        BY <1>3, <3>1, <3>2 DEF CallStates
      <3>5. CallIsBacked(c)'
        BY <3>3, <3>4 DEF CallIsBacked
      <3> QED
        BY <1>1, <1>2, <2>1, <3>4, <3>5, BackedFrom
    <2> QED
      BY <2>2, <2>3
  <1>8. CASE (\E k \in Cards : AnswerTask(c, k)) \/ RecordResolution(c) \/ StartRun(c)
    <2>1. row' = row /\ Called
      <3>1. row' = row
        BY <1>8 DEF AnswerTask, RecordResolution, StartRun, rowVars
      <3>2. CASE EndCall(c)
        BY <1>4, <3>1, <3>2
      <3>3. CASE ~EndCall(c)
        BY <1>3, <1>8, <3>1, <3>3 DEF AnswerTask, RecordResolution, StartRun, CallStates
      <3> QED
        BY <3>2, <3>3
    <2> QED
      BY <1>1, <1>2, <2>1, BackedFrom
  <1>9. CASE ResumeRun(c)
    <2>1. CASE EndCall(c)
      <3>1. row' = row \/ ~UNCHANGED rowVars
        BY DEF rowVars
      <3>2. call[c].pc = "resuming" /\ call'[c].pc = "idle"
        BY <1>3, <1>9, <2>1 DEF ResumeRun, EndCall, IdleCall
      <3>3. row' = row
        BY <1>3, <1>9, <3>2 DEF ResumeRun, rowVars, CallStates
      <3> QED
        BY <1>1, <1>2, <1>4, <2>1, <3>3, BackedFrom
    <2>2. CASE ~EndCall(c)
      <3>1. PICK r \in Runs : r = call[c].run
        BY <1>3, <1>9 DEF ResumeRun, CallStates
      <3> DEFINE evidence == Resolution(call[c].bundle, call[c].action)
                 resume == call[c].resume
      <3>2. /\ row' = [row EXCEPT ![r] = Advanced(row[r], resume, evidence, NoBundle)]
            /\ call' = [call EXCEPT ![c] = [@ EXCEPT !.pc = "starting"]]
            /\ call[c].pc = "resuming"
        BY <1>9, <2>2, <3>1 DEF ResumeRun
      <3>3. evidence.by # "phase"
        BY DEF Resolution
      <3>4. /\ resume # "ready"
            /\ resume \in Late => claim'[r] = "consumed"
        BY <1>1, <1>3, <3>1, <3>2 DEF CallStates, Phases, Backed, CallIsBacked, artifactVars, indexVars
      <3> HIDE DEF evidence, resume
      <3>5. \A s \in Runs : row'[s] = row[s] \/ RowIsBacked(s)'
        <4>1. RowIsBacked(r)
          BY DEF Backed
        <4> QED
          BY <1>2, <3>2, <3>3, <3>4, <4>1, AdvancedBacked
      <3>6. Called
        BY <1>3, <3>2 DEF CallStates
      <3> QED
        BY <1>1, <1>2, <3>5, <3>6, BackedFrom
    <2> QED
      BY <2>1, <2>2
  <1> QED
    BY <1>5, <1>6, <1>7, <1>8, <1>9 DEF CallStep

\* Another job replaces a card, or has the oldest work indexed.
LEMMA JobBacked ==
  ASSUME TypeOK, TypeOK', Backed, NEW h \in Helpers, OtherJob(h)
  PROVE  Backed'
  <1>1. UNCHANGED <<row, worker, call>>
    BY DEF OtherJob, rowVars
  <1>2. CASE RunKnowledgePublish
    <2>1. /\ UNCHANGED <<published, bound, outbox, claim, snapshot, requirement, outline>>
          /\ replaced \subseteq replaced'
      BY <1>2 DEF RunKnowledgePublish, artifactVars, indexVars
    <2>2. /\ Cardinality(published) \in Nat /\ Cardinality(replaced) \in Nat
          /\ Cardinality(replaced') \in Nat /\ Cardinality(replaced) <= Cardinality(replaced')
          /\ Len(outbox) \in Nat /\ snapshot \in Nat
      <3>1. published \in SUBSET Cards /\ replaced' \in SUBSET Cards
        BY DEF TypeOK
      <3> QED
        BY <2>1, <3>1, CardsAreFinite, ReplacedIsFinite, FS_Subset DEF TypeOK
    <2>3. Grows /\ IndexIsBacked'
      BY <2>1, <2>2 DEF Grows, Backed, IndexIsBacked
    <2>4. \A r \in Runs : Basis(r)'
      BY <2>1 DEF Backed, Basis, CandidatesOf
    <2> QED
      BY <1>1, <2>3, <2>4, BackedFrom
  <1>3. CASE RunKnowledgeIndex
    <2>1. UNCHANGED <<published, replaced, bound, outbox, requirement, outline>> /\ Seal
      BY <1>3 DEF RunKnowledgeIndex, materialVars
    <2>2. PICK E \in SUBSET {s \in Runs : claim[s] \in Workers} : \E i \in Claimable(E) :
            claim' = [s \in Runs |-> IF s = outbox[i] THEN "consumed"
                                      ELSE IF s \in E THEN "waiting" ELSE claim[s]]
      BY <1>3 DEF RunKnowledgeIndex
    <2>3. PICK i \in Claimable(E) :
            claim' = [s \in Runs |-> IF s = outbox[i] THEN "consumed"
                                      ELSE IF s \in E THEN "waiting" ELSE claim[s]]
      BY <2>2
    <2>4. Workers \cap {"none", "waiting", "consumed"} = {}
      BY ConstantsAssumption DEF ConstantsAssumption
    <2>5. claim[outbox[i]] = "waiting" \/ claim[outbox[i]] \in Workers
      BY <2>3 DEF Claimable
    <2>6. \A r \in Runs : /\ claim[r] # "none" => claim'[r] # "none"
                          /\ claim[r] = "none" => claim'[r] = "none"
                          /\ claim[r] = "consumed" => claim'[r] = "consumed"
      BY <2>3, <2>4, <2>5
    <2>7. Grows /\ IndexIsBacked' /\ \A r \in Runs : Basis(r)'
      BY <2>1, <2>6, SealingGrows
    <2> QED
      BY <1>1, <2>7, BackedFrom
  <1> QED
    BY <1>2, <1>3 DEF OtherJob

LEMMA ProcessBacked ==
  ASSUME TypeOK, TypeOK', Backed, NEW h \in Helpers,
         Callback(h) \/ Boot(h) \/ Bind(h) \/ Close(h) \/ Exit(h) \/ Crash(h)
  PROVE  Backed'
  <1>1. UNCHANGED <<row, published, replaced, artifactVars>>
    BY DEF Callback, Forget, Boot, Bind, Close, Exit, Crash, Vanish, rowVars, materialVars
  <1>2. Grows /\ IndexIsBacked' /\ \A s \in Runs : Basis(s)'
    BY <1>1, QuietGrows
  <1>3. CASE Callback(h) \/ Boot(h) \/ Bind(h) \/ Close(h)
    <2>1. UNCHANGED <<worker, call>>
      BY <1>3 DEF Callback, Forget, Boot, Bind, Close
    <2> QED
      BY <1>1, <1>2, <2>1, BackedFrom
  <1>4. CASE Exit(h) \/ Crash(h)
    <2>1. /\ worker' = [w \in Workers |-> IF Home[w] = h THEN IdleWorker ELSE worker[w]]
          /\ call' = [c \in Callers |-> IF Home[c] = h THEN IdleCall ELSE call[c]]
      BY <1>4 DEF Exit, Crash, Vanish
    <2>2. \A w \in Workers : worker'[w] = worker[w] \/ worker'[w].pc = "idle"
      BY <2>1 DEF IdleWorker
    <2>3. \A w \in Workers : worker'[w] = worker[w] \/ LocalsBacked(worker[w])'
      BY <2>2 DEF LocalsBacked
    <2>4. \A c \in Callers : call'[c] = call[c] \/ CallIsBacked(c)'
      BY <2>1 DEF IdleCall, CallIsBacked
    <2> QED
      BY <1>1, <1>2, <2>3, <2>4, BackedFrom
  <1> QED
    BY <1>3, <1>4

LEMMA BackedStep ==
  ASSUME TypeOK, TypeOK', Backed, [Next]_vars
  PROVE  Backed'
  <1>1. ASSUME NEW w \in Workers, WorkerStep(w) PROVE Backed'
    BY <1>1, QuietHandlers, PublishingBacked, EnqueueBacked, AdoptBacked, ClaimBacked,
       CompleteBacked, ComposeBacked, OutlineBacked, VisualsBacked, ValidateBacked, LoopBacked
    DEF WorkerStep, PhaseStep
  <1>2. ASSUME NEW c \in Callers, CallStep(c) \/ User(c) PROVE Backed'
    BY <1>2, CallBacked
  <1>3. ASSUME NEW h \in Helpers,
               Callback(h) \/ Boot(h) \/ Bind(h) \/ Close(h) \/ Exit(h) \/ Crash(h) \/ OtherJob(h)
        PROVE  Backed'
    BY <1>3, ProcessBacked, JobBacked
  <1>4. CASE UNCHANGED vars
    <2>1. UNCHANGED <<row, worker, call, published, replaced, artifactVars>>
      BY <1>4 DEF vars, artifactVars, indexVars
    <2> QED
      BY <2>1, QuietGrows, BackedFrom
  <1> QED
    BY <1>1, <1>2, <1>3, <1>4 DEF Next

LEMMA BackedInit == Init => Backed
  <1> SUFFICES ASSUME Init PROVE Backed
    OBVIOUS
  <1>1. IndexIsBacked
    <2>1. published = {} /\ replaced = {} /\ outbox = << >> /\ snapshot = 0
      BY DEF Init
    <2>2. Cardinality(published) = 0 /\ Cardinality(replaced) = 0 /\ Len(outbox) = 0
      BY <2>1, FS_EmptySet
    <2> QED
      BY <2>1, <2>2 DEF IndexIsBacked
  <1>2. ASSUME NEW r \in Runs PROVE Basis(r) /\ RowIsBacked(r)
    <2>1. Basis(r)
      BY DEF Init, Basis
    <2>2. row[r].status = "absent" /\ row[r].evidence = << >>
      BY DEF Init, AbsentRow
    <2>3. Len(row[r].evidence) = 0 /\ row[r].status \notin Late /\ row[r].status # "ready"
      BY <2>2 DEF Late
    <2> QED
      BY <2>1, <2>3 DEF RowIsBacked
  <1>3. \A w \in Workers : LocalsBacked(worker[w])
    BY DEF Init, LocalsBacked, IdleWorker
  <1>4. \A c \in Callers : CallIsBacked(c)
    BY DEF Init, CallIsBacked, IdleCall
  <1> QED
    BY <1>1, <1>2, <1>3, <1>4 DEF Backed

\* However the work on a course was cut, repeated or done for it by another thread,
\* and whoever answered its questions: it is ready only over a complete basis.
THEOREM ReadyCoursesAreBacked == Spec => []ReadyIsBacked
<1>1. Init => TypeOK /\ Backed
  BY InitType, BackedInit
<1>2. TypeOK /\ Backed /\ [Next]_vars => (TypeOK /\ Backed)'
  BY StepTypes, BackedStep
<1>3. TypeOK /\ Backed => ReadyIsBacked
  <2> SUFFICES ASSUME TypeOK, Backed, NEW r \in Runs, row[r].status = "ready"
               PROVE  /\ CandidatesOf(r) \subseteq published /\ claim[r] = "consumed"
                      /\ requirement[r] # {} /\ requirement[r] \subseteq CandidatesOf(r)
                      /\ CandidatesOf(r) \ requirement[r] \subseteq replaced
                      /\ outline[r] \in 1..snapshot
                      /\ \A a \in Artifacts : bound[r][a] # Nobody
    BY DEF ReadyIsBacked
  <2>1. Complete(r) /\ Basis(r) /\ outline[r] \in Nat /\ snapshot \in Nat
    BY DEF Backed, RowIsBacked, TypeOK
  <2> QED
    BY <2>1 DEF Complete, Basis, Artifacts
<1> QED
  BY <1>1, <1>2, <1>3, PTL DEF Spec

-----------------------------------------------------------------------------
(* A run moves on its evidence. *)

Justified(r) ==
  LET last == row'[r].evidence[Len(row'[r].evidence)] IN
  /\ (last.by = "resolution") <=> (row[r].status = "needs_attention")
  /\ last.by = "resolution" => last.phase = row[r].bundle.phase
  /\ last.by = "phase" => last.phase = row[r].status
  /\ last.by = "composition" => row[r].status = "composing"

\* The last evidence of a row that is advanced is the one it is advanced on.
LEMMA LastEvidence ==
  ASSUME TypeOK, NEW r \in Runs, NEW next, NEW evidence, NEW bundle,
         row' = [row EXCEPT ![r] = Advanced(row[r], next, evidence, bundle)]
  PROVE  row'[r].evidence[Len(row'[r].evidence)] = evidence
  <1> DEFINE before == row[r].evidence
  <1>1. before \in Seq(Evidence)
    BY DEF TypeOK, Row
  <1>2. /\ Len(Append(before, evidence)) = Len(before) + 1 /\ Len(before) \in Nat
        /\ Append(before, evidence)[Len(before) + 1] = evidence
    BY <1>1
  <1> HIDE DEF before
  <1>3. row'[r].evidence = Append(before, evidence)
    BY DEF TypeOK, Advanced, before
  <1> QED
    BY <1>2, <1>3

\* How the row of a run changes: a request creates it, a thread that has read its
\* status advances it, or a request that has read its question resumes it.
Opens(r) == row[r].status = "absent" /\ row' = [row EXCEPT ![r] = NewRow]

Drives(w, r, next, evidence, cards) ==
  /\ worker[w].pc = "advancing" /\ r = RunOf(w) /\ row[r].status = worker[w].status
  /\ next = worker[w].outcome.next /\ evidence = worker[w].outcome.evidence
  /\ cards = worker[w].outcome.cards
  /\ row[r].status \in Phases /\ next \in Transitions[row[r].status]
  /\ ~Cites(row[r], evidence)
  /\ IsEvidenceOf(evidence, row[r].status, next)
  /\ row' = [row EXCEPT ![r] =
               Advanced(row[r], next, evidence, [phase |-> row[r].status, cards |-> cards])]

Answers(c, r, evidence) ==
  /\ row[r].status = "needs_attention" /\ row[r].bundle = call[c].bundle
  /\ call[c].pc = "resuming" /\ call[c].resume \in Phases
  /\ evidence = Resolution(call[c].bundle, call[c].action)
  /\ evidence.by = "resolution" /\ evidence.phase = row[r].bundle.phase
  /\ row' = [row EXCEPT ![r] = Advanced(row[r], call[c].resume, evidence, NoBundle)]

LEMMA RowSteps ==
  ASSUME ReadsInductive, Backed, [Next]_vars, row' # row
  PROVE  \E r \in Runs : \/ Opens(r)
                         \/ (\E w \in Workers : \E next, evidence, cards : Drives(w, r, next, evidence, cards))
                         \/ \E c \in Callers : \E evidence : Answers(c, r, evidence)
  <1>0. TypeOK
    BY DEF ReadsInductive
  <1>1. ASSUME NEW w \in Workers, WorkerStep(w)
        PROVE  \E r \in Runs : \E next, evidence, cards : Drives(w, r, next, evidence, cards)
    <2>1. AdvanceRun(w)
      BY <1>1 DEF WorkerStep, PhaseStep, StartPhase, ImportPhase, OrganizePhase, OrganizeCard,
                  CloseSafeTask, PublishCard, OrganizeEnd, EnqueueIndex, AdoptClaim, ClaimIndex,
                  CompleteIndex, IndexEnd, MeetReplaced, ComposePhase, OutlinePhase, AssignVisualsPhase,
                  ValidatePhase, OnlyWorker, TakeTicket, ReadRun, Finish, rowVars
    <2>2. worker[w].pc = "advancing" /\ worker[w].pc # "idle"
      BY <2>1 DEF AdvanceRun
    <2>3. PICK r \in Runs : r = worker[w].ticket.run /\ r = RunOf(w)
      BY <1>0, <2>2, ThreadRun
    <2> DEFINE next == worker[w].outcome.next
               evidence == worker[w].outcome.evidence
               cards == worker[w].outcome.cards
    <2>4. /\ Current(r, worker[w].revision) /\ MayAdvance(row[r], next, evidence)
          /\ row' = [row EXCEPT ![r] = Advanced(row[r], next, evidence,
                                                [phase |-> worker[w].status, cards |-> cards])]
      BY <2>1, <2>3 DEF AdvanceRun, rowVars
    <2>5. row[r].status = worker[w].status /\ worker[w].status \in Phases
      BY <1>0, <2>2, <2>3, <2>4, HandlerFacts DEF ReadsInductive, WorkerReadOK, Current
    <2>6. IsEvidenceOf(evidence, worker[w].status, next)
      BY <2>2 DEF Backed, LocalsBacked
    <2> HIDE DEF next, evidence, cards
    <2>7. Drives(w, r, next, evidence, cards)
      BY <2>2, <2>3, <2>4, <2>5, <2>6 DEF Drives, MayAdvance, next, evidence, cards
    <2> QED
      BY <2>7
  <1>2. ASSUME NEW c \in Callers, CallStep(c) \/ User(c)
        PROVE  \E r \in Runs : Opens(r) \/ \E evidence : Answers(c, r, evidence)
    <2>1. CreateRun(c) \/ ResumeRun(c)
      BY <1>2 DEF CallStep, User, SubmitCreate, SubmitResolve, ReadAttention, AnswerTask,
                  RecordResolution, StartRun, rowVars
    <2>2. PICK r \in Runs : r = call[c].run
      BY <1>0, <2>1 DEF CreateRun, ResumeRun, TypeOK, CallStates
    <2>3. CASE CreateRun(c)
      BY <2>2, <2>3 DEF CreateRun, Opens, rowVars
    <2>4. CASE ResumeRun(c)
      <3> DEFINE evidence == Resolution(call[c].bundle, call[c].action)
                 resume == call[c].resume
      <3>1. /\ call[c].pc = "resuming" /\ Current(r, call[c].revision)
            /\ MayAdvance(row[r], resume, evidence)
            /\ row' = [row EXCEPT ![r] = Advanced(row[r], resume, evidence, NoBundle)]
        BY <2>2, <2>4 DEF ResumeRun, rowVars
      <3>2. row[r].status = "needs_attention" /\ row[r].bundle = call[c].bundle
        BY <2>2, <3>1 DEF ReadsInductive, CallReadOK, Current
      <3>3. evidence.by = "resolution" /\ evidence.phase = call[c].bundle.phase
        BY DEF Resolution
      <3> HIDE DEF evidence
      <3>4. resume \in Phases
        <4>1. resume \in Phases \cup {"none"}
          BY <1>0 DEF TypeOK, CallStates
        <4>2. resume # "none"
          BY <3>1, TransitionTypes DEF Phases, Settled
        <4> QED
          BY <4>1, <4>2
      <3>5. Answers(c, r, evidence)
        BY <3>1, <3>2, <3>3, <3>4 DEF Answers, evidence
      <3> QED
        BY <3>5
    <2> QED
      BY <2>1, <2>3, <2>4
  <1>3. ASSUME NEW h \in Helpers,
               Callback(h) \/ Boot(h) \/ Bind(h) \/ Close(h) \/ Exit(h) \/ Crash(h) \/ OtherJob(h)
        PROVE  row' = row
    BY <1>3 DEF Callback, Forget, Boot, Bind, Close, Exit, Crash, OtherJob, Vanish, rowVars
  <1>4. ~UNCHANGED vars
    BY DEF vars
  <1> QED
    BY <1>1, <1>2, <1>3, <1>4 DEF Next

LEMMA MovesStep ==
  ASSUME ReadsInductive, Backed, [Next]_vars
  PROVE  \A s \in Runs : row[s].status # "absent" /\ row'[s] # row[s] => Justified(s)
  <1> SUFFICES ASSUME NEW s \in Runs, row[s].status # "absent", row'[s] # row[s]
               PROVE  Justified(s)
    OBVIOUS
  <1>0. TypeOK
    BY DEF ReadsInductive
  <1>1. PICK r \in Runs : \/ Opens(r)
                         \/ (\E w \in Workers : \E next, evidence, cards : Drives(w, r, next, evidence, cards))
                         \/ \E c \in Callers : \E evidence : Answers(c, r, evidence)
    BY RowSteps
  <1>2. s = r
    BY <1>0, <1>1 DEF TypeOK, Opens, Drives, Answers
  <1>3. ASSUME NEW w \in Workers, NEW next, NEW evidence, NEW cards, Drives(w, r, next, evidence, cards)
        PROVE  Justified(r)
    <2>1. row'[r].evidence[Len(row'[r].evidence)] = evidence
      BY <1>0, <1>3, LastEvidence DEF Drives
    <2> QED
      BY <1>3, <2>1 DEF Drives, Justified, IsEvidenceOf, Phases
  <1>4. ASSUME NEW c \in Callers, NEW evidence, Answers(c, r, evidence)
        PROVE  Justified(r)
    <2>1. row'[r].evidence[Len(row'[r].evidence)] = evidence
      BY <1>0, <1>4, LastEvidence DEF Answers
    <2> QED
      BY <1>4, <2>1 DEF Answers, Justified
  <1>5. ~Opens(r)
    BY <1>2 DEF Opens
  <1> QED
    BY <1>1, <1>2, <1>3, <1>4, <1>5

\* A stale outcome or a stale decision never moves a run that has moved on, whoever
\* has driven it meanwhile: the revision a step compares proves what it has read,
\* and what it has decided is about what it has read.
THEOREM RunsMoveOnEvidence == Spec => MovesAreJustified
<1>1. Init => ReadsInductive /\ Backed
  BY ReadsInit, BackedInit
<1>2. ReadsInductive /\ Backed /\ [Next]_vars => (ReadsInductive /\ Backed)'
  BY ReadsStep, BackedStep DEF ReadsInductive
<1>3. ReadsInductive /\ Backed /\ [Next]_vars =>
        [\A r \in Runs :
           row[r].status # "absent" /\ row'[r] # row[r] =>
             LET last == row'[r].evidence[Len(row'[r].evidence)] IN
             /\ (last.by = "resolution") <=> (row[r].status = "needs_attention")
             /\ last.by = "resolution" => last.phase = row[r].bundle.phase
             /\ last.by = "phase" => last.phase = row[r].status
             /\ last.by = "composition" => row[r].status = "composing"]_vars
  BY MovesStep DEF Justified
<1> QED
  BY <1>1, <1>2, <1>3, PTL DEF Spec, MovesAreJustified

-----------------------------------------------------------------------------
(* The engine implements the public promise. *)

\* An answer resumes at the phase that asked, or leaves the visuals behind.
Follows(asked, resume) ==
  resume = asked \/ (asked = "assigning_visuals" /\ resume = "validating")

\* A row that asks, or has failed, names the phase in its last evidence.
RowAsks(r) ==
  row[r].status \in {"needs_attention", "failed"} =>
    LET n    == Len(row[r].evidence)
        last == row[r].evidence[n] IN
    /\ n > 0 /\ last.by = "phase" /\ last.phase \in Phases
    /\ row[r].status = "needs_attention" => row[r].bundle.phase = last.phase

CallFollows(c) ==
  call[c].pc \in {"recording", "resuming"} => Follows(call[c].bundle.phase, call[c].resume)

Asking == (\A r \in Runs : RowAsks(r)) /\ \A c \in Callers : CallFollows(c)

Inductive == ReadsInductive /\ Backed /\ Asking

\* The phase that asked is found again in the evidence.
LEMMA AskingPhaseIsFound ==
  ASSUME TypeOK, NEW r \in Runs, RowAsks(r), row[r].status = "needs_attention"
  PROVE  AttentionPhase(row[r]) = row[r].bundle.phase
  <1> DEFINE found == Checkpoints(row[r])
             latest == CHOOSE i \in found : \A j \in found : j <= i
             n == Len(row[r].evidence)
  <1>1. row[r].evidence \in Seq(Evidence) /\ n \in Nat
    BY DEF TypeOK, Row
  <1>2. found \subseteq 1..n /\ n \in found
    BY <1>1 DEF Checkpoints, RowAsks
  <1>3. \E i \in found : \A j \in found : j <= i
    BY <1>1, <1>2
  <1>4. latest \in found /\ \A j \in found : j <= latest
    BY <1>3
  <1> HIDE DEF latest, found
  <1>5. latest = n
    BY <1>1, <1>2, <1>4
  <1> QED
    BY <1>5 DEF AttentionPhase, latest, found, RowAsks

LEMMA RowsAsk ==
  ASSUME Inductive, [Next]_vars, NEW s \in Runs
  PROVE  RowAsks(s)'
  <1>0. TypeOK /\ RowAsks(s)
    BY DEF Inductive, ReadsInductive, Asking
  <1>1. CASE row'[s] = row[s]
    BY <1>0, <1>1 DEF RowAsks
  <1>2. CASE row'[s] # row[s]
    <2>1. PICK r \in Runs : \/ Opens(r)
                           \/ (\E w \in Workers : \E next, evidence, cards : Drives(w, r, next, evidence, cards))
                           \/ \E c \in Callers : \E evidence : Answers(c, r, evidence)
      BY <1>2, RowSteps DEF Inductive
    <2>2. s = r
      BY <1>0, <1>2, <2>1 DEF TypeOK, Opens, Drives, Answers
    <2>3. CASE Opens(r)
      BY <1>0, <2>2, <2>3 DEF Opens, NewRow, AbsentRow, TypeOK, RowAsks
    <2>4. ASSUME NEW w \in Workers, NEW next, NEW evidence, NEW cards, Drives(w, r, next, evidence, cards)
          PROVE  RowAsks(s)'
      <3> DEFINE before == row[r].evidence
                 bundle == [phase |-> row[r].status, cards |-> cards]
      <3>1. before \in Seq(Evidence)
        BY <1>0 DEF TypeOK, Row
      <3>2. /\ Len(Append(before, evidence)) = Len(before) + 1 /\ Len(before) \in Nat
            /\ Append(before, evidence)[Len(before) + 1] = evidence
        BY <3>1
      <3>3. bundle.phase = row[r].status
        OBVIOUS
      <3> HIDE DEF before, bundle
      <3>4. /\ row'[r].status = next /\ row'[r].evidence = Append(before, evidence)
            /\ next = "needs_attention" => row'[r].bundle = bundle
        BY <1>0, <2>4 DEF Drives, TypeOK, Advanced, before, bundle
      <3>5. /\ row[r].status \in Phases
            /\ next \in Settled => evidence.by = "phase" /\ evidence.phase = row[r].status
        BY <2>4 DEF Drives, IsEvidenceOf
      <3> QED
        BY <2>2, <3>2, <3>3, <3>4, <3>5 DEF RowAsks, Settled
    <2>5. ASSUME NEW c \in Callers, NEW evidence, Answers(c, r, evidence)
          PROVE  RowAsks(s)'
      BY <1>0, <2>2, <2>5 DEF Answers, Advanced, TypeOK, RowAsks, Phases
    <2> QED
      BY <2>1, <2>3, <2>4, <2>5
  <1> QED
    BY <1>1, <1>2

LEMMA CallsFollow ==
  ASSUME Inductive, [Next]_vars, NEW d \in Callers
  PROVE  CallFollows(d)'
  <1>0. TypeOK /\ CallFollows(d) /\ call \in [Callers -> CallStates]
    BY DEF Inductive, ReadsInductive, Asking, TypeOK
  <1>1. CASE call'[d] = call[d]
    BY <1>0, <1>1 DEF CallFollows
  <1>2. CASE call'[d].pc \notin {"recording", "resuming"}
    BY <1>2 DEF CallFollows
  <1>3. CASE /\ call[d].pc \in {"recording", "resuming"}
             /\ call'[d].bundle = call[d].bundle /\ call'[d].resume = call[d].resume
    BY <1>0, <1>3 DEF CallFollows
  <1>4. ASSUME NEW c \in Callers, CallStep(c) \/ User(c) PROVE CallFollows(d)'
    <2>1. d # c => call'[d] = call[d]
      BY <1>0, <1>4 DEF CallStep, User, SubmitCreate, SubmitResolve, CreateRun, ReadAttention,
                        AnswerTask, RecordResolution, ResumeRun, StartRun, EndCall
    <2>2. CASE EndCall(c) /\ d = c
      BY <1>0, <1>2, <2>2 DEF EndCall, IdleCall
    <2>3. CASE ~EndCall(c) /\ d = c
      <3>1. CASE User(c) \/ CreateRun(c) \/ ResumeRun(c) \/ StartRun(c)
        <4>1. call'[c].pc \in {"resolving", "creating", "starting"}
          <5>1. CASE \E r \in Runs : SubmitCreate(c, r)
            BY <1>0, <5>1 DEF SubmitCreate, IdleCall
          <5>2. CASE \E r \in Runs : \E a \in Actions : SubmitResolve(c, r, a)
            BY <1>0, <5>2 DEF SubmitResolve, IdleCall
          <5>3. CASE CreateRun(c) \/ ResumeRun(c) \/ StartRun(c)
            BY <1>0, <2>3, <5>3 DEF CreateRun, ResumeRun, StartRun, CallStates
          <5> QED
            BY <3>1, <5>1, <5>2, <5>3 DEF User
        <4> QED
          BY <1>2, <2>3, <4>1
      <3>2. CASE (\E k \in Cards : AnswerTask(c, k)) \/ RecordResolution(c)
        <4>1. /\ call[c].pc \in {"recording", "resuming"}
              /\ call'[c].bundle = call[c].bundle /\ call'[c].resume = call[c].resume
          BY <1>0, <2>3, <3>2 DEF AnswerTask, RecordResolution, CallStates
        <4> QED
          BY <1>3, <2>3, <4>1
      <3>3. CASE ReadAttention(c)
        <4>1. PICK r \in Runs : r = call[c].run
          BY <1>0, <3>3 DEF ReadAttention, CallStates
        <4> DEFINE resume == ResumeStatus(AttentionPhase(row[r]), call[c].action)
        <4>2. /\ row[r].status = "needs_attention" /\ row[r].bundle = call[c].bundle
              /\ \E revision, todo : call' = [call EXCEPT ![c] =
                   [@ EXCEPT !.pc = "recording", !.revision = revision, !.resume = resume, !.todo = todo]]
          BY <2>3, <3>3, <4>1 DEF ReadAttention
        <4>3. AttentionPhase(row[r]) = call[c].bundle.phase
          BY <1>0, <4>2, AskingPhaseIsFound DEF Inductive, Asking
        <4>4. Follows(call[c].bundle.phase, resume)
          BY <4>3 DEF ResumeStatus, Follows
        <4> HIDE DEF resume
        <4>5. call'[c].bundle = call[c].bundle /\ call'[c].resume = resume
          BY <1>0, <4>2 DEF CallStates
        <4> QED
          BY <2>3, <4>4, <4>5 DEF CallFollows
      <3> QED
        BY <1>4, <3>1, <3>2, <3>3 DEF CallStep
    <2> QED
      BY <1>1, <2>1, <2>2, <2>3
  <1>5. ASSUME NEW w \in Workers, WorkerStep(w) PROVE CallFollows(d)'
    BY <1>1, <1>5 DEF WorkerStep, PhaseStep, StartPhase, ImportPhase, OrganizePhase, OrganizeCard,
                      CloseSafeTask, PublishCard, OrganizeEnd, EnqueueIndex, AdoptClaim, ClaimIndex,
                      CompleteIndex, IndexEnd, MeetReplaced, ComposePhase, OutlinePhase, AssignVisualsPhase,
                      ValidatePhase, OnlyWorker, TakeTicket, ReadRun, AdvanceRun, Finish
  <1>6. ASSUME NEW h \in Helpers,
               Callback(h) \/ Boot(h) \/ Bind(h) \/ Close(h) \/ Exit(h) \/ Crash(h) \/ OtherJob(h)
        PROVE  CallFollows(d)'
    <2>1. call'[d] = call[d] \/ call'[d] = IdleCall
      BY <1>6 DEF Callback, Forget, Boot, Bind, Close, Exit, Crash, OtherJob, Vanish
    <2> QED
      BY <1>1, <1>2, <2>1 DEF IdleCall
  <1>7. CASE UNCHANGED vars
    BY <1>1, <1>7 DEF vars
  <1> QED
    BY <1>4, <1>5, <1>6, <1>7 DEF Next

LEMMA InductiveStep == Inductive /\ [Next]_vars => Inductive'
  <1> SUFFICES ASSUME Inductive, [Next]_vars PROVE Inductive'
    OBVIOUS
  <1>1. ReadsInductive' /\ TypeOK /\ TypeOK'
    BY ReadsStep DEF Inductive, ReadsInductive
  <1>2. Backed'
    BY <1>1, BackedStep DEF Inductive
  <1> QED
    BY <1>1, <1>2, RowsAsk, CallsFollow DEF Inductive, Asking

LEMMA InductiveInit == Init => Inductive
  BY ReadsInit, BackedInit DEF Init, Inductive, Asking, RowAsks, CallFollows, AbsentRow, IdleCall

\* What one row shows is all that changes.
LEMMA RowShows ==
  ASSUME NEW r \in Runs, NEW v, NEW stage, \A s \in Runs \ {r} : row'[s] = row[s],
         PublicView(r)' = v, PublicStage(r)' = stage
  PROVE  Public!Becomes(r, v, stage)
  <1>1. \A s \in Runs \ {r} : PublicView(s)' = PublicView(s) /\ PublicStage(s)' = PublicStage(s)
    BY DEF PublicView, PublicStage
  <1> QED
    BY <1>1 DEF Public!Becomes

LEMMA PublicStep ==
  ASSUME Inductive, [Next]_vars
  PROVE  [Public!PublicNext]_(Public!publicVars)
  <1>0. TypeOK
    BY DEF Inductive, ReadsInductive
  <1>1. CASE row' = row
    BY <1>1 DEF Public!publicVars, PublicView, PublicStage
  <1>2. ASSUME NEW r \in Runs, Opens(r) PROVE Public!Accept(r)
    <2>1. row'[r].status = "queued" /\ \A s \in Runs \ {r} : row'[s] = row[s]
      BY <1>0, <1>2 DEF Opens, NewRow, AbsentRow, TypeOK
    <2>2. PublicView(r) = "none" /\ PublicView(r)' = "creating" /\ PublicStage(r)' = 1
      BY <1>2, <2>1 DEF Opens, PublicView, PublicStage, Phases, StageOf
    <2> QED
      BY <2>1, <2>2, RowShows DEF Public!Accept
  <1>3. ASSUME NEW r \in Runs, NEW w \in Workers, NEW next, NEW evidence, NEW cards,
                Drives(w, r, next, evidence, cards)
        PROVE  Public!Proceed(r) \/ Public!Ask(r) \/ Public!Deliver(r) \/ Public!Abandon(r)
    <2> DEFINE s == row[r].status
               bundle == [phase |-> s, cards |-> cards]
    <2>1. /\ s \in Phases /\ next \in Transitions[s]
          /\ \A q \in Runs \ {r} : row'[q] = row[q]
          /\ row'[r].status = next
          /\ next = "needs_attention" => row'[r].bundle.phase = s
      BY <1>0, <1>3 DEF Drives, TypeOK, Advanced
    <2>2. PublicView(r) = "creating" /\ PublicStage(r) = StageOf[s]
      BY <2>1 DEF PublicView, PublicStage, Phases
    <2>3. CASE next \in Phases
      <3>1. StageOf[next] = StageOf[s] + 1 /\ StageOf[s] < 6
        BY <2>1, <2>3 DEF Transitions, StageOf, Phases
      <3>2. PublicView(r)' = "creating" /\ PublicStage(r)' = PublicStage(r) + 1
        <4>1. PublicView(r)' = "creating" /\ PublicStage(r)' = StageOf[next]
          BY <2>1, <2>3 DEF PublicView, PublicStage, Phases
        <4> QED
          BY <2>2, <3>1, <4>1
      <3> QED
        BY <2>1, <2>2, <3>1, <3>2, RowShows DEF Public!Proceed
    <2>4. CASE next = "needs_attention"
      <3>1. PublicView(r)' = "needs-attention" /\ PublicStage(r)' = PublicStage(r)
        BY <2>1, <2>2, <2>4 DEF PublicView, PublicStage, Phases
      <3> QED
        BY <2>1, <2>2, <3>1, RowShows DEF Public!Ask
    <2>5. CASE next = "failed"
      <3>1. row'[r].evidence[Len(row'[r].evidence)] = evidence
        BY <1>0, <1>3, LastEvidence DEF Drives
      <3>2. evidence.phase = s
        BY <1>3, <2>5 DEF Drives, IsEvidenceOf, Settled
      <3>3. PublicView(r)' = "failed" /\ PublicStage(r)' = PublicStage(r)
        BY <2>1, <2>2, <2>5, <3>1, <3>2 DEF PublicView, PublicStage, Phases
      <3> QED
        BY <2>1, <2>2, <3>3, RowShows DEF Public!Abandon
    <2>6. CASE next = "ready"
      <3>1. StageOf[s] = 6
        BY <2>1, <2>6 DEF Transitions, StageOf, Phases
      <3>2. PublicView(r)' = "ready" /\ PublicStage(r)' = PublicStage(r)
        BY <2>1, <2>2, <2>6, <3>1 DEF PublicView, PublicStage, Phases
      <3> QED
        BY <2>1, <2>2, <3>1, <3>2, RowShows DEF Public!Deliver
    <2>7. next \in Phases \cup {"needs_attention", "failed", "ready"}
      BY <2>1 DEF Transitions, Phases
    <2> QED
      BY <2>3, <2>4, <2>5, <2>6, <2>7
  <1>4. ASSUME NEW r \in Runs, NEW c \in Callers, NEW evidence, Answers(c, r, evidence)
        PROVE  Public!Answer(r)
    <2> DEFINE asked == row[r].bundle.phase
               resume == call[c].resume
    <2>1. asked \in Phases /\ Follows(asked, resume) /\ resume \in Phases
      BY <1>4 DEF Answers, Inductive, Asking, RowAsks, CallFollows
    <2>2. /\ \A q \in Runs \ {r} : row'[q] = row[q]
          /\ row[r].status = "needs_attention" /\ row'[r].status = resume
      BY <1>0, <1>4 DEF Answers, TypeOK, Advanced
    <2>3. /\ PublicView(r) = "needs-attention" /\ PublicStage(r) = StageOf[asked]
          /\ PublicView(r)' = "creating" /\ PublicStage(r)' = StageOf[resume]
      BY <2>1, <2>2 DEF PublicView, PublicStage, Phases
    <2>4. StageOf[resume] \in {StageOf[asked], StageOf[asked] + 1} \cap 1..6
      <3> HIDE DEF asked, resume
      <3>1. StageOf[asked] \in 1..6
        BY <2>1 DEF StageOf, Phases
      <3>2. StageOf["validating"] = 6 /\ StageOf["assigning_visuals"] = 5
        BY DEF StageOf
      <3>3. CASE resume = asked
        BY <3>1, <3>3
      <3>4. CASE asked = "assigning_visuals" /\ resume = "validating"
        <4>1. StageOf[resume] = 6 /\ StageOf[asked] = 5
          BY <3>2, <3>4
        <4> QED
          BY <4>1
      <3> QED
        BY <2>1, <3>3, <3>4 DEF Follows
    <2> QED
      BY <2>2, <2>3, <2>4, RowShows DEF Public!Answer
  <1> QED
    BY <1>1, <1>2, <1>3, <1>4, RowSteps DEF Inductive, Public!PublicNext

\* The engine implements the public promise, for any number of processes, threads and
\* requests, and whatever crashed: a course is accepted once, its stages follow each
\* other, an answer repeats the stage that asked or takes the run past it, only the
\* last stage delivers, and what is ready or failed stays so.
THEOREM EngineKeepsPublicPromise == Spec => KeepsPublicPromise
<1>1. Init => Public!PublicInit
  BY DEF Init, Public!PublicInit, PublicView, PublicStage, AbsentRow, Phases
<1>2. Init => Inductive
  BY InductiveInit
<1>3. Inductive /\ [Next]_vars => Inductive'
  BY InductiveStep
<1>4. Inductive /\ [Next]_vars => [Public!PublicNext]_(Public!publicVars)
  BY PublicStep
<1> QED
  BY <1>1, <1>2, <1>3, <1>4, PTL DEF Spec, KeepsPublicPromise, Public!PublicSpec

-----------------------------------------------------------------------------
(* A question is asked once, and its answer is spent by resuming the run.  *)

\* The evidence that a run leaves when it asks.
AttentionOf(r, asked) ==
  Checkpoint(asked.phase, "attention",
             IF asked.phase = "organizing_knowledge" THEN CandidatesOf(r) \ asked.cards ELSE {}, 0)

\* The phases that ask.
Inquiring == {"importing", "organizing_knowledge", "composing", "assigning_visuals"}

\* What the locals s of a thread say about questions: one that organizes passes cards
\* of its run, one that decides takes a transition there is, and one that asks leaves
\* the evidence of its question.  A run that needs no decision asks nothing.
LocalsAsk(s) ==
  LET r == s.ticket.run IN
  /\ s.pc \in {"organizing", "closing_task", "publishing_card"} =>
       /\ \A i \in 1..Len(s.todo) : s.todo[i] \in CandidatesOf(r)
       /\ NeedsNoDecision(r) => s.asked = {}
  /\ s.pc = "advancing" =>
       /\ s.outcome.next \in Transitions[s.status]
       /\ s.outcome.next = "needs_attention" =>
            LET asked == [phase |-> s.status, cards |-> s.outcome.cards] IN
            /\ s.status \in Inquiring /\ s.outcome.evidence = AttentionOf(r, asked)
            /\ ~NeedsNoDecision(r)

\* The import opens no task for a plain card.
PlainAreClosed == \A c \in Cards : KindOf[c] = "plain" => task[c] # "open"

AllAsk == \A w \in Workers : worker[w].pc # "idle" => LocalsAsk(worker[w])

LEMMA DecideAsks ==
  ASSUME TypeOK, NEW w \in Workers, NEW next, NEW evidence, NEW cards,
         Decide(w, Outcome(next, evidence, cards)),
         next \in Transitions[worker[w].status],
         next = "needs_attention" =>
            LET asked == [phase |-> worker[w].status, cards |-> cards] IN
            /\ worker[w].status \in Inquiring
            /\ evidence = AttentionOf(worker[w].ticket.run, asked)
            /\ ~NeedsNoDecision(worker[w].ticket.run)
  PROVE  LocalsAsk(worker'[w])
  <1> DEFINE o == Outcome(next, evidence, cards)
  <1>1. worker[w] \in WorkerFields
    BY WorkerStatesAre DEF TypeOK
  <1>2. o.next = next /\ o.evidence = evidence /\ o.cards = cards
    BY DEF Outcome
  <1>3. PICK x : x = [worker[w] EXCEPT !.pc = "advancing", !.outcome = o]
    OBVIOUS
  <1>4. worker'[w] = x
    BY <1>3 DEF TypeOK, Decide
  <1> HIDE DEF o
  <1>5. /\ x.pc = "advancing" /\ x.outcome = o
        /\ x.status = worker[w].status /\ x.ticket = worker[w].ticket
    BY <1>1, <1>3 DEF WorkerFields
  <1> QED
    BY <1>2, <1>4, <1>5 DEF LocalsAsk

LEMMA FailAsks ==
  ASSUME TypeOK, NEW w \in Workers, worker[w].status \in Phases, Fail(w)
  PROVE  LocalsAsk(worker'[w])
  <1>1. "failed" \in Transitions[worker[w].status]
    BY DEF Transitions, Phases
  <1> QED
    BY <1>1, DecideAsks DEF Fail

LEMMA GotoAsks ==
  ASSUME TypeOK, NEW w \in Workers, NEW pc, Goto(w, pc), pc # "advancing",
         pc \in {"organizing", "closing_task", "publishing_card"} =>
           /\ worker[w].pc \in {"organizing", "closing_task", "publishing_card"}
           /\ LocalsAsk(worker[w])
  PROVE  LocalsAsk(worker'[w])
  <1>1. worker[w] \in WorkerFields
    BY WorkerStatesAre DEF TypeOK
  <1>2. PICK x : x = [worker[w] EXCEPT !.pc = pc]
    OBVIOUS
  <1>3. worker'[w] = x
    BY <1>2 DEF TypeOK, Goto
  <1>4. x.pc = pc /\ x.asked = worker[w].asked /\ x.todo = worker[w].todo /\ x.ticket = worker[w].ticket
    BY <1>1, <1>2 DEF WorkerFields
  <1> QED
    BY <1>3, <1>4 DEF LocalsAsk

\* A phase handler asks what it may ask.
LEMMA HandlerAsks ==
  ASSUME TypeOK, Backed, PlainAreClosed, NEW w \in Workers, PhaseStep(w), LocalsAsk(worker[w])
  PROVE  LocalsAsk(worker'[w])
  <1>1. /\ worker[w].pc \notin {"idle", "reading", "returning"}
        /\ worker[w].status \in Phases
    <2>1. worker[w].pc \notin {"idle", "reading", "returning"}
      BY DEF PhaseStep, StartPhase, ImportPhase, OrganizePhase, OrganizeCard, CloseSafeTask,
             PublishCard, OrganizeEnd, EnqueueIndex, AdoptClaim, ClaimIndex, CompleteIndex,
             IndexEnd, MeetReplaced, ComposePhase, OutlinePhase, AssignVisualsPhase, ValidatePhase, InHandler
    <2> QED
      BY <2>1, HandlerFacts
  <1>2. PICK r \in Runs : r = worker[w].ticket.run /\ r = RunOf(w)
    BY <1>1, ThreadRun
  <1>3. worker[w] \in WorkerFields /\ LocalsBacked(worker[w]) /\ WorkerRules(worker[w])
    BY WorkerStatesAre DEF TypeOK, Backed
  <1>4. ASSUME NEW x, worker' = [worker EXCEPT ![w] = x] PROVE worker'[w] = x
    BY <1>4 DEF TypeOK
  <1>5. CASE StartPhase(w)
    <2>1. "importing" \in Transitions["queued"]
      BY DEF Transitions
    <2> QED
      BY <1>5, <2>1, DecideAsks DEF StartPhase, InHandler
  <1>6. CASE ImportPhase(w)
    <2>1. worker[w].status = "importing"
      BY <1>6 DEF ImportPhase, InHandler
    <2>2. "organizing_knowledge" \in Transitions["importing"] /\ "needs_attention" \in Transitions["importing"]
      BY DEF Transitions
    <2>3. CASE r \in IntactRuns
      BY <1>2, <1>6, <2>1, <2>2, <2>3, DecideAsks DEF ImportPhase
    <2>4. CASE r \notin IntactRuns
      <3> DEFINE asked == [phase |-> worker[w].status, cards |-> {}]
      <3>1. asked.phase = "importing" /\ asked.cards = {}
        BY <2>1
      <3>2. worker[w].status \in Inquiring /\ ~NeedsNoDecision(r)
        BY <2>1, <2>4 DEF Inquiring, NeedsNoDecision
      <3>3. Checkpoint("importing", "attention", {}, 0) = AttentionOf(r, asked)
        BY <3>1 DEF AttentionOf
      <3>4. Decide(w, Outcome("needs_attention", Checkpoint("importing", "attention", {}, 0), {}))
        BY <1>2, <1>6, <2>4 DEF ImportPhase
      <3> HIDE DEF asked
      <3> QED
        BY <1>2, <2>1, <2>2, <3>2, <3>3, <3>4, DecideAsks DEF asked
    <2> QED
      BY <2>3, <2>4
  <1>7. CASE OrganizePhase(w)
    <2>1. PICK x : x = [worker[w] EXCEPT !.pc = "organizing", !.todo = CardsOf[r], !.asked = {}]
      OBVIOUS
    <2>2. x.pc = "organizing" /\ x.todo = CardsOf[r] /\ x.asked = {} /\ x.ticket = worker[w].ticket
      BY <1>3, <2>1 DEF WorkerFields
    <2>3. \A i \in 1..Len(CardsOf[r]) : CardsOf[r][i] \in CandidatesOf(r)
      BY CandidateTypes DEF CandidatesOf, ToSet
    <2>4. worker'[w] = x
      BY <1>2, <1>4, <1>7, <2>1 DEF OrganizePhase
    <2> QED
      BY <1>2, <2>2, <2>3, <2>4 DEF LocalsAsk
  <1>8. CASE OrganizeCard(w) \/ PublishCard(w)
    <2>1. /\ worker[w].pc \in {"organizing", "publishing_card"}
          /\ worker[w].todo \in Seq(Cards) /\ worker[w].todo # << >>
      BY <1>1, <1>8, HandlerFacts DEF OrganizeCard, PublishCard
    <2> DEFINE c == Head(worker[w].todo)
    <2>2. /\ \A i \in 1..Len(worker[w].todo) : worker[w].todo[i] \in CandidatesOf(r)
          /\ NeedsNoDecision(r) => worker[w].asked = {}
      BY <1>2, <2>1 DEF LocalsAsk
    <2>3. c \in Cards /\ c \in CandidatesOf(r)
      BY <2>1, <2>2
    <2>4. \A i \in 1..Len(Tail(worker[w].todo)) : Tail(worker[w].todo)[i] \in CandidatesOf(r)
      BY <2>1, <2>2
    <2>5. ASSUME NEW asked, asked = worker[w].asked \/ asked = worker[w].asked \cup {c},
                 NEW x, x = [worker[w] EXCEPT !.pc = "organizing", !.todo = Tail(worker[w].todo),
                                              !.asked = asked],
                 worker'[w] = x, NeedsNoDecision(r) => asked = {}
          PROVE  LocalsAsk(worker'[w])
      <3>1. /\ x.pc = "organizing" /\ x.todo = Tail(worker[w].todo)
            /\ x.asked = asked /\ x.ticket = worker[w].ticket
        BY <1>3, <2>5 DEF WorkerFields
      <3> QED
        BY <1>2, <2>4, <2>5, <3>1 DEF LocalsAsk
    <2> HIDE DEF c
    <2>9. CASE Fail(w)
      BY <1>1, <2>9, FailAsks
    <2>6. CASE PublishCard(w) /\ ~Fail(w)
      <3>1. PICK x : x = [worker[w] EXCEPT !.pc = "organizing", !.todo = Tail(worker[w].todo)]
        OBVIOUS
      <3>2. worker'[w] = x
        BY <1>4, <2>6, <3>1 DEF PublishCard
      <3>3. x = [worker[w] EXCEPT !.pc = "organizing", !.todo = Tail(worker[w].todo),
                                  !.asked = worker[w].asked]
        BY <1>3, <3>1 DEF WorkerFields
      <3> QED
        BY <2>2, <2>5, <3>2, <3>3
    <2>7. CASE OrganizeCard(w) /\ (KindOf[c] = "unsafe_visual" \/ (task[c] = "open" /\ ~SafeTask(c)))
      <3>1. PICK x : x = [worker[w] EXCEPT !.todo = Tail(worker[w].todo),
                                           !.asked = worker[w].asked \cup {c}]
        OBVIOUS
      <3>2. worker'[w] = x /\ worker[w].pc = "organizing"
        BY <1>4, <2>7, <3>1 DEF OrganizeCard, c
      <3>3. x = [worker[w] EXCEPT !.pc = "organizing", !.todo = Tail(worker[w].todo),
                                  !.asked = worker[w].asked \cup {c}]
        BY <1>3, <3>1, <3>2 DEF WorkerFields
      <3>4. ~NeedsNoDecision(r)
        BY <2>3, <2>7 DEF NeedsNoDecision, PlainAreClosed, SafeTask
      <3> QED
        BY <2>5, <3>2, <3>3, <3>4
    <2>8. CASE OrganizeCard(w) /\ ~(KindOf[c] = "unsafe_visual" \/ (task[c] = "open" /\ ~SafeTask(c)))
      <3>1. PICK pc \in {"closing_task", "publishing_card"} : Goto(w, pc)
        BY <2>8 DEF OrganizeCard, c
      <3> QED
        BY <2>1, <3>1, GotoAsks
    <2> QED
      BY <1>8, <2>6, <2>7, <2>8, <2>9
  <1>9. CASE CloseSafeTask(w) \/ AdoptClaim(w) \/ CompleteIndex(w) \/ MeetReplaced(w)
    <2>1. Fail(w) \/ (Goto(w, "publishing_card") /\ worker[w].pc = "closing_task")
            \/ Goto(w, "claiming")
      BY <1>9 DEF CloseSafeTask, AdoptClaim, CompleteIndex, MeetReplaced
    <2> QED
      BY <1>1, <2>1, FailAsks, GotoAsks
  <1>17. CASE EnqueueIndex(w)
    <2>1. CASE Fail(w)
      BY <1>1, <2>1, FailAsks
    <2>2. CASE worker' = [worker EXCEPT ![w] = [@ EXCEPT !.pc = "adopting", !.claims = 0]]
      <3>1. worker'[w].pc = "adopting"
        BY <1>3, <2>2 DEF WorkerFields, TypeOK
      <3> QED
        BY <3>1 DEF LocalsAsk
    <2> QED
      BY <1>17, <2>1, <2>2 DEF EnqueueIndex
  <1>10. CASE OrganizeEnd(w)
    <2>1. /\ worker[w].pc = "organizing" /\ worker[w].status = "organizing_knowledge"
          /\ NeedsNoDecision(r) => worker[w].asked = {}
      BY <1>1, <1>2, <1>3, <1>10 DEF OrganizeEnd, LocalsAsk, LocalsBacked, Organizing
    <2> DEFINE asked == [phase |-> worker[w].status, cards |-> worker[w].asked]
               e == Checkpoint("organizing_knowledge", "attention", CandidatesOf(r) \ worker[w].asked, 0)
    <2>2. CASE Goto(w, "enqueueing") \/ Fail(w)
      BY <1>1, <2>2, FailAsks, GotoAsks
    <2>3. CASE worker[w].asked # {} /\ Decide(w, Outcome("needs_attention", e, worker[w].asked))
      <3>1. "needs_attention" \in Transitions["organizing_knowledge"]
        BY DEF Transitions
      <3>2. asked.phase = "organizing_knowledge" /\ asked.cards = worker[w].asked
        BY <2>1
      <3>3. worker[w].status \in Inquiring /\ ~NeedsNoDecision(r) /\ e = AttentionOf(r, asked)
        BY <2>1, <2>3, <3>2 DEF Inquiring, AttentionOf
      <3> HIDE DEF e, asked
      <3> QED
        BY <1>2, <2>1, <2>3, <3>1, <3>3, DecideAsks DEF asked
    <2> QED
      BY <1>2, <1>10, <2>2, <2>3 DEF OrganizeEnd, HeldBack
  <1>11. CASE ClaimIndex(w)
    <2>1. CASE Fail(w)
      BY <1>1, <2>1, FailAsks
    <2>2. CASE \E item, n : worker' = [worker EXCEPT ![w] =
                 [@ EXCEPT !.pc = "indexing", !.item = item, !.claims = n]]
      <3>1. PICK item, n : worker' = [worker EXCEPT ![w] =
                 [@ EXCEPT !.pc = "indexing", !.item = item, !.claims = n]]
        BY <2>2
      <3>2. worker'[w].pc = "indexing"
        BY <1>3, <3>1 DEF WorkerFields, TypeOK
      <3> QED
        BY <3>2 DEF LocalsAsk
    <2> QED
      BY <1>11, <2>1, <2>2 DEF ClaimIndex
  <1>12. CASE IndexEnd(w)
    <2>1. worker[w].status = "organizing_knowledge"
      BY <1>3, <1>12 DEF IndexEnd, LocalsBacked, Organizing
    <2>2. "composing" \in Transitions["organizing_knowledge"]
      BY DEF Transitions
    <2> QED
      BY <1>1, <1>12, <2>1, <2>2, DecideAsks, FailAsks DEF IndexEnd
  <1>13. CASE ComposePhase(w)
    <2>1. CASE Fail(w)
      BY <1>1, <2>1, FailAsks
    <2>2. CASE worker' = [worker EXCEPT ![w] = [@ EXCEPT !.pc = "outlining", !.over = snapshot]]
      <3>1. worker'[w].pc = "outlining"
        BY <1>3, <2>2 DEF WorkerFields, TypeOK
      <3> QED
        BY <3>1 DEF LocalsAsk
    <2> QED
      BY <1>13, <2>1, <2>2 DEF ComposePhase
  <1>14. CASE OutlinePhase(w)
    <2>1. worker[w].status = "composing"
      BY <1>3, <1>14 DEF OutlinePhase, LocalsBacked
    <2>2. "assigning_visuals" \in Transitions["composing"] /\ "needs_attention" \in Transitions["composing"]
      BY DEF Transitions
    <2>3. CASE r \in GapRuns
      <3> DEFINE asked == [phase |-> worker[w].status, cards |-> {}]
      <3>1. asked.phase = "composing" /\ asked.cards = {}
        BY <2>1
      <3>2. worker[w].status \in Inquiring /\ ~NeedsNoDecision(r)
        BY <2>1, <2>3 DEF Inquiring, NeedsNoDecision
      <3>3. Checkpoint("composing", "attention", {}, 0) = AttentionOf(r, asked)
        BY <3>1 DEF AttentionOf
      <3>4. Decide(w, Outcome("needs_attention", Checkpoint("composing", "attention", {}, 0), {}))
        BY <1>2, <1>14, <2>3 DEF OutlinePhase
      <3> HIDE DEF asked
      <3> QED
        BY <1>2, <2>1, <2>2, <3>2, <3>3, <3>4, DecideAsks DEF asked
    <2>4. CASE r \notin GapRuns
      <3>1. CASE Fail(w)
        BY <1>1, <3>1, FailAsks
      <3>2. CASE \E e : Decide(w, Outcome("assigning_visuals", e, {}))
        BY <2>1, <2>2, <3>2, DecideAsks
      <3> QED
        BY <1>2, <1>14, <2>4, <3>1, <3>2 DEF OutlinePhase
    <2> QED
      BY <2>3, <2>4
  <1>15. CASE AssignVisualsPhase(w)
    <2>1. worker[w].status = "assigning_visuals"
      BY <1>15 DEF AssignVisualsPhase, InHandler
    <2>2. /\ "validating" \in Transitions["assigning_visuals"]
          /\ "needs_attention" \in Transitions["assigning_visuals"]
      BY DEF Transitions
    <2>3. CASE Fail(w)
      BY <1>1, <2>3, FailAsks
    <2>4. CASE r \in MissingVisuals /\ ~Fail(w)
      <3> DEFINE asked == [phase |-> worker[w].status, cards |-> {}]
      <3>1. asked.phase = "assigning_visuals" /\ asked.cards = {}
        BY <2>1
      <3>2. worker[w].status \in Inquiring /\ ~NeedsNoDecision(r)
        BY <2>1, <2>4 DEF Inquiring, NeedsNoDecision
      <3>3. Checkpoint("assigning_visuals", "attention", {}, 0) = AttentionOf(r, asked)
        BY <3>1 DEF AttentionOf
      <3>4. Decide(w, Outcome("needs_attention", Checkpoint("assigning_visuals", "attention", {}, 0), {}))
        BY <1>2, <1>15, <2>4 DEF AssignVisualsPhase
      <3> HIDE DEF asked
      <3> QED
        BY <1>2, <2>1, <2>2, <3>2, <3>3, <3>4, DecideAsks DEF asked
    <2>5. CASE r \notin MissingVisuals /\ ~Fail(w)
      BY <1>2, <1>15, <2>1, <2>2, <2>5, DecideAsks DEF AssignVisualsPhase
    <2> QED
      BY <2>3, <2>4, <2>5
  <1>16. CASE ValidatePhase(w)
    <2>1. worker[w].status = "validating"
      BY <1>16 DEF ValidatePhase, InHandler
    <2>2. "ready" \in Transitions["validating"]
      BY DEF Transitions
    <2>3. CASE Fail(w)
      BY <1>1, <2>3, FailAsks
    <2>4. CASE \E e : Decide(w, Outcome("ready", e, {}))
      BY <2>1, <2>2, <2>4, DecideAsks
    <2> QED
      BY <1>16, <2>3, <2>4 DEF ValidatePhase
  <1> QED
    BY <1>5, <1>6, <1>7, <1>8, <1>9, <1>10, <1>11, <1>12, <1>13, <1>14, <1>15, <1>16, <1>17 DEF PhaseStep

\* A step leaves the threads asking what they may ask, and no plain card a task.
LEMMA AsksStep ==
  ASSUME TypeOK, Backed, PlainAreClosed, AllAsk, [Next]_vars
  PROVE  PlainAreClosed' /\ AllAsk'
  <1>0. worker \in [Workers -> WorkerStates]
    BY DEF TypeOK
  <1>5. \A w \in Workers : worker[w] \in WorkerFields
    BY <1>0, WorkerStatesAre
  <1>1. CASE UNCHANGED vars
    BY <1>1 DEF vars, PlainAreClosed, AllAsk
  <1>2. ASSUME NEW w \in Workers, WorkerStep(w) PROVE PlainAreClosed' /\ AllAsk'
    <2>1. CASE PhaseStep(w)
      <3>1. \A v \in Workers : v # w => worker'[v] = worker[v]
        BY <2>1, HandlerReads
      <3>2. LocalsAsk(worker[w])
        BY <2>1, HandlerReads DEF AllAsk, SameRead
      <3>3. LocalsAsk(worker'[w])
        BY <2>1, <3>2, HandlerAsks
      <3>4. task' = task \/ \E c : task' = [task EXCEPT ![c] = ActorOf(w)]
        BY <2>1 DEF PhaseStep, StartPhase, ImportPhase, OrganizePhase, OrganizeCard, CloseSafeTask,
             PublishCard, OrganizeEnd, EnqueueIndex, AdoptClaim, ClaimIndex, CompleteIndex,
             IndexEnd, MeetReplaced, ComposePhase, OutlinePhase, AssignVisualsPhase, ValidatePhase, materialVars
      <3>5. worker[w].pc # "idle"
        BY <2>1, HandlerReads DEF SameRead
      <3>6. ActorOf(w) # "open"
        BY <3>5 DEF TypeOK, WorkerStates, Ticket, ActorOf, Actors
      <3>7. PlainAreClosed'
        BY <3>4, <3>6 DEF PlainAreClosed, TypeOK
      <3> QED
        BY <3>1, <3>3, <3>7 DEF AllAsk
    <2>2. CASE TakeTicket(w) \/ ReadRun(w) \/ AdvanceRun(w) \/ Finish(w)
      <3>1. \A v \in Workers : v # w => worker'[v] = worker[v]
        BY <1>0, <2>2 DEF TakeTicket, ReadRun, AdvanceRun, Finish, Goto
      <3>2. worker'[w].pc \in {"reading", "handling", "returning", "idle"}
        <4>1. CASE TakeTicket(w) \/ Finish(w)
          <5>1. PICK x : /\ worker' = [worker EXCEPT ![w] = x]
                         /\ \/ x = IdleWorker
                            \/ \E t : x = [IdleWorker EXCEPT !.pc = "reading", !.ticket = t]
            BY <4>1 DEF TakeTicket, Finish
          <5>2. x.pc \in {"reading", "idle"}
            <6>1. \A t : [IdleWorker EXCEPT !.pc = "reading", !.ticket = t].pc = "reading"
              BY DEF IdleWorker
            <6>2. IdleWorker.pc = "idle"
              BY DEF IdleWorker
            <6> QED
              BY <5>1, <6>1, <6>2
          <5>3. worker'[w] = x
            BY <1>0, <5>1
          <5> QED
            BY <5>2, <5>3
        <4>2. ASSUME NEW pc, Goto(w, pc) PROVE worker'[w].pc = pc
          <5>1. PICK x : x = [worker[w] EXCEPT !.pc = pc]
            OBVIOUS
          <5>2. x.pc = pc
            BY <1>5, <5>1 DEF WorkerFields
          <5>3. worker'[w] = x
            BY <1>0, <4>2, <5>1 DEF Goto
          <5> QED
            BY <5>2, <5>3
        <4>3. CASE ReadRun(w)
          <5>1. CASE Goto(w, "returning")
            BY <4>2, <5>1
          <5>2. CASE ~Goto(w, "returning")
            <6>1. PICK current : current = row[RunOf(w)]
              OBVIOUS
            <6>2. PICK x : x = [worker[w] EXCEPT
                    !.pc = IF current.status \in Settled THEN "returning" ELSE "handling",
                    !.laps = worker[w].laps + 1, !.status = current.status,
                    !.revision = current.revision]
              OBVIOUS
            <6>3. worker' = [worker EXCEPT ![w] = x]
              BY <4>3, <5>2, <6>1, <6>2 DEF ReadRun
            <6>4. x.pc \in {"returning", "handling"}
              BY <1>5, <6>2 DEF WorkerFields
            <6> QED
              BY <1>0, <6>3, <6>4
          <5> QED
            BY <5>1, <5>2
        <4>4. CASE AdvanceRun(w)
          <5>1. CASE Goto(w, "returning") \/ Goto(w, "reading")
            BY <4>2, <5>1
          <5>2. CASE ~(Goto(w, "returning") \/ Goto(w, "reading"))
            <6>1. PICK done : done = worker[w].outcome
              OBVIOUS
            <6>2. PICK x : x = [worker[w] EXCEPT
                    !.pc = IF done.next \in Settled THEN "returning" ELSE "reading",
                    !.status = done.next, !.revision = row[RunOf(w)].revision + 1]
              OBVIOUS
            <6>3. worker' = [worker EXCEPT ![w] = x]
              BY <4>4, <5>2, <6>1, <6>2 DEF AdvanceRun, AfterConflict
            <6>4. x.pc \in {"returning", "reading"}
              BY <1>5, <6>2 DEF WorkerFields
            <6> QED
              BY <1>0, <6>3, <6>4
          <5> QED
            BY <5>1, <5>2
        <4> QED
          BY <2>2, <4>1, <4>3, <4>4
      <3>3. UNCHANGED task
        BY <2>2 DEF TakeTicket, ReadRun, AdvanceRun, Finish, materialVars
      <3>4. LocalsAsk(worker'[w])
        BY <3>2 DEF LocalsAsk
      <3> QED
        BY <3>1, <3>3, <3>4 DEF AllAsk, PlainAreClosed
    <2> QED
      BY <1>2, <2>1, <2>2 DEF WorkerStep
  <1>3. ASSUME NEW c \in Callers, CallStep(c) \/ User(c) PROVE PlainAreClosed' /\ AllAsk'
    <2>1. UNCHANGED worker
      BY <1>3 DEF CallStep, User, SubmitCreate, SubmitResolve, CreateRun, ReadAttention,
                  AnswerTask, RecordResolution, ResumeRun, StartRun, OnlyCall
    <2>2. task' = task \/ \E k : task' = [task EXCEPT ![k] = "answered"]
      BY <1>3 DEF CallStep, User, SubmitCreate, SubmitResolve, CreateRun, ReadAttention,
                  AnswerTask, RecordResolution, ResumeRun, StartRun, materialVars
    <2> QED
      BY <2>1, <2>2 DEF AllAsk, PlainAreClosed, TypeOK
  <1>4. ASSUME NEW h \in Helpers,
               Callback(h) \/ Boot(h) \/ Bind(h) \/ Close(h) \/ Exit(h) \/ Crash(h) \/ OtherJob(h)
        PROVE  PlainAreClosed' /\ AllAsk'
    <2>1. UNCHANGED task
      BY <1>4 DEF Callback, Forget, Boot, Bind, Close, Exit, Crash, OtherJob, RunKnowledgePublish,
                  RunKnowledgeIndex, Vanish, materialVars
    <2>2. \A v \in Workers : worker'[v] = worker[v] \/ worker'[v] = IdleWorker
      BY <1>4 DEF Callback, Forget, Boot, Bind, Close, Exit, Crash, OtherJob, Vanish
    <2> QED
      BY <2>1, <2>2 DEF AllAsk, PlainAreClosed, IdleWorker
  <1> QED
    BY <1>1, <1>2, <1>3, <1>4 DEF Next

\* The run has asked, and it no longer waits for the answer.
Asked(r, asked) == asked.phase \in Inquiring /\ Cites(row[r], AttentionOf(r, asked))
Waits(r, asked) == row[r].status = "needs_attention" /\ row[r].bundle = asked
Past(r, asked) == Asked(r, asked) /\ ~Waits(r, asked)

\* A question that waits is in the evidence of the run, the answers in it are past.
RowAskedOnce(r) ==
  /\ row[r].status = "absent" => row[r].evidence = << >>
  /\ row[r].status = "needs_attention" => Asked(r, row[r].bundle)
  /\ \A i \in DOMAIN row[r].evidence :
       row[r].evidence[i].by = "resolution" =>
         Past(r, [phase |-> row[r].evidence[i].phase, cards |-> row[r].evidence[i].cards])

\* A request that answers has read a question that waits or is past.
CallKnows(c) ==
  call[c].pc \in {"recording", "resuming"} =>
     Current(call[c].run, call[c].revision) \/ Past(call[c].run, call[c].bundle)

\* The answers that are recorded are past, or a request resumes the run on them.
AnswersAreSpent ==
  \A e \in recorded :
    \/ Past(e.run, e.bundle)
    \/ \E c \in Callers : call[c].pc = "resuming" /\ call[c].run = e.run /\ call[c].bundle = e.bundle

Questions ==
  /\ PlainAreClosed /\ AllAsk
  /\ \A r \in Runs : RowAskedOnce(r)
  /\ \A c \in Callers : CallKnows(c)
  /\ crashes = 0 => AnswersAreSpent

\* What a row is once it is advanced.
RowAppended(r, next, evidence, bundle) ==
  /\ \A e : Cites(row'[r], e) <=> Cites(row[r], e) \/ e = evidence
  /\ row'[r].status = next /\ row'[r].revision = row[r].revision + 1
  /\ next = "needs_attention" => row'[r].bundle = bundle
  /\ \A s \in Runs : s # r => row'[s] = row[s]

LEMMA RowAppends ==
  ASSUME TypeOK, NEW r \in Runs, NEW next, NEW evidence, NEW bundle,
         row' = [row EXCEPT ![r] = Advanced(row[r], next, evidence, bundle)]
  PROVE  RowAppended(r, next, evidence, bundle)
  <1> DEFINE before == row[r].evidence
  <1>1. before \in Seq(Evidence)
    BY DEF TypeOK, Row
  <1>2. /\ DOMAIN Append(before, evidence) = 1..Len(before) + 1 /\ Len(before) \in Nat
        /\ Append(before, evidence)[Len(before) + 1] = evidence
        /\ \A i \in 1..Len(before) : Append(before, evidence)[i] = before[i]
        /\ DOMAIN before = 1..Len(before)
    BY <1>1
  <1>3. /\ row'[r].evidence = Append(before, evidence)
        /\ row'[r].status = next /\ row'[r].revision = row[r].revision + 1
        /\ next = "needs_attention" => row'[r].bundle = bundle
        /\ \A s \in Runs : s # r => row'[s] = row[s]
    BY DEF TypeOK, Advanced
  <1>4. ASSUME NEW e PROVE Cites(row'[r], e) <=> Cites(row[r], e) \/ e = evidence
    <2> HIDE DEF before
    <2>1. Cites(row'[r], e) <=> \E i \in 1..Len(before) + 1 : Append(before, evidence)[i] = e
      BY <1>2, <1>3 DEF Cites
    <2>2. Cites(row[r], e) <=> \E i \in 1..Len(before) : before[i] = e
      BY <1>2 DEF Cites, before
    <2>3. \A i \in 1..Len(before) + 1 : i \in 1..Len(before) \/ i = Len(before) + 1
      BY <1>2
    <2>4. \A i \in 1..Len(before) : i \in 1..Len(before) + 1
      BY <1>2
    <2>5. Len(before) + 1 \in 1..Len(before) + 1
      BY <1>2
    <2> QED
      BY <1>2, <2>1, <2>2, <2>3, <2>4, <2>5
  <1> QED
    BY <1>3, <1>4 DEF RowAppended

\* The answers among the evidence of a row, whatever their place.
LEMMA AnswersArePast ==
  ASSUME NEW r
  PROVE  RowAskedOnce(r) <=>
           /\ row[r].status = "absent" => row[r].evidence = << >>
           /\ row[r].status = "needs_attention" => Asked(r, row[r].bundle)
           /\ \A e : Cites(row[r], e) /\ e.by = "resolution" =>
                       Past(r, [phase |-> e.phase, cards |-> e.cards])
  BY DEF RowAskedOnce, Cites

\* A question is past once the run has moved on, and remains so: to ask it again is to
\* leave evidence that the row has.
LEMMA QuestionsPass ==
  ASSUME Inductive, AllAsk, [Next]_vars, NEW r \in Runs, RowAskedOnce(r), NEW asked,
         Asked(r, asked), Past(r, asked) \/ row'[r] # row[r]
  PROVE  Past(r, asked)'
  <1>0. TypeOK
    BY DEF Inductive, ReadsInductive
  <1>1. CASE row'[r] = row[r]
    BY <1>1 DEF Past, Asked, Waits
  <1>2. CASE row'[r] # row[r]
    <2>1. PICK s \in Runs : \/ Opens(s)
                           \/ (\E w \in Workers : \E next, evidence, cards : Drives(w, s, next, evidence, cards))
                           \/ \E c \in Callers : \E evidence : Answers(c, s, evidence)
      BY <1>2, RowSteps DEF Inductive
    <2>2. s = r
      BY <1>0, <1>2, <2>1 DEF TypeOK, Opens, Drives, Answers
    <2>3. CASE Opens(r)
      BY <2>3 DEF Opens, RowAskedOnce, Asked, Cites
    <2>4. ASSUME NEW w \in Workers, NEW next, NEW evidence, NEW cards, Drives(w, r, next, evidence, cards)
          PROVE  Past(r, asked)'
      <3> DEFINE bundle == [phase |-> worker[w].status, cards |-> worker[w].outcome.cards]
      <3>1. /\ row' = [row EXCEPT ![r] = Advanced(row[r], next, evidence, bundle)]
            /\ worker[w].pc = "advancing" /\ r = worker[w].ticket.run
            /\ next = worker[w].outcome.next /\ evidence = worker[w].outcome.evidence
            /\ ~Cites(row[r], evidence)
        BY <2>4 DEF Drives, RunOf
      <3>2. next = "needs_attention" => evidence = AttentionOf(r, bundle)
        BY <3>1 DEF AllAsk, LocalsAsk
      <3> HIDE DEF bundle
      <3>3. /\ \A e : Cites(row[r], e) => Cites(row'[r], e)
            /\ row'[r].status = next
            /\ next = "needs_attention" => row'[r].bundle = bundle
        <4>1. RowAppended(r, next, evidence, bundle)
          BY <1>0, <3>1, RowAppends
        <4> QED
          BY <4>1 DEF RowAppended
      <3>4. Asked(r, asked)'
        BY <3>3 DEF Asked, AttentionOf, CandidatesOf
      <3>5. next = "needs_attention" => bundle # asked
        BY <3>1, <3>2 DEF Asked
      <3> QED
        BY <3>3, <3>4, <3>5 DEF Past, Waits
    <2>5. ASSUME NEW c \in Callers, NEW evidence, Answers(c, r, evidence)
          PROVE  Past(r, asked)'
      <3>1. /\ row' = [row EXCEPT ![r] = Advanced(row[r], call[c].resume, evidence, NoBundle)]
            /\ call[c].resume \in Phases
        BY <2>5 DEF Answers
      <3>2. /\ \A e : Cites(row[r], e) => Cites(row'[r], e)
            /\ row'[r].status = call[c].resume
        <4>1. RowAppended(r, call[c].resume, evidence, NoBundle)
          BY <1>0, <3>1, RowAppends
        <4> QED
          BY <4>1 DEF RowAppended
      <3>3. Asked(r, asked)'
        BY <3>2 DEF Asked, AttentionOf, CandidatesOf
      <3> QED
        BY <3>1, <3>2, <3>3 DEF Past, Waits, Phases
    <2> QED
      BY <2>1, <2>2, <2>3, <2>4, <2>5
  <1> QED
    BY <1>1, <1>2

LEMMA RowsAskOnce ==
  ASSUME Inductive, AllAsk, [Next]_vars, NEW r \in Runs, RowAskedOnce(r)
  PROVE  RowAskedOnce(r)'
  <1>0. TypeOK
    BY DEF Inductive, ReadsInductive
  <1>1. ASSUME NEW e, Cites(row[r], e), e.by = "resolution"
        PROVE  Past(r, [phase |-> e.phase, cards |-> e.cards])'
    <2>1. Past(r, [phase |-> e.phase, cards |-> e.cards])
      BY <1>1, AnswersArePast
    <2> QED
      BY <2>1, QuestionsPass DEF Past
  <1>2. CASE row'[r] = row[r]
    <2>1. row[r].status = "needs_attention" => Asked(r, row[r].bundle)
      BY DEF RowAskedOnce
    <2>2. (row[r].status = "needs_attention" => Asked(r, row[r].bundle))'
      BY <1>2, <2>1 DEF Asked
    <2> QED
      BY <1>1, <1>2, <2>2 DEF RowAskedOnce, Cites
  <1>3. CASE row'[r] # row[r]
    <2>1. PICK s \in Runs : \/ Opens(s)
                           \/ (\E w \in Workers : \E next, evidence, cards : Drives(w, s, next, evidence, cards))
                           \/ \E c \in Callers : \E evidence : Answers(c, s, evidence)
      BY <1>3, RowSteps DEF Inductive
    <2>2. s = r
      BY <1>0, <1>3, <2>1 DEF TypeOK, Opens, Drives, Answers
    <2>3. CASE Opens(r)
      BY <1>0, <2>3 DEF Opens, NewRow, AbsentRow, TypeOK, RowAskedOnce
    <2>4. ASSUME NEW w \in Workers, NEW next, NEW evidence, NEW cards, Drives(w, r, next, evidence, cards)
          PROVE  RowAskedOnce(r)'
      <3> DEFINE bundle == [phase |-> worker[w].status, cards |-> worker[w].outcome.cards]
      <3>1. /\ row' = [row EXCEPT ![r] = Advanced(row[r], next, evidence, bundle)]
            /\ worker[w].pc = "advancing" /\ r = worker[w].ticket.run
            /\ next = worker[w].outcome.next /\ evidence = worker[w].outcome.evidence
            /\ next \in Transitions[row[r].status] /\ row[r].status \in Phases
            /\ evidence.by # "resolution"
        BY <2>4 DEF Drives, RunOf, IsEvidenceOf
      <3>2. next = "needs_attention" => worker[w].status \in Inquiring /\ evidence = AttentionOf(r, bundle)
        BY <3>1 DEF AllAsk, LocalsAsk
      <3>3. bundle.phase = worker[w].status
        OBVIOUS
      <3> HIDE DEF bundle
      <3>4. /\ \A e : Cites(row'[r], e) <=> Cites(row[r], e) \/ e = evidence
            /\ row'[r].status = next
            /\ next = "needs_attention" => row'[r].bundle = bundle
        <4>1. RowAppended(r, next, evidence, bundle)
          BY <1>0, <3>1, RowAppends
        <4> QED
          BY <4>1 DEF RowAppended
      <3>5. row'[r].status # "absent"
        <4>1. \A status \in Phases : "absent" \notin Transitions[status]
          BY DEF Phases, Transitions
        <4> QED
          BY <3>1, <3>4, <4>1
      <3>6. row'[r].status = "needs_attention" => Asked(r, row[r].bundle)'
        BY <3>2, <3>3, <3>4 DEF Asked, AttentionOf, CandidatesOf
      <3>7. \A i \in DOMAIN row'[r].evidence :
              row'[r].evidence[i].by = "resolution" => Cites(row[r], row'[r].evidence[i])
        BY <3>1, <3>4 DEF Cites
      <3> QED
        BY <1>1, <3>5, <3>6, <3>7 DEF RowAskedOnce
    <2>5. ASSUME NEW c \in Callers, NEW evidence, Answers(c, r, evidence)
          PROVE  RowAskedOnce(r)'
      <3>1. /\ row' = [row EXCEPT ![r] = Advanced(row[r], call[c].resume, evidence, NoBundle)]
            /\ call[c].resume \in Phases
            /\ row[r].status = "needs_attention" /\ row[r].bundle = call[c].bundle
            /\ evidence = Resolution(call[c].bundle, call[c].action)
        BY <2>5 DEF Answers
      <3>2. /\ \A e : Cites(row'[r], e) <=> Cites(row[r], e) \/ e = evidence
            /\ row'[r].status = call[c].resume
        <4>1. RowAppended(r, call[c].resume, evidence, NoBundle)
          BY <1>0, <3>1, RowAppends
        <4> QED
          BY <4>1 DEF RowAppended
      <3>3. PICK asked : asked = row[r].bundle
        OBVIOUS
      <3>4. Past(r, asked)'
        <4>1. Asked(r, asked)
          BY <3>1, <3>3 DEF RowAskedOnce
        <4> QED
          BY <1>3, <4>1, QuestionsPass
      <3>5. [phase |-> evidence.phase, cards |-> evidence.cards] = asked
        BY <1>0, <3>1, <3>3 DEF Resolution, TypeOK, Row, Bundle
      <3>6. ASSUME NEW e, Cites(row'[r], e), e.by = "resolution"
            PROVE  Past(r, [phase |-> e.phase, cards |-> e.cards])'
        BY <1>1, <3>2, <3>4, <3>5, <3>6
      <3>7. row'[r].status \notin {"absent", "needs_attention"}
        BY <3>1, <3>2 DEF Phases
      <3> QED
        BY <3>6, <3>7 DEF RowAskedOnce, Cites
    <2> QED
      BY <2>1, <2>2, <2>3, <2>4, <2>5
  <1> QED
    BY <1>2, <1>3

\* A request that answers keeps the question that it has read.
SameQuestion(c) ==
  /\ call'[c].run = call[c].run /\ call'[c].bundle = call[c].bundle
  /\ call'[c].revision = call[c].revision

LEMMA RequestsKeepQuestions ==
  ASSUME TypeOK, [Next]_vars, NEW d \in Callers, call'[d].pc \in {"recording", "resuming"}
  PROVE  \/ call[d].pc \in {"recording", "resuming"} /\ SameQuestion(d)
         \/ row' = row /\ call'[d].revision = row[call'[d].run].revision
  <1>0. call \in [Callers -> CallStates]
    BY DEF TypeOK
  <1>1. CASE call'[d] = call[d]
    BY <1>1 DEF SameQuestion
  <1>2. ASSUME NEW c \in Callers, CallStep(c) \/ User(c), call'[d] # call[d]
        PROVE  \/ call[d].pc \in {"recording", "resuming"} /\ SameQuestion(d)
               \/ row' = row /\ call'[d].revision = row[call'[d].run].revision
    <2>1. d = c
      BY <1>0, <1>2 DEF CallStep, User, SubmitCreate, SubmitResolve, CreateRun, ReadAttention,
                        AnswerTask, RecordResolution, ResumeRun, StartRun, EndCall
    <2>2. ~EndCall(c)
      BY <1>0, <2>1 DEF EndCall, IdleCall
    <2>3. ~(User(c) \/ CreateRun(c) \/ ResumeRun(c) \/ StartRun(c))
      <3>1. CASE \E r \in Runs : SubmitCreate(c, r)
        BY <1>0, <2>1, <3>1 DEF SubmitCreate, IdleCall
      <3>2. CASE \E r \in Runs : \E a \in Actions : SubmitResolve(c, r, a)
        BY <1>0, <2>1, <3>2 DEF SubmitResolve, IdleCall
      <3>3. CASE CreateRun(c) \/ ResumeRun(c) \/ StartRun(c)
        BY <1>0, <2>1, <2>2, <3>3 DEF CreateRun, ResumeRun, StartRun, CallStates
      <3> QED
        BY <3>1, <3>2, <3>3 DEF User
    <2>4. CASE (\E k \in Cards : AnswerTask(c, k)) \/ RecordResolution(c)
      BY <1>0, <2>1, <2>2, <2>4 DEF AnswerTask, RecordResolution, CallStates, SameQuestion
    <2>5. CASE ReadAttention(c)
      <3>1. \E resume, todo : call' = [call EXCEPT ![c] =
              [@ EXCEPT !.pc = "recording", !.revision = row[call[c].run].revision,
                        !.resume = resume, !.todo = todo]]
        BY <2>2, <2>5 DEF ReadAttention
      <3>2. call'[c].run = call[c].run /\ call'[c].revision = row[call[c].run].revision
        BY <1>0, <3>1 DEF CallStates
      <3> QED
        BY <2>1, <2>5, <3>2 DEF ReadAttention, rowVars
    <2> QED
      BY <1>2, <2>3, <2>4, <2>5 DEF CallStep
  <1>3. ASSUME NEW w \in Workers, WorkerStep(w) PROVE call'[d] = call[d]
    BY <1>3 DEF WorkerStep, PhaseStep, StartPhase, ImportPhase, OrganizePhase, OrganizeCard,
                CloseSafeTask, PublishCard, OrganizeEnd, EnqueueIndex, AdoptClaim, ClaimIndex,
                CompleteIndex, IndexEnd, MeetReplaced, ComposePhase, OutlinePhase, AssignVisualsPhase,
                ValidatePhase, OnlyWorker, TakeTicket, ReadRun, AdvanceRun, Finish
  <1>4. ASSUME NEW h \in Helpers,
               Callback(h) \/ Boot(h) \/ Bind(h) \/ Close(h) \/ Exit(h) \/ Crash(h) \/ OtherJob(h)
        PROVE  call'[d] = call[d]
    <2>1. call'[d] = call[d] \/ call'[d] = IdleCall
      BY <1>4 DEF Callback, Forget, Boot, Bind, Close, Exit, Crash, OtherJob, Vanish
    <2> QED
      BY <2>1 DEF IdleCall
  <1>5. CASE UNCHANGED vars
    BY <1>1, <1>5 DEF vars
  <1> QED
    BY <1>1, <1>2, <1>3, <1>4, <1>5 DEF Next

LEMMA CallsKnow ==
  ASSUME Inductive, Questions, [Next]_vars, NEW d \in Callers
  PROVE  CallKnows(d)'
  <1>0. TypeOK /\ CallReadOK(d) /\ CallKnows(d) /\ AllAsk
    BY DEF Inductive, ReadsInductive, Questions
  <1>1. SUFFICES ASSUME call'[d].pc \in {"recording", "resuming"} PROVE CallKnows(d)'
    BY DEF CallKnows
  <1>2. CASE row' = row /\ call'[d].revision = row[call'[d].run].revision
    BY <1>2 DEF CallKnows, Current
  <1>3. CASE call[d].pc \in {"recording", "resuming"} /\ SameQuestion(d)
    <2>1. PICK r \in Runs : r = call[d].run /\ r = call'[d].run
      BY <1>0, <1>3 DEF TypeOK, CallStates, SameQuestion
    <2>2. PICK b : b = call[d].bundle /\ b = call'[d].bundle
      BY <1>3 DEF SameQuestion
    <2>3. CASE row'[r] = row[r] /\ Current(r, call[d].revision)
      BY <1>3, <2>1, <2>3 DEF CallKnows, Current, SameQuestion
    <2>4. CASE row'[r] # row[r] \/ ~Current(r, call[d].revision)
      <3>1. RowAskedOnce(r)
        BY DEF Questions
      <3>2. Asked(r, b) /\ (Past(r, b) \/ row'[r] # row[r])
        <4>1. CASE Past(r, b)
          BY <4>1 DEF Past
        <4>2. CASE ~Past(r, b)
          <5>1. Current(r, call[d].revision)
            BY <1>0, <1>3, <2>1, <2>2, <4>2 DEF CallKnows
          <5>2. row[r].status = "needs_attention" /\ row[r].bundle = b
            BY <1>0, <1>3, <2>1, <2>2, <5>1 DEF CallReadOK, Current
          <5> QED
            BY <2>4, <3>1, <5>1, <5>2 DEF RowAskedOnce
        <4> QED
          BY <4>1, <4>2
      <3>3. Past(r, b)'
        BY <1>0, <3>1, <3>2, QuestionsPass
      <3> QED
        BY <2>1, <2>2, <3>3 DEF CallKnows
    <2> QED
      BY <2>3, <2>4
  <1> QED
    BY <1>0, <1>1, <1>2, <1>3, RequestsKeepQuestions

\* A request that has recorded its answer resumes the run, unless another has.
LEMMA AnswersResume ==
  ASSUME Inductive, Questions, NEW c \in Callers, call[c].pc = "resuming",
         Current(call[c].run, call[c].revision)
  PROVE  MayAdvance(row[call[c].run], call[c].resume, Resolution(call[c].bundle, call[c].action))
  <1>1. PICK r \in Runs : r = call[c].run
    BY DEF Inductive, ReadsInductive, TypeOK, CallStates
  <1>2. PICK b \in Bundle : b = call[c].bundle
    BY DEF Inductive, ReadsInductive, TypeOK, CallStates
  <1> DEFINE e == Resolution(b, call[c].action)
  <1>3. Waits(r, b)
    BY <1>1, <1>2 DEF Inductive, ReadsInductive, CallReadOK, Current, Waits
  <1>4. RowAskedOnce(r) /\ Asked(r, b)
    BY <1>3 DEF Questions, RowAskedOnce, Waits
  <1>5. call[c].resume = b.phase \/ call[c].resume = "validating"
    BY <1>2 DEF Inductive, Asking, CallFollows, Follows
  <1>6. call[c].resume \in Transitions["needs_attention"] /\ "needs_attention" \in DOMAIN Transitions
    BY <1>4, <1>5 DEF Asked, Inquiring, Transitions
  <1>7. e.by = "resolution" /\ [phase |-> e.phase, cards |-> e.cards] = b
    BY <1>2 DEF Resolution, Bundle
  <1> HIDE DEF e
  <1>8. ~Cites(row[r], e)
    BY <1>3, <1>4, <1>7, AnswersArePast DEF Past
  <1>9. MayAdvance(row[r], call[c].resume, e)
    BY <1>3, <1>6, <1>8 DEF MayAdvance, Waits
  <1> QED
    BY <1>1, <1>2, <1>9 DEF e

\* Without a crash, a request that has recorded its answer goes on to resume the run.
LEMMA AnswersGoOn ==
  ASSUME TypeOK, [Next]_vars, crashes' = 0, NEW d \in Callers, call[d].pc = "resuming"
  PROVE  \/ call'[d].pc = "resuming" /\ SameQuestion(d)
         \/ ResumeRun(d)
  <1>0. call \in [Callers -> CallStates]
    BY DEF TypeOK
  <1>1. CASE call'[d] = call[d]
    BY <1>1 DEF SameQuestion
  <1>2. ASSUME NEW c \in Callers, CallStep(c) \/ User(c), call'[d] # call[d]
        PROVE  ResumeRun(d)
    <2>1. d = c
      BY <1>0, <1>2 DEF CallStep, User, SubmitCreate, SubmitResolve, CreateRun, ReadAttention,
                        AnswerTask, RecordResolution, ResumeRun, StartRun, EndCall
    <2> QED
      BY <1>2, <2>1 DEF CallStep, User, SubmitCreate, SubmitResolve, CreateRun, ReadAttention,
                        AnswerTask, RecordResolution, StartRun
  <1>3. ASSUME NEW w \in Workers, WorkerStep(w) PROVE call'[d] = call[d]
    BY <1>3 DEF WorkerStep, PhaseStep, StartPhase, ImportPhase, OrganizePhase, OrganizeCard,
                CloseSafeTask, PublishCard, OrganizeEnd, EnqueueIndex, AdoptClaim, ClaimIndex,
                CompleteIndex, IndexEnd, MeetReplaced, ComposePhase, OutlinePhase, AssignVisualsPhase,
                ValidatePhase, OnlyWorker, TakeTicket, ReadRun, AdvanceRun, Finish
  <1>4. ASSUME NEW h \in Helpers,
               Callback(h) \/ Boot(h) \/ Bind(h) \/ Close(h) \/ Exit(h) \/ OtherJob(h)
        PROVE  call'[d] = call[d]
    <2>1. call' = call \/ Exit(h)
      BY <1>4 DEF Callback, Forget, Boot, Bind, Close, OtherJob
    <2>2. Exit(h) => Home[d] # h
      BY DEF Exit
    <2> QED
      BY <1>0, <2>1, <2>2 DEF Exit, Vanish
  <1>5. ASSUME NEW h \in Helpers, Crash(h) PROVE FALSE
    BY <1>5 DEF Crash, TypeOK
  <1>6. CASE UNCHANGED vars
    BY <1>1, <1>6 DEF vars
  <1> QED
    BY <1>1, <1>2, <1>3, <1>4, <1>5, <1>6 DEF Next

\* A thread records no answer.
LEMMA WorkersRecordNothing ==
  ASSUME NEW w \in Workers, WorkerStep(w)
  PROVE  UNCHANGED recorded /\ UNCHANGED crashes
  <1>1. CASE TakeTicket(w) \/ ReadRun(w) \/ AdvanceRun(w) \/ Finish(w)
    BY <1>1 DEF TakeTicket, ReadRun, AdvanceRun, Finish, boundVars
  <1>2. CASE PhaseStep(w)
    <2>1. OnlyWorker
      BY <1>2 DEF PhaseStep, StartPhase, ImportPhase, OrganizePhase, OrganizeCard, CloseSafeTask,
           PublishCard, OrganizeEnd, EnqueueIndex, AdoptClaim, ClaimIndex, CompleteIndex,
           IndexEnd, MeetReplaced, ComposePhase, OutlinePhase, AssignVisualsPhase, ValidatePhase
    <2> QED
      BY <2>1 DEF OnlyWorker, boundVars
  <1> QED
    BY <1>1, <1>2 DEF WorkerStep

\* A request records its answer in a step of its own.
LEMMA RequestsRecord ==
  ASSUME NEW c \in Callers, CallStep(c) \/ User(c)
  PROVE  (UNCHANGED recorded \/ RecordResolution(c)) /\ UNCHANGED crashes
  <1>1. UNCHANGED crashes
    BY DEF CallStep, User, SubmitCreate, SubmitResolve, CreateRun, ReadAttention,
           AnswerTask, RecordResolution, ResumeRun, StartRun, OnlyCall
  <1>2. UNCHANGED recorded \/ RecordResolution(c)
    BY DEF CallStep, User, SubmitCreate, SubmitResolve, CreateRun, ReadAttention,
           AnswerTask, ResumeRun, StartRun
  <1> QED
    BY <1>1, <1>2

LEMMA AnswersSpent ==
  ASSUME Inductive, Questions, [Next]_vars, crashes' = 0
  PROVE  AnswersAreSpent'
  <1>0. TypeOK /\ AllAsk /\ AnswersAreSpent
    <2>1. crashes = 0
      <3>1. crashes' = crashes \/ \E h \in Helpers : Crash(h)
        BY WorkersRecordNothing, RequestsRecord
           DEF Next, vars, boundVars, Callback, Forget, Boot, Bind, Close, Exit, OtherJob
      <3> QED
        BY <3>1 DEF Crash, Inductive, ReadsInductive, TypeOK
    <2> QED
      BY <2>1 DEF Inductive, ReadsInductive, Questions
  <1>1. ASSUME NEW r \in Runs, NEW b, Past(r, b) PROVE Past(r, b)'
    BY <1>0, <1>1, QuestionsPass DEF Past, Questions
  <1>2. ASSUME NEW d \in Callers, call[d].pc = "resuming", NEW r \in Runs, NEW b,
               r = call[d].run, b = call[d].bundle
        PROVE  \/ Past(r, b)'
               \/ \E c \in Callers : call'[c].pc = "resuming" /\ call'[c].run = r /\ call'[c].bundle = b
    <2>1. CASE call'[d].pc = "resuming" /\ SameQuestion(d)
      BY <1>2, <2>1 DEF SameQuestion
    <2>2. CASE ResumeRun(d)
      <3>1. CASE Current(r, call[d].revision)
        <4> DEFINE e == Resolution(call[d].bundle, call[d].action)
        <4>1. MayAdvance(row[r], call[d].resume, e)
          BY <1>2, <3>1, AnswersResume
        <4>2. row' = [row EXCEPT ![r] = Advanced(row[r], call[d].resume, e, NoBundle)]
          BY <1>2, <2>2, <3>1, <4>1 DEF ResumeRun
        <4> HIDE DEF e
        <4>3. RowAppended(r, call[d].resume, e, NoBundle)
          BY <1>0, <4>2, RowAppends
        <4>4. row'[r] # row[r]
          BY <1>0, <4>3 DEF RowAppended, TypeOK, Row
        <4>5. RowAskedOnce(r) /\ Asked(r, b)
          BY <1>2, <3>1 DEF Questions, RowAskedOnce, Inductive, ReadsInductive, CallReadOK, Current
        <4> QED
          BY <1>0, <4>4, <4>5, QuestionsPass
      <3>2. CASE ~Current(r, call[d].revision)
        BY <1>1, <1>2, <3>2 DEF Questions, CallKnows
      <3> QED
        BY <3>1, <3>2
    <2> QED
      BY <1>0, <1>2, <2>1, <2>2, AnswersGoOn
  <1>3. ASSUME NEW e \in recorded
        PROVE  \/ Past(e.run, e.bundle)'
               \/ \E c \in Callers : call'[c].pc = "resuming" /\ call'[c].run = e.run /\ call'[c].bundle = e.bundle
    <2>0. PICK b : b = e.bundle
      OBVIOUS
    <2>1. PICK r \in Runs : r = e.run /\ b = e.bundle
      BY <1>0, <2>0 DEF TypeOK
    <2>2. \/ Past(r, b)
          \/ \E c \in Callers : call[c].pc = "resuming" /\ call[c].run = r /\ call[c].bundle = b
      BY <1>0, <2>1 DEF AnswersAreSpent
    <2>3. \/ Past(r, b)'
          \/ \E c \in Callers : call'[c].pc = "resuming" /\ call'[c].run = r /\ call'[c].bundle = b
      BY <1>1, <1>2, <2>2
    <2> QED
      BY <2>1, <2>3
  <1>4. ASSUME NEW e \in recorded', e \notin recorded
        PROVE  \E c \in Callers : call'[c].pc = "resuming" /\ call'[c].run = e.run /\ call'[c].bundle = e.bundle
    <2>1. PICK c \in Callers : RecordResolution(c)
      BY <1>4, WorkersRecordNothing, RequestsRecord
         DEF Next, vars, Callback, Forget, Boot, Bind, Close, Exit, Crash, OtherJob, Vanish
    <2>2. /\ e = [run |-> call[c].run, bundle |-> call[c].bundle, action |-> call[c].action]
          /\ call' = [call EXCEPT ![c] = [@ EXCEPT !.pc = "resuming"]]
      BY <1>4, <2>1 DEF RecordResolution
    <2>3. call'[c].pc = "resuming" /\ call'[c].run = call[c].run /\ call'[c].bundle = call[c].bundle
      BY <1>0, <2>2 DEF TypeOK, CallStates
    <2> QED
      BY <2>2, <2>3
  <1> QED
    BY <1>3, <1>4 DEF AnswersAreSpent

LEMMA QuestionsStep == Inductive /\ Questions /\ [Next]_vars => (Inductive /\ Questions)'
  <1> SUFFICES ASSUME Inductive, Questions, [Next]_vars PROVE (Inductive /\ Questions)'
    OBVIOUS
  <1>1. Inductive' /\ TypeOK /\ Backed
    BY InductiveStep DEF Inductive, ReadsInductive
  <1>2. PlainAreClosed' /\ AllAsk'
    BY <1>1, AsksStep DEF Questions
  <1>3. \A r \in Runs : RowAskedOnce(r)'
    BY RowsAskOnce DEF Questions
  <1>4. \A c \in Callers : CallKnows(c)'
    BY CallsKnow
  <1>5. crashes' = 0 => AnswersAreSpent'
    BY AnswersSpent
  <1> QED
    BY <1>1, <1>2, <1>3, <1>4, <1>5 DEF Questions

LEMMA QuestionsInit == Init => Questions
  <1> SUFFICES ASSUME Init PROVE Questions
    OBVIOUS
  <1>1. PlainAreClosed /\ AllAsk
    BY DEF Init, PlainAreClosed, AllAsk, IdleWorker
  <1>2. \A r \in Runs : RowAskedOnce(r)
    <2> SUFFICES ASSUME NEW r \in Runs PROVE RowAskedOnce(r)
      OBVIOUS
    <2>1. row[r].status = "absent" /\ row[r].evidence = << >>
      BY DEF Init, AbsentRow
    <2> QED
      BY <2>1 DEF RowAskedOnce
  <1>3. \A c \in Callers : CallKnows(c)
    BY DEF Init, CallKnows, IdleCall
  <1>4. AnswersAreSpent
    BY DEF Init, AnswersAreSpent
  <1> QED
    BY <1>1, <1>2, <1>3, <1>4 DEF Questions

\* Only a crash loses an answer: until a process crashes, whatever the threads and the
\* requests have done to the run meanwhile, no answer to a question that waits is spent
\* except by a request that is about to resume the run.
THEOREM OnlyCrashesLoseAnswers == Spec => [](crashes = 0 => QuestionStaysAnswerable)
<1>1. Init => Inductive /\ Questions
  BY InductiveInit, QuestionsInit
<1>2. Inductive /\ Questions /\ [Next]_vars => (Inductive /\ Questions)'
  BY QuestionsStep
<1>3. Inductive /\ Questions => (crashes = 0 => QuestionStaysAnswerable)
  BY DEF Questions, AnswersAreSpent, QuestionStaysAnswerable, Past, Waits
<1> QED
  BY <1>1, <1>2, <1>3, PTL DEF Spec

-----------------------------------------------------------------------------
(* A run that needs no decision is driven to its end.                      *)

Exists(r) == row[r].status # "absent"

\* The futures that are not done, and the requests about to submit one, are of runs
\* that exist.
FuturesExist ==
  /\ \A h \in Helpers : \A t \in Pending(h) : Exists(t.run)
  /\ \A c \in Callers : call[c].pc = "starting" => Exists(call[c].run)

LEMMA RowsRemain ==
  ASSUME Inductive, [Next]_vars, NEW r \in Runs
  PROVE  /\ Exists(r) => Exists(r)'
         /\ row'[r].revision >= row[r].revision
         /\ row[r].revision \in Nat /\ row'[r].revision \in Nat
  <1>0. TypeOK /\ RevisionsCount /\ TypeOK' /\ RevisionsCount'
    BY InductiveStep DEF Inductive, ReadsInductive
  <1>1. row[r].revision \in Nat /\ row'[r].revision \in Nat
    BY <1>0 DEF TypeOK, Row
  <1>2. CASE row'[r] = row[r]
    BY <1>1, <1>2 DEF Exists
  <1>3. CASE row'[r] # row[r]
    <2>1. PICK s \in Runs : \/ Opens(s)
                           \/ (\E w \in Workers : \E next, evidence, cards : Drives(w, s, next, evidence, cards))
                           \/ \E c \in Callers : \E evidence : Answers(c, s, evidence)
      BY <1>3, RowSteps DEF Inductive
    <2>2. s = r
      BY <1>0, <1>3, <2>1 DEF TypeOK, Opens, Drives, Answers
    <2>3. CASE Opens(r)
      BY <1>0, <1>1, <2>3 DEF Opens, Exists, RevisionsCount
    <2>4. ASSUME NEW next, NEW evidence, NEW bundle,
                 row' = [row EXCEPT ![r] = Advanced(row[r], next, evidence, bundle)]
          PROVE  row'[r].revision = row[r].revision + 1
      <3>1. RowAppended(r, next, evidence, bundle)
        BY <1>0, <2>4, RowAppends
      <3> QED
        BY <3>1 DEF RowAppended
    <2>5. ASSUME row'[r].revision = row[r].revision + 1
          PROVE  /\ Exists(r) => Exists(r)'
                 /\ row'[r].revision >= row[r].revision
      BY <1>0, <1>1, <2>5 DEF RevisionsCount, Exists
    <2>6. ASSUME NEW w \in Workers, NEW next, NEW evidence, NEW cards, Drives(w, r, next, evidence, cards)
          PROVE  row'[r].revision = row[r].revision + 1
      BY <2>4, <2>6 DEF Drives
    <2>7. ASSUME NEW c \in Callers, NEW evidence, Answers(c, r, evidence)
          PROVE  row'[r].revision = row[r].revision + 1
      BY <2>4, <2>7 DEF Answers
    <2> QED
      BY <1>1, <2>1, <2>2, <2>3, <2>5, <2>6, <2>7
  <1> QED
    BY <1>1, <1>2, <1>3

\* Where the futures of a process come from.
LEMMA FuturesComeFrom ==
  ASSUME TypeOK, [Next]_vars, NEW h \in Helpers, NEW t, t \in Pending(h)'
  PROVE  \/ t \in Pending(h)
         \/ \E c \in Callers : call[c].pc = "starting" /\ t.run = call[c].run
         \/ t.run \in Runs /\ Resumable(t.run) /\ row' = row
  <1>0. /\ queue \in [Helpers -> Seq(Ticket)] /\ worker \in [Workers -> WorkerStates]
        /\ Home \in [Workers \cup Callers -> Helpers]
    BY ConstantsAssumption DEF TypeOK, ConstantsAssumption
  <1>1. CASE UNCHANGED <<queue, worker>>
    BY <1>1 DEF Pending
  <1>2. ASSUME NEW w \in Workers, WorkerStep(w) PROVE t \in Pending(h)
    <2>1. CASE PhaseStep(w) \/ ReadRun(w) \/ AdvanceRun(w)
      BY <2>1, ThreadKeepsFuture DEF Pending, Busy, poolVars
    <2>2. CASE TakeTicket(w)
      <3>1. /\ queue[Home[w]] # << >> /\ queue[Home[w]] \in Seq(Ticket) /\ Home[w] \in Helpers
            /\ queue' = [queue EXCEPT ![Home[w]] = Tail(@)]
            /\ \A v \in Workers : v # w => worker'[v] = worker[v]
        BY <1>0, <2>2 DEF TakeTicket
      <3>2. worker'[w].ticket = Head(queue[Home[w]])
        <4>1. \A x : [IdleWorker EXCEPT !.pc = "reading", !.ticket = x].ticket = x
          BY DEF IdleWorker
        <4> QED
          BY <1>0, <2>2, <4>1 DEF TakeTicket
      <3>3. ToSet(Tail(queue[Home[w]])) \subseteq ToSet(queue[Home[w]])
        BY <3>1 DEF ToSet
      <3>4. Head(queue[Home[w]]) \in ToSet(queue[Home[w]])
        BY <3>1 DEF ToSet
      <3>5. CASE t \in ToSet(queue'[h])
        BY <1>0, <3>1, <3>3, <3>5 DEF Pending
      <3>6. CASE \E v \in Workers : Home[v] = h /\ worker'[v].pc # "idle" /\ t = worker'[v].ticket
        BY <3>1, <3>2, <3>4, <3>6 DEF Pending
      <3> QED
        BY <3>5, <3>6 DEF Pending
    <2>3. CASE Finish(w)
      <3>1. /\ UNCHANGED queue /\ worker'[w] = IdleWorker
            /\ \A v \in Workers : v # w => worker'[v] = worker[v]
        BY <1>0, <2>3 DEF Finish
      <3> QED
        BY <3>1 DEF Pending, IdleWorker
    <2> QED
      BY <1>2, <2>1, <2>2, <2>3 DEF WorkerStep
  <1>3. ASSUME NEW c \in Callers, CallStep(c) \/ User(c)
        PROVE  t \in Pending(h) \/ (call[c].pc = "starting" /\ t.run = call[c].run)
    <2>1. UNCHANGED worker
      BY <1>3 DEF CallStep, User, SubmitCreate, SubmitResolve, CreateRun, ReadAttention,
                  AnswerTask, RecordResolution, ResumeRun, StartRun, OnlyCall
    <2>2. CASE UNCHANGED queue
      BY <2>1, <2>2 DEF Pending
    <2>3. CASE ~UNCHANGED queue
      <3>1. StartRun(c)
        BY <1>3, <2>3 DEF CallStep, User, SubmitCreate, SubmitResolve, CreateRun, ReadAttention,
                  AnswerTask, RecordResolution, ResumeRun
      <3>2. PICK g, future : /\ call[c].pc = "starting" /\ future.run = call[c].run
                             /\ queue' = [queue EXCEPT ![g] = Append(@, future)]
        <4>1. Start(Home[c], call[c].run, "owner") /\ call[c].pc = "starting"
          BY <2>3, <3>1 DEF StartRun
        <4> QED
          BY <2>3, <4>1 DEF Start
      <3>3. \A q \in Seq(Ticket) : ToSet(Append(q, future)) \subseteq ToSet(q) \cup {future}
        BY DEF ToSet
      <3>4. ToSet(queue'[h]) \subseteq ToSet(queue[h]) \cup {future}
        BY <1>0, <3>2, <3>3
      <3> QED
        BY <2>1, <3>2, <3>4 DEF Pending
    <2> QED
      BY <2>2, <2>3
  <1>4. ASSUME NEW g \in Helpers,
               Callback(g) \/ Boot(g) \/ Bind(g) \/ Close(g) \/ Exit(g) \/ Crash(g) \/ OtherJob(g)
        PROVE  t \in Pending(h) \/ (t.run \in Runs /\ Resumable(t.run) /\ row' = row)
    <2>1. CASE Callback(g) \/ Bind(g) \/ Close(g)
      <3>1. UNCHANGED <<queue, worker>>
        BY <2>1 DEF Callback, Forget, Bind, Close
      <3> QED
        BY <3>1 DEF Pending
    <2>2. CASE Exit(g) \/ Crash(g)
      <3>1. /\ queue' = [queue EXCEPT ![g] = << >>]
            /\ worker' = [w \in Workers |-> IF Home[w] = g THEN IdleWorker ELSE worker[w]]
        BY <2>2 DEF Exit, Crash, Vanish
      <3>2. ToSet(<< >>) = {}
        BY DEF ToSet
      <3>3. ToSet(queue'[h]) \subseteq ToSet(queue[h])
        BY <1>0, <3>1, <3>2
      <3> QED
        BY <3>1, <3>3 DEF Pending, IdleWorker
    <2>3. CASE Boot(g)
      <3>1. PICK order \in ResumeOrders, n \in TicketNumbers :
              queue' = [queue EXCEPT ![g] = [i \in DOMAIN order |->
                                               [run |-> order[i], actor |-> "system", number |-> n]]]
        BY <2>3 DEF Boot
      <3>2. /\ \A i \in DOMAIN order : order[i] \in Runs /\ Resumable(order[i])
            /\ worker' = worker /\ row' = row
        BY <2>3 DEF ResumeOrders, Boot, rowVars
      <3>3. CASE h # g
        BY <1>0, <3>1, <3>2, <3>3 DEF Pending
      <3>4. CASE h = g
        <4>1. queue'[h] = [i \in DOMAIN order |-> [run |-> order[i], actor |-> "system", number |-> n]]
          BY <1>0, <3>1, <3>4
        <4>2. CASE t \in ToSet(queue'[h])
          BY <3>2, <4>1, <4>2 DEF ToSet
        <4>3. CASE \E v \in Workers : Home[v] = h /\ worker'[v].pc # "idle" /\ t = worker'[v].ticket
          BY <3>2, <4>3 DEF Pending
        <4> QED
          BY <4>2, <4>3 DEF Pending
      <3> QED
        BY <3>3, <3>4
    <2>4. CASE OtherJob(g)
      <3>1. UNCHANGED <<queue, worker>>
        BY <2>4 DEF OtherJob, poolVars
      <3> QED
        BY <3>1 DEF Pending
    <2> QED
      BY <1>4, <2>1, <2>2, <2>3, <2>4
  <1>5. CASE UNCHANGED vars
    BY <1>1, <1>5 DEF vars
  <1> QED
    BY <1>2, <1>3, <1>4, <1>5 DEF Next

LEMMA PendingTypes ==
  ASSUME TypeOK, NEW h \in Helpers, NEW t \in Pending(h)
  PROVE  t \in Ticket /\ t.run \in Runs
  <1>1. \A q \in Seq(Ticket) : ToSet(q) \subseteq Ticket
    BY DEF ToSet
  <1>2. ToSet(queue[h]) \subseteq Ticket
    BY <1>1 DEF TypeOK
  <1>3. \A w \in Workers : worker[w].pc # "idle" => worker[w].ticket \in Ticket
    BY DEF TypeOK, WorkerStates
  <1> QED
    BY <1>2, <1>3 DEF Pending, Ticket

\* A request that is about to start its run has found or made it.
LEMMA StartingHasRow ==
  ASSUME TypeOK, [Next]_vars, NEW d \in Callers, call'[d].pc = "starting"
  PROVE  \/ call[d].pc = "starting" /\ call'[d].run = call[d].run
         \/ Exists(call[d].run)'
  <1>0. call \in [Callers -> CallStates] /\ row \in [Runs -> Row]
    BY DEF TypeOK
  <1>1. CASE call'[d] = call[d]
    BY <1>1
  <1>2. ASSUME NEW c \in Callers, CallStep(c) \/ User(c), call'[d] # call[d]
        PROVE  Exists(call[d].run)'
    <2>1. d = c
      BY <1>0, <1>2 DEF CallStep, User, SubmitCreate, SubmitResolve, CreateRun, ReadAttention,
                        AnswerTask, RecordResolution, ResumeRun, StartRun, EndCall
    <2>2. ~EndCall(c)
      BY <1>0, <2>1 DEF EndCall, IdleCall
    <2>3. CreateRun(c) \/ ResumeRun(c)
      <3>1. CASE \E r \in Runs : SubmitCreate(c, r)
        BY <1>0, <2>1, <3>1 DEF SubmitCreate, IdleCall
      <3>2. CASE \E r \in Runs : \E a \in Actions : SubmitResolve(c, r, a)
        BY <1>0, <2>1, <3>2 DEF SubmitResolve, IdleCall
      <3>3. CASE (\E k \in Cards : AnswerTask(c, k)) \/ RecordResolution(c)
        BY <1>0, <2>1, <2>2, <3>3 DEF AnswerTask, RecordResolution, CallStates
      <3>5. CASE ReadAttention(c)
        <4>1. \E resume, todo : call' = [call EXCEPT ![c] =
                [@ EXCEPT !.pc = "recording", !.revision = row[call[c].run].revision,
                          !.resume = resume, !.todo = todo]]
          BY <2>2, <3>5 DEF ReadAttention
        <4>2. call'[c].pc = "recording"
          BY <1>0, <4>1 DEF CallStates
        <4> QED
          BY <2>1, <4>2
      <3>4. CASE StartRun(c)
        BY <2>2, <3>4 DEF StartRun
      <3> QED
        BY <1>2, <3>1, <3>2, <3>3, <3>4, <3>5 DEF User, CallStep
    <2>4. PICK r \in Runs : r = call[c].run
      BY <1>0, <2>3 DEF CreateRun, ResumeRun, CallStates
    <2>5. call'[c].run = r
      BY <1>0, <2>2, <2>3, <2>4 DEF CreateRun, ResumeRun, CallStates
    <2>6. CASE CreateRun(c)
      <3>1. NewRow.status = "queued"
        BY DEF NewRow, AbsentRow
      <3>2. Exists(r)'
        BY <1>0, <2>4, <2>6, <3>1 DEF CreateRun, Exists, rowVars
      <3> QED
        BY <2>1, <2>5, <3>2 DEF Exists
    <2>7. CASE ResumeRun(c)
      <3> DEFINE e == Resolution(call[c].bundle, call[c].action)
      <3>1. /\ MayAdvance(row[r], call[c].resume, e)
            /\ row' = [row EXCEPT ![r] = Advanced(@, call[c].resume, e, NoBundle)]
        BY <2>2, <2>4, <2>7 DEF ResumeRun
      <3> HIDE DEF e
      <3>2. row'[r].status = call[c].resume
        BY <1>0, <3>1 DEF Advanced
      <3>3. call[c].resume # "absent"
        BY <3>1, TransitionTypes DEF MayAdvance, Phases, Settled
      <3> QED
        BY <2>1, <2>5, <3>2, <3>3 DEF Exists
    <2> QED
      BY <2>3, <2>6, <2>7
  <1>3. ASSUME NEW w \in Workers, WorkerStep(w) PROVE call'[d] = call[d]
    BY <1>3 DEF WorkerStep, PhaseStep, StartPhase, ImportPhase, OrganizePhase, OrganizeCard,
                CloseSafeTask, PublishCard, OrganizeEnd, EnqueueIndex, AdoptClaim, ClaimIndex,
                CompleteIndex, IndexEnd, MeetReplaced, ComposePhase, OutlinePhase, AssignVisualsPhase,
                ValidatePhase, OnlyWorker, TakeTicket, ReadRun, AdvanceRun, Finish
  <1>4. ASSUME NEW h \in Helpers,
               Callback(h) \/ Boot(h) \/ Bind(h) \/ Close(h) \/ Exit(h) \/ Crash(h) \/ OtherJob(h)
        PROVE  call'[d] = call[d]
    <2>1. call'[d] = call[d] \/ call'[d] = IdleCall
      BY <1>4 DEF Callback, Forget, Boot, Bind, Close, Exit, Crash, OtherJob, Vanish
    <2> QED
      BY <2>1 DEF IdleCall
  <1>5. CASE UNCHANGED vars
    BY <1>1, <1>5 DEF vars
  <1> QED
    BY <1>1, <1>2, <1>3, <1>4, <1>5 DEF Next

LEMMA FuturesExistStep ==
  ASSUME Inductive, FuturesExist, [Next]_vars
  PROVE  FuturesExist'
  <1>0. TypeOK /\ TypeOK'
    BY InductiveStep DEF Inductive, ReadsInductive
  <1>1. ASSUME NEW h \in Helpers, NEW t, t \in Pending(h)' PROVE Exists(t.run)'
    <2>1. CASE t \in Pending(h)
      <3>1. PICK r \in Runs : r = t.run
        BY <1>0, <2>1, PendingTypes
      <3>2. Exists(r)
        BY <2>1, <3>1 DEF FuturesExist
      <3> QED
        BY <3>1, <3>2, RowsRemain DEF Exists
    <2>2. ASSUME NEW c \in Callers, call[c].pc = "starting", t.run = call[c].run PROVE Exists(t.run)'
      <3>1. PICK r \in Runs : r = t.run
        BY <1>0, <2>2 DEF TypeOK, CallStates
      <3>2. Exists(r)
        BY <2>2, <3>1 DEF FuturesExist
      <3> QED
        BY <3>1, <3>2, RowsRemain DEF Exists
    <2>3. CASE t.run \in Runs /\ Resumable(t.run) /\ row' = row
      BY <2>3 DEF Exists, Resumable, Phases
    <2> QED
      BY <1>0, <1>1, <2>1, <2>2, <2>3, FuturesComeFrom
  <1>2. ASSUME NEW c \in Callers, call'[c].pc = "starting" PROVE Exists(call[c].run)'
    <2>1. PICK r \in Runs : r = call'[c].run
      BY <1>0, <1>2 DEF TypeOK, CallStates
    <2>2. CASE call[c].pc = "starting" /\ call'[c].run = call[c].run
      <3>1. Exists(r)
        BY <2>1, <2>2 DEF FuturesExist
      <3> QED
        BY <2>1, <3>1, RowsRemain DEF Exists
    <2> QED
      BY <1>0, <1>2, <2>2, StartingHasRow
  <1> QED
    BY <1>1, <1>2 DEF FuturesExist

\* A settled run comes after the last stage.
StageNo(status) == IF status \in Phases THEN StageOf[status] ELSE 7

\* A run that needs no decision passes its stages one by one, each leaving the
\* evidence of its own.
RowIsStraight(r) ==
  NeedsNoDecision(r) /\ Exists(r) =>
    /\ row[r].status # "needs_attention"
    /\ row[r].revision <= StageNo(row[r].status)
    /\ row[r].status \in Phases =>
         \A i \in DOMAIN row[r].evidence :
           LET e == row[r].evidence[i] IN
           /\ e.by = "phase" => StageNo(e.phase) < StageNo(row[r].status)
           /\ e.by = "composition" => StageNo("composing") < StageNo(row[r].status)

LEMMA StagesFollow ==
  ASSUME NEW status \in Phases, NEW next \in Transitions[status]
  PROVE  /\ StageNo(status) \in 1..6 /\ StageNo(next) \in 1..7
         /\ next # "needs_attention" => StageNo(status) < StageNo(next)
         /\ next \in Phases => StageNo(next) = StageNo(status) + 1
         /\ StageNo("composing") = 4
         /\ next # "absent"
  BY DEF Phases, Transitions, StageNo, StageOf

LEMMA RowsStraight ==
  ASSUME Inductive, AllAsk, [Next]_vars, NEW r \in Runs, RowIsStraight(r)
  PROVE  RowIsStraight(r)'
  <1>0. TypeOK
    BY DEF Inductive, ReadsInductive
  <1>1. CASE row'[r] = row[r]
    BY <1>1 DEF RowIsStraight, Exists
  <1>2. CASE row'[r] # row[r] /\ NeedsNoDecision(r)
    <2>1. PICK s \in Runs : \/ Opens(s)
                           \/ (\E w \in Workers : \E next, evidence, cards : Drives(w, s, next, evidence, cards))
                           \/ \E c \in Callers : \E evidence : Answers(c, s, evidence)
      BY <1>2, RowSteps DEF Inductive
    <2>2. s = r
      BY <1>0, <1>2, <2>1 DEF TypeOK, Opens, Drives, Answers
    <2>3. CASE Opens(r)
      <3>1. row'[r] = NewRow
        BY <1>0, <2>3 DEF Opens, TypeOK
      <3>2. NewRow.status = "queued" /\ NewRow.revision = 1 /\ NewRow.evidence = << >>
        BY DEF NewRow, AbsentRow
      <3>3. StageNo("queued") = 1
        BY DEF StageNo, StageOf, Phases
      <3> QED
        BY <3>1, <3>2, <3>3 DEF RowIsStraight
    <2>4. ASSUME NEW w \in Workers, NEW next, NEW evidence, NEW cards, Drives(w, r, next, evidence, cards)
          PROVE  RowIsStraight(r)'
      <3> DEFINE bundle == [phase |-> row[r].status, cards |-> cards]
                 before == row[r].status
      <3>1. /\ row' = [row EXCEPT ![r] = Advanced(row[r], next, evidence, bundle)]
            /\ worker[w].pc = "advancing" /\ r = worker[w].ticket.run
            /\ next = worker[w].outcome.next
            /\ next \in Transitions[before] /\ before \in Phases
            /\ IsEvidenceOf(evidence, before, next)
        BY <2>4 DEF Drives, RunOf
      <3> HIDE DEF bundle
      <3>2. RowAppended(r, next, evidence, bundle)
        BY <1>0, <3>1, RowAppends
      <3>3. next # "needs_attention"
        BY <1>2, <3>1 DEF AllAsk, LocalsAsk
      <3>4. /\ StageNo(before) \in 1..6 /\ StageNo(next) \in 1..7 /\ StageNo(before) < StageNo(next)
            /\ StageNo("composing") = 4
        BY <3>1, <3>3, StagesFollow
      <3>5. row[r].revision <= StageNo(before) /\ row[r].revision \in Nat
        BY <1>0, <1>2, <3>1 DEF RowIsStraight, Exists, Phases, TypeOK, Row
      <3>6. row'[r].revision <= StageNo(next)
        BY <3>2, <3>4, <3>5 DEF RowAppended
      <3>7. ASSUME NEW i \in DOMAIN row'[r].evidence
            PROVE  LET e == row'[r].evidence[i] IN
                   /\ e.by = "phase" => StageNo(e.phase) < StageNo(next)
                   /\ e.by = "composition" => StageNo("composing") < StageNo(next)
        <4>1. PICK e : e = row'[r].evidence[i]
          OBVIOUS
        <4>2. Cites(row[r], e) \/ e = evidence
          BY <3>2, <3>7, <4>1 DEF RowAppended, Cites
        <4>3. CASE e = evidence
          BY <3>1, <3>4, <4>1, <4>3 DEF IsEvidenceOf
        <4>4. CASE Cites(row[r], e)
          <5>1. /\ e.by = "phase" => StageNo(e.phase) < StageNo(before)
                /\ e.by = "composition" => StageNo("composing") < StageNo(before)
            BY <1>2, <3>1, <4>4 DEF RowIsStraight, Exists, Phases, Cites
          <5>2. e.by = "phase" => StageNo(e.phase) \in Int
            <6>1. \A status \in Phases \cup {"none"} : StageNo(status) \in Int
              BY DEF StageNo, StageOf, Phases
            <6>2. PICK j \in DOMAIN row[r].evidence : row[r].evidence[j] = e
              BY <4>4 DEF Cites
            <6>3. row[r].evidence \in Seq(Evidence)
              BY <1>0 DEF TypeOK, Row
            <6>4. e \in Evidence
              BY <6>2, <6>3
            <6>5. e.phase \in Phases \cup {"none"}
              BY <6>4 DEF Evidence
            <6> QED
              BY <6>1, <6>5
          <5> QED
            BY <3>4, <4>1, <5>1, <5>2
        <4> QED
          BY <4>2, <4>3, <4>4
      <3>8. row'[r].status = next
        BY <3>2 DEF RowAppended
      <3> QED
        BY <3>3, <3>6, <3>7, <3>8 DEF RowIsStraight
    <2>5. ASSUME NEW c \in Callers, NEW evidence, Answers(c, r, evidence)
          PROVE  FALSE
      BY <1>2, <2>5 DEF Answers, RowIsStraight, Exists
    <2> QED
      BY <2>1, <2>2, <2>3, <2>4, <2>5
  <1>3. CASE ~NeedsNoDecision(r)
    BY <1>3 DEF RowIsStraight, NeedsNoDecision, CandidatesOf
  <1> QED
    BY <1>1, <1>2, <1>3

\* A thread has taken no more laps than its run has revisions, so that it comes to the
\* end of a run that needs no decision before it comes to the ceiling.
LapsCount(w) ==
  worker[w].pc # "idle" =>
    LET r == RunOf(w) IN
    /\ worker[w].pc = "reading" => worker[w].laps < row[r].revision
    /\ worker[w].pc \notin {"reading", "returning"} => worker[w].laps <= worker[w].revision
    /\ NeedsNoDecision(r) /\ worker[w].pc = "returning" =>
         worker[w].status \in Settled /\ row[r].status \in {"ready", "failed"}

Straight ==
  /\ Inductive /\ PlainAreClosed /\ AllAsk /\ FuturesExist
  /\ \A r \in Runs : RowIsStraight(r)
  /\ \A w \in Workers : LapsCount(w)

\* What is settled is not reopened.
LEMMA EndsStay ==
  ASSUME Inductive, [Next]_vars, NEW r \in Runs, row[r].status \in {"ready", "failed"}
  PROVE  row'[r] = row[r]
  <1>0. TypeOK
    BY DEF Inductive, ReadsInductive
  <1>1. SUFFICES ASSUME row'[r] # row[r] PROVE FALSE
    OBVIOUS
  <1>2. PICK s \in Runs : \/ Opens(s)
                         \/ (\E w \in Workers : \E next, evidence, cards : Drives(w, s, next, evidence, cards))
                         \/ \E c \in Callers : \E evidence : Answers(c, s, evidence)
    BY <1>1, RowSteps DEF Inductive
  <1>3. s = r
    BY <1>0, <1>1, <1>2 DEF TypeOK, Opens, Drives, Answers
  <1> QED
    BY <1>2, <1>3 DEF Opens, Drives, Answers, Phases

\* A thread that does nothing keeps to its laps.
LEMMA LapsKept ==
  ASSUME Straight, [Next]_vars, NEW w \in Workers, worker'[w] = worker[w]
  PROVE  LapsCount(w)'
  <1>0. TypeOK /\ worker[w] \in WorkerFields
    BY WorkerStatesAre DEF Straight, Inductive, ReadsInductive, TypeOK
  <1>1. CASE worker[w].pc = "idle"
    BY <1>1 DEF LapsCount
  <1>2. CASE worker[w].pc # "idle"
    <2>1. PICK r \in Runs : r = worker[w].ticket.run /\ r = RunOf(w)
      BY <1>0, <1>2, ThreadRun
    <2>2. row'[r].revision >= row[r].revision /\ row[r].revision \in Nat /\ row'[r].revision \in Nat
      BY RowsRemain DEF Straight
    <2>3. row[r].status \in {"ready", "failed"} => row'[r] = row[r]
      BY EndsStay DEF Straight
    <2>4. worker[w].laps \in Nat
      BY <1>0 DEF WorkerFields
    <2>5. LapsCount(w)
      BY DEF Straight
    <2>6. worker[w].pc = "reading" => worker[w].laps < row'[r].revision
      BY <1>2, <2>1, <2>2, <2>4, <2>5 DEF LapsCount
    <2> QED
      BY <1>2, <2>1, <2>3, <2>5, <2>6 DEF LapsCount, RunOf, NeedsNoDecision, CandidatesOf
  <1> QED
    BY <1>1, <1>2

\* A busy thread has a run, of a known revision, that it has read at its own.
LEMMA BusyThread ==
  ASSUME Straight, NEW w \in Workers, worker[w].pc # "idle"
  PROVE  \E r \in Runs :
           /\ r = worker[w].ticket.run /\ r = RunOf(w) /\ Exists(r)
           /\ row[r].revision \in Nat \ {0} /\ worker[w].laps \in Nat /\ worker[w].revision \in Nat
           /\ worker[w].revision <= row[r].revision
           /\ worker[w].revision = row[r].revision => worker[w].status = row[r].status
  <1>0. TypeOK /\ worker[w] \in WorkerFields /\ RevisionsCount /\ WorkerReadOK(w)
    BY WorkerStatesAre DEF Straight, Inductive, ReadsInductive, TypeOK
  <1>1. PICK r \in Runs : r = worker[w].ticket.run /\ r = RunOf(w)
    BY <1>0, ThreadRun
  <1>2. Home[w] \in Helpers /\ worker[w].ticket \in Pending(Home[w])
    BY ConstantsAssumption DEF ConstantsAssumption, Pending
  <1>3. Exists(r)
    BY <1>1, <1>2 DEF Straight, FuturesExist
  <1>4. row[r].revision \in Nat \ {0}
    BY <1>0, <1>3 DEF RevisionsCount, Exists, TypeOK, Row
  <1>5. worker[w].laps \in Nat /\ worker[w].revision \in Nat
    BY <1>0 DEF WorkerFields
  <1> QED
    BY <1>0, <1>1, <1>3, <1>4, <1>5 DEF WorkerReadOK

\* What a thread decides for a run that needs no decision is accepted, unless the run
\* has moved on.
LEMMA StraightAdvances ==
  ASSUME Straight, NEW w \in Workers, worker[w].pc = "advancing", NEW r \in Runs,
         r = worker[w].ticket.run, NeedsNoDecision(r), Current(r, worker[w].revision)
  PROVE  /\ MayAdvance(row[r], worker[w].outcome.next, worker[w].outcome.evidence)
         /\ worker[w].outcome.next # "needs_attention"
  <1> DEFINE next == worker[w].outcome.next
             evidence == worker[w].outcome.evidence
             status == worker[w].status
  <1>0. TypeOK
    BY DEF Straight, Inductive, ReadsInductive
  <1>1. status \in Phases /\ row[r].status = status
    BY <1>0, BusyThread, HandlerFacts DEF Current
  <1>2. next \in Transitions[status] /\ next # "needs_attention"
    BY DEF Straight, AllAsk, LocalsAsk
  <1>3. status \in DOMAIN Transitions
    BY <1>1 DEF Phases, Transitions
  <1>4. IsEvidenceOf(evidence, status, next)
    BY DEF Straight, Inductive, Backed, LocalsBacked
  <1>5. StageNo(status) \in 1..6
    BY <1>1, <1>2, StagesFollow
  <1> HIDE DEF evidence, status, next
  <1>6. ~Cites(row[r], evidence)
    <2> SUFFICES ASSUME Cites(row[r], evidence) PROVE FALSE
      OBVIOUS
    <2>1. /\ evidence.by = "phase" => StageNo(evidence.phase) < StageNo(status)
          /\ evidence.by = "composition" => StageNo("composing") < StageNo(status)
      BY <1>1 DEF Straight, RowIsStraight, Exists, Phases, Cites
    <2> QED
      BY <1>4, <1>5, <2>1 DEF IsEvidenceOf
  <1>7. MayAdvance(row[r], next, evidence)
    BY <1>1, <1>2, <1>3, <1>6 DEF MayAdvance
  <1> QED
    BY <1>2, <1>7 DEF next, evidence

LEMMA ReadingCounts ==
  ASSUME LapCeiling > 6, Straight, NEW w \in Workers, ReadRun(w)
  PROVE  LapsCount(w)'
  <1>0. TypeOK /\ worker[w] \in WorkerFields
    BY WorkerStatesAre DEF Straight, Inductive, ReadsInductive, TypeOK
  <1>1. worker[w].pc = "reading" /\ row' = row
    BY DEF ReadRun, rowVars
  <1>2. PICK r \in Runs : /\ r = worker[w].ticket.run /\ r = RunOf(w) /\ Exists(r)
                          /\ row[r].revision \in Nat \ {0} /\ worker[w].laps \in Nat
    BY <1>1, BusyThread
  <1> DEFINE current == row[r]
  <1>3. worker[w].laps < current.revision
    BY <1>1, <1>2 DEF Straight, LapsCount
  <1>4. CASE AtCeiling(w) \/ current.status = "absent"
    <2>1. ~NeedsNoDecision(r)
      <3>1. SUFFICES ASSUME NeedsNoDecision(r) PROVE FALSE
        OBVIOUS
      <3>2. current.revision <= StageNo(current.status)
        BY <1>2, <3>1 DEF Straight, RowIsStraight
      <3>3. StageNo(current.status) \in 1..7
        BY DEF StageNo, StageOf, Phases
      <3>4. worker[w].laps = LapCeiling /\ LapCeiling \in Nat
        BY <1>2, <1>4, ConstantsAssumption DEF AtCeiling, Exists, ConstantsAssumption
      <3>5. current.revision \in Nat
        BY <1>2
      <3> HIDE DEF current
      <3> QED
        BY <1>2, <1>3, <3>2, <3>3, <3>4, <3>5
    <2>2. Goto(w, "returning")
      BY <1>2, <1>4 DEF ReadRun
    <2>3. PICK x : x = [worker[w] EXCEPT !.pc = "returning"]
      OBVIOUS
    <2>4. x.pc = "returning" /\ x.ticket = worker[w].ticket
      BY <1>0, <2>3 DEF WorkerFields
    <2>5. worker'[w] = x
      BY <1>0, <2>2, <2>3 DEF Goto, TypeOK
    <2> QED
      BY <1>2, <2>1, <2>4, <2>5 DEF LapsCount, RunOf, NeedsNoDecision, CandidatesOf
  <1>5. CASE ~(AtCeiling(w) \/ current.status = "absent")
    <2>1. PICK x : x = [worker[w] EXCEPT
                          !.pc = IF current.status \in Settled THEN "returning" ELSE "handling",
                          !.laps = worker[w].laps + 1, !.status = current.status,
                          !.revision = current.revision]
      OBVIOUS
    <2>2. /\ x.pc = IF current.status \in Settled THEN "returning" ELSE "handling"
          /\ x.laps = worker[w].laps + 1 /\ x.status = current.status
          /\ x.revision = current.revision /\ x.ticket = worker[w].ticket
      BY <1>0, <2>1 DEF WorkerFields
    <2>3. worker'[w] = x
      BY <1>0, <1>2, <1>5, <2>1 DEF ReadRun, TypeOK
    <2>4. x.laps <= x.revision
      BY <1>2, <1>3, <2>2
    <2>5. NeedsNoDecision(r) /\ current.status \in Settled => current.status \in {"ready", "failed"}
      BY <1>2 DEF Straight, RowIsStraight, Settled
    <2>6. x.pc \in {"returning", "handling"} /\ (x.pc = "returning" => current.status \in Settled)
      BY <2>2
    <2>7. row'[r].status = current.status
      BY <1>1
    <2> HIDE DEF current
    <2>8. /\ worker'[w].ticket.run = r /\ worker'[w].pc \in {"returning", "handling"}
          /\ worker'[w].pc = "returning" => worker'[w].status \in Settled
          /\ worker'[w].pc = "returning" /\ NeedsNoDecision(r) => row'[r].status \in {"ready", "failed"}
          /\ worker'[w].laps <= worker'[w].revision
      BY <1>2, <2>2, <2>3, <2>4, <2>5, <2>6, <2>7
    <2> QED
      BY <2>8 DEF LapsCount, RunOf, NeedsNoDecision, CandidatesOf
  <1> QED
    BY <1>4, <1>5

LEMMA AdvancingCounts ==
  ASSUME Straight, NEW w \in Workers, AdvanceRun(w)
  PROVE  LapsCount(w)'
  <1>0. TypeOK /\ worker[w] \in WorkerFields
    BY WorkerStatesAre DEF Straight, Inductive, ReadsInductive, TypeOK
  <1>1. worker[w].pc = "advancing" /\ worker[w].pc # "idle"
    BY DEF AdvanceRun
  <1>2. PICK r \in Runs : /\ r = worker[w].ticket.run /\ r = RunOf(w)
                          /\ row[r].revision \in Nat /\ worker[w].laps \in Nat
                          /\ worker[w].revision \in Nat /\ worker[w].revision <= row[r].revision
    BY <1>1, BusyThread
  <1> DEFINE done == worker[w].outcome
  <1>3. worker[w].laps <= worker[w].revision
    BY <1>1 DEF Straight, LapsCount
  <1>4. CASE ~Current(r, worker[w].revision)
    <2>1. Goto(w, "reading") /\ row' = row
      BY <1>2, <1>4 DEF AdvanceRun, AfterConflict, rowVars
    <2>2. PICK x : x = [worker[w] EXCEPT !.pc = "reading"]
      OBVIOUS
    <2>3. x.pc = "reading" /\ x.ticket = worker[w].ticket /\ x.laps = worker[w].laps
      BY <1>0, <2>2 DEF WorkerFields
    <2>4. worker'[w] = x
      BY <1>0, <2>1, <2>2 DEF Goto, TypeOK
    <2>5. worker[w].laps < row[r].revision
      BY <1>2, <1>3, <1>4 DEF Current
    <2> QED
      BY <1>2, <2>1, <2>3, <2>4, <2>5 DEF LapsCount, RunOf
  <1>5. CASE Current(r, worker[w].revision) /\ ~MayAdvance(row[r], done.next, done.evidence)
    <2>1. Goto(w, "returning") /\ row' = row
      BY <1>2, <1>5 DEF AdvanceRun, rowVars
    <2>2. ~NeedsNoDecision(r)
      BY <1>1, <1>2, <1>5, StraightAdvances
    <2>3. PICK x : x = [worker[w] EXCEPT !.pc = "returning"]
      OBVIOUS
    <2>4. x.pc = "returning" /\ x.ticket = worker[w].ticket
      BY <1>0, <2>3 DEF WorkerFields
    <2>5. worker'[w] = x
      BY <1>0, <2>1, <2>3 DEF Goto, TypeOK
    <2> QED
      BY <1>2, <2>2, <2>4, <2>5 DEF LapsCount, RunOf, NeedsNoDecision, CandidatesOf
  <1>6. CASE Current(r, worker[w].revision) /\ MayAdvance(row[r], done.next, done.evidence)
    <2> DEFINE bundle == [phase |-> worker[w].status, cards |-> done.cards]
    <2>1. row' = [row EXCEPT ![r] = Advanced(@, done.next, done.evidence, bundle)]
      BY <1>2, <1>6 DEF AdvanceRun
    <2>2. PICK x : x = [worker[w] EXCEPT !.pc = IF done.next \in Settled THEN "returning" ELSE "reading",
                                         !.status = done.next, !.revision = row[r].revision + 1]
      OBVIOUS
    <2>3. worker'[w] = x
      BY <1>0, <1>2, <1>6, <2>2 DEF AdvanceRun, TypeOK
    <2> HIDE DEF bundle
    <2>4. /\ x.pc = IF done.next \in Settled THEN "returning" ELSE "reading"
          /\ x.status = done.next /\ x.laps = worker[w].laps /\ x.ticket = worker[w].ticket
      BY <1>0, <2>2 DEF WorkerFields
    <2>5. row'[r].revision = row[r].revision + 1 /\ row'[r].status = done.next
      <3>1. RowAppended(r, done.next, done.evidence, bundle)
        BY <1>0, <2>1, RowAppends
      <3> QED
        BY <3>1 DEF RowAppended
    <2>6. worker[w].laps < row'[r].revision
      BY <1>2, <1>3, <2>5
    <2>7. NeedsNoDecision(r) => done.next # "needs_attention"
      BY <1>1, <1>2, <1>6, StraightAdvances
    <2> HIDE DEF done
    <2>8. /\ worker'[w].ticket.run = r /\ worker'[w].pc \in {"returning", "reading"}
          /\ worker'[w].pc = "returning" => worker'[w].status \in Settled
          /\ worker'[w].pc = "returning" /\ NeedsNoDecision(r) => row'[r].status \in {"ready", "failed"}
          /\ worker'[w].laps < row'[r].revision
      BY <1>2, <2>3, <2>4, <2>5, <2>6, <2>7 DEF Settled
    <2> QED
      BY <2>8 DEF LapsCount, RunOf, NeedsNoDecision, CandidatesOf
  <1> QED
    BY <1>4, <1>5, <1>6

LEMMA LapsCountStep ==
  ASSUME LapCeiling > 6, Straight, [Next]_vars, NEW w \in Workers
  PROVE  LapsCount(w)'
  <1>0. TypeOK /\ worker \in [Workers -> WorkerStates]
    BY DEF Straight, Inductive, ReadsInductive, TypeOK
  <1>1. CASE worker'[w] = worker[w]
    BY <1>1, LapsKept
  <1>2. CASE worker'[w] = IdleWorker
    BY <1>2 DEF LapsCount, IdleWorker
  <1>3. ASSUME NEW v \in Workers, WorkerStep(v) PROVE LapsCount(w)'
    <2>1. CASE v # w
      <3>1. worker'[w] = worker[w]
        <4>1. CASE PhaseStep(v)
          BY <2>1, <4>1, <1>0, HandlerReads
        <4>2. CASE TakeTicket(v) \/ ReadRun(v) \/ AdvanceRun(v) \/ Finish(v)
          BY <1>0, <2>1, <4>2 DEF TakeTicket, ReadRun, AdvanceRun, Finish, Goto
        <4> QED
          BY <1>3, <4>1, <4>2 DEF WorkerStep
      <3> QED
        BY <1>1, <3>1
    <2>2. CASE v = w /\ PhaseStep(w)
      <3>1. /\ worker'[w].pc \notin {"idle", "reading", "returning"}
            /\ worker'[w].laps = worker[w].laps
        BY <1>0, <2>2, HandlerStaysBusy
      <3>2. worker'[w].revision = worker[w].revision /\ worker[w].pc # "idle"
        BY <1>0, <2>2, HandlerReads DEF SameRead
      <3>3. worker[w].pc \notin {"reading", "returning"}
        BY <2>2 DEF PhaseStep, StartPhase, ImportPhase, OrganizePhase, OrganizeCard, CloseSafeTask,
             PublishCard, OrganizeEnd, EnqueueIndex, AdoptClaim, ClaimIndex, CompleteIndex,
             IndexEnd, MeetReplaced, ComposePhase, OutlinePhase, AssignVisualsPhase, ValidatePhase, InHandler
      <3>4. worker[w].laps <= worker[w].revision
        BY <3>2, <3>3 DEF Straight, LapsCount
      <3> QED
        BY <3>1, <3>2, <3>4 DEF LapsCount
    <2>3. CASE v = w /\ TakeTicket(w)
      <3>1. worker'[w].pc = "reading" /\ worker'[w].laps = 0
        <4>1. \A t : /\ [IdleWorker EXCEPT !.pc = "reading", !.ticket = t].pc = "reading"
                     /\ [IdleWorker EXCEPT !.pc = "reading", !.ticket = t].laps = 0
                     /\ [IdleWorker EXCEPT !.pc = "reading", !.ticket = t].ticket = t
          BY DEF IdleWorker
        <4>2. worker'[w] = [IdleWorker EXCEPT !.pc = "reading", !.ticket = Head(queue[Home[w]])]
          BY <1>0, <2>3 DEF TakeTicket
        <4> QED
          BY <4>1, <4>2
      <3>2. FuturesExist' /\ TypeOK' /\ RevisionsCount'
        BY FuturesExistStep, InductiveStep DEF Straight, Inductive, ReadsInductive
      <3>3. PICK r \in Runs : r = worker'[w].ticket.run
        BY <3>1, <3>2 DEF TypeOK, WorkerStates, Ticket
      <3>4. worker'[w].ticket \in Pending(Home[w])' /\ Home[w] \in Helpers
        BY <3>1, ConstantsAssumption DEF ConstantsAssumption, Pending
      <3>5. Exists(r)'
        BY <3>2, <3>3, <3>4 DEF FuturesExist, Exists
      <3>6. row'[r].revision \in Nat /\ row'[r].revision # 0
        BY <3>2, <3>5 DEF RevisionsCount, Exists, TypeOK, Row
      <3> QED
        BY <3>1, <3>3, <3>6 DEF LapsCount, RunOf
    <2>4. CASE v = w /\ (ReadRun(w) \/ AdvanceRun(w))
      BY <2>4, ReadingCounts, AdvancingCounts
    <2>5. CASE v = w /\ Finish(w)
      BY <1>0, <1>2, <2>5 DEF Finish
    <2> QED
      BY <1>3, <2>1, <2>2, <2>3, <2>4, <2>5 DEF WorkerStep
  <1>4. ASSUME NEW c \in Callers, CallStep(c) \/ User(c) PROVE LapsCount(w)'
    <2>1. worker' = worker
      BY <1>4 DEF CallStep, User, SubmitCreate, SubmitResolve, CreateRun, ReadAttention,
                  AnswerTask, RecordResolution, ResumeRun, StartRun, OnlyCall
    <2> QED
      BY <1>1, <2>1
  <1>5. ASSUME NEW h \in Helpers,
               Callback(h) \/ Boot(h) \/ Bind(h) \/ Close(h) \/ Exit(h) \/ Crash(h) \/ OtherJob(h)
        PROVE  LapsCount(w)'
    <2>1. worker'[w] = worker[w] \/ worker'[w] = IdleWorker
      BY <1>5 DEF Callback, Forget, Boot, Bind, Close, Exit, Crash, OtherJob, Vanish
    <2> QED
      BY <1>1, <1>2, <2>1
  <1>6. CASE UNCHANGED vars
    BY <1>1, <1>6 DEF vars
  <1> QED
    BY <1>3, <1>4, <1>5, <1>6 DEF Next

LEMMA StraightStep ==
  ASSUME LapCeiling > 6, Straight, [Next]_vars
  PROVE  Straight'
  <1>1. Inductive' /\ TypeOK /\ Backed
    BY InductiveStep DEF Straight, Inductive, ReadsInductive
  <1>2. PlainAreClosed' /\ AllAsk'
    BY <1>1, AsksStep DEF Straight
  <1>3. FuturesExist'
    BY FuturesExistStep DEF Straight
  <1>4. \A r \in Runs : RowIsStraight(r)'
    BY RowsStraight DEF Straight
  <1>5. \A w \in Workers : LapsCount(w)'
    BY LapsCountStep
  <1> QED
    BY <1>1, <1>2, <1>3, <1>4, <1>5 DEF Straight

LEMMA StraightInit == Init => Straight
  <1> SUFFICES ASSUME Init PROVE Straight
    OBVIOUS
  <1>1. Inductive /\ PlainAreClosed /\ AllAsk
    BY InductiveInit, QuestionsInit DEF Questions
  <1>2. ToSet(<< >>) = {}
    BY DEF ToSet
  <1>3. FuturesExist
    BY <1>2 DEF Init, FuturesExist, Pending, IdleWorker, IdleCall
  <1>4. \A r \in Runs : RowIsStraight(r)
    BY DEF Init, RowIsStraight, AbsentRow, Exists
  <1>5. \A w \in Workers : LapsCount(w)
    BY DEF Init, LapsCount, IdleWorker
  <1> QED
    BY <1>1, <1>3, <1>4, <1>5 DEF Straight

\* A call of resume_personal_course for a run that needs no decision ends only when the
\* run is ready or failed, whatever other processes do to the run meanwhile: a lap is
\* lost only to a lap of another that was not, and there are fewer stages than laps.
THEOREM StraightRunsEndSettled ==
  LapCeiling > 6 =>
    (Spec => [](\A w \in Workers : worker[w].pc = "returning" /\ NeedsNoDecision(RunOf(w)) =>
                  worker[w].status \in Settled /\ row[RunOf(w)].status \in {"ready", "failed"}))
<1> SUFFICES ASSUME LapCeiling > 6
             PROVE  Spec => [](\A w \in Workers :
                      worker[w].pc = "returning" /\ NeedsNoDecision(RunOf(w)) =>
                        worker[w].status \in Settled /\ row[RunOf(w)].status \in {"ready", "failed"})
  OBVIOUS
<1>1. Init => Straight
  BY StraightInit
<1>2. Straight /\ [Next]_vars => Straight'
  BY StraightStep
<1>3. Straight => \A w \in Workers :
                    worker[w].pc = "returning" /\ NeedsNoDecision(RunOf(w)) =>
                      worker[w].status \in Settled /\ row[RunOf(w)].status \in {"ready", "failed"}
  BY DEF Straight, LapsCount
<1> QED
  BY <1>1, <1>2, <1>3, PTL DEF Spec

\* Where no run needs a decision, a call of resume_personal_course returns a settled run.
THEOREM ResumeEndsSettled ==
  LapCeiling > 6 /\ (\A r \in Runs : NeedsNoDecision(r)) => (Spec => []ResumeRunsUntilSettled)
<1> SUFFICES ASSUME LapCeiling > 6, \A r \in Runs : NeedsNoDecision(r)
             PROVE  Spec => []ResumeRunsUntilSettled
  OBVIOUS
<1>1. Init => Straight
  BY StraightInit
<1>2. Straight /\ [Next]_vars => Straight'
  BY StraightStep
<1>3. Straight => ResumeRunsUntilSettled
  <2> SUFFICES ASSUME Straight, NEW w \in Workers, worker[w].pc = "returning"
               PROVE  worker[w].status \in Settled
    BY DEF ResumeRunsUntilSettled
  <2>1. RunOf(w) \in Runs
    BY BusyThread
  <2> QED
    BY <2>1 DEF Straight, LapsCount
<1> QED
  BY <1>1, <1>2, <1>3, PTL DEF Spec

-----------------------------------------------------------------------------
(* A run that needs no decision is always in somebody's hands.             *)

\* The entries of _active are under their own runs.
ActiveIsOwn == \A h \in Helpers : \A r \in Runs : active[h][r] = NoTicket \/ active[h][r].run = r

\* A request in progress is of a process whose server answers.
CallsAreServed == \A c \in Callers : call[c].pc # "idle" => Listening(Home[c])

HasFuture(r) == \E h \in Helpers : \E future \in Pending(h) : future.run = r
IsStarting(r) == \E c \in Callers : call[c].run = r /\ call[c].pc = "starting"
NobodyAccepts == \A h \in Helpers : mode[h] \notin {"booting", "up"}

Attended(r) == row[r].status \in Phases => HasFuture(r) \/ IsStarting(r) \/ NobodyAccepts

Attending ==
  /\ Straight /\ TouchedOnce /\ ActiveIsOwn /\ CallsAreServed
  /\ \A r \in Runs : NeedsNoDecision(r) => Attended(r)

LEMMA ActiveIsOwnStep ==
  ASSUME TypeOK, ActiveIsOwn, [Next]_vars
  PROVE  ActiveIsOwn'
  <1>0. active \in [Helpers -> [Runs -> Ticket \cup {NoTicket}]]
    BY DEF TypeOK
  <1>1. CASE UNCHANGED active
    BY <1>1 DEF ActiveIsOwn
  <1>2. ASSUME NEW w \in Workers, WorkerStep(w) PROVE UNCHANGED active
    <2>1. CASE PhaseStep(w) \/ ReadRun(w) \/ AdvanceRun(w)
      BY <2>1, ThreadKeepsFuture DEF TypeOK, poolVars
    <2> QED
      BY <1>2, <2>1 DEF WorkerStep, TakeTicket, Finish
  <1>3. ASSUME NEW c \in Callers, CallStep(c) \/ User(c) PROVE ActiveIsOwn'
    <2>1. CASE StartRun(c) /\ ~UNCHANGED active
      <3>1. Start(Home[c], call[c].run, "owner")
        BY <2>1 DEF StartRun
      <3>2. PICK future : /\ future.run = call[c].run
                          /\ active' = [active EXCEPT ![Home[c]][call[c].run] = future]
        BY <2>1, <3>1 DEF Start
      <3> QED
        BY <1>0, <3>2 DEF ActiveIsOwn
    <2> QED
      BY <1>1, <1>3, <2>1 DEF CallStep, User, SubmitCreate, SubmitResolve, CreateRun,
           ReadAttention, AnswerTask, RecordResolution, ResumeRun
  <1>4. ASSUME NEW h \in Helpers,
               Callback(h) \/ Boot(h) \/ Bind(h) \/ Close(h) \/ Exit(h) \/ Crash(h) \/ OtherJob(h)
        PROVE  ActiveIsOwn'
    <2>1. CASE Callback(h)
      <3>1. PICK r : active' = active \/ active' = [active EXCEPT ![h][r] = NoTicket]
        BY <2>1 DEF Callback, Forget
      <3>2. ASSUME NEW g \in Helpers, NEW s \in Runs, active' = [active EXCEPT ![h][r] = NoTicket]
            PROVE  active'[g][s] = active[g][s] \/ active'[g][s] = NoTicket
        BY <1>0, <3>2
      <3>3. ASSUME NEW g \in Helpers, NEW s \in Runs
            PROVE  active'[g][s] = NoTicket \/ active'[g][s].run = s
        <4>1. active'[g][s] = active[g][s] \/ active'[g][s] = NoTicket
          BY <3>1, <3>2
        <4>2. active[g][s] = NoTicket \/ active[g][s].run = s
          BY DEF ActiveIsOwn
        <4> QED
          BY <4>1, <4>2
      <3> QED
        BY <3>3 DEF ActiveIsOwn
    <2>2. CASE Boot(h)
      <3>1. PICK order \in ResumeOrders, n \in TicketNumbers :
              active' = [active EXCEPT ![h] = [r \in Runs |->
                           IF r \in Range(order)
                           THEN [run |-> r, actor |-> "system", number |-> n] ELSE NoTicket]]
        BY <2>2, Zenon DEF Boot
      <3> QED
        BY <1>0, <3>1 DEF ActiveIsOwn
    <2>3. CASE Exit(h) \/ Crash(h)
      <3>1. active' = [active EXCEPT ![h] = [r \in Runs |-> NoTicket]]
        BY <2>3 DEF Exit, Crash, Vanish
      <3> QED
        BY <1>0, <3>1 DEF ActiveIsOwn
    <2>4. CASE Bind(h) \/ Close(h)
      BY <1>1, <2>4 DEF Bind, Close
    <2>5. CASE OtherJob(h)
      BY <1>1, <2>5 DEF OtherJob, poolVars
    <2> QED
      BY <1>4, <2>1, <2>2, <2>3, <2>4, <2>5
  <1>5. CASE UNCHANGED vars
    BY <1>1, <1>5 DEF vars
  <1> QED
    BY <1>1, <1>2, <1>3, <1>4, <1>5 DEF Next

LEMMA WorkersKeepRequests ==
  ASSUME TypeOK, NEW w \in Workers, WorkerStep(w)
  PROVE  UNCHANGED <<mode, call>>
  <1>1. CASE PhaseStep(w) \/ ReadRun(w) \/ AdvanceRun(w)
    BY <1>1, ThreadKeepsFuture DEF poolVars
  <1> QED
    BY <1>1 DEF WorkerStep, TakeTicket, Finish

LEMMA CallsAreServedStep ==
  ASSUME TypeOK, CallsAreServed, [Next]_vars
  PROVE  CallsAreServed'
  <1>0. /\ mode \in [Helpers -> Modes] /\ call \in [Callers -> CallStates]
        /\ \A c \in Callers : Home[c] \in Helpers
    BY ConstantsAssumption DEF TypeOK, ConstantsAssumption
  <1>1. CASE UNCHANGED <<mode, call>>
    BY <1>1 DEF CallsAreServed, Listening
  <1>2. ASSUME NEW w \in Workers, WorkerStep(w) PROVE UNCHANGED <<mode, call>>
    BY <1>2, WorkersKeepRequests
  <1>3. ASSUME NEW c \in Callers, CallStep(c) \/ User(c) PROVE CallsAreServed'
    <2>1. mode' = mode /\ \A d \in Callers : d # c => call'[d] = call[d]
      BY <1>0, <1>3 DEF CallStep, User, SubmitCreate, SubmitResolve, CreateRun, ReadAttention,
           AnswerTask, RecordResolution, ResumeRun, StartRun, EndCall, OnlyCall
    <2>2. call[c].pc # "idle" \/ Listening(Home[c])
      BY <1>3 DEF CallStep, User, SubmitCreate, SubmitResolve, CreateRun, ReadAttention,
           AnswerTask, RecordResolution, ResumeRun, StartRun
    <2> QED
      BY <2>1, <2>2 DEF CallsAreServed, Listening
  <1>4. ASSUME NEW h \in Helpers,
               Callback(h) \/ Boot(h) \/ Bind(h) \/ Close(h) \/ Exit(h) \/ Crash(h) \/ OtherJob(h)
        PROVE  CallsAreServed'
    <2>1. CASE Callback(h)
      BY <1>1, <2>1 DEF Callback, Forget
    <2>2. CASE Boot(h) \/ Bind(h) \/ Close(h)
      <3>1. /\ call' = call /\ \A g \in Helpers : g # h => mode'[g] = mode[g]
            /\ Listening(h) => mode'[h] = "closing"
        BY <1>0, <2>2 DEF Boot, Bind, Close, Listening
      <3> QED
        BY <1>0, <3>1 DEF CallsAreServed, Listening
    <2>3. CASE Exit(h) \/ Crash(h)
      <3>1. /\ mode' = [mode EXCEPT ![h] = "down"]
            /\ call' = [c \in Callers |-> IF Home[c] = h THEN IdleCall ELSE call[c]]
        BY <2>3 DEF Exit, Crash, Vanish
      <3> QED
        BY <1>0, <3>1 DEF CallsAreServed, Listening, IdleCall
    <2>4. CASE OtherJob(h)
      BY <1>1, <2>4 DEF OtherJob, poolVars
    <2> QED
      BY <1>4, <2>1, <2>2, <2>3, <2>4
  <1>5. CASE UNCHANGED vars
    BY <1>1, <1>5 DEF vars
  <1> QED
    BY <1>1, <1>2, <1>3, <1>4, <1>5 DEF Next

\* A process that boots, and is not obliged to leave runs for later, resumes all.
LEMMA BootResumesAll ==
  ASSUME TypeOK, TouchedOnce, Cardinality(Runs) <= ResumeLimit,
         NEW order \in ResumeOrders, NEW r \in Runs, Resumable(r)
  PROVE  \E i \in DOMAIN order : order[i] = r
  <1> DEFINE pending == {s \in Runs : Resumable(s)}
             size == IF Cardinality(pending) <= ResumeLimit
                     THEN Cardinality(pending) ELSE ResumeLimit
  <1>1. IsFiniteSet(pending) /\ Cardinality(pending) <= Cardinality(Runs) /\ IsFiniteSet(Runs)
    BY ConstantsAssumption, FS_Subset DEF ConstantsAssumption
  <1>2. Cardinality(pending) \in Nat /\ Cardinality(Runs) \in Nat
    BY <1>1, FS_CardinalityType
  <1>3. size = Cardinality(pending) /\ size \in Nat
    BY <1>1, <1>2, ConstantsAssumption DEF ConstantsAssumption
  <1>4. /\ order \in [1..size -> pending]
        /\ \A i, j \in 1..size : i < j => Earlier(order[i], order[j])
    BY DEF ResumeOrders
  <1> HIDE DEF size
  <1>5. \A i, j \in 1..size : order[i] = order[j] => i = j
    <2>1. \A s : ~Earlier(s, s)
      <3>1. DOMAIN touched = 1..Len(touched) /\ Len(touched) \in Nat
        BY DEF TypeOK
      <3> QED
        BY <3>1 DEF Earlier, TouchedOnce
    <2>2. \A i, j \in 1..size : i < j \/ j < i \/ i = j
      BY <1>3
    <2> QED
      BY <1>4, <2>1, <2>2
  <1>6. r \in pending
    OBVIOUS
  <1> HIDE DEF pending
  <1>7. order \in Injection(1..size, pending)
    BY <1>4, <1>5 DEF Injection, IsInjective
  <1>8. Cardinality(1..size) = Cardinality(pending)
    BY <1>3, FS_Interval
  <1>9. order \in Surjection(1..size, pending)
    BY <1>1, <1>7, <1>8, FS_Injection
  <1> QED
    BY <1>4, <1>6, <1>9 DEF Surjection

\* A request that opens a run, or resumes it, starts it.
LEMMA RequestsStart ==
  ASSUME TypeOK, NEW c \in Callers, CallStep(c) \/ User(c), NEW r \in Runs, row'[r] # row[r]
  PROVE  IsStarting(r)'
  <1>0. call \in [Callers -> CallStates] /\ row \in [Runs -> Row]
    BY DEF TypeOK
  <1>1. CreateRun(c) \/ ResumeRun(c)
    BY DEF CallStep, User, SubmitCreate, SubmitResolve, ReadAttention, AnswerTask,
           RecordResolution, StartRun, rowVars
  <1>2. PICK s : s = call[c].run
    OBVIOUS
  <1>3. \A x : row' = [row EXCEPT ![s] = x] => s = r
    BY <1>0
  <1>4. s = r /\ call' = [call EXCEPT ![c] = [@ EXCEPT !.pc = "starting"]]
    BY <1>1, <1>2, <1>3 DEF CreateRun, ResumeRun, rowVars
  <1>5. call'[c].pc = "starting" /\ call'[c].run = r
    BY <1>0, <1>2, <1>4 DEF CallStates
  <1> QED
    BY <1>5 DEF IsStarting

LEMMA WorkersAttend ==
  ASSUME Attending, NEW w \in Workers, WorkerStep(w), NEW r \in Runs, NeedsNoDecision(r),
         TypeOK'
  PROVE  Attended(r)'
  <1>0. TypeOK /\ Attended(r) /\ UNCHANGED <<mode, call>> /\ worker \in [Workers -> WorkerStates]
    BY WorkersKeepRequests DEF Attending, Straight, Inductive, ReadsInductive, TypeOK
  <1>1. Home[w] \in Helpers
    BY ConstantsAssumption DEF ConstantsAssumption
  <1>2. CASE PhaseStep(w) \/ ReadRun(w) \/ AdvanceRun(w)
    <2>1. \A h \in Helpers : \A t : t \in Pending(h)' <=> t \in Pending(h)
      BY <1>0, <1>2, ThreadKeepsFuture, PendingIs DEF PendingIsSomewhere, poolVars
    <2>2. CASE row'[r] = row[r]
      BY <1>0, <2>1, <2>2 DEF Attended, HasFuture, IsStarting, NobodyAccepts
    <2>3. CASE row'[r] # row[r]
      <3>1. AdvanceRun(w)
        BY <1>2, <2>3 DEF PhaseStep, StartPhase, ImportPhase, OrganizePhase, OrganizeCard,
             CloseSafeTask, PublishCard, OrganizeEnd, EnqueueIndex, AdoptClaim, ClaimIndex,
             CompleteIndex, IndexEnd, MeetReplaced, ComposePhase, OutlinePhase, AssignVisualsPhase,
             ValidatePhase, OnlyWorker, ReadRun, rowVars
      <3>2. worker[w].pc # "idle" /\ RunOf(w) = r
        BY <1>0, <2>3, <3>1 DEF AdvanceRun, TypeOK, rowVars
      <3>3. worker[w].ticket \in Pending(Home[w]) /\ worker[w].ticket.run = r
        BY <1>1, <3>2 DEF Pending, RunOf
      <3> QED
        BY <1>1, <2>1, <3>3 DEF Attended, HasFuture
    <2> QED
      BY <2>2, <2>3
  <1>3. CASE TakeTicket(w)
    <2>1. /\ queue[Home[w]] # << >> /\ queue[Home[w]] \in Seq(Ticket) /\ worker[w].pc = "idle"
          /\ queue' = [queue EXCEPT ![Home[w]] = Tail(@)] /\ row' = row
          /\ worker' = [worker EXCEPT ![w] =
                  [IdleWorker EXCEPT !.pc = "reading", !.ticket = Head(queue[Home[w]])]]
      BY <1>0, <1>1, <1>3 DEF TakeTicket, rowVars, TypeOK
    <2>2. worker'[w].pc = "reading" /\ worker'[w].ticket = Head(queue[Home[w]])
      <3>1. \A x : /\ [IdleWorker EXCEPT !.pc = "reading", !.ticket = x].ticket = x
                   /\ [IdleWorker EXCEPT !.pc = "reading", !.ticket = x].pc = "reading"
        BY DEF IdleWorker
      <3> QED
        BY <1>0, <2>1, <3>1
    <2>3. \A v \in Workers : v # w => worker'[v] = worker[v]
      BY <1>0, <2>1
    <2>4. \A q \in Seq(Ticket) : q # << >> => \A i \in 1..Len(q) :
            q[i] = Head(q) \/ \E j \in 1..Len(Tail(q)) : Tail(q)[j] = q[i]
      <3> SUFFICES ASSUME NEW q \in Seq(Ticket), q # << >>, NEW i \in 1..Len(q), q[i] # Head(q)
                   PROVE  \E j \in 1..Len(Tail(q)) : Tail(q)[j] = q[i]
        OBVIOUS
      <3>1. Len(Tail(q)) = Len(q) - 1 /\ i # 1 /\ Len(q) \in Nat
        OBVIOUS
      <3>2. i - 1 \in 1..Len(Tail(q)) /\ Tail(q)[i - 1] = q[i]
        BY <3>1
      <3> QED
        BY <3>2
    <2>5. ASSUME NEW h \in Helpers, NEW t \in Pending(h) PROVE t \in Pending(h)'
      <3>1. CASE \E i \in 1..Len(queue[h]) : queue[h][i] = t
        <4>1. CASE h = Home[w]
          <5>1. queue'[h] = Tail(queue[h])
            BY <1>0, <1>1, <2>1, <4>1 DEF TypeOK
          <5>2. t = Head(queue[h]) \/ \E j \in 1..Len(queue'[h]) : queue'[h][j] = t
            BY <2>1, <2>4, <3>1, <4>1, <5>1
          <5> QED
            BY <2>2, <4>1, <5>2, PendingIs DEF PendingIsSomewhere, Busy
        <4>2. CASE h # Home[w]
          <5>1. queue'[h] = queue[h]
            BY <1>0, <2>1, <4>2 DEF TypeOK
          <5> QED
            BY <3>1, <5>1, PendingIs DEF PendingIsSomewhere
        <4> QED
          BY <4>1, <4>2
      <3>2. CASE \E v \in Workers : Home[v] = h /\ Busy(v) /\ worker[v].ticket = t
        <4>1. PICK v \in Workers : Home[v] = h /\ Busy(v) /\ worker[v].ticket = t
          BY <3>2
        <4>2. worker'[v] = worker[v]
          BY <2>1, <2>3, <4>1 DEF Busy
        <4> QED
          BY <4>1, <4>2, PendingIs DEF PendingIsSomewhere, Busy
      <3> QED
        BY <1>0, <3>1, <3>2, PendingIs DEF PendingIsSomewhere
    <2> QED
      BY <1>0, <2>1, <2>5 DEF Attended, HasFuture, IsStarting, NobodyAccepts
  <1>4. CASE Finish(w)
    <2>1. /\ worker[w].pc = "returning" /\ UNCHANGED <<row, queue>>
          /\ worker' = [worker EXCEPT ![w] = IdleWorker]
      BY <1>4 DEF Finish, rowVars
    <2>2. ASSUME NEW h \in Helpers, NEW t \in Pending(h), t.run = r, row[r].status \in Phases
          PROVE  t \in Pending(h)'
      <3>1. t # worker[w].ticket
        <4>1. SUFFICES ASSUME t = worker[w].ticket PROVE FALSE
          OBVIOUS
        <4>2. RunOf(w) = r
          BY <2>2, <4>1 DEF RunOf
        <4>3. row[r].status \in {"ready", "failed"}
          BY <2>1, <4>2 DEF Attending, Straight, LapsCount
        <4> QED
          BY <2>2, <4>3 DEF Phases
      <3>2. \A v \in Workers : v # w => worker'[v] = worker[v]
        BY <1>0, <2>1
      <3> QED
        BY <1>0, <2>1, <3>1, <3>2, PendingIs DEF PendingIsSomewhere, Busy
    <2> QED
      BY <1>0, <2>1, <2>2 DEF Attended, HasFuture, IsStarting, NobodyAccepts
  <1> QED
    BY <1>2, <1>3, <1>4 DEF WorkerStep

LEMMA RequestsAttend ==
  ASSUME \A g, h \in Helpers : g = h, Attending, NEW c \in Callers, CallStep(c) \/ User(c),
         NEW r \in Runs, NeedsNoDecision(r), TypeOK'
  PROVE  Attended(r)'
  <1>0. /\ TypeOK /\ Attended(r) /\ UNCHANGED <<mode, worker>>
        /\ call \in [Callers -> CallStates]
        /\ Home[c] \in Helpers
    <2>1. UNCHANGED <<mode, worker>>
      BY DEF CallStep, User, SubmitCreate, SubmitResolve, CreateRun, ReadAttention,
             AnswerTask, RecordResolution, ResumeRun, StartRun, OnlyCall
    <2> QED
      BY <2>1, ConstantsAssumption
         DEF Attending, Straight, Inductive, ReadsInductive, TypeOK, ConstantsAssumption
  <1>1. CASE row'[r] # row[r]
    BY <1>0, <1>1, RequestsStart DEF Attended
  <1>2. CASE row'[r] = row[r] /\ ~StartRun(c)
    <2>1. UNCHANGED queue /\ \A d \in Callers : d # c => call'[d] = call[d]
      BY <1>0, <1>2 DEF CallStep, User, SubmitCreate, SubmitResolve, CreateRun, ReadAttention,
             AnswerTask, RecordResolution, ResumeRun, EndCall
    <2>2. call[c].pc # "starting"
      BY <1>2 DEF CallStep, User, SubmitCreate, SubmitResolve, CreateRun, ReadAttention,
             AnswerTask, RecordResolution, ResumeRun
    <2>3. \A h \in Helpers : Pending(h)' = Pending(h)
      BY <1>0, <2>1 DEF Pending
    <2> QED
      BY <1>0, <1>2, <2>1, <2>2, <2>3 DEF Attended, HasFuture, IsStarting, NobodyAccepts
  <1>3. CASE StartRun(c)
    <2>1. /\ call[c].pc = "starting" /\ row' = row
          /\ \A d \in Callers : d # c => call'[d] = call[d]
      BY <1>0, <1>3 DEF StartRun, EndCall, rowVars
    <2>2. Listening(Home[c])
      BY <2>1 DEF Attending, CallsAreServed
    <2>3. CASE mode[Home[c]] # "up"
      BY <1>0, <2>2, <2>3 DEF Attended, NobodyAccepts, Listening
    <2>4. CASE mode[Home[c]] = "up"
      <3>0. PICK h \in Helpers, s \in Runs : h = Home[c] /\ s = call[c].run
        BY <1>0, <2>1 DEF CallStates
      <3>1. Start(h, s, "owner")
        BY <1>3, <2>4, <3>0 DEF StartRun
      <3>2. \A g \in Helpers : Pending(g) \subseteq Pending(g)'
        <4>1. CASE UNCHANGED queue
          BY <1>0, <4>1 DEF Pending
        <4>2. CASE ~UNCHANGED queue
          <5>1. PICK n \in Unused(h, s) :
                  queue' = [queue EXCEPT ![h] = Append(@, [run |-> s, actor |-> "owner", number |-> n])]
            BY <3>1, <4>2 DEF Start
          <5> DEFINE future == [run |-> s, actor |-> "owner", number |-> n]
          <5>2. \A q \in Seq(Ticket) : ToSet(q) \subseteq ToSet(Append(q, future))
            BY DEF ToSet
          <5>3. \A g \in Helpers : ToSet(queue[g]) \subseteq ToSet(queue'[g])
            BY <1>0, <5>1, <5>2 DEF TypeOK
          <5> QED
            BY <1>0, <5>3 DEF Pending
        <4> QED
          BY <4>1, <4>2
      <3>3. HasFuture(s)'
        <4>1. CASE active[h][s] \in Pending(h)
          <5>1. active[h][s] \in Ticket
            BY <1>0, <4>1, PendingTypes
          <5>2. active[h][s] # NoTicket
            BY <5>1 DEF Ticket, NoTicket, Actors, Nobody
          <5>3. active[h][s].run = s
            BY <1>0, <3>1, <5>2 DEF Attending, ActiveIsOwn
          <5> QED
            BY <1>0, <3>2, <4>1, <5>3 DEF HasFuture
        <4>2. CASE active[h][s] \notin Pending(h)
          <5>1. PICK n \in Unused(h, s) :
                  queue' = [queue EXCEPT ![h] = Append(@, [run |-> s, actor |-> "owner", number |-> n])]
            BY <3>1, <4>2 DEF Start
          <5>2. PICK future : future = [run |-> s, actor |-> "owner", number |-> n]
            OBVIOUS
          <5>3. future \in Ticket /\ future.run = s
            BY <3>1, <5>1, <5>2 DEF Ticket, Unused, Actors
          <5>4. \A q \in Seq(Ticket) : future \in ToSet(Append(q, future))
            <6> SUFFICES ASSUME NEW q \in Seq(Ticket) PROVE future \in ToSet(Append(q, future))
              OBVIOUS
            <6>1. /\ Len(q) + 1 \in DOMAIN Append(q, future)
                  /\ Append(q, future)[Len(q) + 1] = future
              BY <5>3
            <6> QED
              BY <6>1 DEF ToSet
          <5>5. future \in ToSet(queue'[h])
            BY <1>0, <5>1, <5>2, <5>4 DEF TypeOK
          <5> QED
            BY <1>0, <5>3, <5>5 DEF HasFuture, Pending
        <4> QED
          BY <4>1, <4>2
      <3>4. CASE s = r
        BY <3>3, <3>4 DEF Attended
      <3>5. CASE s # r
        <4>1. IsStarting(r) => IsStarting(r)'
          BY <2>1, <3>0, <3>5 DEF IsStarting
        <4>2. HasFuture(r) => HasFuture(r)'
          BY <3>2 DEF HasFuture
        <4>3. NobodyAccepts => NobodyAccepts'
          BY <1>0 DEF NobodyAccepts
        <4> QED
          BY <1>0, <2>1, <4>1, <4>2, <4>3 DEF Attended
      <3> QED
        BY <3>4, <3>5
    <2> QED
      BY <2>3, <2>4
  <1> QED
    BY <1>1, <1>2, <1>3

LEMMA ProcessesAttend ==
  ASSUME \A g, h \in Helpers : g = h, Cardinality(Runs) <= ResumeLimit, Attending,
         NEW h \in Helpers, Callback(h) \/ Boot(h) \/ Bind(h) \/ Close(h) \/ Exit(h) \/ Crash(h) \/ OtherJob(h),
         NEW r \in Runs, NeedsNoDecision(r), TypeOK'
  PROVE  Attended(r)'
  <1>6. CASE OtherJob(h)
    <2>1. UNCHANGED <<row, queue, worker, call, mode>>
      BY <1>6 DEF OtherJob, rowVars, poolVars
    <2> QED
      BY <2>1 DEF Attending, Attended, HasFuture, IsStarting, NobodyAccepts, Pending
  <1> SUFFICES ASSUME ~OtherJob(h) PROVE Attended(r)'
    BY <1>6
  <1>0. TypeOK /\ TouchedOnce /\ Attended(r) /\ mode \in [Helpers -> Modes] /\ row' = row
    BY DEF Attending, Straight, Inductive, ReadsInductive, TypeOK, Callback, Forget, Boot, Bind,
           Close, Exit, Crash, Vanish, rowVars
  <1>1. CASE Callback(h)
    <2>1. UNCHANGED <<queue, worker, call, mode>>
      BY <1>1 DEF Callback, Forget
    <2> QED
      BY <1>0, <2>1 DEF Attended, HasFuture, IsStarting, NobodyAccepts, Pending
  <1>2. CASE Bind(h)
    <2>1. UNCHANGED <<queue, worker, call>> /\ mode[h] = "booting"
      BY <1>2 DEF Bind
    <2>2. ~NobodyAccepts
      BY <2>1 DEF NobodyAccepts
    <2> QED
      BY <1>0, <2>1, <2>2 DEF Attended, HasFuture, IsStarting, Pending
  <1>3. CASE Close(h) \/ Exit(h) \/ Crash(h)
    <2>1. mode' = [mode EXCEPT ![h] = "closing"] \/ mode' = [mode EXCEPT ![h] = "down"]
      BY <1>3 DEF Close, Exit, Crash, Vanish
    <2>2. NobodyAccepts'
      BY <1>0, <2>1 DEF NobodyAccepts
    <2> QED
      BY <2>2 DEF Attended
  <1>4. CASE Boot(h) /\ row[r].status \in Phases
    <2>1. PICK order \in ResumeOrders, n \in TicketNumbers :
            queue' = [queue EXCEPT ![h] = [i \in DOMAIN order |->
                                             [run |-> order[i], actor |-> "system", number |-> n]]]
      BY <1>4 DEF Boot
    <2>2. PICK i \in DOMAIN order : order[i] = r
      BY <1>0, <1>4, BootResumesAll DEF Resumable
    <2>3. queue'[h] = [j \in DOMAIN order |-> [run |-> order[j], actor |-> "system", number |-> n]]
      BY <1>0, <2>1 DEF TypeOK
    <2>4. queue'[h][i] \in ToSet(queue'[h]) /\ queue'[h][i].run = r
      BY <2>2, <2>3 DEF ToSet
    <2> QED
      BY <2>4 DEF Attended, HasFuture, Pending
  <1>5. CASE row[r].status \notin Phases
    BY <1>0, <1>5 DEF Attended
  <1> QED
    BY <1>1, <1>2, <1>3, <1>4, <1>5

LEMMA AttendingStep ==
  ASSUME \A g, h \in Helpers : g = h, LapCeiling > 6, Cardinality(Runs) <= ResumeLimit,
         Attending, [Next]_vars
  PROVE  Attending'
  <1>1. Straight' /\ TypeOK /\ TypeOK'
    BY StraightStep DEF Attending, Straight, Inductive, ReadsInductive
  <1>2. TouchedOnce' /\ ActiveIsOwn' /\ CallsAreServed'
    BY <1>1, TouchedStep, ActiveIsOwnStep, CallsAreServedStep DEF Attending
  <1>3. ASSUME NEW r \in Runs, NeedsNoDecision(r) PROVE Attended(r)'
    <2>1. CASE UNCHANGED vars
      BY <1>3, <2>1 DEF vars, Attending, Attended, HasFuture, IsStarting, NobodyAccepts, Pending
    <2> QED
      BY <1>1, <1>3, <2>1, WorkersAttend, RequestsAttend, ProcessesAttend DEF Next
  <1> QED
    BY <1>1, <1>2, <1>3 DEF Attending, NeedsNoDecision, CandidatesOf

LEMMA AttendingInit == Init => Attending
  <1> SUFFICES ASSUME Init PROVE Attending
    OBVIOUS
  <1>1. Straight /\ TouchedOnce
    BY StraightInit, SupervisedInit
  <1>2. ActiveIsOwn /\ CallsAreServed
    BY DEF Init, ActiveIsOwn, CallsAreServed, IdleCall
  <1>3. \A r \in Runs : Attended(r)
    BY DEF Init, Attended, AbsentRow, Phases
  <1> QED
    BY <1>1, <1>2, <1>3 DEF Attending

\* With one process, whose boot resumes every run there can be, a run that needs no
\* decision and is not settled is always in somebody's hands, whatever becomes of the
\* other runs: no request, callback, shutdown or crash drops it.
THEOREM StraightRunsAreAttended ==
  (\A g, h \in Helpers : g = h) /\ LapCeiling > 6 /\ Cardinality(Runs) <= ResumeLimit =>
    (Spec => [](\A r \in Runs : NeedsNoDecision(r) /\ row[r].status \in Phases =>
                  \/ \E h \in Helpers : \E future \in Pending(h) : future.run = r
                  \/ \E c \in Callers : call[c].run = r /\ call[c].pc = "starting"
                  \/ \A h \in Helpers : mode[h] \notin {"booting", "up"}))
<1> SUFFICES ASSUME \A g, h \in Helpers : g = h, LapCeiling > 6, Cardinality(Runs) <= ResumeLimit
             PROVE  Spec => [](\A r \in Runs : NeedsNoDecision(r) /\ row[r].status \in Phases =>
                      \/ \E h \in Helpers : \E future \in Pending(h) : future.run = r
                      \/ \E c \in Callers : call[c].run = r /\ call[c].pc = "starting"
                      \/ \A h \in Helpers : mode[h] \notin {"booting", "up"})
  OBVIOUS
<1>1. Init => Attending
  BY AttendingInit
<1>2. Attending /\ [Next]_vars => Attending'
  BY AttendingStep
<1>3. Attending => \A r \in Runs : NeedsNoDecision(r) /\ row[r].status \in Phases =>
                      \/ \E h \in Helpers : \E future \in Pending(h) : future.run = r
                      \/ \E c \in Callers : call[c].run = r /\ call[c].pc = "starting"
                      \/ \A h \in Helpers : mode[h] \notin {"booting", "up"}
  BY DEF Attending, Attended, HasFuture, IsStarting, NobodyAccepts
<1> QED
  BY <1>1, <1>2, <1>3, PTL DEF Spec

\* Where no run needs a decision, every run that is not settled is attended to.
THEOREM RunsAreAttended ==
  (\A g, h \in Helpers : g = h) /\ LapCeiling > 6 /\ Cardinality(Runs) <= ResumeLimit
    /\ (\A r \in Runs : NeedsNoDecision(r)) => (Spec => []ActiveRunIsAttended)
<1> SUFFICES ASSUME \A g, h \in Helpers : g = h, LapCeiling > 6, Cardinality(Runs) <= ResumeLimit,
                    \A r \in Runs : NeedsNoDecision(r)
             PROVE  Spec => []ActiveRunIsAttended
  OBVIOUS
<1>1. Init => Attending
  BY AttendingInit
<1>2. Attending /\ [Next]_vars => Attending'
  BY AttendingStep
<1>3. Attending => ActiveRunIsAttended
  BY DEF Attending, Attended, HasFuture, IsStarting, NobodyAccepts, ActiveRunIsAttended
<1> QED
  BY <1>1, <1>2, <1>3, PTL DEF Spec

-----------------------------------------------------------------------------
(* A run over available cards fails only over earlier or other work that   *)
(* its thread cannot repeat.                                               *)

\* One helper process, whose supervisor has the default pool (max_workers=1).
OneThread == \A v, w \in Workers : v = w

\* The cards of a run fit one question.
QuestionsFit == \A r \in Runs : Cardinality(CandidatesOf(r)) <= AttentionLimit

Outlined(r) == requirement[r] # {} /\ outline[r] # 0

Visualized(r) ==
  /\ Exists(r) /\ Outlined(r) /\ bound[r]["confirmation"] # Nobody
  /\ \E i \in DOMAIN row[r].evidence :
       row[r].evidence[i].by = "phase" /\ row[r].evidence[i].phase = "assigning_visuals"

\* What the last phases of a run find committed.
Prepared(r, status) ==
  /\ status = "assigning_visuals" => Outlined(r)
  /\ status = "validating" => Visualized(r)

\* A run that asked about its visuals goes on with or without them.
RowIsPrepared(r) ==
  /\ Prepared(r, row[r].status)
  /\ row[r].status = "needs_attention" /\ row[r].bundle.phase \in {"assigning_visuals", "validating"} =>
       Visualized(r)

\* What the one thread can rely on: a task that is not open was not safe, nobody is asked
\* about a safe one, and work that is enqueued can be found, and once consumed is indexed.
WorkIsFound ==
  /\ \A k \in Cards : task[k] \in {"none", "answered"} => ~SafeTask(k)
  /\ \A r \in Runs : \A k \in row[r].bundle.cards : ~SafeTask(k)
  /\ \A c \in Callers : \A k \in call[c].todo : ~SafeTask(k)
  /\ \A r \in Runs : claim[r] # "none" => \E i \in 1..Len(outbox) : outbox[i] = r
  /\ \A r \in Runs : claim[r] = "consumed" => snapshot # 0
  /\ \A r \in Runs : RowIsPrepared(r)

\* The earlier or other work that the thread w has found when it has the locals s.
EarlierWork(w, s) ==
  LET r == s.ticket.run IN
  \/ s.status \in DOMAIN BoundIn /\ bound[r][BoundIn[s.status]] \notin {Nobody, s.ticket.actor}
  \/ s.status = "composing" /\ s.over # 0 /\ outline[r] \notin {0, s.over}
  \/ IF s.status \in {"organizing_knowledge", "composing"}
     THEN CandidatesOf(r) \cap replaced # {} ELSE Outdated(r)
  \/ s.status = "organizing_knowledge" /\ (w \in lapsed \/ s.claims = IndexCeiling)

\* What the thread w knows of the work of its run when it has the locals s.
Knows(w, s) ==
  LET r == s.ticket.run IN
  /\ \A k \in s.asked \cup s.outcome.cards : ~SafeTask(k)
  /\ s.pc \in {"organizing", "closing_task", "publishing_card"} => s.asked \subseteq CandidatesOf(r)
  /\ s.pc = "closing_task" => SafeTask(Head(s.todo)) /\ task[Head(s.todo)] = "open"
  /\ s.pc = "claiming" => claim[r] \in {"waiting", "consumed"}
  /\ s.pc = "indexing" => claim[r] # "none" /\ (claim[r] \in Workers => s.item = r)
  /\ s.pc # "idle" => Prepared(r, s.status)
  /\ s.pc = "advancing" /\ s.outcome.next = "assigning_visuals" => Outlined(r)
  /\ s.pc = "advancing" /\ s.status = "assigning_visuals" /\ s.outcome.next \in {"validating", "needs_attention"} =>
       bound[r]["confirmation"] # Nobody
  /\ s.pc = "advancing" /\ s.outcome.next = "failed" /\ CandidatesOf(r) # {} => EarlierWork(w, s)

Repeating ==
  /\ Inductive /\ PlainAreClosed /\ AllAsk /\ WorkIsFound
  /\ \A w \in Workers : Knows(w, worker[w])

\* Nothing of it is taken back.
Stays ==
  /\ published \subseteq published'
  /\ \A r \in Runs : /\ Outlined(r) => Outlined(r)'
                     /\ bound[r]["confirmation"] # Nobody => bound'[r]["confirmation"] # Nobody

LEMMA StaysStep ==
  ASSUME TypeOK, [Next]_vars
  PROVE  Stays
  <1>0. /\ bound \in [Runs -> [Artifacts -> Actors \cup {Nobody}]]
        /\ requirement \in [Runs -> SUBSET Cards] /\ outline \in [Runs -> Nat]
    BY DEF TypeOK
  <1>1. CASE UNCHANGED <<published, replaced, bound, requirement, outline>>
    BY <1>1 DEF Stays, Outlined
  <1>2. ASSUME NEW w \in Workers, WorkerStep(w) PROVE Stays
    <2>1. CASE TakeTicket(w) \/ ReadRun(w) \/ AdvanceRun(w) \/ Finish(w)
      BY <1>1, <2>1 DEF TakeTicket, ReadRun, AdvanceRun, Finish, materialVars, artifactVars
    <2>2. CASE \/ StartPhase(w) \/ ImportPhase(w) \/ OrganizePhase(w) \/ OrganizeCard(w)
               \/ CloseSafeTask(w) \/ OrganizeEnd(w) \/ IndexEnd(w) \/ MeetReplaced(w)
      BY <1>1, <2>2 DEF StartPhase, ImportPhase, OrganizePhase, OrganizeCard, CloseSafeTask,
           OrganizeEnd, IndexEnd, MeetReplaced, materialVars, artifactVars
    <2>3. CASE AdoptClaim(w) \/ ClaimIndex(w) \/ CompleteIndex(w)
      BY <1>1, <2>3 DEF AdoptClaim, ClaimIndex, CompleteIndex, materialVars
    <2>4. CASE PublishCard(w)
      BY <2>4 DEF PublishCard, artifactVars, Stays, Outlined
    <2>5. CASE EnqueueIndex(w) \/ AssignVisualsPhase(w) \/ ValidatePhase(w)
      <3>1. worker[w].pc \notin {"idle", "reading", "returning"}
        BY <2>5 DEF EnqueueIndex, AssignVisualsPhase, ValidatePhase, InHandler
      <3>2. PICK r \in Runs : r = worker[w].ticket.run /\ r = RunOf(w)
        BY <3>1, ThreadRun
      <3>3. ActorOf(w) # Nobody
        BY <3>1, HandlerFacts DEF Actors, Nobody
      <3>4. UNCHANGED <<published, replaced, requirement, outline>>
        BY <2>5 DEF EnqueueIndex, AssignVisualsPhase, ValidatePhase, materialVars
      <3>5. bound' = bound \/ \E a : Commit(r, a, ActorOf(w))
        BY <2>5, <3>2 DEF EnqueueIndex, AssignVisualsPhase, ValidatePhase
      <3>6. ASSUME NEW s \in Runs, bound[s]["confirmation"] # Nobody
            PROVE  bound'[s]["confirmation"] # Nobody
        BY <1>0, <3>3, <3>5, <3>6 DEF Artifacts, Commit
      <3> QED
        BY <3>4, <3>6 DEF Stays, Outlined
    <2>6. CASE ComposePhase(w)
      <3>1. PICK r : \/ requirement' = requirement
                     \/ PublishedOf(r) # {} /\ requirement' = [requirement EXCEPT ![r] = PublishedOf(r)]
        BY <2>6 DEF ComposePhase
      <3>2. UNCHANGED <<published, replaced, bound, outline>>
        BY <2>6 DEF ComposePhase, materialVars
      <3>3. \A s \in Runs : requirement[s] # {} => requirement'[s] # {}
        BY <1>0, <3>1
      <3> QED
        BY <3>2, <3>3 DEF Stays, Outlined
    <2>7. CASE OutlinePhase(w)
      <3>1. PICK r : \/ outline' = outline
                     \/ outline[r] \in {0, worker[w].over} /\ outline' = [outline EXCEPT ![r] = worker[w].over]
        BY <2>7 DEF OutlinePhase
      <3>2. UNCHANGED <<published, replaced, bound, requirement>>
        BY <2>7 DEF OutlinePhase, materialVars
      <3>3. \A s \in Runs : outline[s] # 0 => outline'[s] # 0
        BY <1>0, <3>1
      <3> QED
        BY <3>2, <3>3 DEF Stays, Outlined
    <2> QED
      BY <1>2, <2>1, <2>2, <2>3, <2>4, <2>5, <2>6, <2>7 DEF WorkerStep, PhaseStep
  <1>3. ASSUME NEW c \in Callers, CallStep(c) \/ User(c) PROVE Stays
    BY <1>1, <1>3 DEF CallStep, User, SubmitCreate, SubmitResolve, CreateRun, ReadAttention,
         AnswerTask, RecordResolution, ResumeRun, StartRun, materialVars, artifactVars
  <1>4. ASSUME NEW h \in Helpers,
               Callback(h) \/ Boot(h) \/ Bind(h) \/ Close(h) \/ Exit(h) \/ Crash(h) \/ OtherJob(h)
        PROVE  Stays
    <2>1. CASE OtherJob(h)
      <3>1. UNCHANGED <<published, bound, requirement, outline>>
        BY <2>1 DEF OtherJob, RunKnowledgePublish, RunKnowledgeIndex, materialVars, artifactVars
      <3> QED
        BY <3>1 DEF Stays, Outlined
    <2> QED
      BY <1>1, <1>4, <2>1 DEF Callback, Forget, Boot, Bind, Close, Exit, Crash, Vanish,
           materialVars, artifactVars
  <1>5. CASE UNCHANGED vars
    BY <1>1, <1>5 DEF vars
  <1> QED
    BY <1>2, <1>3, <1>4, <1>5 DEF Next

\* What a row cites it keeps.
KeepsCiting(r) == \A e : Cites(row[r], e) => Cites(row'[r], e)

LEMMA EvidenceStays ==
  ASSUME Inductive, [Next]_vars, NEW r \in Runs, Exists(r)
  PROVE  KeepsCiting(r)
  <1>0. TypeOK
    BY DEF Inductive, ReadsInductive
  <1>1. SUFFICES ASSUME row'[r] # row[r] PROVE KeepsCiting(r)
    BY DEF KeepsCiting
  <1>2. PICK s \in Runs : \/ Opens(s)
                         \/ (\E w \in Workers : \E next, evidence, cards : Drives(w, s, next, evidence, cards))
                         \/ \E c \in Callers : \E evidence : Answers(c, s, evidence)
    BY <1>1, RowSteps DEF Inductive
  <1>3. s = r
    BY <1>0, <1>1, <1>2 DEF TypeOK, Opens, Drives, Answers
  <1>4. ASSUME NEW next, NEW evidence, NEW bundle,
               row' = [row EXCEPT ![r] = Advanced(row[r], next, evidence, bundle)]
        PROVE  KeepsCiting(r)
    BY <1>0, <1>4, RowAppends DEF RowAppended, KeepsCiting
  <1>5. ~Opens(r)
    BY DEF Opens, Exists
  <1>6. ASSUME NEW w \in Workers, NEW next, NEW evidence, NEW cards, Drives(w, r, next, evidence, cards)
        PROVE  KeepsCiting(r)
    BY <1>4, <1>6 DEF Drives
  <1>7. ASSUME NEW c \in Callers, NEW evidence, Answers(c, r, evidence)
        PROVE  KeepsCiting(r)
    BY <1>4, <1>7 DEF Answers
  <1> QED
    BY <1>2, <1>3, <1>5, <1>6, <1>7

LEMMA VisualizedStays ==
  ASSUME Inductive, [Next]_vars, NEW r \in Runs, Visualized(r)
  PROVE  Visualized(r)'
  <1>1. PICK e : Cites(row[r], e) /\ e.by = "phase" /\ e.phase = "assigning_visuals"
    BY DEF Visualized, Cites
  <1>2. Cites(row'[r], e) /\ Exists(r)'
    BY <1>1, EvidenceStays, RowsRemain DEF Visualized, KeepsCiting
  <1>3. Stays
    BY StaysStep DEF Inductive, ReadsInductive
  <1>4. PICK i \in DOMAIN row'[r].evidence : row'[r].evidence[i] = e
    BY <1>2 DEF Cites
  <1> QED
    BY <1>1, <1>2, <1>3, <1>4 DEF Visualized, Stays

LEMMA PreparedStays ==
  ASSUME Inductive, [Next]_vars, NEW r \in Runs, NEW status, Prepared(r, status)
  PROVE  Prepared(r, status)'
  <1>1. Stays
    BY StaysStep DEF Inductive, ReadsInductive
  <1>2. Visualized(r) => Visualized(r)'
    BY VisualizedStays
  <1> QED
    BY <1>1, <1>2 DEF Prepared, Stays

LEMMA UnsafeStays ==
  ASSUME Stays, NEW k, ~SafeTask(k)
  PROVE  ~SafeTask(k)'
  BY DEF Stays, SafeTask

\* A row that moves on to the visuals or to the validation finds them prepared, and what
\* it asks about is not safe.
RowKnows(r) == RowIsPrepared(r) /\ \A k \in row[r].bundle.cards : ~SafeTask(k)

LEMMA BundleBecomes ==
  ASSUME TypeOK, NEW r \in Runs, NEW next, NEW evidence, NEW bundle,
         row' = [row EXCEPT ![r] = Advanced(row[r], next, evidence, bundle)]
  PROVE  /\ row'[r].status = next
         /\ row'[r].bundle = IF next = "needs_attention" THEN bundle ELSE NoBundle
         /\ \A e : Cites(row'[r], e) <=> Cites(row[r], e) \/ e = evidence
  <1>1. RowAppended(r, next, evidence, bundle)
    BY RowAppends
  <1>2. row'[r].bundle = IF next = "needs_attention" THEN bundle ELSE NoBundle
    BY DEF TypeOK, Advanced
  <1> QED
    BY <1>1, <1>2 DEF RowAppended

LEMMA DrivesPrepared ==
  ASSUME Repeating, [Next]_vars, NEW r \in Runs, NEW w \in Workers, NEW next, NEW evidence, NEW cards,
         Drives(w, r, next, evidence, cards)
  PROVE  RowKnows(r)'
  <1>0. TypeOK /\ Stays
    BY StaysStep DEF Repeating, Inductive, ReadsInductive
  <1>1. PICK bundle : bundle = [phase |-> row[r].status, cards |-> cards]
    OBVIOUS
  <1>2. /\ row'[r].status = next
        /\ row'[r].bundle = IF next = "needs_attention" THEN bundle ELSE NoBundle
        /\ Cites(row'[r], evidence)
    <2>1. row' = [row EXCEPT ![r] = Advanced(row[r], next, evidence, bundle)]
      BY <1>1 DEF Drives
    <2> QED
      BY <1>0, <2>1, BundleBecomes
  <1>3. /\ worker[w].pc = "advancing" /\ r = worker[w].ticket.run /\ worker[w].status = row[r].status
        /\ next = worker[w].outcome.next /\ cards = worker[w].outcome.cards
        /\ row[r].status \in Phases /\ next \in Transitions[row[r].status]
        /\ IsEvidenceOf(evidence, row[r].status, next)
    BY DEF Drives, RunOf
  <1>4. Knows(w, worker[w])
    BY DEF Repeating
  <1>5. /\ Prepared(r, row[r].status)
        /\ next = "assigning_visuals" => Outlined(r)
        /\ row[r].status = "assigning_visuals" /\ next \in {"validating", "needs_attention"} =>
             bound[r]["confirmation"] # Nobody
        /\ \A k \in cards : ~SafeTask(k)
    BY <1>3, <1>4 DEF Knows
  <1>6. next = "validating" => row[r].status = "assigning_visuals"
    BY <1>3 DEF Transitions, Phases
  <1>7. ASSUME row[r].status = "assigning_visuals", next \in {"validating", "needs_attention"}
        PROVE  Visualized(r)'
    <2>1. Outlined(r)' /\ bound'[r]["confirmation"] # Nobody
      BY <1>0, <1>5, <1>7 DEF Stays, Prepared
    <2>2. evidence.by = "phase" /\ evidence.phase = "assigning_visuals"
      BY <1>3, <1>7 DEF IsEvidenceOf
    <2>3. Exists(r)'
      BY <1>2, <1>7 DEF Exists
    <2>4. PICK i \in DOMAIN row'[r].evidence : row'[r].evidence[i] = evidence
      BY <1>2 DEF Cites
    <2> QED
      BY <2>1, <2>2, <2>3, <2>4 DEF Visualized
  <1>8. row[r].status = "validating" => Visualized(r)'
    BY <1>5, VisualizedStays DEF Prepared, Repeating
  <1>9. next = "assigning_visuals" => Outlined(r)'
    BY <1>0, <1>5 DEF Stays
  <1>10. next = "needs_attention" => row'[r].bundle.phase = row[r].status
    BY <1>1, <1>2
  <1>11. RowIsPrepared(r)'
    BY <1>2, <1>6, <1>7, <1>8, <1>9, <1>10 DEF RowIsPrepared, Prepared
  <1>12. \A k \in row'[r].bundle.cards : k \in cards
    BY <1>1, <1>2 DEF NoBundle
  <1>13. \A k \in row'[r].bundle.cards : ~SafeTask(k)'
    BY <1>0, <1>5, <1>12, UnsafeStays
  <1> QED
    BY <1>11, <1>13 DEF RowKnows

LEMMA AnswersPrepared ==
  ASSUME Repeating, [Next]_vars, NEW r \in Runs, NEW c \in Callers, NEW evidence, Answers(c, r, evidence)
  PROVE  RowKnows(r)'
  <1>0. TypeOK /\ Stays
    BY StaysStep DEF Repeating, Inductive, ReadsInductive
  <1>1. PICK next : next = call[c].resume
    OBVIOUS
  <1>2. next \in Phases /\ next # "needs_attention"
    BY <1>1 DEF Answers, Phases
  <1>3. row'[r].status = next /\ row'[r].bundle = NoBundle
    <2>1. row' = [row EXCEPT ![r] = Advanced(row[r], next, evidence, NoBundle)]
      BY <1>1 DEF Answers
    <2> QED
      BY <1>0, <1>2, <2>1, BundleBecomes
  <1>4. Follows(row[r].bundle.phase, next)
    BY <1>1 DEF Answers, Repeating, Inductive, Asking, CallFollows
  <1>5. next \in {"assigning_visuals", "validating"} => Visualized(r)
    BY <1>4 DEF Answers, Follows, Repeating, WorkIsFound, RowIsPrepared
  <1>6. next \in {"assigning_visuals", "validating"} => Visualized(r)'
    BY <1>5, VisualizedStays DEF Repeating
  <1>7. RowIsPrepared(r)'
    BY <1>2, <1>3, <1>6 DEF RowIsPrepared, Prepared, Visualized
  <1> QED
    BY <1>3, <1>7 DEF RowKnows, NoBundle

LEMMA RowsPrepared ==
  ASSUME Repeating, [Next]_vars, NEW r \in Runs
  PROVE  RowKnows(r)'
  <1>0. TypeOK /\ Stays
    BY StaysStep DEF Repeating, Inductive, ReadsInductive
  <1>1. CASE row'[r] = row[r]
    <2>2. Visualized(r) => Visualized(r)'
      BY VisualizedStays DEF Repeating
    <2>3. RowIsPrepared(r)
      BY DEF Repeating, WorkIsFound
    <2>4. PICK status : status = row[r].status
      OBVIOUS
    <2>5. Prepared(r, status) => Prepared(r, status)'
      BY PreparedStays DEF Repeating
    <2>6. RowIsPrepared(r)'
      BY <1>1, <2>2, <2>3, <2>4, <2>5 DEF RowIsPrepared
    <2>7. \A k \in row'[r].bundle.cards : ~SafeTask(k)'
      BY <1>0, <1>1, UnsafeStays DEF Repeating, WorkIsFound
    <2> QED
      BY <2>6, <2>7 DEF RowKnows
  <1>2. CASE row'[r] # row[r]
    <2>1. PICK s \in Runs : \/ Opens(s)
                           \/ (\E w \in Workers : \E next, evidence, cards : Drives(w, s, next, evidence, cards))
                           \/ \E c \in Callers : \E evidence : Answers(c, s, evidence)
      BY <1>2, RowSteps DEF Repeating, Inductive
    <2>2. s = r
      BY <1>0, <1>2, <2>1 DEF TypeOK, Opens, Drives, Answers
    <2>3. CASE Opens(r)
      <3>1. row'[r] = NewRow
        BY <1>0, <2>3 DEF TypeOK, Opens
      <3>2. row'[r].status = "queued" /\ row'[r].bundle.cards = {}
        BY <3>1 DEF NewRow, AbsentRow, NoBundle
      <3> QED
        BY <3>2 DEF RowKnows, RowIsPrepared, Prepared
    <2> QED
      BY <2>1, <2>2, <2>3, DrivesPrepared, AnswersPrepared
  <1> QED
    BY <1>1, <1>2

\* A task is closed by a thread under its actor, or by the answer to a question about it.
TasksKnown == \A k \in Cards : task[k] \in {"none", "answered"} => ~SafeTask(k)
TodoKnown(c) == \A k \in call[c].todo : ~SafeTask(k)

LEMMA TasksStep ==
  ASSUME Repeating, [Next]_vars
  PROVE  TasksKnown' /\ \A c \in Callers : TodoKnown(c)'
  <1>0. /\ TypeOK /\ Stays /\ TasksKnown /\ \A c \in Callers : TodoKnown(c)
        /\ call \in [Callers -> CallStates] /\ task \in [Cards -> {"none", "open", "answered"} \cup Actors]
    BY StaysStep DEF Repeating, Inductive, ReadsInductive, WorkIsFound, TasksKnown, TodoKnown, TypeOK
  <1>1. ASSUME UNCHANGED task PROVE TasksKnown'
    BY <1>0, <1>1, UnsafeStays DEF TasksKnown
  <1>2. ASSUME NEW c \in Callers, call'[c].todo \subseteq call[c].todo PROVE TodoKnown(c)'
    BY <1>0, <1>2, UnsafeStays DEF TodoKnown
  <1>3. ASSUME NEW w \in Workers, WorkerStep(w) PROVE TasksKnown' /\ \A c \in Callers : TodoKnown(c)'
    <2>1. \A c \in Callers : call'[c] = call[c]
      BY <1>3 DEF WorkerStep, PhaseStep, StartPhase, ImportPhase, OrganizePhase, OrganizeCard,
                CloseSafeTask, PublishCard, OrganizeEnd, EnqueueIndex, AdoptClaim, ClaimIndex,
                CompleteIndex, IndexEnd, MeetReplaced, ComposePhase, OutlinePhase, AssignVisualsPhase,
                ValidatePhase, OnlyWorker, TakeTicket, ReadRun, AdvanceRun, Finish
    <2>2. CASE CloseSafeTask(w) /\ task' # task
      <3>1. worker[w].pc = "closing_task"
        BY <2>2 DEF CloseSafeTask
      <3>2. ActorOf(w) \notin {"none", "answered"}
        BY <1>0, <3>1, HandlerFacts DEF Actors
      <3>3. PICK k : task' = [task EXCEPT ![k] = ActorOf(w)]
        BY <2>2 DEF CloseSafeTask
      <3>4. \A j \in Cards : task'[j] \in {"none", "answered"} => task[j] \in {"none", "answered"}
        BY <1>0, <3>2, <3>3
      <3>5. TasksKnown'
        BY <1>0, <3>4, UnsafeStays DEF TasksKnown
      <3> QED
        BY <1>2, <2>1, <3>5
    <2>3. CASE ~CloseSafeTask(w)
      <3>1. UNCHANGED task
        BY <1>3, <2>3 DEF WorkerStep, PhaseStep, StartPhase, ImportPhase, OrganizePhase, OrganizeCard,
                PublishCard, OrganizeEnd, EnqueueIndex, AdoptClaim, ClaimIndex,
                CompleteIndex, IndexEnd, MeetReplaced, ComposePhase, OutlinePhase, AssignVisualsPhase,
                ValidatePhase, TakeTicket, ReadRun, AdvanceRun, Finish, materialVars
      <3> QED
        BY <1>1, <1>2, <2>1, <3>1
    <2> QED
      BY <1>1, <1>2, <2>1, <2>2, <2>3
  <1>4. ASSUME NEW c \in Callers, CallStep(c) \/ User(c)
        PROVE  TasksKnown' /\ \A d \in Callers : TodoKnown(d)'
    <2>1. \A d \in Callers : d # c => call'[d] = call[d]
      BY <1>0, <1>4 DEF CallStep, User, SubmitCreate, SubmitResolve, CreateRun, ReadAttention,
           AnswerTask, RecordResolution, ResumeRun, StartRun, EndCall
    <2>2. \A d \in Callers : d # c => TodoKnown(d)'
      BY <1>2, <2>1
    <2>3. ASSUME EndCall(c) PROVE call'[c].todo = {}
      BY <1>0, <2>3 DEF EndCall, IdleCall
    <2>4. ASSUME NEW k \in Cards, AnswerTask(c, k) PROVE TasksKnown' /\ TodoKnown(c)'
      <3>1. CASE EndCall(c) /\ UNCHANGED task
        BY <1>1, <1>2, <2>3, <3>1
      <3>2. CASE /\ task' = [task EXCEPT ![k] = "answered"]
                 /\ call' = [call EXCEPT ![c] = [@ EXCEPT !.todo = call[c].todo \ {k}]]
        <4>1. k \in call[c].todo /\ ~SafeTask(k)
          BY <1>0, <2>4 DEF AnswerTask, TodoKnown
        <4>2. \A j \in Cards : task'[j] \in {"none", "answered"} => j = k \/ task[j] \in {"none", "answered"}
          BY <1>0, <3>2
        <4>3. TasksKnown'
          BY <1>0, <4>1, <4>2, UnsafeStays DEF TasksKnown
        <4>4. call'[c].todo \subseteq call[c].todo
          BY <1>0, <3>2 DEF CallStates
        <4> QED
          BY <1>2, <4>3, <4>4
      <3> QED
        BY <2>4, <3>1, <3>2 DEF AnswerTask
    <2>5. ASSUME ReadAttention(c) PROVE TasksKnown' /\ TodoKnown(c)'
      <3>1. UNCHANGED task
        BY <2>5 DEF ReadAttention, materialVars
      <3>2. CASE EndCall(c)
        BY <1>1, <1>2, <2>3, <3>1, <3>2
      <3>3. CASE ~EndCall(c)
        <4>1. PICK r \in Runs : r = call[c].run
          BY <1>0, <2>5 DEF ReadAttention, CallStates
        <4>2. PICK revision, resume :
                call' = [call EXCEPT ![c] = [@ EXCEPT !.pc = "recording", !.revision = revision,
                          !.resume = resume, !.todo = Answered(row[r].bundle, call[c].action)]]
          BY <2>5, <3>3, <4>1 DEF ReadAttention
        <4>3. call'[c].todo = Answered(row[r].bundle, call[c].action)
          BY <1>0, <4>2 DEF CallStates
        <4>4. call'[c].todo \subseteq row[r].bundle.cards
          BY <4>3 DEF Answered
        <4>5. \A k \in row[r].bundle.cards : ~SafeTask(k)
          BY DEF Repeating, WorkIsFound
        <4>6. TodoKnown(c)'
          BY <1>0, <4>4, <4>5, UnsafeStays DEF TodoKnown
        <4> QED
          BY <1>1, <3>1, <4>6
      <3> QED
        BY <3>2, <3>3
    <2>6. ASSUME CreateRun(c) \/ RecordResolution(c) \/ ResumeRun(c) \/ StartRun(c) \/ User(c)
          PROVE  TasksKnown' /\ TodoKnown(c)'
      <3>1. UNCHANGED task
        BY <2>6 DEF CreateRun, RecordResolution, ResumeRun, StartRun, User, SubmitCreate, SubmitResolve,
                    materialVars
      <3>2. CASE User(c)
        <4>1. PICK r \in Runs, a \in Actions : SubmitCreate(c, r) \/ SubmitResolve(c, r, a)
          BY <3>2 DEF User, Actions
        <4>2. PICK b : b = row[r].bundle
          OBVIOUS
        <4>3. PICK x : /\ call' = [call EXCEPT ![c] = x]
                       /\ \/ x = [IdleCall EXCEPT !.pc = "creating", !.run = r]
                          \/ x = [IdleCall EXCEPT !.pc = "resolving", !.run = r, !.action = a, !.bundle = b]
          BY <4>1, <4>2 DEF SubmitCreate, SubmitResolve
        <4>4. x.todo = {}
          BY <4>3 DEF IdleCall
        <4>5. call'[c].todo = {}
          BY <1>0, <4>3, <4>4
        <4>6. TodoKnown(c)'
          BY <4>5 DEF TodoKnown
        <4> QED
          BY <1>1, <3>1, <4>6
      <3>3. CASE CreateRun(c) \/ RecordResolution(c) \/ ResumeRun(c) \/ StartRun(c)
        <4>1. EndCall(c) \/ \E pc : call' = [call EXCEPT ![c] = [@ EXCEPT !.pc = pc]]
          BY <3>3 DEF CreateRun, RecordResolution, ResumeRun, StartRun
        <4>2. call'[c].todo \subseteq call[c].todo
          BY <1>0, <2>3, <4>1 DEF CallStates
        <4> QED
          BY <1>1, <1>2, <3>1, <4>2
      <3> QED
        BY <2>6, <3>2, <3>3
    <2> QED
      BY <1>4, <2>2, <2>4, <2>5, <2>6 DEF CallStep
  <1>5. ASSUME NEW h \in Helpers,
               Callback(h) \/ Boot(h) \/ Bind(h) \/ Close(h) \/ Exit(h) \/ Crash(h) \/ OtherJob(h)
        PROVE  TasksKnown' /\ \A c \in Callers : TodoKnown(c)'
    <2>1. UNCHANGED task
      BY <1>5 DEF Callback, Forget, Boot, Bind, Close, Exit, Crash, OtherJob, RunKnowledgePublish,
           RunKnowledgeIndex, Vanish, materialVars
    <2>2. \A c \in Callers : call'[c] = call[c] \/ call'[c] = IdleCall
      BY <1>5 DEF Callback, Forget, Boot, Bind, Close, Exit, Crash, OtherJob, Vanish
    <2>3. \A c \in Callers : call'[c].todo \subseteq call[c].todo
      BY <2>2 DEF IdleCall
    <2> QED
      BY <1>1, <1>2, <2>1, <2>3
  <1>6. CASE UNCHANGED vars
    BY <1>1, <1>2, <1>6 DEF vars
  <1> QED
    BY <1>3, <1>4, <1>5, <1>6 DEF Next

\* Work that is enqueued is in the outbox, and what is consumed is in a snapshot.
WorkKnown(r) ==
  /\ claim[r] # "none" => \E i \in 1..Len(outbox) : outbox[i] = r
  /\ claim[r] = "consumed" => snapshot # 0

LEMMA ListedSeals ==
  ASSUME TypeOK, NEW r \in Runs, claim[r] # "none", WorkKnown(r), Seal
  PROVE  snapshot' # 0
  <1>1. /\ Cardinality(published) \in Nat /\ Cardinality(replaced) \in Nat
        /\ Len(outbox) \in Nat
    BY CardsAreFinite, ReplacedIsFinite DEF TypeOK
  <1>2. Len(outbox) > 0
    BY <1>1 DEF WorkKnown
  <1> QED
    BY <1>1, <1>2 DEF Seal

LEMMA WorkStep ==
  ASSUME Repeating, [Next]_vars
  PROVE  \A r \in Runs : WorkKnown(r)'
  <1>0. /\ TypeOK /\ Backed /\ \A r \in Runs : WorkKnown(r)
        /\ claim \in [Runs -> {"none", "waiting", "consumed"} \cup Workers]
        /\ outbox \in Seq(Runs) /\ Workers \cap {"none", "waiting", "consumed"} = {}
    BY ConstantsAssumption
    DEF Repeating, Inductive, ReadsInductive, WorkIsFound, WorkKnown, TypeOK, ConstantsAssumption
  <1>1. CASE UNCHANGED <<outbox, claim, snapshot>>
    BY <1>0, <1>1 DEF WorkKnown
  <1>2. ASSUME NEW w \in Workers, WorkerStep(w) PROVE \A r \in Runs : WorkKnown(r)'
    <2>1. CASE EnqueueIndex(w)
      <3>1. PICK r \in Runs : r = RunOf(w)
        BY <1>0, <2>1, ThreadRun DEF EnqueueIndex
      <3>2. CASE ~UNCHANGED <<outbox, claim>>
        <4>1. /\ outbox' = IF claim[r] = "none" THEN Append(outbox, r) ELSE outbox
              /\ claim' = [claim EXCEPT ![r] = IF @ = "none" THEN "waiting" ELSE @]
              /\ snapshot' = snapshot
          BY <2>1, <3>1, <3>2 DEF EnqueueIndex
        <4>2. claim[r] = "none"
          BY <1>0, <3>2, <4>1
        <4>3. /\ Len(outbox') = Len(outbox) + 1 /\ outbox'[Len(outbox) + 1] = r
              /\ Len(outbox) \in Nat /\ \A i \in 1..Len(outbox) : outbox'[i] = outbox[i]
          BY <1>0, <4>1, <4>2
        <4>4. \A i \in 1..Len(outbox) : i \in 1..Len(outbox')
          BY <4>3
        <4>5. Len(outbox) + 1 \in 1..Len(outbox')
          BY <4>3
        <4>6. \A s \in Runs : s # r => claim'[s] = claim[s]
          BY <1>0, <4>1
        <4>7. claim'[r] = "waiting"
          BY <1>0, <4>1, <4>2
        <4> QED
          BY <1>0, <4>1, <4>3, <4>4, <4>5, <4>6, <4>7 DEF WorkKnown
      <3> QED
        BY <1>1, <2>1, <3>2 DEF EnqueueIndex
    <2>2. CASE AdoptClaim(w)
      <3>1. PICK r \in Runs : r = RunOf(w)
        BY <1>0, <2>2, ThreadRun DEF AdoptClaim
      <3>2. CASE claim[r] \in Workers /\ claim' = [claim EXCEPT ![r] = "consumed"] /\ Seal
        <4>1. claim[r] # "none"
          BY <1>0, <3>2
        <4>2. snapshot' # 0
          BY <1>0, <3>2, <4>1, ListedSeals
        <4>3. outbox' = outbox
          BY <2>2 DEF AdoptClaim
        <4>4. \A s \in Runs : claim'[s] # "none" => claim[s] # "none"
          BY <1>0, <3>2, <4>1
        <4> QED
          BY <1>0, <4>2, <4>3, <4>4 DEF WorkKnown
      <3> QED
        BY <1>1, <2>2, <3>1, <3>2 DEF AdoptClaim
    <2>3. CASE ClaimIndex(w)
      <3>1. UNCHANGED <<outbox, snapshot>>
        BY <2>3 DEF ClaimIndex
      <3>2. PICK E \in SUBSET {s \in Runs : claim[s] \in Workers} :
              \/ claim' = [s \in Runs |-> IF s \in E THEN "waiting" ELSE claim[s]]
              \/ \E i \in Claimable(E) :
                   claim' = [s \in Runs |-> IF s = outbox[i] THEN w
                                            ELSE IF s \in E THEN "waiting" ELSE claim[s]]
        BY <2>3 DEF ClaimIndex
      <3>3. \A i \in Claimable(E) : claim[outbox[i]] # "none"
        BY <1>0 DEF Claimable
      <3>4. \A s \in Runs : /\ claim'[s] # "none" => claim[s] # "none"
                            /\ claim'[s] = "consumed" => claim[s] = "consumed"
        BY <1>0, <3>2, <3>3
      <3> QED
        BY <1>0, <3>1, <3>4 DEF WorkKnown
    <2>4. CASE CompleteIndex(w)
      <3>1. PICK s \in Runs : s = worker[w].item
        BY <1>0, <2>4, HandlerFacts DEF CompleteIndex
      <3>2. claim[s] # "none"
        BY <2>4, <1>0, <3>1 DEF CompleteIndex, Backed, LocalsBacked
      <3>3. CASE ~UNCHANGED <<claim, snapshot>>
        <4>1. /\ claim' = [claim EXCEPT ![s] = "consumed"] /\ outbox' = outbox
              /\ IF claim[s] = "consumed" THEN UNCHANGED snapshot ELSE Seal
          BY <2>4, <3>1, <3>3 DEF CompleteIndex
        <4>2. snapshot' # 0
          BY <1>0, <3>2, <4>1, ListedSeals DEF WorkKnown
        <4>3. \A r \in Runs : claim'[r] # "none" => claim[r] # "none"
          BY <1>0, <3>2, <4>1
        <4> QED
          BY <1>0, <4>1, <4>2, <4>3 DEF WorkKnown
      <3> QED
        BY <1>1, <2>4, <3>3 DEF CompleteIndex
    <2>5. CASE ~(EnqueueIndex(w) \/ AdoptClaim(w) \/ ClaimIndex(w) \/ CompleteIndex(w))
      <3>1. UNCHANGED <<outbox, claim, snapshot>>
        BY <1>2, <2>5 DEF WorkerStep, PhaseStep, StartPhase, ImportPhase, OrganizePhase, OrganizeCard,
                CloseSafeTask, PublishCard, OrganizeEnd, IndexEnd, MeetReplaced, ComposePhase, OutlinePhase,
                AssignVisualsPhase, ValidatePhase, TakeTicket, ReadRun, AdvanceRun, Finish,
                artifactVars, indexVars
      <3> QED
        BY <1>1, <3>1
    <2> QED
      BY <2>1, <2>2, <2>3, <2>4, <2>5
  <1>3. ASSUME NEW c \in Callers, CallStep(c) \/ User(c) PROVE UNCHANGED <<outbox, claim, snapshot>>
    BY <1>3 DEF CallStep, User, SubmitCreate, SubmitResolve, CreateRun, ReadAttention,
         AnswerTask, RecordResolution, ResumeRun, StartRun, artifactVars, indexVars
  <1>4. ASSUME NEW h \in Helpers,
               Callback(h) \/ Boot(h) \/ Bind(h) \/ Close(h) \/ Exit(h) \/ Crash(h)
        PROVE  UNCHANGED <<outbox, claim, snapshot>>
    BY <1>4 DEF Callback, Forget, Boot, Bind, Close, Exit, Crash, Vanish, artifactVars, indexVars
  <1>5. ASSUME NEW h \in Helpers, OtherJob(h) PROVE \A r \in Runs : WorkKnown(r)'
    <2>1. CASE RunKnowledgePublish
      BY <1>1, <2>1 DEF RunKnowledgePublish, artifactVars, indexVars
    <2>2. CASE RunKnowledgeIndex
      <3>1. PICK E \in SUBSET {s \in Runs : claim[s] \in Workers}, i \in DOMAIN outbox :
              /\ i \in Claimable(E)
              /\ claim' = [s \in Runs |-> IF s = outbox[i] THEN "consumed"
                                          ELSE IF s \in E THEN "waiting" ELSE claim[s]]
        BY <2>2 DEF RunKnowledgeIndex, Claimable
      <3>2. /\ outbox' = outbox /\ Seal
        BY <2>2 DEF RunKnowledgeIndex
      <3>3. outbox[i] \in Runs /\ claim[outbox[i]] # "none"
        BY <1>0, <3>1 DEF Claimable
      <3>4. snapshot' # 0
        BY <1>0, <3>2, <3>3, ListedSeals
      <3>5. \A s \in Runs : claim'[s] # "none" => claim[s] # "none"
        BY <1>0, <3>1, <3>3
      <3> QED
        BY <1>0, <3>2, <3>4, <3>5 DEF WorkKnown
    <2> QED
      BY <1>5, <2>1, <2>2 DEF OtherJob
  <1>6. CASE UNCHANGED vars
    BY <1>1, <1>6 DEF vars
  <1> QED
    BY <1>1, <1>2, <1>3, <1>4, <1>5, <1>6 DEF Next

\* What a thread knew of its cards and of its status still holds.
LEMMA CardsStayKnown ==
  ASSUME Repeating, [Next]_vars, NEW w \in Workers,
         NEW k \in worker[w].asked \cup worker[w].outcome.cards
  PROVE  ~SafeTask(k)'
  <1>1. Stays /\ Knows(w, worker[w])
    BY StaysStep DEF Repeating, Inductive, ReadsInductive
  <1> QED
    BY <1>1, UnsafeStays DEF Knows

LEMMA StatusStaysKnown ==
  ASSUME Repeating, [Next]_vars, NEW w \in Workers, worker[w].pc # "idle",
         NEW r \in Runs, r = worker[w].ticket.run, NEW status, status = worker[w].status
  PROVE  Prepared(r, status)'
  <1>1. Prepared(r, status)
    BY DEF Repeating, Knows
  <1> QED
    BY <1>1, PreparedStays DEF Repeating

LEMMA RecordKnows ==
  ASSUME TypeOK, NEW w \in Workers, NEW x, worker' = [worker EXCEPT ![w] = x], Knows(w, x)'
  PROVE  Knows(w, worker[w])'
  <1>1. worker'[w] = x
    BY DEF TypeOK
  <1> QED
    BY <1>1

LEMMA IdleKnows ==
  ASSUME NEW w, NEW x, x.pc = "idle", x.asked = {}, x.outcome = NoOutcome
  PROVE  Knows(w, x)'
  <1>1. x.outcome.cards = {}
    BY DEF NoOutcome, Outcome
  <1> QED
    BY <1>1 DEF Knows

LEMMA DecideKnows ==
  ASSUME Repeating, [Next]_vars, NEW w \in Workers, worker[w].pc # "idle",
         NEW r \in Runs, r = worker[w].ticket.run, NEW next, NEW evidence, NEW cards,
         Decide(w, Outcome(next, evidence, cards)),
         \A k \in cards : ~SafeTask(k),
         next = "assigning_visuals" => Outlined(r)',
         worker[w].status = "assigning_visuals" /\ next \in {"validating", "needs_attention"} =>
           bound'[r]["confirmation"] # Nobody,
         NEW s, s = worker[w], next = "failed" /\ CandidatesOf(r) # {} => EarlierWork(w, s)'
  PROVE  Knows(w, worker[w])'
  <1>0. TypeOK /\ Stays
    BY StaysStep DEF Repeating, Inductive, ReadsInductive
  <1>1. PICK o : o = Outcome(next, evidence, cards)
    OBVIOUS
  <1>2. o.next = next /\ o.cards = cards
    BY <1>1 DEF Outcome
  <1>3. PICK x : x = [worker[w] EXCEPT !.pc = "advancing", !.outcome = o]
    OBVIOUS
  <1>4. worker[w] \in WorkerFields
    BY <1>0, WorkerStatesAre DEF TypeOK
  <1>5. /\ x.pc = "advancing" /\ x.outcome = o /\ x.status = worker[w].status
        /\ x.ticket = worker[w].ticket /\ x.asked = worker[w].asked /\ x.over = worker[w].over
        /\ x.claims = worker[w].claims
    BY <1>3, <1>4 DEF WorkerFields
  <1>6. worker' = [worker EXCEPT ![w] = x]
    BY <1>1, <1>3 DEF Decide
  <1>7. Prepared(r, x.status)'
    <2>1. PICK status : status = worker[w].status
      OBVIOUS
    <2>2. Prepared(r, status)'
      BY <2>1, StatusStaysKnown
    <2> QED
      BY <1>5, <2>1, <2>2
  <1>8. \A k \in x.asked \cup x.outcome.cards : ~SafeTask(k)'
    BY <1>0, <1>2, <1>5, CardsStayKnown, UnsafeStays
  <1>9. next = "failed" /\ CandidatesOf(r) # {} => EarlierWork(w, x)'
    <2>1. /\ x.status = s.status /\ x.ticket = s.ticket /\ x.over = s.over /\ x.claims = s.claims
      BY <1>5
    <2>2. EarlierWork(w, s)' => EarlierWork(w, x)'
      BY <2>1 DEF EarlierWork
    <2> QED
      BY <2>2
  <1>10. Knows(w, x)'
    BY <1>2, <1>5, <1>7, <1>8, <1>9 DEF Knows
  <1> QED
    BY <1>0, <1>6, <1>10, RecordKnows

LEMMA FailKnows ==
  ASSUME Repeating, [Next]_vars, NEW w \in Workers, worker[w].pc # "idle",
         NEW r \in Runs, r = worker[w].ticket.run, Fail(w),
         NEW s, s = worker[w], CandidatesOf(r) # {} => EarlierWork(w, s)'
  PROVE  Knows(w, worker[w])'
  <1>1. PICK e, next, cards : /\ e = Checkpoint(worker[w].status, "failed", {}, 0)
                              /\ next = "failed" /\ cards = {}
    OBVIOUS
  <1>2. Decide(w, Outcome(next, e, cards))
    BY <1>1 DEF Fail
  <1>3. /\ \A k \in cards : ~SafeTask(k)
        /\ next = "assigning_visuals" => Outlined(r)'
        /\ worker[w].status = "assigning_visuals" /\ next \in {"validating", "needs_attention"} =>
             bound'[r]["confirmation"] # Nobody
        /\ next = "failed" /\ CandidatesOf(r) # {} => EarlierWork(w, s)'
    BY <1>1
  <1> QED
    BY <1>2, <1>3, DecideKnows

LEMMA GotoKnows ==
  ASSUME Repeating, [Next]_vars, NEW w \in Workers, worker[w].pc # "idle",
         NEW r \in Runs, r = worker[w].ticket.run,
         NEW pc \in {"closing_task", "publishing_card", "enqueueing", "adopting", "claiming",
                     "returning", "reading"},
         Goto(w, pc),
         pc \in {"closing_task", "publishing_card"} =>
           worker[w].pc \in {"organizing", "closing_task", "publishing_card"},
         pc = "closing_task" => \A k : k = Head(worker[w].todo) => SafeTask(k)' /\ task'[k] = "open",
         pc = "claiming" => claim'[r] \in {"waiting", "consumed"}
  PROVE  Knows(w, worker[w])'
  <1>0. TypeOK /\ Knows(w, worker[w])
    BY DEF Repeating, Inductive, ReadsInductive
  <1>1. PICK x : x = [worker[w] EXCEPT !.pc = pc]
    OBVIOUS
  <1>2. worker[w] \in WorkerFields
    BY <1>0, WorkerStatesAre DEF TypeOK
  <1>3. /\ x.pc = pc /\ x.outcome = worker[w].outcome /\ x.status = worker[w].status
        /\ x.ticket = worker[w].ticket /\ x.asked = worker[w].asked /\ x.todo = worker[w].todo
    BY <1>1, <1>2 DEF WorkerFields
  <1>4. worker' = [worker EXCEPT ![w] = x]
    BY <1>1 DEF Goto
  <1>5. Prepared(r, x.status)'
    <2>1. PICK status : status = worker[w].status
      OBVIOUS
    <2>2. Prepared(r, status)'
      BY <2>1, StatusStaysKnown
    <2> QED
      BY <1>3, <2>1, <2>2
  <1>6. \A k \in x.asked \cup x.outcome.cards : ~SafeTask(k)'
    BY <1>3, CardsStayKnown
  <1>7. pc \in {"closing_task", "publishing_card"} => x.asked \subseteq CandidatesOf(r)
    BY <1>0, <1>3 DEF Knows
  <1>8. PICK k : k = Head(worker[w].todo)
    OBVIOUS
  <1>9. pc = "closing_task" => SafeTask(k)' /\ task'[k] = "open"
    BY <1>8
  <1>10. Knows(w, x)'
    BY <1>3, <1>5, <1>6, <1>7, <1>8, <1>9 DEF Knows
  <1> QED
    BY <1>0, <1>4, <1>10, RecordKnows

LEMMA PassKnows ==
  ASSUME Repeating, [Next]_vars, NEW w \in Workers, worker[w].pc # "idle",
         NEW r \in Runs, r = worker[w].ticket.run,
         NEW next, next # "failed", NEW evidence, NEW cards, \A k \in cards : ~SafeTask(k),
         Decide(w, Outcome(next, evidence, cards)),
         next = "assigning_visuals" => Outlined(r)',
         worker[w].status = "assigning_visuals" => bound'[r]["confirmation"] # Nobody
  PROVE  Knows(w, worker[w])'
  <1>1. PICK s : s = worker[w]
    OBVIOUS
  <1> QED
    BY <1>1, DecideKnows

\* What is earlier stays so.
LEMMA EarlierStays ==
  ASSUME NEW w, NEW s, NEW r, r = s.ticket.run, EarlierWork(w, s), replaced \subseteq replaced',
         lapsed \subseteq lapsed', bound'[r] = bound[r], outline'[r] = outline[r],
         requirement'[r] = requirement[r]
  PROVE  EarlierWork(w, s)'
  BY DEF EarlierWork, Outdated, CandidatesOf

\* What every thread inside a handler knows before its step.
LEMMA HandlerKnows ==
  ASSUME Repeating, NEW w \in Workers, PhaseStep(w)
  PROVE  /\ worker[w].pc \notin {"idle", "reading", "returning"}
         /\ TypeOK /\ Knows(w, worker[w]) /\ LocalsBacked(worker[w]) /\ LocalsAsk(worker[w])
         /\ worker[w] \in WorkerFields /\ WorkerRules(worker[w]) /\ ActorOf(w) \in Actors
         /\ \E r \in Runs : r = worker[w].ticket.run /\ r = RunOf(w)
  <1>1. worker[w].pc \notin {"idle", "reading", "returning"}
    BY DEF PhaseStep, StartPhase, ImportPhase, OrganizePhase, OrganizeCard, CloseSafeTask,
           PublishCard, OrganizeEnd, EnqueueIndex, AdoptClaim, ClaimIndex, CompleteIndex,
           IndexEnd, MeetReplaced, ComposePhase, OutlinePhase, AssignVisualsPhase, ValidatePhase, InHandler
  <1>2. TypeOK /\ Knows(w, worker[w]) /\ LocalsBacked(worker[w]) /\ LocalsAsk(worker[w])
    BY <1>1 DEF Repeating, Inductive, ReadsInductive, Backed, AllAsk
  <1>3. worker[w] \in WorkerFields /\ WorkerRules(worker[w])
    BY <1>2, WorkerStatesAre DEF TypeOK
  <1> QED
    BY <1>1, <1>2, <1>3, ThreadRun, HandlerFacts

\* The cards are organized without an error, unless one of them has been replaced.
LEMMA OrganizingKnows ==
  ASSUME Repeating, QuestionsFit, [Next]_vars, NEW w \in Workers, PhaseStep(w),
         \/ StartPhase(w) \/ ImportPhase(w) \/ OrganizePhase(w) \/ OrganizeCard(w)
         \/ CloseSafeTask(w) \/ PublishCard(w) \/ OrganizeEnd(w)
  PROVE  Knows(w, worker[w])'
  <1>0. /\ worker[w].pc \notin {"idle", "reading", "returning"}
        /\ TypeOK /\ Knows(w, worker[w]) /\ LocalsBacked(worker[w]) /\ LocalsAsk(worker[w])
        /\ worker[w] \in WorkerFields /\ WorkerRules(worker[w]) /\ ActorOf(w) \in Actors
    BY HandlerKnows
  <1>1. PICK r \in Runs : r = worker[w].ticket.run /\ r = RunOf(w)
    BY HandlerKnows
  <1>2. CASE StartPhase(w)
    <2>1. PICK e : Decide(w, Outcome("importing", e, {}))
      BY <1>2 DEF StartPhase
    <2>2. worker[w].status # "assigning_visuals"
      BY <1>2 DEF StartPhase, InHandler
    <2>3. PICK next, cards : next = "importing" /\ cards = {}
      OBVIOUS
    <2>4. /\ worker[w].pc # "idle" /\ next # "failed" /\ \A c \in cards : ~SafeTask(c)
          /\ next # "assigning_visuals" /\ Decide(w, Outcome(next, e, cards))
      BY <1>0, <2>1, <2>3
    <2> QED
      BY <1>1, <2>2, <2>4, PassKnows
  <1>3. CASE ImportPhase(w)
    <2>1. PICK next, e : /\ next \in {"organizing_knowledge", "needs_attention"}
                         /\ Decide(w, Outcome(next, e, {}))
      BY <1>3 DEF ImportPhase
    <2>2. worker[w].status # "assigning_visuals"
      BY <1>3 DEF ImportPhase, InHandler
    <2>3. PICK cards : cards = {}
      OBVIOUS
    <2>4. /\ worker[w].pc # "idle" /\ next # "failed" /\ \A c \in cards : ~SafeTask(c)
          /\ next # "assigning_visuals" /\ Decide(w, Outcome(next, e, cards))
      BY <1>0, <2>1, <2>3
    <2> QED
      BY <1>1, <2>2, <2>4, PassKnows
  <1>4. PICK k : k = Head(worker[w].todo)
    OBVIOUS
  <1>5. worker[w].todo # << >> /\ worker[w].pc \in {"organizing", "closing_task", "publishing_card"} =>
          k \in CandidatesOf(r)
    <2>1. worker[w].todo \in Seq(Cards)
      BY <1>0 DEF WorkerFields
    <2>2. worker[w].todo # << >> => 1 \in 1..Len(worker[w].todo) /\ k = worker[w].todo[1]
      BY <1>4, <2>1
    <2> QED
      BY <1>0, <1>1, <2>2 DEF LocalsAsk
  <1>6. ASSUME NEW asked, NEW todo, NEW x, asked \subseteq CandidatesOf(r), \A c \in asked : ~SafeTask(c)',
               x = [worker[w] EXCEPT !.pc = "organizing", !.todo = todo, !.asked = asked],
               worker' = [worker EXCEPT ![w] = x]
        PROVE  Knows(w, worker[w])'
    <2>1. /\ x.pc = "organizing" /\ x.asked = asked /\ x.ticket = worker[w].ticket
          /\ x.status = worker[w].status /\ x.outcome = worker[w].outcome
      BY <1>0, <1>6 DEF WorkerFields
    <2>2. PICK status : status = worker[w].status
      OBVIOUS
    <2>3. Prepared(r, status)'
      BY <1>0, <1>1, <2>2, StatusStaysKnown
    <2>4. \A c \in x.outcome.cards : ~SafeTask(c)'
      BY <2>1, CardsStayKnown
    <2>5. Knows(w, x)'
      BY <1>1, <1>6, <2>1, <2>2, <2>3, <2>4 DEF Knows
    <2> QED
      BY <1>0, <1>6, <2>5, RecordKnows
  <1>7. CASE OrganizePhase(w)
    <2>1. PICK x : x = [worker[w] EXCEPT !.pc = "organizing", !.todo = CardsOf[r], !.asked = {}]
      OBVIOUS
    <2>2. worker' = [worker EXCEPT ![w] = x]
      BY <1>1, <1>7, <2>1 DEF OrganizePhase
    <2>3. PICK asked, todo : asked = {} /\ todo = CardsOf[r]
      OBVIOUS
    <2>4. x = [worker[w] EXCEPT !.pc = "organizing", !.todo = todo, !.asked = asked]
      BY <2>1, <2>3
    <2>5. asked \subseteq CandidatesOf(r) /\ \A c \in asked : ~SafeTask(c)'
      BY <2>3
    <2> QED
      BY <1>6, <2>2, <2>4, <2>5
  <1>8. worker[w].pc \in {"organizing", "publishing_card"} =>
          worker[w].asked \subseteq CandidatesOf(r) /\ \A c \in worker[w].asked : ~SafeTask(c)'
    BY <1>0, <1>1, CardsStayKnown DEF Knows
  <1>9. CASE OrganizeCard(w)
    <2>1. /\ worker[w].pc = "organizing" /\ worker[w].todo # << >>
          /\ published' = published /\ task' = task
      BY <1>9 DEF OrganizeCard, materialVars
    <2>2. CASE KindOf[k] = "unsafe_visual" \/ (task[k] = "open" /\ ~SafeTask(k))
      <3>1. PICK todo, asked : todo = Tail(worker[w].todo) /\ asked = worker[w].asked \cup {k}
        OBVIOUS
      <3>2. PICK x : x = [worker[w] EXCEPT !.todo = todo, !.asked = asked]
        OBVIOUS
      <3>3. worker' = [worker EXCEPT ![w] = x]
        BY <1>4, <1>9, <2>2, <3>1, <3>2 DEF OrganizeCard
      <3>4. x = [worker[w] EXCEPT !.pc = "organizing", !.todo = todo, !.asked = asked]
        BY <1>0, <2>1, <3>2 DEF WorkerFields
      <3>5. ~SafeTask(k)'
        BY <2>1, <2>2 DEF SafeTask
      <3>6. asked \subseteq CandidatesOf(r) /\ \A c \in asked : ~SafeTask(c)'
        BY <1>5, <1>8, <2>1, <3>1, <3>5
      <3> QED
        BY <1>6, <3>3, <3>4, <3>6
    <2>3. CASE ~(KindOf[k] = "unsafe_visual" \/ (task[k] = "open" /\ ~SafeTask(k)))
      <3>1. PICK pc \in {"closing_task", "publishing_card"} :
              Goto(w, pc) /\ (pc = "closing_task" => task[k] = "open")
        BY <1>4, <1>9, <2>3 DEF OrganizeCard
      <3>2. pc = "closing_task" => SafeTask(k)' /\ task'[k] = "open"
        BY <2>1, <2>3, <3>1 DEF SafeTask
      <3>3. pc \in {"closing_task", "publishing_card"} => worker[w].pc \in {"organizing"}
        BY <2>1
      <3> QED
        BY <1>0, <1>1, <1>4, <2>1, <3>1, <3>2, GotoKnows
    <2> QED
      BY <2>2, <2>3
  <1>10. CASE CloseSafeTask(w)
    <2>1. worker[w].pc = "closing_task" /\ task[k] = "open"
      BY <1>0, <1>4, <1>10 DEF CloseSafeTask, Knows
    <2>2. Goto(w, "publishing_card")
      BY <1>4, <1>10, <2>1 DEF CloseSafeTask
    <2> QED
      BY <1>0, <1>1, <2>1, <2>2, GotoKnows
  <1>11. CASE PublishCard(w)
    <2>1. worker[w].pc = "publishing_card" /\ worker[w].todo # << >> /\ replaced' = replaced
      BY <1>0, <1>11 DEF PublishCard, WorkerRules
    <2>2. CASE k \in replaced
      <3>1. PICK s : s = worker[w]
        OBVIOUS
      <3>2. /\ Fail(w) /\ s.status = "organizing_knowledge" /\ s.ticket.run = r
            /\ k \in CandidatesOf(r) \cap replaced'
        BY <1>0, <1>1, <1>4, <1>5, <1>11, <2>1, <2>2, <3>1 DEF PublishCard, LocalsBacked, Organizing
      <3>3. EarlierWork(w, s)'
        BY <3>2 DEF EarlierWork, CandidatesOf
      <3> QED
        BY <1>0, <1>1, <3>1, <3>2, <3>3, FailKnows
    <2>3. CASE k \notin replaced
      <3>1. PICK todo, asked : todo = Tail(worker[w].todo) /\ asked = worker[w].asked
        OBVIOUS
      <3>2. PICK x : x = [worker[w] EXCEPT !.pc = "organizing", !.todo = todo]
        OBVIOUS
      <3>3. worker' = [worker EXCEPT ![w] = x]
        BY <1>4, <1>11, <2>3, <3>1, <3>2 DEF PublishCard
      <3>4. x = [worker[w] EXCEPT !.pc = "organizing", !.todo = todo, !.asked = asked]
        BY <1>0, <3>1, <3>2 DEF WorkerFields
      <3> QED
        BY <1>6, <1>8, <2>1, <3>1, <3>3, <3>4
    <2> QED
      BY <2>2, <2>3
  <1>12. CASE OrganizeEnd(w)
    <2>1. worker[w].pc = "organizing" /\ worker[w].status = "organizing_knowledge"
      BY <1>0, <1>12 DEF OrganizeEnd, LocalsBacked, Organizing
    <2>2. worker[w].asked \subseteq CandidatesOf(r) /\ \A c \in worker[w].asked : ~SafeTask(c)
      BY <1>0, <1>1, <2>1 DEF Knows
    <2>3. Cardinality(worker[w].asked) <= AttentionLimit
      <3>1. IsFiniteSet(CandidatesOf(r)) /\ Cardinality(CandidatesOf(r)) \in Nat
        BY <1>0, CandidateTypes, CardsAreFinite
      <3>2. IsFiniteSet(worker[w].asked) /\ Cardinality(worker[w].asked) <= Cardinality(CandidatesOf(r))
        BY <2>2, <3>1, FS_Subset
      <3>3. Cardinality(worker[w].asked) \in Nat
        BY <3>2, FS_CardinalityType
      <3> QED
        BY <3>1, <3>2, <3>3, ConstantsAssumption DEF QuestionsFit, ConstantsAssumption
    <2>4. CASE Goto(w, "enqueueing")
      BY <1>0, <1>1, <2>4, GotoKnows
    <2>5. ASSUME NEW e, Decide(w, Outcome("needs_attention", e, worker[w].asked))
          PROVE  Knows(w, worker[w])'
      <3>1. PICK asked : asked = worker[w].asked
        OBVIOUS
      <3>2. PICK next : next = "needs_attention"
        OBVIOUS
      <3>3. /\ worker[w].pc # "idle" /\ next # "failed" /\ \A c \in asked : ~SafeTask(c)
            /\ next # "assigning_visuals" /\ Decide(w, Outcome(next, e, asked))
            /\ worker[w].status # "assigning_visuals"
        BY <2>1, <2>2, <2>5, <3>1, <3>2
      <3> QED
        BY <1>1, <3>3, PassKnows
    <2>6. PICK e : Goto(w, "enqueueing") \/ Cardinality(worker[w].asked) > AttentionLimit
                     \/ Decide(w, Outcome("needs_attention", e, worker[w].asked))
      BY <1>12 DEF OrganizeEnd, HeldBack
    <2>7. ~(Cardinality(worker[w].asked) > AttentionLimit)
      <3>1. Cardinality(worker[w].asked) \in Nat /\ AttentionLimit \in Nat
        BY <1>0, CandidateTypes, <2>2, CardsAreFinite, ConstantsAssumption DEF ConstantsAssumption
      <3> QED
        BY <2>3, <3>1
    <2> QED
      BY <2>4, <2>5, <2>6, <2>7
  <1> QED
    BY <1>2, <1>3, <1>7, <1>9, <1>10, <1>11, <1>12

\* The run's cards are indexed without an error, unless another actor did, or another job
\* found the lease expired, or there is more to index than may be attempted.
LEMMA IndexingKnows ==
  ASSUME Repeating, QuestionsFit, [Next]_vars, NEW w \in Workers, PhaseStep(w),
         EnqueueIndex(w) \/ AdoptClaim(w) \/ ClaimIndex(w) \/ CompleteIndex(w) \/ IndexEnd(w)
  PROVE  Knows(w, worker[w])'
  <1>0. /\ worker[w].pc \notin {"idle", "reading", "returning"}
        /\ TypeOK /\ Knows(w, worker[w]) /\ LocalsBacked(worker[w])
        /\ worker[w] \in WorkerFields /\ WorkerRules(worker[w])
    BY HandlerKnows
  <1>1. PICK r \in Runs : r = worker[w].ticket.run /\ r = RunOf(w)
    BY HandlerKnows
  <1>2. /\ claim \in [Runs -> {"none", "waiting", "consumed"} \cup Workers]
        /\ bound \in [Runs -> [Artifacts -> Actors \cup {Nobody}]]
        /\ outbox \in Seq(Runs) /\ Workers \cap {"none", "waiting", "consumed"} = {}
    BY <1>0, ConstantsAssumption DEF TypeOK, ConstantsAssumption
  <1>3. claim[r] # "none" => \E i \in DOMAIN outbox : outbox[i] = r
    BY <1>2 DEF Repeating, WorkIsFound
  <1>4. worker[w].pc # "idle"
    BY <1>0
  <1>5. CASE EnqueueIndex(w)
    <2>1. worker[w].status = "organizing_knowledge"
      BY <1>0, <1>5 DEF EnqueueIndex, LocalsBacked, Organizing
    <2>2. PICK s : s = worker[w]
      OBVIOUS
    <2>3. CASE worker' = [worker EXCEPT ![w] = [@ EXCEPT !.pc = "adopting", !.claims = 0]]
      <3>1. PICK x : x = [worker[w] EXCEPT !.pc = "adopting", !.claims = 0]
        OBVIOUS
      <3>2. worker' = [worker EXCEPT ![w] = x]
        BY <2>3, <3>1
      <3>3. /\ x.pc = "adopting" /\ x.ticket = worker[w].ticket /\ x.asked = worker[w].asked
            /\ x.status = worker[w].status /\ x.outcome = worker[w].outcome
        BY <1>0, <3>1 DEF WorkerFields
      <3>4. PICK status : status = worker[w].status
        OBVIOUS
      <3>5. Prepared(r, status)'
        BY <1>1, <1>4, <3>4, StatusStaysKnown
      <3>6. \A c \in x.asked \cup x.outcome.cards : ~SafeTask(c)'
        BY <3>3, CardsStayKnown
      <3>7. Knows(w, x)'
        BY <1>1, <3>3, <3>4, <3>5, <3>6 DEF Knows
      <3> QED
        BY <1>0, <3>2, <3>7, RecordKnows
    <2>4. CASE Fail(w) /\ ~(CandidatesOf(r) # {} /\ MayCommit(r, "index", ActorOf(w))) /\ bound' = bound
      <3>1. CandidatesOf(r) # {} => bound'[r]["index"] \notin {Nobody, s.ticket.actor}
        <4>1. CandidatesOf(r) # {} => bound[r]["index"] \notin {Nobody, ActorOf(w)}
          BY <2>4 DEF MayCommit
        <4> QED
          BY <2>2, <2>4, <4>1 DEF ActorOf
      <3>2. /\ s.status \in DOMAIN BoundIn /\ BoundIn[s.status] = "index" /\ s.ticket.run = r
        <4>1. "organizing_knowledge" \in DOMAIN BoundIn /\ BoundIn["organizing_knowledge"] = "index"
          BY DEF BoundIn
        <4> QED
          BY <1>1, <2>1, <2>2, <4>1
      <3>3. CandidatesOf(r) # {} => bound'[r][BoundIn[s.status]] \notin {Nobody, s.ticket.actor}
        BY <3>1, <3>2
      <3>4. CandidatesOf(r) # {} => EarlierWork(w, s)'
        BY <3>2, <3>3 DEF EarlierWork
      <3> QED
        BY <1>1, <1>4, <2>2, <2>4, <3>4, FailKnows
    <2> QED
      BY <1>1, <1>5, <2>3, <2>4 DEF EnqueueIndex
  <1>6. CASE AdoptClaim(w)
    <2>1. claim[r] # "none"
      BY <1>0, <1>1, <1>6 DEF AdoptClaim, LocalsBacked
    <2>2. claim'[r] \in {"waiting", "consumed"}
      BY <1>1, <1>2, <1>6, <2>1 DEF AdoptClaim
    <2>3. Goto(w, "claiming")
      BY <1>6 DEF AdoptClaim
    <2> QED
      BY <1>1, <1>4, <2>2, <2>3, GotoKnows
  <1>7. CASE ClaimIndex(w)
    <2>1. claim[r] # "none" /\ (worker[w].pc = "claiming" => claim[r] = "waiting")
      BY <1>0, <1>1, <1>7 DEF ClaimIndex, LocalsBacked, Knows
    <2>2. PICK E \in SUBSET {s \in Runs : claim[s] \in Workers} :
            /\ worker[w].pc = "adopting" => r \in E
            /\ \/ Claimable(E) = {}
               \/ \E i \in Claimable(E) :
                    /\ claim' = [s \in Runs |-> IF s = outbox[i] THEN w
                                                ELSE IF s \in E THEN "waiting" ELSE claim[s]]
                    /\ worker' = [worker EXCEPT ![w] = [@ EXCEPT !.pc = "indexing", !.item = outbox[i],
                                                                 !.claims = worker[w].claims + 1]]
      BY <1>1, <1>7 DEF ClaimIndex
    <2>3. r \in E \/ claim[r] = "waiting"
      BY <1>7, <2>1, <2>2 DEF ClaimIndex
    <2>4. Claimable(E) # {}
      BY <1>3, <2>1, <2>3 DEF Claimable
    <2>5. PICK i \in Claimable(E) :
            /\ claim' = [s \in Runs |-> IF s = outbox[i] THEN w
                                        ELSE IF s \in E THEN "waiting" ELSE claim[s]]
            /\ worker' = [worker EXCEPT ![w] = [@ EXCEPT !.pc = "indexing", !.item = outbox[i],
                                                         !.claims = worker[w].claims + 1]]
      BY <2>2, <2>4
    <2>6. PICK item, claims : item = outbox[i] /\ claims = worker[w].claims + 1
      OBVIOUS
    <2>7. PICK x : x = [worker[w] EXCEPT !.pc = "indexing", !.item = item, !.claims = claims]
      OBVIOUS
    <2>8. worker' = [worker EXCEPT ![w] = x]
      BY <2>5, <2>6, <2>7
    <2>9. /\ x.pc = "indexing" /\ x.item = item /\ x.ticket = worker[w].ticket /\ x.asked = worker[w].asked
          /\ x.status = worker[w].status /\ x.outcome = worker[w].outcome
      BY <1>0, <2>7 DEF WorkerFields
    <2>10. claim'[r] # "none" /\ (claim'[r] \in Workers => item = r)
      BY <1>2, <2>1, <2>2, <2>3, <2>5, <2>6
    <2>11. PICK status : status = worker[w].status
      OBVIOUS
    <2>12. Prepared(r, status)'
      BY <1>1, <1>4, <2>11, StatusStaysKnown
    <2>13. \A c \in x.asked \cup x.outcome.cards : ~SafeTask(c)'
      BY <2>9, CardsStayKnown
    <2>14. Knows(w, x)'
      BY <1>1, <2>9, <2>10, <2>11, <2>12, <2>13 DEF Knows
    <2> QED
      BY <1>0, <2>8, <2>14, RecordKnows
  <1>8. CASE CompleteIndex(w)
    <2>1. /\ claim[r] # "none" /\ (claim[r] \in Workers => worker[w].item = r)
          /\ worker[w].status = "organizing_knowledge" /\ lapsed' = lapsed
      BY <1>0, <1>1, <1>8 DEF CompleteIndex, Knows, LocalsBacked, Organizing
    <2>2. CASE w \in lapsed
      <3>1. PICK s : s = worker[w]
        OBVIOUS
      <3>2. Fail(w) /\ EarlierWork(w, s)'
        BY <1>8, <2>1, <2>2, <3>1 DEF CompleteIndex, EarlierWork
      <3> QED
        BY <1>1, <1>4, <3>1, <3>2, FailKnows
    <2>3. CASE w \notin lapsed
      <3>1. claim' = [claim EXCEPT ![worker[w].item] = "consumed"] /\ Goto(w, "claiming")
        BY <1>8, <2>3 DEF CompleteIndex
      <3>2. claim'[r] \in {"waiting", "consumed"}
        BY <1>2, <2>1, <3>1
      <3> QED
        BY <1>1, <1>4, <3>1, <3>2, GotoKnows
    <2> QED
      BY <2>2, <2>3
  <1>9. CASE IndexEnd(w)
    <2>1. worker[w].status = "organizing_knowledge"
      BY <1>0, <1>9 DEF IndexEnd, LocalsBacked, Organizing
    <2>2. CASE Fail(w) /\ worker[w].claims = IndexCeiling
      <3>1. PICK s : s = worker[w]
        OBVIOUS
      <3>2. EarlierWork(w, s)'
        BY <2>1, <2>2, <3>1 DEF EarlierWork
      <3> QED
        BY <1>1, <1>4, <2>2, <3>1, <3>2, FailKnows
    <2>3. ASSUME NEW next, NEW e, NEW cards, next = "composing", cards = {}, Decide(w, Outcome(next, e, cards))
          PROVE  Knows(w, worker[w])'
      <3>1. /\ next # "failed" /\ next # "assigning_visuals" /\ \A c \in cards : ~SafeTask(c)
            /\ worker[w].status # "assigning_visuals"
        BY <2>1, <2>3
      <3> QED
        BY <1>1, <1>4, <2>3, <3>1, PassKnows
    <2> QED
      BY <1>9, <2>2, <2>3 DEF IndexEnd
  <1> QED
    BY <1>5, <1>6, <1>7, <1>8, <1>9

\* The course is composed, illustrated and published without an error, unless another
\* actor did, or the outline is over an earlier index, or a card has been replaced.
LEMMA CourseKnows ==
  ASSUME Repeating, [Next]_vars, NEW w \in Workers, PhaseStep(w),
         ComposePhase(w) \/ OutlinePhase(w) \/ MeetReplaced(w) \/ AssignVisualsPhase(w) \/ ValidatePhase(w)
  PROVE  Knows(w, worker[w])'
  <1>0. /\ worker[w].pc \notin {"idle", "reading", "returning"}
        /\ TypeOK /\ Knows(w, worker[w]) /\ LocalsBacked(worker[w]) /\ Backed
        /\ worker[w] \in WorkerFields /\ ActorOf(w) \in Actors
    BY HandlerKnows DEF Repeating, Inductive
  <1>1. PICK r \in Runs : r = worker[w].ticket.run /\ r = RunOf(w)
    BY HandlerKnows
  <1>2. /\ bound \in [Runs -> [Artifacts -> Actors \cup {Nobody}]]
        /\ requirement \in [Runs -> SUBSET Cards] /\ outline \in [Runs -> Nat]
        /\ snapshot \in Nat /\ worker[w].over \in Nat
    BY <1>0 DEF TypeOK, WorkerFields
  <1>3. worker[w].pc # "idle" /\ Prepared(r, worker[w].status)
    BY <1>0, <1>1 DEF Knows
  <1>4. ASSUME NEW next, NEW e, NEW cards, cards = {}, next # "failed",
               Decide(w, Outcome(next, e, cards)), next = "assigning_visuals" => Outlined(r)',
               worker[w].status = "assigning_visuals" => bound'[r]["confirmation"] # Nobody
        PROVE  Knows(w, worker[w])'
    <2>1. \A c \in cards : ~SafeTask(c)
      BY <1>4
    <2> QED
      BY <1>1, <1>3, <1>4, <2>1, PassKnows
  <1>5. CASE ComposePhase(w)
    <2>1. worker[w].status = "composing"
      BY <1>5 DEF ComposePhase, InHandler
    <2>2. claim[r] = "consumed" /\ Basis(r)
      BY <1>0, <1>1, <1>3, <2>1 DEF LocalsBacked, Late, Backed
    <2>3. snapshot # 0 /\ CandidatesOf(r) \subseteq published
      BY <2>2 DEF Repeating, WorkIsFound, Basis
    <2>4. CandidatesOf(r) \cap replaced = {} =>
            requirement[r] \in {{}, PublishedOf(r)} /\ PublishedOf(r) = CandidatesOf(r)
      BY <2>2, <2>3 DEF Basis, PublishedOf
    <2>5. CASE ~(PublishedOf(r) # {} /\ requirement[r] \in {{}, PublishedOf(r)})
      <3>1. PICK s : s = worker[w]
        OBVIOUS
      <3>2. /\ Fail(w) /\ replaced' = replaced
            /\ s.status = "composing" /\ s.ticket.run = r
        BY <1>1, <1>5, <2>1, <2>5, <3>1 DEF ComposePhase, materialVars
      <3>3. CandidatesOf(r) # {} => CandidatesOf(r) \cap replaced # {}
        BY <2>4, <2>5
      <3>4. CandidatesOf(r) # {} => EarlierWork(w, s)'
        BY <3>2, <3>3 DEF EarlierWork, CandidatesOf
      <3> QED
        BY <1>1, <1>3, <3>1, <3>2, <3>4, FailKnows
    <2>6. CASE PublishedOf(r) # {} /\ requirement[r] \in {{}, PublishedOf(r)}
      <3>1. PICK x : x = [worker[w] EXCEPT !.pc = "outlining", !.over = snapshot]
        OBVIOUS
      <3>2. worker' = [worker EXCEPT ![w] = x]
        BY <1>1, <1>5, <2>3, <2>6, <3>1 DEF ComposePhase
      <3>3. /\ x.pc = "outlining" /\ x.ticket = worker[w].ticket /\ x.asked = worker[w].asked
            /\ x.status = worker[w].status /\ x.outcome = worker[w].outcome
        BY <1>0, <3>1 DEF WorkerFields
      <3>4. PICK status : status = worker[w].status
        OBVIOUS
      <3>5. Prepared(r, status)'
        BY <1>1, <1>3, <3>4, StatusStaysKnown
      <3>6. \A c \in x.asked \cup x.outcome.cards : ~SafeTask(c)'
        BY <3>3, CardsStayKnown
      <3>7. Knows(w, x)'
        BY <1>1, <3>3, <3>4, <3>5, <3>6 DEF Knows
      <3> QED
        BY <1>0, <3>2, <3>7, RecordKnows
    <2> QED
      BY <2>5, <2>6
  <1>6. CASE OutlinePhase(w)
    <2>1. /\ worker[w].status = "composing" /\ requirement[r] # {} /\ worker[w].over # 0
          /\ UNCHANGED <<bound, task, requirement>>
      BY <1>0, <1>1, <1>2, <1>6 DEF OutlinePhase, LocalsBacked, materialVars
    <2>2. CASE Fail(w) /\ outline' = outline /\ outline[r] \notin {0, worker[w].over}
      <3>1. PICK s : s = worker[w]
        OBVIOUS
      <3>2. s.ticket.run = r /\ s.status = "composing" /\ s.over # 0 /\ outline'[r] \notin {0, s.over}
        BY <1>1, <2>1, <2>2, <3>1
      <3>3. EarlierWork(w, s)'
        BY <3>2 DEF EarlierWork
      <3> QED
        BY <1>1, <1>3, <2>2, <3>1, <3>3, FailKnows
    <2>3. CASE outline' = [outline EXCEPT ![r] = worker[w].over]
                /\ \E e : Decide(w, Outcome("assigning_visuals", e, {}))
      <3>1. PICK next, e, cards : next = "assigning_visuals" /\ cards = {} /\ Decide(w, Outcome(next, e, cards))
        BY <2>3
      <3>2. Outlined(r)'
        BY <1>2, <2>1, <2>3 DEF Outlined
      <3>3. next # "failed" /\ worker[w].status # "assigning_visuals"
        BY <2>1, <3>1
      <3> QED
        BY <1>4, <3>1, <3>2, <3>3
    <2>4. CASE \E e : Decide(w, Outcome("needs_attention", e, {}))
      <3>1. PICK next, e, cards : next = "needs_attention" /\ cards = {} /\ Decide(w, Outcome(next, e, cards))
        BY <2>4
      <3>2. next # "failed" /\ next # "assigning_visuals" /\ worker[w].status # "assigning_visuals"
        BY <2>1, <3>1
      <3> QED
        BY <1>4, <3>1, <3>2
    <2> QED
      BY <1>1, <1>6, <2>2, <2>3, <2>4 DEF OutlinePhase
  <1>7. ASSUME NEW a, worker[w].status \in DOMAIN BoundIn, a = BoundIn[worker[w].status],
               Fail(w), bound' = bound, ~MayCommit(r, a, ActorOf(w))
        PROVE  Knows(w, worker[w])'
    <2>1. PICK s : s = worker[w]
      OBVIOUS
    <2>2. s.ticket.run = r /\ bound'[r][BoundIn[s.status]] \notin {Nobody, s.ticket.actor}
      BY <1>1, <1>7, <2>1 DEF MayCommit, ActorOf
    <2>3. EarlierWork(w, s)'
      BY <1>7, <2>1, <2>2 DEF EarlierWork
    <2> QED
      BY <1>1, <1>3, <1>7, <2>1, <2>3, FailKnows
  <1>8. "confirmation" \in Artifacts /\ "publication" \in Artifacts
    BY DEF Artifacts
  <1>9. ASSUME worker[w].status \in {"composing", "assigning_visuals", "validating"},
               worker[w].status = "composing" => requirement[r] \subseteq CandidatesOf(r),
               Outdated(r), Fail(w), UNCHANGED <<requirement, replaced>>
        PROVE  Knows(w, worker[w])'
    <2>1. PICK s : s = worker[w]
      OBVIOUS
    <2>2. s.ticket.run = r /\ Outdated(r)'
      BY <1>1, <1>9, <2>1 DEF Outdated
    <2>3. s.status = "composing" => (CandidatesOf(r) \cap replaced)' # {}
      BY <1>9, <2>1 DEF Outdated, CandidatesOf
    <2>4. EarlierWork(w, s)'
      BY <1>9, <2>1, <2>2, <2>3 DEF EarlierWork
    <2> QED
      BY <1>1, <1>3, <1>9, <2>1, <2>4, FailKnows
  <1>10. CASE MeetReplaced(w)
    <2>1. /\ worker[w].status \in {"composing", "assigning_visuals", "validating"}
          /\ Outdated(r) /\ Fail(w) /\ UNCHANGED <<requirement, replaced>>
      BY <1>0, <1>1, <1>10 DEF MeetReplaced, InHandler, LocalsBacked, materialVars, artifactVars
    <2>2. requirement[r] \subseteq CandidatesOf(r)
      BY <1>0, <2>1 DEF Backed, Basis, Outdated
    <2> QED
      BY <1>9, <2>1, <2>2
  <1>11. CASE AssignVisualsPhase(w)
    <2>1. worker[w].status = "assigning_visuals" /\ UNCHANGED <<requirement, replaced>>
      BY <1>11 DEF AssignVisualsPhase, InHandler, materialVars
    <2>2. requirement[r] # {} /\ outline[r] # 0
      BY <1>3, <2>1 DEF Prepared, Outlined
    <2>3. CASE Fail(w) /\ bound' = bound /\ ~MayCommit(r, "confirmation", ActorOf(w))
      <3>1. worker[w].status \in DOMAIN BoundIn /\ BoundIn[worker[w].status] = "confirmation"
        BY <2>1 DEF BoundIn
      <3> QED
        BY <1>7, <2>3, <3>1
    <2>4. CASE Outdated(r) /\ Fail(w)
      BY <1>9, <2>1, <2>4
    <2>5. CASE /\ Commit(r, "confirmation", ActorOf(w))
                /\ \E next \in {"validating", "needs_attention"} : \E e : Decide(w, Outcome(next, e, {}))
      <3>1. PICK next, e, cards :
              /\ next \in {"validating", "needs_attention"} /\ cards = {}
              /\ Decide(w, Outcome(next, e, cards))
        BY <2>5
      <3>2. bound'[r]["confirmation"] # Nobody
        <4>1. ActorOf(w) # Nobody
          BY <1>0 DEF Actors, Nobody
        <4> QED
          BY <1>2, <1>8, <2>5, <4>1 DEF Commit
      <3>3. next # "failed" /\ next # "assigning_visuals"
        BY <3>1
      <3> QED
        BY <1>4, <3>1, <3>2, <3>3
    <2> QED
      BY <1>1, <1>11, <2>2, <2>3, <2>4, <2>5 DEF AssignVisualsPhase
  <1>12. CASE ValidatePhase(w)
    <2>1. worker[w].status = "validating"
      BY <1>12 DEF ValidatePhase, InHandler
    <2>2. Visualized(r)
      BY <1>3, <2>1 DEF Prepared
    <2>3. CASE Fail(w) /\ bound' = bound /\ ~MayCommit(r, "publication", ActorOf(w))
      <3>1. worker[w].status \in DOMAIN BoundIn /\ BoundIn[worker[w].status] = "publication"
        BY <2>1 DEF BoundIn
      <3> QED
        BY <1>7, <2>3, <3>1
    <2>4. CASE \E e : Decide(w, Outcome("ready", e, {}))
      <3>1. PICK next, e, cards : next = "ready" /\ cards = {} /\ Decide(w, Outcome(next, e, cards))
        BY <2>4
      <3>2. next # "failed" /\ next # "assigning_visuals" /\ worker[w].status # "assigning_visuals"
        BY <2>1, <3>1
      <3> QED
        BY <1>4, <3>1, <3>2
    <2> QED
      BY <1>1, <1>12, <2>2, <2>3, <2>4 DEF ValidatePhase, Visualized, Outlined
  <1> QED
    BY <1>5, <1>6, <1>10, <1>11, <1>12

\* The loop takes over what the row says.
LEMMA LoopKnows ==
  ASSUME Repeating, [Next]_vars, NEW w \in Workers,
         TakeTicket(w) \/ ReadRun(w) \/ AdvanceRun(w) \/ Finish(w)
  PROVE  Knows(w, worker[w])'
  <1>0. TypeOK /\ worker[w] \in WorkerFields
    BY WorkerStatesAre DEF Repeating, Inductive, ReadsInductive, TypeOK
  <1>1. CASE TakeTicket(w)
    <2>1. PICK t : t = Head(queue[Home[w]])
      OBVIOUS
    <2>2. PICK x : x = [IdleWorker EXCEPT !.pc = "reading", !.ticket = t]
      OBVIOUS
    <2>3. x.pc = "reading" /\ x.status = "absent" /\ x.asked = {} /\ x.outcome = NoOutcome
      BY <2>2 DEF IdleWorker
    <2>4. worker' = [worker EXCEPT ![w] = x]
      BY <1>1, <2>1, <2>2 DEF TakeTicket
    <2>5. x.outcome.cards = {}
      BY <2>3 DEF NoOutcome, Outcome
    <2>6. Knows(w, x)'
      BY <2>3, <2>5 DEF Knows, Prepared
    <2> QED
      BY <1>0, <2>4, <2>6, RecordKnows
  <1>2. CASE Finish(w)
    <2>1. PICK x : x = IdleWorker
      OBVIOUS
    <2>2. worker' = [worker EXCEPT ![w] = x] /\ x.pc = "idle" /\ x.asked = {} /\ x.outcome = NoOutcome
      BY <1>2, <2>1 DEF Finish, IdleWorker
    <2>3. Knows(w, x)'
      BY <2>2, IdleKnows
    <2> QED
      BY <1>0, <2>2, <2>3, RecordKnows
  <1>3. ASSUME NEW r \in Runs, r = worker[w].ticket.run, NEW x, worker' = [worker EXCEPT ![w] = x],
               x.pc \in {"handling", "reading", "returning"}, x.ticket = worker[w].ticket,
               x.asked = worker[w].asked, x.outcome = worker[w].outcome,
               NEW status, status = x.status, Prepared(r, status)'
        PROVE  Knows(w, worker[w])'
    <2>1. \A c \in x.asked \cup x.outcome.cards : ~SafeTask(c)'
      BY <1>3, CardsStayKnown
    <2>2. Knows(w, x)'
      BY <1>3, <2>1 DEF Knows
    <2> QED
      BY <1>0, <1>3, <2>2, RecordKnows
  <1>4. CASE ReadRun(w)
    <2>1. worker[w].pc # "idle"
      BY <1>4 DEF ReadRun
    <2>2. PICK r \in Runs : r = worker[w].ticket.run /\ r = RunOf(w)
      BY <1>0, <2>1, ThreadRun
    <2>3. CASE Goto(w, "returning")
      BY <2>1, <2>2, <2>3, GotoKnows
    <2>4. CASE ~Goto(w, "returning")
      <3>0. PICK pc, laps, status, revision :
              /\ pc = (IF row[r].status \in Settled THEN "returning" ELSE "handling")
              /\ laps = worker[w].laps + 1 /\ status = row[r].status /\ revision = row[r].revision
        OBVIOUS
      <3>1. /\ pc \in {"handling", "returning"} /\ status = row[r].status
            /\ worker' = [worker EXCEPT ![w] = [@ EXCEPT !.pc = pc, !.laps = laps, !.status = status,
                                                         !.revision = revision]]
        BY <1>4, <2>2, <2>4, <3>0 DEF ReadRun
      <3>2. PICK x : x = [worker[w] EXCEPT !.pc = pc, !.laps = laps, !.status = status,
                                           !.revision = revision]
        OBVIOUS
      <3>3. /\ x.pc = pc /\ x.ticket = worker[w].ticket /\ x.asked = worker[w].asked
            /\ x.outcome = worker[w].outcome /\ x.status = status
        BY <1>0, <3>2 DEF WorkerFields
      <3>4. Prepared(r, status)
        BY <3>1 DEF Repeating, WorkIsFound, RowIsPrepared
      <3>5. Prepared(r, status)'
        BY <3>4, PreparedStays DEF Repeating
      <3>6. worker' = [worker EXCEPT ![w] = x]
        BY <3>1, <3>2
      <3>7. x.pc \in {"handling", "reading", "returning"} /\ status = x.status
        BY <3>1, <3>3
      <3> QED
        BY <1>3, <2>2, <3>3, <3>5, <3>6, <3>7
    <2> QED
      BY <2>3, <2>4
  <1>5. CASE AdvanceRun(w)
    <2>1. worker[w].pc # "idle"
      BY <1>5 DEF AdvanceRun
    <2>2. PICK r \in Runs : r = worker[w].ticket.run /\ r = RunOf(w)
      BY <1>0, <2>1, ThreadRun
    <2>3. CASE Goto(w, "reading") \/ Goto(w, "returning")
      BY <2>1, <2>2, <2>3, GotoKnows
    <2>4. CASE ~(Goto(w, "reading") \/ Goto(w, "returning"))
      <3>0. PICK next, evidence, bundle, pc, revision :
              /\ next = worker[w].outcome.next /\ evidence = worker[w].outcome.evidence
              /\ bundle = [phase |-> worker[w].status, cards |-> worker[w].outcome.cards]
              /\ pc = (IF next \in Settled THEN "returning" ELSE "reading")
              /\ revision = row[r].revision + 1
        OBVIOUS
      <3>1. /\ pc \in {"reading", "returning"}
            /\ row' = [row EXCEPT ![r] = Advanced(row[r], next, evidence, bundle)]
            /\ worker' = [worker EXCEPT ![w] = [@ EXCEPT !.pc = pc, !.status = next,
                                                         !.revision = revision]]
        BY <1>5, <2>2, <2>4, <3>0 DEF AdvanceRun, AfterConflict
      <3>2. PICK x : x = [worker[w] EXCEPT !.pc = pc, !.status = next, !.revision = revision]
        OBVIOUS
      <3>3. /\ x.pc = pc /\ x.ticket = worker[w].ticket /\ x.asked = worker[w].asked
            /\ x.outcome = worker[w].outcome /\ x.status = next
        BY <1>0, <3>2 DEF WorkerFields
      <3>4. row'[r].status = next
        BY <1>0, <3>1, BundleBecomes
      <3>5. Prepared(r, next)'
        <4>1. RowKnows(r)'
          BY RowsPrepared
        <4> QED
          BY <3>4, <4>1 DEF RowKnows, RowIsPrepared
      <3>6. worker' = [worker EXCEPT ![w] = x]
        BY <3>1, <3>2
      <3>7. x.pc \in {"handling", "reading", "returning"} /\ next = x.status
        BY <3>1, <3>3
      <3> QED
        BY <1>3, <2>2, <3>3, <3>5, <3>6, <3>7
    <2> QED
      BY <2>3, <2>4
  <1> QED
    BY <1>1, <1>2, <1>4, <1>5

\* A thread that does not move still knows what it knew.
LEMMA RestKnows ==
  ASSUME Repeating, [Next]_vars, NEW w \in Workers, worker'[w] = worker[w],
         UNCHANGED <<published, bound, requirement, outline>>,
         replaced \subseteq replaced', lapsed \subseteq lapsed',
         \A r \in Runs : /\ claim[r] \in {"waiting", "consumed"} => claim'[r] \in {"waiting", "consumed"}
                         /\ claim[r] # "none" => claim'[r] # "none"
                         /\ claim'[r] \in Workers => claim[r] \in Workers,
         \A k \in Cards : task[k] = "open" /\ SafeTask(k) => task'[k] = "open"
  PROVE  Knows(w, worker[w])'
  <1>0. TypeOK /\ Stays /\ Knows(w, worker[w])
    BY StaysStep DEF Repeating, Inductive, ReadsInductive
  <1>1. PICK s : s = worker[w]
    OBVIOUS
  <1>2. \A c \in s.asked \cup s.outcome.cards : ~SafeTask(c)'
    BY <1>1, CardsStayKnown
  <1>3. CASE s.pc = "idle"
    <2>1. Knows(w, s)'
      BY <1>2, <1>3 DEF Knows
    <2> QED
      BY <1>1, <2>1
  <1>4. CASE s.pc # "idle"
    <2>1. PICK r \in Runs : r = s.ticket.run
      BY <1>0, <1>1, <1>4, ThreadRun
    <2>2. Knows(w, s)
      BY <1>0, <1>1
    <2>3. PICK status : status = s.status
      OBVIOUS
    <2>4. Prepared(r, status)'
      BY <1>1, <1>4, <2>1, <2>3, StatusStaysKnown
    <2>5. PICK k : k = Head(s.todo)
      OBVIOUS
    <2>6. s.pc = "closing_task" => SafeTask(k)' /\ task'[k] = "open"
      <3>1. SUFFICES ASSUME s.pc = "closing_task" PROVE SafeTask(k)' /\ task'[k] = "open"
        OBVIOUS
      <3>2. s.todo \in Seq(Cards) /\ s.todo # << >>
        BY <1>0, <1>1, <3>1, WorkerStatesAre DEF TypeOK, WorkerFields, WorkerRules
      <3>3. k \in Cards
        BY <2>5, <3>2
      <3>4. SafeTask(k) /\ task[k] = "open"
        BY <2>2, <2>5, <3>1 DEF Knows
      <3> QED
        BY <3>3, <3>4 DEF SafeTask
    <2>7. Outlined(r) => Outlined(r)'
      BY <1>0, <2>1 DEF Stays
    <2>8. EarlierWork(w, s) => EarlierWork(w, s)'
      BY <2>1, EarlierStays
    <2>9. Knows(w, s)'
      BY <1>2, <2>1, <2>2, <2>3, <2>4, <2>5, <2>6, <2>7, <2>8 DEF Knows
    <2> QED
      BY <1>1, <2>9
  <1> QED
    BY <1>3, <1>4

LEMMA KnowsStep ==
  ASSUME Repeating, OneThread, QuestionsFit, [Next]_vars
  PROVE  \A w \in Workers : Knows(w, worker[w])'
  <1>0. TypeOK
    BY DEF Repeating, Inductive, ReadsInductive
  <1>1. ASSUME NEW w \in Workers, WorkerStep(w) PROVE \A v \in Workers : Knows(v, worker[v])'
    <2>1. Knows(w, worker[w])'
      BY <1>1, OrganizingKnows, IndexingKnows, CourseKnows, LoopKnows DEF WorkerStep, PhaseStep
    <2>2. \A v \in Workers : v = w
      BY DEF OneThread
    <2> QED
      BY <2>1, <2>2
  <1>2. ASSUME NEW c \in Callers, CallStep(c) \/ User(c), NEW w \in Workers
        PROVE  Knows(w, worker[w])'
    <2>1. UNCHANGED <<worker, published, replaced, claim, lapsed, bound, requirement, outline>>
      BY <1>2 DEF CallStep, User, SubmitCreate, SubmitResolve, CreateRun, ReadAttention,
           AnswerTask, RecordResolution, ResumeRun, StartRun, OnlyCall, materialVars,
           artifactVars, indexVars
    <2>2. UNCHANGED task \/ \E k \in call[c].todo : task' = [task EXCEPT ![k] = "answered"]
      BY <1>2 DEF CallStep, User, SubmitCreate, SubmitResolve, CreateRun, ReadAttention,
           AnswerTask, RecordResolution, ResumeRun, StartRun, materialVars
    <2>3. \A k \in Cards : task[k] = "open" /\ SafeTask(k) => task'[k] = "open"
      BY <1>0, <2>2 DEF TypeOK, Repeating, WorkIsFound
    <2>4. worker'[w] = worker[w]
      BY <2>1
    <2> QED
      BY <2>1, <2>3, <2>4, RestKnows
  <1>3. ASSUME NEW h \in Helpers,
               Callback(h) \/ Boot(h) \/ Bind(h) \/ Close(h) \/ Exit(h) \/ Crash(h),
               NEW w \in Workers
        PROVE  Knows(w, worker[w])'
    <2>1. UNCHANGED <<task, published, replaced, claim, lapsed, bound, requirement, outline>>
      BY <1>3 DEF Callback, Forget, Boot, Bind, Close, Exit, Crash, Vanish, materialVars,
           artifactVars, indexVars
    <2>2. worker'[w] = worker[w] \/ worker'[w] = IdleWorker
      BY <1>3 DEF Callback, Forget, Boot, Bind, Close, Exit, Crash, Vanish
    <2>3. CASE worker'[w] = worker[w]
      BY <2>1, <2>3, RestKnows
    <2>4. CASE worker'[w] = IdleWorker
      <3>1. PICK x : x = IdleWorker
        OBVIOUS
      <3>2. x.pc = "idle" /\ x.asked = {} /\ x.outcome = NoOutcome
        BY <3>1 DEF IdleWorker
      <3>3. Knows(w, x)'
        BY <3>2, IdleKnows
      <3> QED
        BY <2>4, <3>1, <3>3
    <2> QED
      BY <2>2, <2>3, <2>4
  <1>4. ASSUME NEW h \in Helpers, OtherJob(h), NEW w \in Workers
        PROVE  Knows(w, worker[w])'
    <2>1. UNCHANGED <<worker, task, published, bound, requirement, outline>>
      BY <1>4 DEF OtherJob, RunKnowledgePublish, RunKnowledgeIndex, materialVars, artifactVars
    <2>2. replaced \subseteq replaced' /\ lapsed \subseteq lapsed'
      BY <1>4 DEF OtherJob, RunKnowledgePublish, RunKnowledgeIndex, materialVars, artifactVars, indexVars
    <2>3. claim' = claim \/ \E E \in SUBSET {s \in Runs : claim[s] \in Workers}, i \in DOMAIN outbox :
            claim' = [s \in Runs |-> IF s = outbox[i] THEN "consumed"
                                      ELSE IF s \in E THEN "waiting" ELSE claim[s]]
      BY <1>4 DEF OtherJob, RunKnowledgePublish, RunKnowledgeIndex, Claimable, artifactVars, indexVars
    <2>4. Workers \cap {"none", "waiting", "consumed"} = {}
      BY ConstantsAssumption DEF ConstantsAssumption
    <2>5. \A r \in Runs : /\ claim[r] \in {"waiting", "consumed"} => claim'[r] \in {"waiting", "consumed"}
                          /\ claim[r] # "none" => claim'[r] # "none"
                          /\ claim'[r] \in Workers => claim[r] \in Workers
      BY <2>3, <2>4
    <2>6. worker'[w] = worker[w] /\ \A k \in Cards : task'[k] = task[k]
      BY <2>1
    <2> QED
      BY <2>1, <2>2, <2>5, <2>6, RestKnows
  <1>5. ASSUME UNCHANGED vars, NEW w \in Workers PROVE Knows(w, worker[w])'
    <2>1. UNCHANGED <<worker, task, published, replaced, claim, lapsed, bound, requirement, outline>>
      BY <1>5 DEF vars
    <2>2. worker'[w] = worker[w] /\ \A k \in Cards : task'[k] = task[k]
      BY <2>1
    <2> QED
      BY <2>1, <2>2, RestKnows
  <1> QED
    BY <1>1, <1>2, <1>3, <1>4, <1>5 DEF Next

LEMMA RepeatingStep ==
  ASSUME OneThread, QuestionsFit, Repeating, [Next]_vars
  PROVE  Repeating'
  <1>1. Inductive'
    BY InductiveStep DEF Repeating
  <1>2. PlainAreClosed' /\ AllAsk'
    BY AsksStep DEF Repeating, Inductive, ReadsInductive
  <1>3. WorkIsFound'
    <2>1. \A r \in Runs : RowKnows(r)'
      BY RowsPrepared
    <2>2. \A r \in Runs : WorkKnown(r)'
      BY WorkStep
    <2>3. TasksKnown' /\ \A c \in Callers : TodoKnown(c)'
      BY TasksStep
    <2> QED
      BY <2>1, <2>2, <2>3 DEF WorkIsFound, RowKnows, WorkKnown, TasksKnown, TodoKnown
  <1>4. \A w \in Workers : Knows(w, worker[w])'
    BY KnowsStep
  <1> QED
    BY <1>1, <1>2, <1>3, <1>4 DEF Repeating

LEMMA RepeatingInit == Init => Repeating
  <1> SUFFICES ASSUME Init PROVE Repeating
    OBVIOUS
  <1>1. Inductive
    BY InductiveInit
  <1>2. PlainAreClosed /\ AllAsk
    BY QuestionsInit DEF Questions
  <1>3. NoBundle.cards = {} /\ IdleCall.todo = {} /\ AbsentRow.status = "absent" /\ AbsentRow.bundle = NoBundle
    BY DEF NoBundle, IdleCall, AbsentRow
  <1>4. \A r \in Runs : row[r] = AbsentRow /\ claim[r] = "none"
    BY DEF Init
  <1>5. \A k \in Cards : task[k] \in {"none", "answered"} => ~SafeTask(k)
    BY DEF Init, SafeTask
  <1>6. \A r \in Runs : RowIsPrepared(r) /\ \A k \in row[r].bundle.cards : ~SafeTask(k)
    BY <1>3, <1>4 DEF RowIsPrepared, Prepared
  <1>7. \A c \in Callers : \A k \in call[c].todo : ~SafeTask(k)
    BY <1>3 DEF Init
  <1>8. WorkIsFound
    BY <1>4, <1>5, <1>6, <1>7 DEF WorkIsFound
  <1>9. \A w \in Workers : Knows(w, worker[w])
    <2>1. IdleWorker.pc = "idle" /\ IdleWorker.asked = {} /\ IdleWorker.outcome.cards = {}
      BY DEF IdleWorker, NoOutcome, Outcome
    <2>2. \A w \in Workers : worker[w] = IdleWorker
      BY DEF Init
    <2> QED
      BY <2>1, <2>2 DEF Knows
  <1> QED
    BY <1>1, <1>2, <1>8, <1>9 DEF Repeating

\* "What fails a run over available cards": with one process, its default of one thread,
\* and no more cards in a run than fit a question, whatever the other jobs replace, claim
\* or let expire, a run over available cards fails only where another actor has committed
\* the operation of that very phase, over its own older outline, over a card of its own
\* that was replaced, or because its index work was lost to another job or exceeded the
\* ceiling.  Reviews, publications, index work and artifacts of the same actor replay.
THEOREM RunsFailOverEarlierWork ==
  OneThread /\ QuestionsFit => (Spec => RunsFailOnlyOverEarlierWork)
<1> SUFFICES ASSUME OneThread, QuestionsFit
             PROVE  Spec => RunsFailOnlyOverEarlierWork
  OBVIOUS
<1>1. Init => Repeating
  BY RepeatingInit
<1>2. Repeating /\ [Next]_vars => Repeating'
  BY RepeatingStep
<1>3. Repeating /\ [Next]_vars =>
        [\A r \in Runs :
           row[r].status # "failed" /\ row'[r].status = "failed" /\ CandidatesOf(r) # {} =>
             \E w \in Workers : /\ worker[w].pc = "advancing" /\ RunOf(w) = r
                                /\ \/ FoundAnotherActor(w) \/ FoundOlderOutline(w)
                                   \/ FoundReplaced(w) \/ LostTheIndex(w)]_vars
  <2> SUFFICES ASSUME Repeating, [Next]_vars, NEW r \in Runs,
                      row[r].status # "failed", row'[r].status = "failed", CandidatesOf(r) # {}
               PROVE  \E w \in Workers : /\ worker[w].pc = "advancing" /\ RunOf(w) = r
                                         /\ \/ FoundAnotherActor(w) \/ FoundOlderOutline(w)
                                            \/ FoundReplaced(w) \/ LostTheIndex(w)
    OBVIOUS
  <2>0. TypeOK
    BY DEF Repeating, Inductive, ReadsInductive
  <2>1. PICK s \in Runs : \/ Opens(s)
                         \/ (\E w \in Workers : \E next, evidence, cards : Drives(w, s, next, evidence, cards))
                         \/ \E c \in Callers : \E evidence : Answers(c, s, evidence)
    BY RowSteps DEF Repeating, Inductive
  <2>2. s = r
    BY <2>0, <2>1 DEF TypeOK, Opens, Drives, Answers
  <2>3. ~Opens(r)
    <3>1. NewRow.status = "queued"
      BY DEF NewRow, AbsentRow
    <3> QED
      BY <2>0, <3>1 DEF TypeOK, Opens
  <2>4. ASSUME NEW c \in Callers, NEW evidence, Answers(c, r, evidence) PROVE FALSE
    <3>1. PICK next : next = call[c].resume
      OBVIOUS
    <3>2. row' = [row EXCEPT ![r] = Advanced(row[r], next, evidence, NoBundle)] /\ next \in Phases
      BY <2>4, <3>1 DEF Answers
    <3>3. row'[r].status = next
      BY <2>0, <3>2, BundleBecomes
    <3> QED
      BY <3>2, <3>3 DEF Phases
  <2>5. PICK w \in Workers : \E next, evidence, cards : Drives(w, r, next, evidence, cards)
    BY <2>1, <2>2, <2>3, <2>4
  <2>6. PICK next, evidence, cards : Drives(w, r, next, evidence, cards)
    BY <2>5
  <2>7. next = "failed"
    <3>1. PICK bundle : bundle = [phase |-> row[r].status, cards |-> cards]
      OBVIOUS
    <3>2. row' = [row EXCEPT ![r] = Advanced(row[r], next, evidence, bundle)]
      BY <2>6, <3>1 DEF Drives
    <3> QED
      BY <2>0, <3>2, BundleBecomes
  <2>8. /\ worker[w].pc = "advancing" /\ RunOf(w) = r /\ r = worker[w].ticket.run
        /\ row[r].status = worker[w].status /\ worker[w].outcome.next = "failed"
    BY <2>6, <2>7 DEF Drives, RunOf
  <2>9. EarlierWork(w, worker[w])
    BY <2>8 DEF Repeating, Knows
  <2>10. \/ FoundAnotherActor(w) \/ FoundOlderOutline(w)
         \/ FoundReplaced(w) \/ LostTheIndex(w)
    BY <2>8, <2>9 DEF EarlierWork, FoundAnotherActor, FoundOlderOutline, FoundReplaced,
                      LostTheIndex, RunOf, ActorOf
  <2> QED
    BY <2>8, <2>10
<1> QED
  BY <1>1, <1>2, <1>3, PTL DEF Spec, RunsFailOnlyOverEarlierWork

==============================================================================
