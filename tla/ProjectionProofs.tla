-------------------------- MODULE ProjectionProofs --------------------------
(***************************************************************************)
(* For any requests, commands, hosts and faults: a certification is of one *)
(* frame that both screens show, an invalidated session stays invalidated, *)
(* a command never meets the answer to another one, and between two        *)
(* commands the supervisor is quiet.                                       *)
(*                                                                         *)
(* The first two are about what one host does, in whatever order commands, *)
(* frames, lost windows and the witness reach it, so the proof shows that  *)
(* every function of NativeHost keeps them, and that nothing else touches  *)
(* the state of a host.  The invariant adds that windows show a frame, so  *)
(* that a screen never commits to none, and that the certification of an   *)
(* invalidated session is at its end, which a late witness cannot change.  *)
(***************************************************************************)
EXTENDS Projection, FiniteSetTheorems, TLAPS

Certs == [phase : Phases, frame : [Roles -> Nat], latest : Nat, witnessed : BOOLEAN, certified : BOOLEAN]
Sessions == {NoSession} \cup {Command[i].session : i \in Ids}
Natives == [eligible : BOOLEAN, session : Sessions, generation : Nat, invalid : BOOLEAN, windows : Nat,
            shown : Nat, pending : Nat, commits : SUBSET Roles, cert : Certs]

CertOK(s) == s \in Certs /\ OneFrame(s)

HostOK(n) ==
  /\ n \in Natives /\ OneFrame(n.cert)
  /\ n.windows # 0 => n.shown # 0
  /\ n.session # NoSession /\ n.invalid => n.cert.phase = "invalidated"

\* What a host may not become in a step.
Remains(n, m) ==
  n.invalid /\ n.session # NoSession /\ m.session = n.session => m.invalid /\ ~m.cert.certified

Becomes(n, m) == HostOK(m) /\ Remains(n, m)

-----------------------------------------------------------------------------
(* The certification *)

LEMMA TerminalOK ==
  ASSUME NEW s \in Certs
  PROVE  CertOK(Terminal(s)) /\ Terminal(s).phase = "invalidated" /\ ~Terminal(s).certified
BY DEF CertOK, Terminal, Certs, Phases, OneFrame

LEMMA UncertifiedOK == CertOK(Uncertified) /\ Uncertified.phase = "undetected"
BY DEF CertOK, Uncertified, Certs, Phases, OneFrame

LEMMA StepsOK ==
  ASSUME NEW s, CertOK(s)
  PROVE  CertOK(OnDisplays(s)) /\ CertOK(OnAssigned(s)) /\ CertOK(OnFullscreen(s))
<1>1. CertOK(Terminal(s))
  BY TerminalOK DEF CertOK
<1> QED
  BY <1>1 DEF OnDisplays, OnAssigned, OnFullscreen, CertOK, Certs, Phases, OneFrame, Synchronized

\* A frame certifies only when both screens show it.
LEMMA FrameOK ==
  ASSUME NEW s, CertOK(s), NEW role \in Roles, NEW f \in Nat \ {0}
  PROVE  CertOK(OnFrame(s, role, f))
<1> DEFINE next == Moved(s, role, f)
           same == \A r \in Roles : next.frame[r] = f
           bad == s.phase \notin {"fullscreen", "syncing", "certified"} \/ ~Follows(s, f)
<1>1. CertOK(Terminal(s))
  BY TerminalOK DEF CertOK
<1>2. next \in Certs /\ ~next.certified
  BY DEF Moved, CertOK, Certs, Phases
<1>3. OnFrame(s, role, f) =
        CASE bad -> Terminal(s)
          [] same /\ next.witnessed -> [next EXCEPT !.latest = f, !.phase = "certified", !.certified = TRUE]
          [] same /\ ~next.witnessed -> [next EXCEPT !.latest = f]
          [] OTHER -> next
  BY DEF OnFrame
<1> HIDE DEF next
<1>4. ASSUME same, next.witnessed
      PROVE  CertOK([next EXCEPT !.latest = f, !.phase = "certified", !.certified = TRUE])
  <2> DEFINE t == [next EXCEPT !.latest = f, !.phase = "certified", !.certified = TRUE]
  <2>1. t \in Certs
    BY <1>2 DEF Certs, Phases
  <2>2. /\ t.frame = next.frame /\ t.latest = f /\ t.phase = "certified"
        /\ t.witnessed = next.witnessed
    BY <1>2 DEF Certs
  <2> HIDE DEF t
  <2>3. Synchronized(t)
    BY <1>4, <2>2 DEF Synchronized
  <2> QED
    BY <1>4, <2>1, <2>2, <2>3 DEF CertOK, OneFrame, t
<1>5. CertOK([next EXCEPT !.latest = f]) /\ CertOK(next)
  BY <1>2 DEF CertOK, Certs, OneFrame
<1> HIDE DEF same, bad
<1> QED
  BY <1>1, <1>3, <1>4, <1>5 DEF same

\* The witness certifies what both screens show when it answers.
LEMMA WitnessOK ==
  ASSUME NEW s, CertOK(s)
  PROVE  /\ CertOK(OnWitness(OnChallenge(s)))
         /\ s.phase = "invalidated" => /\ OnWitness(OnChallenge(s)).phase = "invalidated"
                                       /\ ~OnWitness(OnChallenge(s)).certified
<1>1. CASE s.phase = "syncing" /\ Synchronized(s)
  <2> DEFINE asking == [s EXCEPT !.phase = "witnessing", !.witnessed = FALSE]
  <2>1. OnChallenge(s) = asking
    BY <1>1 DEF OnChallenge
  <2>2. asking \in Certs /\ asking.phase = "witnessing" /\ Synchronized(asking)
    BY <1>1 DEF CertOK, Certs, Phases, Synchronized
  <2> HIDE DEF asking
  <2>3. OnWitness(asking) = [asking EXCEPT !.phase = "certified", !.witnessed = TRUE, !.certified = TRUE]
    BY <2>2 DEF OnWitness
  <2> DEFINE t == [asking EXCEPT !.phase = "certified", !.witnessed = TRUE, !.certified = TRUE]
  <2>4. t \in Certs
    BY <2>2 DEF Certs, Phases
  <2>5. t.frame = asking.frame /\ t.latest = asking.latest /\ t.phase = "certified" /\ t.witnessed
    BY <2>2 DEF Certs
  <2> HIDE DEF t
  <2>6. CertOK(t)
    BY <2>2, <2>4, <2>5 DEF CertOK, OneFrame, Synchronized
  <2> QED
    BY <1>1, <2>1, <2>3, <2>6 DEF t
<1>2. CASE ~(s.phase = "syncing" /\ Synchronized(s))
  <2>1. OnChallenge(s) = Terminal(s)
    BY <1>2 DEF OnChallenge
  <2>2. Terminal(s) \in Certs /\ Terminal(s).phase = "invalidated"
    BY TerminalOK DEF CertOK
  <2>3. OnWitness(Terminal(s)) = Terminal(Terminal(s))
    BY <2>2 DEF OnWitness
  <2> QED
    BY <2>1, <2>2, <2>3, TerminalOK
<1> QED
  BY <1>1, <1>2

-----------------------------------------------------------------------------
(* What a host does *)

LEMMA HostParts ==
  ASSUME NEW n, HostOK(n)
  PROVE  n \in Natives /\ CertOK(n.cert)
BY DEF HostOK, CertOK, Natives

LEMMA StartedOK == HostOK(Started)
BY UncertifiedOK DEF HostOK, Started, Natives, Sessions, CertOK

LEMMA EndOfHost == ASSUME NEW n PROVE Becomes(n, Started)
BY StartedOK DEF Becomes, Remains, Started

LEMMA StaysAsItIs == ASSUME NEW n, HostOK(n) PROVE Becomes(n, n)
BY DEF Becomes, Remains, HostOK, OneFrame

\* The reducer hears of something, and what it makes of it is the certification.
LEMMA ApplyOK ==
  ASSUME NEW n \in Natives, NEW s, CertOK(s), n.windows # 0 => n.shown # 0,
         \/ s.phase = "invalidated" \/ ~n.invalid \/ n.session = NoSession
  PROVE  HostOK(Apply(n, s)) /\ Apply(n, s).session = n.session
<1>1. Apply(n, s) \in Natives
  BY DEF Apply, Natives, CertOK
<1>2. /\ Apply(n, s).cert = s /\ Apply(n, s).session = n.session
      /\ Apply(n, s).windows = n.windows /\ Apply(n, s).shown = n.shown
      /\ Apply(n, s).invalid = (n.invalid \/ s.phase = "invalidated")
  BY DEF Apply, Natives
<1> QED
  BY <1>1, <1>2 DEF HostOK, CertOK

LEMMA InvalidateOK ==
  ASSUME NEW n \in Natives, n.windows # 0 => n.shown # 0
  PROVE  /\ HostOK(Invalidate(n)) /\ Invalidate(n).invalid /\ ~Invalidate(n).cert.certified
         /\ \A m : Becomes(m, Invalidate(n))
<1> DEFINE t == Terminal(n.cert)
<1>1. CertOK(t) /\ t.phase = "invalidated" /\ ~t.certified
  BY TerminalOK DEF Natives
<1> HIDE DEF t
<1>2. Invalidate(n) = Apply(n, t)
  BY DEF Invalidate, t
<1>3. HostOK(Apply(n, t))
  BY <1>1, ApplyOK
<1>4. Apply(n, t).invalid /\ ~Apply(n, t).cert.certified
  BY <1>1 DEF Apply, Natives
<1> QED
  BY <1>2, <1>3, <1>4 DEF Becomes, Remains

\* A session that is valid, or none, becomes anything that is in order.
LEMMA ValidBecomes ==
  ASSUME NEW n, NEW m, HostOK(m), ~n.invalid \/ n.session = NoSession \/ m.session # n.session
  PROVE  Becomes(n, m)
BY DEF Becomes, Remains

\* What a command is.
IsCommand(c) == /\ c.generation \in Nat /\ c.session \in Sessions
                /\ c.kind \in {"detect", "open", "assign", "fullscreen", "verify", "close"}

LEMMA CommandsAre == \A i \in Ids : IsCommand(Command[i])
BY ProjectionAssumption DEF IsCommand, Sessions

LEMMA DetectOK ==
  ASSUME NEW n, HostOK(n), NEW c, IsCommand(c), NEW o \in Detect(n, c)
  PROVE  Becomes(n, o.native)
<1> DEFINE read == [n EXCEPT !.generation = c.generation, !.cert = Uncertified]
           ready == [read EXCEPT !.eligible = TRUE]
           not == [read EXCEPT !.eligible = FALSE]
           s == OnDisplays(Uncertified)
<1>1. n \in Natives
  BY HostParts
<1>2. CASE n.session # NoSession
  BY <1>2, StaysAsItIs DEF Detect, Reject
<1>3. CASE n.session = NoSession
  <2>1. CertOK(s) /\ CertOK(Uncertified)
    BY UncertifiedOK, StepsOK
  <2>2. /\ ready \in Natives /\ not \in Natives
        /\ ready.session = NoSession /\ not.session = NoSession
        /\ ready.windows = n.windows /\ ready.shown = n.shown
        /\ not.windows = n.windows /\ not.shown = n.shown /\ not.cert = Uncertified
    BY <1>1, <1>3, <2>1 DEF Natives, IsCommand, CertOK
  <2>3. o = Accept(Apply(ready, s)) \/ o = Reject(not)
    BY <1>3 DEF Detect
  <2> HIDE DEF ready, not, s
  <2>4. HostOK(Apply(ready, s))
    BY <2>1, <2>2, ApplyOK DEF HostOK
  <2>5. HostOK(not)
    BY <2>1, <2>2 DEF HostOK, CertOK
  <2>6. o.native = Apply(ready, s) \/ o.native = not
    BY <2>3 DEF Accept, Reject
  <2> QED
    BY <1>3, <2>4, <2>5, <2>6, ValidBecomes
<1> QED
  BY <1>2, <1>3

LEMMA OpenOK ==
  ASSUME NEW n, HostOK(n), NEW c, IsCommand(c), NEW o \in Open(n, c)
  PROVE  Becomes(n, o.native)
<1> DEFINE opened == [n EXCEPT !.session = c.session, !.invalid = FALSE]
<1>1. CASE o = Reject(n)
  BY <1>1, StaysAsItIs DEF Reject
<1>2. CASE o = Accept(opened) /\ n.session = NoSession
  <2>1. HostOK(opened)
    BY HostParts DEF HostOK, Natives, IsCommand
  <2> HIDE DEF opened
  <2> QED
    BY <1>2, <2>1, ValidBecomes DEF Accept
<1> QED
  BY <1>1, <1>2 DEF Open

LEMMA AssignOK ==
  ASSUME NEW n, HostOK(n), NEW c, IsCommand(c), NEW o \in Assign(n, c)
  PROVE  Becomes(n, o.native)
<1> DEFINE w == IF c.swap THEN n.windows + 1 ELSE 1
           begun == [WithoutPresentation(n) EXCEPT !.windows = w, !.generation = w]
           on == [begun EXCEPT !.shown = 1]
           off == [begun EXCEPT !.windows = 0]
           s == OnAssigned(OnDisplays(Uncertified))
<1>1. n \in Natives /\ (n.windows # 0 => n.shown # 0)
  BY DEF HostOK
<1>2. CertOK(s)
  BY UncertifiedOK, StepsOK
<1>3. w \in Nat
  BY <1>1 DEF Natives
<1> HIDE DEF w
<1>4. /\ on \in Natives /\ on.shown = 1 /\ on.invalid = n.invalid
      /\ off \in Natives /\ off.windows = 0
  BY <1>1, <1>3 DEF Natives, WithoutPresentation
<1>5. \/ o = Reject(n)
      \/ o = Reject(Invalidate(n))
      \/ ~n.invalid /\ o \in {Accept(Apply(on, s)), Reject(Invalidate(off))}
  BY DEF Assign, w
<1> HIDE DEF on, off, s
<1>6. CASE o = Reject(n)
  BY <1>6, StaysAsItIs DEF Reject
<1>7. CASE o = Reject(Invalidate(n))
  BY <1>1, <1>7, InvalidateOK DEF Reject
<1>8. CASE ~n.invalid /\ o = Accept(Apply(on, s))
  <2>1. HostOK(Apply(on, s))
    BY <1>2, <1>4, <1>8, ApplyOK
  <2> QED
    BY <1>8, <2>1, ValidBecomes DEF Accept
<1>9. CASE o = Reject(Invalidate(off))
  BY <1>4, <1>9, InvalidateOK DEF Reject
<1> QED
  BY <1>5, <1>6, <1>7, <1>8, <1>9

LEMMA FullscreenOK ==
  ASSUME NEW n, HostOK(n), NEW c, NEW o \in Fullscreen(n, c)
  PROVE  Becomes(n, o.native)
<1> DEFINE s == OnFrame(OnFrame(OnFullscreen(n.cert), "stage", n.shown), "presenter", n.shown)
           off == [n EXCEPT !.windows = 0]
<1>1. n \in Natives /\ (n.windows # 0 => n.shown # 0)
  BY DEF HostOK
<1>2. off \in Natives /\ off.windows = 0
  BY <1>1 DEF Natives
<1>3. \/ o = Reject(n)
      \/ o = Reject(Invalidate(n))
      \/ o = Reject(Invalidate(off))
      \/ ~n.invalid /\ n.windows # 0 /\ o = [native |-> Apply(n, s), accepted |-> s.phase = "syncing"]
  BY DEF Fullscreen
<1> HIDE DEF s, off
<1>4. CASE o = Reject(n)
  BY <1>4, StaysAsItIs DEF Reject
<1>5. CASE o = Reject(Invalidate(n))
  BY <1>1, <1>5, InvalidateOK DEF Reject
<1>6. CASE o = Reject(Invalidate(off))
  BY <1>2, <1>6, InvalidateOK DEF Reject
<1>7. CASE /\ ~n.invalid /\ n.windows # 0
           /\ o = [native |-> Apply(n, s), accepted |-> s.phase = "syncing"]
  <2>1. n.shown \in Nat \ {0} /\ "stage" \in Roles /\ "presenter" \in Roles
    BY <1>1, <1>7 DEF Natives, Roles
  <2>2. CertOK(OnFullscreen(n.cert))
    BY HostParts, StepsOK
  <2>3. CertOK(OnFrame(OnFullscreen(n.cert), "stage", n.shown))
    BY <2>1, <2>2, FrameOK
  <2>4. CertOK(s)
    BY <2>1, <2>3, FrameOK DEF s
  <2>5. HostOK(Apply(n, s))
    BY <1>1, <1>7, <2>4, ApplyOK
  <2>6. o.native = Apply(n, s)
    BY <1>7
  <2> QED
    BY <1>7, <2>5, <2>6, ValidBecomes
<1> QED
  BY <1>3, <1>4, <1>5, <1>6, <1>7

LEMMA VerifyOK ==
  ASSUME NEW n, HostOK(n), NEW c, NEW o \in Verify(n, c)
  PROVE  Becomes(n, o.native)
<1>1. o \in {[native |-> n, accepted |-> n.cert.certified], Reject(Invalidate(n)), Reject(n)}
  BY DEF Verify
<1>2. o.native = n \/ o.native = Invalidate(n)
  BY <1>1 DEF Reject
<1> QED
  BY <1>2, StaysAsItIs, InvalidateOK DEF HostOK

\* A late witness finds the certification of an invalidated session at its end.
LEMMA WitnessedOK ==
  ASSUME NEW n, HostOK(n), NEW o \in Witnessed(n)
  PROVE  Becomes(n, o.native)
<1> DEFINE s == OnWitness(OnChallenge(n.cert))
<1>1. n \in Natives /\ CertOK(n.cert) /\ (n.windows # 0 => n.shown # 0)
  BY HostParts DEF HostOK
<1>2. CertOK(s) /\ (n.cert.phase = "invalidated" => s.phase = "invalidated" /\ ~s.certified)
  BY <1>1, WitnessOK
<1>3. o.native = Apply(n, s) \/ o.native = Invalidate(n)
  BY DEF Witnessed, Reject
<1> HIDE DEF s
<1>4. CASE o.native = Invalidate(n)
  BY <1>1, <1>4, InvalidateOK
<1>5. CASE o.native = Apply(n, s)
  <2>1. s.phase = "invalidated" \/ ~n.invalid \/ n.session = NoSession
    BY <1>2 DEF HostOK
  <2>2. HostOK(Apply(n, s))
    BY <1>1, <1>2, <2>1, ApplyOK
  <2>3. Apply(n, s).invalid = (n.invalid \/ s.phase = "invalidated") /\ Apply(n, s).cert = s
    BY <1>1 DEF Apply, Natives
  <2>4. n.invalid /\ n.session # NoSession => ~s.certified
    BY <1>2 DEF HostOK
  <2> QED
    BY <1>5, <2>2, <2>3, <2>4 DEF Becomes, Remains
<1> QED
  BY <1>3, <1>4, <1>5

LEMMA CloseOK ==
  ASSUME NEW n, HostOK(n), NEW c, NEW o \in Close(n, c)
  PROVE  Becomes(n, o.native)
<1> DEFINE ended == [WithoutPresentation(n) EXCEPT !.windows = 0, !.session = NoSession,
                        !.eligible = FALSE, !.cert = Uncertified, !.invalid = FALSE]
<1>1. o.native = n \/ o.native = ended
  BY DEF Close, Reject, Accept
<1>2. /\ ended \in Natives /\ ended.windows = 0 /\ ended.session = NoSession
      /\ ended.cert = Uncertified
  <2>1. n \in Natives /\ Uncertified \in Certs /\ NoSession \in Sessions
    BY HostParts, UncertifiedOK DEF CertOK, Sessions
  <2>2. WithoutPresentation(n) \in Natives
    BY <2>1 DEF WithoutPresentation, Natives
  <2> QED
    BY <2>1, <2>2 DEF Natives
<1> HIDE DEF ended
<1>3. HostOK(ended)
  BY <1>2, UncertifiedOK DEF HostOK, CertOK
<1>4. Becomes(n, ended)
  BY <1>2, <1>3 DEF Becomes, Remains
<1> QED
  BY <1>1, <1>4, StaysAsItIs

LEMMA OutcomesOK ==
  ASSUME NEW n, HostOK(n), NEW c, IsCommand(c), NEW o \in Outcomes(n, c)
  PROVE  Becomes(n, o.native)
<1>1. \/ o \in Detect(n, c) \/ o \in Open(n, c) \/ o \in Assign(n, c)
      \/ o \in Fullscreen(n, c) \/ o \in Verify(n, c) \/ o \in Close(n, c)
  BY DEF Outcomes, IsCommand
<1> QED
  BY <1>1, DetectOK, OpenOK, AssignOK, FullscreenOK, VerifyOK, CloseOK

LEMMA NavigatedOK ==
  ASSUME NEW n, HostOK(n)
  PROVE  Becomes(n, Navigated(n))
<1>1. /\ Navigated(n) \in Natives /\ Navigated(n).cert = n.cert
      /\ Navigated(n).windows = n.windows /\ Navigated(n).shown = n.shown
      /\ Navigated(n).session = n.session /\ Navigated(n).invalid = n.invalid
  BY DEF Navigated, HostOK, Natives
<1> QED
  BY <1>1 DEF Becomes, Remains, HostOK, OneFrame

LEMMA CommittedOK ==
  ASSUME NEW n, HostOK(n), NEW role \in Roles, MayCommit(n, role)
  PROVE  Becomes(n, Committed(n, role))
<1> DEFINE seen == IF n.commits \cup {role} = Roles
                   THEN [n EXCEPT !.shown = n.pending, !.pending = 0, !.commits = {}]
                   ELSE [n EXCEPT !.commits = @ \cup {role}]
           s == OnFrame(n.cert, role, n.pending)
<1>1. n \in Natives /\ CertOK(n.cert) /\ n.pending \in Nat \ {0}
  BY HostParts DEF MayCommit, Natives
<1>2. /\ seen \in Natives /\ seen.cert = n.cert /\ seen.windows = n.windows
      /\ seen.session = n.session /\ seen.invalid = n.invalid
      /\ seen.windows # 0 => seen.shown # 0
  BY <1>1 DEF Natives, HostOK
<1>3. CertOK(s)
  BY <1>1, FrameOK
<1>4. Committed(n, role) = IF n.invalid THEN seen ELSE Apply(seen, s)
  BY DEF Committed
<1> HIDE DEF seen, s
<1>5. CASE n.invalid
  BY <1>2, <1>4, <1>5 DEF Becomes, Remains, HostOK, OneFrame
<1>6. CASE ~n.invalid
  <2>1. HostOK(Apply(seen, s))
    BY <1>2, <1>3, <1>6, ApplyOK
  <2> QED
    BY <1>4, <1>6, <2>1, ValidBecomes
<1> QED
  BY <1>5, <1>6

LEMMA LostOK ==
  ASSUME NEW n, HostOK(n)
  PROVE  Becomes(n, Lost(n))
<1> DEFINE rest == [n EXCEPT !.pending = 0, !.commits = {}]
<1>1. rest \in Natives /\ (rest.windows # 0 => rest.shown # 0)
  BY DEF HostOK, Natives
<1> HIDE DEF rest
<1> QED
  BY <1>1, InvalidateOK DEF Lost, rest

-----------------------------------------------------------------------------
(* The supervisor and its hosts *)

Places == {"none", "queued", "ensure", "resolve", "send", "sending", "ready", "transfer", "transferring",
           "receive", "fail", "close", "done"}

\* A thread that has begun has a command.
Commanded ==
  /\ op \in [Requests -> [pc : Places, host : Hosts \cup {0}]]
  /\ client \in [Requests -> [pc : {"idle", "gate", "running", "cancelling", "joining"},
                              command : Ids \cup {0}]]
  /\ transport \in Hosts \cup {0}
  /\ \A p \in Requests : op[p].pc # "none" => client[p].command \in Ids

HostsOK == native \in [Hosts -> Natives] /\ \A h \in Hosts : HostOK(native[h])

IInv == Commanded /\ HostsOK

\* A step changes the state of one host at most.
OneHostBecomes ==
  \/ native' = native
  \/ \E h \in Hosts : \E m : Becomes(native[h], m) /\ native' = [native EXCEPT ![h] = m]

\* What no host becomes.
NobodyRecovers == \A h \in Hosts : Remains(native[h], native'[h])

LEMMA HostsRemain ==
  ASSUME HostsOK, OneHostBecomes
  PROVE  HostsOK' /\ NobodyRecovers
<1>1. \A h \in Hosts : Becomes(native[h], native[h])
  BY StaysAsItIs DEF HostsOK
<1>2. CASE native' = native
  BY <1>1, <1>2 DEF HostsOK, NobodyRecovers, Becomes
<1>3. CASE \E h \in Hosts : \E m : Becomes(native[h], m) /\ native' = [native EXCEPT ![h] = m]
  <2>1. PICK h \in Hosts : \E m : Becomes(native[h], m) /\ native' = [native EXCEPT ![h] = m]
    BY <1>3
  <2>2. native' \in [Hosts -> Natives] /\ \A g \in Hosts : Becomes(native[g], native'[g])
    BY <1>1, <2>1 DEF HostsOK, Becomes, HostOK
  <2> QED
    BY <2>2 DEF HostsOK, NobodyRecovers, Becomes
<1> QED
  BY <1>2, <1>3 DEF OneHostBecomes

LEMMA EndedIsOne ==
  ASSUME HostsOK, NEW h, Ended(h)
  PROVE  OneHostBecomes
<1>1. native' = [native EXCEPT ![h] = Started]
  BY DEF Ended
<1>2. CASE h \in Hosts
  BY <1>1, <1>2, EndOfHost DEF OneHostBecomes
<1>3. CASE h \notin Hosts
  BY <1>1, <1>3 DEF OneHostBecomes, HostsOK
<1> QED
  BY <1>2, <1>3

\* A thread goes on with its command.
LEMMA GoesOn ==
  ASSUME Commanded, NEW p \in Requests, op[p].pc # "none", NEW pc \in Places, NEW h \in Hosts \cup {0},
         UNCHANGED client, transport' \in Hosts \cup {0},
         \/ op' = [op EXCEPT ![p].pc = pc]
         \/ op' = [op EXCEPT ![p] = [pc |-> pc, host |-> h]]
  PROVE  Commanded'
<1>1. op' \in [Requests -> [pc : Places, host : Hosts \cup {0}]]
  <2>1. CASE op' = [op EXCEPT ![p].pc = pc]
    BY <2>1 DEF Commanded
  <2>2. CASE op' = [op EXCEPT ![p] = [pc |-> pc, host |-> h]]
    BY <2>2 DEF Commanded
  <2> QED
    BY <2>1, <2>2
<1>2. \A q \in Requests : q # p => op'[q] = op[q]
  BY DEF Commanded
<1>3. \A q \in Requests : op'[q].pc # "none" => op[q].pc # "none"
  BY <1>2
<1> QED
  BY <1>1, <1>3 DEF Commanded

\* A message that is written, that waits, or that cannot be written.
LEMMA WritingIsCommanded ==
  ASSUME Commanded, NEW p \in Requests, op[p].pc # "none", NEW pc \in Places,
         \/ UNCHANGED <<client, native, transport>> /\ Go(p, pc)
         \/ UNCHANGED native /\ Fail(p)
  PROVE  Commanded' /\ OneHostBecomes
<1>1. op[p].host \in Hosts \cup {0} /\ transport \in Hosts \cup {0}
  BY DEF Commanded
<1>2. CASE UNCHANGED <<client, native, transport>> /\ Go(p, pc)
  BY <1>1, <1>2, GoesOn DEF Go, OneHostBecomes
<1>3. CASE UNCHANGED native /\ Fail(p)
  <2>1. /\ op' = [op EXCEPT ![p] = [pc |-> "fail", host |-> transport]] /\ transport' = 0
        /\ UNCHANGED client
    BY <1>3 DEF Fail, TakeTransport
  <2>2. "fail" \in Places
    BY DEF Places
  <2> QED
    BY <1>1, <1>3, <2>1, <2>2, GoesOn DEF OneHostBecomes
<1> QED
  BY <1>2, <1>3

\* What a thread does leaves the hosts alone, but for ending its own.
LEMMA ThreadIsCommanded ==
  ASSUME IInv, NEW p \in Requests, Thread(p)
  PROVE  Commanded' /\ OneHostBecomes
<1> DEFINE Quiet == UNCHANGED <<client, native>>
<1>1. Commanded /\ op[p].host \in Hosts \cup {0} /\ transport \in Hosts \cup {0}
  BY DEF IInv, Commanded
<1>2. op[p].pc # "none"
  BY DEF Thread, Begin, Launch, Ensure, Resolve, Send, ExpectReady, Transfer, Receive, Broken, Blocked,
         HostTimeout, Waits, CloseTransport, At
<1>3. ASSUME UNCHANGED <<client, native>>, transport' \in Hosts \cup {0}, NEW pc \in Places, Go(p, pc)
      PROVE  Commanded' /\ OneHostBecomes
  BY <1>1, <1>2, <1>3, GoesOn DEF Go, OneHostBecomes
<1>4. ASSUME UNCHANGED <<client, native>>, NEW pc \in Places, TakeTransport(p, pc)
      PROVE  Commanded' /\ OneHostBecomes
  BY <1>1, <1>2, <1>4, GoesOn DEF TakeTransport, OneHostBecomes
<1>5. ASSUME UNCHANGED native, Fail(p)
      PROVE  Commanded' /\ OneHostBecomes
  BY <1>4, <1>5 DEF Fail, Places
<1>6. CASE Begin(p)
  <2>1. UNCHANGED <<client, native, transport>> /\ (Go(p, "done") \/ Go(p, "ensure"))
    BY <1>6 DEF Begin, hostVars
  <2> QED
    BY <1>1, <1>3, <2>1 DEF Places
<1>7. CASE Launch(p)
  <2> DEFINE h == Cardinality({g \in Hosts : proc[g] # "unborn"}) + 1
             pc == IF CommandOf(p).kind = "open" THEN "resolve" ELSE "send"
  <2>1. Refused(p) \/ Undone(p, h) \/ (h \in Hosts /\ Launched(p, h))
    BY <1>7 DEF Launch
  <2>2. CASE Refused(p) \/ Undone(p, h)
    BY <1>5, <2>2 DEF Refused, Undone, hostVars
  <2>3. CASE h \in Hosts /\ Launched(p, h)
    <3>1. /\ UNCHANGED <<client, native>> /\ transport' = h
          /\ op' = [op EXCEPT ![p] = [pc |-> pc, host |-> h]]
      BY <2>3 DEF Launched
    <3>2. pc \in Places
      BY DEF Places
    <3> HIDE DEF pc, h
    <3> QED
      BY <1>1, <1>2, <2>3, <3>1, <3>2, GoesOn DEF OneHostBecomes
  <2> QED
    BY <2>1, <2>2, <2>3
<1>8. CASE Ensure(p)
  <2> DEFINE pc == IF CommandOf(p).kind = "open" THEN "resolve" ELSE "send"
  <2>1. CASE IsAlive(transport)
    <3>1. /\ UNCHANGED <<client, native, transport>>
          /\ op' = [op EXCEPT ![p] = [pc |-> pc, host |-> transport]]
      BY <1>8, <2>1 DEF Ensure, hostVars
    <3>2. pc \in Places
      BY DEF Places
    <3> HIDE DEF pc
    <3> QED
      BY <1>1, <1>2, <3>1, <3>2, GoesOn DEF OneHostBecomes
  <2>2. CASE ~IsAlive(transport)
    BY <1>5, <1>8, <2>2 DEF Ensure, hostVars
  <2> QED
    BY <2>1, <2>2
<1>9. ASSUME NEW message, NEW pc \in Places, NEW part \in Places, Writes(p, message, pc, part)
      PROVE  Commanded' /\ OneHostBecomes
  <2>1. \/ UNCHANGED <<client, native, transport>> /\ (Go(p, pc) \/ Go(p, part))
        \/ UNCHANGED native /\ Fail(p)
    BY <1>9 DEF Writes, Written, hostVars
  <2> QED
    BY <1>1, <1>2, <2>1, WritingIsCommanded
<1>10. CASE Resolve(p)
  <2>1. \/ UNCHANGED <<client, native, transport>> /\ Go(p, "send")
        \/ UNCHANGED native /\ Fail(p)
    BY <1>10 DEF Resolve, hostVars
  <2> QED
    BY <1>1, <1>3, <1>5, <2>1 DEF Places
<1>11. CASE Send(p)
  <2>1. Writes(p, "command", "ready", "sending") \/ Writes(p, "command", "receive", "sending")
    BY <1>11 DEF Send, AfterCommand
  <2> QED
    BY <1>9, <2>1 DEF Places
<1>12. CASE ExpectReady(p)
  <2>1. \/ UNCHANGED <<client, native, transport>> /\ Go(p, "transfer")
        \/ UNCHANGED native /\ Fail(p)
    BY <1>12 DEF ExpectReady, Taken
  <2> QED
    BY <1>1, <1>3, <1>5, <2>1 DEF Places
<1>13. CASE Transfer(p)
  <2>1. Writes(p, "bootstrap", "receive", "transferring") \/ (UNCHANGED native /\ Fail(p))
    BY <1>13 DEF Transfer, hostVars
  <2> QED
    BY <1>5, <1>9, <2>1 DEF Places
<1>14. CASE Receive(p)
  <2>1. UNCHANGED native
    BY <1>14 DEF Receive, Taken
  <2>2. \/ UNCHANGED client /\ (TakeTransport(p, "fail") \/ TakeTransport(p, "close"))
        \/ UNCHANGED <<client, transport>> /\ Go(p, "done")
        \/ Fail(p)
    BY <1>14 DEF Receive
  <2> QED
    BY <1>1, <1>3, <1>4, <1>5, <2>1, <2>2 DEF Places
<1>15. CASE HostTimeout(p) \/ Broken(p)
  BY <1>5, <1>15 DEF HostTimeout, Broken, hostVars
<1>16. CASE CloseTransport(p)
  <2>1. /\ UNCHANGED <<client, transport>>
        /\ op' = [op EXCEPT ![p] = [pc |-> "done", host |-> 0]]
        /\ IF op[p].host = 0 THEN UNCHANGED hostVars ELSE Ended(op[p].host)
    BY <1>16 DEF CloseTransport
  <2>2. Commanded'
    BY <1>1, <1>2, <2>1, GoesOn DEF Places
  <2>3. OneHostBecomes
    BY <2>1, EndedIsOne DEF OneHostBecomes, hostVars, IInv
  <2> QED
    BY <2>2, <2>3
<1> QED
  BY <1>6, <1>7, <1>8, <1>10, <1>11, <1>12, <1>13, <1>14, <1>15, <1>16 DEF Thread

LEMMA TaskIsCommanded ==
  ASSUME IInv, NEW p \in Requests, Request(p) \/ Cancel(p) \/ Task(p)
  PROVE  Commanded' /\ OneHostBecomes
<1>1. Commanded
  BY DEF IInv
<1>2. CASE Request(p) \/ Cancel(p)
  <2>1. \/ client' = [client EXCEPT ![p].pc = "gate"]
        \/ client' = [client EXCEPT ![p].pc = "cancelling"]
    BY <1>2 DEF Request, Cancel
  <2>2. UNCHANGED <<op, transport, native>>
    BY <1>2 DEF Request, Cancel, supervisorVars, hostVars
  <2> QED
    BY <1>1, <2>1, <2>2 DEF Commanded, OneHostBecomes
<1>3. CASE Acquire(p)
  <2>1. PICK i \in Ids : client' = [client EXCEPT ![p] = [pc |-> "running", command |-> i]]
    BY <1>3 DEF Acquire
  <2>2. op' = [op EXCEPT ![p] = [pc |-> "queued", host |-> 0]] /\ UNCHANGED <<transport, native>>
    BY <1>3 DEF Acquire, hostVars
  <2> QED
    BY <1>1, <2>1, <2>2 DEF Commanded, OneHostBecomes, Places
<1>4. CASE Answer(p) \/ Join(p)
  <2>1. /\ client' = [client EXCEPT ![p] = [pc |-> "idle", command |-> 0]]
        /\ op' = [op EXCEPT ![p] = [pc |-> "none", host |-> 0]]
        /\ UNCHANGED <<transport, native>>
    BY <1>4 DEF Answer, Join, Leave, Idle, hostVars
  <2> QED
    BY <1>1, <2>1 DEF Commanded, OneHostBecomes, Places
<1>5. CASE CancelCurrent(p)
  <2>1. /\ client' = [client EXCEPT ![p].pc = "joining"] /\ transport' = 0
        /\ UNCHANGED <<op, native>>
    BY <1>5 DEF CancelCurrent, hostVars
  <2> QED
    BY <1>1, <2>1 DEF Commanded, OneHostBecomes
<1>6. CASE CancelClosed(p)
  <2>1. UNCHANGED <<client, op, transport>> /\ closing[p] # 0 /\ Ended(closing[p])
    BY <1>6 DEF CancelClosed
  <2>2. OneHostBecomes
    BY <2>1, EndedIsOne DEF IInv
  <2> QED
    BY <1>1, <2>1, <2>2 DEF Commanded
<1> QED
  BY <1>2, <1>3, <1>4, <1>5, <1>6 DEF Task

\* A host that reads on lets the thread go on that was writing to it.
LEMMA ReadingIsCommanded ==
  ASSUME Commanded, NEW h, HostReadsOn(h)
  PROVE  Commanded' /\ OneHostBecomes
<1>1. PICK p \in Requests :
        /\ op[p].pc \in {"sending", "transferring"}
        /\ \/ Written(p, "command", AfterCommand(p))
           \/ Written(p, "bootstrap", "receive")
           \/ Fail(p) /\ UNCHANGED hostVars
  BY DEF HostReadsOn, Blocked
<1>2. PICK pc \in Places : \/ UNCHANGED <<client, native, transport>> /\ Go(p, pc)
                           \/ UNCHANGED native /\ Fail(p)
  BY <1>1 DEF Written, AfterCommand, Places, hostVars
<1> QED
  BY <1>1, <1>2, WritingIsCommanded

\* A host does what its functions say.
LEMMA HostIsOne ==
  ASSUME IInv, NEW h \in Hosts,
         \/ HostReceives(h) \/ HostOpens(h) \/ HostWitnessed(h)
         \/ Navigate(h) \/ LoseWindow(h) \/ HostCrash(h)
         \/ \E role \in Roles : Commit(h, role)
  PROVE  OneHostBecomes
<1> DEFINE n == native[h]
           c == Command[IdOf(Sender(h))]
<1>1. HostOK(n) /\ HostsOK
  BY DEF IInv, HostsOK
<1>2. ASSUME NEW m, native' = [native EXCEPT ![h] = m], Becomes(n, m)
      PROVE  OneHostBecomes
  BY <1>2 DEF OneHostBecomes
<1>3. ASSUME NEW message, Sent(h, message) PROVE IsCommand(c)
  <2>1. \E p \in Requests : op[p].host = h /\ op[p].pc \in {"ready", "receive"}
    BY <1>3 DEF Sent
  <2>2. Sender(h) \in Requests /\ op[Sender(h)].pc \in {"ready", "receive"}
    BY <2>1 DEF Sender
  <2>3. IdOf(Sender(h)) \in Ids
    BY <2>2 DEF IInv, Commanded, IdOf
  <2> QED
    BY <2>3, CommandsAre
<1>4. ASSUME NEW o, o \in Outcomes(n, c), Replied(h, o.native, IdOf(Sender(h)), o.accepted), IsCommand(c)
      PROVE  OneHostBecomes
  <2>1. native' = [native EXCEPT ![h] = o.native]
    BY <1>4 DEF Replied
  <2>2. Becomes(n, o.native)
    BY <1>1, <1>4, OutcomesOK
  <2> QED
    BY <1>2, <2>1, <2>2
<1>5. CASE HostReceives(h)
  <2>1. Sent(h, "command") /\ IsCommand(c)
    BY <1>3, <1>5 DEF HostReceives
  <2>2. \/ UNCHANGED native
        \/ \E o \in Outcomes(n, c) : Replied(h, o.native, IdOf(Sender(h)), o.accepted)
    BY <1>5 DEF HostReceives
  <2> QED
    BY <1>4, <2>1, <2>2 DEF OneHostBecomes
<1>6. CASE HostOpens(h)
  <2>1. Sent(h, "bootstrap") /\ IsCommand(c)
    BY <1>3, <1>6 DEF HostOpens
  <2>2. \E o \in Outcomes(n, c) : Replied(h, o.native, IdOf(Sender(h)), o.accepted)
    BY <1>6 DEF HostOpens
  <2> QED
    BY <1>4, <2>1, <2>2
<1>7. CASE HostWitnessed(h)
  <2>1. PICK p \in Requests, o \in Witnessed(n) : Replied(h, o.native, IdOf(p), o.accepted)
    BY <1>7 DEF HostWitnessed
  <2>2. native' = [native EXCEPT ![h] = o.native]
    BY <2>1 DEF Replied
  <2>3. Becomes(n, o.native)
    BY <1>1, <2>1, WitnessedOK
  <2> QED
    BY <1>2, <2>2, <2>3
<1>8. CASE Navigate(h)
  <2>1. native' = [native EXCEPT ![h] = Navigated(n)]
    BY <1>8 DEF Navigate
  <2> QED
    BY <1>1, <1>2, <2>1, NavigatedOK
<1>9. CASE LoseWindow(h)
  <2>1. native' = [native EXCEPT ![h] = Lost(n)]
    BY <1>9 DEF LoseWindow
  <2> QED
    BY <1>1, <1>2, <2>1, LostOK
<1>10. CASE HostCrash(h)
  BY <1>1, <1>10, EndedIsOne DEF HostCrash
<1>11. CASE \E role \in Roles : Commit(h, role)
  <2>1. PICK role \in Roles : Commit(h, role)
    BY <1>11
  <2>2. native' = [native EXCEPT ![h] = Committed(n, role)] /\ MayCommit(n, role)
    BY <2>1 DEF Commit
  <2> QED
    BY <1>1, <1>2, <2>2, CommittedOK
<1> QED
  BY <1>5, <1>6, <1>7, <1>8, <1>9, <1>10, <1>11

LEMMA HostIsCommanded ==
  ASSUME Commanded, UNCHANGED <<client, op, transport>>
  PROVE  Commanded'
BY DEF Commanded

LEMMA StepIsOne ==
  ASSUME IInv, [Next]_vars
  PROVE  Commanded' /\ OneHostBecomes
<1>1. Commanded
  BY DEF IInv
<1>2. ASSUME NEW p \in Requests, Request(p) \/ Cancel(p) \/ Task(p) \/ Thread(p)
      PROVE  Commanded' /\ OneHostBecomes
  BY <1>2, TaskIsCommanded, ThreadIsCommanded
<1>0. ASSUME NEW h \in Hosts, HostReadsOn(h)
      PROVE  Commanded' /\ OneHostBecomes
  BY <1>0, <1>1, ReadingIsCommanded
<1>3. ASSUME NEW h \in Hosts,
             \/ HostReceives(h) \/ HostOpens(h) \/ HostWitnessed(h)
             \/ Navigate(h) \/ LoseWindow(h) \/ HostCrash(h)
             \/ \E role \in Roles : Commit(h, role)
      PROVE  Commanded' /\ OneHostBecomes
  <2>1. UNCHANGED <<client, op, transport>>
    BY <1>3 DEF HostReceives, HostOpens, HostWitnessed, Navigate, LoseWindow, HostCrash, Commit,
                supervisorVars
  <2> QED
    BY <1>1, <1>3, <2>1, HostIsOne, HostIsCommanded
<1>4. CASE Shutdown
  <2>1. UNCHANGED <<client, op, native>> /\ transport' = 0
    BY <1>4 DEF Shutdown, hostVars
  <2> QED
    BY <1>1, <2>1 DEF Commanded, OneHostBecomes
<1>5. CASE ShutdownClosed
  <2>1. UNCHANGED <<client, op, transport>> /\ Ended(stopping)
    BY <1>5 DEF ShutdownClosed
  <2> QED
    BY <1>1, <2>1, EndedIsOne, HostIsCommanded DEF IInv
<1>6. CASE UNCHANGED vars
  <2>1. UNCHANGED <<client, op, transport, native>>
    BY <1>6 DEF vars, supervisorVars, hostVars
  <2> QED
    BY <1>1, <2>1, HostIsCommanded DEF OneHostBecomes
<1> QED
  BY <1>0, <1>2, <1>3, <1>4, <1>5, <1>6 DEF Next

LEMMA InitEstablishes == Init => IInv
<1> SUFFICES ASSUME Init PROVE IInv
  OBVIOUS
<1>1. native \in [Hosts -> Natives] /\ \A h \in Hosts : HostOK(native[h])
  BY StartedOK DEF Init, HostOK
<1>2. Commanded
  BY DEF Init, Commanded, Idle, Places
<1> QED
  BY <1>1, <1>2 DEF IInv, HostsOK

LEMMA StepKeeps == ASSUME IInv, [Next]_vars PROVE IInv' /\ NobodyRecovers
BY StepIsOne, HostsRemain DEF IInv

THEOREM Invariance == Spec => []IInv
<1>1. IInv /\ [Next]_vars => IInv'
  BY StepKeeps
<1> QED
  BY <1>1, InitEstablishes, PTL DEF Spec

\* Screens that are certified show one frame and have been witnessed
\* (ProjectionReducer.cs), whatever frames, swaps, lost windows, crashes and late
\* answers of the witness come in between.
THEOREM CertificationIsOfOneFrame == Spec => []CertifiedShowsOneFrame
<1>1. IInv => CertifiedShowsOneFrame
  BY DEF IInv, HostsOK, HostOK, CertifiedShowsOneFrame
<1> QED
  BY <1>1, Invariance, PTL

\* A session that was invalidated stays so until it is closed, whoever answers
\* later (NativeProjectionCommandExecutor.cs).
THEOREM InvalidationLasts == Spec => InvalidatedUntilClosed
<1>1. IInv /\ [Next]_vars =>
        [\A h \in Hosts :
           native[h].invalid /\ native[h].session # NoSession /\ native'[h].session = native[h].session
             => native'[h].invalid /\ ~native'[h].cert.certified]_vars
  BY StepKeeps DEF NobodyRecovers, Remains
<1> QED
  BY <1>1, Invariance, PTL DEF Spec, InvalidatedUntilClosed

-----------------------------------------------------------------------------
(***************************************************************************)
(* The pipe is fresh because of who may use it: one thread is in the       *)
(* supervisor at a time, what is on its way to or from a host that is not  *)
(* being closed is awaited by a thread, and a thread that stops waiting    *)
(* without an answer takes the transport.  For that, every host that lives *)
(* has to be the transport or be closed by somebody.                       *)
(***************************************************************************)

Message == {"none", "command", "bootstrap"}

Busy(p) == op[p].pc \notin {"none", "queued", "done"}
Pending(h) == inbox[h] # "none" \/ outbox[h] # NoReply \/ h \in asked
Awaits(p, h) == op[p].host = h /\ op[p].pc \in {"ready", "receive"}

SupervisorTyped ==
  /\ closing \in [Requests -> Hosts \cup {0}] /\ stopping \in Hosts \cup {0}
  /\ closed \in BOOLEAN
  /\ proc \in [Hosts -> {"unborn", "up", "dead"}]
  /\ inbox \in [Hosts -> Message] /\ outbox = [h \in Hosts |-> outbox[h]]

\* Who is at the gate has no thread, only who joins its thread is closing, and who
\* talks to a host has one.
Talking == {"resolve", "send", "sending", "ready", "transfer", "transferring", "receive"}
TasksAgree ==
  /\ \A p \in Requests : client[p].pc \in {"idle", "gate"} => op[p].pc = "none"
  /\ \A p \in Requests : closing[p] # 0 => client[p].pc = "joining"
  /\ stopping # 0 => closed
  /\ \A p \in Requests : op[p].pc \in Talking => op[p].host # 0

OneIsBusy == \A p, q \in Requests : Busy(p) /\ Busy(q) => p = q

\* A host that lives is the transport, or somebody is closing it.
HostsAreHeld == \A h \in Hosts : Up(h) => h = transport \/ BeingClosed(h)

PendingIsAwaited ==
  \A h \in Hosts : IsAlive(h) /\ Pending(h) => \E p \in Requests : Awaits(p, h)

OneIsPending ==
  \A h \in Hosts : /\ inbox[h] # "none" => outbox[h] = NoReply /\ h \notin asked
                   /\ h \in asked => outbox[h] = NoReply

\* Hosts are launched in the order of their numbers, with empty pipes.
BornInOrder ==
  /\ \E n \in 0 .. MaxHosts : \A h \in Hosts : proc[h] # "unborn" <=> h <= n
  /\ \A h \in Hosts : proc[h] = "unborn" => ~Pending(h)

\* The transport, and what is being closed, has been launched.
HeldAreBorn == \A h \in Hosts : h = transport \/ BeingClosed(h) => proc[h] # "unborn"

Channels == /\ SupervisorTyped /\ TasksAgree /\ OneIsBusy /\ HostsAreHeld
            /\ PendingIsAwaited /\ OneIsPending /\ BornInOrder /\ HeldAreBorn

-----------------------------------------------------------------------------
(* Threads *)

GoesTo(p, pc, h) == op' = [op EXCEPT ![p] = [pc |-> pc, host |-> h]]

LEMMA GoIs ==
  ASSUME Commanded, NEW p \in Requests, NEW pc, Go(p, pc)
  PROVE  op' = [op EXCEPT ![p] = [pc |-> pc, host |-> op[p].host]]
<1>1. op[p] \in [pc : Places, host : Hosts \cup {0}]
  BY DEF Commanded
<1>2. [op[p] EXCEPT !.pc = pc] = [pc |-> pc, host |-> op[p].host]
  BY <1>1
<1>3. op' = [op EXCEPT ![p] = [op[p] EXCEPT !.pc = pc]]
  BY DEF Go
<1> QED
  BY <1>2, <1>3

\* Nobody else is in the supervisor, so the thread that moves is the one.
LEMMA BusyAlone ==
  ASSUME Commanded, OneIsBusy, NEW p \in Requests, NEW r,
         op' = [op EXCEPT ![p] = r],
         Busy(p) \/ (\A q \in Requests : ~Busy(q)) \/ r.pc \in {"none", "queued", "done"}
  PROVE  OneIsBusy'
BY DEF Commanded, OneIsBusy, Busy

\* A thread that fails, or closes its session, takes the transport: no host is
\* left that is not being closed.
LEMMA TakingKeeps ==
  ASSUME Channels, Commanded, NEW p \in Requests, Busy(p), op[p].pc \notin {"fail", "close"},
         NEW pc \in {"fail", "close"}, TakeTransport(p, pc),
         UNCHANGED <<client, closing, closed, stopping, inbox, asked>>,
         proc' \in [Hosts -> {"unborn", "up", "dead"}], BornInOrder',
         \A h \in Hosts : proc'[h] = "up" => proc[h] = "up",
         \A h \in Hosts : proc'[h] = "unborn" => proc[h] = "unborn",
         outbox' = outbox \/ \E g : outbox' = [outbox EXCEPT ![g] = NoReply]
  PROVE  Channels'
<1>1. /\ op' = [op EXCEPT ![p] = [pc |-> pc, host |-> transport]] /\ transport' = 0
      /\ op \in [Requests -> [pc : Places, host : Hosts \cup {0}]]
  BY DEF TakeTransport, Commanded
<1>2. /\ op'[p].pc = pc /\ op'[p].host = transport
      /\ \A q \in Requests : q # p => op'[q] = op[q]
  BY <1>1
<1>3. /\ outbox' = [h \in Hosts |-> outbox'[h]]
      /\ \A h \in Hosts : outbox'[h] = outbox[h] \/ outbox'[h] = NoReply
  BY DEF Channels, SupervisorTyped
<1>4. SupervisorTyped'
  BY <1>3 DEF Channels, SupervisorTyped
<1>5. TasksAgree'
  BY <1>2 DEF Channels, TasksAgree, Busy, Talking
<1>6. OneIsBusy'
  BY <1>1, BusyAlone DEF Channels
<1>7. \A h \in Hosts : BeingClosed(h) \/ h = transport => BeingClosed(h)'
  <2> TAKE h \in Hosts
  <2>1. CASE h = transport
    BY <1>2, <2>1 DEF BeingClosed
  <2>2. CASE \E q \in Requests : closing[q] = h \/ (op[q].pc \in {"fail", "close"} /\ op[q].host = h)
    BY <1>2, <2>2 DEF BeingClosed
  <2>3. CASE stopping = h
    BY <2>3 DEF BeingClosed
  <2> QED
    BY <2>1, <2>2, <2>3 DEF BeingClosed
<1>8. \A h \in Hosts : Up(h)' => BeingClosed(h)'
  <2> SUFFICES ASSUME NEW h \in Hosts, Up(h)'
               PROVE  BeingClosed(h)'
    OBVIOUS
  <2>1. Up(h)
    <3>1. h # 0 /\ proc'[h] = "up"
      BY DEF Up
    <3>2. proc[h] = "up"
      BY <3>1
    <3> QED
      BY <3>1, <3>2 DEF Up
  <2>2. h = transport \/ BeingClosed(h)
    BY <2>1 DEF Channels, HostsAreHeld
  <2> QED
    BY <1>7, <2>2
<1>9. HostsAreHeld' /\ PendingIsAwaited'
  BY <1>8 DEF HostsAreHeld, PendingIsAwaited, IsAlive
<1>10. OneIsPending'
  BY <1>3 DEF Channels, OneIsPending
<1>11. HeldAreBorn'
  <2> SUFFICES ASSUME NEW h \in Hosts, h = transport' \/ BeingClosed(h)'
               PROVE  proc'[h] # "unborn"
    BY DEF HeldAreBorn
  <2>1. h # 0
    BY ProjectionAssumption DEF Hosts
  <2>2. h = transport \/ BeingClosed(h)
    BY <1>1, <1>2, <2>1 DEF BeingClosed
  <2> QED
    BY <2>2 DEF Channels, HeldAreBorn
<1> QED
  BY <1>4, <1>5, <1>6, <1>9, <1>10, <1>11 DEF Channels

\* A thread that goes on, and was not waiting, leaves the hosts alone.
LEMMA GoingKeeps ==
  ASSUME Channels, Commanded, NEW p \in Requests, NEW pc \in Places \ {"none", "fail", "close"}, NEW h,
         GoesTo(p, pc, h),
         op[p].pc \notin {"none", "fail", "close", "ready", "receive"}, pc \in Talking => h # 0,
         Busy(p) \/ (\A q \in Requests : ~Busy(q)),
         UNCHANGED <<client, closing, transport, closed, stopping, proc, inbox, outbox, asked>>
  PROVE  Channels'
<1>0. op' = [op EXCEPT ![p] = [pc |-> pc, host |-> h]]
  BY DEF GoesTo
<1>1. \A q \in Requests : q # p => op'[q] = op[q]
  BY <1>0 DEF Commanded
<1>2. SupervisorTyped' /\ OneIsPending' /\ BornInOrder'
  BY DEF Channels, SupervisorTyped, OneIsPending, BornInOrder, Pending
<1>3. TasksAgree'
  <2>1. op'[p].pc = pc /\ op'[p].host = h
    BY <1>0 DEF Commanded
  <2> QED
    BY <1>1, <2>1 DEF Channels, TasksAgree
<1>4. OneIsBusy'
  BY <1>0, BusyAlone DEF Channels
<1>5. \A g \in Hosts : BeingClosed(g) <=> BeingClosed(g)'
  <2>1. op'[p].pc \notin {"fail", "close"}
    BY <1>0 DEF Commanded
  <2> QED
    BY <1>1, <2>1 DEF BeingClosed
<1>6. HostsAreHeld' /\ HeldAreBorn'
  BY <1>5 DEF Channels, HostsAreHeld, HeldAreBorn, Up
<1>7. \A q \in Requests, g \in Hosts : Awaits(q, g) => Awaits(q, g)'
  BY <1>1 DEF Awaits
<1>8. PendingIsAwaited'
  <2> SUFFICES ASSUME NEW g \in Hosts, IsAlive(g)', Pending(g)'
               PROVE  \E q \in Requests : Awaits(q, g)'
    BY DEF PendingIsAwaited
  <2>1. IsAlive(g) /\ Pending(g)
    BY <1>5 DEF IsAlive, Up, Pending
  <2> QED
    BY <1>7, <2>1 DEF Channels, PendingIsAwaited
<1> QED
  BY <1>2, <1>3, <1>4, <1>6, <1>8 DEF Channels

\* The next host is not born yet.
LEMMA NextIsUnborn ==
  ASSUME Channels, NEW h, h = Cardinality({g \in Hosts : proc[g] # "unborn"}) + 1, h \in Hosts
  PROVE  /\ proc[h] = "unborn"
         /\ \A state \in {"up", "dead"} :
              proc' = [proc EXCEPT ![h] = state] /\ UNCHANGED <<inbox, outbox, asked>> => BornInOrder'
<1>1. PICK n \in 0 .. MaxHosts : \A g \in Hosts : proc[g] # "unborn" <=> g <= n
  BY DEF Channels, BornInOrder
<1>2. MaxHosts \in Nat
  BY ProjectionAssumption
<1>3. {g \in Hosts : proc[g] # "unborn"} = 1 .. n
  BY <1>1, <1>2 DEF Hosts
<1>4. Cardinality(1 .. n) = n
  BY <1>1, <1>2, FS_Interval
<1>5. h = n + 1
  BY <1>3, <1>4
<1>6. proc[h] = "unborn"
  BY <1>1, <1>5, <1>2
<1>7. ASSUME NEW state \in {"up", "dead"}, proc' = [proc EXCEPT ![h] = state],
             UNCHANGED <<inbox, outbox, asked>>
      PROVE  BornInOrder'
  <2>1. \A g \in Hosts : proc'[g] = IF g = h THEN state ELSE proc[g]
    BY <1>7 DEF Channels, SupervisorTyped
  <2>2. n + 1 \in 0 .. MaxHosts
    BY <1>1, <1>2, <1>5 DEF Hosts
  <2>3. \A g \in Hosts : proc'[g] # "unborn" <=> g <= n + 1
    BY <1>1, <1>2, <1>5, <2>1 DEF Hosts
  <2>4. \A g \in Hosts : proc'[g] = "unborn" => ~Pending(g)'
    BY <1>7, <2>1 DEF Channels, BornInOrder, Pending
  <2> QED
    BY <2>2, <2>3, <2>4 DEF BornInOrder
<1> QED
  BY <1>6, <1>7

LEMMA LaunchKeeps ==
  ASSUME Channels, Commanded, NEW p \in Requests, Launch(p)
  PROVE  Channels'
<1> DEFINE h == Cardinality({g \in Hosts : proc[g] # "unborn"}) + 1
           pc == IF CommandOf(p).kind = "open" THEN "resolve" ELSE "send"
<1>1. At(p, "ensure") /\ Busy(p) /\ transport = 0
  BY DEF Launch, At, Busy
<1>2. CASE Refused(p)
  <2>1. TakeTransport(p, "fail") /\ UNCHANGED <<client, closing, closed, stopping, proc, inbox, outbox, asked>>
    BY <1>2 DEF Refused, Fail, hostVars
  <2>2. BornInOrder'
    BY <2>1 DEF Channels, BornInOrder, Pending
  <2> QED
    BY <1>1, <2>1, <2>2, TakingKeeps DEF At, Channels, SupervisorTyped
<1>3. CASE h \in Hosts /\ Undone(p, h)
  <2>1. /\ TakeTransport(p, "fail") /\ UNCHANGED <<client, closing, closed, stopping, inbox, outbox, asked>>
        /\ proc' = [proc EXCEPT ![h] = "dead"]
    BY <1>3 DEF Undone, Fail
  <2>2. BornInOrder'
    BY <1>3, <2>1, NextIsUnborn
  <2>3. proc' \in [Hosts -> {"unborn", "up", "dead"}] /\ \A g \in Hosts : proc'[g] # proc[g] => proc'[g] = "dead"
    BY <2>1 DEF Channels, SupervisorTyped
  <2> QED
    BY <1>1, <2>1, <2>2, <2>3, TakingKeeps DEF At
<1>4. CASE h \in Hosts /\ Launched(p, h)
  <2>1. /\ op' = [op EXCEPT ![p] = [pc |-> pc, host |-> h]] /\ transport' = h
        /\ proc' = [proc EXCEPT ![h] = "up"]
        /\ UNCHANGED <<client, closing, closed, stopping, inbox, outbox, asked>>
    BY <1>4 DEF Launched
  <2>2. proc[h] = "unborn" /\ BornInOrder'
    BY <1>4, <2>1, NextIsUnborn
  <2>3. pc \in {"resolve", "send"}
    OBVIOUS
  <2> HIDE DEF h, pc
  <2>4. /\ \A q \in Requests : q # p => op'[q] = op[q]
        /\ \A g \in Hosts : g # h => proc'[g] = proc[g]
    BY <2>1 DEF Commanded, Channels, SupervisorTyped
  <2>5. SupervisorTyped' /\ OneIsPending'
    BY <2>1 DEF Channels, SupervisorTyped, OneIsPending
  <2>6. TasksAgree'
    <3>1. op'[p].host = h /\ h # 0
      BY <1>4, <2>1, ProjectionAssumption DEF Commanded, Hosts
    <3> QED
      BY <1>1, <2>1, <2>4, <3>1 DEF Channels, TasksAgree, At
  <2>7. OneIsBusy'
    BY <1>1, <2>1, BusyAlone DEF Channels
  <2>8. \A g \in Hosts : BeingClosed(g) <=> BeingClosed(g)'
    <3>1. op'[p].pc = pc
      BY <2>1 DEF Commanded
    <3> QED
      BY <1>1, <2>1, <2>3, <2>4, <3>1 DEF BeingClosed, At
  <2>9. HostsAreHeld' /\ HeldAreBorn'
    <3>1. proc'[h] = "up"
      BY <1>4, <2>1 DEF Channels, SupervisorTyped
    <3> QED
      BY <1>1, <2>1, <2>4, <2>8, <3>1 DEF Channels, HostsAreHeld, HeldAreBorn, Up, Hosts
  <2>10. PendingIsAwaited'
    <3> SUFFICES ASSUME NEW g \in Hosts, IsAlive(g)', Pending(g)'
                 PROVE  \E q \in Requests : Awaits(q, g)'
      BY DEF PendingIsAwaited
    <3>1. Pending(g) /\ g # h
      BY <2>1, <2>2 DEF Pending, Channels, BornInOrder
    <3>2. IsAlive(g)
      BY <2>4, <2>8, <3>1 DEF IsAlive, Up
    <3>3. PICK q \in Requests : Awaits(q, g)
      BY <3>1, <3>2 DEF Channels, PendingIsAwaited
    <3>4. q # p
      BY <1>1, <3>3 DEF Awaits, At
    <3> QED
      BY <2>4, <3>3, <3>4 DEF Awaits
  <2> QED
    BY <2>2, <2>5, <2>6, <2>7, <2>9, <2>10 DEF Channels
<1> QED
  BY <1>2, <1>3, <1>4 DEF Launch

\* A message to a host: its pipe is empty, since nobody awaits anything of it.
LEMMA SendingIsFresh ==
  ASSUME Channels, NEW p \in Requests, Busy(p), op[p].pc \notin {"ready", "receive"},
         NEW h \in Hosts, IsAlive(h)
  PROVE  ~Pending(h)
<1> SUFFICES ASSUME Pending(h) PROVE FALSE
  OBVIOUS
<1>1. PICK q \in Requests : Awaits(q, h)
  BY DEF Channels, PendingIsAwaited
<1>2. Busy(q)
  BY <1>1 DEF Awaits, Busy
<1>3. q = p
  BY <1>2 DEF Channels, OneIsBusy
<1> QED
  BY <1>1, <1>3 DEF Awaits

LEMMA FailKeeps ==
  ASSUME Channels, Commanded, NEW p \in Requests, Fail(p), Busy(p), op[p].pc \notin {"fail", "close"},
         UNCHANGED <<proc, inbox, asked>>,
         outbox' = outbox \/ \E g : outbox' = [outbox EXCEPT ![g] = NoReply]
  PROVE  Channels'
<1>1. TakeTransport(p, "fail") /\ UNCHANGED <<client, closing, closed, stopping>>
  BY DEF Fail
<1>2. \A h \in Hosts : outbox'[h] = outbox[h] \/ outbox'[h] = NoReply
  BY DEF Channels, SupervisorTyped
<1>3. BornInOrder'
  BY <1>2 DEF Channels, BornInOrder, Pending
<1>4. proc' \in [Hosts -> {"unborn", "up", "dead"}]
  BY DEF Channels, SupervisorTyped
<1> QED
  BY <1>1, <1>3, <1>4, TakingKeeps

LEMMA WrittenKeeps ==
  ASSUME Channels, Commanded, NEW p \in Requests, NEW message \in Message \ {"none"},
         NEW pc \in {"ready", "receive"}, IsAlive(op[p].host), Written(p, message, pc),
         op[p].pc \in {"send", "sending", "transfer", "transferring"}
  PROVE  Channels'
<1> DEFINE h == op[p].host
<1>1. Busy(p)
  BY DEF Busy
<1>3. CASE IsAlive(h) /\ inbox' = [inbox EXCEPT ![h] = message] /\ Go(p, pc)
           /\ UNCHANGED <<client, closing, transport, receipts, closed, stopping, proc, native, outbox, asked,
                          calls, faults>>
  <2>1. h \in Hosts
    BY <1>3 DEF Commanded, IsAlive, Up
  <2>2. op' = [op EXCEPT ![p] = [pc |-> pc, host |-> h]]
    BY <1>3, GoIs
  <2>3. \A q \in Requests : q # p => op'[q] = op[q]
    BY <2>2 DEF Commanded
  <2>4. ~Pending(h)
    BY <1>1, <1>3, <2>1, SendingIsFresh
  <2>5. \A g \in Hosts : inbox'[g] = IF g = h THEN message ELSE inbox[g]
    BY <1>3 DEF Channels, SupervisorTyped
  <2>6. proc[h] = "up"
    BY <1>3 DEF IsAlive, Up
  <2>7. op'[p] = [pc |-> pc, host |-> h]
    BY <2>2 DEF Commanded
  <2> HIDE DEF h
  <2>8. SupervisorTyped'
    BY <1>3, <2>1 DEF Channels, SupervisorTyped
  <2>9. TasksAgree'
    BY <1>3, <2>3, <2>7 DEF Channels, TasksAgree, Talking, IsAlive, Up
  <2>10. OneIsBusy'
    BY <1>1, <2>2, BusyAlone DEF Channels
  <2>11. \A g \in Hosts : BeingClosed(g) <=> BeingClosed(g)'
    BY <1>3, <2>3, <2>7 DEF BeingClosed
  <2>12. HostsAreHeld' /\ HeldAreBorn'
    BY <1>3, <2>11 DEF Channels, HostsAreHeld, HeldAreBorn, Up
  <2>13. PendingIsAwaited'
    <3> SUFFICES ASSUME NEW g \in Hosts, IsAlive(g)', Pending(g)'
                 PROVE  \E q \in Requests : Awaits(q, g)'
      BY DEF PendingIsAwaited
    <3>1. CASE g = h
      BY <2>7, <3>1 DEF Awaits
    <3>2. CASE g # h
      <4>1. IsAlive(g) /\ Pending(g)
        BY <1>3, <2>5, <2>11, <3>2 DEF IsAlive, Up, Pending
      <4>2. PICK q \in Requests : Awaits(q, g)
        BY <4>1 DEF Channels, PendingIsAwaited
      <4>3. q # p
        BY <4>2 DEF Awaits
      <4> QED
        BY <2>3, <4>2, <4>3 DEF Awaits
    <3> QED
      BY <3>1, <3>2
  <2>14. OneIsPending'
    BY <1>3, <2>4, <2>5 DEF Channels, OneIsPending, Pending
  <2>15. BornInOrder'
    BY <1>3, <2>5, <2>6 DEF Channels, BornInOrder, Pending
  <2> QED
    BY <2>8, <2>9, <2>10, <2>12, <2>13, <2>14, <2>15 DEF Channels
<1> QED
  BY <1>3 DEF Written

LEMMA WritesKeeps ==
  ASSUME Channels, Commanded, NEW p \in Requests, NEW message \in Message \ {"none"},
         NEW pc \in {"ready", "receive"}, NEW part \in {"sending", "transferring"},
         Writes(p, message, pc, part), op[p].pc \in {"send", "transfer"}
  PROVE  Channels'
<1>1. Busy(p)
  BY DEF Busy
<1>2. CASE IsAlive(op[p].host) /\ Written(p, message, pc)
  BY <1>2, WrittenKeeps
<1>3. CASE /\ Go(p, part)
           /\ UNCHANGED <<client, closing, transport, receipts, closed, stopping, hostVars, calls, faults>>
  <2>1. GoesTo(p, part, op[p].host)
    BY <1>3, GoIs DEF GoesTo
  <2>2. op[p].host # 0
    BY DEF Channels, TasksAgree, Talking
  <2>3. UNCHANGED <<client, closing, transport, closed, stopping, proc, inbox, outbox, asked>>
    BY <1>3 DEF hostVars
  <2>4. part \in Places \ {"none", "fail", "close"}
    BY DEF Places
  <2> QED
    BY <1>1, <2>1, <2>2, <2>3, <2>4, GoingKeeps
<1>4. CASE Fail(p) /\ UNCHANGED hostVars
  BY <1>1, <1>4, FailKeeps DEF hostVars
<1> QED
  BY <1>2, <1>3, <1>4 DEF Writes

\* Once its answer is taken, nothing is on its way to or from the host.
LEMMA TakenKeeps ==
  ASSUME Channels, Commanded, NEW p \in Requests, NEW pc \in {"transfer", "done"}, Go(p, pc), Taken(p),
         op[p].pc \in {"ready", "receive"}, Answered(p), NEW h \in Hosts, h = op[p].host,
         UNCHANGED <<client, closing, transport, closed, stopping>>
  PROVE  Channels'
<1>1. op' = [op EXCEPT ![p] = [pc |-> pc, host |-> h]]
  BY GoIs
<1>2. \A q \in Requests : q # p => op'[q] = op[q]
  BY <1>1 DEF Commanded
<1>3. outbox' = [outbox EXCEPT ![h] = NoReply] /\ UNCHANGED <<proc, inbox, asked>>
  BY DEF Taken
<1>4. \A g \in Hosts : outbox'[g] = IF g = h THEN NoReply ELSE outbox[g]
  BY <1>3 DEF Channels, SupervisorTyped
<1>5. ~Pending(h)'
  BY <1>3, <1>4 DEF Channels, OneIsPending, Pending, Answered
<1>6. \A g \in Hosts : Pending(g)' => Pending(g)
  BY <1>3, <1>4 DEF Pending
<1>7. SupervisorTyped'
  BY <1>3 DEF Channels, SupervisorTyped
<1>8. TasksAgree'
  <2>1. op'[p].host = h /\ h # 0
    BY <1>1, ProjectionAssumption DEF Commanded, Hosts
  <2> QED
    BY <1>2, <2>1 DEF Channels, TasksAgree
<1>9. OneIsBusy'
  BY <1>1, BusyAlone DEF Channels, Busy
<1>10. \A g \in Hosts : BeingClosed(g) <=> BeingClosed(g)'
  <2>1. op'[p].pc = pc
    BY <1>1 DEF Commanded
  <2> QED
    BY <1>2, <2>1 DEF BeingClosed
<1>11. HostsAreHeld' /\ HeldAreBorn'
  BY <1>3, <1>10 DEF Channels, HostsAreHeld, HeldAreBorn, Up
<1>12. PendingIsAwaited'
  <2> SUFFICES ASSUME NEW g \in Hosts, IsAlive(g)', Pending(g)'
               PROVE  \E q \in Requests : Awaits(q, g)'
    BY DEF PendingIsAwaited
  <2>1. g # h /\ Pending(g) /\ IsAlive(g)
    BY <1>3, <1>5, <1>6, <1>10 DEF IsAlive, Up
  <2>2. PICK q \in Requests : Awaits(q, g)
    BY <2>1 DEF Channels, PendingIsAwaited
  <2>3. q # p
    BY <2>1, <2>2 DEF Awaits
  <2> QED
    BY <1>2, <2>2, <2>3 DEF Awaits
<1>13. OneIsPending'
  BY <1>3, <1>4 DEF Channels, OneIsPending
<1>14. BornInOrder'
  BY <1>3, <1>6 DEF Channels, BornInOrder
<1> QED
  BY <1>7, <1>8, <1>9, <1>11, <1>12, <1>13, <1>14 DEF Channels

\* A host that ends is nobody's any more: whoever was closing it may stop.
LEMMA EndingKeeps ==
  ASSUME Channels, NEW g \in Hosts, Ended(g), UNCHANGED <<transport, closed>>,
         closing' \in [Requests -> Hosts \cup {0}], stopping' \in Hosts \cup {0},
         TasksAgree', OneIsBusy',
         \A h \in Hosts : h # g => (BeingClosed(h) <=> BeingClosed(h)'),
         \A q \in Requests, h \in Hosts : Awaits(q, h) => Awaits(q, h)',
         proc[g] # "unborn"
  PROVE  Channels'
<1>1. /\ proc' = [proc EXCEPT ![g] = "dead"] /\ inbox' = [inbox EXCEPT ![g] = "none"]
      /\ asked' = asked \ {g} /\ outbox' = outbox
  BY DEF Ended
<1>2. \A h \in Hosts : /\ proc'[h] = IF h = g THEN "dead" ELSE proc[h]
                       /\ inbox'[h] = IF h = g THEN "none" ELSE inbox[h]
  BY <1>1 DEF Channels, SupervisorTyped
<1>3. SupervisorTyped'
  BY <1>1 DEF Channels, SupervisorTyped, Message
<1>4. HostsAreHeld' /\ HeldAreBorn'
  BY <1>2 DEF Channels, HostsAreHeld, HeldAreBorn, Up
<1>5. \A h \in Hosts : Pending(h)' => Pending(h)
  BY <1>1, <1>2 DEF Pending
<1>6. PendingIsAwaited'
  <2> SUFFICES ASSUME NEW h \in Hosts, IsAlive(h)', Pending(h)'
               PROVE  \E q \in Requests : Awaits(q, h)'
    BY DEF PendingIsAwaited
  <2>1. h # g
    BY <1>2 DEF IsAlive, Up
  <2>2. IsAlive(h)
    BY <1>2, <2>1 DEF IsAlive, Up
  <2> QED
    BY <1>5, <2>2 DEF Channels, PendingIsAwaited
<1>7. OneIsPending'
  BY <1>1, <1>2 DEF Channels, OneIsPending
<1>8. BornInOrder'
  <2>1. \A h \in Hosts : proc'[h] = "unborn" <=> proc[h] = "unborn"
    BY <1>2
  <2> QED
    BY <1>5, <2>1 DEF Channels, BornInOrder
<1> QED
  BY <1>3, <1>4, <1>6, <1>7, <1>8 DEF Channels

LEMMA ReceiveKeeps ==
  ASSUME Channels, Commanded, NEW p \in Requests, Receive(p)
  PROVE  Channels'
<1>1. At(p, "receive") /\ Answered(p) /\ Taken(p)
  BY DEF Receive
<1>2. Busy(p) /\ op[p].pc = "receive" /\ op[p].host \in Hosts
  BY <1>1 DEF At, Busy, Commanded, Channels, TasksAgree, Talking
<1>3. outbox' = [outbox EXCEPT ![op[p].host] = NoReply] /\ UNCHANGED <<proc, inbox, asked>>
  BY <1>1 DEF Taken
<1>4. CASE Fail(p)
  BY <1>2, <1>3, <1>4, FailKeeps
<1>5. ASSUME NEW pc \in {"fail", "close"}, TakeTransport(p, pc), UNCHANGED <<client, closing, closed, stopping>>
      PROVE  Channels'
  <2>1. \A h \in Hosts : outbox'[h] = outbox[h] \/ outbox'[h] = NoReply
    BY <1>3 DEF Channels, SupervisorTyped
  <2>2. BornInOrder'
    BY <1>3, <2>1 DEF Channels, BornInOrder, Pending
  <2>3. proc' \in [Hosts -> {"unborn", "up", "dead"}]
    BY <1>3 DEF Channels, SupervisorTyped
  <2> QED
    BY <1>2, <1>3, <1>5, <2>2, <2>3, TakingKeeps
<1>6. CASE Go(p, "done") /\ UNCHANGED <<client, closing, transport, closed, stopping>>
  BY <1>1, <1>2, <1>6, TakenKeeps
<1> QED
  BY <1>1, <1>4, <1>5, <1>6 DEF Receive

LEMMA CloseKeeps ==
  ASSUME Channels, Commanded, NEW p \in Requests, CloseTransport(p)
  PROVE  Channels'
<1>1. /\ op[p].pc \in {"fail", "close"} /\ op[p].host \in Hosts \cup {0}
      /\ op' = [op EXCEPT ![p] = [pc |-> "done", host |-> 0]]
      /\ UNCHANGED <<client, closing, transport, closed, stopping>>
  BY DEF CloseTransport, Commanded
<1>2. /\ op'[p] = [pc |-> "done", host |-> 0]
      /\ \A q \in Requests : q # p => op'[q] = op[q]
  BY <1>1 DEF Commanded
<1>3. TasksAgree'
  BY <1>1, <1>2 DEF Channels, TasksAgree, Talking
<1>4. OneIsBusy'
  BY <1>1, BusyAlone DEF Channels
<1>5. \A q \in Requests, h \in Hosts : Awaits(q, h) => Awaits(q, h)'
  BY <1>1, <1>2 DEF Awaits
<1>6. \A h \in Hosts : h # op[p].host => (BeingClosed(h) <=> BeingClosed(h)')
  BY <1>1, <1>2 DEF BeingClosed
<1>7. CASE op[p].host = 0
  <2>1. UNCHANGED <<proc, inbox, outbox, asked>>
    BY <1>7 DEF CloseTransport, hostVars
  <2>2. 0 \notin Hosts
    BY ProjectionAssumption DEF Hosts
  <2>3. \A h \in Hosts : (BeingClosed(h) <=> BeingClosed(h)')
    BY <1>6, <1>7, <2>2
  <2>4. SupervisorTyped' /\ OneIsPending' /\ BornInOrder'
    BY <1>1, <2>1 DEF Channels, SupervisorTyped, OneIsPending, BornInOrder, Pending
  <2>5. HostsAreHeld' /\ HeldAreBorn'
    BY <1>1, <2>1, <2>3 DEF Channels, HostsAreHeld, HeldAreBorn, Up
  <2>6. PendingIsAwaited'
    <3> SUFFICES ASSUME NEW h \in Hosts, IsAlive(h)', Pending(h)'
                 PROVE  \E q \in Requests : Awaits(q, h)'
      BY DEF PendingIsAwaited
    <3>1. IsAlive(h) /\ Pending(h)
      BY <2>1, <2>3 DEF IsAlive, Up, Pending
    <3> QED
      BY <1>5, <3>1 DEF Channels, PendingIsAwaited
  <2> QED
    BY <1>3, <1>4, <2>4, <2>5, <2>6 DEF Channels
<1>8. ASSUME NEW g \in Hosts, g = op[p].host
      PROVE  Channels'
  <2>1. g # 0
    BY ProjectionAssumption DEF Hosts
  <2>2. Ended(g)
    BY <1>8, <2>1 DEF CloseTransport
  <2>3. proc[g] # "unborn"
    BY <1>1, <1>8 DEF Channels, HeldAreBorn, BeingClosed
  <2>4. closing' \in [Requests -> Hosts \cup {0}] /\ stopping' \in Hosts \cup {0}
    BY <1>1 DEF Channels, SupervisorTyped
  <2> QED
    BY <1>1, <1>3, <1>4, <1>5, <1>6, <1>8, <2>2, <2>3, <2>4, EndingKeeps
<1> QED
  BY <1>1, <1>7, <1>8

LEMMA ThreadKeeps ==
  ASSUME Channels, Commanded, NEW p \in Requests, Thread(p)
  PROVE  Channels'
<1> DEFINE start == IF CommandOf(p).kind = "open" THEN "resolve" ELSE "send"
<1>0. start \in {"resolve", "send"} /\ transport \in Hosts \cup {0}
  BY DEF Commanded
<1> HIDE DEF start
<1>1. CASE Begin(p)
  <2>1. /\ op[p].pc = "queued" /\ \A q \in Requests : ~Busy(q)
        /\ UNCHANGED <<client, closing, transport, closed, stopping, proc, inbox, outbox, asked>>
    BY <1>1 DEF Begin, At, Busy, hostVars
  <2>2. \E pc \in {"done", "ensure"} : Go(p, pc)
    BY <1>1 DEF Begin
  <2>3. PICK pc \in {"done", "ensure"} : GoesTo(p, pc, op[p].host)
    BY <2>2, GoIs DEF GoesTo
  <2>4. pc \in Places \ {"none", "fail", "close"} /\ pc \notin Talking
    BY DEF Places, Talking
  <2> QED
    BY <2>1, <2>3, <2>4, GoingKeeps
<1>2. CASE Launch(p)
  BY <1>2, LaunchKeeps
<1>3. CASE Ensure(p)
  <2>1. op[p].pc = "ensure" /\ Busy(p) /\ UNCHANGED <<proc, inbox, outbox, asked>>
    BY <1>3 DEF Ensure, At, Busy, hostVars
  <2>2. CASE IsAlive(transport)
    <3>1. /\ op' = [op EXCEPT ![p] = [pc |-> start, host |-> transport]]
          /\ UNCHANGED <<client, closing, transport, closed, stopping>>
      BY <1>3, <2>2 DEF Ensure, start
    <3>2. transport # 0
      BY <2>2 DEF IsAlive, Up
    <3>3. UNCHANGED <<client, closing, transport, closed, stopping, proc, inbox, outbox, asked>>
      BY <2>1, <3>1
    <3>4. \A pc \in {"resolve", "send"} : pc \in Places \ {"none", "fail", "close"}
      BY DEF Places
    <3>5. CASE start = "resolve"
      <4>1. GoesTo(p, "resolve", transport)
        BY <3>1, <3>5 DEF GoesTo
      <4> QED
        BY <2>1, <3>2, <3>3, <3>4, <4>1, GoingKeeps
    <3>6. CASE start = "send"
      <4>1. GoesTo(p, "send", transport)
        BY <3>1, <3>6 DEF GoesTo
      <4> QED
        BY <2>1, <3>2, <3>3, <3>4, <4>1, GoingKeeps
    <3> QED
      BY <1>0, <3>5, <3>6
  <2>3. CASE ~IsAlive(transport)
    <3>1. Fail(p)
      BY <1>3, <2>3 DEF Ensure
    <3> QED
      BY <2>1, <3>1, FailKeeps
  <2> QED
    BY <2>2, <2>3
<1>4. CASE Resolve(p)
  <2>1. op[p].pc = "resolve" /\ Busy(p) /\ UNCHANGED <<proc, inbox, outbox, asked>>
    BY <1>4 DEF Resolve, At, Busy, hostVars
  <2>2. CASE Go(p, "send") /\ UNCHANGED <<client, closing, transport, closed, stopping>>
    <3>1. GoesTo(p, "send", op[p].host)
      BY <2>2, GoIs DEF GoesTo
    <3>2. op[p].host # 0
      BY <2>1 DEF Channels, TasksAgree, Talking
    <3> QED
      BY <2>1, <2>2, <3>1, <3>2, GoingKeeps DEF Places
  <2>3. CASE Fail(p)
    BY <2>1, <2>3, FailKeeps
  <2> QED
    BY <1>4, <2>2, <2>3 DEF Resolve
<1>5. CASE Send(p)
  <2>1. /\ op[p].pc = "send"
        /\ Writes(p, "command", "ready", "sending") \/ Writes(p, "command", "receive", "sending")
    BY <1>5 DEF Send, AfterCommand, At
  <2> QED
    BY <2>1, WritesKeeps DEF Message
<1>6. CASE ExpectReady(p)
  <2>1. op[p].pc = "ready" /\ Busy(p) /\ Answered(p) /\ Taken(p) /\ op[p].host \in Hosts
    BY <1>6 DEF ExpectReady, At, Busy, Commanded, Channels, TasksAgree, Talking
  <2>2. outbox' = [outbox EXCEPT ![op[p].host] = NoReply] /\ UNCHANGED <<proc, inbox, asked>>
    BY <2>1 DEF Taken
  <2>3. CASE Go(p, "transfer") /\ UNCHANGED <<client, closing, transport, closed, stopping>>
    BY <2>1, <2>3, TakenKeeps
  <2>4. CASE Fail(p)
    BY <2>1, <2>2, <2>4, FailKeeps
  <2> QED
    BY <1>6, <2>3, <2>4 DEF ExpectReady
<1>7. CASE Transfer(p)
  <2>1. op[p].pc = "transfer" /\ Busy(p)
    BY <1>7 DEF Transfer, At, Busy
  <2>2. CASE Writes(p, "bootstrap", "receive", "transferring")
    BY <2>1, <2>2, WritesKeeps DEF Message
  <2>3. CASE Fail(p) /\ UNCHANGED hostVars
    BY <2>1, <2>3, FailKeeps DEF hostVars
  <2> QED
    BY <1>7, <2>2, <2>3 DEF Transfer
<1>8. CASE Receive(p)
  BY <1>8, ReceiveKeeps
<1>9. CASE HostTimeout(p) \/ Broken(p)
  BY <1>9, FailKeeps DEF HostTimeout, Waits, Broken, Blocked, At, Busy, hostVars
<1>10. CASE CloseTransport(p)
  BY <1>10, CloseKeeps
<1> QED
  BY <1>1, <1>2, <1>3, <1>4, <1>5, <1>6, <1>7, <1>8, <1>9, <1>10 DEF Thread

-----------------------------------------------------------------------------
(* Tasks *)

\* Nothing happens to the hosts, and nobody stops closing or waiting.
LEMMA QuietKeeps ==
  ASSUME Channels, TasksAgree', OneIsBusy', SupervisorTyped', UNCHANGED <<proc, inbox, outbox, asked>>,
         \A h \in Hosts : transport' = h \/ BeingClosed(h)' <=> transport = h \/ BeingClosed(h),
         \A h \in Hosts : BeingClosed(h) => BeingClosed(h)',
         \A q \in Requests, h \in Hosts : Awaits(q, h) => Awaits(q, h)'
  PROVE  Channels'
<1>1. OneIsPending' /\ BornInOrder'
  BY DEF Channels, OneIsPending, BornInOrder, Pending
<1>2. HostsAreHeld' /\ HeldAreBorn'
  BY DEF Channels, HostsAreHeld, HeldAreBorn, Up
<1>3. PendingIsAwaited'
  <2> SUFFICES ASSUME NEW h \in Hosts, IsAlive(h)', Pending(h)'
               PROVE  \E q \in Requests : Awaits(q, h)'
    BY DEF PendingIsAwaited
  <2>1. IsAlive(h) /\ Pending(h)
    BY DEF IsAlive, Up, Pending
  <2> QED
    BY <2>1 DEF Channels, PendingIsAwaited
<1> QED
  BY <1>1, <1>2, <1>3 DEF Channels

\* A thread begins or ends outside of the supervisor.
LEMMA SwitchKeeps ==
  ASSUME Channels, Commanded, NEW p \in Requests, NEW pc \in {"none", "queued"}, GoesTo(p, pc, 0),
         op[p].pc \in {"none", "done"}, TasksAgree',
         UNCHANGED <<closing, transport, closed, stopping, proc, inbox, outbox, asked>>
  PROVE  Channels'
<1>1. op' = [op EXCEPT ![p] = [pc |-> pc, host |-> 0]]
  BY DEF GoesTo
<1>2. /\ op'[p] = [pc |-> pc, host |-> 0]
      /\ \A q \in Requests : q # p => op'[q] = op[q]
  BY <1>1 DEF Commanded
<1>3. SupervisorTyped'
  BY DEF Channels, SupervisorTyped
<1>4. OneIsBusy'
  BY <1>1, BusyAlone DEF Channels
<1>5. \A h \in Hosts : BeingClosed(h)' <=> BeingClosed(h)
  BY <1>2 DEF BeingClosed
<1>6. \A q \in Requests, h \in Hosts : Awaits(q, h) => Awaits(q, h)'
  BY <1>2 DEF Awaits
<1>7. \A h \in Hosts : transport' = h \/ BeingClosed(h)' <=> transport = h \/ BeingClosed(h)
  BY <1>5
<1> QED
  BY <1>3, <1>4, <1>5, <1>6, <1>7, QuietKeeps

LEMMA TaskKeeps ==
  ASSUME Channels, Commanded, NEW p \in Requests, Request(p) \/ Cancel(p) \/ Task(p)
  PROVE  Channels'
<1>1. TasksAgree /\ SupervisorTyped /\ OneIsBusy
  BY DEF Channels
<1>2. CASE Request(p) \/ Cancel(p)
  <2>1. /\ UNCHANGED <<op, closing, transport, closed, stopping, proc, inbox, outbox, asked>>
        /\ \/ client[p].pc = "idle" /\ client' = [client EXCEPT ![p].pc = "gate"]
           \/ client[p].pc = "running" /\ client' = [client EXCEPT ![p].pc = "cancelling"]
    BY <1>2 DEF Request, Cancel, supervisorVars, hostVars
  <2>2. /\ \A q \in Requests : q # p => client'[q] = client[q]
        /\ \/ client[p].pc = "idle" /\ client'[p].pc = "gate"
           \/ client[p].pc = "running" /\ client'[p].pc = "cancelling"
    BY <2>1 DEF Commanded
  <2>3. TasksAgree'
    BY <1>1, <2>1, <2>2 DEF TasksAgree
  <2>4. SupervisorTyped' /\ OneIsBusy'
    BY <1>1, <2>1 DEF SupervisorTyped, OneIsBusy, Busy
  <2>5. /\ \A h \in Hosts : BeingClosed(h)' <=> BeingClosed(h)
        /\ \A q \in Requests, h \in Hosts : Awaits(q, h) => Awaits(q, h)'
    BY <2>1 DEF BeingClosed, Awaits
  <2>6. \A h \in Hosts : transport' = h \/ BeingClosed(h)' <=> transport = h \/ BeingClosed(h)
    BY <2>1, <2>5
  <2> QED
    BY <2>1, <2>3, <2>4, <2>5, <2>6, QuietKeeps
<1>3. CASE Acquire(p)
  <2>1. /\ client[p].pc = "gate"
        /\ \E i \in Ids : client' = [client EXCEPT ![p] = [pc |-> "running", command |-> i]]
        /\ GoesTo(p, "queued", 0)
        /\ UNCHANGED <<closing, transport, closed, stopping, proc, inbox, outbox, asked>>
    BY <1>3 DEF Acquire, GoesTo, hostVars
  <2>2. client'[p].pc = "running" /\ \A q \in Requests : q # p => client'[q] = client[q]
    BY <2>1 DEF Commanded
  <2>3. /\ op[p].pc = "none" /\ closing[p] = 0
    BY <1>1, <2>1 DEF TasksAgree
  <2>4. /\ op'[p] = [pc |-> "queued", host |-> 0]
        /\ \A q \in Requests : q # p => op'[q] = op[q]
    BY <2>1 DEF GoesTo, Commanded
  <2>5. TasksAgree'
    BY <1>1, <2>1, <2>2, <2>3, <2>4 DEF TasksAgree, Talking
  <2> QED
    BY <2>1, <2>3, <2>5, SwitchKeeps
<1>4. ASSUME Leave(p), op[p].pc = "done", closing[p] = 0
      PROVE  Channels'
  <2>1. /\ client' = [client EXCEPT ![p] = [pc |-> "idle", command |-> 0]]
        /\ GoesTo(p, "none", 0)
        /\ UNCHANGED <<closing, transport, closed, stopping, proc, inbox, outbox, asked>>
    BY <1>4 DEF Leave, Idle, GoesTo, hostVars
  <2>2. client'[p].pc = "idle" /\ \A q \in Requests : q # p => client'[q] = client[q]
    BY <2>1 DEF Commanded
  <2>3. /\ op'[p] = [pc |-> "none", host |-> 0]
        /\ \A q \in Requests : q # p => op'[q] = op[q]
    BY <2>1 DEF GoesTo, Commanded
  <2>4. TasksAgree'
    BY <1>1, <1>4, <2>1, <2>2, <2>3 DEF TasksAgree, Talking
  <2> QED
    BY <1>4, <2>1, <2>4, SwitchKeeps
<1>5. CASE Answer(p)
  BY <1>1, <1>4, <1>5 DEF Answer, At, TasksAgree
<1>6. CASE Join(p)
  BY <1>4, <1>6 DEF Join, MayLeave, At
<1>7. CASE CancelCurrent(p)
  <2>1. /\ client[p].pc = "cancelling" /\ client' = [client EXCEPT ![p].pc = "joining"]
        /\ closing' = [closing EXCEPT ![p] = transport] /\ transport' = 0
        /\ UNCHANGED <<op, closed, stopping, proc, inbox, outbox, asked>>
    BY <1>7 DEF CancelCurrent, hostVars
  <2>2. client'[p].pc = "joining" /\ \A q \in Requests : q # p => client'[q] = client[q]
    BY <2>1 DEF Commanded
  <2>3. closing[p] = 0 /\ transport \in Hosts \cup {0}
    BY <1>1, <2>1 DEF TasksAgree, Commanded
  <2>4. closing'[p] = transport /\ \A q \in Requests : q # p => closing'[q] = closing[q]
    BY <1>1, <2>1 DEF SupervisorTyped
  <2>5. TasksAgree'
    BY <1>1, <2>1, <2>2, <2>4 DEF TasksAgree
  <2>6. SupervisorTyped' /\ OneIsBusy'
    BY <1>1, <2>1, <2>3 DEF SupervisorTyped, OneIsBusy, Busy
  <2>7. \A h \in Hosts : h # 0
    BY ProjectionAssumption DEF Hosts
  <2>8. \A h \in Hosts : BeingClosed(h)' <=> h = transport \/ BeingClosed(h)
    BY <2>1, <2>3, <2>4, <2>7 DEF BeingClosed
  <2>9. \A h \in Hosts : transport' = h \/ BeingClosed(h)' <=> transport = h \/ BeingClosed(h)
    BY <2>1, <2>7, <2>8
  <2>10. \A q \in Requests, h \in Hosts : Awaits(q, h) => Awaits(q, h)'
    BY <2>1 DEF Awaits
  <2> QED
    BY <2>1, <2>5, <2>6, <2>8, <2>9, <2>10, QuietKeeps
<1>8. CASE CancelClosed(p)
  <2>1. PICK g \in Hosts : g = closing[p]
    BY <1>1, <1>8 DEF CancelClosed, SupervisorTyped
  <2>2. /\ closing' = [closing EXCEPT ![p] = 0] /\ Ended(g)
        /\ UNCHANGED <<client, op, transport, closed, stopping>>
    BY <1>8, <2>1 DEF CancelClosed
  <2>3. closing'[p] = 0 /\ \A q \in Requests : q # p => closing'[q] = closing[q]
    BY <1>1, <2>2 DEF SupervisorTyped
  <2>4. TasksAgree'
    BY <1>1, <2>2, <2>3 DEF TasksAgree
  <2>5. OneIsBusy' /\ closing' \in [Requests -> Hosts \cup {0}] /\ stopping' \in Hosts \cup {0}
    BY <1>1, <2>2 DEF OneIsBusy, Busy, SupervisorTyped
  <2>6. \A h \in Hosts : h # 0
    BY ProjectionAssumption DEF Hosts
  <2>7. \A h \in Hosts : h # g => (BeingClosed(h) <=> BeingClosed(h)')
    BY <2>1, <2>2, <2>3, <2>6 DEF BeingClosed
  <2>8. \A q \in Requests, h \in Hosts : Awaits(q, h) => Awaits(q, h)'
    BY <2>2 DEF Awaits
  <2>9. proc[g] # "unborn"
    BY <2>1 DEF Channels, HeldAreBorn, BeingClosed
  <2> QED
    BY <2>2, <2>4, <2>5, <2>7, <2>8, <2>9, EndingKeeps
<1> QED
  BY <1>2, <1>3, <1>5, <1>6, <1>7, <1>8 DEF Task

LEMMA ShutdownKeeps ==
  ASSUME Channels, Commanded, Shutdown \/ ShutdownClosed
  PROVE  Channels'
<1>1. TasksAgree /\ SupervisorTyped /\ OneIsBusy
  BY DEF Channels
<1>2. \A h \in Hosts : h # 0
  BY ProjectionAssumption DEF Hosts
<1>3. CASE Shutdown
  <2>1. /\ ~closed /\ closed' = TRUE /\ stopping' = transport /\ transport' = 0
        /\ UNCHANGED <<client, op, closing, proc, inbox, outbox, asked>>
    BY <1>3 DEF Shutdown, hostVars
  <2>2. stopping = 0 /\ transport \in Hosts \cup {0}
    BY <1>1, <2>1 DEF TasksAgree, Commanded
  <2>3. TasksAgree' /\ SupervisorTyped' /\ OneIsBusy'
    BY <1>1, <2>1, <2>2 DEF TasksAgree, SupervisorTyped, OneIsBusy, Busy
  <2>4. \A h \in Hosts : BeingClosed(h)' <=> h = transport \/ BeingClosed(h)
    BY <1>2, <2>1, <2>2 DEF BeingClosed
  <2>5. \A h \in Hosts : transport' = h \/ BeingClosed(h)' <=> transport = h \/ BeingClosed(h)
    BY <1>2, <2>1, <2>4
  <2>6. \A q \in Requests, h \in Hosts : Awaits(q, h) => Awaits(q, h)'
    BY <2>1 DEF Awaits
  <2> QED
    BY <2>1, <2>3, <2>4, <2>5, <2>6, QuietKeeps
<1>4. CASE ShutdownClosed
  <2>1. PICK g \in Hosts : g = stopping
    BY <1>1, <1>4 DEF ShutdownClosed, SupervisorTyped
  <2>2. stopping' = 0 /\ Ended(g) /\ UNCHANGED <<client, op, closing, transport, closed>>
    BY <1>4, <2>1 DEF ShutdownClosed
  <2>3. TasksAgree' /\ OneIsBusy' /\ closing' \in [Requests -> Hosts \cup {0}]
        /\ stopping' \in Hosts \cup {0}
    BY <1>1, <2>2 DEF TasksAgree, OneIsBusy, Busy, SupervisorTyped
  <2>4. \A h \in Hosts : h # g => (BeingClosed(h) <=> BeingClosed(h)')
    BY <1>2, <2>1, <2>2 DEF BeingClosed
  <2>5. \A q \in Requests, h \in Hosts : Awaits(q, h) => Awaits(q, h)'
    BY <2>2 DEF Awaits
  <2>6. proc[g] # "unborn"
    BY <2>1 DEF Channels, HeldAreBorn, BeingClosed
  <2> QED
    BY <2>2, <2>3, <2>4, <2>5, <2>6, EndingKeeps
<1> QED
  BY <1>3, <1>4

-----------------------------------------------------------------------------
(* Hosts *)

\* A host goes on with what somebody awaits of it.
LEMMA HostGoesOn ==
  ASSUME Channels, NEW h \in Hosts, \E p \in Requests : Awaits(p, h), proc[h] # "unborn",
         UNCHANGED <<client, op, closing, transport, closed, stopping, proc>>,
         inbox' = inbox \/ inbox' = [inbox EXCEPT ![h] = "none"],
         outbox' = outbox \/ \E reply : outbox' = [outbox EXCEPT ![h] = reply],
         asked' \in {asked, asked \cup {h}, asked \ {h}},
         inbox'[h] = "none", h \in asked' => outbox'[h] = NoReply
  PROVE  Channels'
<1>1. /\ inbox' \in [Hosts -> Message] /\ outbox' = [g \in Hosts |-> outbox'[g]]
      /\ \A g \in Hosts : g # h => inbox'[g] = inbox[g] /\ outbox'[g] = outbox[g]
      /\ \A g \in Hosts : g # h => (g \in asked' <=> g \in asked)
  BY DEF Channels, SupervisorTyped, Message
<1>2. SupervisorTyped'
  BY <1>1 DEF Channels, SupervisorTyped
<1>3. TasksAgree' /\ OneIsBusy'
  BY DEF Channels, TasksAgree, OneIsBusy, Busy
<1>4. /\ \A g \in Hosts : BeingClosed(g)' <=> BeingClosed(g)
      /\ \A q \in Requests, g \in Hosts : Awaits(q, g)' <=> Awaits(q, g)
  BY DEF BeingClosed, Awaits
<1>5. HostsAreHeld' /\ HeldAreBorn'
  BY <1>4 DEF Channels, HostsAreHeld, HeldAreBorn, Up
<1>6. \A g \in Hosts : g # h => (Pending(g)' <=> Pending(g))
  BY <1>1 DEF Pending
<1>7. PendingIsAwaited'
  <2> SUFFICES ASSUME NEW g \in Hosts, IsAlive(g)', Pending(g)', g # h
               PROVE  \E q \in Requests : Awaits(q, g)'
    BY <1>4 DEF PendingIsAwaited
  <2>1. IsAlive(g) /\ Pending(g)
    BY <1>4, <1>6 DEF IsAlive, Up
  <2> QED
    BY <1>4, <2>1 DEF Channels, PendingIsAwaited
<1>8. OneIsPending'
  BY <1>1 DEF Channels, OneIsPending
<1>9. BornInOrder'
  BY <1>6 DEF Channels, BornInOrder
<1> QED
  BY <1>2, <1>3, <1>5, <1>7, <1>8, <1>9 DEF Channels

\* A host that reads on has been sent what was waiting for it, by the only thread
\* that is in the supervisor.
LEMMA ReadingKeeps ==
  ASSUME Channels, Commanded, NEW h, HostReadsOn(h)
  PROVE  Channels'
<1>1. PICK p \in Requests :
        /\ Blocked(p) /\ op[p].host = h
        /\ \/ IsAlive(h) /\ Written(p, "command", AfterCommand(p))
           \/ IsAlive(h) /\ Written(p, "bootstrap", "receive")
           \/ Fail(p) /\ UNCHANGED hostVars
  BY DEF HostReadsOn
<1>2. op[p].pc \in {"sending", "transferring"} /\ Busy(p)
  BY <1>1 DEF Blocked, Busy
<1>3. CASE IsAlive(h) /\ Written(p, "command", AfterCommand(p))
  BY <1>1, <1>2, <1>3, WrittenKeeps DEF AfterCommand, Message
<1>4. CASE IsAlive(h) /\ Written(p, "bootstrap", "receive")
  BY <1>1, <1>2, <1>4, WrittenKeeps DEF Message
<1>5. CASE Fail(p) /\ UNCHANGED hostVars
  BY <1>2, <1>5, FailKeeps DEF hostVars
<1> QED
  BY <1>1, <1>3, <1>4, <1>5

\* Only a message to a host, its witness and its end touch its pipe.
LEMMA HostKeeps ==
  ASSUME Channels, Commanded, NEW h \in Hosts,
         \/ HostReceives(h) \/ HostOpens(h) \/ HostWitnessed(h)
         \/ Navigate(h) \/ LoseWindow(h) \/ HostCrash(h)
         \/ \E role \in Roles : Commit(h, role)
  PROVE  Channels'
<1>1. SupervisorTyped /\ OneIsPending /\ BornInOrder
  BY DEF Channels
<1>2. ASSUME NEW message \in {"command", "bootstrap"}, Sent(h, message), inbox' = [inbox EXCEPT ![h] = "none"],
             \/ UNCHANGED asked /\ \E reply : outbox' = [outbox EXCEPT ![h] = reply]
             \/ UNCHANGED outbox /\ asked' = asked \cup {h},
             UNCHANGED <<client, op, closing, transport, closed, stopping, proc>>
      PROVE  Channels'
  <2>1. proc[h] = "up" /\ inbox[h] # "none" /\ \E p \in Requests : Awaits(p, h)
    BY <1>2 DEF Sent, Awaits
  <2>2. outbox[h] = NoReply /\ h \notin asked
    BY <1>1, <2>1 DEF OneIsPending
  <2>3. inbox'[h] = "none" /\ (h \in asked' => outbox'[h] = NoReply)
    BY <1>1, <1>2, <2>2 DEF SupervisorTyped
  <2> QED
    BY <1>2, <2>1, <2>3, HostGoesOn
<1>3. CASE HostReceives(h)
  <2>1. /\ Sent(h, "command") /\ inbox' = [inbox EXCEPT ![h] = "none"]
        /\ UNCHANGED <<client, op, closing, transport, closed, stopping, proc>>
    BY <1>3 DEF HostReceives, supervisorVars
  <2>2. \/ UNCHANGED asked /\ \E reply : outbox' = [outbox EXCEPT ![h] = reply]
        \/ UNCHANGED outbox /\ asked' = asked \cup {h}
    BY <1>3 DEF HostReceives, Replied
  <2> QED
    BY <1>2, <2>1, <2>2
<1>4. CASE HostOpens(h)
  <2>1. /\ Sent(h, "bootstrap") /\ inbox' = [inbox EXCEPT ![h] = "none"]
        /\ UNCHANGED <<client, op, closing, transport, closed, stopping, proc, asked>>
    BY <1>4 DEF HostOpens, supervisorVars
  <2>2. \E reply : outbox' = [outbox EXCEPT ![h] = reply]
    BY <1>4 DEF HostOpens, Replied
  <2> QED
    BY <1>2, <2>1, <2>2
<1>5. CASE HostWitnessed(h)
  <2>1. /\ h \in asked /\ asked' = asked \ {h} /\ \E p \in Requests : Awaits(p, h)
        /\ UNCHANGED <<client, op, closing, transport, closed, stopping, proc, inbox>>
    BY <1>5 DEF HostWitnessed, Awaits, supervisorVars
  <2>2. \E reply : outbox' = [outbox EXCEPT ![h] = reply]
    BY <1>5 DEF HostWitnessed, Replied
  <2>3. inbox[h] = "none" /\ proc[h] # "unborn"
    BY <1>1, <2>1 DEF OneIsPending, BornInOrder, Pending
  <2> QED
    BY <2>1, <2>2, <2>3, HostGoesOn
<1>6. CASE Navigate(h) \/ LoseWindow(h) \/ \E role \in Roles : Commit(h, role)
  <2>1. UNCHANGED <<client, op, closing, transport, closed, stopping, proc, inbox, outbox, asked>>
    BY <1>6 DEF Navigate, LoseWindow, Commit, supervisorVars
  <2>2. /\ \A g \in Hosts : BeingClosed(g)' <=> BeingClosed(g)
        /\ \A q \in Requests, g \in Hosts : Awaits(q, g) => Awaits(q, g)'
    BY <2>1 DEF BeingClosed, Awaits
  <2>3. TasksAgree' /\ OneIsBusy' /\ SupervisorTyped'
    BY <2>1 DEF Channels, TasksAgree, OneIsBusy, Busy, SupervisorTyped
  <2>4. \A g \in Hosts : transport' = g \/ BeingClosed(g)' <=> transport = g \/ BeingClosed(g)
    BY <2>1, <2>2
  <2> QED
    BY <2>1, <2>2, <2>3, <2>4, QuietKeeps
<1>7. CASE HostCrash(h)
  <2>1. /\ proc[h] = "up" /\ Ended(h)
        /\ UNCHANGED <<client, op, closing, transport, closed, stopping>>
    BY <1>7 DEF HostCrash, supervisorVars
  <2>2. /\ \A g \in Hosts : BeingClosed(g)' <=> BeingClosed(g)
        /\ \A q \in Requests, g \in Hosts : Awaits(q, g) => Awaits(q, g)'
    BY <2>1 DEF BeingClosed, Awaits
  <2>3. TasksAgree' /\ OneIsBusy' /\ closing' \in [Requests -> Hosts \cup {0}]
        /\ stopping' \in Hosts \cup {0}
    BY <2>1 DEF Channels, TasksAgree, OneIsBusy, Busy, SupervisorTyped
  <2> QED
    BY <2>1, <2>2, <2>3, EndingKeeps
<1> QED
  BY <1>3, <1>4, <1>5, <1>6, <1>7

-----------------------------------------------------------------------------
LEMMA ChannelsStart == ASSUME Init PROVE Channels
<1>1. MaxHosts \in Nat
  BY ProjectionAssumption
<1>2. /\ \A p \in Requests : op[p] = Idle /\ closing[p] = 0
      /\ \A h \in Hosts : /\ proc[h] = "unborn" /\ inbox[h] = "none" /\ outbox[h] = NoReply
                          /\ h \notin asked /\ h # 0
      /\ transport = 0 /\ stopping = 0
  BY <1>1 DEF Init, Hosts
<1>3. SupervisorTyped
  BY DEF Init, SupervisorTyped, Message
<1>4. TasksAgree /\ OneIsBusy
  BY <1>2 DEF TasksAgree, OneIsBusy, Busy, Idle, Talking
<1>5. HostsAreHeld /\ PendingIsAwaited /\ OneIsPending
  BY <1>2 DEF HostsAreHeld, PendingIsAwaited, OneIsPending, IsAlive, Up
<1>6. BornInOrder
  <2>1. \A h \in Hosts : proc[h] # "unborn" <=> h <= 0
    BY <1>1, <1>2 DEF Hosts
  <2> QED
    BY <1>1, <1>2, <2>1 DEF BornInOrder, Pending
<1>7. HeldAreBorn
  BY <1>2 DEF HeldAreBorn, BeingClosed, Idle
<1> QED
  BY <1>3, <1>4, <1>5, <1>6, <1>7 DEF Channels

LEMMA ChannelsStep == ASSUME Channels, Commanded, [Next]_vars PROVE Channels'
<1>1. ASSUME NEW p \in Requests, Request(p) \/ Cancel(p) \/ Task(p)
      PROVE  Channels'
  BY <1>1, TaskKeeps
<1>2. ASSUME NEW p \in Requests, Thread(p)
      PROVE  Channels'
  BY <1>2, ThreadKeeps
<1>3. ASSUME NEW h \in Hosts,
             \/ HostReceives(h) \/ HostOpens(h) \/ HostWitnessed(h)
             \/ Navigate(h) \/ LoseWindow(h) \/ HostCrash(h)
             \/ \E role \in Roles : Commit(h, role)
      PROVE  Channels'
  BY <1>3, HostKeeps
<1>0. ASSUME NEW h \in Hosts, HostReadsOn(h)
      PROVE  Channels'
  BY <1>0, ReadingKeeps
<1>4. CASE Shutdown \/ ShutdownClosed
  BY <1>4, ShutdownKeeps
<1>5. CASE UNCHANGED vars
  BY <1>5 DEF vars, supervisorVars, hostVars, Channels, SupervisorTyped, TasksAgree, OneIsBusy, Busy,
              HostsAreHeld, Up, BeingClosed, PendingIsAwaited, IsAlive, Pending, Awaits, OneIsPending,
              BornInOrder, HeldAreBorn
<1> QED
  BY <1>0, <1>1, <1>2, <1>3, <1>4, <1>5 DEF Next

\* The threads, the hosts and their pipes agree: the invariant of both properties.
THEOREM ChannelsAgree == Spec => []Channels
<1>1. Spec => []IInv
  BY Invariance
<1>2. IInv /\ Channels /\ [Next]_vars => Channels'
  BY ChannelsStep DEF IInv
<1> QED
  BY <1>1, <1>2, ChannelsStart, PTL DEF Spec

\* A command never meets the answer to another one, whichever threads were
\* cancelled and hosts lost before it (ProjectionHostSupervisor._execute).
THEOREM CommandsMeetNoOtherAnswer == Spec => []FreshChannel
<1>1. Commanded /\ Channels => FreshChannel
  <2> SUFFICES ASSUME Commanded, Channels, NEW p \in Requests, At(p, "send"), IsAlive(op[p].host)
               PROVE  ~Pending(op[p].host)
    BY DEF FreshChannel, Pending
  <2>1. op[p].host \in Hosts
    BY DEF Commanded, IsAlive, Up
  <2> QED
    BY <2>1, SendingIsFresh DEF At, Busy
<1>2. Spec => []IInv
  BY Invariance
<1> QED
  BY <1>1, <1>2, ChannelsAgree, PTL DEF IInv

\* Between two commands no thread is left in the supervisor and no host lives but
\* its transport, though requests are cancelled while their threads launch and
\* close hosts (_cancel_and_join_projection).
THEOREM SupervisorIsQuietBetweenCommands == Spec => []QuietBetweenCommands
<1>1. Channels => QuietBetweenCommands
  <2> SUFFICES ASSUME Channels, GateIsFree, ~closed
               PROVE  /\ \A p \in Requests : At(p, "none") /\ closing[p] = 0
                      /\ \A h \in Hosts : Up(h) => h = transport
    BY DEF QuietBetweenCommands
  <2>1. \A p \in Requests : op[p].pc = "none" /\ closing[p] = 0
    BY DEF Channels, TasksAgree, GateIsFree
  <2>2. stopping = 0
    BY DEF Channels, TasksAgree
  <2>3. \A h \in Hosts : h # 0
    BY ProjectionAssumption DEF Hosts
  <2>4. \A h \in Hosts : ~BeingClosed(h)
    BY <2>1, <2>2, <2>3 DEF BeingClosed
  <2> QED
    BY <2>1, <2>4 DEF Channels, HostsAreHeld, At
<1> QED
  BY <1>1, ChannelsAgree, PTL
====
