----------------------------- MODULE NativeHost -----------------------------
(***************************************************************************)
(* The native projection host: what it does with the commands the helper   *)
(* sends it (NativeProjectionCommandExecutor.cs), the presentation of two  *)
(* web windows it keeps on the same frame (ProjectionPresentationSession), *)
(* the windows (RoleWindowController.cs) and the reducer that certifies    *)
(* that both screens show what was witnessed (ProjectionReducer.cs).  All  *)
(* of it is a function of a record: the process dies with its state.       *)
(*                                                                         *)
(* Simplifications:                                                        *)
(*  - a frame is its sequence number, 0 when there is none: the course and *)
(*    the digest of a frame are those of the presentation it belongs to;   *)
(*  - a topology is whether it has two displays to project on;             *)
(*  - all codes of an invalidation are one.                                *)
(***************************************************************************)
EXTENDS Naturals

Roles == {"stage", "presenter"}
Phases == {"undetected", "candidate", "assigned", "fullscreen", "syncing", "witnessing",
           "certified", "invalidated"}
NoSession == "none"

Uncertified == [phase |-> "undetected", frame |-> [r \in Roles |-> 0], latest |-> 0,
                witnessed |-> FALSE, certified |-> FALSE]

\* A host that has just started.
Started == [eligible |-> FALSE, session |-> NoSession, generation |-> 0, invalid |-> FALSE,
            windows |-> 0, shown |-> 0, pending |-> 0, commits |-> {}, cert |-> Uncertified]

-----------------------------------------------------------------------------
(* ProjectionReducer.cs *)

Terminal(s) == [s EXCEPT !.phase = "invalidated", !.certified = FALSE]

OnDisplays(s) == IF s.phase = "undetected" THEN [s EXCEPT !.phase = "candidate"] ELSE Terminal(s)
OnAssigned(s) == IF s.phase = "candidate" THEN [s EXCEPT !.phase = "assigned"] ELSE Terminal(s)
OnFullscreen(s) == IF s.phase = "assigned" THEN [s EXCEPT !.phase = "fullscreen"] ELSE Terminal(s)

\* A frame follows the one both screens last showed; it may be shown again by
\* the other screen, but not once it is certified.
Follows(s, f) ==
  \/ s.latest = 0
  \/ f = s.latest + 1
  \/ f = s.latest /\ s.phase # "certified"

\* Fault: a screen that moves on leaves the certification.
MovedOn(s, role, f) ==
  [s EXCEPT !.frame[role] = f, !.phase = IF s.certified THEN "certified" ELSE "syncing"]

Moved(s, role, f) ==
  [s EXCEPT !.frame[role] = f, !.phase = "syncing", !.certified = FALSE]

OnFrame(s, role, f) ==
  LET next == Moved(s, role, f)
      same == \A r \in Roles : next.frame[r] = f
  IN  CASE s.phase \notin {"fullscreen", "syncing", "certified"} \/ ~Follows(s, f) -> Terminal(s)
        [] same /\ next.witnessed -> [next EXCEPT !.latest = f, !.phase = "certified", !.certified = TRUE]
        [] same /\ ~next.witnessed -> [next EXCEPT !.latest = f]
        [] OTHER -> next

Synchronized(s) == \A r \in Roles : s.frame[r] # 0 /\ s.frame[r] = s.latest

OnChallenge(s) ==
  IF s.phase = "syncing" /\ Synchronized(s) THEN [s EXCEPT !.phase = "witnessing", !.witnessed = FALSE]
  ELSE Terminal(s)

\* Fault: an answer of the witness certifies whatever became of the session.
OnWitnessLate(s) == [s EXCEPT !.phase = "certified", !.witnessed = TRUE, !.certified = TRUE]

OnWitness(s) ==
  IF s.phase = "witnessing" THEN [s EXCEPT !.phase = "certified", !.witnessed = TRUE, !.certified = TRUE]
  ELSE Terminal(s)

-----------------------------------------------------------------------------
(* NativeProjectionCommandExecutor.cs *)

\* ApplySignal: an invalidated certification invalidates the session.
Apply(n, s) == [n EXCEPT !.cert = s, !.invalid = @ \/ s.phase = "invalidated"]

\* Invalidate
Invalidate(n) == Apply(n, Terminal(n.cert))

Accept(n) == [native |-> n, accepted |-> TRUE]
Reject(n) == [native |-> n, accepted |-> FALSE]

WithoutPresentation(n) == [n EXCEPT !.shown = 0, !.pending = 0, !.commits = {}]

\* ValidateSession
ValidSession(n, c) ==
  c.session # NoSession /\ c.session = n.session /\ c.generation = n.generation

Detect(n, c) ==
  IF n.session # NoSession THEN {Reject(n)}
  ELSE LET read == [n EXCEPT !.generation = c.generation, !.cert = Uncertified]
       IN  {Accept(Apply([read EXCEPT !.eligible = TRUE], OnDisplays(Uncertified))),
            Reject([read EXCEPT !.eligible = FALSE])}

Open(n, c) ==
  IF n.session # NoSession \/ ~n.eligible \/ c.generation # n.generation THEN {Reject(n)}
  ELSE {Accept([n EXCEPT !.session = c.session, !.invalid = FALSE])}

\* AssignAsync: the windows are opened, or swapped; the presentation starts with
\* its first frame on both of them, or fails and takes the windows with it.
Assign(n, c) ==
  LET w == IF c.swap THEN n.windows + 1 ELSE 1
      begun == [WithoutPresentation(n) EXCEPT !.windows = w, !.generation = w]
      cert == OnAssigned(OnDisplays(Uncertified))
  IN  IF ~ValidSession(n, c) \/ n.invalid THEN {Reject(n)}
      ELSE IF c.swap # (n.windows # 0) THEN {Reject(Invalidate(n))}
      ELSE {Accept(Apply([begun EXCEPT !.shown = 1], cert)),
            Reject(Invalidate([begun EXCEPT !.windows = 0]))}

\* FullscreenAsync: the first thing the screens are known to show is the frame
\* of the presentation.
Fullscreen(n, c) ==
  LET cert == OnFrame(OnFrame(OnFullscreen(n.cert), "stage", n.shown), "presenter", n.shown)
  IN  CASE ~ValidSession(n, c) \/ n.invalid -> {Reject(n)}
        [] ValidSession(n, c) /\ ~n.invalid /\ n.windows = 0 -> {Reject(Invalidate(n))}
        [] OTHER -> {[native |-> Apply(n, cert), accepted |-> cert.phase = "syncing"],
                     Reject(Invalidate([n EXCEPT !.windows = 0])), Reject(Invalidate(n)), Reject(n)}

\* VerifyAsync, up to the witness.
NeedsWitness(n, c) ==
  ValidSession(n, c) /\ ~n.invalid /\ n.windows # 0 /\ n.cert.phase = "syncing" /\ n.cert.latest # 0

Verify(n, c) ==
  CASE ~ValidSession(n, c) \/ n.invalid -> {Reject(n)}
    [] ValidSession(n, c) /\ ~n.invalid /\ n.windows = 0 -> {Reject(Invalidate(n))}
    [] OTHER -> {[native |-> n, accepted |-> n.cert.certified], Reject(Invalidate(n)), Reject(n)}

\* The witness has been asked, and has answered or has not.
Witnessed(n) ==
  LET cert == OnWitness(OnChallenge(n.cert))
  IN  {[native |-> Apply(n, cert), accepted |-> cert.certified], Reject(Invalidate(n))}

Close(n, c) ==
  IF ~ValidSession(n, c) THEN {Reject(n)}
  ELSE {Accept([WithoutPresentation(n) EXCEPT !.windows = 0, !.session = NoSession, !.eligible = FALSE,
                                              !.cert = Uncertified, !.invalid = FALSE])}

\* ExecuteAsync: the outcomes of a command.
Outcomes(n, c) ==
  CASE c.kind = "detect" -> Detect(n, c)
    [] c.kind = "open" -> Open(n, c)
    [] c.kind = "assign" -> Assign(n, c)
    [] c.kind = "fullscreen" -> Fullscreen(n, c)
    [] c.kind = "verify" -> Verify(n, c)
    [] c.kind = "close" -> Close(n, c)

-----------------------------------------------------------------------------
(* ProjectionPresentationSession.cs *)

\* ApplyControlAsync: the presenter turns to the next frame.
MayNavigate(n) == n.shown # 0 /\ n.pending = 0

Navigated(n) == [n EXCEPT !.pending = n.shown + 1]

\* ObserveCommit: a window shows the frame, which the reducer hears of, unless
\* the session is invalid by now.
MayCommit(n, role) == n.pending # 0 /\ role \notin n.commits
Committed(n, role) ==
  LET last == n.commits \cup {role} = Roles
      seen == IF last THEN [n EXCEPT !.shown = n.pending, !.pending = 0, !.commits = {}]
              ELSE [n EXCEPT !.commits = @ \cup {role}]
  IN  IF n.invalid THEN seen ELSE Apply(seen, OnFrame(n.cert, role, n.pending))

\* A window is lost, or does not show a frame in time.
Lost(n) == Invalidate([n EXCEPT !.pending = 0, !.commits = {}])

-----------------------------------------------------------------------------
\* What a certification says: the witnessed screens show one frame, the last one
\* both of them have shown.
OneFrame(s) == s.certified => s.witnessed /\ s.phase = "certified" /\ Synchronized(s)

NativeType(n, lastFrame) ==
  LET Frame == 0 .. lastFrame
  IN  /\ n.eligible \in BOOLEAN /\ n.invalid \in BOOLEAN
      /\ n.generation \in Nat /\ n.windows \in Nat
      /\ n.shown \in Frame /\ n.pending \in Frame /\ n.commits \subseteq Roles
      /\ n.cert \in [phase : Phases, frame : [Roles -> Frame], latest : Frame,
                    witnessed : BOOLEAN, certified : BOOLEAN]
=============================================================================
