---------------------------- MODULE PublicCourse ----------------------------
(***************************************************************************)
(* What a course creation promises to the person who asked for it: the     *)
(* public view of a run (the first column of _PHASE in personal_jobs.py),  *)
(* with how far the creation has come.  The stages are the phases of       *)
(* resume_personal_course, counted from 1.  Nothing here says how the      *)
(* work is done; PersonalCourse is shown to implement it.                  *)
(***************************************************************************)
EXTENDS Naturals

CONSTANTS Requests, LastStage

VARIABLES view,   \* what the user sees of each request
          stage   \* the stage it has reached

publicVars == <<view, stage>>

Views == {"none", "creating", "needs-attention", "ready", "failed"}

PublicTypeOK ==
  /\ view \in [Requests -> Views]
  /\ stage \in [Requests -> 0..LastStage]

PublicInit ==
  /\ view = [r \in Requests |-> "none"]
  /\ stage = [r \in Requests |-> 0]

Becomes(r, v, s) ==
  /\ view' = [view EXCEPT ![r] = v]
  /\ stage' = [stage EXCEPT ![r] = s]

\* The request is accepted, once.
Accept(r) == view[r] = "none" /\ Becomes(r, "creating", 1)

\* One stage is completed and the next begins.
Proceed(r) ==
  /\ view[r] = "creating" /\ stage[r] < LastStage
  /\ Becomes(r, "creating", stage[r] + 1)

\* The work stops at a question about the stage it is in.
Ask(r) == view[r] = "creating" /\ Becomes(r, "needs-attention", stage[r])

\* An answer repeats the stage that asked, or takes the work past it.
Answer(r) ==
  /\ view[r] = "needs-attention"
  /\ \E s \in {stage[r], stage[r] + 1} \cap 1..LastStage : Becomes(r, "creating", s)

\* The last stage delivers the course.
Deliver(r) ==
  /\ view[r] = "creating" /\ stage[r] = LastStage
  /\ Becomes(r, "ready", stage[r])

Abandon(r) == view[r] = "creating" /\ Becomes(r, "failed", stage[r])

PublicNext ==
  \E r \in Requests : Accept(r) \/ Proceed(r) \/ Ask(r) \/ Answer(r) \/ Deliver(r) \/ Abandon(r)

PublicSpec == PublicInit /\ [][PublicNext]_publicVars
=============================================================================
