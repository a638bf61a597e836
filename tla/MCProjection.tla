---------------------------- MODULE MCProjection ----------------------------
(***************************************************************************)
(* The commands of one session, as the page sends them.                    *)
(***************************************************************************)
EXTENDS Projection, TLC

CONSTANTS p1, p2, s1, First, Second

Of(kind, session, generation, swap) ==
  [kind |-> kind, session |-> session, generation |-> generation, swap |-> swap]

MCCalls == (p1 :> First) @@ (p2 :> Second)

MCCommand ==
  <<Of("detect", NoSession, 0, FALSE), Of("open", s1, 0, FALSE), Of("assign", s1, 0, FALSE),
    Of("fullscreen", s1, 1, FALSE), Of("verify", s1, 1, FALSE), Of("close", s1, 1, FALSE),
    Of("assign", s1, 1, TRUE)>>

\* The page goes step by step; it closes at any time and repeats what it likes.
MCAfter == <<{}, {1}, {1, 2}, {1, 2, 3}, {1, 2, 3, 4}, {1, 2}, {1, 2, 3, 4}>>
=============================================================================
