-------------------------- MODULE MCPersonalCourse --------------------------
(***************************************************************************)
(* Instances of PersonalCourse for TLC.  Runs and cards are model values;  *)
(* a configuration picks one of the situations below for each constant.    *)
(***************************************************************************)
EXTENDS PersonalCourse

CONSTANTS r1, r2, k1, k2, k3, w1, w2, c1, c2, h1, h2

\* one process, whatever its threads
OneHome == [x \in Workers \cup Callers |-> h1]
\* the second worker lives in a second process
TwoHomes == [x \in Workers \cup Callers |-> IF x = w2 THEN h2 ELSE h1]

OneCardEach == [r \in Runs |-> IF r = r1 THEN <<k1>> ELSE <<k2>>]
BothCards == [r \in Runs |-> <<k1, k2>>]
\* the runs share two cards, in another order, and the second has one of its own
SharedCards == [r \in Runs |-> IF r = r1 THEN <<k1, k2>> ELSE <<k2, k3, k1>>]

Plain == [k \in Cards |-> "plain"]
Checked == [k \in Cards |-> IF k = k1 THEN "provenance" ELSE "plain"]
Conflict == [k \in Cards |-> IF k = k1 THEN "conflict" ELSE "near_duplicate"]
Mixed == [k \in Cards |-> CASE k = k1 -> "near_duplicate" [] k = k3 -> "conflict" [] OTHER -> "plain"]
=============================================================================
