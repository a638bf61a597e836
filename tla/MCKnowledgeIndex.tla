-------------------------- MODULE MCKnowledgeIndex --------------------------
(***************************************************************************)
(* Two cards.  The source of the first one changes, so that its draft and  *)
(* its release each get a candidate, of the same new content; the second   *)
(* one has that content already.                                           *)
(***************************************************************************)
EXTENDS KnowledgeIndex

CONSTANTS d1, d2, c1, c2, rd1, rd2, rc1, rc2, j1, j2, w1, card1, card2, older, newer

MCReleaseOf == [d \in Drafts |-> CASE d = d1 -> rd1 [] d = d2 -> rd2 [] d = c1 -> rc1 [] OTHER -> rc2]
MCCardOf == [v \in Versions |-> IF v \in {d2, rd2} THEN card2 ELSE card1]
MCContentOf == [v \in Versions |-> IF v \in {d1, rd1} THEN older ELSE newer]
MCUpgradeOf == [c \in Candidates |-> IF c = c1 THEN d1 ELSE rd1]
MCAffected == {d1, rd1}
MCAlike == {<<older, newer>>}
MCSubmits == [j \in Jobs |-> IF j = j1 THEN d2 ELSE c1]
MCDecisions == [k \in Kinds |-> IF k = "source-changed" THEN {"accept", "reject"} ELSE {"accept"}]
=============================================================================
