------------------------ MODULE MCCoursePublication ------------------------
(* Two goals.  The card "a" for the first presupposes "base", which covers *)
(* that goal too, as "a2" does; both are ranked after "a".                 *)
(* The card "b" for the second presupposes "tool", which covers none.  The *)
(* job "j3" uses the confirmation of "j1" for the next revision.           *)
EXTENDS CoursePublication

MCCards == {"base", "a", "a2", "b", "tool"}
MCGoals == <<"first", "second">>
MCObjectiveOf == [c \in MCCards |-> CASE c \in {"a", "a2", "base"} -> "first"
                                      [] c = "b" -> "second"
                                      [] OTHER -> "none"]
MCPrerequisitesOf == [c \in MCCards |-> CASE c = "a" -> <<"base">>
                                          [] c = "b" -> <<"tool">>
                                          [] OTHER -> <<>>]
MCRankOf == <<<<"a", "a2", "base">>, <<"b", "tool">>>>
MCSuggestedOf == [c \in MCCards |-> IF c = "b" THEN 2 ELSE 1]
MCVersionOf == [c \in {"c1", "c2"} |-> IF c = "c1" THEN "o1" ELSE "o2"]
MCLogicalOf == [o \in {"o1", "o2"} |-> "outline"]
MCRevisionOf == [o \in {"o1", "o2"} |-> IF o = "o1" THEN 1 ELSE 2]
MCIncludedBy == [c \in {"c1", "c2"} |-> <<>>]
MCExcludedBy == [c \in {"c1", "c2"} |-> IF c = "c1" THEN {} ELSE {"a"}]
MCConfirmedBy == [j \in {"j1", "j2", "j3"} |-> IF j = "j2" THEN "o2" ELSE "o1"]
MCConfirmationOf == [j \in {"j1", "j2", "j3"} |-> IF j = "j2" THEN "second" ELSE "first"]
MCCourseOf == [j \in {"j1", "j2", "j3"} |-> "course"]
MCEditionOf == [j \in {"j1", "j2", "j3"} |-> IF j = "j1" THEN 1 ELSE 2]
MCIllustrates == [p \in Placements |-> IF p = "p1" THEN "b" ELSE "a"]
MCReviewable == {<<"b">>}
MCWithdrawable == {"base"}
=============================================================================
