--------------------------- MODULE CourseOutline ---------------------------
(***************************************************************************)
(* The composition of a course outline (composer.py): for every learning   *)
(* goal of a requirement the best card the search returned for it, with    *)
(* the cards it presupposes, as far as the time allows; the chapters they  *)
(* are taught in; and the minutes each of them gets.                       *)
(*                                                                         *)
(* Time is counted in the slots of five minutes durations consist of.      *)
(* Goals and objectives are their words, whatever the case: a card has one *)
(* objective, but two goals may have the same words.  Tags filter what a   *)
(* search returns (RankOf), so a required tag is never the gap of an       *)
(* outline that has a card.                                                *)
(***************************************************************************)
EXTENDS Naturals, Sequences, FiniteSets, SequencesExt

CONSTANTS Cards,           \* published versions of cards
          Goals,           \* the learning goals, in their order
          ObjectiveOf,     \* the goal each card covers, if any
          PrerequisitesOf, \* the cards each card presupposes, in their order
          RankOf,          \* the cards a search for each goal can return, best first
          SuggestedOf,     \* the slots each card suggests
          Slots,           \* the slots of the requirement
          Illustrated,     \* cards with a visual
          VisualNeeded,    \* the options require a visual
          Measured,        \* cards with a dataset
          DatasetNeeded    \* the options require a dataset

ASSUME OutlineAssumption ==
  /\ IsFiniteSet(Cards)
  /\ Goals \in Seq(STRING) /\ Len(Goals) > 0
  /\ DOMAIN ObjectiveOf = Cards
  /\ PrerequisitesOf \in [Cards -> Seq(Cards)]
  /\ DOMAIN RankOf = 1..Len(Goals)
  /\ \A g \in DOMAIN RankOf : RankOf[g] \in Seq(Cards) /\ IsInjective(RankOf[g])
  /\ SuggestedOf \in [Cards -> Nat]
  /\ Slots \in Nat \ {0}
  /\ Illustrated \subseteq Cards /\ VisualNeeded \in BOOLEAN
  /\ Measured \subseteq Cards /\ DatasetNeeded \in BOOLEAN

Covers(c, g) == ObjectiveOf[c] = Goals[g]

\* _filtered_candidates: the cards of the snapshot that are published and not
\* suspended by now, as the filters of a goal have them.
Filtered(g, live) == Range(RankOf[g]) \cap live

\* The cards of a list that are in a set, in the order of the list (SelectSeq, which
\* the provers do not know).
Among(list, cards) ==
  FoldLeft(LAMBDA kept, c : IF c \in cards THEN Append(kept, c) ELSE kept, <<>>, list)

\* A search ranks what the filters leave.
Search(g, live) == Among(RankOf[g], Filtered(g, live))

\* A call of select_with_prerequisites: for a card, by those that presuppose it.
Call(c, visiting, selected) == [card |-> c, visiting |-> visiting, selected |-> selected]
Calls == [card : Cards, visiting : SUBSET Cards, selected : Seq(Cards)]

\* What became of the card, and what is selected by then.
Outcome(what, selected) == [what |-> what, selected |-> selected]

\* The calls for the cards a card presupposes, until one can not be had.
TakingAll(take, call, selected) ==
  FoldLeft(LAMBDA so, p : IF so.what # "taken" THEN so
                          ELSE take[Call(p, call.visiting \cup {call.card}, so.selected)],
           Outcome("taken", selected), PrerequisitesOf[call.card])

\* Fault: a card is selected before the cards it presupposes.
TakingItselfFirst(available) ==
  LET take[call \in Calls] ==
        IF call.card \in Range(call.selected) THEN Outcome("taken", call.selected)
        ELSE IF call.card \in call.visiting THEN Outcome("cycle", call.selected)
        ELSE IF call.card \notin available THEN Outcome("missing", call.selected)
        ELSE IF Len(call.selected) >= Slots THEN Outcome("missing", call.selected)
        ELSE TakingAll(take, call, Append(call.selected, call.card))
  IN  take

\* select_with_prerequisites: the cards a card presupposes come before it.  They
\* stay selected when the card itself can not be had.
Taking(available) ==
  LET take[call \in Calls] ==
        IF call.card \in Range(call.selected) THEN Outcome("taken", call.selected)
        ELSE IF call.card \in call.visiting THEN Outcome("cycle", call.selected)
        ELSE IF call.card \notin available THEN Outcome("missing", call.selected)
        ELSE LET before == TakingAll(take, call, call.selected)
             IN  IF before.what # "taken" THEN before
                 ELSE IF Len(before.selected) >= Slots THEN Outcome("missing", before.selected)
                 ELSE Outcome("taken", Append(before.selected, call.card))
  IN  take

\* The first hit of a goal's own search that covers it, if there is one.
MatchFor(g, hits, available) ==
  Among(hits[g], {c \in available : Covers(c, g)})

\* The selection for all goals, in order, and the goals it leaves uncovered.
Selection(hits, available) ==
  LET take == Taking(available)
      Step(so, g) ==
        LET match == MatchFor(g, hits, available)
        IN  IF so.what = "cycle" THEN so
            ELSE IF match = <<>> THEN [so EXCEPT !.uncovered = @ \cup {g}]
            ELSE LET got == take[Call(Head(match), {}, so.selected)]
                 IN  [what      |-> IF got.what = "cycle" THEN "cycle" ELSE "taken",
                      selected  |-> got.selected,
                      uncovered |-> IF got.what = "taken" THEN so.uncovered
                                    ELSE so.uncovered \cup {g}]
  IN  FoldLeft(Step, [what |-> "taken", selected |-> <<>>, uncovered |-> {}],
               [g \in DOMAIN Goals |-> g])

\* The cards a lecturer wants in any case, after those of the goals.
WithIncluded(selection, included, available) ==
  FoldLeft(LAMBDA so, c :
             IF so.what # "taken" THEN so
             ELSE LET got == Taking(available)[Call(c, {}, so.selected)]
                  IN  [so EXCEPT !.what = got.what, !.selected = got.selected],
           selection, included)

\* The chapter a card is taught in: that of the first goal it covers, or the last one.
TaughtIn(c, g) == (g <= Len(Goals) => Covers(c, g)) /\ \A h \in 1..g - 1 : ~Covers(c, h)

\* The chapters: one for each goal, and one for the cards that cover none.
Chapters(selected) ==
  [g \in 1..Len(Goals) + 1 |-> Among(selected, {c \in Range(selected) : TaughtIn(c, g)})]

Least(m, n) == IF m < n THEN m ELSE n

\* _allocate: a slot for every card, then what each suggests while there is time,
\* then the rest in turn.
Allocation(selected) ==
  LET n == Len(selected)
      Extra(so, c) ==
        LET more == Least(so.left, IF SuggestedOf[c] > 0 THEN SuggestedOf[c] - 1 ELSE 0)
        IN  [left |-> so.left - more, slots |-> Append(so.slots, 1 + more)]
      asked == FoldLeft(Extra, [left |-> Slots - n, slots |-> <<>>], selected)
      Turn(i) == asked.left \div n + IF i <= asked.left % n THEN 1 ELSE 0
  IN  [c \in Range(selected) |-> LET i == CHOOSE i \in 1..n : selected[i] = c
                                 IN  asked.slots[i] + Turn(i)]

\* _coverage_gaps: a goal nothing covers, or a visual or a dataset the options want and
\* no card has.
Gaps(selection) ==
  \/ selection.uncovered # {}
  \/ VisualNeeded /\ Range(selection.selected) \cap Illustrated = {}
  \/ DatasetNeeded /\ Range(selection.selected) \cap Measured = {}

NoOutline == [cards |-> <<>>]

\* _compose_from_retrievals: what the hits of every goal make, when all the cards
\* they name are live.  NoOutline stands for the errors: a stale hit, a card to
\* include that was not returned or can not be had, a cycle, and no card at all.
Composed(hits, live, included, excluded) ==
  LET returned == UNION {Range(hits[g]) : g \in DOMAIN hits}
      available == returned \ excluded
      selection == WithIncluded(Selection(hits, available), included, available)
  IN  IF \/ ~(returned \subseteq live)
         \/ ~(Range(included) \subseteq returned)
         \/ selection.what # "taken"
         \/ selection.selected = <<>>
      THEN NoOutline
      ELSE [cards    |-> selection.selected,
            chapters |-> Chapters(selection.selected),
            slots    |-> Allocation(selection.selected),
            gaps     |-> Gaps(selection)]

\* The order in which the chapters teach the cards.
Taught(outline) == FlattenSeq(outline.chapters)
=============================================================================
