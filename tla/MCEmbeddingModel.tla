-------------------------- MODULE MCEmbeddingModel --------------------------
(***************************************************************************)
(* Three packages, in the order of their names: the root, one that comes   *)
(* between, the runtime.                                                   *)
(***************************************************************************)
EXTENDS EmbeddingModel, TLC

Need(p, vs) == [name |-> p, allows |-> vs]
Wheel(needs) == [wheel |-> TRUE, needs |-> needs]
NoWheel == [wheel |-> FALSE, needs |-> {}]
Optional(p, choices) == {{}} \union {{Need(p, vs)} : vs \in choices}

RootWheels == {Wheel(a \union b) : a \in Optional(2, {{1, 2}, {2}}), b \in Optional(3, {{1, 2}, {1}})}
MiddleWheels == {NoWheel} \union {Wheel(a) : a \in Optional(3, {{1}})}
RuntimeWheels == {NoWheel} \union {Wheel(a) : a \in Optional(2, {{1}, {2}})}

MCIndexes ==
  {<<<<w, NoWheel>>, m, t>> : w \in RootWheels, m \in [1 .. 2 -> MiddleWheels], t \in [1 .. 2 -> RuntimeWheels]}

\* The newest middle package rules out the newest runtime.
MCReviewed ==
  {<<<<Wheel({Need(2, {1, 2}), Need(3, {1, 2})}), NoWheel>>,
     <<Wheel({}), Wheel({Need(3, {1})})>>,
     <<Wheel({Need(2, {2})}), Wheel({Need(2, {1})})>>>>}
=============================================================================
