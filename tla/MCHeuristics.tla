----------------------------- MODULE MCHeuristics -----------------------------
(***************************************************************************)
(* Instances of QHeuristics.  Tiger: the agents listen or open, and hear   *)
(* nothing of use when one has opened.  Relay: one agent observes, the     *)
(* other acts, over three stages, and one observation is impossible.       *)
(***************************************************************************)
EXTENDS QHeuristics

(* Listen (0) or open (1); joint action 0 is to listen together.           *)
Tiger(disc, unitD) ==
  [name |-> "tiger", nrA |-> <<2, 2>>, nrO |-> <<2, 2>>, nrS |-> 2,
   isd |-> [s \in 0..1 |-> 1], unitT |-> 2, unitO |-> 4,
   trans |-> [s \in 0..1 |-> [ja \in 0..3 |-> [s2 \in 0..1 |->
                IF ja # 0 THEN 1 ELSE IF s = s2 THEN 2 ELSE 0]]],
   obs |-> [ja \in 0..3 |-> [s2 \in 0..1 |-> [jo \in 0..3 |->
              IF ja # 0 THEN 1
              ELSE CASE jo = 3 * s2 -> 2 [] jo \in {1, 2} -> 1 [] OTHER -> 0]]],
   reward |-> [s \in 0..1 |-> [ja \in 0..3 |->
                 CASE ja = 0 -> -1 [] ja = 3 -> (IF s = 0 THEN 6 ELSE -8)
                   [] OTHER -> (IF s = 0 THEN 2 ELSE -7)]],
   disc |-> disc, unitD |-> unitD]

Relay(disc, unitD) ==
  [name |-> "relay", nrA |-> <<1, 2>>, nrO |-> <<2, 1>>, nrS |-> 2,
   isd |-> [s \in 0..1 |-> 1 + s], unitT |-> 3, unitO |-> 2,
   trans |-> [s \in 0..1 |-> [ja \in 0..1 |-> [s2 \in 0..1 |->
                IF (s = s2) = (ja = 0) THEN 2 ELSE 1]]],
   obs |-> [ja \in 0..1 |-> [s2 \in 0..1 |-> [jo \in 0..1 |->
              IF ja = 0 THEN (IF jo = s2 THEN 2 ELSE 0) ELSE (IF jo = 0 THEN 2 ELSE 0)]]],
   reward |-> [s \in 0..1 |-> [ja \in 0..1 |-> IF s = ja THEN 3 ELSE -2 * s]],
   disc |-> disc, unitD |-> unitD]

Task(pr, h, first, last, flat, cache) ==
  [problem |-> pr, horizon |-> h, first |-> first, last |-> last, flat |-> flat,
   cache |-> cache]

QMDP(pr, h, flat, cache) == Task(pr, h, "QPOMDP", h, flat, cache)
Tree(pr, h, first, cache) == Task(pr, h, first, 0, TRUE, cache)

MCFamilies ==
  LET tiger == Tiger(1, 1)
      discounted == Tiger(1, 2)
      relay == Relay(1, 1)
      late == Relay(2, 3)
  IN {{QMDP(tiger, 2, TRUE, "use"), QMDP(tiger, 2, FALSE, "use"),
       Tree(tiger, 2, "QPOMDP", "use"), Tree(tiger, 2, "QPOMDP", "require"), QMDP(tiger, 2, TRUE, "save")},
      {Tree(tiger, 2, "QBG", "use"), Tree(discounted, 2, "QBG", "use"),
       Tree(tiger, 2, "QBG", "no")},
      {Task(tiger, 2, "QBG", 1, TRUE, "use"), Task(discounted, 2, "QBG", 1, TRUE, "use"),
       Task(tiger, 2, "QBG", 1, TRUE, "save")},
      {Tree(relay, 3, "QPOMDP", "use"), Tree(late, 3, "QBG", "use")},
      {Task(late, 3, "QPOMDP", 1, TRUE, "use"), Task(late, 3, "QBG", 2, TRUE, "use"),
       QMDP(late, 3, TRUE, "require")},
      {QMDP(late, 3, TRUE, "use"), QMDP(late, 3, FALSE, "use")}}

(* The conditions of the proofs hold of the tasks of MCFamilies.           *)
ASSUME FilesAssumption == ProblemsAreNamed /\ TablesHaveTheirRows

(* Costs: every action costs more in one state than in the other, and the  *)
(* problem has no flat model: not in MCFamilies, as value iteration leaves *)
(* its discount out (DiscountIsIgnored).                                   *)
CostFamilies ==
  LET costs == [Relay(1, 2) EXCEPT !.name = "costs",
                  !.reward = [s \in 0..1 |-> [ja \in 0..1 |-> -1 - s]]]
  IN {{QMDP(costs, 3, FALSE, "no")}}
===============================================================================
