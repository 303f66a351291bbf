-------------------------------- MODULE MCBnB ---------------------------------
(***************************************************************************)
(* Instances of BranchAndBound: two agents of two types and two actions    *)
(* each, so 16 policies and 4 joint types, of which one is useless in      *)
(* every ordering.                                                         *)
(***************************************************************************)
EXTENDS BranchAndBound

MCTypes == [ag \in Agents |-> {0, 1}]
MCMinusMax == -1000
MCBounds == {MCMinusMax, -5, 4}

(* Joint types and joint actions by position. *)
LOCAL Position(f) == 2 * f[1] + f[2]
LOCAL JT(n) == CHOOSE jt \in JointTypes : Position(jt) = n

(* A row of contributions for every joint type, an entry for every action. *)
LOCAL Table(rows) ==
  [jt \in JointTypes |-> [ja \in JointActions |-> rows[Position(jt) + 1][Position(ja) + 1]]]

(* Good coordination at every joint type, which no policy has at all.      *)
Conflict == Table(<< <<3, 0, 0, 2>>, <<0, 2, 3, 0>>, <<1, 3, 0, 0>>, <<0, 1, 0, 2>> >>)
(* Negative contributions, a joint type that never occurs, and ties. *)
Losses == Table(<< <<-1, -4, -2, -3>>, <<0, 0, 0, 0>>, <<-5, 1, -1, -5>>, <<-2, -2, -1, -3>> >>)

Orderings == {<<JT(0), JT(1), JT(2), JT(3)>>, <<JT(3), JT(0), JT(2), JT(1)>>}

GameOf(table, ordering, reComputeH, nrDesired, upperBound) ==
  [contribution |-> table, ordering |-> ordering, reComputeH |-> reComputeH,
   nrDesired |-> nrDesired, upperBound |-> upperBound]

(* As for the last stage: one solution, and an upper bound that the best   *)
(* policy reaches or not.  Without ReComputeH no policy reaches it.        *)
OneSolution ==
  {GameOf(Conflict, o, TRUE, 1, ub) : o \in Orderings, ub \in {8, 1000}}
    \cup {GameOf(Losses, o, TRUE, 1, ub) : o \in Orderings, ub \in {-3, 1000}}
    \cup {GameOf(t, o, FALSE, 1, 1000) : t \in {Conflict, Losses}, o \in Orderings}

(* As for the stages before it: all solutions, which is INT_MAX. *)
AllSolutions ==
  {GameOf(t, o, r, 16, 1000) : t \in {Conflict, Losses}, o \in Orderings, r \in BOOLEAN}

(* Some solutions: a queue that overflows with ties, over several calls.   *)
SomeSolutions ==
  {GameOf(t, o, r, 3, 1000) : t \in {Conflict, Losses}, o \in Orderings, r \in BOOLEAN}

MCGames == OneSolution \cup SomeSolutions \cup AllSolutions

(* Where the search stops at its upper bound, that is an answer. *)
ASSUME StopAssumption == \A bg \in MCGames : StopIsSound(bg)

(* One solution, H updated by subtraction, and for an upper bound the best *)
(* that complete information gives: what the QPOMDP heuristic passes.      *)
SubtractedH ==
  {GameOf(Conflict, o, FALSE, 1, 11) : o \in Orderings}
    \cup {GameOf(Losses, o, FALSE, 1, -1) : o \in Orderings}
===============================================================================
