----------------------------- MODULE MCAlternating ----------------------------
(***************************************************************************)
(* Instances of AlternatingMaximization: one, two and three agents, with   *)
(* and without ties.                                                       *)
(***************************************************************************)
EXTENDS AlternatingMaximization

MCMinusMax == -1000
MCPlanners == {"JESPExhaustive", "JESPDP", "AM"}

LOCAL TwoAgents(rows) ==
  [nrPolicies |-> <<Len(rows), Len(rows[1])>>,
   value |-> [p \in (0..Len(rows)-1) \X (0..Len(rows[1])-1) |-> rows[p[1] + 1][p[2] + 1]]]

LOCAL ThreeAgents(first, second) ==
  [nrPolicies |-> <<2, 2, 2>>,
   value |-> [p \in {0, 1} \X {0, 1} \X {0, 1} |->
                (IF p[1] = 0 THEN first ELSE second)[2 * p[2] + p[3] + 1]]]

(* A long climb along the diagonal, with unique best responses. *)
Climb == TwoAgents(<< <<1, 2, 0>>, <<0, 3, 4>>, <<0, 0, 5>> >>)
(* A plateau that leads to something better. *)
Plateau == TwoAgents(<< <<2, 2, 0>>, <<2, 0, 3>>, <<-1, 2, 3>> >>)
Single == [nrPolicies |-> <<4>>, value |-> [p \in [{1} -> 0..3] |-> <<-4, -1, -2, -1>>[p[1] + 1]]]
(* Local optima, unique responses. *)
Coordinate == ThreeAgents(<<5, 1, 2, 0>>, <<3, 2, 4, 7>>)
(* Everybody but one may move without loss. *)
Ties == ThreeAgents(<<1, 1, 1, 0>>, <<1, 0, 1, 2>>)

MCProblems == {Climb, Plateau, Single, Coordinate, Ties}

ASSUME FitAssumption == IndicesFit
===============================================================================
