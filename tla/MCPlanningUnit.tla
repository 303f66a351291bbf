---------------------------- MODULE MCPlanningUnit ----------------------------
(***************************************************************************)
(* Instances of PlanningUnit: agents with different numbers of actions and *)
(* observations, also with only one; every way to create or count.  With   *)
(* Unchecked an initialization fails at the joint observation histories,   *)
(* with Walked at the joint action-observation histories, when the trees   *)
(* that Unchecked has left are too small.                                  *)
(***************************************************************************)
EXTENDS PlanningUnit

MCProblems == {[nrA |-> <<2, 1>>, nrO |-> <<2, 3>>],
               [nrA |-> <<1, 3, 2>>, nrO |-> <<1, 1, 1>>]}
MCHorizons == {1, 3, MAXHORIZON}

All == [individual |-> Kinds, joint |-> Kinds, beliefs |-> TRUE]
None == [individual |-> {}, joint |-> {}, beliefs |-> FALSE]
ObservationsOnly == [individual |-> {"O"}, joint |-> {"O"}, beliefs |-> FALSE]
JointOnly == [individual |-> {}, joint |-> {"A", "AO"}, beliefs |-> FALSE]
IndividualOnly == [individual |-> {"A", "AO"}, joint |-> {}, beliefs |-> FALSE]
Beliefs == [individual |-> {"O", "A"}, joint |-> {"AO"}, beliefs |-> TRUE]
Unchecked == [individual |-> {"AO"}, joint |-> {"O", "AO"}, beliefs |-> TRUE]
Walked == [individual |-> {"AO"}, joint |-> {"AO"}, beliefs |-> TRUE]
BeliefsOnly == [individual |-> {}, joint |-> {}, beliefs |-> TRUE]
MCParams == {All, None, ObservationsOnly, JointOnly, IndividualOnly, Beliefs,
             Unchecked, Walked, BeliefsOnly}
===============================================================================
