------------------------------ MODULE MCClassic -------------------------------
(***************************************************************************)
(* Instance of MAAstarClassic: three stages of two BG policies each,       *)
(* several tables of rewards, errors of the heuristic of 0 or 1, and       *)
(* payoffs of the last stage that are not exact.                           *)
(***************************************************************************)
EXTENDS MAAstarClassic

MCMinusMax == -1000

MC == INSTANCE MCProblems

Tables == {<<0, 3, 1, 2, 3, 0, 2, 2>>, <<4, 1, 0, 2, 3, 3, 1, 4>>, <<-2, -1, -3, -1, 0, -4, -1, -2>>}

Errors == [MC!Inner -> 0..1]

MCProblemSet == Tables \X Errors

MCReward == [pb \in MCProblemSet |-> MC!RewardOf(pb[1])]
MCPayoff == [pb \in MCProblemSet |-> MC!PayoffOf(pb[1], pb[2], 1, MC!Undiscounted)]
MCWeight == [pb \in MCProblemSet |-> MC!Undiscounted]
=============================================================================
