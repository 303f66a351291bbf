------------------------------- MODULE MCkGMAA --------------------------------
(***************************************************************************)
(* Instance of kGMAA: three stages of three BG policies, k = 2, rewards of *)
(* either sign, discount 1/2, and heuristics that may be anything, and are *)
(* not exact at the last stage.                                            *)
(***************************************************************************)
EXTENDS kGMAA

MCMinusMax == -1000

MC == INSTANCE MCProblems

MCProblemSet == {1, 2, 3}

Table(pb) == [i \in 1..27 |-> ((i * (2 * pb + 3)) % 11) - 6]

Error(pb) ==
  [p \in MC!Inner |-> IF pb = 1 THEN 0 ELSE ((pb * p[1] + 3 * Len(p) * p[Len(p)]) % 5) - pb]

MCReward == [pb \in MCProblemSet |-> MC!RewardOf(Table(pb))]
MCPayoff == [pb \in MCProblemSet |-> MC!PayoffOf(Table(pb), Error(pb), 1, MC!Halved)]
MCWeight == [pb \in MCProblemSet |-> MC!Halved]
=============================================================================
