------------------------------- MODULE MCQueue --------------------------------
(***************************************************************************)
(* Instances of SolutionQueue: six policies, two of them of equal value.   *)
(***************************************************************************)
EXTENDS SolutionQueue

MCPolicies == 1..6
MCValue == <<3, 1, 2, 2, 4, 0>>
MCIndex == [p \in MCPolicies |-> p - 1]
MCCapacities == {1, 2, 3, Infinite}
FixedCapacities == {2, 3}

ASSUME FitAssumption == ~Overflows => IndicesFit(JPolicies)
===============================================================================
