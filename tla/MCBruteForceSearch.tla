-------------------------- MODULE MCBruteForceSearch --------------------------
(***************************************************************************)
(* An instance of BruteForceSearch: two agents, two actions, horizon 2     *)
(* and two observations, so three observation histories.                   *)
(***************************************************************************)
EXTENDS BruteForceSearch

MCNrActions == <<2, 2>>
MCNrDomainElements == <<3, 3>>
MCMinusMax == -1000

(* The agents should take the same first action, and different actions     *)
(* after observations that are the same.                                   *)
LOCAL Matches(p, o1, o2, same) == IF (p[1][o1] = p[2][o2]) = same THEN 1 ELSE 0

MCValue ==
  [p \in JointPolicies |->
     2 * Matches(p, 1, 1, TRUE) + Matches(p, 2, 2, FALSE) + Matches(p, 3, 3, FALSE) + Matches(p, 2, 3, TRUE)]
===============================================================================
