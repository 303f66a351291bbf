--------------------------- MODULE BruteForceSearch ---------------------------
(***************************************************************************)
(* BruteForceSearchPlanner::Plan(): all joint policies of a Dec-POMDP are  *)
(* evaluated one after the other.  The two joint policies of the function  *)
(* are objects behind pointers; one iteration of the loop is one step.     *)
(***************************************************************************)
EXTENDS JointPolicyVector

CONSTANTS
  Value,   \* Value[p]: the expected reward of the joint policy p
  MinusMax \* -DBL_MAX

VARIABLES
  object,     \* object[i]: the joint policy that pointer i points to
  best,       \* the pointer "best"; the pointer "jpol" is 1
  v_best,
  planned     \* Plan() has returned; the found policy is object[best]

vars == <<object, best, v_best, planned>>

Init ==
  /\ object = [i \in {1, 2} |-> ZeroInitialization]
  /\ best = 2
  /\ v_best = MinusMax
  /\ planned = FALSE

(* best = jpol assigns the pointer. *)
KeepBest(v) ==
  IF v > v_best THEN best' = 1 /\ v_best' = v ELSE UNCHANGED <<best, v_best>>

Try ==
  /\ ~planned
  /\ KeepBest(Value[object[1]])
  /\ object' = [object EXCEPT ![1] = Increment(object[1])]
  /\ planned' = IsLastPolicy(object[1])

Next == Try

Spec == Init /\ [][Next]_vars /\ WF_vars(Try)

-----------------------------------------------------------------------------

(* "It loops over all joint policies, computes the value of each of them,  *)
(* and stores the one with the highest value": the policy that Plan()      *)
(* leaves has the value that it reports, and none is better.               *)
StoresThePolicyOfTheHighestValue ==
  planned =>
    /\ Value[object[best]] = v_best
    /\ \A p \in JointPolicies : Value[p] <= v_best
===============================================================================
