----------------------------- MODULE MCProblems ------------------------------
(***************************************************************************)
(* Small problems for model checking.  A problem is a pair of a table, the *)
(* rewards of the complete policies by position, and the errors of the     *)
(* heuristic: the heuristic is the least one that is admissible, plus an   *)
(* error at every policy.  The reward of a partial policy counts the odd   *)
(* decision rules in it.                                                   *)
(***************************************************************************)
EXTENDS Integers, Sequences, FiniteSetsExt, SequencesExt

CONSTANTS Horizon, NrJPolBGs

LOCAL Rules == 0..NrJPolBGs-1
LOCAL OfDepth(t) == [1..t -> Rules]
LOCAL Policies == UNION {OfDepth(t) : t \in 0..Horizon}
LOCAL Full == OfDepth(Horizon)

(* The policies that carry an error of the heuristic. *)
Inner == UNION {OfDepth(t) : t \in 1..Horizon-1}

(* Position of a policy among the ones of its depth. *)
LOCAL Position(p) == FoldLeft(LAMBDA n, d : n * NrJPolBGs + d, 0, p)

RewardOf(table) ==
  [p \in Policies |->
     IF p \in Full THEN table[Position(p) + 1]
     ELSE Cardinality({s \in DOMAIN p : p[s] % 2 = 1})]

LOCAL Completions(p) == {pi \in Full : \A s \in DOMAIN p : pi[s] = p[s]}

(* Smallest integer q with w * q >= x. *)
LOCAL CeilDiv(x, w) == -((-x) \div w)

(* Weights of a discount of 1, and of 1/2. *)
Undiscounted == [t \in 0..Horizon-1 |-> 1]
Halved == [t \in 0..Horizon-1 |-> 2 ^ (Horizon - 1 - t)]

(* The least payoffs whose values bound the rewards below a policy, plus   *)
(* error before the last stage and lastError at the last stage.            *)
PayoffOf(table, error, lastError, weight) ==
  LET reward == RewardOf(table)
      bound(p) == Max({reward[pi] : pi \in Completions(p)})
  IN [p \in Policies |->
        IF p = << >> THEN 0
        ELSE CeilDiv(bound(p) - reward[Front(p)], weight[Len(p) - 1])
               + (IF p \in Full THEN lastError ELSE error[p])]
=============================================================================
