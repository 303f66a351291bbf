---------------------------- MODULE JointPolicies ----------------------------
(***************************************************************************)
(* The policies a Generalized MAA* planner searches over, and what it      *)
(* knows of their value.                                                   *)
(*                                                                         *)
(* A partial joint policy of depth t fixes, for every stage below t, the   *)
(* joint decision rule of that stage: the joint policy of the Bayesian     *)
(* game (BG) that the planner builds for the stage.  A decision rule is    *)
(* represented by its position in the enumeration of the BG's joint        *)
(* policies, so a partial joint policy is a sequence of positions.         *)
(*                                                                         *)
(* A problem (a Dec-POMDP and a heuristic) says of a partial joint policy  *)
(*   Reward   its expected (discounted) reward over the stages it fixes,   *)
(*   Payoff   the BG payoff R + gamma * F of its last decision rule, where *)
(*            F is the Q-value heuristic handed to the planner.            *)
(* and what a unit of reward at every stage is Weight'ed with.  Values are *)
(* integers, in a unit that is Weight[problem][0] to one unit of reward at *)
(* stage 0: a discount of 1/2 over two stages has weights 2 and 1.  Values *)
(* closer to each other than one unit, and floating point rounding, are    *)
(* outside the model.                                                      *)
(***************************************************************************)
EXTENDS Integers, Sequences

CONSTANTS
  Horizon,    \* GetHorizon(): the number of stages
  NrJPolBGs,  \* the number of joint policies of the BG of a stage
  Problems,   \* the problems that may be planned for
  Reward,     \* Reward[problem][p]
  Payoff,     \* Payoff[problem][p]
  Weight,     \* Weight[problem][t], proportional to GetDiscount() to the power t
  MinusMax,   \* -DBL_MAX, the value of a bound that is not there yet
  PlusMax     \* DBL_MAX, the value of the empty joint policy

Rules == 0..NrJPolBGs-1

(* Partial joint policies by depth; the ones of depth Horizon are complete. *)
OfDepth(t) == [1..t -> Rules]
Policies == UNION {OfDepth(t) : t \in 0..Horizon}
FullPolicies == OfDepth(Horizon)

EmptyPolicy == << >>

ASSUME ParametersAssumption ==
  /\ Horizon \in Nat \ {0}
  /\ NrJPolBGs \in Nat \ {0}
  /\ MinusMax \in Int
  /\ PlusMax \in Int

ASSUME ProblemsAssumption ==
  /\ Reward \in [Problems -> [Policies -> Int]]
  /\ Payoff \in [Problems -> [Policies -> Int]]
  /\ Weight \in [Problems -> [0..Horizon-1 -> Nat \ {0}]]
  /\ \A problem \in Problems :
       /\ Reward[problem][EmptyPolicy] = 0
       /\ \A pi \in FullPolicies : MinusMax < Reward[problem][pi] /\ Reward[problem][pi] < PlusMax

(* pi fixes every decision rule that p fixes, the same way. *)
Extends(pi, p) ==
  /\ Len(p) <= Len(pi)
  /\ \A s \in 1..Len(p) : pi[s] = p[s]

(* The planner's "ts": the stage whose BG extends p, and its last stage. *)
Stage(p) == Len(p)
IsLastStage(p) == Stage(p) = Horizon - 1

Discounted(problem, t, x) == Weight[problem][t] * x

(* Expected immediate reward of the BG policy d at the stage p reaches. *)
ImmediateReward(problem, p, d) ==
  Reward[problem][Append(p, d)] - Reward[problem][p]

(* Past reward plus discounted BG payoff: the heuristic value of (p, d). *)
HeuristicValue(problem, p, past, d) ==
  past + Discounted(problem, Stage(p), Payoff[problem][Append(p, d)])

(***************************************************************************)
(* What the search may assume of a heuristic.  A heuristic is admissible   *)
(* up to slack when the value of a policy's child, computed from the exact *)
(* past reward, is at least the reward of every complete policy below that *)
(* child, less the slack.  It is exact at the last stage when the payoff   *)
(* there is the immediate reward.                                          *)
(***************************************************************************)
Admissible(problem, slack) ==
  \A p \in Policies : \A d \in Rules : \A pi \in FullPolicies :
    Len(p) < Horizon - 1 /\ Extends(pi, Append(p, d)) =>
      Reward[problem][pi] <= HeuristicValue(problem, p, Reward[problem][p], d) + slack

ExactAtLastStage(problem) ==
  \A p \in OfDepth(Horizon - 1) : \A d \in Rules :
    Discounted(problem, Horizon - 1, Payoff[problem][Append(p, d)]) = ImmediateReward(problem, p, d)

(* A child's value never exceeds its parent's. *)
Consistent(problem) ==
  \A p \in Policies : \A c, d \in Rules :
    Len(p) < Horizon - 1 =>
      HeuristicValue(problem, Append(p, c), Reward[problem][Append(p, c)], d)
        <= HeuristicValue(problem, p, Reward[problem][p], c)

IsOptimalValue(problem, v) ==
  /\ \E pi \in FullPolicies : Reward[problem][pi] = v
  /\ \A pi \in FullPolicies : Reward[problem][pi] <= v
=============================================================================
