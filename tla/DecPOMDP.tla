------------------------------- MODULE DecPOMDP --------------------------------
(***************************************************************************)
(* The Q-value functions of a Dec-POMDP that GMAA uses as heuristics, in   *)
(* whole numbers.  A problem pr has                                        *)
(*   nrA, nrO   the numbers of actions and observations of every agent,    *)
(*   nrS        the number of states,                                      *)
(*   isd        the weight of every state at the start,                    *)
(*   trans[s][ja][s'], obs[ja][s'][jo]   weights that add up to unitT and  *)
(*              to unitO,                                                  *)
(*   reward[s][ja],                                                        *)
(*   disc, unitD   the discount is disc / unitD.                           *)
(* A probability that is not 0 is at least PROB_PRECISION.  A belief is    *)
(* not normalized: it adds up to the probability of its history, and so a  *)
(* Q-value here is the one of the code times that probability, counted in  *)
(* the units of its stage.  Which action or policy is the best of a        *)
(* history, and which sums are larger, is the same.                        *)
(***************************************************************************)
EXTENDS Histories, FiniteSets, FiniteSetsExt

States(pr) == 0..pr.nrS-1
JointActions(pr) == 0..JointNumbers(pr).A-1
JointObservations(pr) == 0..JointNumbers(pr).O-1

Unit(pr) == pr.unitT * pr.unitO * pr.unitD

(* JointBelief::Update: the belief after joint action ja and joint         *)
(* observation jo.                                                         *)
Update(pr, b, ja, jo) ==
  [s2 \in States(pr) |->
     pr.obs[ja][s2][jo] * MapThenSumSet(LAMBDA s : pr.trans[s][ja][s2] * b[s], States(pr))]

(* GetJAOHProbsRecursively: the belief of a history, with its probability. *)
Belief(pr, history) ==
  LET b[t \in 0..Len(history)] ==
        IF t = 0 THEN pr.isd ELSE Update(pr, b[t - 1], history[t][1], history[t][2])
  IN b[Len(history)]

IsPossible(pr, b) == \E s \in States(pr) : b[s] > 0

ExpectedReward(pr, b, ja) ==
  MapThenSumSet(LAMBDA s : b[s] * pr.reward[s][ja], States(pr))

-----------------------------------------------------------------------------
(* The future reward: q[jo][ja] are the Q-values after joint observation   *)
(* jo, of which only the ones in possible can be made.                     *)

Best(values) == Max({values[ja] : ja \in DOMAIN values})

(* Mutant of FutureOfPOMDP: one joint action for all observations. *)
FutureOfNOMDP(pr, possible, q) ==
  Max({MapThenSumSet(LAMBDA jo : q[jo][ja], possible) : ja \in JointActions(pr)})

(* QPOMDP: the best joint action for each joint observation.               *)
FutureOfPOMDP(pr, possible, q) == MapThenSumSet(LAMBDA jo : Best(q[jo]), possible)

(* The policies of the Bayesian game whose types are the observations.     *)
ObservationPolicies(pr) ==
  {beta \in [Agents(pr) -> UNION {[0..pr.nrO[ag]-1 -> 0..pr.nrA[ag]-1] : ag \in Agents(pr)}] :
     \A ag \in Agents(pr) : beta[ag] \in [0..pr.nrO[ag]-1 -> 0..pr.nrA[ag]-1]}

JointActionOf(pr, beta, jo) ==
  JointIndex(pr.nrA, [ag \in Agents(pr) |-> beta[ag][IndividualIndices(pr.nrO, jo)[ag]]])

(* QBG: the best policy of that game. *)
FutureOfBG(pr, possible, q) ==
  Max({MapThenSumSet(LAMBDA jo : q[jo][JointActionOf(pr, beta, jo)], possible) :
         beta \in ObservationPolicies(pr)})

(* Mutant of Future: the last joint action counts. *)
FutureOfLast(kind, pr, possible, q) ==
  MapThenSumSet(LAMBDA jo : q[jo][JointNumbers(pr).A - 1], possible)

Future(kind, pr, possible, q) ==
  CASE kind = "QPOMDP" -> FutureOfPOMDP(pr, possible, q)
    [] kind = "QBG" -> FutureOfBG(pr, possible, q)

-----------------------------------------------------------------------------
(* MDPValueIteration for horizon h: a table per stage.  Plan() on the      *)
(* matrices of a flat transition model discounts; PlanSlow(), for a model  *)
(* that has none, does not.                                                *)

DiscountOfPlan(pr, flat) == IF flat THEN pr.disc ELSE pr.unitD

MDPTables(pr, h, flat) ==
  LET future(next, s, ja) ==
        pr.unitO * MapThenSumSet(LAMBDA s2 : pr.trans[s][ja][s2] * Best(next[s2]), States(pr))
      table[t \in 0..h-1] ==
        [s \in States(pr) |-> [ja \in JointActions(pr) |->
           Unit(pr) ^ (h - 1 - t) * pr.reward[s][ja]
           + (IF t = h - 1 THEN 0 ELSE DiscountOfPlan(pr, flat) * future(table[t + 1], s, ja))]]
  IN table

(* QMDP::GetQ: the expected value of a table. *)
TableQ(pr, table, b, ja) == MapThenSumSet(LAMBDA s : b[s] * table[s][ja], States(pr))

(* QFunctionJAOHTree::ComputeQ and ComputeRecursively, also of QHybrid:    *)
(* the Q-values of a history in the first h - Len(tables) stages, whose    *)
(* future is that of kind; those of the stage after come from tables[0].   *)
TreeQ(kind, pr, h, last, tables, history) ==
  LET future(q, past, ja) ==
        LET after(jo) == Append(past, <<ja, jo>>)
            possible == {jo \in JointObservations(pr) : IsPossible(pr, Belief(pr, after(jo)))}
        IN Future(kind, pr, possible, [jo \in possible |-> q[after(jo)]])
      q[past \in UNION {[1..t -> JointActions(pr) \X JointObservations(pr)] : t \in 0..h-1}] ==
        [ja \in JointActions(pr) |->
           IF Len(past) = h - last THEN TableQ(pr, tables[0], Belief(pr, past), ja)
           ELSE Unit(pr) ^ (h - 1 - Len(past)) * ExpectedReward(pr, Belief(pr, past), ja)
                + (IF Len(past) = h - 1 THEN 0 ELSE pr.disc * future(q, past, ja))]
  IN q[history]

-----------------------------------------------------------------------------
(* BayesianGameForDecPOMDPStage::Initialize: a type of the game of stage t *)
(* is an observation history per agent; the past policy gives its actions. *)

ObservationHistories(pr, ag, t) == [1..t -> 0..pr.nrO[ag]-1]

AgentPolicies(pr, ag, h) ==
  [UNION {ObservationHistories(pr, ag, t) : t \in 0..h-1} -> 0..pr.nrA[ag]-1]

PureJointPolicies(pr, h) ==
  {jpol \in [Agents(pr) -> UNION {AgentPolicies(pr, ag, h) : ag \in Agents(pr)}] :
     \A ag \in Agents(pr) : jpol[ag] \in AgentPolicies(pr, ag, h)}

JointTypes(pr, t) == [1..t -> JointObservations(pr)]

(* Fill_joI_Array, Fill_jaI_Array: what the agents do after the first s    *)
(* joint observations, and the history that results.                       *)
JointActionAfter(pr, jpol, joi, s) ==
  JointIndex(pr.nrA, [ag \in Agents(pr) |->
    jpol[ag][[i \in 1..s |-> IndividualIndices(pr.nrO, joi[i])[ag]]]])

TypeHistory(pr, jpol, joi) ==
  [i \in DOMAIN joi |-> <<JointActionAfter(pr, jpol, joi, i - 1), joi[i]>>]

(* The payoff of the policy in the game of stage t, where getQ[history] is *)
(* the heuristic; types that are not possible have no utility.             *)
StagePayoff(pr, jpol, t, getQ) ==
  LET payoff(joi) ==
        LET history == TypeHistory(pr, jpol, joi)
        IN IF IsPossible(pr, Belief(pr, history))
           THEN getQ[history][JointActionAfter(pr, jpol, joi, t)] ELSE 0
  IN MapThenSumSet(payoff, JointTypes(pr, t))
===============================================================================
