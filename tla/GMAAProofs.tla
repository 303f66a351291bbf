------------------------------ MODULE GMAAProofs -------------------------------
(***************************************************************************)
(* Lemmas about partial joint policies and their extensions, and about the *)
(* Plan loop that searches them, which the proofs of all planners share;   *)
(* and the first planner that they are about, MAAstarClassic.              *)
(***************************************************************************)
EXTENDS GMAA, SequenceTheorems, TLAPS

(* A policy is a sequence of at most Horizon decision rules.               *)
LEMMA PolicyIsSequence ==
  ASSUME NEW p \in Policies
  PROVE  /\ Len(p) \in 0..Horizon
         /\ p \in [1..Len(p) -> Rules]
         /\ p \in Seq(Rules)
BY ParametersAssumption DEF Policies, OfDepth

(* A complete policy is a policy, of length Horizon.                       *)
LEMMA FullPolicyIsPolicy ==
  ASSUME NEW pi \in FullPolicies
  PROVE  /\ pi \in Policies
         /\ Len(pi) = Horizon
         /\ pi \in [1..Horizon -> Rules]
BY ParametersAssumption DEF Policies, FullPolicies, OfDepth

(* The empty policy is a policy, and every policy extends it.              *)
LEMMA EmptyPolicyIsExtended ==
  /\ EmptyPolicy \in Policies
  /\ Len(EmptyPolicy) = 0
  /\ \A pi \in Policies : Extends(pi, EmptyPolicy)
<1>1. << >> \in [1..0 -> Rules] /\ Len(<< >>) = 0
  OBVIOUS
<1>2. 0 \in 0..Horizon
  BY ParametersAssumption
<1>3. EmptyPolicy \in Policies /\ Len(EmptyPolicy) = 0
  BY <1>1, <1>2 DEF EmptyPolicy, Policies, OfDepth
<1>4. ASSUME NEW pi \in Policies PROVE Extends(pi, EmptyPolicy)
  BY <1>3, PolicyIsSequence DEF Extends
<1>5. QED BY <1>3, <1>4

(* A policy that is not complete is extended by any decision rule.         *)
LEMMA AppendIsPolicy ==
  ASSUME NEW p \in Policies, Len(p) < Horizon, NEW d \in Rules
  PROVE  /\ Append(p, d) \in Policies
         /\ Len(Append(p, d)) = Len(p) + 1
         /\ Append(p, d)[Len(p) + 1] = d
         /\ \A s \in 1..Len(p) : Append(p, d)[s] = p[s]
         /\ IsLastStage(p) => Append(p, d) \in FullPolicies
<1>1. Len(p) \in 0..Horizon /\ p \in Seq(Rules) /\ p \in [1..Len(p) -> Rules]
  BY PolicyIsSequence
<1>2. /\ Append(p, d) \in Seq(Rules)
      /\ Len(Append(p, d)) = Len(p) + 1
      /\ Append(p, d)[Len(p) + 1] = d
      /\ \A s \in 1..Len(p) : Append(p, d)[s] = p[s]
  BY <1>1
<1>3. Append(p, d) \in [1..(Len(p) + 1) -> Rules]
  BY <1>2, LenProperties
<1>4. Len(p) + 1 \in 0..Horizon
  BY <1>1, ParametersAssumption
<1>5. Append(p, d) \in Policies
  BY <1>3, <1>4 DEF Policies, OfDepth
<1>6. IsLastStage(p) => Append(p, d) \in FullPolicies
  BY <1>1, <1>3, ParametersAssumption DEF IsLastStage, Stage, FullPolicies, OfDepth
<1>7. QED BY <1>2, <1>5, <1>6

(* A complete policy that extends p extends p by its own next rule: the    *)
(* children of an item are the complete policies below it, divided up.     *)
LEMMA NextRuleExtends ==
  ASSUME NEW p \in Policies, Len(p) < Horizon,
         NEW pi \in FullPolicies, Extends(pi, p)
  PROVE  /\ pi[Len(p) + 1] \in Rules
         /\ Extends(pi, Append(p, pi[Len(p) + 1]))
<1>1. Len(p) \in 0..Horizon
  BY PolicyIsSequence
<1>2. Len(pi) = Horizon /\ pi \in [1..Horizon -> Rules]
  BY FullPolicyIsPolicy
<1>3. pi[Len(p) + 1] \in Rules
  BY <1>1, <1>2, ParametersAssumption
<1> DEFINE q == Append(p, pi[Len(p) + 1])
<1>4. /\ Len(q) = Len(p) + 1
      /\ q[Len(p) + 1] = pi[Len(p) + 1]
      /\ \A s \in 1..Len(p) : q[s] = p[s]
  BY <1>3, AppendIsPolicy
<1>5. \A s \in 1..Len(p) : pi[s] = p[s]
  BY DEF Extends
<1>6. \A s \in 1..Len(q) : pi[s] = q[s]
  BY <1>1, <1>4, <1>5
<1>7. Len(q) <= Len(pi)
  BY <1>1, <1>2, <1>4, ParametersAssumption
<1>8. QED BY <1>3, <1>6, <1>7 DEF Extends

(* What extends an extension of p extends p.                               *)
LEMMA ExtendsChild ==
  ASSUME NEW p \in Policies, Len(p) < Horizon, NEW d \in Rules,
         NEW pi \in FullPolicies, Extends(pi, Append(p, d))
  PROVE  Extends(pi, p) /\ pi[Len(p) + 1] = d
<1> DEFINE q == Append(p, d)
<1>1. Len(p) \in 0..Horizon
  BY PolicyIsSequence
<1>2. Len(q) = Len(p) + 1 /\ q[Len(p) + 1] = d /\ \A s \in 1..Len(p) : q[s] = p[s]
  BY AppendIsPolicy
<1>3. Len(q) <= Len(pi) /\ \A s \in 1..Len(q) : pi[s] = q[s]
  BY DEF Extends
<1>4. Len(pi) = Horizon
  BY FullPolicyIsPolicy
<1> HIDE DEF q
<1>5. pi[Len(p) + 1] = d
  BY <1>1, <1>2, <1>3
<1>6. Len(p) <= Len(pi) /\ \A s \in 1..Len(p) : pi[s] = p[s]
  BY <1>1, <1>2, <1>3, <1>4, ParametersAssumption
<1>7. QED BY <1>5, <1>6 DEF Extends

(* Complete policies extend no complete policy but themselves.             *)
LEMMA ExtendsFullPolicy ==
  ASSUME NEW pi \in FullPolicies, NEW p \in FullPolicies, Extends(pi, p)
  PROVE  pi = p
BY FullPolicyIsPolicy DEF Extends

(* There is a complete policy.                                             *)
LEMMA FullPolicyExists == \E pi \in FullPolicies : TRUE
<1>1. [s \in 1..Horizon |-> 0] \in FullPolicies
  BY ParametersAssumption DEF FullPolicies, OfDepth, Rules
<1>2. QED BY <1>1

(* The rewards and payoffs of a problem are integers.                      *)
LEMMA RewardsAreIntegers ==
  ASSUME NEW q \in Problems, NEW p \in Policies
  PROVE  Reward[q][p] \in Int /\ Payoff[q][p] \in Int
BY ProblemsAssumption

(* The weights of the stages are positive integers.                        *)
LEMMA WeightsArePositive ==
  ASSUME NEW q \in Problems, NEW t \in 0..Horizon-1
  PROVE  Weight[q][t] \in Nat \ {0}
<1>1. Weight[q] \in [0..Horizon-1 -> Nat \ {0}]
  BY ProblemsAssumption
<1>2. \A s \in 0..Horizon-1 : Weight[q][s] \in Nat \ {0}
  BY <1>1
<1>3. QED BY <1>2

(* The value that a heuristic gives to a child is an integer.                    *)
LEMMA HeuristicValueIsInteger ==
  ASSUME NEW q \in Problems, NEW p \in Policies, Len(p) < Horizon,
         NEW d \in Rules, NEW past \in Int
  PROVE  /\ HeuristicValue(q, p, past, d) \in Int
         /\ ImmediateReward(q, p, d) \in Int
<1>1. Append(p, d) \in Policies
  BY AppendIsPolicy
<1>2. Stage(p) \in 0..Horizon-1
  BY PolicyIsSequence, ParametersAssumption DEF Stage
<1>3. Weight[q][Stage(p)] \in Int
  BY <1>2, WeightsArePositive
<1>4. /\ Reward[q][p] \in Int
      /\ Reward[q][Append(p, d)] \in Int
      /\ Payoff[q][Append(p, d)] \in Int
  BY <1>1, RewardsAreIntegers
<1>5. Discounted(q, Stage(p), Payoff[q][Append(p, d)]) \in Int
  BY <1>3, <1>4 DEF Discounted
<1>6. QED BY <1>4, <1>5 DEF HeuristicValue, ImmediateReward

-----------------------------------------------------------------------------
(***************************************************************************)
(* The Plan loop.                                                          *)
(***************************************************************************)

(* The fields of a pool item have their types.                             *)
LEMMA ItemTypes ==
  ASSUME TypeOK, NEW i \in pool
  PROVE  /\ problem \in Problems
         /\ i \in Items
         /\ i.jpol \in Policies
         /\ i.past \in Int
         /\ i.value \in Int
         /\ i.left \subseteq Rules
         /\ i.calls \in Nat
BY DEF TypeOK, Items

(* Items of the pool have stages left: at the last stage none is put back. *)
Unfinished == \A i \in pool : Len(i.jpol) < Horizon

(* Unfinished is part of the induction: the children of an item of depth   *)
(* Horizon would not be policies.                                          *)
TypeInv == TypeOK /\ Unfinished

(* The types hold before the first call of Plan().                         *)
LEMMA TypeInvInit == Init => TypeInv
BY EmptyPolicyIsExtended, ParametersAssumption
DEF Init, TypeInv, TypeOK, Unfinished, NewJPol, BestPolicies

(* A call of Plan() begins with the types it needs.                        *)
LEMMA StartPlanTypes == TypeInv /\ StartPlan => TypeInv'
<1> SUFFICES ASSUME TypeInv, StartPlan PROVE TypeInv'
  OBVIOUS
<1>1. NewPPI(EmptyPolicy, 0, PlusMax) \in Items
  BY EmptyPolicyIsExtended, ParametersAssumption DEF NewPPI, Items
<1>2. NewJPol \in BestPolicies
  BY EmptyPolicyIsExtended, ParametersAssumption DEF NewJPol, BestPolicies
<1>3. TypeOK'
  BY <1>1, <1>2, ParametersAssumption DEF TypeInv, StartPlan, TypeOK
<1>4. NewPPI(EmptyPolicy, 0, PlusMax).jpol = EmptyPolicy
  BY DEF NewPPI
<1>5. Unfinished'
  BY <1>4, EmptyPolicyIsExtended, ParametersAssumption DEF StartPlan, Unfinished
<1>6. QED BY <1>3, <1>5 DEF TypeInv

(* So does the end of a call, by a result or by the deadline.              *)
LEMMA EndTypes == TypeInv /\ (EndPlan \/ DeadlineExceeded) => TypeInv'
BY DEF TypeInv, TypeOK, Unfinished, EndPlan, DeadlineExceeded

(* An iteration keeps the lower bound and the pool but for the expanded    *)
(* item, or takes a greatest item of next, which is above the bound, and   *)
(* prunes the pool with its value.                                         *)
Keeps(ppi, back, further) ==
  /\ UNCHANGED <<maxLowerBound, bestJPol>>
  /\ pool' = (pool \ {ppi}) \cup back \cup further

Takes(top, ppi, back, next, further) ==
  /\ top.value > maxLowerBound
  /\ \A i \in next : i.value <= top.value
  /\ maxLowerBound' = top.value
  /\ bestJPol' = [jpol |-> top.jpol, past |-> top.past]
  /\ pool' = {i \in (pool \ {ppi}) \cup back : i.value > top.value - Slack} \cup further

(* What FinishIteration does, as one of the two.                           *)
LEMMA FinishIterationEffect ==
  ASSUME TypeOK, NEW ppi \in pool, NEW back, NEW next \in SUBSET Items,
         NEW areLBs \in BOOLEAN, NEW further, FinishIteration(ppi, back, next, areLBs, further)
  PROVE  /\ UNCHANGED <<problem, pc, foundPolicy, expectedReward>>
         /\ \/ /\ areLBs
               /\ \E top \in next : Takes(top, ppi, back, next, further)
            \/ /\ ~(areLBs /\ Improves(next))
               /\ Keeps(ppi, back, further)
<1>1. UNCHANGED <<problem, pc, foundPolicy, expectedReward>>
  BY DEF FinishIteration
<1>2. CASE areLBs /\ Improves(next)
  <2>1. PICK top \in PP!Select(next) : NewBest(top)
    BY <1>2 DEF FinishIteration
  <2>2. PICK better \in PP!Select(next) : better.value > maxLowerBound
    BY <1>2 DEF Improves
  <2>3. top \in next /\ \A i \in next : i.value <= top.value
    BY <2>1 DEF PP!Select
  <2>4. better \in next
    BY <2>2 DEF PP!Select
  <2>5. top.value \in Int /\ better.value \in Int /\ maxLowerBound \in Int
    BY <2>3, <2>4 DEF Items, TypeOK
  <2>6. top.value > maxLowerBound
    BY <2>2, <2>3, <2>4, <2>5
  <2>7. maxLowerBound' = top.value /\ bestJPol' = [jpol |-> top.jpol, past |-> top.past]
    BY <2>1 DEF NewBest
  <2>8. pool' = PP!Union(PP!Prune(PP!Pop(pool, ppi) \cup back, maxLowerBound' - Slack), further)
    BY <1>2 DEF FinishIteration
  <2>9. Takes(top, ppi, back, next, further)
    BY <2>3, <2>6, <2>7, <2>8 DEF Takes, PP!Union, PP!Prune, PP!Pop
  <2>10. QED BY <1>1, <1>2, <2>3, <2>9
<1>3. CASE ~(areLBs /\ Improves(next))
  BY <1>1, <1>3 DEF FinishIteration, Keeps, PP!Union, PP!Pop
<1>4. QED BY <1>2, <1>3

(* An iteration whose items have their types keeps the types.              *)
LEMMA FinishIterationTypes ==
  ASSUME TypeInv, NEW ppi \in pool,
         NEW back \in SUBSET Items, NEW next \in SUBSET Items, NEW further \in SUBSET Items,
         \A i \in back \cup further : Len(i.jpol) < Horizon,
         NEW areLBs \in BOOLEAN, FinishIteration(ppi, back, next, areLBs, further)
  PROVE  TypeInv'
<1>1. /\ UNCHANGED <<problem, pc, foundPolicy, expectedReward>>
      /\ \/ \E top \in next : Takes(top, ppi, back, next, further)
         \/ Keeps(ppi, back, further)
  BY FinishIterationEffect DEF TypeInv
<1>2. pool' \subseteq (pool \cup back \cup further)
  BY <1>1 DEF Takes, Keeps
<1>3. maxLowerBound' \in Int /\ bestJPol' \in BestPolicies
  BY <1>1 DEF Takes, Keeps, TypeInv, TypeOK, Items, BestPolicies
<1>4. TypeOK'
  BY <1>1, <1>2, <1>3 DEF TypeInv, TypeOK
<1>5. Unfinished'
  BY <1>2 DEF TypeInv, Unfinished
<1>6. QED BY <1>4, <1>5 DEF TypeInv

-----------------------------------------------------------------------------
(***************************************************************************)
(* MAAstarClassic is an optimal search, for every horizon, every number of *)
(* BG policies, every discount and every admissible heuristic.  Its        *)
(* variables and parameters are those of GMAA, so what it says is said     *)
(* here of an instance, under the assumption that MAAstarClassic makes of  *)
(* the slack and the heuristic.                                            *)
(***************************************************************************)
Classic == INSTANCE MAAstarClassic

ClassicStep ==
  \/ StartPlan \/ DeadlineExceeded \/ EndPlan
  \/ \E ppi \in pool : Classic!ExpandStage(ppi) \/ Classic!ExpandLastStage(ppi)
  \/ UNCHANGED vars

(* The instance begins as GMAA does, and its steps outside of an expansion *)
(* are those of GMAA.                                                      *)
LEMMA ClassicStart == Classic!Init => Init
BY DEF Classic!Init, Init, Classic!NewJPol, NewJPol, Classic!EmptyPolicy, EmptyPolicy

LEMMA ClassicNext == [Classic!Next]_(Classic!vars) => ClassicStep
<1>1. Classic!StartPlan => StartPlan
  BY DEF Classic!StartPlan, StartPlan, Classic!NewPPI, NewPPI, Classic!NewJPol, NewJPol,
         Classic!EmptyPolicy, EmptyPolicy, Classic!Rules, Rules
<1>2. Classic!DeadlineExceeded => DeadlineExceeded
  BY DEF Classic!DeadlineExceeded, DeadlineExceeded
<1>3. Classic!EndPlan => EndPlan
  BY DEF Classic!EndPlan, EndPlan, Classic!BoundsCrossed, BoundsCrossed, Classic!PP!Select, PP!Select
<1>4. UNCHANGED Classic!vars => UNCHANGED vars
  BY DEF Classic!vars, vars
<1>5. QED BY <1>1, <1>2, <1>3, <1>4 DEF Classic!Next, Classic!Expand, ClassicStep

(* An expansion selects its item and finishes its iteration as in GMAA.    *)
LEMMA ClassicIteration ==
  /\ Classic!Rules = Rules
  /\ \A ppi : Classic!Selected(ppi) <=> Selected(ppi)
  /\ \A p : Classic!IsLastStage(p) <=> IsLastStage(p)
  /\ \A ppi, back, next, areLBs, further :
        Classic!FinishIteration(ppi, back, next, areLBs, further)
          <=> FinishIteration(ppi, back, next, areLBs, further)
BY DEF Classic!Rules, Rules, Classic!Selected, Selected, Classic!IsLastStage, IsLastStage,
       Classic!Stage, Stage, FinishIteration, Classic!FinishIteration, Improves, Classic!Improves,
       NewBest, Classic!NewBest, PP!Select, PP!Pop, PP!Prune, PP!Union,
       Classic!PP!Select, Classic!PP!Pop, Classic!PP!Prune, Classic!PP!Union

(* What the children of an item are.                                       *)
LEMMA ClassicChildren ==
  ASSUME NEW i, NEW d
  PROVE  /\ Classic!ExactValue(i, d) = i.past + ImmediateReward(problem, i.jpol, d)
         /\ Classic!Child(i, d) = NewPPI(Append(i.jpol, d), Classic!ExactValue(i, d),
                                         HeuristicValue(problem, i.jpol, i.past, d))
BY DEF Classic!ExactValue, Classic!Child, Classic!NewPPI, NewPPI,
       Classic!ImmediateReward, ImmediateReward, Classic!HeuristicValue, HeuristicValue,
       Classic!Discounted, Discounted, Classic!Stage, Stage, Classic!Rules, Rules

LEMMA ClassicLastStageChildren ==
  ASSUME NEW i, NEW best, NEW stop
  PROVE  Classic!LastStageChild(i, best, stop) =
           NewPPI(Append(i.jpol, best), Classic!ExactValue(i, stop), Classic!ExactValue(i, best))
BY DEF Classic!LastStageChild, Classic!NewPPI, NewPPI, Classic!Rules, Rules

(* What MAAstarClassic assumes.                                            *)
LEMMA ClassicSearch ==
  ASSUME Classic!SearchAssumption
  PROVE  Slack = 0 /\ \A pb \in Problems : Admissible(pb, Slack)
BY DEF Classic!SearchAssumption, Classic!Admissible, Admissible, Classic!HeuristicValue,
       HeuristicValue, Classic!Discounted, Discounted, Classic!FullPolicies, FullPolicies,
       Classic!Policies, Policies, Classic!OfDepth, OfDepth, Classic!Rules, Rules,
       Classic!Extends, Extends, Classic!Stage, Stage

-----------------------------------------------------------------------------
(***************************************************************************)
(* What the two kinds of expansion do to the state.                        *)
(***************************************************************************)

(* Before the last stage the item is replaced by its children.             *)
LEMMA ClassicExpandStageEffect ==
  ASSUME NEW ppi \in pool, Classic!ExpandStage(ppi)
  PROVE  /\ pc = "planning"
         /\ ~IsLastStage(ppi.jpol)
         /\ pool' = (pool \ {ppi}) \cup {Classic!Child(ppi, d) : d \in Rules}
         /\ UNCHANGED <<problem, pc, bestJPol, maxLowerBound, foundPolicy, expectedReward>>
<1> DEFINE next == {Classic!Child(ppi, d) : d \in Rules}
<1>1. /\ Selected(ppi)
      /\ ~IsLastStage(ppi.jpol)
      /\ FinishIteration(ppi, {}, next, FALSE, next)
  BY ClassicIteration DEF Classic!ExpandStage, Classic!SelectPoliciesToProcessFurther
<1>2. QED BY <1>1 DEF Selected, FinishIteration, PP!Pop, PP!Union

(* The item becomes the best policy, and the pool is pruned with it.       *)
ClassicBecomesBest(ppi, child) ==
  /\ child.value > maxLowerBound
  /\ maxLowerBound' = child.value
  /\ bestJPol' = [jpol |-> child.jpol, past |-> child.past]
  /\ pool' = {i \in pool \ {ppi} : i.value > child.value}

(* The item is dropped: its best complete policy is no improvement.        *)
ClassicIsNoBetter(ppi, child) ==
  /\ child.value <= maxLowerBound
  /\ pool' = pool \ {ppi}
  /\ UNCHANGED <<maxLowerBound, bestJPol>>

(* The exact value of a complete policy is an integer.                     *)
LEMMA ClassicExactValueIsInteger ==
  ASSUME TypeOK, NEW i \in pool, Len(i.jpol) < Horizon, NEW d \in Rules
  PROVE  Classic!ExactValue(i, d) \in Int
BY ItemTypes, HeuristicValueIsInteger, ClassicChildren

(* At the last stage the item leaves the pool for the best policy it has.  *)
LEMMA ClassicExpandLastStageEffect ==
  ASSUME Classic!SearchAssumption, TypeOK, NEW ppi \in pool, Classic!ExpandLastStage(ppi)
  PROVE  /\ pc = "planning"
         /\ IsLastStage(ppi.jpol)
         /\ UNCHANGED <<problem, pc, foundPolicy, expectedReward>>
         /\ \E stop, best \in Rules :
              /\ Classic!StopsAt(ppi, stop)
              /\ Classic!BestOf(ppi, stop, best)
              /\ \/ ClassicBecomesBest(ppi, Classic!LastStageChild(ppi, best, stop))
                 \/ ClassicIsNoBetter(ppi, Classic!LastStageChild(ppi, best, stop))
<1>1. /\ pc = "planning"
      /\ IsLastStage(ppi.jpol)
      /\ UNCHANGED <<problem, pc, foundPolicy, expectedReward>>
  BY ClassicIteration DEF Classic!ExpandLastStage, Selected, FinishIteration
<1>2. PICK stop, best \in Rules :
        /\ Classic!StopsAt(ppi, stop)
        /\ Classic!BestOf(ppi, stop, best)
        /\ FinishIteration(ppi, {}, {Classic!LastStageChild(ppi, best, stop)}, TRUE, {})
  BY ClassicIteration DEF Classic!ExpandLastStage, Classic!SelectPoliciesToProcessFurther
<1> DEFINE child == Classic!LastStageChild(ppi, best, stop)
<1>3. Len(ppi.jpol) < Horizon
  BY <1>1, ItemTypes, PolicyIsSequence, ParametersAssumption DEF IsLastStage, Stage
<1>4. child.value \in Int
  BY <1>3, ClassicExactValueIsInteger, ClassicLastStageChildren DEF NewPPI
<1>5. maxLowerBound \in Int /\ Slack = 0
  BY Classic!SearchAssumption DEF TypeOK
<1>6. PP!Select({child}) = {child}
  BY <1>4 DEF PP!Select
<1>7. CASE child.value > maxLowerBound
  <2>1. maxLowerBound' = child.value /\ bestJPol' = [jpol |-> child.jpol, past |-> child.past]
    BY <1>2, <1>6, <1>7 DEF FinishIteration, Improves, NewBest
  <2>2. pool' = PP!Union(PP!Prune(PP!Pop(pool, ppi) \cup {}, maxLowerBound' - Slack), {})
    BY <1>2, <1>6, <1>7 DEF FinishIteration, Improves
  <2>3. maxLowerBound' - Slack = child.value
    BY <2>1, <1>4, <1>5
  <2>4. pool' = {i \in pool \ {ppi} : i.value > child.value}
    BY <2>2, <2>3 DEF PP!Union, PP!Prune, PP!Pop
  <2>5. ClassicBecomesBest(ppi, child)
    BY <2>1, <2>4, <1>7 DEF ClassicBecomesBest
  <2>6. QED BY <1>1, <1>2, <2>5
<1>8. CASE ~(child.value > maxLowerBound)
  <2>1. pool' = pool \ {ppi} /\ UNCHANGED <<maxLowerBound, bestJPol>>
    BY <1>2, <1>6, <1>8
    DEF FinishIteration, Improves, PP!Union, PP!Pop
  <2>2. ClassicIsNoBetter(ppi, child)
    BY <2>1, <1>4, <1>5, <1>8 DEF ClassicIsNoBetter
  <2>3. QED BY <1>1, <1>2, <2>2
<1>9. QED BY <1>7, <1>8

-----------------------------------------------------------------------------
(***************************************************************************)
(* Type correctness.                                                       *)
(***************************************************************************)

(* A child is a well-typed item, and so is the one made at the last stage. *)
LEMMA ClassicChildIsItem ==
  ASSUME TypeOK, NEW i \in pool, Len(i.jpol) < Horizon, NEW d \in Rules, NEW e \in Rules
  PROVE  /\ Classic!Child(i, d) \in Items
         /\ Classic!LastStageChild(i, d, e) \in Items
<1>1. Append(i.jpol, d) \in Policies
  BY ItemTypes, AppendIsPolicy
<1>2. i.past + ImmediateReward(problem, i.jpol, d) \in Int
  BY ClassicExactValueIsInteger, ClassicChildren
<1>3. HeuristicValue(problem, i.jpol, i.past, d) \in Int
  BY ItemTypes, HeuristicValueIsInteger
<1>4. Classic!ExactValue(i, d) \in Int /\ Classic!ExactValue(i, e) \in Int
  BY ClassicExactValueIsInteger
<1>5. \A x, y \in Int : NewPPI(Append(i.jpol, d), x, y) \in Items
  BY <1>1 DEF NewPPI, Items
<1>6. Classic!Child(i, d) \in Items
  BY <1>3, <1>4, <1>5, ClassicChildren
<1>7. Classic!LastStageChild(i, d, e) \in Items
  BY <1>4, <1>5, ClassicLastStageChildren
<1>8. QED BY <1>6, <1>7

(* Every action keeps the types.                                           *)
LEMMA ClassicTypeInvStep ==
  ASSUME Classic!SearchAssumption, TypeInv, ClassicStep
  PROVE  TypeInv'
<1> USE DEF TypeInv
<1>1. CASE StartPlan
  BY <1>1, StartPlanTypes
<1>2. CASE DeadlineExceeded
  BY <1>2, EndTypes
<1>3. CASE EndPlan
  BY <1>3, EndTypes
<1>4. ASSUME NEW ppi \in pool, Classic!ExpandStage(ppi) PROVE TypeInv'
  <2>1. Len(ppi.jpol) < Horizon
    BY DEF Unfinished
  <2>2. \A d \in Rules : Classic!Child(ppi, d) \in Items
    BY <2>1, ClassicChildIsItem
  <2>3. TypeOK'
    BY <1>4, <2>2, ClassicExpandStageEffect DEF TypeOK
  <2>4. ASSUME NEW d \in Rules PROVE Len(Classic!Child(ppi, d).jpol) < Horizon
    <3>1. Len(Classic!Child(ppi, d).jpol) = Len(ppi.jpol) + 1
      BY <2>1, ItemTypes, AppendIsPolicy, ClassicChildren DEF NewPPI
    <3>2. Len(ppi.jpol) # Horizon - 1 /\ Len(ppi.jpol) \in Nat
      BY <1>4, ClassicExpandStageEffect, ItemTypes, PolicyIsSequence DEF IsLastStage, Stage
    <3>3. QED BY <2>1, <3>1, <3>2, ParametersAssumption
  <2>5. Unfinished'
    BY <1>4, <2>4, ClassicExpandStageEffect DEF Unfinished
  <2>6. QED BY <2>3, <2>5
<1>5. ASSUME NEW ppi \in pool, Classic!ExpandLastStage(ppi) PROVE TypeInv'
  <2>1. PICK stop, best \in Rules :
          \/ ClassicBecomesBest(ppi, Classic!LastStageChild(ppi, best, stop))
          \/ ClassicIsNoBetter(ppi, Classic!LastStageChild(ppi, best, stop))
    BY <1>5, ClassicExpandLastStageEffect
  <2>2. Classic!LastStageChild(ppi, best, stop) \in Items
    BY ClassicChildIsItem DEF Unfinished
  <2>3. TypeOK'
    BY <1>5, <2>1, <2>2, ClassicExpandLastStageEffect
    DEF TypeOK, ClassicBecomesBest, ClassicIsNoBetter, Items, BestPolicies
  <2>4. Unfinished'
    BY <2>1 DEF Unfinished, ClassicBecomesBest, ClassicIsNoBetter
  <2>5. QED BY <2>3, <2>4
<1>6. CASE UNCHANGED vars
  BY <1>6 DEF vars, TypeOK, Unfinished
<1>7. QED BY <1>1, <1>2, <1>3, <1>4, <1>5, <1>6 DEF ClassicStep

(* Every variable of the planner keeps its type.                           *)
THEOREM ClassicTypeCorrect ==
  Classic!SearchAssumption => (Classic!Spec => []TypeOK)
<1> SUFFICES ASSUME Classic!SearchAssumption PROVE Classic!Spec => []TypeOK
  OBVIOUS
<1>1. Classic!Init => TypeInv
  BY ClassicStart, TypeInvInit
<1>2. TypeInv /\ [Classic!Next]_(Classic!vars) => TypeInv'
  BY ClassicNext, ClassicTypeInvStep
<1>3. TypeInv => TypeOK
  BY DEF TypeInv
<1>4. QED BY <1>1, <1>2, <1>3, PTL DEF Classic!Spec

-----------------------------------------------------------------------------
(***************************************************************************)
(* Optimality.  An item stands for the complete policies that extend it.   *)
(* The invariant: the past rewards of the items are exact, their values    *)
(* bound the rewards of what they stand for (the value of a child comes    *)
(* from an admissible heuristic and an exact past reward), and what no     *)
(* item of the pool stands for is no better than the best policy found.    *)
(***************************************************************************)

ClassicValuesBound ==
  \A i \in pool : \A pi \in FullPolicies :
    Extends(pi, i.jpol) => Reward[problem][pi] <= i.value

ClassicRestIsNoBetter ==
  pc = "planning" =>
    \A pi \in FullPolicies :
      \/ Reward[problem][pi] <= maxLowerBound
      \/ \E i \in pool : Extends(pi, i.jpol)

(* No solver is kept on an item, so every decision rule is left to it.     *)
ClassicNothingReturned == \A i \in pool : i.left = Rules

ClassicDisjoint ==
  \A i, j \in pool : i # j =>
    \A pi \in FullPolicies : ~(Extends(pi, i.jpol) /\ Extends(pi, j.jpol))

ClassicAnswerIsBest ==
  pc = "ended" =>
    /\ expectedReward = maxLowerBound
    /\ foundPolicy = bestJPol
    /\ \A pi \in FullPolicies : Reward[problem][pi] <= maxLowerBound

ClassicInv ==
  /\ TypeInv
  /\ PastRewardsExact
  /\ ClassicValuesBound
  /\ ClassicRestIsNoBetter
  /\ ClassicNothingReturned
  /\ ClassicDisjoint
  /\ BoundIsAchieved
  /\ ClassicAnswerIsBest

(* The exact value of a completion is its reward.                          *)
LEMMA ClassicExactValueIsReward ==
  ASSUME TypeInv, PastRewardsExact, NEW i \in pool, NEW d \in Rules
  PROVE  Classic!ExactValue(i, d) = Reward[problem][Append(i.jpol, d)]
<1>1. Append(i.jpol, d) \in Policies
  BY ItemTypes, AppendIsPolicy DEF TypeInv, Unfinished
<1>2. Reward[problem][i.jpol] \in Int /\ Reward[problem][Append(i.jpol, d)] \in Int
  BY <1>1, ItemTypes, RewardsAreIntegers DEF TypeInv
<1>3. i.past = Reward[problem][i.jpol]
  BY DEF PastRewardsExact
<1>4. QED BY <1>2, <1>3, ClassicChildren DEF ImmediateReward

(* Before the last stage: children have exact past rewards, and values     *)
(* that bound the complete policies below them.                            *)
LEMMA ClassicChildIsBounded ==
  ASSUME Classic!SearchAssumption, TypeInv, PastRewardsExact, NEW i \in pool, ~IsLastStage(i.jpol), NEW d \in Rules
  PROVE  LET child == Classic!Child(i, d)
         IN /\ child.jpol = Append(i.jpol, d)
            /\ child.past = Reward[problem][child.jpol]
            /\ \A pi \in FullPolicies :
                 Extends(pi, child.jpol) => Reward[problem][pi] <= child.value
<1>1. /\ Classic!Child(i, d).jpol = Append(i.jpol, d)
      /\ Classic!Child(i, d).past = Classic!ExactValue(i, d)
      /\ Classic!Child(i, d).value = HeuristicValue(problem, i.jpol, i.past, d)
  BY ClassicChildren DEF NewPPI
<1>2. Len(i.jpol) < Horizon - 1
  BY ItemTypes, PolicyIsSequence, ParametersAssumption
  DEF TypeInv, Unfinished, IsLastStage, Stage
<1>3. i.past = Reward[problem][i.jpol] /\ i.jpol \in Policies /\ problem \in Problems
  BY ItemTypes DEF PastRewardsExact, TypeInv
<1>4. ASSUME NEW pi \in FullPolicies, Extends(pi, Append(i.jpol, d))
      PROVE  Reward[problem][pi] <= HeuristicValue(problem, i.jpol, i.past, d)
  <2>1. Reward[problem][pi] <= HeuristicValue(problem, i.jpol, i.past, d) + Slack
    BY <1>2, <1>3, <1>4, ClassicSearch DEF Admissible
  <2>2. HeuristicValue(problem, i.jpol, i.past, d) \in Int
    BY <1>2, <1>3, ItemTypes, HeuristicValueIsInteger, ParametersAssumption
    DEF TypeInv, Unfinished
  <2>3. QED BY <2>1, <2>2, Classic!SearchAssumption
<1>5. QED BY <1>1, <1>4, ClassicExactValueIsReward

(* At the last stage: the complete policy made of the item has its reward  *)
(* as its value, and no completion of the item has a greater one, whether  *)
(* all were evaluated or the evaluation stopped at the item's value.       *)
LEMMA ClassicLastStageChildIsBest ==
  ASSUME Classic!SearchAssumption, TypeInv, PastRewardsExact, ClassicValuesBound,
         NEW i \in pool, IsLastStage(i.jpol),
         NEW stop \in Rules, NEW best \in Rules,
         Classic!StopsAt(i, stop), Classic!BestOf(i, stop, best)
  PROVE  LET child == Classic!LastStageChild(i, best, stop)
         IN /\ child.jpol \in FullPolicies
            /\ child.value = Reward[problem][child.jpol]
            /\ \A pi \in FullPolicies :
                 Extends(pi, i.jpol) => Reward[problem][pi] <= child.value
<1> DEFINE child == Classic!LastStageChild(i, best, stop)
<1>1. child.jpol = Append(i.jpol, best) /\ child.value = Classic!ExactValue(i, best)
  BY ClassicLastStageChildren DEF NewPPI
<1>2. i.jpol \in Policies /\ Len(i.jpol) < Horizon /\ i.value \in Int
  BY ItemTypes DEF TypeInv, Unfinished
<1>3. child.jpol \in FullPolicies
  BY <1>1, <1>2, AppendIsPolicy
<1>4. child.value = Reward[problem][child.jpol]
  BY <1>1, ClassicExactValueIsReward
<1>5. \A d \in Rules : Classic!ExactValue(i, d) \in Int
  BY <1>2, ClassicExactValueIsInteger DEF TypeInv
<1>6. ASSUME NEW pi \in FullPolicies, Extends(pi, i.jpol)
      PROVE  Reward[problem][pi] <= child.value
  <2> DEFINE d == pi[Len(i.jpol) + 1]
  <2>1. d \in Rules /\ Extends(pi, Append(i.jpol, d))
    BY <1>2, <1>6, NextRuleExtends
  <2>2. Append(i.jpol, d) \in FullPolicies
    BY <1>2, <2>1, AppendIsPolicy
  <2>3. pi = Append(i.jpol, d)
    BY <2>1, <2>2, ExtendsFullPolicy
  <2>4. Reward[problem][pi] = Classic!ExactValue(i, d)
    BY <2>1, <2>3, ClassicExactValueIsReward
  <2>5. CASE d \in 0..stop
    BY <1>1, <2>4, <2>5 DEF Classic!BestOf
  <2>6. CASE d \notin 0..stop
    <3>1. stop # NrJPolBGs - 1
      BY <2>1, <2>6, ParametersAssumption DEF Rules
    <3>2. Classic!ExactValue(i, stop) >= i.value
      BY <3>1 DEF Classic!StopsAt, Classic!ReachesParent
    <3>3. stop \in 0..stop
      BY ParametersAssumption DEF Rules
    <3>4. Classic!ExactValue(i, stop) <= Classic!ExactValue(i, best)
      BY <3>3 DEF Classic!BestOf
    <3>5. Reward[problem][pi] <= i.value
      BY <1>6 DEF ClassicValuesBound
    <3>6. QED BY <1>1, <1>2, <1>5, <2>1, <2>4, <3>2, <3>4, <3>5
  <2>7. QED BY <2>5, <2>6
<1>7. QED BY <1>3, <1>4, <1>6

(* The inductive invariant holds before the first call of Plan().          *)
LEMMA ClassicInvInit == Init => ClassicInv
<1> SUFFICES ASSUME Init PROVE ClassicInv
  OBVIOUS
<1>1. TypeInv
  BY TypeInvInit
<1>2. QED BY <1>1
  DEF Init, ClassicInv, PastRewardsExact, ClassicValuesBound, ClassicRestIsNoBetter, ClassicNothingReturned, ClassicDisjoint,
      BoundIsAchieved, ClassicAnswerIsBest

(* The pool of a new Plan() stands for every complete policy.              *)
LEMMA ClassicStartPlanStep ==
  ASSUME Classic!SearchAssumption, ClassicInv, StartPlan
  PROVE  ClassicInv'
<1> DEFINE root == NewPPI(EmptyPolicy, 0, PlusMax)
<1>1. TypeInv'
  BY ClassicTypeInvStep DEF ClassicInv, ClassicStep
<1>2. /\ pool' = {root} /\ problem' = problem /\ pc' = "planning"
      /\ maxLowerBound' = MinusMax
      /\ root.jpol = EmptyPolicy /\ root.past = 0 /\ root.value = PlusMax /\ root.left = Rules
  BY DEF StartPlan, NewPPI
<1>3. problem \in Problems
  BY DEF ClassicInv, TypeInv, TypeOK
<1>4. PastRewardsExact'
  BY <1>2, <1>3, ProblemsAssumption DEF PastRewardsExact
<1>5. ClassicValuesBound'
  <2>1. ASSUME NEW pi \in FullPolicies PROVE Reward[problem][pi] <= PlusMax
    BY <1>3, FullPolicyIsPolicy, RewardsAreIntegers, ProblemsAssumption, ParametersAssumption
  <2>2. QED BY <1>2, <2>1 DEF ClassicValuesBound
<1>6. ClassicRestIsNoBetter'
  BY <1>2, EmptyPolicyIsExtended, FullPolicyIsPolicy DEF ClassicRestIsNoBetter
<1>7. BoundIsAchieved' /\ ClassicAnswerIsBest'
  BY <1>2 DEF BoundIsAchieved, ClassicAnswerIsBest
<1>8. ClassicNothingReturned' /\ ClassicDisjoint'
  BY <1>2 DEF ClassicNothingReturned, ClassicDisjoint
<1>9. QED BY <1>1, <1>4, <1>5, <1>6, <1>7, <1>8 DEF ClassicInv

(* Plan() ends with an empty pool, or with one whose items are all below   *)
(* the best policy found: nothing better is left in either case.           *)
LEMMA ClassicEndPlanStep ==
  ASSUME Classic!SearchAssumption, ClassicInv, EndPlan
  PROVE  ClassicInv'
<1>1. TypeInv'
  BY ClassicTypeInvStep DEF ClassicInv, ClassicStep
<1>2. /\ pc = "planning" /\ pc' = "ended"
      /\ foundPolicy' = bestJPol /\ expectedReward' = maxLowerBound
      /\ UNCHANGED <<problem, pool, bestJPol, maxLowerBound>>
      /\ pool = {} \/ BoundsCrossed
  BY DEF EndPlan
<1>3. ASSUME NEW pi \in FullPolicies PROVE Reward[problem][pi] <= maxLowerBound
  <2>1. CASE ~\E i \in pool : Extends(pi, i.jpol)
    BY <1>2, <2>1 DEF ClassicInv, ClassicRestIsNoBetter
  <2>2. CASE \E i \in pool : Extends(pi, i.jpol)
    <3>1. PICK i \in pool : Extends(pi, i.jpol)
      BY <2>2
    <3>2. PICK top \in pool : /\ \A j \in pool : j.value <= top.value
                              /\ top.value + Slack < maxLowerBound
      BY <1>2, <3>1 DEF BoundsCrossed, PP!Select
    <3>3. Reward[problem][pi] <= i.value /\ i.value <= top.value
      BY <3>1, <3>2 DEF ClassicInv, ClassicValuesBound
    <3>4. Reward[problem][pi] \in Int
      BY FullPolicyIsPolicy, RewardsAreIntegers DEF ClassicInv, TypeInv, TypeOK
    <3>5. i.value \in Int /\ top.value \in Int /\ maxLowerBound \in Int
      BY ItemTypes DEF ClassicInv, TypeInv, TypeOK
    <3>6. QED BY <3>2, <3>3, <3>4, <3>5, Classic!SearchAssumption
  <2>3. QED BY <2>1, <2>2
<1>4. ClassicAnswerIsBest'
  BY <1>2, <1>3 DEF ClassicAnswerIsBest
<1>5. /\ PastRewardsExact' /\ ClassicValuesBound' /\ ClassicRestIsNoBetter'
      /\ ClassicNothingReturned' /\ ClassicDisjoint' /\ BoundIsAchieved'
  BY <1>2 DEF ClassicInv, PastRewardsExact, ClassicValuesBound, ClassicRestIsNoBetter, ClassicNothingReturned, ClassicDisjoint,
              BoundIsAchieved
<1>6. QED BY <1>1, <1>4, <1>5 DEF ClassicInv

(* The children of an item stand for what the item stood for.              *)
LEMMA ClassicExpandStageStep ==
  ASSUME Classic!SearchAssumption, ClassicInv, NEW ppi \in pool, Classic!ExpandStage(ppi)
  PROVE  ClassicInv'
<1>1. TypeInv'
  BY ClassicTypeInvStep DEF ClassicInv, ClassicStep
<1>2. /\ ~IsLastStage(ppi.jpol)
      /\ pool' = (pool \ {ppi}) \cup {Classic!Child(ppi, d) : d \in Rules}
      /\ UNCHANGED <<problem, pc, bestJPol, maxLowerBound, foundPolicy, expectedReward>>
  BY ClassicExpandStageEffect
<1>3. ASSUME NEW d \in Rules
      PROVE  LET child == Classic!Child(ppi, d)
             IN /\ child.jpol = Append(ppi.jpol, d)
                /\ child.past = Reward[problem][child.jpol]
                /\ \A pi \in FullPolicies :
                     Extends(pi, child.jpol) => Reward[problem][pi] <= child.value
  BY <1>2, ClassicChildIsBounded DEF ClassicInv
<1>4. PastRewardsExact'
  BY <1>2, <1>3 DEF ClassicInv, PastRewardsExact
<1>5. ClassicValuesBound'
  BY <1>2, <1>3 DEF ClassicInv, ClassicValuesBound
<1>6. ClassicRestIsNoBetter'
  <2>1. ASSUME NEW pi \in FullPolicies, NEW i \in pool, Extends(pi, i.jpol)
        PROVE  \E j \in pool' : Extends(pi, j.jpol)
    <3>1. CASE i # ppi
      BY <1>2, <2>1, <3>1
    <3>2. CASE i = ppi
      <4>1. /\ pi[Len(ppi.jpol) + 1] \in Rules
            /\ Extends(pi, Append(ppi.jpol, pi[Len(ppi.jpol) + 1]))
        BY <2>1, <3>2, ItemTypes, NextRuleExtends DEF ClassicInv, TypeInv, Unfinished
      <4>2. QED BY <1>2, <1>3, <4>1
    <3>3. QED BY <3>1, <3>2
  <2>2. QED BY <1>2, <2>1 DEF ClassicInv, ClassicRestIsNoBetter
<1>7. BoundIsAchieved' /\ ClassicAnswerIsBest'
  BY <1>2 DEF ClassicInv, BoundIsAchieved, ClassicAnswerIsBest
<1>8. ClassicNothingReturned'
  BY <1>2, ClassicChildren DEF ClassicInv, ClassicNothingReturned, NewPPI
<1>9. ClassicDisjoint'
  <2>1. ASSUME NEW pi \in FullPolicies, NEW d \in Rules, Extends(pi, Classic!Child(ppi, d).jpol)
        PROVE  Extends(pi, ppi.jpol) /\ pi[Len(ppi.jpol) + 1] = d
    <3>1. Extends(pi, Append(ppi.jpol, d))
      BY <1>3, <2>1
    <3>2. ppi.jpol \in Policies /\ Len(ppi.jpol) < Horizon
      BY ItemTypes DEF ClassicInv, TypeInv, Unfinished
    <3>3. QED BY <3>1, <3>2, ExtendsChild
  <2>2. ASSUME NEW i \in pool', NEW j \in pool', i # j, NEW pi \in FullPolicies,
               Extends(pi, i.jpol), Extends(pi, j.jpol)
        PROVE  FALSE
    <3>1. CASE i \in pool \ {ppi} /\ j \in pool \ {ppi}
      BY <2>2, <3>1 DEF ClassicInv, ClassicDisjoint
    <3>2. CASE i \in pool \ {ppi} /\ j \notin pool \ {ppi}
      BY <1>2, <2>1, <2>2, <3>2 DEF ClassicInv, ClassicDisjoint
    <3>3. CASE i \notin pool \ {ppi} /\ j \in pool \ {ppi}
      BY <1>2, <2>1, <2>2, <3>3 DEF ClassicInv, ClassicDisjoint
    <3>4. CASE i \notin pool \ {ppi} /\ j \notin pool \ {ppi}
      BY <1>2, <2>1, <2>2, <3>4
    <3>5. QED BY <3>1, <3>2, <3>3, <3>4
  <2>3. QED BY <2>2 DEF ClassicDisjoint
<1>10. QED BY <1>1, <1>4, <1>5, <1>6, <1>7, <1>8, <1>9 DEF ClassicInv

(* What leaves the pool at the last stage, the item and the items that are *)
(* pruned, stands for policies that are no better than the new bound.      *)
LEMMA ClassicExpandLastStageStep ==
  ASSUME Classic!SearchAssumption, ClassicInv, NEW ppi \in pool, Classic!ExpandLastStage(ppi)
  PROVE  ClassicInv'
<1>1. TypeInv'
  BY ClassicTypeInvStep DEF ClassicInv, ClassicStep
<1>2. /\ pc = "planning" /\ IsLastStage(ppi.jpol)
      /\ UNCHANGED <<problem, pc, foundPolicy, expectedReward>>
  BY ClassicExpandLastStageEffect DEF ClassicInv, TypeInv
<1>3. PICK stop, best \in Rules :
        /\ Classic!StopsAt(ppi, stop)
        /\ Classic!BestOf(ppi, stop, best)
        /\ \/ ClassicBecomesBest(ppi, Classic!LastStageChild(ppi, best, stop))
           \/ ClassicIsNoBetter(ppi, Classic!LastStageChild(ppi, best, stop))
  BY ClassicExpandLastStageEffect DEF ClassicInv, TypeInv
<1> DEFINE child == Classic!LastStageChild(ppi, best, stop)
<1>4. /\ child.jpol \in FullPolicies
      /\ child.value = Reward[problem][child.jpol]
      /\ \A pi \in FullPolicies :
           Extends(pi, ppi.jpol) => Reward[problem][pi] <= child.value
  BY <1>2, <1>3, ClassicLastStageChildIsBest DEF ClassicInv
<1>5. /\ problem \in Problems /\ maxLowerBound \in Int /\ child.value \in Int
      /\ \A i \in pool : i.value \in Int
      /\ \A pi \in FullPolicies : Reward[problem][pi] \in Int
  BY <1>4, ItemTypes, FullPolicyIsPolicy, RewardsAreIntegers DEF ClassicInv, TypeInv, TypeOK
<1> HIDE DEF child
<1>6. CASE ClassicBecomesBest(ppi, child)
  <2>1. /\ child.value > maxLowerBound
        /\ maxLowerBound' = child.value
        /\ bestJPol'.jpol = child.jpol
        /\ pool' = {i \in pool \ {ppi} : i.value > child.value}
    BY <1>6 DEF ClassicBecomesBest
  <2>2. PastRewardsExact' /\ ClassicValuesBound' /\ ClassicNothingReturned' /\ ClassicDisjoint'
    BY <1>2, <2>1 DEF ClassicInv, PastRewardsExact, ClassicValuesBound, ClassicNothingReturned, ClassicDisjoint
  <2>3. ClassicRestIsNoBetter'
    <3>1. ASSUME NEW pi \in FullPolicies, Reward[problem][pi] > child.value
          PROVE  \E j \in pool' : Extends(pi, j.jpol)
      <4>1. ~(Reward[problem][pi] <= maxLowerBound)
        BY <1>5, <2>1, <3>1
      <4>2. PICK i \in pool : Extends(pi, i.jpol)
        BY <1>2, <4>1 DEF ClassicInv, ClassicRestIsNoBetter
      <4>3. i # ppi
        BY <1>4, <1>5, <3>1, <4>2
      <4>4. i.value > child.value
        BY <1>5, <3>1, <4>2 DEF ClassicInv, ClassicValuesBound
      <4>5. QED BY <2>1, <4>2, <4>3, <4>4
    <3>2. QED BY <1>2, <1>5, <2>1, <3>1 DEF ClassicRestIsNoBetter
  <2>4. BoundIsAchieved' /\ ClassicAnswerIsBest'
    BY <1>2, <1>4, <2>1 DEF BoundIsAchieved, ClassicAnswerIsBest
  <2>5. QED BY <1>1, <2>2, <2>3, <2>4 DEF ClassicInv
<1>7. CASE ClassicIsNoBetter(ppi, child)
  <2>1. /\ child.value <= maxLowerBound
        /\ pool' = pool \ {ppi}
        /\ UNCHANGED <<maxLowerBound, bestJPol>>
    BY <1>7 DEF ClassicIsNoBetter
  <2>2. PastRewardsExact' /\ ClassicValuesBound' /\ ClassicNothingReturned' /\ ClassicDisjoint'
    BY <1>2, <2>1 DEF ClassicInv, PastRewardsExact, ClassicValuesBound, ClassicNothingReturned, ClassicDisjoint
  <2>3. ClassicRestIsNoBetter'
    <3>1. ASSUME NEW pi \in FullPolicies, Extends(pi, ppi.jpol)
          PROVE  Reward[problem][pi] <= maxLowerBound
      BY <1>4, <1>5, <2>1, <3>1
    <3>2. QED BY <1>2, <2>1, <3>1 DEF ClassicInv, ClassicRestIsNoBetter
  <2>4. BoundIsAchieved' /\ ClassicAnswerIsBest'
    BY <1>2, <2>1 DEF ClassicInv, BoundIsAchieved, ClassicAnswerIsBest
  <2>5. QED BY <1>1, <2>2, <2>3, <2>4 DEF ClassicInv
<1>8. QED BY <1>3, <1>6, <1>7 DEF child

(* Every action keeps the inductive invariant.                             *)
LEMMA ClassicInvStep ==
  ASSUME Classic!SearchAssumption, ClassicInv, ClassicStep
  PROVE  ClassicInv'
<1>1. TypeInv'
  BY ClassicTypeInvStep DEF ClassicInv
<1>2. CASE DeadlineExceeded
  BY <1>1, <1>2
  DEF DeadlineExceeded, ClassicInv, PastRewardsExact, ClassicValuesBound, ClassicRestIsNoBetter,
      ClassicNothingReturned, ClassicDisjoint, BoundIsAchieved, ClassicAnswerIsBest
<1>3. CASE UNCHANGED vars
  BY <1>1, <1>3
  DEF vars, ClassicInv, PastRewardsExact, ClassicValuesBound, ClassicRestIsNoBetter, ClassicNothingReturned, ClassicDisjoint,
      BoundIsAchieved, ClassicAnswerIsBest
<1>4. QED
  BY <1>2, <1>3, ClassicStartPlanStep, ClassicEndPlanStep, ClassicExpandStageStep, ClassicExpandLastStageStep
  DEF ClassicStep

(* Items stand for disjoint sets of policies, all below them.              *)
LEMMA ClassicInvImpliesPool ==
  ASSUME Classic!SearchAssumption, ClassicInv
  PROVE  PastRewardsExact /\ BoundIsAchieved /\ NoPolicyTwiceInPool /\ NoBetterPolicyLost
<1> SUFFICES NoPolicyTwiceInPool /\ NoBetterPolicyLost
  BY DEF ClassicInv
<1>1. NoPolicyTwiceInPool
  BY DEF ClassicInv, ClassicDisjoint, NoPolicyTwiceInPool, Below
<1>2. ASSUME NEW pi \in FullPolicies, NEW i \in pool, Extends(pi, i.jpol)
      PROVE  pi \in Below(i) /\ Reward[problem][pi] <= i.value + Slack
  <2>1. pi[Len(i.jpol) + 1] \in Rules
    BY <1>2, ItemTypes, NextRuleExtends DEF ClassicInv, TypeInv, Unfinished
  <2>2. pi \in Below(i)
    BY <1>2, <2>1 DEF Below, ClassicInv, ClassicNothingReturned
  <2>3. Reward[problem][pi] <= i.value /\ i.value \in Int
    BY <1>2, ItemTypes DEF ClassicInv, TypeInv, ClassicValuesBound
  <2>4. QED BY <2>2, <2>3, Classic!SearchAssumption
<1>3. NoBetterPolicyLost
  BY <1>2 DEF ClassicInv, ClassicRestIsNoBetter, NoBetterPolicyLost
<1>4. QED BY <1>1, <1>3

(* The best policy found is what Plan() delivers, and it is optimal.       *)
LEMMA ClassicInvImpliesResult == ClassicInv => ResultIsAchieved /\ ResultIsOptimal
<1> SUFFICES ASSUME ClassicInv, pc = "ended"
             PROVE  ResultIsAchieved /\ ResultIsOptimal
  BY DEF ResultIsAchieved, ResultIsOptimal
<1>1. /\ expectedReward = maxLowerBound /\ foundPolicy = bestJPol
      /\ \A pi \in FullPolicies : Reward[problem][pi] <= maxLowerBound
  BY DEF ClassicInv, ClassicAnswerIsBest
<1>2. PICK pi \in FullPolicies : TRUE
  BY FullPolicyExists
<1>3. MinusMax < Reward[problem][pi] /\ Reward[problem][pi] \in Int
  BY FullPolicyIsPolicy, RewardsAreIntegers, ProblemsAssumption DEF ClassicInv, TypeInv, TypeOK
<1>4. maxLowerBound # MinusMax
  BY <1>1, <1>3, ParametersAssumption DEF ClassicInv, TypeInv, TypeOK
<1>5. bestJPol.jpol \in FullPolicies /\ Reward[problem][bestJPol.jpol] = maxLowerBound
  BY <1>4 DEF ClassicInv, BoundIsAchieved
<1>6. foundPolicy # Null
  BY <1>1, PlannerAssumption DEF ClassicInv, TypeInv, TypeOK
<1>7. QED BY <1>1, <1>5, <1>6 DEF ResultIsAchieved, ResultIsOptimal, IsOptimalValue

(* So it holds of every reachable state.                                   *)
LEMMA ClassicInvariance ==
  Classic!SearchAssumption => (Classic!Spec => []ClassicInv)
<1> SUFFICES ASSUME Classic!SearchAssumption PROVE Classic!Spec => []ClassicInv
  OBVIOUS
<1>1. Classic!Init => ClassicInv
  BY ClassicStart, ClassicInvInit
<1>2. ClassicInv /\ [Classic!Next]_(Classic!vars) => ClassicInv'
  BY ClassicNext, ClassicInvStep
<1>3. QED BY <1>1, <1>2, PTL DEF Classic!Spec

(* The lower bound that prunes the pool is the reward of the policy that   *)
(* is kept with it, and the past rewards the bounds are made of are exact. *)
THEOREM ClassicBoundsAreExact ==
  Classic!SearchAssumption => (Classic!Spec => [](BoundIsAchieved /\ PastRewardsExact))
<1> SUFFICES ASSUME Classic!SearchAssumption PROVE Classic!Spec => [](BoundIsAchieved /\ PastRewardsExact)
  OBVIOUS
<1>1. ClassicInv => BoundIsAchieved /\ PastRewardsExact
  BY ClassicInvImpliesPool
<1>2. QED BY <1>1, ClassicInvariance, PTL

(* In particular the past rewards that items carry are exact.              *)
THEOREM ClassicPastRewards ==
  Classic!SearchAssumption => (Classic!Spec => []PastRewardsExact)
<1> SUFFICES ASSUME Classic!SearchAssumption PROVE Classic!Spec => []PastRewardsExact
  OBVIOUS
<1>1. QED BY ClassicBoundsAreExact, PTL

(* The pool keeps every policy that is better than the best one found, and *)
(* keeps none twice.                                                       *)
THEOREM ClassicPoolKeepsBetterPolicies ==
  Classic!SearchAssumption => (Classic!Spec => [](NoBetterPolicyLost /\ NoPolicyTwiceInPool))
<1> SUFFICES ASSUME Classic!SearchAssumption PROVE Classic!Spec => [](NoBetterPolicyLost /\ NoPolicyTwiceInPool)
  OBVIOUS
<1>1. ClassicInv => NoBetterPolicyLost /\ NoPolicyTwiceInPool
  BY ClassicInvImpliesPool
<1>2. QED BY <1>1, ClassicInvariance, PTL

(* A Plan() that returns has stored an optimal policy and its value.       *)
THEOREM ClassicOptimality ==
  Classic!SearchAssumption => (Classic!Spec => [](ResultIsAchieved /\ ResultIsOptimal))
<1> SUFFICES ASSUME Classic!SearchAssumption PROVE Classic!Spec => [](ResultIsAchieved /\ ResultIsOptimal)
  OBVIOUS
<1>1. ClassicInv => ResultIsAchieved /\ ResultIsOptimal
  BY ClassicInvImpliesResult
<1>2. QED BY <1>1, ClassicInvariance, PTL

-----------------------------------------------------------------------------
(***************************************************************************)
(* Refinement.  The lower bound is the incumbent of the abstract search;   *)
(* expansions before the last stage, and the ones that find nothing        *)
(* better, are stutters.                                                   *)
(***************************************************************************)

(* An idle planner is an idle search.                                      *)
LEMMA ClassicRefinementInit == Init => Search!Init
BY DEF Init, Search!Init

(* Every step of the planner is a step of the search or a stutter.         *)
LEMMA ClassicRefinementStep ==
  ASSUME Classic!SearchAssumption, ClassicInv, ClassicStep
  PROVE  [Search!Next]_(Search!searchVars)
<1>1. CASE StartPlan
  BY <1>1 DEF StartPlan, Search!Next, Search!Begin
<1>2. CASE DeadlineExceeded
  BY <1>2 DEF DeadlineExceeded, Search!Next, Search!GiveUp
<1>3. CASE EndPlan
  <2>1. ClassicInv'
    BY ClassicInvStep
  <2>2. pc = "planning" /\ pc' = "ended" /\ UNCHANGED <<problem, bestJPol, maxLowerBound>>
    BY <1>3 DEF EndPlan
  <2>3. ResultIsOptimal'
    BY <2>1, ClassicInvImpliesResult, PTL
  <2>4. IsOptimalValue(problem, maxLowerBound) /\ expectedReward' = maxLowerBound
    BY <1>3, <2>2, <2>3 DEF ResultIsOptimal, EndPlan, IsOptimalValue
  <2>5. problem \in Problems
    BY DEF ClassicInv, TypeInv, TypeOK
  <2>6. Search!Answer
    BY <2>2, <2>4, <2>5 DEF Search!Answer, IsOptimalValue
  <2>7. QED BY <2>6 DEF Search!Next
<1>4. ASSUME NEW ppi \in pool, Classic!ExpandStage(ppi) PROVE UNCHANGED Search!searchVars
  BY <1>4, ClassicExpandStageEffect DEF Search!searchVars
<1>5. ASSUME NEW ppi \in pool, Classic!ExpandLastStage(ppi)
      PROVE  Search!Improve \/ UNCHANGED Search!searchVars
  <2>1. pc = "planning" /\ UNCHANGED <<problem, pc, foundPolicy, expectedReward>>
    BY <1>5, ClassicExpandLastStageEffect DEF ClassicInv, TypeInv
  <2>2. PICK stop, best \in Rules :
          /\ Classic!StopsAt(ppi, stop)
          /\ Classic!BestOf(ppi, stop, best)
          /\ \/ ClassicBecomesBest(ppi, Classic!LastStageChild(ppi, best, stop))
             \/ ClassicIsNoBetter(ppi, Classic!LastStageChild(ppi, best, stop))
    BY <1>5, ClassicExpandLastStageEffect DEF ClassicInv, TypeInv
  <2>3. CASE ClassicIsNoBetter(ppi, Classic!LastStageChild(ppi, best, stop))
    BY <2>1, <2>3 DEF ClassicIsNoBetter, Search!searchVars
  <2>4. CASE ClassicBecomesBest(ppi, Classic!LastStageChild(ppi, best, stop))
    <3>1. maxLowerBound' > maxLowerBound
      BY <2>4 DEF ClassicBecomesBest
    <3>2. IsLastStage(ppi.jpol)
      BY <1>5, ClassicExpandLastStageEffect DEF ClassicInv, TypeInv
    <3>3. PICK pi \in FullPolicies : Reward[problem][pi] = maxLowerBound'
      BY <2>2, <2>4, <3>2, ClassicLastStageChildIsBest DEF ClassicInv, ClassicBecomesBest
    <3>4. problem \in Problems
      BY DEF ClassicInv, TypeInv, TypeOK
    <3>5. Search!Improve
      BY <2>1, <3>1, <3>3, <3>4 DEF Search!Improve
    <3>6. QED BY <3>5
  <2>5. QED BY <2>2, <2>3, <2>4
<1>6. CASE UNCHANGED vars
  BY <1>6 DEF vars, Search!searchVars
<1>7. QED BY <1>1, <1>2, <1>3, <1>4, <1>5, <1>6 DEF ClassicStep, Search!Next

(* MAAstarClassic implements the optimal search, apart from its liveness.  *)
THEOREM ClassicImplementsOptimalSearch ==
  Classic!SearchAssumption => (Classic!Spec => Search!SafeSpec)
<1> SUFFICES ASSUME Classic!SearchAssumption PROVE Classic!Spec => Search!SafeSpec
  OBVIOUS
<1>1. Classic!Init => Search!Init
  BY ClassicStart, ClassicRefinementInit
<1>2. ClassicInv /\ [Classic!Next]_(Classic!vars) => [Search!Next]_(Search!searchVars)
  BY ClassicNext, ClassicRefinementStep
<1>3. QED BY <1>1, <1>2, ClassicInvariance, PTL DEF Classic!Spec, Search!SafeSpec
================================================================================
