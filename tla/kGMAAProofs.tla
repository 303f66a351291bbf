----------------------------- MODULE kGMAAProofs -------------------------------
(***************************************************************************)
(* What k-GMAA promises for every horizon, every k, every BG solver and    *)
(* every heuristic: a result that is the exact value of the policy that    *)
(* comes with it, found in a pool of at most k^t policies of depth t.      *)
(***************************************************************************)
EXTENDS kGMAA, GMAAProofs, FiniteSetTheorems, WellFoundedInduction

-----------------------------------------------------------------------------
(***************************************************************************)
(* Induction.                                                              *)
(***************************************************************************)

(* A set that holds 0 and is closed under successor up to m holds 0..m.    *)
LEMMA IntervalInduction ==
  ASSUME NEW m \in Nat, NEW S, 0 \in S, \A t \in 0..m-1 : t \in S => t + 1 \in S
  PROVE  0..m \subseteq S
<1> SUFFICES ASSUME ~(0..m \subseteq S) PROVE FALSE
  OBVIOUS
<1> DEFINE T == (0..m) \ S
<1>1. PICK t \in T : \A s \in T : <<s, t>> \notin OpToRel(<, Nat)
  <2>1. T \subseteq Nat /\ T # {}
    OBVIOUS
  <2> HIDE DEF T
  <2>2. QED BY <2>1, NatLessThanWellFounded, WFMin
<1>2. t # 0 /\ t - 1 \in 0..m-1 /\ (t - 1) + 1 = t
  OBVIOUS
<1>3. t - 1 \in T /\ <<t - 1, t>> \in OpToRel(<, Nat)
  BY <1>1, <1>2 DEF OpToRel
<1>4. QED BY <1>1, <1>3

(* A finite set of integers that is not empty has a greatest element.      *)
LEMMA FiniteSetHasGreatest ==
  ASSUME NEW S, IsFiniteSet(S), S \subseteq Int, S # {}
  PROVE  \E g \in S : \A x \in S : x <= g
<1> DEFINE Above == [x \in S |-> {y \in S : y > x}]
           T == {Above[x] : x \in S}
<1>1. /\ \A x \in S : Above[x] \in SUBSET S
      /\ \A x, y \in S : y \in Above[x] <=> y > x
  OBVIOUS
<1> HIDE DEF Above
<1>2. T \subseteq FiniteSubsetsOf(S) /\ T # {}
  <2>1. FiniteSubsetsOf(S) = SUBSET S
    BY FS_FiniteSubsetsOfFinite
  <2>2. T \subseteq SUBSET S
    BY <1>1
  <2>3. \A x \in S : Above[x] \in T
    OBVIOUS
  <2>4. T # {}
    BY <2>3
  <2>5. QED BY <2>1, <2>2, <2>4
<1>3. PICK U \in T : \A V \in T : <<V, U>> \notin StrictSubsetOrdering(S)
  <2> HIDE DEF T
  <2>1. QED BY <1>2, FS_StrictSubsetOrderingWellFounded, WFMin
<1>4. PICK g \in S : U = Above[g]
  BY <1>3
<1>5. ASSUME NEW x \in S, ~(x <= g) PROVE FALSE
  <2>1. x \in Int /\ g \in Int /\ \A y \in S : y \in Int
    BY <1>4
  <2>2. \A y \in S : y > x => y > g
    BY <1>5, <2>1
  <2>3. Above[x] \subseteq Above[g] /\ x \in Above[g] /\ x \notin Above[x]
    <3>1. x > g /\ ~(x > x)
      BY <1>5, <2>1
    <3>2. Above[x] \subseteq S
      BY <1>1
    <3>3. \A y \in Above[x] : y \in Above[g]
      BY <1>1, <1>4, <2>2, <3>2
    <3>4. QED BY <1>1, <1>4, <3>1, <3>3
  <2>4. <<Above[x], Above[g]>> \in StrictSubsetOrdering(S)
    BY <1>1, <1>4, <2>3 DEF StrictSubsetOrdering
  <2>5. QED BY <1>3, <1>4, <2>4
<1>6. QED BY <1>4, <1>5

-----------------------------------------------------------------------------
(***************************************************************************)
(* What an expansion does.                                                 *)
(***************************************************************************)

(* Before the last stage an item gives way to at most k of its children.   *)
ExpandStage(ppi, s) ==
  LET next == {Child(ppi, d) : d \in s}
  IN /\ ~IsLastStage(ppi.jpol)
     /\ \E best \in KBest(next) :
          FinishIteration(ppi, {}, next, FALSE, AtLeast(best, maxLowerBound - Slack))

ExpandLastStage(ppi, s) ==
  /\ IsLastStage(ppi.jpol)
  /\ FinishIteration(ppi, {}, {Child(ppi, d) : d \in s}, TRUE, {})

(* Every expansion is one of the two.                                      *)
LEMMA ExpandCases ==
  Expand => /\ pc = "planning"
            /\ \E ppi \in pool : \E s \in Solutions(ppi) :
                 ExpandStage(ppi, s) \/ ExpandLastStage(ppi, s)
BY DEF Expand, Selected, ExpandStage, ExpandLastStage

(* Children are items, of the depth below that of their parent.            *)
LEMMA ChildrenAreItems ==
  ASSUME TypeInv, NEW ppi \in pool, NEW s \in SUBSET Rules
  PROVE  /\ {Child(ppi, d) : d \in s} \in SUBSET Items
         /\ \A i \in {Child(ppi, d) : d \in s} : Len(i.jpol) = Len(ppi.jpol) + 1
         /\ Len(ppi.jpol) \in 0..Horizon-1
<1>1. ppi.jpol \in Policies /\ ppi.past \in Int /\ Len(ppi.jpol) < Horizon /\ problem \in Problems
  BY ItemTypes DEF TypeInv, Unfinished
<1>2. ASSUME NEW d \in Rules
      PROVE  Child(ppi, d) \in Items /\ Len(Child(ppi, d).jpol) = Len(ppi.jpol) + 1
  <2>1. Append(ppi.jpol, d) \in Policies /\ Len(Append(ppi.jpol, d)) = Len(ppi.jpol) + 1
    BY <1>1, AppendIsPolicy
  <2>2. /\ ppi.past + ImmediateReward(problem, ppi.jpol, d) \in Int
        /\ HeuristicValue(problem, ppi.jpol, ppi.past, d) \in Int
    BY <1>1, HeuristicValueIsInteger
  <2>3. QED BY <2>1, <2>2 DEF Child, NewPPI, Items
<1>3. Len(ppi.jpol) \in 0..Horizon-1
  BY <1>1, PolicyIsSequence, ParametersAssumption
<1>4. QED BY <1>2, <1>3

(* Every action keeps the types.                                           *)
LEMMA TypeInvStep == TypeInv /\ [Next]_vars => TypeInv'
<1> SUFFICES ASSUME TypeInv, [Next]_vars PROVE TypeInv'
  OBVIOUS
<1>1. CASE StartPlan
  BY <1>1, StartPlanTypes
<1>2. CASE EndPlan \/ DeadlineExceeded
  BY <1>2, EndTypes
<1>3. CASE Expand
  <2>1. PICK ppi \in pool : \E s \in Solutions(ppi) : ExpandStage(ppi, s) \/ ExpandLastStage(ppi, s)
    BY <1>3, ExpandCases
  <2>2. PICK s \in SUBSET Rules : ExpandStage(ppi, s) \/ ExpandLastStage(ppi, s)
    BY <2>1 DEF Solutions
  <2> DEFINE next == {Child(ppi, d) : d \in s}
  <2>3. /\ next \in SUBSET Items
        /\ \A i \in next : Len(i.jpol) = Len(ppi.jpol) + 1
        /\ Len(ppi.jpol) \in 0..Horizon-1
    BY ChildrenAreItems
  <2>4. CASE ExpandLastStage(ppi, s)
    <3>1. FinishIteration(ppi, {}, next, TRUE, {})
      BY <2>4 DEF ExpandLastStage
    <3> HIDE DEF next
    <3>2. QED BY <2>3, <3>1, FinishIterationTypes
  <2>5. CASE ExpandStage(ppi, s)
    <3>1. PICK best \in KBest(next) :
            FinishIteration(ppi, {}, next, FALSE, AtLeast(best, maxLowerBound - Slack))
      BY <2>5 DEF ExpandStage
    <3> DEFINE further == AtLeast(best, maxLowerBound - Slack)
    <3>2. further \subseteq next
      BY DEF AtLeast, KBest
    <3>6. FinishIteration(ppi, {}, next, FALSE, further)
      BY <3>1
    <3>3. Len(ppi.jpol) + 1 < Horizon
      BY <2>3, <2>5, ParametersAssumption DEF ExpandStage, IsLastStage, Stage
    <3> HIDE DEF next, further
    <3>4. further \in SUBSET Items /\ \A i \in {} \cup further : Len(i.jpol) < Horizon
      BY <2>3, <3>2, <3>3
    <3>5. QED BY <3>4, <3>6, <2>3, FinishIterationTypes
  <2>6. QED BY <2>2, <2>4, <2>5
<1>4. CASE UNCHANGED vars
  BY <1>4 DEF vars, TypeInv, TypeOK, Unfinished
<1>5. QED BY <1>1, <1>2, <1>3, <1>4 DEF Next

(* Every variable of the planner keeps its type.                           *)
THEOREM TypeCorrect == Spec => []TypeOK
<1>1. TypeInv => TypeOK
  BY DEF TypeInv
<1>2. QED BY <1>1, TypeInvInit, TypeInvStep, PTL DEF Spec

-----------------------------------------------------------------------------
(***************************************************************************)
(* The result.  Plan() always ends with a complete policy: while there is  *)
(* none, the lower bound is -DBL_MAX, so that the solver returns something *)
(* and nothing is pruned, and the pool does not run empty.                 *)
(***************************************************************************)

(* No value of the pool is below -DBL_MAX.                                 *)
ValuesAreNumbers == \A i \in pool : MinusMax <= i.value

SomethingLeft == pc = "planning" => pool # {} \/ maxLowerBound # MinusMax

BestIsExact ==
  maxLowerBound # MinusMax =>
    /\ bestJPol.jpol \in FullPolicies
    /\ Reward[problem][bestJPol.jpol] = maxLowerBound
    /\ bestJPol.past = maxLowerBound

AnswerIsBest ==
  pc = "ended" =>
    /\ foundPolicy = bestJPol
    /\ expectedReward = maxLowerBound
    /\ maxLowerBound # MinusMax

ResultInv ==
  /\ TypeInv
  /\ PastRewardsExact
  /\ ValuesAreNumbers
  /\ SomethingLeft
  /\ BestIsExact
  /\ AnswerIsBest

(* Children carry their exact past reward, a value that is a number, and   *)
(* at the last stage their reward as their value.                          *)
LEMMA ChildIsExact ==
  ASSUME TypeInv, PastRewardsExact, NEW ppi \in pool, NEW d \in Rules
  PROVE  LET child == Child(ppi, d)
         IN /\ child.past = Reward[problem][child.jpol]
            /\ MinusMax <= child.value
            /\ IsLastStage(ppi.jpol) => /\ child.jpol \in FullPolicies
                                        /\ child.value = child.past
                                        /\ MinusMax < child.value
<1> DEFINE child == Child(ppi, d)
           past == ppi.past + ImmediateReward(problem, ppi.jpol, d)
<1>1. ppi.jpol \in Policies /\ Len(ppi.jpol) < Horizon /\ problem \in Problems
  BY ItemTypes DEF TypeInv, Unfinished
<1>2. Append(ppi.jpol, d) \in Policies
  BY <1>1, AppendIsPolicy
<1>3. Reward[problem][ppi.jpol] \in Int /\ Reward[problem][Append(ppi.jpol, d)] \in Int
  BY <1>1, <1>2, RewardsAreIntegers
<1>4. ppi.past = Reward[problem][ppi.jpol]
  BY DEF PastRewardsExact
<1>5. past = Reward[problem][Append(ppi.jpol, d)]
  BY <1>3, <1>4 DEF ImmediateReward
<1>6. /\ child.jpol = Append(ppi.jpol, d)
      /\ child.past = past
      /\ child.value = IF IsLastStage(ppi.jpol) THEN past
                       ELSE HeuristicValue(problem, ppi.jpol, ppi.past, d)
  BY DEF Child, NewPPI
<1>7. MinusMax <= HeuristicValue(problem, ppi.jpol, ppi.past, d)
  BY <1>1, <1>4, ValuesAssumption
<1>8. CASE IsLastStage(ppi.jpol)
  <2>1. Append(ppi.jpol, d) \in FullPolicies
    BY <1>1, <1>8, AppendIsPolicy
  <2>2. MinusMax < Reward[problem][Append(ppi.jpol, d)]
    BY <1>1, <2>1, ProblemsAssumption
  <2>3. QED BY <1>3, <1>5, <1>6, <1>8, <2>1, <2>2, ParametersAssumption
<1>9. CASE ~IsLastStage(ppi.jpol)
  BY <1>5, <1>6, <1>7, <1>9
<1>10. QED BY <1>8, <1>9

(* The solver returns something while there is no lower bound.             *)
LEMMA SolutionsWithoutBound ==
  ASSUME TypeInv, PastRewardsExact, NEW ppi \in pool, NEW s \in Solutions(ppi),
         maxLowerBound = MinusMax
  PROVE  s # {}
<1> SUFFICES ASSUME s = {} PROVE FALSE
  OBVIOUS
<1>1. ppi.jpol \in Policies /\ Len(ppi.jpol) < Horizon /\ problem \in Problems
  BY ItemTypes DEF TypeInv, Unfinished
<1>2. 0 \in Rules
  BY ParametersAssumption DEF Rules
<1> DEFINE payoff == Discounted(problem, 0, Payoff[problem][Append(ppi.jpol, 0)])
<1>3. payoff < MinusMax - ppi.past
  BY <1>2 DEF Solutions, CBGLowerBound
<1>4. ppi.past = Reward[problem][ppi.jpol]
  BY DEF PastRewardsExact
<1>5. MinusMax <= ppi.past + payoff
  BY <1>1, <1>2, <1>4, ValuesAssumption
<1>6. payoff \in Int
  <2>1. Append(ppi.jpol, 0) \in Policies
    BY <1>1, <1>2, AppendIsPolicy
  <2>2. Payoff[problem][Append(ppi.jpol, 0)] \in Int
    BY <1>1, <2>1, RewardsAreIntegers
  <2>3. 0 \in 0..Horizon-1
    BY ParametersAssumption
  <2>4. Weight[problem][0] \in Int
    BY <1>1, <2>3, WeightsArePositive
  <2>5. QED BY <2>2, <2>4 DEF Discounted
<1>7. ppi.past \in Int
  BY ItemTypes DEF TypeInv
<1> HIDE DEF payoff
<1>8. QED BY <1>3, <1>5, <1>6, <1>7, ParametersAssumption

(* It holds before the first call of Plan().                               *)
LEMMA ResultInvInit == Init => ResultInv
BY TypeInvInit
DEF Init, ResultInv, PastRewardsExact, ValuesAreNumbers, SomethingLeft, BestIsExact, AnswerIsBest

(* A call of Plan() begins with the empty policy, whose value is DBL_MAX.  *)
LEMMA StartPlanResult == ResultInv /\ StartPlan => ResultInv'
<1> SUFFICES ASSUME ResultInv, StartPlan PROVE ResultInv'
  OBVIOUS
<1> DEFINE root == NewPPI(EmptyPolicy, 0, PlusMax)
<1>1. TypeInv'
  BY TypeInvStep DEF ResultInv, Next
<1>2. /\ pool' = {root} /\ problem' = problem /\ pc' = "planning"
      /\ maxLowerBound' = MinusMax
      /\ root.jpol = EmptyPolicy /\ root.past = 0 /\ root.value = PlusMax
  BY DEF StartPlan, NewPPI
<1>3. problem \in Problems
  BY DEF ResultInv, TypeInv, TypeOK
<1>4. PastRewardsExact'
  BY <1>2, <1>3, ProblemsAssumption DEF PastRewardsExact
<1>5. MinusMax <= PlusMax
  <2>1. PICK pi \in FullPolicies : TRUE
    BY FullPolicyExists
  <2>2. /\ MinusMax < Reward[problem][pi] /\ Reward[problem][pi] < PlusMax
        /\ Reward[problem][pi] \in Int
    BY <1>3, FullPolicyIsPolicy, RewardsAreIntegers, ProblemsAssumption
  <2>3. QED BY <2>2, ParametersAssumption
<1>6. ValuesAreNumbers' /\ SomethingLeft' /\ BestIsExact' /\ AnswerIsBest'
  BY <1>2, <1>5 DEF ValuesAreNumbers, SomethingLeft, BestIsExact, AnswerIsBest
<1>7. QED BY <1>1, <1>4, <1>6 DEF ResultInv

(* It ends with a policy: with no bound the pool is not empty, and no item *)
(* of it has a value below the bound.                                      *)
LEMMA EndPlanResult == ResultInv /\ EndPlan => ResultInv'
<1> SUFFICES ASSUME ResultInv, EndPlan PROVE ResultInv'
  OBVIOUS
<1>1. TypeInv'
  BY EndTypes DEF ResultInv
<1>2. /\ pc = "planning" /\ pc' = "ended"
      /\ pool = {} \/ BoundsCrossed
      /\ foundPolicy' = bestJPol /\ expectedReward' = maxLowerBound
      /\ UNCHANGED <<problem, pool, bestJPol, maxLowerBound>>
  BY DEF EndPlan
<1>3. maxLowerBound # MinusMax
  <2>1. CASE pool = {}
    BY <1>2, <2>1 DEF ResultInv, SomethingLeft
  <2>2. CASE BoundsCrossed
    <3>1. PICK top \in pool : top.value + Slack < maxLowerBound
      BY <2>2 DEF BoundsCrossed, PP!Select
    <3>2. MinusMax <= top.value /\ top.value \in Int
      BY ItemTypes DEF ResultInv, TypeInv, ValuesAreNumbers
    <3>3. QED BY <3>1, <3>2, PlannerAssumption, ParametersAssumption
  <2>3. QED BY <1>2, <2>1, <2>2
<1>4. AnswerIsBest'
  BY <1>2, <1>3 DEF AnswerIsBest
<1>5. PastRewardsExact' /\ ValuesAreNumbers' /\ SomethingLeft' /\ BestIsExact'
  BY <1>2 DEF ResultInv, PastRewardsExact, ValuesAreNumbers, SomethingLeft, BestIsExact
<1>6. QED BY <1>1, <1>4, <1>5 DEF ResultInv

(* Before the last stage no bound changes; without one, children are left. *)
LEMMA ExpandStageResult ==
  ASSUME ResultInv, pc = "planning", NEW ppi \in pool, NEW s \in Solutions(ppi),
         ExpandStage(ppi, s), TypeInv'
  PROVE  ResultInv'
<1> DEFINE next == {Child(ppi, d) : d \in s}
<1>1. s \subseteq Rules
  BY DEF Solutions
<1>2. next \in SUBSET Items /\ \A i \in next : i.value \in Int
  <2>1. next \in SUBSET Items
    BY <1>1, ChildrenAreItems DEF ResultInv
  <2> HIDE DEF next
  <2>2. QED BY <2>1 DEF Items
<1>3. PICK best \in KBest(next) :
        FinishIteration(ppi, {}, next, FALSE, AtLeast(best, maxLowerBound - Slack))
  BY DEF ExpandStage
<1> DEFINE further == AtLeast(best, maxLowerBound - Slack)
<1>4. FinishIteration(ppi, {}, next, FALSE, further)
  BY <1>3
<1>5. best \subseteq next /\ further \subseteq next
  BY DEF KBest, AtLeast
<1>6. \A i \in next : i.past = Reward[problem][i.jpol] /\ MinusMax <= i.value
  BY <1>1, ChildIsExact DEF ResultInv
<1>7. maxLowerBound = MinusMax => further # {}
  <2> SUFFICES ASSUME maxLowerBound = MinusMax PROVE further # {}
    OBVIOUS
  <2>1. s # {}
    BY SolutionsWithoutBound DEF ResultInv
  <2>2. next # {}
    BY <2>1
  <2>3. best # {}
    BY <2>2, FS_EmptySet, NrPoliciesToProcessAssumption DEF KBest
  <2>4. PICK i \in best : TRUE
    BY <2>3
  <2>5. i.value >= maxLowerBound - Slack
    BY <1>2, <1>5, <1>6, PlannerAssumption, ParametersAssumption
  <2>6. QED BY <2>4, <2>5 DEF AtLeast
<1> HIDE DEF next, further
<1>8. /\ UNCHANGED <<problem, pc, foundPolicy, expectedReward, maxLowerBound, bestJPol>>
      /\ pool' = (pool \ {ppi}) \cup further
  <2>1. UNCHANGED <<problem, pc, foundPolicy, expectedReward>> /\ Keeps(ppi, {}, further)
    BY <1>2, <1>4, FinishIterationEffect DEF ResultInv, TypeInv
  <2>2. QED BY <2>1 DEF Keeps
<1>9. PastRewardsExact' /\ ValuesAreNumbers'
  BY <1>5, <1>6, <1>8 DEF ResultInv, PastRewardsExact, ValuesAreNumbers
<1>10. SomethingLeft' /\ BestIsExact' /\ AnswerIsBest'
  BY <1>7, <1>8 DEF ResultInv, SomethingLeft, BestIsExact, AnswerIsBest
<1>11. QED BY <1>9, <1>10 DEF ResultInv

(* At the last stage the best child becomes the best policy when its       *)
(* reward is above the bound, as any reward is when there is none.         *)
LEMMA ExpandLastStageResult ==
  ASSUME ResultInv, pc = "planning", NEW ppi \in pool, NEW s \in Solutions(ppi),
         ExpandLastStage(ppi, s), TypeInv'
  PROVE  ResultInv'
<1> DEFINE next == {Child(ppi, d) : d \in s}
<1>1. s \subseteq Rules
  BY DEF Solutions
<1>2. next \in SUBSET Items /\ \A i \in next : i.value \in Int
  <2>1. next \in SUBSET Items
    BY <1>1, ChildrenAreItems DEF ResultInv
  <2> HIDE DEF next
  <2>2. QED BY <2>1 DEF Items
<1>3. FinishIteration(ppi, {}, next, TRUE, {}) /\ IsLastStage(ppi.jpol)
  BY DEF ExpandLastStage
<1>4. \A i \in next : /\ i.jpol \in FullPolicies
                      /\ i.past = Reward[problem][i.jpol]
                      /\ i.value = i.past
                      /\ MinusMax < i.value
  BY <1>1, <1>3, ChildIsExact DEF ResultInv
<1>5. maxLowerBound = MinusMax => Improves(next)
  <2> SUFFICES ASSUME maxLowerBound = MinusMax PROVE Improves(next)
    OBVIOUS
  <2>1. s # {}
    BY SolutionsWithoutBound DEF ResultInv
  <2> DEFINE values == {Child(ppi, d).value : d \in s}
  <2>2. values \subseteq Int /\ values # {}
    BY <1>2, <2>1
  <2>3. IsFiniteSet(values)
    <3>1. IsFiniteSet(Rules)
      BY FS_Interval, ParametersAssumption DEF Rules
    <3>2. IsFiniteSet(s)
      BY <1>1, <3>1, FS_Subset
    <3>3. [d \in s |-> Child(ppi, d).value] \in Surjection(s, values)
      BY DEF Surjection
    <3> HIDE DEF values
    <3>4. QED BY <3>2, <3>3, FS_Surjection
  <2> HIDE DEF values
  <2>4. PICK g \in values : \A v \in values : v <= g
    BY <2>2, <2>3, FiniteSetHasGreatest
  <2>5. PICK d \in s : g = Child(ppi, d).value
    BY DEF values
  <2>6. \A j \in next : j.value <= Child(ppi, d).value
    BY <2>4, <2>5 DEF values
  <2>7. Child(ppi, d) \in PP!Select(next)
    BY <2>6 DEF PP!Select
  <2>8. Child(ppi, d).value > maxLowerBound
    BY <1>2, <1>4, ParametersAssumption
  <2>9. QED BY <2>7, <2>8 DEF Improves
<1> HIDE DEF next
<1>6. /\ UNCHANGED <<problem, pc, foundPolicy, expectedReward>>
      /\ \/ \E top \in next : Takes(top, ppi, {}, next, {})
         \/ ~Improves(next) /\ Keeps(ppi, {}, {})
  BY <1>2, <1>3, FinishIterationEffect DEF ResultInv, TypeInv
<1>7. pool' \subseteq pool
  BY <1>6 DEF Takes, Keeps
<1>8. PastRewardsExact' /\ ValuesAreNumbers'
  BY <1>6, <1>7 DEF ResultInv, PastRewardsExact, ValuesAreNumbers
<1>9. SomethingLeft' /\ BestIsExact' /\ AnswerIsBest'
  <2>1. CASE \E top \in next : Takes(top, ppi, {}, next, {})
    <3>1. PICK top \in next : Takes(top, ppi, {}, next, {})
      BY <2>1
    <3>2. /\ maxLowerBound' = top.value /\ maxLowerBound' # MinusMax
          /\ bestJPol'.jpol = top.jpol /\ bestJPol'.past = top.past
      BY <1>2, <1>4, <3>1, ParametersAssumption DEF Takes
    <3>3. QED BY <1>4, <1>6, <3>2 DEF SomethingLeft, BestIsExact, AnswerIsBest
  <2>2. CASE ~Improves(next) /\ Keeps(ppi, {}, {})
    BY <1>5, <1>6, <2>2 DEF ResultInv, Keeps, SomethingLeft, BestIsExact, AnswerIsBest
  <2>3. QED BY <1>6, <2>1, <2>2
<1>10. QED BY <1>8, <1>9 DEF ResultInv

(* Every action keeps the invariant of the result.                         *)
LEMMA ResultInvStep == ResultInv /\ [Next]_vars => ResultInv'
<1> SUFFICES ASSUME ResultInv, [Next]_vars PROVE ResultInv'
  OBVIOUS
<1>1. TypeInv'
  BY TypeInvStep DEF ResultInv
<1>2. CASE Expand
  BY <1>1, <1>2, ExpandCases, ExpandStageResult, ExpandLastStageResult
<1>3. CASE DeadlineExceeded
  BY <1>1, <1>3
  DEF DeadlineExceeded, ResultInv, PastRewardsExact, ValuesAreNumbers, SomethingLeft, BestIsExact, AnswerIsBest
<1>4. CASE UNCHANGED vars
  BY <1>1, <1>4
  DEF vars, ResultInv, PastRewardsExact, ValuesAreNumbers, SomethingLeft, BestIsExact, AnswerIsBest
<1>5. QED BY <1>2, <1>3, <1>4, StartPlanResult, EndPlanResult DEF Next

(* A Plan() that returns has stored a complete policy, with its exact      *)
(* reward as the expected reward and as its past reward.                   *)
THEOREM ResultsAreExact == Spec => [](ResultIsAchieved /\ ResultPastRewardExact)
<1>1. ResultInv => ResultIsAchieved /\ ResultPastRewardExact
  BY PlannerAssumption
  DEF ResultInv, AnswerIsBest, BestIsExact, ResultIsAchieved, ResultPastRewardExact, TypeInv, TypeOK
<1>2. QED BY <1>1, ResultInvInit, ResultInvStep, PTL DEF Spec

-----------------------------------------------------------------------------
(***************************************************************************)
(* The size of the pool.  The bound of a depth does not follow from itself *)
(* (an item may leave one depth for k of the next at any time), so the     *)
(* invariant counts n[t], the policies of depth t that the call has put in *)
(* the pool: each of them but the first is one of k children of a policy   *)
(* of the depth above that is no longer in the pool.                       *)
(***************************************************************************)

AtDepth(items, t) == {i \in items : Len(i.jpol) = t}

NrAtDepth(items, t) == Cardinality(AtDepth(items, t))

Accounts(items, n) ==
  /\ n \in [0..Horizon-1 -> Nat]
  /\ n[0] <= 1
  /\ \A t \in 0..Horizon-1 : NrAtDepth(items, t) <= n[t]
  /\ \A t \in 0..Horizon-2 :
       n[t + 1] <= NrPoliciesToProcess * (n[t] - NrAtDepth(items, t))

SizeInv == TypeInv /\ IsFiniteSet(pool) /\ \E n : Accounts(pool, n)

(* A smaller set has fewer items of a depth.                               *)
LEMMA FewerAtDepth ==
  ASSUME NEW items, IsFiniteSet(items), NEW some \in SUBSET items, NEW t
  PROVE  /\ IsFiniteSet(some)
         /\ IsFiniteSet(AtDepth(some, t))
         /\ NrAtDepth(some, t) \in Nat
         /\ NrAtDepth(items, t) \in Nat
         /\ NrAtDepth(some, t) <= NrAtDepth(items, t)
<1>1. IsFiniteSet(some)
  BY FS_Subset
<1>2. AtDepth(items, t) \in SUBSET items
  BY DEF AtDepth
<1>3. AtDepth(some, t) \in SUBSET AtDepth(items, t)
  BY DEF AtDepth
<1>4. IsFiniteSet(AtDepth(items, t))
  BY <1>2, FS_Subset
<1>5. IsFiniteSet(AtDepth(some, t)) /\ Cardinality(AtDepth(some, t)) <= Cardinality(AtDepth(items, t))
  BY <1>3, <1>4, FS_Subset
<1>6. QED BY <1>1, <1>4, <1>5, FS_CardinalityType DEF NrAtDepth

(* A product with k grows with its other factor.                           *)
LEMMA ProductGrows ==
  ASSUME NEW k \in Nat, NEW a \in Int, NEW b \in Int, a <= b
  PROVE  k * a <= k * b
OBVIOUS

(* The account of a pool is one of every pool that is part of it.          *)
LEMMA AccountOfFewer ==
  ASSUME NEW items, IsFiniteSet(items), NEW some \in SUBSET items,
         NEW n, Accounts(items, n)
  PROVE  Accounts(some, n)
<1>1. ASSUME NEW t \in 0..Horizon-1 PROVE NrAtDepth(some, t) <= n[t]
  <2>1. /\ NrAtDepth(some, t) \in Nat /\ NrAtDepth(items, t) \in Nat
        /\ NrAtDepth(some, t) <= NrAtDepth(items, t)
    BY FewerAtDepth
  <2>2. n[t] \in Nat /\ NrAtDepth(items, t) <= n[t]
    BY DEF Accounts
  <2>3. QED BY <2>1, <2>2
<1>2. ASSUME NEW t \in 0..Horizon-2
      PROVE  n[t + 1] <= NrPoliciesToProcess * (n[t] - NrAtDepth(some, t))
  <2>1. /\ NrAtDepth(some, t) \in Nat /\ NrAtDepth(items, t) \in Nat
        /\ NrAtDepth(some, t) <= NrAtDepth(items, t)
    BY FewerAtDepth
  <2>2. n[t] \in Nat /\ n[t + 1] \in Nat
    BY ParametersAssumption DEF Accounts
  <2>3. NrPoliciesToProcess * (n[t] - NrAtDepth(items, t))
          <= NrPoliciesToProcess * (n[t] - NrAtDepth(some, t))
    BY <2>1, <2>2, ProductGrows, NrPoliciesToProcessAssumption
  <2>4. n[t + 1] <= NrPoliciesToProcess * (n[t] - NrAtDepth(items, t))
    BY DEF Accounts
  <2>5. QED BY <2>1, <2>2, <2>3, <2>4, NrPoliciesToProcessAssumption
<1>3. QED BY <1>1, <1>2 DEF Accounts

(* When an item gives way to at most k of the next depth, the new items    *)
(* are added to the account of that depth.                                 *)
LEMMA AccountOfExpansion ==
  ASSUME NEW items, IsFiniteSet(items), NEW ppi \in items,
         NEW depth \in 0..Horizon-2, Len(ppi.jpol) = depth,
         NEW further, IsFiniteSet(further), Cardinality(further) <= NrPoliciesToProcess,
         \A i \in further : Len(i.jpol) = depth + 1,
         NEW n, Accounts(items, n)
  PROVE  \E m : Accounts((items \ {ppi}) \cup further, m)
<1> DEFINE new == (items \ {ppi}) \cup further
           m == [n EXCEPT ![depth + 1] = @ + Cardinality(further)]
<1>1. Cardinality(further) \in Nat
  BY FS_CardinalityType
<1>2. IsFiniteSet(new)
  BY FS_RemoveElement, FS_Union
<1>3. \A t : NrAtDepth(items, t) \in Nat /\ NrAtDepth(new, t) \in Nat /\ IsFiniteSet(AtDepth(items, t))
  BY <1>2, FewerAtDepth
<1>4. NrAtDepth(new, depth) = NrAtDepth(items, depth) - 1
  <2>1. AtDepth(new, depth) = AtDepth(items, depth) \ {ppi}
    BY DEF AtDepth
  <2>2. ppi \in AtDepth(items, depth)
    BY DEF AtDepth
  <2>3. QED BY <1>3, <2>1, <2>2, FS_RemoveElement DEF NrAtDepth
<1>5. NrAtDepth(new, depth + 1) <= NrAtDepth(items, depth + 1) + Cardinality(further)
  <2>1. AtDepth(new, depth + 1) \subseteq AtDepth(items, depth + 1) \cup further
    BY DEF AtDepth
  <2>2. /\ IsFiniteSet(AtDepth(items, depth + 1) \cup further)
        /\ Cardinality(AtDepth(items, depth + 1) \cup further)
             <= NrAtDepth(items, depth + 1) + Cardinality(further)
    <3>1. IsFiniteSet(AtDepth(items, depth + 1) \cap further)
      BY <1>3, FS_Intersection
    <3>2. Cardinality(AtDepth(items, depth + 1) \cap further) \in Nat
      BY <3>1, FS_CardinalityType
    <3>3. /\ IsFiniteSet(AtDepth(items, depth + 1) \cup further)
          /\ Cardinality(AtDepth(items, depth + 1) \cup further)
               = NrAtDepth(items, depth + 1) + Cardinality(further)
                   - Cardinality(AtDepth(items, depth + 1) \cap further)
      BY <1>3, FS_Union DEF NrAtDepth
    <3>4. QED BY <1>1, <1>3, <3>2, <3>3
  <2>3. NrAtDepth(new, depth + 1) <= Cardinality(AtDepth(items, depth + 1) \cup further)
    BY <2>1, <2>2, FS_Subset DEF NrAtDepth
  <2>4. Cardinality(AtDepth(items, depth + 1) \cup further) \in Nat
    BY <2>2, FS_CardinalityType
  <2>5. NrAtDepth(items, depth + 1) \in Nat /\ NrAtDepth(new, depth + 1) \in Nat
    BY <1>3
  <2> HIDE DEF new
  <2>6. QED BY <1>1, <2>2, <2>3, <2>4, <2>5
<1>6. ASSUME NEW t \in 0..Horizon-1, t # depth + 1
      PROVE  NrAtDepth(new, t) <= NrAtDepth(items, t)
  <2>1. AtDepth(new, t) \subseteq AtDepth(items, t)
    BY <1>6 DEF AtDepth
  <2>2. QED BY <1>3, <2>1, FS_Subset DEF NrAtDepth
<1>7. /\ n \in [0..Horizon-1 -> Nat] /\ n[0] <= 1
      /\ \A t \in 0..Horizon-1 : NrAtDepth(items, t) <= n[t]
      /\ \A t \in 0..Horizon-2 : n[t + 1] <= NrPoliciesToProcess * (n[t] - NrAtDepth(items, t))
  BY DEF Accounts
<1>8. depth + 1 \in 0..Horizon-1 /\ depth + 1 # 0 /\ depth \in 0..Horizon-1
  BY ParametersAssumption
<1>9. /\ m \in [0..Horizon-1 -> Nat]
      /\ m[depth + 1] = n[depth + 1] + Cardinality(further)
      /\ \A t \in 0..Horizon-1 : t # depth + 1 => m[t] = n[t]
  BY <1>1, <1>7, <1>8
<1>10. 0 \in 0..Horizon-1 /\ \A t \in 0..Horizon-2 : t \in 0..Horizon-1 /\ t + 1 \in 0..Horizon-1
  BY ParametersAssumption
<1>11. \A t \in 0..Horizon-1 : n[t] \in Nat /\ m[t] \in Nat
  BY <1>7, <1>9
<1> HIDE DEF new, m
<1>12. m[0] <= 1
  BY <1>7, <1>8, <1>9, <1>10
<1>13. ASSUME NEW t \in 0..Horizon-1 PROVE NrAtDepth(new, t) <= m[t]
  BY <1>1, <1>3, <1>5, <1>6, <1>7, <1>9, <1>11
<1>14. ASSUME NEW t \in 0..Horizon-2
       PROVE  m[t + 1] <= NrPoliciesToProcess * (m[t] - NrAtDepth(new, t))
  <2> DEFINE left == n[t] - NrAtDepth(items, t)
             newLeft == m[t] - NrAtDepth(new, t)
  <2>1. t \in 0..Horizon-1 /\ t + 1 \in 0..Horizon-1
    BY <1>10
  <2>2. left \in Int /\ newLeft \in Int /\ NrPoliciesToProcess \in Nat
    BY <1>3, <1>11, <2>1, NrPoliciesToProcessAssumption
  <2>3. n[t + 1] <= NrPoliciesToProcess * left
    BY <1>7
  <2>4. CASE t = depth
    <3>1. newLeft = left + 1
      BY <1>3, <1>4, <1>8, <1>9, <1>11, <2>1, <2>4
    <3>2. m[t + 1] = n[t + 1] + Cardinality(further)
      BY <1>9, <2>4
    <3> HIDE DEF left, newLeft
    <3>3. NrPoliciesToProcess * newLeft = NrPoliciesToProcess * left + NrPoliciesToProcess
      BY <2>2, <3>1
    <3>4. NrPoliciesToProcess * left \in Int /\ n[t + 1] \in Nat
      BY <1>11, <2>1, <2>2
    <3>5. m[t + 1] <= NrPoliciesToProcess * newLeft
      BY <1>1, <2>2, <2>3, <3>2, <3>3, <3>4
    <3>6. QED BY <3>5 DEF newLeft
  <2>5. CASE t # depth
    <3>1. m[t + 1] = n[t + 1]
      BY <1>9, <2>1, <2>5
    <3>2. left <= newLeft
      <4>1. /\ n[t] \in Nat /\ m[t] \in Nat /\ Cardinality(further) \in Nat
            /\ NrAtDepth(items, t) \in Nat /\ NrAtDepth(new, t) \in Nat
        BY <1>1, <1>3, <1>11, <2>1
      <4>2. CASE t = depth + 1
        <5>1. m[t] = n[t] + Cardinality(further)
          BY <1>9, <4>2
        <5>2. NrAtDepth(new, t) <= NrAtDepth(items, t) + Cardinality(further)
          BY <1>5, <4>2
        <5>3. QED BY <4>1, <5>1, <5>2
      <4>3. CASE t # depth + 1
        <5>1. m[t] = n[t]
          BY <1>9, <2>1, <4>3
        <5>2. NrAtDepth(new, t) <= NrAtDepth(items, t)
          BY <1>6, <2>1, <4>3
        <5>3. QED BY <4>1, <5>1, <5>2
      <4>4. QED BY <4>2, <4>3
    <3> HIDE DEF left, newLeft
    <3>3. NrPoliciesToProcess * left <= NrPoliciesToProcess * newLeft
      BY <2>2, <3>2, ProductGrows
    <3>4. NrPoliciesToProcess * left \in Int /\ NrPoliciesToProcess * newLeft \in Int /\ n[t + 1] \in Nat
      BY <1>11, <2>1, <2>2
    <3>5. m[t + 1] <= NrPoliciesToProcess * newLeft
      BY <2>3, <3>1, <3>3, <3>4
    <3>6. QED BY <3>5 DEF newLeft
  <2>6. QED BY <2>4, <2>5
<1>15. QED BY <1>9, <1>12, <1>13, <1>14 DEF Accounts, new

(* A pool with an account has at most k^t items of depth t.                *)
LEMMA AccountBoundsPool ==
  ASSUME NEW items, IsFiniteSet(items), NEW n, Accounts(items, n)
  PROVE  \A t \in 0..Horizon-1 : NrAtDepth(items, t) <= NrPoliciesToProcess^t
<1> DEFINE k == NrPoliciesToProcess
           Small == {t \in 0..Horizon-1 : n[t] <= k^t}
<1>1. \A t : NrAtDepth(items, t) \in Nat
  BY FewerAtDepth
<1>2. Horizon - 1 \in Nat
  BY ParametersAssumption
<1>3. 0 \in Small
  BY <1>2, PowersAssumption DEF Accounts
<1>4. ASSUME NEW t \in 0..(Horizon - 1) - 1, t \in Small PROVE t + 1 \in Small
  <2>1. t \in 0..Horizon-2 /\ t \in 0..Horizon-1 /\ t + 1 \in 0..Horizon-1
    BY ParametersAssumption
  <2>2. n[t + 1] <= k * (n[t] - NrAtDepth(items, t))
    BY <2>1 DEF Accounts
  <2>3. n[t] \in Nat /\ n[t + 1] \in Nat /\ k \in Nat /\ NrAtDepth(items, t) \in Nat
    BY <1>1, <2>1, NrPoliciesToProcessAssumption DEF Accounts
  <2>4. n[t] <= k^t /\ k^t \in Nat /\ k^(t + 1) = k * k^t
    BY <1>4, <2>1, PowersAssumption
  <2>5. n[t] - NrAtDepth(items, t) \in Int /\ n[t] - NrAtDepth(items, t) <= k^t
    BY <2>3, <2>4
  <2>6. k * (n[t] - NrAtDepth(items, t)) <= k * k^t
    BY <2>3, <2>4, <2>5, ProductGrows
  <2>7. k * (n[t] - NrAtDepth(items, t)) \in Int /\ k * k^t \in Int
    BY <2>3, <2>4, <2>5
  <2>8. n[t + 1] <= k^(t + 1)
    BY <2>2, <2>3, <2>4, <2>6, <2>7
  <2>9. QED BY <2>1, <2>8
<1>5. 0..Horizon-1 \subseteq Small
  <2> HIDE DEF Small
  <2>1. QED BY <1>2, <1>3, <1>4, IntervalInduction
<1>6. ASSUME NEW t \in 0..Horizon-1 PROVE NrAtDepth(items, t) <= k^t
  <2>1. NrAtDepth(items, t) <= n[t] /\ n[t] \in Nat /\ k^t \in Nat /\ n[t] <= k^t
    BY <1>5, PowersAssumption DEF Accounts
  <2>2. QED BY <1>1, <2>1
<1>7. QED BY <1>6

(* An empty pool, and that of a new call, have accounts.                   *)
LEMMA AccountOfRoot ==
  ASSUME NEW items, \A i \in items : i = NewPPI(EmptyPolicy, 0, PlusMax)
  PROVE  IsFiniteSet(items) /\ \E n : Accounts(items, n)
<1> DEFINE root == NewPPI(EmptyPolicy, 0, PlusMax)
           n == [t \in 0..Horizon-1 |-> IF t = 0 THEN 1 ELSE 0]
<1>1. items = {} \/ items = {root}
  OBVIOUS
<1>3. Len(root.jpol) = 0
  BY EmptyPolicyIsExtended DEF NewPPI
<1> HIDE DEF root
<1>2. IsFiniteSet(items)
  <2>1. IsFiniteSet({}) /\ IsFiniteSet({root})
    BY FS_EmptySet, FS_Singleton
  <2>2. QED BY <1>1, <2>1
<1>4. \A t : NrAtDepth(items, t) \in Nat
  BY <1>2, FewerAtDepth
<1>5. NrAtDepth(items, 0) <= 1
  <2>1. AtDepth(items, 0) = {} \/ AtDepth(items, 0) = {root}
    BY <1>1 DEF AtDepth
  <2>2. Cardinality({}) = 0 /\ Cardinality({root}) = 1
    BY FS_EmptySet, FS_Singleton
  <2>3. QED BY <2>1, <2>2 DEF NrAtDepth
<1>6. ASSUME NEW t \in 0..Horizon-1, t # 0 PROVE NrAtDepth(items, t) = 0
  <2>1. AtDepth(items, t) = {}
    BY <1>1, <1>3, <1>6 DEF AtDepth
  <2>2. QED BY <2>1, FS_EmptySet DEF NrAtDepth
<1>7. /\ n \in [0..Horizon-1 -> Nat]
      /\ n[0] = 1
      /\ \A t \in 0..Horizon-1 : t # 0 => n[t] = 0
  BY ParametersAssumption
<1>8. \A t \in 0..Horizon-2 : t \in 0..Horizon-1 /\ t + 1 \in 0..Horizon-1 /\ t + 1 # 0
  BY ParametersAssumption
<1> HIDE DEF n
<1>9. ASSUME NEW t \in 0..Horizon-1 PROVE NrAtDepth(items, t) <= n[t]
  BY <1>4, <1>5, <1>6, <1>7
<1>10. ASSUME NEW t \in 0..Horizon-2
       PROVE  n[t + 1] <= NrPoliciesToProcess * (n[t] - NrAtDepth(items, t))
  <2>1. n[t + 1] = 0 /\ n[t] \in Nat /\ NrAtDepth(items, t) <= n[t]
    BY <1>7, <1>8, <1>9
  <2>2. 0 <= n[t] - NrAtDepth(items, t) /\ n[t] - NrAtDepth(items, t) \in Int
    BY <1>4, <2>1
  <2>3. NrPoliciesToProcess * 0 <= NrPoliciesToProcess * (n[t] - NrAtDepth(items, t))
    BY <2>2, ProductGrows, NrPoliciesToProcessAssumption
  <2>4. QED BY <2>1, <2>3, NrPoliciesToProcessAssumption
<1>11. Accounts(items, n)
  BY <1>7, <1>9, <1>10, ParametersAssumption DEF Accounts
<1>12. QED BY <1>2, <1>11

(* Every action keeps the account of the pool.                             *)
LEMMA SizeInvStep == SizeInv /\ [Next]_vars => SizeInv'
<1> SUFFICES ASSUME SizeInv, [Next]_vars PROVE SizeInv'
  OBVIOUS
<1>1. TypeInv'
  BY TypeInvStep DEF SizeInv
<1>2. PICK n : Accounts(pool, n)
  BY DEF SizeInv
<1>3. IsFiniteSet(pool)
  BY DEF SizeInv
<1>4. CASE StartPlan
  <2>1. pool' = {NewPPI(EmptyPolicy, 0, PlusMax)}
    BY <1>4 DEF StartPlan
  <2>2. IsFiniteSet(pool') /\ \E m : Accounts(pool', m)
    BY <2>1, AccountOfRoot
  <2>3. QED BY <1>1, <2>2 DEF SizeInv
<1>5. CASE pool' \subseteq pool
  <2>1. IsFiniteSet(pool') /\ Accounts(pool', n)
    BY <1>2, <1>3, <1>5, FewerAtDepth, AccountOfFewer
  <2>2. QED BY <1>1, <2>1 DEF SizeInv
<1>6. CASE Expand
  <2>1. PICK ppi \in pool : \E s \in Solutions(ppi) : ExpandStage(ppi, s) \/ ExpandLastStage(ppi, s)
    BY <1>6, ExpandCases
  <2>2. PICK s \in Solutions(ppi) : ExpandStage(ppi, s) \/ ExpandLastStage(ppi, s)
    BY <2>1
  <2> DEFINE next == {Child(ppi, d) : d \in s}
  <2>3. s \subseteq Rules
    BY DEF Solutions
  <2>4. /\ next \in SUBSET Items
        /\ \A i \in next : Len(i.jpol) = Len(ppi.jpol) + 1
        /\ Len(ppi.jpol) \in 0..Horizon-1
    BY <2>3, ChildrenAreItems DEF SizeInv
  <2>5. CASE ExpandLastStage(ppi, s)
    <3>1. FinishIteration(ppi, {}, next, TRUE, {})
      BY <2>5 DEF ExpandLastStage
    <3> HIDE DEF next
    <3>2. (\E top \in next : Takes(top, ppi, {}, next, {})) \/ Keeps(ppi, {}, {})
      BY <2>4, <3>1, FinishIterationEffect DEF SizeInv, TypeInv
    <3>3. pool' \subseteq pool
      BY <3>2 DEF Takes, Keeps
    <3>4. QED BY <1>5, <3>3
  <2>6. CASE ExpandStage(ppi, s)
    <3>1. PICK best \in KBest(next) :
            FinishIteration(ppi, {}, next, FALSE, AtLeast(best, maxLowerBound - Slack))
      BY <2>6 DEF ExpandStage
    <3> DEFINE further == AtLeast(best, maxLowerBound - Slack)
    <3>2. FinishIteration(ppi, {}, next, FALSE, further)
      BY <3>1
    <3>3. IsFiniteSet(next)
      <4>1. IsFiniteSet(Rules)
        BY FS_Interval, ParametersAssumption DEF Rules
      <4>2. IsFiniteSet(s)
        BY <2>3, <4>1, FS_Subset
      <4>3. [d \in s |-> Child(ppi, d)] \in Surjection(s, next)
        BY DEF Surjection
      <4> HIDE DEF next
      <4>4. QED BY <4>2, <4>3, FS_Surjection
    <3>4. best \subseteq next /\ Cardinality(best) <= NrPoliciesToProcess /\ further \subseteq best
      BY DEF KBest, AtLeast
    <3> HIDE DEF next, further
    <3>5. IsFiniteSet(further) /\ Cardinality(further) <= NrPoliciesToProcess
      <4>1. IsFiniteSet(best)
        BY <3>3, <3>4, FS_Subset
      <4>2. IsFiniteSet(further) /\ Cardinality(further) <= Cardinality(best)
        BY <3>4, <4>1, FS_Subset
      <4>3. Cardinality(further) \in Nat /\ Cardinality(best) \in Nat
        BY <4>1, <4>2, FS_CardinalityType
      <4>4. QED BY <3>4, <4>2, <4>3, NrPoliciesToProcessAssumption
    <3>6. pool' = (pool \ {ppi}) \cup further
      <4>1. Keeps(ppi, {}, further)
        BY <2>4, <3>2, FinishIterationEffect DEF SizeInv, TypeInv
      <4>2. QED BY <4>1 DEF Keeps
    <3>7. Len(ppi.jpol) \in 0..Horizon-2
      BY <2>4, <2>6, ParametersAssumption DEF ExpandStage, IsLastStage, Stage
    <3>8. \A i \in further : Len(i.jpol) = Len(ppi.jpol) + 1
      BY <2>4, <3>4
    <3>9. \E m : Accounts(pool', m)
      BY <1>2, <1>3, <3>5, <3>6, <3>7, <3>8, AccountOfExpansion
    <3>10. IsFiniteSet(pool')
      BY <1>3, <3>5, <3>6, FS_RemoveElement, FS_Union
    <3>11. QED BY <1>1, <3>9, <3>10 DEF SizeInv
  <2>7. QED BY <2>2, <2>5, <2>6
<1>7. EndPlan \/ DeadlineExceeded \/ UNCHANGED vars => pool' \subseteq pool
  BY DEF EndPlan, DeadlineExceeded, vars
<1>8. QED BY <1>4, <1>5, <1>6, <1>7 DEF Next

(* The pool never holds more than k^t policies of depth t, whatever the    *)
(* heuristic and the solver do.                                            *)
THEOREM PoolStaysSmall == Spec => []PoolIsBounded
<1>1. Init => SizeInv
  <2>1. Init => pool = {}
    BY DEF Init
  <2>2. QED BY <2>1, TypeInvInit, AccountOfRoot DEF SizeInv
<1>2. SizeInv => PoolIsBounded
  BY AccountBoundsPool DEF SizeInv, PoolIsBounded, NrAtDepth, AtDepth
<1>3. QED BY <1>1, <1>2, SizeInvStep, PTL DEF Spec
=============================================================================
