----------------------------- MODULE MAAstarProofs -----------------------------
(***************************************************************************)
(* GMAA_MAAstar is an optimal search although it generates one child of an *)
(* item at a time, for every horizon, every number of BG policies, every   *)
(* problem for which SearchIsSound, and every solver that keeps to its     *)
(* contract.                                                               *)
(***************************************************************************)
EXTENDS MAAstar, GMAAProofs, FiniteSetTheorems

-----------------------------------------------------------------------------
(***************************************************************************)
(* What an expansion does: the solver returns nothing, a child before the  *)
(* last stage, or a complete policy that is better than the best one found *)
(* or is not; or the expansion ends with the exception.                    *)
(***************************************************************************)

ReturnsNothing(ppi, item) ==
  /\ item.left = {}
  /\ UNCHANGED <<pc, maxLowerBound, bestJPol>>
  /\ pool' = (pool \ {ppi}) \cup PutBack(AfterNoSolution(item))

ReturnsChild(ppi, item, d) ==
  /\ ~IsLastStage(ppi.jpol)
  /\ UNCHANGED <<pc, maxLowerBound, bestJPol>>
  /\ pool' = (pool \ {ppi}) \cup PutBack(AfterSolution(item, d)) \cup {Child(ppi, d)}

ReturnsBetter(ppi, d) ==
  /\ IsLastStage(ppi.jpol)
  /\ UNCHANGED pc
  /\ Child(ppi, d).value > maxLowerBound
  /\ maxLowerBound' = Child(ppi, d).value
  /\ bestJPol' = [jpol |-> Child(ppi, d).jpol, past |-> Child(ppi, d).past]
  /\ pool' = {i \in pool \ {ppi} : i.value > Child(ppi, d).value - Slack}

ReturnsNoBetter(ppi, d) ==
  /\ IsLastStage(ppi.jpol)
  /\ Child(ppi, d).value <= maxLowerBound
  /\ UNCHANGED <<pc, maxLowerBound, bestJPol>>
  /\ pool' = pool \ {ppi}

Throws(ppi, item, d) ==
  /\ ParentGoesUp(ppi, Child(ppi, d))
  /\ pc' = "error"
  /\ UNCHANGED <<maxLowerBound, bestJPol>>
  /\ pool' = (pool \ {ppi}) \cup {AfterSolution(item, d)}

(* The step of an item, with the solver of it after the policies it drops. *)
ItemStep(ppi, item) ==
  \/ ReturnsNothing(ppi, item)
  \/ \E d \in NextSolutions(item) :
       \/ ~ParentGoesUp(ppi, Child(ppi, d)) /\ ReturnsChild(ppi, item, d)
       \/ ReturnsBetter(ppi, d)
       \/ ReturnsNoBetter(ppi, d)
       \/ Throws(ppi, item, d)

(* Dropping policies changes nothing of an item but what is left to it.    *)
LEMMA DropEffect ==
  ASSUME TypeInv, NEW ppi \in pool, NEW item \in Drop(ppi)
  PROVE  /\ item \in Items
         /\ item.jpol = ppi.jpol /\ item.past = ppi.past
         /\ item.value = ppi.value /\ item.calls = ppi.calls
         /\ item.left \subseteq ppi.left
         /\ \A d \in ppi.left \ item.left : MayBeDropped(ppi, d)
BY ItemTypes DEF Drop, TypeInv, Items

(* A child is an item, of the depth below that of its parent.              *)
LEMMA ChildIsItem ==
  ASSUME TypeInv, NEW ppi \in pool, NEW d \in Rules
  PROVE  /\ Child(ppi, d) \in Items
         /\ Child(ppi, d).jpol = Append(ppi.jpol, d)
         /\ Child(ppi, d).left = Rules
         /\ Child(ppi, d).calls = 0
         /\ Len(Child(ppi, d).jpol) = Len(ppi.jpol) + 1
         /\ Len(ppi.jpol) \in 0..Horizon-1
<1>1. ppi.jpol \in Policies /\ ppi.past \in Int /\ Len(ppi.jpol) < Horizon /\ problem \in Problems
  BY ItemTypes DEF TypeInv, Unfinished
<1>2. Append(ppi.jpol, d) \in Policies /\ Len(Append(ppi.jpol, d)) = Len(ppi.jpol) + 1
  BY <1>1, AppendIsPolicy
<1>3. /\ ppi.past + ImmediateReward(problem, ppi.jpol, d) \in Int
      /\ HeuristicValue(problem, ppi.jpol, ppi.past, d) \in Int
  BY <1>1, HeuristicValueIsInteger
<1>4. Len(ppi.jpol) \in 0..Horizon-1
  BY <1>1, PolicyIsSequence, ParametersAssumption
<1>5. QED BY <1>2, <1>3, <1>4 DEF Child, NewPPI, Items

(* The solver returns a policy that is left to it.                         *)
LEMMA NextSolutionIsLeft ==
  ASSUME TypeInv, NEW ppi \in pool, NEW item \in Drop(ppi), NEW d \in NextSolutions(item)
  PROVE  d \in item.left /\ d \in ppi.left /\ d \in Rules
BY DropEffect, ItemTypes DEF NextSolutions, TypeInv

(* The item that is put back has asked its solver once more, has less left *)
(* to it, and is otherwise the item that was expanded.                     *)
LEMMA AfterEffect ==
  ASSUME TypeInv, NEW ppi \in pool, NEW item \in Drop(ppi)
  PROVE  /\ LET after == AfterNoSolution(item)
            IN /\ after \in Items
               /\ after.jpol = ppi.jpol /\ after.past = ppi.past
               /\ after.left = item.left
               /\ after.calls = ppi.calls + 1
               /\ after.value = MinusMax
         /\ \A d \in NextSolutions(item) :
              LET after == AfterSolution(item, d)
              IN /\ after \in Items
                 /\ after.jpol = ppi.jpol /\ after.past = ppi.past
                 /\ after.left = item.left \ {d}
                 /\ after.calls = ppi.calls + 1
                 /\ after.value = IF Stage(ppi.jpol) > 0 THEN Child(ppi, d).value ELSE ppi.value
<1>1. /\ item \in Items
      /\ item.jpol = ppi.jpol /\ item.past = ppi.past
      /\ item.value = ppi.value /\ item.calls = ppi.calls
  BY DropEffect
<1>2. LET after == AfterNoSolution(item)
      IN /\ after \in Items
         /\ after.jpol = ppi.jpol /\ after.past = ppi.past
         /\ after.left = item.left
         /\ after.calls = ppi.calls + 1
         /\ after.value = MinusMax
  <2> DEFINE after == AfterNoSolution(item)
  <2>1. after.jpol = item.jpol /\ after.past = item.past /\ after.left = item.left
    BY <1>1 DEF AfterNoSolution, Items
  <2>2. after.calls = item.calls + 1 /\ after.value = MinusMax
    BY <1>1 DEF AfterNoSolution, Items
  <2>3. after \in Items
    <3> DEFINE called == [item EXCEPT !.calls = @ + 1]
    <3>1. after = [called EXCEPT !.value = MinusMax]
      BY <1>1 DEF AfterNoSolution, Items
    <3>2. called \in Items
      BY <1>1 DEF Items
    <3> HIDE DEF after, called
    <3>3. QED BY <3>1, <3>2, ParametersAssumption DEF Items
  <2>4. QED BY <1>1, <2>1, <2>2, <2>3
<1>3. ASSUME NEW d \in NextSolutions(item)
      PROVE  LET after == AfterSolution(item, d)
             IN /\ after \in Items
                /\ after.jpol = ppi.jpol /\ after.past = ppi.past
                /\ after.left = item.left \ {d}
                /\ after.calls = ppi.calls + 1
                /\ after.value = IF Stage(ppi.jpol) > 0 THEN Child(ppi, d).value ELSE ppi.value
  <2>1. Child(item, d) = Child(ppi, d)
    BY <1>1 DEF Child
  <2>2. Child(ppi, d).value \in Int
    BY NextSolutionIsLeft, ChildIsItem DEF Items
  <2> DEFINE after == AfterSolution(item, d)
  <2>3. after.jpol = item.jpol /\ after.past = item.past /\ after.left = item.left \ {d}
    BY <1>1 DEF AfterSolution, Items
  <2>4. /\ after.calls = item.calls + 1
        /\ after.value = IF Stage(item.jpol) > 0 THEN Child(item, d).value ELSE item.value
    BY <1>1 DEF AfterSolution, Items
  <2>5. after \in Items
    <3> DEFINE value == IF Stage(item.jpol) > 0 THEN Child(item, d).value ELSE item.value
               without == [item EXCEPT !.left = @ \ {d}]
               called == [without EXCEPT !.calls = @ + 1]
    <3>1. after = [called EXCEPT !.value = value]
      BY <1>1 DEF AfterSolution, Items
    <3>2. value \in Int
      BY <1>1, <2>1, <2>2 DEF Items
    <3>3. without \in Items
      BY <1>1 DEF Items
    <3> HIDE DEF after, value, without
    <3>4. called \in Items
      BY <3>3 DEF Items
    <3> HIDE DEF called
    <3>5. QED BY <3>1, <3>2, <3>4 DEF Items
  <2>6. QED BY <1>1, <2>1, <2>3, <2>4, <2>5
<1>4. QED BY <1>2, <1>3

(* At the last stage no item is put back: one solution was desired.        *)
LEMMA LastStageIsCleanedUp ==
  ASSUME NEW after, IsLastStage(after.jpol), NEW calls \in Nat, after.calls = calls + 1
  PROVE  PutBack(after) = {}
BY DEF PutBack, AllSolutionsHaveBeenReturned, NrDesiredSolutions

(* Every expansion, and the exception, is a step of an item.               *)
LEMMA ExpandEffect ==
  ASSUME TypeInv, Expand \/ ThrowParentGoesUp
  PROVE  /\ pc = "planning"
         /\ UNCHANGED <<problem, foundPolicy, expectedReward>>
         /\ \E ppi \in pool : \E item \in Drop(ppi) : ItemStep(ppi, item)
<1>1. CASE Expand
  <2>1. PICK ppi \in pool :
          /\ Selected(ppi)
          /\ \E item \in Drop(ppi) :
               IF item.left = {}
               THEN Finish(ppi, AfterNoSolution(item), {})
               ELSE \E d \in NextSolutions(item) :
                      /\ ~ParentGoesUp(ppi, Child(ppi, d))
                      /\ Finish(ppi, AfterSolution(item, d), {Child(ppi, d)})
    BY <1>1 DEF Expand
  <2>2. pc = "planning"
    BY <2>1 DEF Selected
  <2>3. PICK item \in Drop(ppi) :
          \/ /\ item.left = {}
             /\ Finish(ppi, AfterNoSolution(item), {})
          \/ \E d \in NextSolutions(item) :
               /\ ~ParentGoesUp(ppi, Child(ppi, d))
               /\ Finish(ppi, AfterSolution(item, d), {Child(ppi, d)})
    BY <2>1
  <2>4. ppi.calls \in Nat /\ maxLowerBound \in Int
    BY ItemTypes DEF TypeInv, TypeOK
  <2>5. CASE item.left = {} /\ Finish(ppi, AfterNoSolution(item), {})
    <3> DEFINE after == AfterNoSolution(item)
               areLBs == IsLastStage(ppi.jpol)
    <3>1. FinishIteration(ppi, PutBack(after), {}, areLBs, {})
      BY <2>5 DEF Finish, SelectPoliciesToProcessFurther
    <3>2. areLBs \in BOOLEAN
      BY DEF IsLastStage
    <3>3. UNCHANGED <<problem, pc, foundPolicy, expectedReward>> /\ Keeps(ppi, PutBack(after), {})
      <4> HIDE DEF after, areLBs
      <4>1. QED BY <3>1, <3>2, FinishIterationEffect DEF TypeInv
    <3>4. ReturnsNothing(ppi, item)
      BY <2>5, <3>3 DEF ReturnsNothing, Keeps
    <3>5. QED BY <2>2, <3>3, <3>4 DEF ItemStep
  <2>6. ASSUME NEW d \in NextSolutions(item),
               ~ParentGoesUp(ppi, Child(ppi, d)),
               Finish(ppi, AfterSolution(item, d), {Child(ppi, d)})
        PROVE  /\ UNCHANGED <<problem, foundPolicy, expectedReward>>
               /\ ItemStep(ppi, item)
    <3> DEFINE after == AfterSolution(item, d)
               child == Child(ppi, d)
               areLBs == IsLastStage(ppi.jpol)
    <3>1. after.jpol = ppi.jpol /\ after.calls = ppi.calls + 1
      BY AfterEffect
    <3>2. child \in Items /\ child.value \in Int
      BY NextSolutionIsLeft, ChildIsItem DEF Items
    <3>3. FinishIteration(ppi, PutBack(after), {child}, areLBs,
                          SelectPoliciesToProcessFurther({child}, areLBs))
      BY <2>6 DEF Finish
    <3>4. CASE ~IsLastStage(ppi.jpol)
      <4>1. FinishIteration(ppi, PutBack(after), {child}, FALSE, {child})
        <5>1. areLBs = FALSE
          BY <3>4 DEF IsLastStage
        <5> HIDE DEF areLBs
        <5>2. QED BY <3>3, <5>1 DEF SelectPoliciesToProcessFurther
      <4>2. /\ UNCHANGED <<problem, pc, foundPolicy, expectedReward>>
            /\ Keeps(ppi, PutBack(after), {child})
        <5> HIDE DEF after, child
        <5>1. QED BY <3>2, <4>1, FinishIterationEffect DEF TypeInv
      <4>3. ReturnsChild(ppi, item, d)
        BY <3>4, <4>2 DEF ReturnsChild, Keeps
      <4>4. QED BY <2>6, <4>2, <4>3 DEF ItemStep
    <3>5. CASE IsLastStage(ppi.jpol)
      <4>1. PutBack(after) = {}
        BY <2>4, <3>1, <3>5, LastStageIsCleanedUp
      <4>2. FinishIteration(ppi, {}, {child}, TRUE, {})
        <5>1. areLBs = TRUE
          BY <3>5 DEF IsLastStage
        <5> HIDE DEF areLBs
        <5>2. QED BY <3>3, <4>1, <5>1 DEF SelectPoliciesToProcessFurther
      <4>3. /\ UNCHANGED <<problem, pc, foundPolicy, expectedReward>>
            /\ \/ \E top \in {child} : Takes(top, ppi, {}, {child}, {})
               \/ ~Improves({child}) /\ Keeps(ppi, {}, {})
        <5> DEFINE next == {child}
        <5>1. next \in SUBSET Items /\ FinishIteration(ppi, {}, next, TRUE, {})
          BY <3>2, <4>2
        <5> HIDE DEF next
        <5>2. /\ UNCHANGED <<problem, pc, foundPolicy, expectedReward>>
              /\ \/ \E top \in next : Takes(top, ppi, {}, next, {})
                 \/ ~Improves(next) /\ Keeps(ppi, {}, {})
          BY <5>1, FinishIterationEffect DEF TypeInv
        <5>3. QED BY <5>2 DEF next
      <4>4. CASE Takes(child, ppi, {}, {child}, {})
        BY <2>6, <3>5, <4>3, <4>4 DEF Takes, ReturnsBetter, ItemStep
      <4>5. CASE ~Improves({child}) /\ Keeps(ppi, {}, {})
        <5>1. ~(child.value > maxLowerBound)
          BY <3>2, <4>5 DEF Improves, PP!Select
        <5>2. child.value <= maxLowerBound
          BY <2>4, <3>2, <5>1
        <5>3. ReturnsNoBetter(ppi, d)
          BY <3>5, <4>3, <4>5, <5>2 DEF Keeps, ReturnsNoBetter
        <5>4. QED BY <2>6, <4>3, <5>3 DEF ItemStep
      <4>6. QED BY <4>3, <4>4, <4>5
    <3>6. QED BY <3>4, <3>5
  <2>7. CASE \E d \in NextSolutions(item) :
               /\ ~ParentGoesUp(ppi, Child(ppi, d))
               /\ Finish(ppi, AfterSolution(item, d), {Child(ppi, d)})
    BY <2>2, <2>6, <2>7
  <2>8. QED BY <2>3, <2>5, <2>7
<1>2. CASE ThrowParentGoesUp
  BY <1>2 DEF ThrowParentGoesUp, Selected, ItemStep, Throws, PP!Insert, PP!Pop
<1>3. QED BY <1>1, <1>2

-----------------------------------------------------------------------------
(***************************************************************************)
(* Type correctness.                                                       *)
(***************************************************************************)

(* Every step of an item keeps the types.                                  *)
LEMMA ItemStepTypes ==
  ASSUME TypeInv, NEW ppi \in pool, NEW item \in Drop(ppi), ItemStep(ppi, item),
         pc = "planning", UNCHANGED <<problem, foundPolicy, expectedReward>>
  PROVE  TypeInv'
<1>1. /\ AfterNoSolution(item) \in Items
      /\ AfterNoSolution(item).jpol = ppi.jpol
      /\ \A d \in NextSolutions(item) : /\ AfterSolution(item, d) \in Items
                                        /\ AfterSolution(item, d).jpol = ppi.jpol
  BY AfterEffect
<1>2. \A i \in pool : i \in Items /\ Len(i.jpol) < Horizon
  BY DEF TypeInv, TypeOK, Unfinished
<1>3. \A d \in NextSolutions(item) :
        /\ Child(ppi, d) \in Items
        /\ Len(Child(ppi, d).jpol) = Len(ppi.jpol) + 1
        /\ Len(ppi.jpol) \in 0..Horizon-1
  BY NextSolutionIsLeft, ChildIsItem
<1>4. \A i : PutBack(i) \subseteq {i}
  BY DEF PutBack
<1>5. \A i \in pool' : i \in Items /\ Len(i.jpol) < Horizon
  <2>1. CASE ReturnsNothing(ppi, item)
    BY <1>1, <1>2, <1>4, <2>1 DEF ReturnsNothing
  <2>2. ASSUME NEW d \in NextSolutions(item), ReturnsChild(ppi, item, d)
        PROVE  \A i \in pool' : i \in Items /\ Len(i.jpol) < Horizon
    <3>1. Len(Child(ppi, d).jpol) < Horizon
      BY <1>3, <2>2, ParametersAssumption DEF ReturnsChild, IsLastStage, Stage
    <3>2. QED BY <1>1, <1>2, <1>3, <1>4, <2>2, <3>1 DEF ReturnsChild
  <2>3. ASSUME NEW d \in NextSolutions(item), ReturnsBetter(ppi, d) \/ ReturnsNoBetter(ppi, d)
        PROVE  pool' \subseteq pool
    BY <2>3 DEF ReturnsBetter, ReturnsNoBetter
  <2>4. ASSUME NEW d \in NextSolutions(item), Throws(ppi, item, d)
        PROVE  \A i \in pool' : i \in Items /\ Len(i.jpol) < Horizon
    BY <1>1, <1>2, <2>4 DEF Throws
  <2>5. QED BY <1>2, <2>1, <2>2, <2>3, <2>4 DEF ItemStep
<1>6. maxLowerBound' \in Int /\ bestJPol' \in BestPolicies /\ pc' \in {"planning", "error"}
  BY <1>3
  DEF ItemStep, ReturnsNothing, ReturnsChild, ReturnsBetter, ReturnsNoBetter, Throws,
      TypeInv, TypeOK, Items, BestPolicies
<1>7. TypeOK'
  BY <1>5, <1>6 DEF TypeInv, TypeOK
<1>8. Unfinished'
  BY <1>5 DEF Unfinished
<1>9. QED BY <1>7, <1>8 DEF TypeInv

(* Every action keeps the types.                                           *)
LEMMA TypeInvStep == TypeInv /\ [Next]_vars => TypeInv'
<1> SUFFICES ASSUME TypeInv, [Next]_vars PROVE TypeInv'
  OBVIOUS
<1>1. CASE Expand \/ ThrowParentGoesUp
  BY <1>1, ExpandEffect, ItemStepTypes
<1>2. CASE UNCHANGED vars
  BY <1>2 DEF vars, TypeInv, TypeOK, Unfinished
<1>3. QED BY <1>1, <1>2, StartPlanTypes, EndTypes DEF Next

(* Every variable of the planner keeps its type.                           *)
THEOREM TypeCorrect == Spec => []TypeOK
<1>1. TypeInv => TypeOK
  BY DEF TypeInv
<1>2. QED BY <1>1, TypeInvInit, TypeInvStep, PTL DEF Spec

-----------------------------------------------------------------------------
(***************************************************************************)
(* What holds of the pool for every problem: past rewards are exact, no    *)
(* policy is below two items, and an item has no more left to it than its  *)
(* solver can still be asked for, so that one that is done has nothing.    *)
(***************************************************************************)

LeftIsCounted == \A i \in pool : Cardinality(i.left) + i.calls <= NrJPolBGs

PoolInv == TypeInv /\ PastRewardsExact /\ NoPolicyTwiceInPool /\ LeftIsCounted

(* What is left to an item is a finite set.                                *)
LEMMA LeftIsFinite ==
  ASSUME NEW left \in SUBSET Rules
  PROVE  IsFiniteSet(left) /\ Cardinality(left) \in Nat /\ Cardinality(left) <= NrJPolBGs
<1>1. IsFiniteSet(Rules) /\ Cardinality(Rules) = NrJPolBGs
  BY FS_Interval, ParametersAssumption DEF Rules
<1>2. IsFiniteSet(left) /\ Cardinality(left) <= Cardinality(Rules)
  BY <1>1, FS_Subset
<1>3. QED BY <1>1, <1>2, FS_CardinalityType

(* The past reward of a child is exact, and at the last stage it is the    *)
(* child's value.                                                          *)
LEMMA ChildIsExact ==
  ASSUME TypeInv, PastRewardsExact, NEW ppi \in pool, NEW d \in Rules
  PROVE  LET child == Child(ppi, d)
         IN /\ child.past = Reward[problem][child.jpol]
            /\ IsLastStage(ppi.jpol) => child.jpol \in FullPolicies /\ child.value = child.past
            /\ ~IsLastStage(ppi.jpol) =>
                 child.value = HeuristicValue(problem, ppi.jpol, ppi.past, d)
<1>1. ppi.jpol \in Policies /\ Len(ppi.jpol) < Horizon /\ problem \in Problems
  BY ItemTypes DEF TypeInv, Unfinished
<1>2. Append(ppi.jpol, d) \in Policies /\ (IsLastStage(ppi.jpol) => Append(ppi.jpol, d) \in FullPolicies)
  BY <1>1, AppendIsPolicy
<1>3. Reward[problem][ppi.jpol] \in Int /\ Reward[problem][Append(ppi.jpol, d)] \in Int
  BY <1>1, <1>2, RewardsAreIntegers
<1>4. ppi.past = Reward[problem][ppi.jpol]
  BY DEF PastRewardsExact
<1>5. ppi.past + ImmediateReward(problem, ppi.jpol, d) = Reward[problem][Append(ppi.jpol, d)]
  BY <1>3, <1>4 DEF ImmediateReward
<1>6. QED BY <1>2, <1>5 DEF Child, NewPPI

(* The policies below an item that is put back, or below a child, are      *)
(* below the item that was expanded; those below a child begin with it.    *)
LEMMA BelowAfter ==
  ASSUME TypeInv, NEW ppi \in pool, NEW item \in Drop(ppi)
  PROVE  /\ Below(AfterNoSolution(item)) \subseteq Below(ppi)
         /\ \A d \in NextSolutions(item) :
              /\ Below(AfterSolution(item, d)) \subseteq Below(ppi)
              /\ \A pi \in Below(AfterSolution(item, d)) : pi[Len(ppi.jpol) + 1] # d
<1>1. item.left \subseteq ppi.left
  BY DropEffect
<1>2. /\ AfterNoSolution(item).jpol = ppi.jpol /\ AfterNoSolution(item).left = item.left
      /\ \A d \in NextSolutions(item) : /\ AfterSolution(item, d).jpol = ppi.jpol
                                        /\ AfterSolution(item, d).left = item.left \ {d}
  BY AfterEffect
<1>3. QED BY <1>1, <1>2 DEF Below

(* A child.                                                                *)
LEMMA BelowChild ==
  ASSUME TypeInv, NEW ppi \in pool, NEW d \in ppi.left
  PROVE  /\ Below(Child(ppi, d)) \subseteq Below(ppi)
         /\ \A pi \in Below(Child(ppi, d)) : pi[Len(ppi.jpol) + 1] = d
<1>1. ppi.jpol \in Policies /\ Len(ppi.jpol) < Horizon /\ d \in Rules
  BY ItemTypes DEF TypeInv, Unfinished
<1>2. Child(ppi, d).jpol = Append(ppi.jpol, d)
  BY <1>1, ChildIsItem
<1>3. ASSUME NEW pi \in FullPolicies, Extends(pi, Append(ppi.jpol, d))
      PROVE  Extends(pi, ppi.jpol) /\ pi[Len(ppi.jpol) + 1] = d
  BY <1>1, <1>3, ExtendsChild
<1>4. QED BY <1>2, <1>3 DEF Below

(* An item that is replaced by items that share out what is below it.      *)
LEMMA ReplacedIsDisjoint ==
  ASSUME NoPolicyTwiceInPool, NEW ppi \in pool, NEW new,
         pool' \subseteq (pool \ {ppi}) \cup new,
         \A i \in new : Below(i) \subseteq Below(ppi),
         \A i, j \in new : i # j => Below(i) \cap Below(j) = {}
  PROVE  NoPolicyTwiceInPool'
<1> SUFFICES ASSUME NEW i \in pool', NEW j \in pool', i # j
             PROVE  Below(i) \cap Below(j) = {}
  BY DEF NoPolicyTwiceInPool, Below
<1>1. CASE i \in pool \ {ppi} /\ j \in pool \ {ppi}
  BY <1>1 DEF NoPolicyTwiceInPool
<1>2. CASE i \in pool \ {ppi} /\ j \in new
  BY <1>2 DEF NoPolicyTwiceInPool
<1>3. CASE i \in new /\ j \in pool \ {ppi}
  BY <1>3 DEF NoPolicyTwiceInPool
<1>4. CASE i \in new /\ j \in new
  BY <1>4
<1>5. QED BY <1>1, <1>2, <1>3, <1>4

(* No step of an item makes a policy be below two items.                   *)
LEMMA ItemStepDisjoint ==
  ASSUME PoolInv, NEW ppi \in pool, NEW item \in Drop(ppi), ItemStep(ppi, item)
  PROVE  NoPolicyTwiceInPool'
<1>1. \A i : PutBack(i) \subseteq {i}
  BY DEF PutBack
<1>2. CASE ReturnsNothing(ppi, item)
  <2> DEFINE new == {AfterNoSolution(item)}
  <2>1. pool' \subseteq (pool \ {ppi}) \cup new
    BY <1>1, <1>2 DEF ReturnsNothing
  <2>2. \A i \in new : Below(i) \subseteq Below(ppi)
    BY BelowAfter DEF PoolInv
  <2>3. \A i, j \in new : i # j => Below(i) \cap Below(j) = {}
    OBVIOUS
  <2> HIDE DEF new
  <2>4. QED BY <2>1, <2>2, <2>3, ReplacedIsDisjoint DEF PoolInv
<1>3. ASSUME NEW d \in NextSolutions(item), ReturnsChild(ppi, item, d)
      PROVE  NoPolicyTwiceInPool'
  <2> DEFINE after == AfterSolution(item, d)
             new == {after, Child(ppi, d)}
  <2>1. pool' \subseteq (pool \ {ppi}) \cup new
    BY <1>1, <1>3 DEF ReturnsChild
  <2>2. d \in ppi.left
    BY NextSolutionIsLeft DEF PoolInv
  <2>3. /\ Below(after) \subseteq Below(ppi) /\ Below(Child(ppi, d)) \subseteq Below(ppi)
        /\ \A pi \in Below(after) : pi[Len(ppi.jpol) + 1] # d
        /\ \A pi \in Below(Child(ppi, d)) : pi[Len(ppi.jpol) + 1] = d
    BY <2>2, BelowAfter, BelowChild DEF PoolInv
  <2> HIDE DEF after
  <2>4. Below(after) \cap Below(Child(ppi, d)) = {}
    BY <2>3
  <2>5. \A i \in new : Below(i) \subseteq Below(ppi)
    BY <2>3
  <2>6. \A i, j \in new : i # j => Below(i) \cap Below(j) = {}
    BY <2>4
  <2> HIDE DEF new
  <2>7. QED BY <2>1, <2>5, <2>6, ReplacedIsDisjoint DEF PoolInv
<1>4. ASSUME NEW d \in NextSolutions(item), ReturnsBetter(ppi, d) \/ ReturnsNoBetter(ppi, d)
      PROVE  NoPolicyTwiceInPool'
  <2>1. pool' \subseteq pool
    BY <1>4 DEF ReturnsBetter, ReturnsNoBetter
  <2>2. QED BY <2>1 DEF PoolInv, NoPolicyTwiceInPool, Below
<1>5. ASSUME NEW d \in NextSolutions(item), Throws(ppi, item, d)
      PROVE  NoPolicyTwiceInPool'
  <2> DEFINE new == {AfterSolution(item, d)}
  <2>1. pool' \subseteq (pool \ {ppi}) \cup new
    BY <1>5 DEF Throws
  <2>2. \A i \in new : Below(i) \subseteq Below(ppi)
    BY BelowAfter DEF PoolInv
  <2>3. \A i, j \in new : i # j => Below(i) \cap Below(j) = {}
    OBVIOUS
  <2> HIDE DEF new
  <2>4. QED BY <2>1, <2>2, <2>3, ReplacedIsDisjoint DEF PoolInv
<1>6. QED BY <1>2, <1>3, <1>4, <1>5 DEF ItemStep

(* Where the items of the pool come from after a step of an item.          *)
LEMMA ItemStepOrigin ==
  ASSUME TypeInv, NEW ppi \in pool, NEW item \in Drop(ppi), ItemStep(ppi, item),
         NEW i \in pool'
  PROVE  \/ i \in pool \ {ppi}
         \/ i = AfterNoSolution(item) /\ item.left = {} /\ i.calls < NrJPolBGs
         \/ \E d \in NextSolutions(item) :
              /\ i = AfterSolution(item, d)
              /\ IsLastStage(ppi.jpol) => Throws(ppi, item, d)
         \/ \E d \in NextSolutions(item) : i = Child(ppi, d) /\ ~IsLastStage(ppi.jpol)
<1>1. \A after : PutBack(after) \subseteq {after}
  BY DEF PutBack
<1>2. CASE ReturnsNothing(ppi, item)
  <2> DEFINE after == AfterNoSolution(item)
  <2>1. after.calls \in Nat /\ item.left = {} /\ pool' = (pool \ {ppi}) \cup PutBack(after)
    BY <1>2, AfterEffect DEF ReturnsNothing, Items
  <2> HIDE DEF after
  <2>2. CASE after.calls < NrDesiredSolutions(after)
    <3>1. after.calls < NrJPolBGs
      BY <2>1, <2>2, ParametersAssumption DEF NrDesiredSolutions
    <3>2. QED BY <1>1, <2>1, <3>1 DEF after
  <2>3. CASE ~(after.calls < NrDesiredSolutions(after))
    <3>1. NrDesiredSolutions(after) \in Nat
      BY ParametersAssumption DEF NrDesiredSolutions
    <3>2. PutBack(after) = {}
      BY <2>1, <2>3, <3>1 DEF PutBack, AllSolutionsHaveBeenReturned
    <3>3. QED BY <2>1, <3>2
  <2>4. QED BY <2>2, <2>3
<1>3. ASSUME NEW d \in NextSolutions(item), ReturnsChild(ppi, item, d)
      PROVE  \/ i \in pool \ {ppi}
             \/ i = AfterSolution(item, d) /\ ~IsLastStage(ppi.jpol)
             \/ i = Child(ppi, d) /\ ~IsLastStage(ppi.jpol)
  BY <1>1, <1>3 DEF ReturnsChild
<1>4. ASSUME NEW d \in NextSolutions(item), ReturnsBetter(ppi, d) \/ ReturnsNoBetter(ppi, d)
      PROVE  i \in pool \ {ppi}
  BY <1>4 DEF ReturnsBetter, ReturnsNoBetter
<1>5. ASSUME NEW d \in NextSolutions(item), Throws(ppi, item, d)
      PROVE  i \in pool \ {ppi} \/ i = AfterSolution(item, d)
  BY <1>5 DEF Throws
<1>6. QED BY <1>2, <1>3, <1>4, <1>5 DEF ItemStep

(* The item that is put back has no more left than can be asked for.       *)
LEMMA AfterIsCounted ==
  ASSUME PoolInv, NEW ppi \in pool, NEW item \in Drop(ppi), NEW d \in NextSolutions(item)
  PROVE  LET after == AfterSolution(item, d)
         IN Cardinality(after.left) + after.calls <= NrJPolBGs
<1>1. /\ ppi.left \in SUBSET Rules /\ item.left \in SUBSET Rules
      /\ item.left \subseteq ppi.left /\ d \in item.left /\ ppi.calls \in Nat
  BY ItemTypes, DropEffect, NextSolutionIsLeft DEF PoolInv, TypeInv
<1>2. /\ AfterSolution(item, d).left = item.left \ {d}
      /\ AfterSolution(item, d).calls = ppi.calls + 1
  BY AfterEffect DEF PoolInv
<1>3. /\ IsFiniteSet(ppi.left) /\ IsFiniteSet(item.left)
      /\ Cardinality(ppi.left) \in Nat /\ Cardinality(item.left) \in Nat
  BY <1>1, LeftIsFinite
<1>4. Cardinality(item.left) <= Cardinality(ppi.left)
  BY <1>1, <1>3, FS_Subset
<1>5. Cardinality(item.left \ {d}) = Cardinality(item.left) - 1
  BY <1>1, <1>3, FS_RemoveElement
<1>6. Cardinality(ppi.left) + ppi.calls <= NrJPolBGs
  BY DEF PoolInv, LeftIsCounted
<1>7. QED BY <1>1, <1>2, <1>3, <1>4, <1>5, <1>6, ParametersAssumption

(* Every step of an item keeps the invariant of the pool.                  *)
LEMMA ItemStepPool ==
  ASSUME PoolInv, NEW ppi \in pool, NEW item \in Drop(ppi), ItemStep(ppi, item),
         pc = "planning", UNCHANGED <<problem, foundPolicy, expectedReward>>
  PROVE  PoolInv'
<1>1. TypeInv' /\ NoPolicyTwiceInPool'
  BY ItemStepTypes, ItemStepDisjoint DEF PoolInv
<1>2. ASSUME NEW i \in pool'
      PROVE  i.past = Reward[problem][i.jpol] /\ Cardinality(i.left) + i.calls <= NrJPolBGs
  <2>1. CASE i \in pool \ {ppi}
    BY <2>1 DEF PoolInv, PastRewardsExact, LeftIsCounted
  <2>2. CASE i = AfterNoSolution(item) /\ item.left = {} /\ i.calls < NrJPolBGs
    <3>1. i.jpol = ppi.jpol /\ i.past = ppi.past /\ i.left = {} /\ i.calls \in Nat
      BY <2>2, AfterEffect DEF PoolInv, Items
    <3>2. Cardinality(i.left) = 0
      BY <3>1, FS_EmptySet
    <3>3. QED BY <2>2, <3>1, <3>2, ParametersAssumption DEF PoolInv, PastRewardsExact
  <2>3. ASSUME NEW d \in NextSolutions(item), i = AfterSolution(item, d)
        PROVE  i.past = Reward[problem][i.jpol] /\ Cardinality(i.left) + i.calls <= NrJPolBGs
    <3>1. i.jpol = ppi.jpol /\ i.past = ppi.past
      BY <2>3, AfterEffect DEF PoolInv
    <3>2. QED BY <2>3, <3>1, AfterIsCounted DEF PoolInv, PastRewardsExact
  <2>4. ASSUME NEW d \in NextSolutions(item), i = Child(ppi, d)
        PROVE  i.past = Reward[problem][i.jpol] /\ Cardinality(i.left) + i.calls <= NrJPolBGs
    <3>1. d \in Rules
      BY NextSolutionIsLeft DEF PoolInv
    <3>2. i.left = Rules /\ i.calls = 0
      BY <2>4, <3>1, ChildIsItem DEF PoolInv
    <3>3. Rules \in SUBSET Rules
      OBVIOUS
    <3>4. Cardinality(i.left) \in Nat /\ Cardinality(i.left) <= NrJPolBGs
      BY <3>2, <3>3, LeftIsFinite
    <3>5. i.past = Reward[problem][i.jpol]
      BY <2>4, <3>1, ChildIsExact DEF PoolInv
    <3>6. QED BY <3>2, <3>4, <3>5, ParametersAssumption
  <2>5. QED BY <2>1, <2>2, <2>3, <2>4, ItemStepOrigin DEF PoolInv
<1>3. PastRewardsExact' /\ LeftIsCounted'
  BY <1>2 DEF PastRewardsExact, LeftIsCounted
<1>4. QED BY <1>1, <1>3 DEF PoolInv

(* A call of Plan() begins with all policies below one item.               *)
LEMMA StartPlanPool == PoolInv /\ StartPlan => PoolInv'
<1> SUFFICES ASSUME PoolInv, StartPlan PROVE PoolInv'
  OBVIOUS
<1> DEFINE root == NewPPI(EmptyPolicy, 0, PlusMax)
<1>1. TypeInv' /\ pool' = {root} /\ UNCHANGED problem /\ problem \in Problems
  BY StartPlanTypes DEF PoolInv, StartPlan, TypeInv, TypeOK
<1>2. root.jpol = EmptyPolicy /\ root.past = 0 /\ root.left = Rules /\ root.calls = 0
  BY DEF NewPPI
<1> HIDE DEF root
<1>3. Cardinality(root.left) \in Nat /\ Cardinality(root.left) <= NrJPolBGs
  BY <1>2, LeftIsFinite
<1>4. PastRewardsExact'
  BY <1>1, <1>2, ProblemsAssumption DEF PastRewardsExact
<1>5. LeftIsCounted'
  BY <1>1, <1>2, <1>3, ParametersAssumption DEF LeftIsCounted
<1>6. NoPolicyTwiceInPool'
  BY <1>1 DEF NoPolicyTwiceInPool
<1>7. QED BY <1>1, <1>4, <1>5, <1>6 DEF PoolInv

(* Every action keeps the invariant of the pool.                           *)
LEMMA PoolInvStep == PoolInv /\ [Next]_vars => PoolInv'
<1> SUFFICES ASSUME PoolInv, [Next]_vars PROVE PoolInv'
  OBVIOUS
<1>1. CASE Expand \/ ThrowParentGoesUp
  BY <1>1, ExpandEffect, ItemStepPool DEF PoolInv
<1>2. CASE UNCHANGED vars
  BY <1>2, TypeInvStep
  DEF vars, PoolInv, PastRewardsExact, NoPolicyTwiceInPool, LeftIsCounted, Below
<1>3. CASE EndPlan \/ DeadlineExceeded
  BY <1>3, EndTypes
  DEF EndPlan, DeadlineExceeded, PoolInv, PastRewardsExact, NoPolicyTwiceInPool,
      LeftIsCounted, Below
<1>4. QED BY <1>1, <1>2, <1>3, StartPlanPool DEF Next

(* There is no pool before the first call of Plan().                       *)
LEMMA PoolInvInit == Init => PoolInv
BY TypeInvInit DEF Init, PoolInv, PastRewardsExact, NoPolicyTwiceInPool, LeftIsCounted

(* The past rewards that items carry along a chain of extensions are       *)
(* exact, and no complete policy is searched for from two items.           *)
THEOREM PoolIsExact == Spec => [](PastRewardsExact /\ NoPolicyTwiceInPool)
<1>1. PoolInv => PastRewardsExact /\ NoPolicyTwiceInPool
  BY DEF PoolInv
<1>2. QED BY <1>1, PoolInvInit, PoolInvStep, PTL DEF Spec

-----------------------------------------------------------------------------
(***************************************************************************)
(* Values.  The solver orders the BG policies of an item by payoff, and    *)
(* the heuristic values of the children are in the same order: they add    *)
(* the same past reward to payoffs of the same, positive, weight.          *)
(***************************************************************************)

ValueOf(ppi, d) == HeuristicValue(problem, ppi.jpol, ppi.past, d)

(* A product with a positive weight keeps and reflects the order.          *)
LEMMA WeightKeepsOrder ==
  ASSUME NEW v \in Nat \ {0}, NEW w \in Nat \ {0}, NEW a \in Int, NEW b \in Int, v * a <= v * b
  PROVE  w * a <= w * b
<1>1. a <= b
  <2> SUFFICES ASSUME b < a PROVE FALSE
    OBVIOUS
  <2>1. v * b < v * a
    <3>1. a - b \in Nat \ {0}
      OBVIOUS
    <3>2. v * (a - b) > 0
      BY <3>1
    <3>3. v * (a - b) = v * a - v * b
      OBVIOUS
    <3>4. v * a \in Int /\ v * b \in Int
      OBVIOUS
    <3>5. QED BY <3>2, <3>3, <3>4
  <2>2. v * a \in Int /\ v * b \in Int
    OBVIOUS
  <2>3. QED BY <2>1, <2>2
<1>2. QED BY <1>1

(* The parts that a value is made of.                                      *)
LEMMA ValueParts ==
  ASSUME TypeInv, NEW ppi \in pool, NEW d \in Rules
  PROVE  LET payoff == Payoff[problem][Append(ppi.jpol, d)]
             stage == Stage(ppi.jpol)
         IN /\ payoff \in Int
            /\ Weight[problem][0] \in Nat \ {0}
            /\ stage \in 0..Horizon-1
            /\ Weight[problem][stage] \in Nat \ {0}
            /\ Weight[problem][0] * payoff \in Int
            /\ Weight[problem][stage] * payoff \in Int
            /\ BGPayoff(ppi, d) = Weight[problem][0] * payoff
            /\ ValueOf(ppi, d) = ppi.past + Weight[problem][stage] * payoff
            /\ ValueOf(ppi, d) \in Int
<1>1. ppi.jpol \in Policies /\ Len(ppi.jpol) < Horizon /\ problem \in Problems /\ ppi.past \in Int
  BY ItemTypes DEF TypeInv, Unfinished
<1>2. Append(ppi.jpol, d) \in Policies
  BY <1>1, AppendIsPolicy
<1>3. Payoff[problem][Append(ppi.jpol, d)] \in Int
  BY <1>1, <1>2, RewardsAreIntegers
<1>4. Stage(ppi.jpol) \in 0..Horizon-1 /\ 0 \in 0..Horizon-1
  BY <1>1, PolicyIsSequence, ParametersAssumption DEF Stage
<1>5. Weight[problem][0] \in Nat \ {0} /\ Weight[problem][Stage(ppi.jpol)] \in Nat \ {0}
  BY <1>1, <1>4, WeightsArePositive
<1>6. /\ Weight[problem][0] * Payoff[problem][Append(ppi.jpol, d)] \in Int
      /\ Weight[problem][Stage(ppi.jpol)] * Payoff[problem][Append(ppi.jpol, d)] \in Int
  BY <1>3, <1>5
<1>7. ValueOf(ppi, d) \in Int
  BY <1>1, HeuristicValueIsInteger DEF ValueOf
<1>8. QED BY <1>3, <1>4, <1>5, <1>6, <1>7 DEF BGPayoff, ValueOf, HeuristicValue, Discounted

(* The policy that is returned has the greatest value of those left.       *)
LEMMA ReturnedIsGreatest ==
  ASSUME TypeInv, NEW ppi \in pool, NEW item \in Drop(ppi), NEW d \in NextSolutions(item),
         NEW c \in item.left
  PROVE  ValueOf(ppi, c) <= ValueOf(ppi, d)
<1>1. item.jpol = ppi.jpol /\ item.left \subseteq ppi.left
  BY DropEffect
<1>2. c \in Rules /\ d \in Rules
  BY <1>1, NextSolutionIsLeft, ItemTypes DEF TypeInv
<1>3. BGPayoff(ppi, c) <= BGPayoff(ppi, d)
  BY <1>1 DEF NextSolutions, BGPayoff
<1> DEFINE a == Payoff[problem][Append(ppi.jpol, c)]
           b == Payoff[problem][Append(ppi.jpol, d)]
           v == Weight[problem][0]
           w == Weight[problem][Stage(ppi.jpol)]
<1>4. /\ a \in Int /\ v \in Nat \ {0} /\ w \in Nat \ {0} /\ w * a \in Int
      /\ BGPayoff(ppi, c) = v * a /\ ValueOf(ppi, c) = ppi.past + w * a
  BY <1>2, ValueParts
<1>5. /\ b \in Int /\ w * b \in Int
      /\ BGPayoff(ppi, d) = v * b /\ ValueOf(ppi, d) = ppi.past + w * b
  BY <1>2, ValueParts
<1>6. ppi.past \in Int
  BY ItemTypes DEF TypeInv
<1> HIDE DEF a, b, v, w
<1>7. w * a <= w * b
  BY <1>3, <1>4, <1>5, WeightKeepsOrder
<1>8. QED BY <1>4, <1>5, <1>6, <1>7

(* The value of an item of stage 0 is not lowered, unless it is done; that *)
(* of an item that was asked is that of the child it generated last.       *)
RootIsUnbounded ==
  \A i \in pool : Stage(i.jpol) = 0 => i.left = {} \/ i.value = PlusMax

LaterAreLower ==
  \A i \in pool : \A d \in i.left :
    0 < Stage(i.jpol) /\ Stage(i.jpol) < Horizon - 1 /\ i.calls > 0 => ValueOf(i, d) <= i.value

ValueInv == PoolInv /\ RootIsUnbounded /\ LaterAreLower

(* Every step of an item keeps both.                                       *)
LEMMA ItemStepValues ==
  ASSUME ValueInv, NEW ppi \in pool, NEW item \in Drop(ppi), ItemStep(ppi, item),
         pc = "planning", UNCHANGED <<problem, foundPolicy, expectedReward>>
  PROVE  ValueInv'
<1>1. PoolInv' /\ TypeInv
  BY ItemStepPool DEF ValueInv, PoolInv
<1>2. ASSUME NEW i \in pool'
      PROVE  /\ Stage(i.jpol) = 0 => i.left = {} \/ i.value = PlusMax
             /\ \A c \in i.left :
                  0 < Stage(i.jpol) /\ Stage(i.jpol) < Horizon - 1 /\ i.calls > 0
                    => HeuristicValue(problem, i.jpol, i.past, c) <= i.value
  <2>1. CASE i \in pool \ {ppi}
    BY <2>1 DEF ValueInv, RootIsUnbounded, LaterAreLower, ValueOf
  <2>2. CASE i = AfterNoSolution(item) /\ item.left = {} /\ i.calls < NrJPolBGs
    <3>1. i.left = {}
      BY <1>1, <2>2, AfterEffect
    <3>2. QED BY <3>1
  <2>3. ASSUME NEW d \in NextSolutions(item), i = AfterSolution(item, d)
        PROVE  /\ Stage(i.jpol) = 0 => i.left = {} \/ i.value = PlusMax
               /\ \A c \in i.left :
                    0 < Stage(i.jpol) /\ Stage(i.jpol) < Horizon - 1 /\ i.calls > 0
                      => HeuristicValue(problem, i.jpol, i.past, c) <= i.value
    <3>1. /\ i.jpol = ppi.jpol /\ i.past = ppi.past /\ i.left = item.left \ {d}
          /\ i.value = IF Stage(ppi.jpol) > 0 THEN Child(ppi, d).value ELSE ppi.value
      BY <1>1, <2>3, AfterEffect
    <3>2. item.left \subseteq ppi.left /\ d \in ppi.left /\ d \in Rules
      BY <1>1, DropEffect, NextSolutionIsLeft
    <3>3. Stage(ppi.jpol) \in 0..Horizon-1
      BY <1>1, <3>2, ValueParts
    <3>4. CASE Stage(ppi.jpol) = 0
      BY <3>1, <3>2, <3>4 DEF ValueInv, RootIsUnbounded
    <3>5. CASE Stage(ppi.jpol) > 0
      <4>1. ASSUME NEW c \in i.left, Stage(ppi.jpol) < Horizon - 1
            PROVE  HeuristicValue(problem, i.jpol, i.past, c) <= i.value
        <5>1. ~IsLastStage(ppi.jpol)
          BY <3>3, <4>1, ParametersAssumption DEF IsLastStage
        <5>2. i.value = ValueOf(ppi, d)
          BY <3>1, <3>2, <3>5, <5>1, ChildIsExact DEF ValueInv, PoolInv, ValueOf
        <5>3. ValueOf(ppi, c) <= ValueOf(ppi, d)
          BY <1>1, <3>1, <4>1, ReturnedIsGreatest
        <5>4. QED BY <3>1, <5>2, <5>3 DEF ValueOf
      <4>2. QED BY <3>1, <3>3, <3>5, <4>1
    <3>6. QED BY <3>3, <3>4, <3>5
  <2>4. ASSUME NEW d \in NextSolutions(item), i = Child(ppi, d)
        PROVE  Stage(i.jpol) > 0 /\ i.calls = 0
    BY <1>1, <2>4, NextSolutionIsLeft, ChildIsItem DEF Stage
  <2>5. QED BY <1>1, <2>1, <2>2, <2>3, <2>4, ItemStepOrigin
<1>3. RootIsUnbounded' /\ LaterAreLower'
  BY <1>2 DEF RootIsUnbounded, LaterAreLower, ValueOf
<1>4. QED BY <1>1, <1>3 DEF ValueInv

(* Every action keeps both.                                                *)
LEMMA ValueInvStep == ValueInv /\ [Next]_vars => ValueInv'
<1> SUFFICES ASSUME ValueInv, [Next]_vars PROVE ValueInv'
  OBVIOUS
<1>1. CASE Expand \/ ThrowParentGoesUp
  BY <1>1, ExpandEffect, ItemStepValues DEF ValueInv, PoolInv
<1>2. PoolInv'
  BY PoolInvStep DEF ValueInv
<1>3. CASE UNCHANGED vars
  BY <1>2, <1>3 DEF vars, ValueInv, RootIsUnbounded, LaterAreLower, ValueOf
<1>4. CASE EndPlan \/ DeadlineExceeded
  BY <1>2, <1>4
  DEF EndPlan, DeadlineExceeded, ValueInv, RootIsUnbounded, LaterAreLower, ValueOf
<1>5. CASE StartPlan
  BY <1>2, <1>5
  DEF StartPlan, ValueInv, RootIsUnbounded, LaterAreLower, NewPPI
<1>6. QED BY <1>1, <1>3, <1>4, <1>5 DEF Next

(* What is left to an item is bounded by its value, also when the solver   *)
(* compares payoffs with a bound that is too high: for every problem.      *)
LEMMA ValueInvImpliesBounded == ValueInv => UnreturnedChildrenAreBounded
<1> SUFFICES ASSUME ValueInv, NEW i \in pool, NEW d \in i.left,
                    Stage(i.jpol) < Horizon - 1, i.calls > 0
             PROVE  ValueOf(i, d) <= i.value
  BY DEF UnreturnedChildrenAreBounded, ValueOf
<1>1. d \in Rules /\ i.jpol \in Policies /\ problem \in Problems /\ Len(i.jpol) < Horizon
  BY ItemTypes DEF ValueInv, PoolInv, TypeInv, Unfinished
<1>2. Stage(i.jpol) \in 0..Horizon-1
  BY <1>1, ValueParts DEF ValueInv, PoolInv
<1>3. CASE Stage(i.jpol) = 0
  <2>1. i.value = PlusMax
    BY <1>3 DEF ValueInv, RootIsUnbounded
  <2>2. i.past = Reward[problem][i.jpol]
    BY DEF ValueInv, PoolInv, PastRewardsExact
  <2>3. QED BY <1>1, <2>1, <2>2, ValuesAssumption DEF ValueOf
<1>4. CASE Stage(i.jpol) > 0
  BY <1>4 DEF ValueInv, LaterAreLower
<1>5. QED BY <1>2, <1>3, <1>4

(* An item that is put back still bounds the children it has not made.     *)
THEOREM PutBackItemsAreBounds == Spec => []UnreturnedChildrenAreBounded
<1>1. Init => ValueInv
  BY PoolInvInit DEF Init, ValueInv, RootIsUnbounded, LaterAreLower
<1>2. QED BY <1>1, ValueInvStep, ValueInvImpliesBounded, PTL DEF Spec

-----------------------------------------------------------------------------
(***************************************************************************)
(* The exception.  With a consistent heuristic that is exact at the last   *)
(* stage the value of an item bounds all that is left to it, at every      *)
(* stage but the first, so that no child is above it.                      *)
(***************************************************************************)

BoundsWhatIsLeft ==
  \A i \in pool : \A d \in i.left : Stage(i.jpol) > 0 => ValueOf(i, d) <= i.value

Monotone == Consistent(problem) /\ ExactAtLastStage(problem)

MonotoneInv == ValueInv /\ (Monotone => BoundsWhatIsLeft /\ pc # "error")

(* A child has the value the heuristic gives it, also at the last stage.   *)
LEMMA ChildHasItsValue ==
  ASSUME ValueInv, ExactAtLastStage(problem), NEW ppi \in pool, NEW d \in Rules
  PROVE  Child(ppi, d).value = ValueOf(ppi, d)
<1>1. CASE ~IsLastStage(ppi.jpol)
  BY <1>1, ChildIsExact DEF ValueInv, PoolInv, ValueOf
<1>2. CASE IsLastStage(ppi.jpol)
  <2>1. ppi.jpol \in Policies /\ ppi.past \in Int
    BY ItemTypes DEF ValueInv, PoolInv, TypeInv
  <2>2. ppi.jpol \in OfDepth(Horizon - 1)
    BY <1>2, <2>1, PolicyIsSequence DEF IsLastStage, Stage, OfDepth
  <2>3. Discounted(problem, Horizon - 1, Payoff[problem][Append(ppi.jpol, d)])
          = ImmediateReward(problem, ppi.jpol, d)
    BY <2>2 DEF ExactAtLastStage
  <2>4. ValueOf(ppi, d) = ppi.past + ImmediateReward(problem, ppi.jpol, d)
    BY <1>2, <2>3 DEF ValueOf, HeuristicValue, IsLastStage
  <2>5. Child(ppi, d).value = ppi.past + ImmediateReward(problem, ppi.jpol, d)
    BY <1>2 DEF Child, NewPPI
  <2>6. QED BY <2>4, <2>5
<1>3. QED BY <1>1, <1>2

(* No step of an item ends with the exception.                             *)
LEMMA ItemStepMonotone ==
  ASSUME ValueInv, Monotone, BoundsWhatIsLeft, pc # "error",
         NEW ppi \in pool, NEW item \in Drop(ppi), ItemStep(ppi, item), UNCHANGED problem
  PROVE  BoundsWhatIsLeft' /\ UNCHANGED pc
<1>1. TypeInv /\ ExactAtLastStage(problem) /\ Consistent(problem)
  BY DEF ValueInv, PoolInv, Monotone
<1>2. ASSUME NEW d \in NextSolutions(item) PROVE ~ParentGoesUp(ppi, Child(ppi, d))
  <2>1. d \in ppi.left /\ d \in Rules
    BY <1>1, NextSolutionIsLeft
  <2>2. Child(ppi, d).value = ValueOf(ppi, d) /\ ValueOf(ppi, d) \in Int /\ ppi.value \in Int
    BY <1>1, <2>1, ChildHasItsValue, ValueParts, ItemTypes DEF TypeInv
  <2>3. Stage(ppi.jpol) > 0 => ValueOf(ppi, d) <= ppi.value
    BY <2>1 DEF BoundsWhatIsLeft
  <2>4. QED BY <2>2, <2>3 DEF ParentGoesUp
<1>3. UNCHANGED pc
  BY <1>2 DEF ItemStep, ReturnsNothing, ReturnsChild, ReturnsBetter, ReturnsNoBetter, Throws
<1>4. ASSUME NEW i \in pool', NEW c \in i.left, Stage(i.jpol) > 0
      PROVE  HeuristicValue(problem, i.jpol, i.past, c) <= i.value
  <2>1. CASE i \in pool \ {ppi}
    BY <1>4, <2>1 DEF BoundsWhatIsLeft, ValueOf
  <2>2. CASE i = AfterNoSolution(item) /\ item.left = {}
    BY <1>1, <1>4, <2>2, AfterEffect
  <2>3. ASSUME NEW d \in NextSolutions(item), i = AfterSolution(item, d)
        PROVE  HeuristicValue(problem, i.jpol, i.past, c) <= i.value
    <3>1. /\ i.jpol = ppi.jpol /\ i.past = ppi.past /\ i.left = item.left \ {d}
          /\ i.value = IF Stage(ppi.jpol) > 0 THEN Child(ppi, d).value ELSE ppi.value
      BY <1>1, <2>3, AfterEffect
    <3>2. i.value = ValueOf(ppi, d)
      BY <1>1, <1>4, <3>1, NextSolutionIsLeft, ChildHasItsValue
    <3>3. ValueOf(ppi, c) <= ValueOf(ppi, d)
      BY <1>1, <1>4, <3>1, ReturnedIsGreatest
    <3>4. QED BY <3>1, <3>2, <3>3 DEF ValueOf
  <2>4. ASSUME NEW d \in NextSolutions(item), i = Child(ppi, d), ~IsLastStage(ppi.jpol)
        PROVE  HeuristicValue(problem, i.jpol, i.past, c) <= i.value
    <3>1. d \in Rules
      BY <1>1, NextSolutionIsLeft
    <3>2. i.jpol = Append(ppi.jpol, d) /\ i.left = Rules /\ Len(ppi.jpol) \in 0..Horizon-1
      BY <1>1, <2>4, <3>1, ChildIsItem
    <3>3. i.past = Reward[problem][Append(ppi.jpol, d)] /\ i.value = ValueOf(ppi, d)
      BY <1>1, <2>4, <3>1, <3>2, ChildIsExact, ChildHasItsValue DEF ValueInv, PoolInv
    <3>4. Len(ppi.jpol) < Horizon - 1 /\ ppi.jpol \in Policies
      BY <1>1, <2>4, <3>2, ParametersAssumption, ItemTypes DEF IsLastStage, Stage, TypeInv
    <3>5. ppi.past = Reward[problem][ppi.jpol] /\ c \in Rules
      BY <1>4, <3>2 DEF ValueInv, PoolInv, PastRewardsExact
    <3>6. QED BY <1>1, <3>1, <3>2, <3>3, <3>4, <3>5 DEF Consistent, ValueOf
  <2>5. QED BY <1>1, <2>1, <2>2, <2>3, <2>4, ItemStepOrigin
<1>5. QED BY <1>3, <1>4 DEF BoundsWhatIsLeft, ValueOf

(* Every action keeps the invariant.                                       *)
LEMMA MonotoneInvStep == MonotoneInv /\ [Next]_vars => MonotoneInv'
<1> SUFFICES ASSUME MonotoneInv, [Next]_vars PROVE MonotoneInv'
  OBVIOUS
<1>1. ValueInv' /\ ValueInv /\ TypeInv
  BY ValueInvStep DEF MonotoneInv, ValueInv, PoolInv
<1>2. UNCHANGED problem
  BY <1>1, ExpandEffect DEF Next, StartPlan, DeadlineExceeded, EndPlan, vars
<1>3. Monotone' <=> Monotone
  BY <1>2 DEF Monotone
<1>4. ASSUME Monotone PROVE BoundsWhatIsLeft' /\ pc' # "error"
  <2>1. BoundsWhatIsLeft /\ pc # "error"
    BY <1>4 DEF MonotoneInv
  <2>2. CASE Expand \/ ThrowParentGoesUp
    BY <1>1, <1>2, <1>4, <2>1, <2>2, ExpandEffect, ItemStepMonotone
  <2>3. CASE UNCHANGED vars
    BY <2>1, <2>3 DEF vars, BoundsWhatIsLeft, ValueOf
  <2>4. CASE EndPlan \/ DeadlineExceeded
    BY <2>1, <2>4 DEF EndPlan, DeadlineExceeded, BoundsWhatIsLeft, ValueOf
  <2>5. CASE StartPlan
    <3>1. \A i \in pool' : i.jpol = EmptyPolicy
      BY <2>5 DEF StartPlan, NewPPI
    <3>2. \A i \in pool' : ~(Stage(i.jpol) > 0)
      BY <3>1, EmptyPolicyIsExtended DEF Stage
    <3>3. QED BY <2>5, <3>2 DEF StartPlan, BoundsWhatIsLeft
  <2>6. QED BY <2>2, <2>3, <2>4, <2>5 DEF Next
<1>5. QED BY <1>1, <1>3, <1>4 DEF MonotoneInv

(* For problems whose heuristic is exact at the last stage, the exception  *)
(* is never thrown when the heuristic is consistent.                       *)
THEOREM ConsistentHeuristicsNeverThrow ==
  Spec => [](ExactAtLastStage(problem) => ParentOnlyGoesDown)
<1>1. Init => MonotoneInv
  BY PoolInvInit
  DEF Init, MonotoneInv, ValueInv, RootIsUnbounded, LaterAreLower, BoundsWhatIsLeft
<1>2. MonotoneInv => (ExactAtLastStage(problem) => ParentOnlyGoesDown)
  BY DEF MonotoneInv, Monotone, ParentOnlyGoesDown
<1>3. QED BY <1>1, <1>2, MonotoneInvStep, PTL DEF Spec

-----------------------------------------------------------------------------
(***************************************************************************)
(* The search.  For a problem with SearchIsSound, the complete policies    *)
(* below an item are bounded by its value, and each is below an item or no *)
(* better than the best policy found.  What is lost on the way is what the *)
(* solver dropped, what was pruned and what is left at the last stage.     *)
(***************************************************************************)

ValuesBound == \A i \in pool : \A pi \in Below(i) : Reward[problem][pi] <= i.value

RestIsNoBetter ==
  pc = "planning" =>
    \A pi \in FullPolicies :
      Reward[problem][pi] <= maxLowerBound \/ \E i \in pool : pi \in Below(i)

BestIsExact ==
  maxLowerBound # MinusMax =>
    /\ bestJPol.jpol \in FullPolicies
    /\ Reward[problem][bestJPol.jpol] = maxLowerBound
    /\ bestJPol.past = maxLowerBound

AnswerIsKept ==
  pc = "ended" => foundPolicy = bestJPol /\ expectedReward = maxLowerBound

AnswerIsBest ==
  pc = "ended" => \A pi \in FullPolicies : Reward[problem][pi] <= maxLowerBound

SearchInv ==
  /\ ValueInv
  /\ BestIsExact
  /\ AnswerIsKept
  /\ SearchIsSound(problem) => ValuesBound /\ RestIsNoBetter /\ AnswerIsBest

(* A complete policy below an item is bounded by the value of the child it *)
(* is below; at the last stage it is that child.                           *)
LEMMA BelowIsBounded ==
  ASSUME ValueInv, SearchIsSound(problem), NEW ppi \in pool,
         NEW pi \in FullPolicies, Extends(pi, ppi.jpol)
  PROVE  /\ pi[Len(ppi.jpol) + 1] \in Rules
         /\ Reward[problem][pi] \in Int
         /\ Reward[problem][pi] <= ValueOf(ppi, pi[Len(ppi.jpol) + 1])
<1> DEFINE d == pi[Len(ppi.jpol) + 1]
<1>1. ppi.jpol \in Policies /\ Len(ppi.jpol) < Horizon /\ problem \in Problems /\ TypeInv
  BY ItemTypes DEF ValueInv, PoolInv, TypeInv, Unfinished
<1>2. d \in Rules /\ Extends(pi, Append(ppi.jpol, d))
  BY <1>1, NextRuleExtends
<1>3. ppi.past = Reward[problem][ppi.jpol]
  BY DEF ValueInv, PoolInv, PastRewardsExact
<1>4. Reward[problem][pi] \in Int
  BY <1>1, FullPolicyIsPolicy, RewardsAreIntegers
<1> HIDE DEF d
<1>5. CASE IsLastStage(ppi.jpol)
  <2>1. Append(ppi.jpol, d) \in FullPolicies
    BY <1>1, <1>2, <1>5, AppendIsPolicy
  <2>2. pi = Append(ppi.jpol, d)
    BY <1>2, <2>1, ExtendsFullPolicy
  <2>3. Child(ppi, d).value = ValueOf(ppi, d)
    BY <1>2, ChildHasItsValue DEF SearchIsSound
  <2>4. Child(ppi, d).value = Reward[problem][Child(ppi, d).jpol]
    BY <1>2, <1>5, ChildIsExact DEF ValueInv, PoolInv
  <2>5. Child(ppi, d).jpol = Append(ppi.jpol, d)
    BY <1>1, <1>2, ChildIsItem
  <2>6. Reward[problem][pi] = ValueOf(ppi, d)
    BY <2>2, <2>3, <2>4, <2>5
  <2>7. Reward[problem][pi] <= ValueOf(ppi, d)
    BY <1>4, <2>6
  <2>8. QED BY <1>2, <1>4, <2>7 DEF d
<1>6. CASE ~IsLastStage(ppi.jpol)
  <2>1. Len(ppi.jpol) < Horizon - 1
    <3>1. Len(ppi.jpol) \in 0..Horizon
      BY <1>1, PolicyIsSequence
    <3>2. QED BY <1>1, <1>6, <3>1, ParametersAssumption DEF IsLastStage, Stage
  <2>2. Admissible(problem, 0)
    BY DEF SearchIsSound
  <2>3. Reward[problem][pi] <= HeuristicValue(problem, ppi.jpol, Reward[problem][ppi.jpol], d) + 0
    BY <1>1, <1>2, <2>1, <2>2 DEF Admissible
  <2>4. ValueOf(ppi, d) \in Int
    BY <1>1, <1>2, ValueParts
  <2>5. Reward[problem][pi] <= ValueOf(ppi, d)
    BY <1>3, <2>3, <2>4 DEF ValueOf
  <2>6. QED BY <1>2, <1>4, <2>5 DEF d
<1>7. QED BY <1>5, <1>6

(* What the solver drops has a value below the best lower bound.           *)
LEMMA DroppedIsNoBetter ==
  ASSUME ValueInv, SearchIsSound(problem), NEW ppi \in pool, NEW item \in Drop(ppi),
         NEW d \in ppi.left \ item.left
  PROVE  ValueOf(ppi, d) < maxLowerBound
<1>1. /\ TypeInv /\ d \in Rules /\ problem \in Problems /\ maxLowerBound \in Int
      /\ ppi.jpol \in Policies /\ ppi.past \in Int /\ Len(ppi.jpol) < Horizon
  BY ItemTypes DEF ValueInv, PoolInv, TypeInv, TypeOK, Unfinished
<1> DEFINE payoff == Payoff[problem][Append(ppi.jpol, d)]
           now == Weight[problem][Stage(ppi.jpol)] * payoff
           asIs == Weight[problem][0] * payoff
<1>2. asIs < maxLowerBound - ppi.past
  <2>1. MayBeDropped(ppi, d)
    BY <1>1, DropEffect
  <2>2. BGPayoff(ppi, d) = asIs
    BY <1>1, ValueParts
  <2>3. QED BY <2>1, <2>2 DEF MayBeDropped, CBGLowerBound
<1>3. now <= asIs
  BY <1>1 DEF SearchIsSound, BoundIsSound, Discounted
<1>4. now \in Int /\ asIs \in Int /\ ValueOf(ppi, d) = ppi.past + now
  BY <1>1, ValueParts
<1> HIDE DEF now, asIs
<1>5. QED BY <1>1, <1>2, <1>3, <1>4

(* An item that is done with has nothing left.                             *)
LEMMA PutBackUnlessDone ==
  ASSUME ValueInv, NEW ppi \in pool, ~IsLastStage(ppi.jpol),
         NEW item \in Drop(ppi), NEW d \in NextSolutions(item),
         AfterSolution(item, d).left # {}
  PROVE  PutBack(AfterSolution(item, d)) = {AfterSolution(item, d)}
<1> DEFINE after == AfterSolution(item, d)
<1>1. after.jpol = ppi.jpol /\ after \in Items
  BY AfterEffect DEF ValueInv, PoolInv
<1>2. Cardinality(after.left) + after.calls <= NrJPolBGs
  BY AfterIsCounted DEF ValueInv
<1>3. after.left \in SUBSET Rules /\ after.calls \in Nat /\ after.left # {}
  BY <1>1 DEF Items
<1> HIDE DEF after
<1>4. IsFiniteSet(after.left) /\ Cardinality(after.left) \in Nat
  BY <1>3, LeftIsFinite
<1>5. Cardinality(after.left) # 0
  BY <1>3, <1>4, FS_EmptySet
<1>6. after.calls < NrJPolBGs
  BY <1>2, <1>3, <1>4, <1>5, ParametersAssumption
<1>7. NrDesiredSolutions(after) = NrJPolBGs
  BY <1>1 DEF NrDesiredSolutions
<1>8. ~AllSolutionsHaveBeenReturned(after)
  BY <1>3, <1>6, <1>7, ParametersAssumption DEF AllSolutionsHaveBeenReturned
<1>9. QED BY <1>8 DEF PutBack, after

(* Every step of an item keeps the values of the pool above what is below  *)
(* its items.                                                              *)
LEMMA ItemStepBounds ==
  ASSUME ValueInv, SearchIsSound(problem), ValuesBound,
         NEW ppi \in pool, NEW item \in Drop(ppi), ItemStep(ppi, item), UNCHANGED problem
  PROVE  ValuesBound'
<1>1. TypeInv
  BY DEF ValueInv, PoolInv
<1>2. ASSUME NEW i \in pool', NEW pi \in Below(i)
      PROVE  Reward[problem][pi] <= i.value
  <2>1. CASE i \in pool \ {ppi}
    BY <1>2, <2>1 DEF ValuesBound
  <2>2. CASE i = AfterNoSolution(item) /\ item.left = {}
    BY <1>1, <1>2, <2>2, AfterEffect DEF Below
  <2>3. ASSUME NEW d \in NextSolutions(item), i = AfterSolution(item, d)
        PROVE  Reward[problem][pi] <= i.value
    <3>1. /\ i.jpol = ppi.jpol /\ i.left = item.left \ {d}
          /\ i.value = IF Stage(ppi.jpol) > 0 THEN Child(ppi, d).value ELSE ppi.value
      BY <1>1, <2>3, AfterEffect
    <3>2. d \in Rules
      BY <1>1, NextSolutionIsLeft
    <3>3. CASE ~(Stage(ppi.jpol) > 0)
      <4>1. pi \in Below(ppi)
        BY <1>1, <1>2, <2>3, BelowAfter
      <4>2. QED BY <3>1, <3>3, <4>1 DEF ValuesBound
    <3>4. CASE Stage(ppi.jpol) > 0
      <4> DEFINE c == pi[Len(ppi.jpol) + 1]
      <4>1. pi \in FullPolicies /\ Extends(pi, ppi.jpol) /\ c \in item.left
        BY <1>2, <3>1 DEF Below
      <4>2. Reward[problem][pi] \in Int /\ Reward[problem][pi] <= ValueOf(ppi, c) /\ c \in Rules
        BY <4>1, BelowIsBounded
      <4> HIDE DEF c
      <4>3. ValueOf(ppi, c) <= ValueOf(ppi, d)
        BY <1>1, <4>1, ReturnedIsGreatest
      <4>4. i.value = ValueOf(ppi, d)
        BY <3>1, <3>2, <3>4, ChildHasItsValue DEF SearchIsSound
      <4>5. ValueOf(ppi, c) \in Int /\ ValueOf(ppi, d) \in Int
        BY <1>1, <3>2, <4>2, ValueParts
      <4>6. QED BY <4>2, <4>3, <4>4, <4>5
    <3>5. QED BY <3>3, <3>4
  <2>4. ASSUME NEW d \in NextSolutions(item), i = Child(ppi, d)
        PROVE  Reward[problem][pi] <= i.value
    <3>1. d \in ppi.left /\ d \in Rules
      BY <1>1, NextSolutionIsLeft
    <3>2. pi \in Below(ppi) /\ pi[Len(ppi.jpol) + 1] = d
      BY <1>1, <1>2, <2>4, <3>1, BelowChild
    <3>3. Reward[problem][pi] <= ValueOf(ppi, d)
      BY <3>2, BelowIsBounded DEF Below
    <3>4. QED BY <2>4, <3>1, <3>3, ChildHasItsValue DEF SearchIsSound
  <2>5. QED BY <1>1, <2>1, <2>2, <2>3, <2>4, ItemStepOrigin
<1>3. QED BY <1>2 DEF ValuesBound, Below

(* A complete policy that was below the item that was expanded is below    *)
(* what took its place, or no better than the best policy now.             *)
LEMMA ExpandedIsCovered ==
  ASSUME SearchInv, SearchIsSound(problem), NEW ppi \in pool, NEW item \in Drop(ppi),
         ItemStep(ppi, item), UNCHANGED problem, pc' = "planning", TypeInv',
         NEW pi \in Below(ppi)
  PROVE  Reward[problem][pi] <= maxLowerBound' \/ \E i \in pool' : pi \in Below(i)
<1> DEFINE c == pi[Len(ppi.jpol) + 1]
<1>1. ValueInv /\ TypeInv
  BY DEF SearchInv, ValueInv, PoolInv
<1>2. pi \in FullPolicies /\ Extends(pi, ppi.jpol) /\ c \in ppi.left
  BY DEF Below
<1>3. Reward[problem][pi] \in Int /\ Reward[problem][pi] <= ValueOf(ppi, c) /\ c \in Rules
  BY <1>1, <1>2, BelowIsBounded
<1>4. ValueOf(ppi, c) \in Int /\ maxLowerBound \in Int /\ maxLowerBound' \in Int
  BY <1>1, <1>3, ValueParts DEF TypeInv, TypeOK
<1>5. maxLowerBound <= maxLowerBound'
  <2>1. \A d \in NextSolutions(item) : Child(ppi, d).value \in Int
    BY <1>1, NextSolutionIsLeft, ChildIsItem DEF Items
  <2>2. QED
    BY <1>4, <2>1 DEF ItemStep, ReturnsNothing, ReturnsChild, ReturnsBetter, ReturnsNoBetter, Throws
<1>6. CASE c \notin item.left
  <2> HIDE DEF c
  <2>1. c \in ppi.left \ item.left
    BY <1>2, <1>6
  <2>2. ValueOf(ppi, c) < maxLowerBound
    BY <1>1, <2>1, DroppedIsNoBetter
  <2>3. QED BY <1>3, <1>4, <1>5, <2>2
<1>7. CASE c \in item.left
  <2>1. ~ReturnsNothing(ppi, item)
    BY <1>7 DEF ReturnsNothing
  <2>2. PICK d \in NextSolutions(item) :
          \/ ReturnsChild(ppi, item, d)
          \/ ReturnsBetter(ppi, d)
          \/ ReturnsNoBetter(ppi, d)
    BY <2>1 DEF ItemStep, Throws
  <2>3. d \in ppi.left /\ d \in Rules
    BY <1>1, NextSolutionIsLeft
  <2>4. CASE ReturnsChild(ppi, item, d)
    <3>1. /\ ~IsLastStage(ppi.jpol)
          /\ pool' = (pool \ {ppi}) \cup PutBack(AfterSolution(item, d)) \cup {Child(ppi, d)}
      BY <2>4 DEF ReturnsChild
    <3>2. CASE c = d
      <4>1. /\ Child(ppi, d).jpol = Append(ppi.jpol, d) /\ Child(ppi, d).left = Rules
            /\ Child(ppi, d) \in pool'
        BY <1>1, <2>3, <3>1, ChildIsItem
      <4>2. ppi.jpol \in Policies /\ Len(ppi.jpol) < Horizon
        BY <1>1, ItemTypes DEF TypeInv, Unfinished
      <4>3. Extends(pi, Append(ppi.jpol, d)) /\ Append(ppi.jpol, d) \in Policies
        BY <1>2, <2>3, <3>2, <4>2, NextRuleExtends, AppendIsPolicy
      <4>4. Len(Append(ppi.jpol, d)) < Horizon
        BY <4>1 DEF TypeInv, Unfinished
      <4>5. pi[Len(Append(ppi.jpol, d)) + 1] \in Rules
        BY <1>2, <4>3, <4>4, NextRuleExtends
      <4>6. pi \in Below(Child(ppi, d))
        BY <1>2, <4>1, <4>3, <4>5 DEF Below
      <4>7. QED BY <4>1, <4>6
    <3>3. CASE c # d
      <4> DEFINE after == AfterSolution(item, d)
      <4>1. after.jpol = ppi.jpol /\ after.left = item.left \ {d}
        BY <1>1, AfterEffect
      <4>2. c \in after.left
        BY <1>7, <3>3, <4>1
      <4>3. PutBack(after) = {after}
        BY <1>1, <3>1, <4>2, PutBackUnlessDone
      <4> HIDE DEF after
      <4>4. pi \in Below(after)
        BY <1>2, <4>1, <4>2 DEF Below
      <4>5. after \in pool'
        BY <3>1, <4>3 DEF after
      <4>6. QED BY <4>4, <4>5
    <3>4. QED BY <3>2, <3>3
  <2>5. CASE ReturnsBetter(ppi, d) \/ ReturnsNoBetter(ppi, d)
    <3> HIDE DEF c
    <3>1. ValueOf(ppi, c) <= ValueOf(ppi, d) /\ ValueOf(ppi, d) \in Int
      BY <1>1, <1>7, <2>3, ReturnedIsGreatest, ValueParts
    <3>2. Child(ppi, d).value = ValueOf(ppi, d)
      BY <1>1, <2>3, ChildHasItsValue DEF SearchIsSound
    <3>3. Child(ppi, d).value <= maxLowerBound'
      BY <1>4, <2>5, <3>1, <3>2 DEF ReturnsBetter, ReturnsNoBetter
    <3>4. QED BY <1>3, <1>4, <3>1, <3>2, <3>3
  <2>6. QED BY <2>2, <2>4, <2>5
<1>8. QED BY <1>6, <1>7

(* So is one that was below another item: what is pruned is no better.     *)
LEMMA ItemStepRest ==
  ASSUME SearchInv, SearchIsSound(problem), NEW ppi \in pool, NEW item \in Drop(ppi),
         ItemStep(ppi, item), UNCHANGED problem, pc = "planning", TypeInv'
  PROVE  RestIsNoBetter'
<1>1. ValueInv /\ TypeInv /\ ValuesBound /\ RestIsNoBetter /\ Slack = 0
  BY DEF SearchInv, ValueInv, PoolInv, SearchIsSound
<1>2. ASSUME pc' = "planning", NEW pi \in FullPolicies
      PROVE  Reward[problem][pi] <= maxLowerBound' \/ \E i \in pool' : pi \in Below(i)
  <2>1. Reward[problem][pi] \in Int /\ maxLowerBound \in Int /\ maxLowerBound' \in Int
    BY <1>1, FullPolicyIsPolicy, RewardsAreIntegers DEF TypeInv, TypeOK
  <2>2. \A d \in NextSolutions(item) : Child(ppi, d).value \in Int
    BY <1>1, NextSolutionIsLeft, ChildIsItem DEF Items
  <2>3. CASE Reward[problem][pi] <= maxLowerBound
    <3>1. maxLowerBound <= maxLowerBound'
      BY <2>1, <2>2
      DEF ItemStep, ReturnsNothing, ReturnsChild, ReturnsBetter, ReturnsNoBetter, Throws
    <3>2. QED BY <2>1, <2>3, <3>1
  <2>4. CASE ~(Reward[problem][pi] <= maxLowerBound)
    <3>1. PICK j \in pool : pi \in Below(j)
      BY <1>1, <2>4 DEF RestIsNoBetter
    <3>2. CASE j = ppi
      BY <1>2, <3>1, <3>2, ExpandedIsCovered
    <3>3. CASE j # ppi
      <4>1. Reward[problem][pi] <= j.value /\ j.value \in Int
        BY <1>1, <3>1, ItemTypes DEF ValuesBound, TypeInv
      <4>2. ASSUME NEW d \in NextSolutions(item), ReturnsBetter(ppi, d)
            PROVE  j \in pool' \/ Reward[problem][pi] <= maxLowerBound'
        <5>1. CASE j.value > Child(ppi, d).value - Slack
          BY <3>1, <3>3, <4>2, <5>1 DEF ReturnsBetter
        <5>2. CASE ~(j.value > Child(ppi, d).value - Slack)
          BY <1>1, <2>1, <2>2, <4>1, <4>2, <5>2 DEF ReturnsBetter
        <5>3. QED BY <5>1, <5>2
      <4>3. ASSUME NEW d \in NextSolutions(item),
                   ReturnsChild(ppi, item, d) \/ ReturnsNoBetter(ppi, d) \/ Throws(ppi, item, d)
            PROVE  j \in pool'
        BY <3>1, <3>3, <4>3 DEF ReturnsChild, ReturnsNoBetter, Throws
      <4>4. ASSUME ReturnsNothing(ppi, item) PROVE j \in pool'
        BY <3>1, <3>3, <4>4 DEF ReturnsNothing
      <4>5. j \in pool' \/ Reward[problem][pi] <= maxLowerBound'
        BY <4>2, <4>3, <4>4 DEF ItemStep
      <4>6. QED BY <3>1, <4>5
    <3>4. QED BY <3>2, <3>3
  <2>5. QED BY <2>3, <2>4
<1>3. QED BY <1>2 DEF RestIsNoBetter, Below

(* The best policy found is complete and has the value kept with it.       *)
LEMMA ItemStepBest ==
  ASSUME SearchInv, NEW ppi \in pool, NEW item \in Drop(ppi), ItemStep(ppi, item),
         UNCHANGED problem
  PROVE  BestIsExact'
<1>1. ASSUME NEW d \in NextSolutions(item), ReturnsBetter(ppi, d)
      PROVE  BestIsExact'
  <2>1. d \in Rules
    BY NextSolutionIsLeft DEF SearchInv, ValueInv, PoolInv
  <2>2. /\ IsLastStage(ppi.jpol) /\ maxLowerBound' = Child(ppi, d).value
        /\ bestJPol' = [jpol |-> Child(ppi, d).jpol, past |-> Child(ppi, d).past]
    BY <1>1 DEF ReturnsBetter
  <2> DEFINE child == Child(ppi, d)
  <2>3. /\ child.past = Reward[problem][child.jpol]
        /\ child.jpol \in FullPolicies /\ child.value = child.past
    BY <2>1, <2>2, ChildIsExact DEF SearchInv, ValueInv, PoolInv
  <2>4. maxLowerBound' = child.value /\ bestJPol' = [jpol |-> child.jpol, past |-> child.past]
    BY <2>2
  <2> HIDE DEF child
  <2>5. QED BY <2>3, <2>4 DEF BestIsExact
<1>2. CASE UNCHANGED <<maxLowerBound, bestJPol>>
  BY <1>2 DEF SearchInv, BestIsExact
<1>3. QED BY <1>1, <1>2 DEF ItemStep, ReturnsNothing, ReturnsChild, ReturnsNoBetter, Throws

(* The search begins with every complete policy below the empty one.       *)
LEMMA StartPlanSearch == SearchInv /\ StartPlan => SearchInv'
<1> SUFFICES ASSUME SearchInv, StartPlan PROVE SearchInv'
  OBVIOUS
<1> DEFINE root == NewPPI(EmptyPolicy, 0, PlusMax)
<1>1. ValueInv'
  BY ValueInvStep DEF SearchInv, Next
<1>2. /\ pool' = {root} /\ pc' = "planning" /\ UNCHANGED problem /\ maxLowerBound' = MinusMax
      /\ problem \in Problems
  BY DEF StartPlan, SearchInv, ValueInv, PoolInv, TypeInv, TypeOK
<1>3. root.jpol = EmptyPolicy /\ root.left = Rules /\ root.value = PlusMax
  BY DEF NewPPI
<1> HIDE DEF root
<1>4. ASSUME NEW pi \in FullPolicies PROVE pi \in Below(root) /\ Reward[problem][pi] <= PlusMax
  <2>1. pi \in Policies /\ EmptyPolicy \in Policies /\ Len(EmptyPolicy) = 0
    BY FullPolicyIsPolicy, EmptyPolicyIsExtended
  <2>2. Extends(pi, EmptyPolicy) /\ pi[Len(EmptyPolicy) + 1] \in Rules
    BY <2>1, EmptyPolicyIsExtended, NextRuleExtends, ParametersAssumption
  <2>3. Reward[problem][pi] \in Int /\ Reward[problem][pi] < PlusMax
    BY <1>2, <2>1, RewardsAreIntegers, ProblemsAssumption
  <2>4. QED BY <1>3, <2>2, <2>3, ParametersAssumption DEF Below
<1>5. ValuesBound'
  BY <1>2, <1>3, <1>4 DEF ValuesBound, Below
<1>6. RestIsNoBetter'
  BY <1>2, <1>4 DEF RestIsNoBetter, Below
<1>7. BestIsExact' /\ AnswerIsKept' /\ AnswerIsBest'
  BY <1>2 DEF BestIsExact, AnswerIsKept, AnswerIsBest
<1>8. QED BY <1>1, <1>5, <1>6, <1>7 DEF SearchInv

(* It ends with nothing below the items that is better than the best.      *)
LEMMA EndPlanSearch == SearchInv /\ EndPlan => SearchInv'
<1> SUFFICES ASSUME SearchInv, EndPlan PROVE SearchInv'
  OBVIOUS
<1>1. ValueInv' /\ TypeInv
  BY ValueInvStep DEF SearchInv, Next, ValueInv, PoolInv
<1>2. /\ UNCHANGED <<problem, pool, bestJPol, maxLowerBound>>
      /\ pc = "planning" /\ pc' = "ended"
      /\ foundPolicy' = bestJPol /\ expectedReward' = maxLowerBound
      /\ pool = {} \/ BoundsCrossed
  BY DEF EndPlan
<1>3. BestIsExact' /\ AnswerIsKept' /\ RestIsNoBetter'
  BY <1>2 DEF SearchInv, BestIsExact, AnswerIsKept, RestIsNoBetter
<1>4. SearchIsSound(problem) => ValuesBound'
  BY <1>2 DEF SearchInv, ValuesBound, Below
<1>5. ASSUME SearchIsSound(problem), NEW pi \in FullPolicies
      PROVE  Reward[problem][pi] <= maxLowerBound
  <2> SUFFICES ASSUME ~(Reward[problem][pi] <= maxLowerBound) PROVE FALSE
    OBVIOUS
  <2>1. PICK j \in pool : pi \in Below(j)
    BY <1>2, <1>5 DEF SearchInv, RestIsNoBetter
  <2>2. PICK top \in PP!Select(pool) : top.value + Slack < maxLowerBound
    BY <1>2, <2>1 DEF BoundsCrossed
  <2>3. top \in pool /\ j.value <= top.value
    BY <2>1, <2>2 DEF PP!Select
  <2>4. Reward[problem][pi] <= j.value
    BY <1>5, <2>1 DEF SearchInv, ValuesBound
  <2>5. /\ Reward[problem][pi] \in Int /\ maxLowerBound \in Int
        /\ j.value \in Int /\ top.value \in Int
    BY <1>1, <2>1, <2>3, ItemTypes, FullPolicyIsPolicy, RewardsAreIntegers DEF TypeInv, TypeOK
  <2>6. Slack = 0
    BY <1>5 DEF SearchIsSound
  <2>7. QED BY <2>2, <2>3, <2>4, <2>5, <2>6
<1>6. SearchIsSound(problem) => AnswerIsBest'
  BY <1>2, <1>5 DEF AnswerIsBest
<1>7. QED BY <1>1, <1>2, <1>3, <1>4, <1>6 DEF SearchInv

(* Every action keeps the invariant of the search.                         *)
LEMMA SearchInvStep == SearchInv /\ [Next]_vars => SearchInv'
<1> SUFFICES ASSUME SearchInv, [Next]_vars PROVE SearchInv'
  OBVIOUS
<1>1. ValueInv' /\ TypeInv' /\ ValueInv /\ TypeInv
  BY ValueInvStep DEF SearchInv, ValueInv, PoolInv
<1>2. CASE Expand \/ ThrowParentGoesUp
  <2>1. /\ pc = "planning" /\ UNCHANGED <<problem, foundPolicy, expectedReward>>
        /\ \E ppi \in pool : \E item \in Drop(ppi) : ItemStep(ppi, item)
    BY <1>1, <1>2, ExpandEffect
  <2>2. PICK ppi \in pool : \E item \in Drop(ppi) : ItemStep(ppi, item)
    BY <2>1
  <2>3. PICK item \in Drop(ppi) : ItemStep(ppi, item)
    BY <2>2
  <2>4. pc' \in {"planning", "error"}
    BY <2>1, <2>3 DEF ItemStep, ReturnsNothing, ReturnsChild, ReturnsBetter, ReturnsNoBetter, Throws
  <2>5. AnswerIsKept' /\ AnswerIsBest'
    BY <2>4 DEF AnswerIsKept, AnswerIsBest
  <2>6. BestIsExact'
    BY <2>1, <2>3, ItemStepBest
  <2>7. SearchIsSound(problem) => ValuesBound' /\ RestIsNoBetter'
    BY <1>1, <2>1, <2>3, ItemStepBounds, ItemStepRest DEF SearchInv
  <2>8. QED BY <1>1, <2>1, <2>5, <2>6, <2>7 DEF SearchInv
<1>3. CASE UNCHANGED vars
  BY <1>1, <1>3
  DEF vars, SearchInv, BestIsExact, AnswerIsKept, ValuesBound, RestIsNoBetter, AnswerIsBest, Below
<1>4. CASE DeadlineExceeded
  BY <1>1, <1>4
  DEF DeadlineExceeded, SearchInv, BestIsExact, AnswerIsKept, ValuesBound, RestIsNoBetter,
      AnswerIsBest, Below
<1>5. QED BY <1>2, <1>3, <1>4, StartPlanSearch, EndPlanSearch DEF Next

(* Nothing has been searched for before the first call of Plan().          *)
LEMMA SearchInvInit == Init => SearchInv
BY PoolInvInit
DEF Init, SearchInv, ValueInv, RootIsUnbounded, LaterAreLower, BestIsExact, AnswerIsKept,
    ValuesBound, RestIsNoBetter, AnswerIsBest

(* So it holds of every reachable state.                                   *)
LEMMA Invariance == Spec => []SearchInv
BY SearchInvInit, SearchInvStep, PTL DEF Spec

(* For sound problems the invariant implies what the planner is asked.     *)
LEMMA SearchInvImpliesOptimal ==
  SearchInv /\ SearchIsSound(problem) =>
    /\ NoBetterPolicyLost
    /\ ResultIsAchieved
    /\ ResultIsOptimal
    /\ ResultPastRewardExact
<1> SUFFICES ASSUME SearchInv, SearchIsSound(problem)
             PROVE  /\ NoBetterPolicyLost
                    /\ pc = "ended" =>
                         /\ foundPolicy # Null
                         /\ foundPolicy.jpol \in FullPolicies
                         /\ Reward[problem][foundPolicy.jpol] = expectedReward
                         /\ IsOptimalValue(problem, expectedReward)
                         /\ foundPolicy.past = Reward[problem][foundPolicy.jpol]
  BY DEF ResultIsAchieved, ResultIsOptimal, ResultPastRewardExact
<1>1. TypeInv /\ problem \in Problems /\ maxLowerBound \in Int /\ Slack = 0
  BY DEF SearchInv, ValueInv, PoolInv, TypeInv, TypeOK, SearchIsSound
<1>2. NoBetterPolicyLost
  <2>1. ASSUME NEW i \in pool, NEW pi \in Below(i) PROVE Reward[problem][pi] <= i.value + Slack
    BY <1>1, ItemTypes DEF SearchInv, ValuesBound, TypeInv
  <2>2. QED BY <2>1 DEF SearchInv, RestIsNoBetter, NoBetterPolicyLost
<1>3. ASSUME pc = "ended"
      PROVE  /\ foundPolicy # Null
             /\ foundPolicy.jpol \in FullPolicies
             /\ Reward[problem][foundPolicy.jpol] = expectedReward
             /\ IsOptimalValue(problem, expectedReward)
             /\ foundPolicy.past = Reward[problem][foundPolicy.jpol]
  <2>1. /\ foundPolicy = bestJPol /\ expectedReward = maxLowerBound
        /\ \A pi \in FullPolicies : Reward[problem][pi] <= maxLowerBound
    BY <1>3 DEF SearchInv, AnswerIsKept, AnswerIsBest
  <2>2. PICK pi \in FullPolicies : TRUE
    BY FullPolicyExists
  <2>3. MinusMax < Reward[problem][pi] /\ Reward[problem][pi] \in Int
    BY <1>1, FullPolicyIsPolicy, RewardsAreIntegers, ProblemsAssumption
  <2>4. maxLowerBound # MinusMax
    BY <1>1, <2>1, <2>3, ParametersAssumption
  <2>5. /\ bestJPol.jpol \in FullPolicies /\ bestJPol.past = maxLowerBound
        /\ Reward[problem][bestJPol.jpol] = maxLowerBound
    BY <2>4 DEF SearchInv, BestIsExact
  <2>6. bestJPol # Null
    BY <1>1, PlannerAssumption DEF TypeInv, TypeOK
  <2>7. QED BY <2>1, <2>5, <2>6 DEF IsOptimalValue
<1>4. QED BY <1>2, <1>3

(* For a problem the search is sound for, whatever the solver drops, and   *)
(* whichever of the equal items and solutions is taken first, no better    *)
(* policy is lost, and a Plan() that returns has stored an optimal policy, *)
(* with its value.                                                         *)
THEOREM Optimality ==
  Spec => [](SearchIsSound(problem) =>
               /\ NoBetterPolicyLost
               /\ ResultIsAchieved
               /\ ResultIsOptimal
               /\ ResultPastRewardExact)
<1>1. SearchInv => (SearchIsSound(problem) =>
                      /\ NoBetterPolicyLost
                      /\ ResultIsAchieved
                      /\ ResultIsOptimal
                      /\ ResultPastRewardExact)
  BY SearchInvImpliesOptimal
<1>2. QED BY <1>1, Invariance, PTL

-----------------------------------------------------------------------------
(***************************************************************************)
(* Refinement.  An expansion that makes a child, or finds nothing better,  *)
(* is a stutter of the search; the exception gives the search up.          *)
(***************************************************************************)

(* Every step of the planner is a step of the search or a stutter.         *)
LEMMA RefinementStep ==
  SearchInv /\ SearchInv' /\ SearchIsSound(problem) /\ [Next]_vars
    => [Search!Next]_(Search!searchVars)
<1> SUFFICES ASSUME SearchInv, SearchInv', SearchIsSound(problem), [Next]_vars
             PROVE  [Search!Next]_(Search!searchVars)
  OBVIOUS
<1>1. TypeInv /\ ValueInv /\ problem \in Problems
  BY DEF SearchInv, ValueInv, PoolInv, TypeInv, TypeOK
<1>2. CASE StartPlan
  BY <1>2 DEF StartPlan, Search!Next, Search!Begin
<1>3. CASE DeadlineExceeded
  BY <1>3 DEF DeadlineExceeded, Search!Next, Search!GiveUp
<1>4. CASE EndPlan
  <2>1. /\ pc = "planning" /\ pc' = "ended" /\ UNCHANGED <<problem, bestJPol, maxLowerBound>>
        /\ expectedReward' = maxLowerBound
    BY <1>4 DEF EndPlan
  <2>2. SearchIsSound(problem)'
    BY <2>1 DEF SearchIsSound
  <2>3. ResultIsOptimal'
    BY <2>2, SearchInvImpliesOptimal, PTL
  <2>4. IsOptimalValue(problem, maxLowerBound)
    BY <2>1, <2>3 DEF ResultIsOptimal, IsOptimalValue
  <2>5. Search!Answer
    BY <1>1, <2>1, <2>4 DEF Search!Answer, IsOptimalValue
  <2>6. QED BY <2>5 DEF Search!Next
<1>5. CASE Expand \/ ThrowParentGoesUp
  <2>1. /\ pc = "planning" /\ UNCHANGED <<problem, foundPolicy, expectedReward>>
        /\ \E ppi \in pool : \E item \in Drop(ppi) : ItemStep(ppi, item)
    BY <1>1, <1>5, ExpandEffect
  <2>2. PICK ppi \in pool : \E item \in Drop(ppi) : ItemStep(ppi, item)
    BY <2>1
  <2>3. PICK item \in Drop(ppi) : ItemStep(ppi, item)
    BY <2>2
  <2>4. ASSUME NEW d \in NextSolutions(item), ReturnsBetter(ppi, d)
        PROVE  Search!Improve
    <3>1. d \in Rules
      BY <1>1, NextSolutionIsLeft
    <3>2. /\ IsLastStage(ppi.jpol) /\ UNCHANGED pc
          /\ Child(ppi, d).value > maxLowerBound /\ maxLowerBound' = Child(ppi, d).value
      BY <2>4 DEF ReturnsBetter
    <3>3. \E pi \in FullPolicies : Reward[problem][pi] = maxLowerBound'
      BY <1>1, <3>1, <3>2, ChildIsExact DEF ValueInv, PoolInv
    <3>4. QED BY <1>1, <2>1, <3>2, <3>3 DEF Search!Improve
  <2>5. ASSUME NEW d \in NextSolutions(item), Throws(ppi, item, d)
        PROVE  Search!GiveUp
    BY <2>1, <2>5 DEF Throws, Search!GiveUp
  <2>6. CASE UNCHANGED <<pc, maxLowerBound, bestJPol>>
    BY <2>1, <2>6 DEF Search!searchVars
  <2>7. QED
    BY <2>3, <2>4, <2>5, <2>6
    DEF ItemStep, ReturnsNothing, ReturnsChild, ReturnsNoBetter, Search!Next
<1>6. CASE UNCHANGED vars
  BY <1>6 DEF vars, Search!searchVars
<1>7. QED BY <1>2, <1>3, <1>4, <1>5, <1>6 DEF Next

(* A GMAA_MAAstar that is only given problems it is sound for implements   *)
(* the optimal search, apart from its liveness.                            *)
THEOREM ImplementsOptimalSearch ==
  (\A pb \in Problems : SearchIsSound(pb)) => (Spec => Search!SafeSpec)
<1> SUFFICES ASSUME \A pb \in Problems : SearchIsSound(pb) PROVE Spec => Search!SafeSpec
  OBVIOUS
<1>1. Init => Search!Init
  BY DEF Init, Search!Init
<1>2. SearchInv => SearchIsSound(problem)
  BY DEF SearchInv, ValueInv, PoolInv, TypeInv, TypeOK
<1>3. SearchInv /\ SearchInv' /\ [Next]_vars => [Search!Next]_(Search!searchVars)
  BY <1>2, RefinementStep
<1>4. QED BY <1>1, <1>3, Invariance, PTL DEF Spec, Search!SafeSpec
=============================================================================
