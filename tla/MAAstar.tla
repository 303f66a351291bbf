------------------------------- MODULE MAAstar --------------------------------
(***************************************************************************)
(* GMAA_MAAstar: MAA* with incremental expansion.  An expansion asks the   *)
(* BG solver of the selected item for one more BG policy, adds the child   *)
(* it makes, lowers the item's value to that of the child and puts the     *)
(* item back, until the solver has been asked for every BG policy.         *)
(*                                                                         *)
(* The solver is a parameter of the planner.  Of it the model takes the    *)
(* contract of BGIP_IncrementalSolverInterface: it returns the remaining   *)
(* BG policies by decreasing payoff, and may drop, at any call and for     *)
(* good, policies whose payoff is below the lower bound it is given.       *)
(***************************************************************************)
EXTENDS GMAA

(* No value is above DBL_MAX, the value of the empty policy. *)
ASSUME ValuesAssumption ==
  \A pb \in Problems : \A p \in Policies : \A d \in Rules :
    Len(p) < Horizon => HeuristicValue(pb, p, Reward[pb][p], d) <= PlusMax

(* The only comparison with the discount in the code is with 1. *)
Undiscounted == \A t \in 0..Horizon-1 : Weight[problem][t] = Weight[problem][0]

(* Mutant of CBGLowerBound: the past reward is not subtracted. *)
BoundWithPast(ppi) == maxLowerBound

(***************************************************************************)
(* SetCBGbounds: the lower bound is the best bound less the past reward of *)
(* the item; the solver compares it with the payoff of the BG as it is,    *)
(* which is not discounted to the stage.  (The upper bound of the last     *)
(* stage makes an exact solver stop early, not return another policy.)     *)
(***************************************************************************)
CBGLowerBound(ppi) == maxLowerBound - ppi.past

BGPayoff(ppi, d) == Discounted(problem, 0, Payoff[problem][Append(ppi.jpol, d)])

MayBeDropped(ppi, d) == BGPayoff(ppi, d) < CBGLowerBound(ppi)

(* The solver of ppi after it has dropped some BG policies. *)
Drop(ppi) == {[ppi EXCEPT !.left = @ \ s] : s \in SUBSET {d \in ppi.left : MayBeDropped(ppi, d)}}

(* Mutant of NextSolutions: the solver returns the worst solution first. *)
WorstSolutions(ppi) ==
  {d \in ppi.left : \A c \in ppi.left : BGPayoff(ppi, d) <= BGPayoff(ppi, c)}

NextSolutions(ppi) ==
  {d \in ppi.left : \A c \in ppi.left : BGPayoff(ppi, c) <= BGPayoff(ppi, d)}

(* One solution is desired at the last stage, all of them before it. *)
NrDesiredSolutions(ppi) == IF IsLastStage(ppi.jpol) THEN 1 ELSE NrJPolBGs

AllSolutionsHaveBeenReturned(ppi) == ppi.calls >= NrDesiredSolutions(ppi)

(* Mutant of Child: the immediate reward is counted twice in the value.    *)
ChildCountsTwice(ppi, d) ==
  LET past == ppi.past + ImmediateReward(problem, ppi.jpol, d)
  IN NewPPI(Append(ppi.jpol, d), past,
            IF IsLastStage(ppi.jpol) THEN past
            ELSE HeuristicValue(problem, ppi.jpol, past, d))

Child(ppi, d) ==
  LET past == ppi.past + ImmediateReward(problem, ppi.jpol, d)
  IN NewPPI(Append(ppi.jpol, d), past,
            IF IsLastStage(ppi.jpol) THEN past
            ELSE HeuristicValue(problem, ppi.jpol, ppi.past, d))

(* "value of parent can only go down when being updated", else it throws. *)
ParentGoesUp(ppi, child) ==
  Undiscounted /\ Stage(ppi.jpol) > 0 /\ ppi.value < child.value

(* Mutant of AfterSolution: the solver may return d again. *)
AfterSolutionKept(ppi, d) ==
  [ppi EXCEPT !.calls = @ + 1,
              !.value = IF Stage(ppi.jpol) > 0 THEN Child(ppi, d).value ELSE @]

(* The item after the call that returned d; that of stage 0 keeps its value. *)
AfterSolution(ppi, d) ==
  [ppi EXCEPT !.left = @ \ {d},
              !.calls = @ + 1,
              !.value = IF Stage(ppi.jpol) > 0 THEN Child(ppi, d).value ELSE @]

(* The item after a call that returned nothing. *)
AfterNoSolution(ppi) == [ppi EXCEPT !.calls = @ + 1, !.value = MinusMax]

(* Mutant of PutBack: the expanded item is always cleaned up. *)
PutBackNothing(ppi) == {}

PutBack(ppi) == IF AllSolutionsHaveBeenReturned(ppi) THEN {} ELSE {ppi}

SelectPoliciesToProcessFurther(next, areLBs) == IF areLBs THEN {} ELSE next

(* An expansion whose solver returned the policies in next, at most one. *)
Finish(ppi, after, next) ==
  LET areLBs == IsLastStage(ppi.jpol)
  IN FinishIteration(ppi, PutBack(after), next, areLBs,
                     SelectPoliciesToProcessFurther(next, areLBs))

Expand ==
  \E ppi \in pool :
    /\ Selected(ppi)
    /\ \E item \in Drop(ppi) :
         IF item.left = {}
         THEN Finish(ppi, AfterNoSolution(item), {})
         ELSE \E d \in NextSolutions(item) :
                /\ ~ParentGoesUp(ppi, Child(ppi, d))
                /\ Finish(ppi, AfterSolution(item, d), {Child(ppi, d)})

(* The exception leaves Plan(), after the value has been overwritten. *)
ThrowParentGoesUp ==
  \E ppi \in pool :
    /\ Selected(ppi)
    /\ \E item \in Drop(ppi) : \E d \in NextSolutions(item) :
         /\ ParentGoesUp(ppi, Child(ppi, d))
         /\ pool' = PP!Insert(PP!Pop(pool, ppi), AfterSolution(item, d))
    /\ pc' = "error"
    /\ UNCHANGED <<problem, bestJPol, maxLowerBound, foundPolicy, expectedReward>>

Next == StartPlan \/ DeadlineExceeded \/ EndPlan \/ Expand \/ ThrowParentGoesUp

Spec == Init /\ [][Next]_vars /\ WF_vars(EndPlan \/ Expand \/ ThrowParentGoesUp)

(***************************************************************************)
(* The problems the planner is right about.  The bound for the BG solver   *)
(* is sound when a payoff, as the solver compares it, is no less than what *)
(* it adds to the value of the child: without a discount, and with payoffs *)
(* that are not negative.                                                  *)
(***************************************************************************)
BoundIsSound(pb) ==
  \A p \in Policies : \A d \in Rules :
    Len(p) < Horizon =>
      LET payoff == Payoff[pb][Append(p, d)]
      IN Discounted(pb, Stage(p), payoff) <= Discounted(pb, 0, payoff)

SearchIsSound(pb) ==
  /\ Slack = 0
  /\ Admissible(pb, Slack)
  /\ ExactAtLastStage(pb)
  /\ BoundIsSound(pb)

-----------------------------------------------------------------------------

(* The exception of line 232 states what the authors rely on: the value of *)
(* an item never rises while its children are generated one by one.  With  *)
(* a heuristic that is consistent it does not.                             *)
ParentOnlyGoesDown == Consistent(problem) => pc # "error"

(* The children that an item has not generated yet are bounded by its      *)
(* value, which is that of the child generated last: this is why one child *)
(* at a time is enough.  (The item of stage 0 keeps the value DBL_MAX.)    *)
UnreturnedChildrenAreBounded ==
  \A i \in pool : \A d \in i.left :
    Stage(i.jpol) < Horizon - 1 /\ i.calls > 0 =>
      HeuristicValue(problem, i.jpol, i.past, d) <= i.value
=============================================================================
