--------------------------- MODULE MAAstarClassic ----------------------------
(***************************************************************************)
(* GMAA_MAAstarClassic: MAA* with its own brute-force BG solver.  Every    *)
(* child of the selected item is generated; at the last stage the joint    *)
(* policies of the BG are evaluated in the order of their enumeration,     *)
(* until one reaches the value of the item that is expanded.               *)
(***************************************************************************)
EXTENDS GMAA

(***************************************************************************)
(* MAA* is run with an admissible heuristic (QMDP, QPOMDP or QBG), and the *)
(* planners of DecPOMDPDiscrete never set the slack.                       *)
(***************************************************************************)
ASSUME SearchAssumption ==
  /\ Slack = 0
  /\ \A pb \in Problems : Admissible(pb, Slack)

(* None of the complete policies is processed further, all others are. *)
SelectPoliciesToProcessFurther(next, areLBs) == IF areLBs THEN {} ELSE next

(* Mutant of Child: the past reward is that of the last stage alone. *)
ChildWithoutPast(ppi, d) ==
  NewPPI(Append(ppi.jpol, d),
         ImmediateReward(problem, ppi.jpol, d),
         HeuristicValue(problem, ppi.jpol, ppi.past, d))

Child(ppi, d) ==
  NewPPI(Append(ppi.jpol, d),
         ppi.past + ImmediateReward(problem, ppi.jpol, d),
         HeuristicValue(problem, ppi.jpol, ppi.past, d))

(* Expansion of an item before the last stage. *)
ExpandStage(ppi) ==
  LET next == {Child(ppi, d) : d \in Rules}
  IN /\ Selected(ppi)
     /\ ~IsLastStage(ppi.jpol)
     /\ FinishIteration(ppi, {}, next, FALSE, SelectPoliciesToProcessFurther(next, FALSE))

(* The exact value of the complete policy that d makes of ppi. *)
ExactValue(ppi, d) == ppi.past + ImmediateReward(problem, ppi.jpol, d)

(* Mutant of ReachesParent: any policy that reaches the bound ends the loop. *)
ReachesBound(ppi, d) == ExactValue(ppi, d) >= maxLowerBound

ReachesParent(ppi, d) == ExactValue(ppi, d) >= ppi.value

(***************************************************************************)
(* Expansion at the last stage.  The enumeration stops at `stop', the      *)
(* first policy to reach the value of ppi, or the last one.  `best' is the *)
(* first of the evaluated policies with the greatest value; the complete   *)
(* policy made of it gets the past reward of the policy evaluated last.    *)
(***************************************************************************)
StopsAt(ppi, stop) ==
  /\ \A d \in 0..stop-1 : ~ReachesParent(ppi, d)
  /\ stop = NrJPolBGs - 1 \/ ReachesParent(ppi, stop)

BestOf(ppi, stop, best) ==
  /\ best \in 0..stop
  /\ \A d \in 0..stop : ExactValue(ppi, d) <= ExactValue(ppi, best)
  /\ \A d \in 0..best-1 : ExactValue(ppi, d) < ExactValue(ppi, best)

(* Mutant of LastStageChild: the value of the policy evaluated last. *)
LastStageChildOfLast(ppi, best, stop) ==
  NewPPI(Append(ppi.jpol, best), ExactValue(ppi, stop), ExactValue(ppi, stop))

LastStageChild(ppi, best, stop) ==
  NewPPI(Append(ppi.jpol, best), ExactValue(ppi, stop), ExactValue(ppi, best))

ExpandLastStage(ppi) ==
  /\ Selected(ppi)
  /\ IsLastStage(ppi.jpol)
  /\ \E stop, best \in Rules :
       LET next == {LastStageChild(ppi, best, stop)}
       IN /\ StopsAt(ppi, stop)
          /\ BestOf(ppi, stop, best)
          /\ FinishIteration(ppi, {}, next, TRUE, SelectPoliciesToProcessFurther(next, TRUE))

Expand == \E ppi \in pool : ExpandStage(ppi) \/ ExpandLastStage(ppi)

Next == StartPlan \/ DeadlineExceeded \/ EndPlan \/ Expand

(* A call of Plan() runs its loop; nobody is obliged to call it. *)
Spec == Init /\ [][Next]_vars /\ WF_vars(EndPlan \/ Expand)
=============================================================================
