-------------------------------- MODULE kGMAA --------------------------------
(***************************************************************************)
(* GMAA_kGMAA: forward-sweep policy computation that keeps the k best      *)
(* policies of every Bayesian game.  The BG solver is whatever the planner *)
(* was given, exact or not, so which policies of the BG it returns is left *)
(* open; it may return none only when all of them are below the lower      *)
(* bound that SetCBGbounds passes to it.  Nothing is assumed of the        *)
(* heuristic but that its values are numbers.                              *)
(***************************************************************************)
EXTENDS GMAA

CONSTANT NrPoliciesToProcess   \* _m_nrPoliciesToProcess, the k of k-GMAA

ASSUME NrPoliciesToProcessAssumption == NrPoliciesToProcess \in Nat \ {0}

(* No value is below -DBL_MAX: that of a child, or the reward of an item   *)
(* plus a payoff that the solver compares with the bound it is given.      *)
ASSUME ValuesAssumption ==
  \A pb \in Problems : \A p \in Policies : \A d \in Rules :
    Len(p) < Horizon =>
      /\ MinusMax <= HeuristicValue(pb, p, Reward[pb][p], d)
      /\ MinusMax <= Reward[pb][p] + Discounted(pb, 0, Payoff[pb][Append(p, d)])

(* The laws of the powers of k, up to the depths that occur (the provers   *)
(* do not know them).                                                      *)
ASSUME PowersAssumption ==
  /\ NrPoliciesToProcess^0 = 1
  /\ \A t \in 0..Horizon-1 :
       /\ NrPoliciesToProcess^t \in Nat
       /\ NrPoliciesToProcess^(t + 1) = NrPoliciesToProcess * NrPoliciesToProcess^t

(* _m_CBGlowerBound, in the units of the BG payoff at stage 0. *)
CBGLowerBound(ppi) == maxLowerBound - ppi.past

(* What the BG solver may return for the expansion of ppi. *)
Solutions(ppi) ==
  {s \in SUBSET Rules :
     /\ Cardinality(s) <= NrPoliciesToProcess
     /\ s = {} => \A d \in Rules :
                    Discounted(problem, 0, Payoff[problem][Append(ppi.jpol, d)]) < CBGLowerBound(ppi)}

(* Mutant of Child: a complete policy keeps its heuristic value.           *)
ChildHeuristicValue(ppi, d) ==
  NewPPI(Append(ppi.jpol, d),
         ppi.past + ImmediateReward(problem, ppi.jpol, d),
         HeuristicValue(problem, ppi.jpol, ppi.past, d))

Child(ppi, d) ==
  LET past == ppi.past + ImmediateReward(problem, ppi.jpol, d)
  IN NewPPI(Append(ppi.jpol, d), past,
            IF IsLastStage(ppi.jpol) THEN past
            ELSE HeuristicValue(problem, ppi.jpol, ppi.past, d))

(* SelectKBestPoliciesToProcessFurther: any k that none of the others beats, *)
(* without the ones that are below the bound.                                *)
KBest(next) ==
  {s \in SUBSET next :
     /\ Cardinality(s) <= NrPoliciesToProcess
     /\ Cardinality(s) < NrPoliciesToProcess => s = next
     /\ \A i \in s, j \in next \ s : j.value <= i.value}

AtLeast(s, bestLB) == {i \in s : i.value >= bestLB}

Expand ==
  \E ppi \in pool :
    /\ Selected(ppi)
    /\ \E s \in Solutions(ppi) :
         LET next == {Child(ppi, d) : d \in s}
         IN IF IsLastStage(ppi.jpol)
            THEN FinishIteration(ppi, {}, next, TRUE, {})
            ELSE \E best \in KBest(next) :
                   FinishIteration(ppi, {}, next, FALSE, AtLeast(best, maxLowerBound - Slack))

Next == StartPlan \/ DeadlineExceeded \/ EndPlan \/ Expand

Spec == Init /\ [][Next]_vars /\ WF_vars(EndPlan \/ Expand)

-----------------------------------------------------------------------------

(* At most k children per expansion, and every expansion removes an item:  *)
(* the pool never holds more than k^t policies of depth t, which is what   *)
(* the choice of k buys.                                                   *)
PoolIsBounded ==
  \A t \in 0..Horizon-1 :
    Cardinality({i \in pool : Len(i.jpol) = t}) <= NrPoliciesToProcess^t
=============================================================================
