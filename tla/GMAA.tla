-------------------------------- MODULE GMAA ---------------------------------
(***************************************************************************)
(* Generalized MAA*: the Plan loop that all GMAA planners share            *)
(* (GeneralizedMAAStarPlanner).  The loop takes the best item of the       *)
(* policy pool, asks the derived planner for its next policies and their   *)
(* values, updates the best complete policy found, prunes the pool and     *)
(* puts back what the derived planner wants to process further.            *)
(*                                                                         *)
(* The derived planners (MAAstarClassic, MAAstar, kGMAA) extend this       *)
(* module with their ConstructAndValuateNextPolicies and                   *)
(* SelectPoliciesToProcessFurther.  One iteration of the loop is one step. *)
(***************************************************************************)
EXTENDS JointPolicies, FiniteSets

CONSTANTS
  Slack,      \* _m_slack
  Deadline,   \* whether _m_deadline is set
  Null        \* the null pointer

PP == INSTANCE PolicyPool

VARIABLES
  problem,         \* the problem and heuristic the planner was made for
  pc,              \* where the planner is: no Plan() yet, in the loop, how it left
  pool,            \* the policy pool of Plan()
  bestJPol,        \* the best complete joint policy, local to Plan()
  maxLowerBound,   \* _m_maxLowerBound
  foundPolicy,     \* _m_foundPolicy
  expectedReward   \* _m_expectedRewardFoundPolicy

vars == <<problem, pc, pool, bestJPol, maxLowerBound, foundPolicy, expectedReward>>

(* Mutant of NewJPol: the planner begins without a best policy. *)
NoNewJPol == Null

(* NewJPol(), with the past reward Plan() gives it: no search produced it. *)
NewJPol == [jpol |-> EmptyPolicy, past |-> MinusMax]

(***************************************************************************)
(* A pool item: a partial joint policy, the past reward stored with it,    *)
(* its value, and the state of the incremental BG solver that GMAA_MAAstar *)
(* keeps on it: the BG policies the solver can still return and the number *)
(* of times it was asked.  All BG policies and 0 calls: no solver yet.     *)
(***************************************************************************)
NewPPI(jpol, past, value) ==
  [jpol |-> jpol, past |-> past, value |-> value, left |-> Rules, calls |-> 0]

Items == [jpol : Policies, past : Int, value : Int, left : SUBSET Rules, calls : Nat]

BestPolicies == [jpol : Policies, past : Int]

ASSUME PlannerAssumption ==
  /\ Slack \in Nat
  /\ Deadline \in BOOLEAN
  /\ Null \notin BestPolicies

TypeOK ==
  /\ problem \in Problems
  /\ pc \in {"idle", "planning", "ended", "deadline", "error"}
  /\ pool \subseteq Items
  /\ bestJPol \in BestPolicies
  /\ maxLowerBound \in Int
  /\ foundPolicy \in BestPolicies \cup {Null}
  /\ expectedReward \in Int

Init ==
  /\ problem \in Problems
  /\ pc = "idle"
  /\ pool = {}
  /\ bestJPol = NewJPol
  /\ maxLowerBound = MinusMax
  /\ foundPolicy = Null
  /\ expectedReward = MinusMax

-----------------------------------------------------------------------------

(* Mutant of StartPlan: the bound of the previous call is kept. *)
StartPlanKeepsBound ==
  /\ pc # "planning"
  /\ pc' = "planning"
  /\ pool' = {NewPPI(EmptyPolicy, 0, PlusMax)}
  /\ bestJPol' = NewJPol
  /\ foundPolicy' = Null
  /\ expectedReward' = MinusMax
  /\ UNCHANGED <<problem, maxLowerBound>>

(* The beginning of Plan(): Initialize(), then the pool of the empty policy. *)
StartPlan ==
  /\ pc # "planning"
  /\ pc' = "planning"
  /\ pool' = {NewPPI(EmptyPolicy, 0, PlusMax)}
  /\ bestJPol' = NewJPol
  /\ maxLowerBound' = MinusMax
  /\ foundPolicy' = Null
  /\ expectedReward' = MinusMax
  /\ UNCHANGED problem

(* The deadline has passed at the head of the loop: EDeadline leaves Plan(). *)
DeadlineExceeded ==
  /\ Deadline
  /\ pc = "planning"
  /\ pool # {}
  /\ pc' = "deadline"
  /\ UNCHANGED <<problem, pool, bestJPol, maxLowerBound, foundPolicy, expectedReward>>

(* Mutant of BoundsCrossed: the first complete policy ends the search. *)
FoundAnything == maxLowerBound # MinusMax

(* The greatest upper bound is below the best lower bound. *)
BoundsCrossed == \E ppi \in PP!Select(pool) : ppi.value + Slack < maxLowerBound

(* Plan() leaves its loop and stores the result. *)
EndPlan ==
  /\ pc = "planning"
  /\ pool = {} \/ BoundsCrossed
  /\ pc' = "ended"
  /\ foundPolicy' = bestJPol
  /\ expectedReward' = maxLowerBound
  /\ UNCHANGED <<problem, pool, bestJPol, maxLowerBound>>

(***************************************************************************)
(* The rest of an iteration, after ConstructAndValuateNextPolicies: `back' *)
(* is what becomes of the expanded item ({} when it is cleaned up), next   *)
(* the pool of next policies, areLBs whether their values are lower bounds *)
(* and further what SelectPoliciesToProcessFurther keeps of them.  (It     *)
(* keeps none whose values are lower bounds, so it makes no difference     *)
(* that the best of these has left the pool of next policies by then.)     *)
(***************************************************************************)
NewBest(top) ==
  /\ maxLowerBound' = top.value
  /\ bestJPol' = [jpol |-> top.jpol, past |-> top.past]

Improves(next) == \E top \in PP!Select(next) : top.value > maxLowerBound

FinishIteration(ppi, back, next, areLBs, further) ==
  LET others == PP!Pop(pool, ppi) \cup back
  IN /\ \/ /\ areLBs
           /\ Improves(next)
           /\ \E top \in PP!Select(next) : NewBest(top)
           /\ pool' = PP!Union(PP!Prune(others, maxLowerBound' - Slack), further)
        \/ /\ ~(areLBs /\ Improves(next))
           /\ UNCHANGED <<maxLowerBound, bestJPol>>
           /\ pool' = PP!Union(others, further)
     /\ UNCHANGED <<problem, pc, foundPolicy, expectedReward>>

(* The item an iteration expands. *)
Selected(ppi) ==
  /\ pc = "planning"
  /\ ppi \in PP!Select(pool)
  /\ ~(ppi.value + Slack < maxLowerBound)

-----------------------------------------------------------------------------
(***************************************************************************)
(* Properties.                                                             *)
(***************************************************************************)

(* Complete policies that an item may still lead to.                       *)
Below(i) ==
  {pi \in FullPolicies : Extends(pi, i.jpol) /\ pi[Len(i.jpol) + 1] \in i.left}

(* The lower bound that the pool is pruned with (line 245) is the reward   *)
(* of the complete policy that is kept with it, and of no other: a bound   *)
(* without its policy would prune what the planner cannot deliver.         *)
BoundIsAchieved ==
  maxLowerBound # MinusMax =>
    bestJPol.jpol \in FullPolicies /\ Reward[problem][bestJPol.jpol] = maxLowerBound

(* SetPastReward keeps, along a chain of extensions, the exact reward of   *)
(* the stages a pool item has fixed; all its bounds are computed from it.  *)
PastRewardsExact == \A i \in pool : i.past = Reward[problem][i.jpol]

(* Pruning, selection and re-insertion never lose a policy that is better  *)
(* than the best one found: it is below an item of the pool whose value    *)
(* bounds its reward.                                                      *)
NoBetterPolicyLost ==
  pc = "planning" =>
    \A pi \in FullPolicies :
      \/ Reward[problem][pi] <= maxLowerBound
      \/ \E i \in pool : pi \in Below(i) /\ Reward[problem][pi] <= i.value + Slack

(* No complete policy is searched for from two items of the pool: an item  *)
(* that is put back is not expanded again into the same children.          *)
NoPolicyTwiceInPool ==
  \A i, j \in pool : i # j => Below(i) \cap Below(j) = {}

(* When Plan() returns, the policy and expected reward it stored agree,    *)
(* and the policy is complete.                                             *)
ResultIsAchieved ==
  pc = "ended" =>
    /\ foundPolicy # Null
    /\ foundPolicy.jpol \in FullPolicies
    /\ Reward[problem][foundPolicy.jpol] = expectedReward

(* When Plan() returns, no complete policy is better than the one stored.  *)
ResultIsOptimal ==
  pc = "ended" => IsOptimalValue(problem, expectedReward)

(* The policy that Plan() stores carries the past reward it achieves.      *)
ResultPastRewardExact ==
  pc = "ended" => foundPolicy.past = Reward[problem][foundPolicy.jpol]

(* A call of Plan() comes to an end.                                       *)
PlanEnds == pc = "planning" ~> pc # "planning"

(* Plan() is an optimal search over the complete joint policies (one that  *)
(* gives up when an exception other than EDeadline leaves it).             *)
Search ==
  INSTANCE OptimalSearch WITH
    Candidates <- FullPolicies,
    Nothing <- MinusMax,
    Worth <- [p \in Problems |-> [pi \in FullPolicies |-> Reward[p][pi]]],
    task <- problem,
    phase <- IF pc = "error" THEN "deadline" ELSE pc,
    incumbent <- maxLowerBound,
    answer <- expectedReward

IsOptimalSearch == Search!Spec
=============================================================================
