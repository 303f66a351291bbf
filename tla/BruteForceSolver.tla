--------------------------- MODULE BruteForceSolver ---------------------------
(***************************************************************************)
(* BGIP_SolverBruteForceSearch: the first call that asks for a solution    *)
(* runs through all joint policies of the Bayesian game and collects the   *)
(* solutions in a SolutionQueue; every call takes the next one from there. *)
(* One iteration of the loop of Solve() is one step.  The solver is used   *)
(* without a deadline, and every caller passes it a lower bound            *)
(* (_m_CBGlowerBound has no value before that).                            *)
(***************************************************************************)
EXTENDS JointPolicyVector

CONSTANTS
  Games,      \* the games, with the options of the solver: see GamesAssumption
  Bounds,     \* the lower bounds that callers may pass
  Infinite,   \* INT_MAX, as a number of desired solutions
  IndexRange, \* the number of values of an Index
  MinusMax,   \* -DBL_MAX
  NoPolicy    \* the answer of a call that returns false

JointTypes ==
  {jt \in [Agents -> UNION {1..NrDomainElements[ag] : ag \in Agents}] :
     \A ag \in Agents : jt[ag] \in 1..NrDomainElements[ag]}

JointActions ==
  {ja \in [Agents -> UNION {0..NrActions[ag]-1 : ag \in Agents}] :
     \A ag \in Agents : ja[ag] \in 0..NrActions[ag]-1}

ASSUME GamesAssumption ==
  /\ \A bg \in Games :
       /\ bg.contribution \in [JointTypes -> [JointActions -> Int]]
       /\ bg.nrDesired \in Nat \ {0}
       /\ bg.upperBound \in Int
  /\ Infinite \in Nat /\ Infinite > NrJointPolicies
  /\ IndexRange \in Nat \ {0}
  /\ MinusMax \in Int
  /\ \A b \in Bounds : b \in Int
  /\ NoPolicy \notin JointPolicies

VARIABLES
  game,          \* the game and the options of the solver
  phase,         \* "idle", "solving" in Solve(), or "solved" before a call returns
  solved,        \* _m_solved
  jpol,          \* the joint policy that is tried next
  best,          \* the best policy so far, a copy
  v_best,
  queue,         \* the BGIPSolution, with its history:
  jpolIndices,
  added,
  returned,
  CBGlowerBound, \* _m_CBGlowerBound
  calls,         \* _m_nrSolutionsReturned
  answer         \* the policy that the last call returned

queueVars == <<queue, jpolIndices, added, returned>>
searchVars == <<jpol, best, v_best>>
vars == <<game, phase, solved, searchVars, queueVars, CBGlowerBound, calls, answer>>

(* The expected payoff of every policy of every game: the utility of the   *)
(* action it takes at every joint type, times the type's probability.      *)
GamePayoff ==
  [bg \in Games |-> [p \in JointPolicies |->
     MapThenSumSet(LAMBDA jt : bg.contribution[jt][[ag \in Agents |-> p[ag][jt[ag]]]], JointTypes)]]

(* A double that is a payoff is above -DBL_MAX. *)
ASSUME PayoffsAssumption ==
  \A bg \in Games, p \in JointPolicies : GamePayoff[bg][p] \in Int /\ GamePayoff[bg][p] > MinusMax

(* The solutions of the games, their values and their indices. *)
Solutions == [game : Games, policy : JointPolicies]
SolutionValue == [s \in Solutions |-> GamePayoff[s.game][s.policy]]
SolutionIndex == [s \in Solutions |-> GetIndex(s.policy)]

(* The queue of the solver. *)
Queue ==
  INSTANCE SolutionQueue WITH
    JPolicies <- Solutions,
    Value <- SolutionValue,
    PolicyIndex <- SolutionIndex,
    Overflows <- FALSE,
    Capacities <- {bg.nrDesired : bg \in Games},
    capacity <- game.nrDesired

Solution(p) == [game |-> game, policy |-> p]

AddSolution(p) == added' = added \cup {Solution(p)} /\ Queue!AddIndexed(Solution(p))

TypeOK ==
  /\ game \in Games
  /\ phase \in {"idle", "solving", "solved"}
  /\ solved \in BOOLEAN
  /\ jpol \in JointPolicies
  /\ best \in JointPolicies
  /\ v_best \in Int
  /\ Queue!TypeOK
  /\ CBGlowerBound \in Bounds
  /\ calls \in Nat
  /\ answer \in JointPolicies \cup {NoPolicy}

Init ==
  /\ game \in Games
  /\ phase = "idle"
  /\ solved = FALSE
  /\ jpol = ZeroInitialization
  /\ best = ZeroInitialization
  /\ v_best = MinusMax
  /\ queue = << >>
  /\ jpolIndices = {}
  /\ added = {}
  /\ returned = << >>
  /\ CBGlowerBound \in Bounds
  /\ calls = 0
  /\ answer = NoPolicy

(* The number of calls until AllSolutionsHaveBeenReturned(). *)
NrCalls(bg) == IF bg.nrDesired = Infinite THEN NrJointPolicies ELSE bg.nrDesired

(* SetCBGlowerBound and GetNextJointPolicyAndValue. *)
GetNext ==
  /\ phase = "idle"
  /\ calls < NrCalls(game)
  /\ \E b \in Bounds : b >= CBGlowerBound /\ CBGlowerBound' = b
  /\ calls' = calls + 1
  /\ solved' = TRUE
  /\ phase' = IF solved THEN "solved" ELSE "solving"
  /\ UNCHANGED <<game, searchVars, queueVars, answer>>

(* Mutant of KeepBest: a later policy of equal value replaces the best. *)
KeepNotWorse(v) ==
  IF v >= v_best THEN best' = jpol /\ v_best' = v ELSE UNCHANGED <<best, v_best>>

KeepBest(v) ==
  IF v > v_best THEN best' = jpol /\ v_best' = v ELSE UNCHANGED <<best, v_best>>

(* "Hit CBG upperbound" *)
HitsUpperBound(v) == game.nrDesired = 1 /\ v >= game.upperBound

StopAtUpperBound(v) ==
  /\ HitsUpperBound(v)
  /\ KeepBest(v)
  /\ AddSolution(jpol)
  /\ phase' = "solved"
  /\ UNCHANGED <<jpol, returned>>

TryNext(v) ==
  /\ ~HitsUpperBound(v)
  /\ ~IsLastPolicy(jpol)
  /\ KeepBest(v)
  /\ IF game.nrDesired > 1 THEN AddSolution(jpol) /\ UNCHANGED returned ELSE UNCHANGED queueVars
  /\ jpol' = Increment(jpol)
  /\ UNCHANGED phase

(* Mutant of TryLast: the policy that is tried last becomes the solution. *)
TryLastAddsLast(v) ==
  /\ ~HitsUpperBound(v)
  /\ IsLastPolicy(jpol)
  /\ KeepBest(v)
  /\ AddSolution(jpol)
  /\ UNCHANGED returned
  /\ jpol' = Increment(jpol)
  /\ phase' = "solved"

(* The increment goes round: the best policy becomes the only solution,    *)
(* when one is desired.                                                    *)
TryLast(v) ==
  /\ ~HitsUpperBound(v)
  /\ IsLastPolicy(jpol)
  /\ KeepBest(v)
  /\ AddSolution(IF game.nrDesired > 1 THEN jpol ELSE best')
  /\ UNCHANGED returned
  /\ jpol' = Increment(jpol)
  /\ phase' = "solved"

Try ==
  /\ phase = "solving"
  /\ LET v == GamePayoff[game][jpol] IN StopAtUpperBound(v) \/ TryNext(v) \/ TryLast(v)
  /\ UNCHANGED <<game, solved, CBGlowerBound, calls, answer>>

(* GetNextJointPolicyAndValueSpecific after Solve(): the next solution, if *)
(* it is not below the lower bound; if it is, it stays in the queue.       *)
ReturnNext ==
  /\ phase = "solved"
  /\ phase' = "idle"
  /\ UNCHANGED <<game, solved, searchVars, CBGlowerBound, calls>>
  /\ IF queue # << >> /\ SolutionValue[Head(queue)] >= CBGlowerBound
     THEN answer' = Head(queue).policy /\ Queue!PopNextSolution
     ELSE answer' = NoPolicy /\ UNCHANGED queueVars

Next == GetNext \/ Try \/ ReturnNext

(* A call runs its loop and returns; nobody is obliged to call. *)
Spec == Init /\ [][Next]_vars /\ WF_vars(Try \/ ReturnNext)

-----------------------------------------------------------------------------
(***************************************************************************)
(* Properties.                                                             *)
(***************************************************************************)

(* The increment visits the joint policies in the order of their indices,  *)
(* and an index leads back to its policy when there is more than one       *)
(* agent: the queue recognises duplicates by the index.                    *)
IncrementFollowsIndex ==
  [][jpol' # jpol =>
       /\ GetIndex(jpol') = (GetIndex(jpol) + 1) % NrJointPolicies
       /\ Len(NrActions) > 1 => PolicyOfJointIndex(GetIndex(jpol')) = jpol']_vars

(* The policies with a smaller index than the current one. *)
Tried == {p \in JointPolicies : phase = "solving" /\ GetIndex(p) < GetIndex(jpol)}

(* During the search the best policy is the first of the best ones so far, *)
(* and the solutions are the best ones of all that were tried.             *)
SearchKeepsTheBestTried ==
  phase = "solving" =>
    /\ \A p \in Tried : GamePayoff[game][p] <= v_best
    /\ Tried # {} => best \in Tried /\ GamePayoff[game][best] = v_best
    /\ \A p \in Tried : GamePayoff[game][p] = v_best => GetIndex(best) <= GetIndex(p)
    /\ game.nrDesired > 1 => added = {Solution(p) : p \in Tried} /\ Queue!QueueHoldsTheBest

(* All joint policies have an index that is an Index as well. *)
IndicesFit == NrJointPolicies <= IndexRange

(* No policy is better than the upper bound at which the search for one    *)
(* solution stops.                                                         *)
UpperBoundsAreSound ==
  \A bg \in Games, p \in JointPolicies : bg.nrDesired = 1 => GamePayoff[bg][p] <= bg.upperBound

PoliciesOf(q) == {s.policy : s \in ToSet(q)}

(* What the solver may still return: everything before it has solved the   *)
(* game, its one solution if one is desired, and nothing any more once a   *)
(* call came back empty.                                                   *)
Left ==
  LET returns == calls - (IF phase = "idle" THEN 0 ELSE 1)
  IN IF Len(returned) < returns THEN {}
     ELSE IF game.nrDesired = 1 /\ added # {} THEN PoliciesOf(queue)
     ELSE JointPolicies \ PoliciesOf(returned)

(* The solver keeps the contract of the incremental interface. *)
Solver ==
  INSTANCE IncrementalSolver WITH
    GamePolicies <- JointPolicies,
    NrDesired <- [bg \in Games |-> NrCalls(bg)],
    Nothing <- NoPolicy,
    left <- Left,
    bound <- CBGlowerBound,
    status <- IF phase = "idle" THEN "idle" ELSE "asked"

IsIncrementalSolver == Solver!Spec
===============================================================================
