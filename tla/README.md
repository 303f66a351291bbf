# A verification project for the MADP toolbox

The Multi-Agent Decision Process (MADP) toolbox plans for teams of agents that
cannot observe the same things: problems are Dec-POMDPs, and the central family
of planners is Generalized MAA* (GMAA), a heuristic search over partial joint
policies that solves a Bayesian game (BG) at every step. This directory holds
TLA+ models of that search and of what it is built from, TLC configurations
that check them on small instances, and TLAPS proofs of the central results.
Paths below are relative to `src/src/`.

The toolbox is a sequential C++ program, without threads or signals. What makes
it hard is not interleaving but long-lived search state: bounds that prune,
items that are put back into a queue with a changed value, solvers that are
resumed call after call with a tighter bound, exceptions (`EDeadline`,
`EOverflow`) that leave an operation half-way, caches that are filled again
after the problem changed, pointers that are kept while the object behind them
changes. The only persisted state are the cache files of the heuristics, which
one program writes and others read. The properties aim at these.

## 1. Inventory

| Component | State | Operations | Interacts with | Correct when |
|---|---|---|---|---|
| GMAA Plan loop (`planning/GeneralizedMAAStarPlanner*`) | policy pool, best lower bound and policy, stored result | `Initialize`, `Plan`, selection, pruning | calls the derived planner's `ConstructAndValuateNextPolicies` and `SelectPoliciesToProcessFurther` | ends; loses no better policy; result is the policy of its value |
| `GMAA_MAAstarClassic` | none of its own | full expansion, brute-force last stage with early stop | BG of the stage, heuristic | result optimal for an admissible heuristic |
| `GMAA_MAAstar` | a BG solver kept on every pool item | expansion by one child, re-insertion with a lower value | incremental BG solver | as Classic, with one child at a time |
| `GMAA_kGMAA` | k | expansion by the k best BG policies | any BG solver | pool bounded by k^t; result exact for its policy |
| Policy pools | priority queue of (policy, value) | `Select`, `Pop`, `Insert`, `Union`, `Prune` | Plan loop | nothing is lost |
| Policies (`support/*Policy*`, `JPolComponent*`) | action of every history, depth, past reward | increment, index conversion, extension | everything | enumeration visits each policy once, in the order of the indices |
| Bayesian games (`planning/BayesianGame*`) | probabilities and utilities per joint type | construction for a stage, clustering | planners, solvers | utility is R + gamma F |
| `BGIP_IncrementalSolverInterface` | number of calls | next policy and value, all returned? | `GMAA_MAAstar` | solutions by decreasing value, each once |
| `BGIP_SolverBranchAndBound` | queue of open nodes, solutions, bounds | `Solve`, `ReSolve`, next solution | `BGIPSolution` | keeps the interface's contract |
| `BGIPSolution`, `FixedCapacityPriorityQueue` | solutions, indices of policies | add, next, pop | all BG solvers | holds the best k, none twice |
| Other BG solvers | own search state | `Solve`, next solution | `BGIPSolution` | brute force exact, alternating maximization locally optimal |
| Clustered and approximate GMAA, ELSI | as GMAA | as GMAA | clustered or factored games | as GMAA on the smaller game |
| JESP planners | current and best joint policy, whose turn it is | `Plan`: alternate best responses | policies, value function | ends; an equilibrium, with its value |
| Brute force and DICEPS planners | current and best joint policy | enumerate, sample | policies, value function | brute force: the optimal policy |
| MDP planners, Q-learner, `QTable` | values per state and stage | iterate, back up, update | Q-value functions | Bellman equation |
| Q-value functions (QMDP, QPOMDP, QBG, QHybrid) | heuristic tables; cache files | compute, save, load | planners, BGs, the programs run before | admissible; what is read is what would be computed |
| Alpha-vector planning, Perseus | vectors, belief sets | backup, prune | Q-value functions | bounds the value function |
| Graphical BG solvers, libDAI | factor graphs | message passing, elimination | factored GMAA | elimination exact |
| Simulation and agents | state, histories, rewards | one step, act, observe | agents, beliefs | each agent sees what its class allows |
| Planning unit, histories, beliefs | trees, numbers per stage, probabilities and beliefs of histories | `SetProblem`, `SetHorizon`, `SetParams`, look up | everything | caches describe the current problem, also after an initialization that failed; created and computed answers agree |
| Problem models, index tools, parsers | tables | construct, convert | everything | indices round-trip |
| Command-line programs, tools, tests; boost and libDAI (vendored) | - | - | - | - |

Hard behaviours: search order and pruning with ties (the queues leave the order
of equal values open), resumption of a solver after its caller's bound rose,
early termination by three different bounds, a deadline exception at the head
of the loop, `EOverflow` in the middle of an insertion, re-initialization with
other parameters or after an initialization that failed half-way, a program killed while it writes a cache file. They are listed line by
line under "hazards" in `PROJECT.json`, with the properties that cover each.

## 2. Modules and the code

    JointPolicies            partial joint policies, rewards, heuristics   (data)
    PolicyPool               the priority queue of pool items              (data)
      GMAA                   the Plan loop of all GMAA planners
        MAAstarClassic       full expansion
        MAAstar              incremental expansion    (assumes IncrementalSolver)
        kGMAA                k best policies per game
    OptimalSearch            abstract: what an exact planner promises
    IncrementalSolver        abstract: what an incremental BG solver promises
      BranchAndBound         implements IncrementalSolver
      BruteForceSolver       implements IncrementalSolver, on JointPolicyVector
                             and SolutionQueue
    SolutionQueue            BGIPSolution and its queues
    JointPolicyVector        joint policies as vectors: increment, indices (data)
      BruteForceSearch       BruteForceSearchPlanner
    AlternatingMaximization  both JESP planners and the BG solver of that name,
                             with a SolutionQueue
    Histories                histories and their indices                  (data)
      PlanningUnit           the caches of histories and what is asked of them
      DecPOMDP               problems, beliefs, Q-values, stage games      (data)
        QHeuristics          heuristics computed, saved and read by programs
    MC*.tla, MC*.cfg         instances for TLC

    GMAAProofs               lemmas about policies, their values and the Plan loop,
                             and the theorems about MAAstarClassic (INSTANCE)
      MAAstarProofs
      kGMAAProofs
    SolutionQueueProofs
      AlternatingMaximizationProofs
      BruteForceSolverProofs take them for their own queues (INSTANCE)
    BranchAndBoundProofs     with lemmas about sums and orderings
    QHeuristicsProofs

**JointPolicies.** A partial joint policy is the sequence of its joint decision
rules, a rule being the position of a BG joint policy in the BG's enumeration.
A problem is what the search can see of a Dec-POMDP and its heuristic: the
expected reward of every partial policy and the BG payoff `R + gamma F` of its
last rule. Discounting is a weight per stage, `Weight[t]`, proportional to
`gamma^t`; values are integers. The program computes with `double`s and
compares with tolerances of 1e-8 or 1e-9: values closer than that, and rounding,
are outside the model. `NewJPol()` is the all-zero policy no search produced;
the model's empty policy with the past reward -DBL_MAX stands for it.

**GMAA.** One step is one iteration of the `do ... while` loop of `Plan()`,
including everything the derived planner does in it, or the start of a call
(`StartPlan`: `Initialize()` and the first pool), its end (`EndPlan`) or the
deadline exception (`DeadlineExceeded`). `Plan()` may be called again at any
time it is not running. `FinishIteration` is the part of the loop after the
derived planner's expansion: the test for a better complete policy, pruning,
selection, and what is put back. The top of the queue is any item of greatest
value. The check at the loop's head compares the top's value plus slack with
the lower bound.

**MAAstarClassic, MAAstar, kGMAA** add the expansion. `MAAstarClassic`
enumerates the BG policies in order and models where the last stage's loop
stops and which policy it keeps. `MAAstar` keeps with every item the set of BG
policies its solver can still return and the number of calls; the solver is its
contract. `kGMAA` takes any solver, exact or not.

**BranchAndBound.** A node is its depth, the actions it has specified, g and h.
One step is the start of a call (`GetNext`), an iteration of `ReSolve`'s loop
(stop at a bound, complete node, expansion), or the return. Every call may pass
any lower bound of a small set that is no less than the one before, since the
planner's bound never goes down. The order of joint types is a constant:
orderings are computed from probabilities that the model abstracts from, and
the properties hold for any. The contract (`IncrementalSolver`) is shown by
refinement: what the solver can still return are the completions of its open
nodes and its unreturned solutions. `StopIsSound` says of a game that the
search, if it stops at its upper bound at all, computes H again, or that the
bound is out of reach: otherwise finding 3 makes the contract false.

**SolutionQueue.** The solvers are the environment, and add any policy in any
order. The two history variables `added` and `returned` only record what
happened. `Inserted` is the loop of the fixed-capacity queue: what is thrown out
(`ThrownOut`), what is left (`WithRoom`), and where the new element goes (`Place`).

**JointPolicyVector, BruteForceSolver, BruteForceSearch.** A policy is a vector
of actions per agent; `Increment`, `GetIndex` and `PolicyOfJointIndex` are the
code's increment with its carry, its index and its inverse, with the corner that
a single agent's `SetIndex` ends at policy 0. Numbers of policies and indices are
computed as the loops of the code do, one digit after the other (`PartialProducts`,
`PartialNumbers`, `Quotients`). One step of `BruteForceSolver` is
one policy of the loop of `Solve()`, with the stop at the upper bound and the
three places at which a solution is added; `ReturnNext` is what
`GetNextJointPolicyAndValueSpecific` does afterwards. `SolutionQueue` is the real
queue, by INSTANCE; its elements carry the game, as its values and indices are
functions of the element alone. The solver is checked against the same contract as branch and
bound. `BruteForceSearch` has the two pointers of the planner as such.

**AlternatingMaximization.** One step is one best response, the start or the end
of a call of `Plan()` or of a restart. The three programs share the alternation
and differ in whose turn is first (JESP's turn is a member that survives a call,
the solver's is not), in what is kept (JESP: the best policy; the solver: the
current one), and in when they stop (`StopsAt`, the cap of 1000 responses). A
best response is the first of the best policies of the agent where the code
tries them in order, and any of them where it maximizes history by history.

**Histories, PlanningUnit.** `Histories` has the tree a breadth-first creation
builds, the counts and first indices that are computed when no tree is created,
and the answers to questions from either: stage, successor, index of a history
and back, joint index from individual ones and back. `PlanningUnit` is what the
three setters do to the caches: `Deinitialize()` under the old horizon and
parameters (`Deinitialized`), then `Initialize()` (`Initialized`), which appends. The
blocks `[problem, horizon, size]` of the probabilities stand for the numbers that were
stored for the first histories of that tree, `size` of them.

`Initialize()` may fail: joint histories are extended by looking up the agents' own
(`ExtensionThrows`), which throws when those of observations were not created, or when
the vectors of created ones do not have the sizes they should. The exception is caught,
printed and forgotten: `initialized` stays false, what was filled stays (`Reached` is the
part of a tree that got into the vector), the next `Deinitialize()` does nothing and the next
`Initialize()` adds to it. No parameters are excluded: the constructor checks one
condition, `SetParams` none. `leftovers` is a history variable, which says what a failed
initialization may have left, the histories, which every `Deinitialize()` that clears
anything clears, or the beliefs, which are cleared only under parameters with beliefs.
While histories are left over, numbers per stage may be differences that the code
wraps around; the model has a number below 0 for them, and questions are asked only
when nothing is left over. `JointToIndividual` answers `Throws` for joint action
histories, which is all that the code does for them
(`JointToIndividualActionHistoryIndices` is 'NOT YET IMPLEMENTED',
`PlanningUnitMADPDiscrete.cpp:1945-1950`): `JointHistoriesAreTheAgents` asks for the way
back of the other kinds, and for joint action histories only for the indices that they
stored at their creation.

**DecPOMDP, QHeuristics.** A problem has whole-number weights; a Q-value is that
of the code times the probability of its history and a unit per stage, so that
everything is exact. `MDPTables` is value iteration backwards over the stages, in
both forms; `TreeQ` is the recursion over histories with the future of QPOMDP or
QBG, and QMDP's values at the last stages of a QHybrid; `StagePayoff` is the
payoff of a policy in the Bayesian game that GMAA makes of a stage. In
`QHeuristics` programs with different options follow each other on the same
files: planners, which may look for a file (`use`, `require`), and `calculateQheuristic`,
which computes and overwrites in any case (`save`). One step is the computation, the opening of a file, a row, the close, a
load or its failure; `End` may come between any two (the end or the death of the
program). This is where `ProblemsAssumption` and `SearchAssumption` of the planner
models come from: `HeuristicIsAdmissible` states for the values the program has in
memory what the planners assume of `Payoff`.

Operators named "Mutant of ..." are deliberately wrong variants, one for every
checked property. No specification uses them; substituted for the definition
they vary, each makes TLC find its property violated, which shows that the
property depends on the code it is about.

## 3. Runs

| Run | Checks | Shows |
|---|---|---|
| `classic` | `TypeOK BoundIsAchieved PastRewardsExact NoBetterPolicyLost ResultIsOptimal IsOptimalSearch` | with an admissible heuristic Classic ends with an optimal policy, over repeated and cut-off calls, and refines `OptimalSearch` with its liveness |
| `kgmaa` | `PoolIsBounded ResultIsAchieved PlanEnds` | the forward sweep ends, in bounded space, with exact values |
| `maastar` | `NoBetterPolicyLost NoPolicyTwiceInPool UnreturnedChildrenAreBounded ParentOnlyGoesDown IsOptimalSearch` | one child at a time loses nothing |
| `maastar_negative` (violation) | `ResultIsOptimal` | discount and negative rewards: the optimal policy is pruned |
| `bnb` | `TypeOK OpenNodesBoundTheirCompletions NoPolicyTwice LowerBoundIsBestSolution IsIncrementalSolver` | the solver keeps the contract |
| `queue` | `TypeOK QueueHoldsTheBest NeverReturnedTwice` | the best k, none twice |
| `bfs_solver` | `TypeOK SearchKeepsTheBestTried IncrementFollowsIndex IsIncrementalSolver` | every policy once, the first of the best ones kept, and the contract kept |
| `brute_force` (violation) | `StoresThePolicyOfTheHighestValue` | the planner ends with another policy than the one of its value |
| `alternating` | `TypeOK ResultIsAchieved ResultIsEquilibrium SolutionsAreTheBestRestarts SearchEnds` | turns and stop conditions end in an equilibrium, values are those of the policies, ties never loop |
| `histories` | `TypeOK CachesDescribeTheProblem StartsAfresh AnswersAgree JointHistoriesAreTheAgents` | setters leave nothing behind, and of initializations that failed nothing outlives the first one that succeeds and the call after it; trees and formulas number histories alike |
| `histories_probs` (violation) | `ProbabilityIsOfItsHistory` | but the probabilities of joint histories outlive every setter |
| `heuristics` | `TypeOK LoadedIsComputed HeuristicIsAdmissible HeuristicsAreOrdered` | whoever wrote the cache files and wherever it was killed, a planner gets its own values; these are upper bounds, QMDP >= QPOMDP >= QBG |

`IsOptimalSearch` of MAAstar maps the exception "value of parent can only go
down" to giving up: an inconsistent heuristic may raise it, and
`ParentOnlyGoesDown` says a consistent one does not.

What `ResultIsEquilibrium` does not say: with ties and three agents, or for the
BG solver with ties, agents that did not improve may each have moved to an equal
policy, and the policy at hand need not be an equilibrium; JESP may give up at its
cap. `AnswersAgree` leaves out the joint action histories that are created: their
first indices are never set (`PlanningUnitMADPDiscrete.cpp:656-716`), and a
question that needs them throws `out_of_range` (lines 1661-1701).

**Findings.** Disagreements between the code and what the code says of itself;
`PROJECT.json` quotes the lines. Three have a run, the others say how to see them.
1. `GeneralizedMAAStarPlanner.h:285`: the lower bound for the BG of stage t is
   not divided by the discount to the power t.
2. `GMAA_MAAstarClassic.cpp:211`: the past reward of the policy evaluated last
   is stored with the best one.
3. `BGIP_SolverBranchAndBound.h:171`: without `reComputeH` the F of a complete
   node is not its value, and the stop at the upper bound takes it for that.
4. `BGIPSolution.cpp:242`: the handler of an overflow that is thrown after the
   insertion repeats it.
5. `BruteForceSearchPlanner.cpp:60`: the best policy is kept as a pointer to the
   object that the loop increments (run `brute_force`).
6. `PlanningUnitMADPDiscrete.cpp:1062`: the probabilities of joint histories are
   appended at every initialization and never cleared (run `histories_probs`).
7. `MDPValueIteration.cpp:205`: `PlanSlow()` leaves out the discount.
8. `QHybrid.cpp:342`: one of the two cache files is looked for, and a cache that a
   killed program left unfinished is never replaced.
9. `PlanningUnitMADPDiscrete.cpp:172`: an initialization that fails leaves half-filled
   caches, which the next one adds to.
Number 1 is run `maastar_negative`. To see 2, check run `classic` with the only
invariant `ResultPastRewardExact` (of the other two planners it is proved); for 3, run `bnb` with `Games <- SubtractedH` and
the only invariant `AnswerIsBest`; for 4, run `queue` with `Overflows = TRUE`,
`Capacities <- FixedCapacities` and the only invariant `QueueHoldsTheBest`; for 7,
remove `~DiscountIsIgnored` from `HeuristicIsAdmissible` and run `heuristics` with
`Families <- CostFamilies`; for 8, check in `heuristics` the
invariant `phase = "failed" => task.cache = "require"`; for 9, run `histories_probs`
with the only invariant `VectorHoldsHistories`.

**Bounds, and why they are enough.**
- `classic`: horizon 3, so a first, a middle and a last stage, two BG policies
  per stage, 3 tables of rewards (with ties, with negative rewards) times every
  error in {0,1} of the heuristic at the 6 inner policies, and a last stage
  whose payoff is not exact. Pruning, ties at the top, the early stop, and
  optima in any subtree occur. `Deadline = TRUE` lets the exception come at
  every iteration, `StartPlan` restarts after every end.
- `maastar`: the same depth; undiscounted problems of either sign, and
  halved weights with non-negative rewards. The payoffs are exact at the last
  stage, as its item gets one solution only. `maastar_negative` has the
  same shape with negative rewards. `MCMAAstar` has TLC evaluate that
  `SearchIsSound`, the condition of the proofs, holds of every problem of
  `maastar` and of none of `maastar_negative`.
- `kgmaa`: horizon 3, three BG policies, k = 2, heuristics that are tight,
  overestimate and underestimate, and are not exact at the last stage.
- `bnb`: two agents, two types each, two actions: 16 policies, 4 joint types,
  of which one specifies nothing new in every ordering. Two games (good local
  actions that conflict; negative contributions with ties and a joint type of
  probability 0), two orderings, with and without `reComputeH`, one solution
  desired, three, or all; three make the queue of solutions overflow, with ties
  and over several calls. Lower bounds: none, one that prunes nothing or little, one
  that prunes nearly everything. `StopIsSound` holds of all these games, which TLC
  evaluates.
- `queue`: six policies, two of equal value, capacities 1 to 3 and infinite. The
  indices fit (`IndicesFit`), which TLC evaluates, here and in `alternating`.
- `bfs_solver`: three agents with 2, 3 and 2 actions, the last with two types: 24
  policies, so every kind of carry; games with ties, with negative payoffs, and
  with different payoffs; 1, 2, 3, 5 or all solutions; an upper bound that is
  reached or not; lower bounds that rise to one that some policies miss. The
  conditions of the proofs (`IndicesFit`, `UpperBoundsAreSound`) are evaluated.
- `brute_force`: two agents with three histories each, 64 policies.
- `alternating`: 1, 2 and 3 agents with 2 to 4 policies; a long climb, plateaus,
  local optima; three calls or restarts, so that the turn survives a call; a cap
  of 5 stands for 1000, so that both ends of the loop occur; 2 solutions kept of 3
  restarts.
- `histories` and `histories_probs`: two problems with different numbers of agents,
  actions and observations (one included); horizon 1, which has only the empty history,
  3, which has a first, a middle and a last stage, and infinite; nine sets of parameters.
  `Unchecked` fails at once, at the joint observation histories; `Walked` at the joint
  action-observation histories, when the agents' trees that were left belong to the other
  problem; `All` and `ObservationsOnly` when the numbers or vectors that were
  left do not fit. As long as nothing fails, what a setter leaves depends on the problem,
  the horizon and the parameters before it only, but for the probabilities that pile up
  (`histories_probs` needs one call). What failed initializations leave piles up
  as well: the constructor and four calls of `histories` are enough for failures on top of
  each other, one of them after beliefs were stored, an initialization that succeeds
  on what they left, the setter that clears it, and the one that leaves the beliefs
  because the parameters had none when they were to be cleared. A longer chain of failures
  only appends more to the same vectors, and `Deinitialized` clears a vector as a whole
  or not at all.
- `heuristics`: a tiger-like problem of two stages and a relay problem of three
  with an impossible observation; discounts 1, 1/2 and 2/3; families of up to four
  tasks that share files, with all options of the cache, those of `calculateQheuristic`
  included, with and without a flat
  model, hybrids that switch after one or two stages. All histories and all joint
  policies of the problems are compared, and the conditions of the proofs
  (`ProblemsAreNamed`, `TablesHaveTheirRows`) are evaluated. Bytes are abstracted: a
  line without its end is dropped by the reader, and the decimals of a value are not
  looked at. So is the discount in the file's name: the code prints it with six
  significant digits (`QFunctionForDecPOMDP.cpp:27-28`) where `FileName` has it exactly, so
  that programs whose discounts differ in a later digit share a file, and
  `LoadedIsComputed` says nothing of them. The discounts of the instances differ in the first.
The constants -1000 and 1000 stand for -DBL_MAX and DBL_MAX: below and above
every value that occurs.

**Fairness.** A call of `Plan()` or of the solver runs its loop until it
returns: weak fairness of the loop's own steps (`EndPlan \/ Expand`,
`ReSolve \/ ReturnNext`, `Try \/ ReturnNext`, `Work` of alternating maximization). Nobody is obliged to call again, the deadline need
not pass: those actions have no fairness. `SolutionQueue`, `PlanningUnit` and
`QHeuristics` have none: a program may be killed at any time, and everything said
of them is safety.

**Deadlock** is checked for the planners, which can always be called again. It
is not for `bnb` (once all desired solutions were asked for the caller stops)
nor for `bfs_solver`, `alternating` and `histories` (their calls are bounded), nor
for `brute_force` (it ends) and the queue (a queue of fixed size that has been read
to the end is done).

## 4. Proofs

Each theorem holds for every value of the constants that satisfies the named
assumptions, which TLC evaluates in the runs.

| Module | Theorem | Statement |
|---|---|---|
| `GMAAProofs` | `ClassicTypeCorrect` | `Spec => []TypeOK`, like all of this module for the planner `Classic` and under its `SearchAssumption` |
| | `ClassicBoundsAreExact` | `Spec => [](BoundIsAchieved /\ PastRewardsExact)` |
| | `ClassicPastRewards` | `Spec => []PastRewardsExact` |
| | `ClassicPoolKeepsBetterPolicies` | `Spec => [](NoBetterPolicyLost /\ NoPolicyTwiceInPool)` |
| | `ClassicOptimality` | `Spec => [](ResultIsAchieved /\ ResultIsOptimal)` |
| | `ClassicImplementsOptimalSearch` | `Spec => Search!SafeSpec` |
| `MAAstarProofs` | `TypeCorrect` | `Spec => []TypeOK` |
| | `PoolIsExact` | `Spec => [](PastRewardsExact /\ NoPolicyTwiceInPool)` |
| | `PutBackItemsAreBounds` | `Spec => []UnreturnedChildrenAreBounded` |
| | `ConsistentHeuristicsNeverThrow` | `Spec => [](ExactAtLastStage(problem) => ParentOnlyGoesDown)` |
| | `Optimality` | `Spec => [](SearchIsSound(problem) => NoBetterPolicyLost /\ ResultIsAchieved /\ ResultIsOptimal /\ ResultPastRewardExact)` |
| | `ImplementsOptimalSearch` | if all problems are sound, `Spec => Search!SafeSpec` |
| `kGMAAProofs` | `TypeCorrect` | `Spec => []TypeOK` |
| | `ResultsAreExact` | `Spec => [](ResultIsAchieved /\ ResultPastRewardExact)` |
| | `PoolStaysSmall` | `Spec => []PoolIsBounded` |
| `SolutionQueueProofs` | `TypeCorrect` | `Spec => []TypeOK` |
| | `BestOnceEach` | if `IndicesFit(JPolicies)`, `Spec => []QueueHoldsTheBest` |
| | `NothingReturnedTwice` | if `IndicesFit(JPolicies)`, `Spec => []NeverReturnedTwice` |
| `AlternatingMaximizationProofs` | `TypeCorrect` | `Spec => []TypeOK` |
| | `ValuesAreAchieved` | `Spec => []ResultIsAchieved` |
| | `Equilibrium` | `Spec => []ResultIsEquilibrium` |
| | `ImplementsSolutionQueue` | `Spec => Queue!Spec` |
| | `SolutionsAreBest` | if `IndicesFit`, `Spec => []SolutionsAreTheBestRestarts` |
| `BranchAndBoundProofs` | `TypeCorrect` | `Spec => []TypeOK` |
| | `NodesBoundTheirCompletions` | `Spec => []OpenNodesBoundTheirCompletions` |
| | `PoliciesAreFoundOnce` | `Spec => []NoPolicyTwice` |
| | `LowerBoundIsUpToDate` | `Spec => []LowerBoundIsBestSolution` |
| | `ImplementsIncrementalSolver` | if `StopIsSound` of all games, `Spec => Solver!SafeSpec` |
| | `OneSolutionIsBest` | if `StopIsSound` of all games, `Spec => []AnswerIsBest` |
| `BruteForceSolverProofs` | `TypeCorrect` | `Spec => []TypeOK` |
| | `IncrementIsNextIndex` | `Spec => IncrementFollowsIndex` |
| | `SearchIsExhaustive` | if `IndicesFit`, `Spec => []SearchKeepsTheBestTried` |
| | `ImplementsIncrementalSolver` | if `IndicesFit` and `UpperBoundsAreSound`, `Spec => Solver!SafeSpec` |
| `QHeuristicsProofs` | `TypeCorrect` | if `TablesHaveTheirRows`, `Spec => []TypeOK` |
| | `CachesAreTransparent` | if `ProblemsAreNamed` and `TablesHaveTheirRows`, `Spec => []LoadedIsComputed` |

**Assumptions.** All planners: `ParametersAssumption`, `ProblemsAssumption`
(integer values strictly between -DBL_MAX and DBL_MAX, the empty policy has
reward 0) and `PlannerAssumption`. In addition:
- Classic: `SearchAssumption`, slack 0 and an admissible heuristic, what MAA* is
  run with. `GMAAProofs` takes the module as an instance, so there the assumption is
  the hypothesis of every theorem.
- `MAAstar`: `ValuesAssumption`, no heuristic value is above DBL_MAX. What more a
  theorem needs is in its statement. `SearchIsSound(pb)` says of a problem that
  the slack is 0, its heuristic is admissible and exact at the last stage, and
  the bound that is handed to the solver is sound (`BoundIsSound`: without a
  discount, or with payoffs that are not negative; finding 1 is that the planner
  is also run on others). `PoolIsExact` and `PutBackItemsAreBounds` need none of it.
- `kGMAA`: `NrPoliciesToProcessAssumption`; `ValuesAssumption`, no value and no
  payoff the solver compares is below -DBL_MAX; and `PowersAssumption`, the laws of
  `k^t`, which the provers do not have (the standard definition of `^` is opaque
  to them).
- `SolutionQueue`: `QueueAssumption`. `IndicesFit(S)` says that no index overflows,
  policies of S have indices of their own, and none is changed by the cast to
  `Index`; without it the properties are false, which finding 4 and the hazard of
  the cast report. `TypeCorrect` does without it.
- `AlternatingMaximization`: its `ProblemsAssumption`, tables of integers above
  -DBL_MAX for any number of agents. Its `IndicesFit` says only that indices are
  below the range of `Index`: that policies have indices of their own is proved.
- `BranchAndBound`: `SizesAssumption` (finitely many types, actions and policies, and
  one of each), `GamesAssumption` (integer contributions; the ordering is a
  permutation of the joint types; lower bounds are not below -DBL_MAX) and
  `PayoffsAssumption` (nor is a payoff). That orderings are permutations is what the
  hazard of line 459 casts doubt on. `StopIsSound` is in the statement where it is
  needed: a `GMAA_MAAstar` that asks for more than one solution, or a solver with
  `reComputeH`, satisfies it; finding 3 is the rest.
- `BruteForceSolver`: `VectorAssumption` (one agent or more, each with an action and a
  domain element or more), its `GamesAssumption` and `PayoffsAssumption` (integers
  above -DBL_MAX; INT_MAX is above the number of joint policies). In the statements:
  `IndicesFit`, that every index is below the range of `Index`, and
  `UpperBoundsAreSound`, that no policy is better than an upper bound at which a search
  for one solution stops; a heuristic that is too low would make it stop too early.
- `QHeuristics`: `TasksAssumption` (horizons and discounts are numbers, a QHybrid has
  its last stages within its horizon, which the constructor checks). In the statements:
  `ProblemsAreNamed`, that the programs that share files mean one problem by one name
  and discount, since a file name has no more of it, and of the discount only six digits; and `TablesHaveTheirRows`, that
  `Compute` yields as many rows as `Load` counts. The second compares the growth of a tree
  with a sum of powers, an induction over data, so TLC evaluates it for the tasks of
  the run.

**Classic.** `ResultIsOptimal` is not inductive: whether an answer is optimal
depends on what was pruned. The inductive invariant `IInv` says that an item
stands for the complete policies that extend it, and
- the types hold, and no item of the pool is complete (`TypeInv`);
- past rewards of items are exact (`PastRewardsExact`);
- an item's value bounds the reward of every policy it stands for
  (`ValuesBound`): the heuristic is admissible *from an exact past reward*, so
  this needs the conjunct before it;
- a policy that no item stands for is no better than the lower bound
  (`RestIsNoBetter`): expansion hands policies on to the children
  (`NextRuleExtends`), the last stage compares them with the best one
  (`LastStageChildIsBest`, also when it stopped early, by `ValuesBound`),
  and pruning removes items with values below the new bound;
- items stand for disjoint sets (`Disjoint`, `NothingReturned`);
- the lower bound is the reward of the policy kept with it (`BoundIsAchieved`),
  and the answer is that policy and bound (`AnswerIsBest`).
There is one lemma per action; the lemmas about policies are those of the other
planners as well. Refinement follows from the invariant: expansions are
stutters or `Improve`, the end is `Answer`.

**MAAstar.** An item now stands for the policies that begin with one of the
rules *left* to its solver, and its value changes. The invariants are stacked, so
that each theorem rests on as little as it can:
- `PoolInv`: types, exact past rewards, disjoint items, and `LeftIsCounted`: no
  more rules are left than calls the solver can still be asked, so that an item
  that `AllSolutionsHaveBeenReturned` cleans up has nothing left;
- `ValueInv` adds that an item of stage 0 keeps DBL_MAX (`RootIsUnbounded`) and
  that the value of an item that was put back, the value of its last child, is no
  less than that of any rule left (`LaterAreLower`): the solver returns by
  decreasing payoff and values are payoffs of one positive weight plus one past
  reward;
- `MonotoneInv` adds `BoundsWhatIsLeft` for consistent heuristics, which excludes
  the exception;
- `SearchInv` adds, for sound problems, `ValuesBound`, `RestIsNoBetter` and
  `AnswerIsBest` as in Classic. Three ways of losing a policy are shown to be
  harmless: the solver drops it, for good, because its payoff is below the bound it
  was given, that bound being sound (`BoundIsSound`); pruning; and the last stage,
  whose item is not put back because its first child is its best.

**kGMAA.** The result is exact because a call cannot end without a policy:
while there is none the bound is -DBL_MAX, the solver must return something and
nothing is pruned, so the pool does not run empty (`SomethingLeft` in
`ResultInv`). `PoolIsBounded` is not inductive, since an item may leave one depth
for k of the next at any time. `SizeInv` states that there is an account `n[t]` of
the policies of depth t that the call has put into the pool so far, and that
all of them but the first are among the k children of one that has left the depth
above; then `n[t] <= k^t`, by induction over the depth.

**SolutionQueue.** `jpolIndices` are exactly the indices of the policies that are in
the queue or were returned (`Recorded`): what is thrown out must be forgotten and
what is popped must not. With a sorted queue without duplicates
it follows that what is not in the queue is no better than its last element
(`BestIsKept`). That the queue is sorted is part of `TypeInv`, since the place of
the next insertion does not exist otherwise.

**AlternatingMaximization.** `ResultIsEquilibrium` and `ResultIsAchieved` rest on
`IInv`. `AskedAreContent` says: with unique best responses
nothing has changed since the last improvement, so all agents asked since have
no better response to the policy at hand, counted by whose turn it is. With
ties, and for JESP with two agents, `PairIsContent` says that the second agent is
asked about the best policy itself, so that it is an equilibrium wherever the
current policy moves later. `ValueIsKept` relates the value that is kept to the
policy that is kept.

The solver's solutions are in a `SolutionQueue`. Every step of the solver is one of
the queue or leaves it alone (`QueueTakesStep`), so the invariants of
`SolutionQueueProofs` hold of it once their conditions are shown: a joint policy's
index, computed agent by agent, is a number in mixed radix with a digit below its
base for every agent (`PartialIndicesAre`), so that equal indices have equal digits
(`IndexIsItsOwn`, by `DigitsAgree`). `BestInv` adds that the value `Solve()` reports is
the greatest of what was added. A solution that is rejected or thrown out is no better
than the last one kept, so the head of the queue has that value (`HeadIsBest`).

**BranchAndBound.** `IInv` says of every open node (`NodeInv`) that it specifies
exactly the types that the joint types up to its depth show (`IsPartial`), that g is what
those contribute (`GIsExact`) and h no less than what the others do, for every
completion (`HIsOptimistic`); and of the whole that completions of two nodes, or of
a node and a solution, are disjoint (`NoPolicyTwice`), that solutions carry their
payoffs (`AreSolutions`), and that a search has stopped for a reason
(`StoppedIsRight`). The work is in three groups of lemmas:
- about sums over finite sets of joint types (`SumWithout`, `SumIsMonotonic`), since
  g grows by one term while h loses one;
- about orderings: the useful positions and the others divide the joint types
  (`OrderingIsBijection`, `RemainingJointTypes`), and the useful ones show every
  type (`UsefulTypesShowEveryType`), which is why a node of greatest depth is
  complete, although useless joint types are never expanded;
- about `Expand`: the valid joint actions divide the completions of a node among its
  children (`CompletionsOfExtension`), and `ReComputedH` is a bound that is exact at
  a complete node (`HIsTight`).
For the refinement the policies that may be dropped are counted: a solution that is
thrown out of a full queue has as many others that are no worse as can still be asked
for (`EnoughAreNoWorse`), and what is pruned is below the caller's bound or the best
solution. When H is not computed again it only loses terms, so F stays at most what it
was at the root (`HIsSubtracted`): a complete node reaches no upper bound beyond that,
which is what makes `StopIsSound` sufficient. With `ImplementsIncrementalSolver` the
solver that `MAAstar` assumes exists: what remains assumed there is that games have a
sound stop, and that calls return, which TLC checks.

**BruteForceSolver.** A joint policy is a number with two levels of digits: the
actions of an agent are the digits of its policy's index, whose base is the same for
all, and these indices are the digits of the joint index, with a base for every agent.
The lemmas are about such numbers in general: a number determines its digits
(`DigitsAgree`, `NumbersDiffer`), stays below the product of the bases
(`NumbersStayBelow`), and grows by one when a digit is incremented and those behind it
go from their greatest value to 0 (`CountingUp`); dividing it again and again gives the
digits back (`QuotientsGiveDigits`). The increments of the code, within a policy and
over the agents, are two cases of `CountingUp` (`PolicyIncrements`, `JointIncrements`).
So the policies before the current one are those with a smaller index, one more after
every step (`TriedNext`) and all at the last policy (`TriedAll`), which is `SearchInv`
together with the best of them and, through `SolutionQueueProofs`, the state of the
queue. `DoneInv` is what the search leaves behind for the calls to come: every policy is
in the queue or was returned, or the queue still has as many that are no worse as can be
asked for (`AllAreFound`), or the one solution is best, wherever the search stopped
(`BestIsFound`); and a call that came back empty left nothing in the queue that a later
one, with a bound at least as high, could return. The refinement reads off what may
still be returned: dropped are, when one solution is desired, all others at once, and,
when a call comes back empty, all that is below its bound (`LeftIsBelowHead`).

**QHeuristics.** The invariant is about files whose writers are long gone:
`FilesBeginTables` says that every file holds the first rows of a table that some task of
the family with this file name computes, and `SavingIsComputed` the same of the file that
is open. Killing a program does not touch either. A load that finds all rows then
finds the table of some task of that name (`WholeFileIsTable`), and it remains to be shown
that this is the reader's table: `NameTells` gets the problem, the horizon, the split
and the kind back from the name, and `SameFileSameTables` shows that nothing else goes
into `Compute`: not the kind of the first stages when there are none, nor the form of
value iteration when there are no last ones or the discount is 1 (`DiscountIsIgnored` is
the case that is left out, finding 7). The numbers in the tables are not looked into.

Induction, up to a number or over finite sets, looks at a smallest counterexample in
a set (`IntervalInduction`, `FiniteSubsetsInduction`), as the induction theorems of the
library have operators for parameters that the provers cannot instantiate.

Only model-checked:
- all liveness (`PlanEnds`, `SearchEnds`, the leads-tos of `OptimalSearch` and
  `IncrementalSolver`): the prover has no support for fairness and ENABLED;
- `BruteForceSearch`, whose run shows a violation;
- `PlanningUnit`: its steps build trees of histories, recursions over data, and its
  properties compare them with definitions of their own;
- `HeuristicIsAdmissible` and `HeuristicsAreOrdered` of `QHeuristics`: they compare
  backups over trees of histories, read through their numbering, with sums over all
  policies. That the program's heuristics are admissible, which Classic assumes, is
  therefore checked only.

## 5. State of the plan

Done: the Plan loop and its three planners for plain Dec-POMDPs, the contract of
incremental solvers with branch and bound and brute force search as
implementations, the solution queue, policies as vectors with their indices,
brute force planning, both JESP planners with the BG solver that shares their
loop, the planning unit's histories and caches, the heuristics with their files,
and the proofs above.

Worth doing next: proofs about the numbering of histories, numbers in mixed radix once
more, on which `AnswersAgree` and `HeuristicIsAdmissible` rest; the computation of joint type orderings (`BGIP_SolverBranchAndBound.h:459`), for
which agents with different numbers of types need a representation of the basis
types; the caches of `SetProblem` on planning units of factored problems.

### Not modelled

- *Real-valued algorithms*: alpha vectors, Perseus, incremental pruning, max-plus,
  cross entropy, DICEPS, Q-learning, value and policy iteration without a horizon.
  They are correct up to convergence or precision, and linear programs are inside
  most of them. With whole numbers in place of `double`s nothing that could go wrong
  in them would remain.
- *Clustered games* (`GMAA_MAAstarCluster`, `GMAA_kGMAACluster`): the loop is the
  modelled one. Whether types may be merged is a comparison of probabilities and beliefs
  with a precision.
- *Factored games* (ELSI, `BGCG_*`): variable elimination and message passing in
  libDAI, which is vendored.
- *The deadline of a BG solver*: `EDeadline` leaves `Solve()` with `_m_solved` set
  (`BGIP_SolverBranchAndBound.h:1468`), but leaves the planner too, so that no caller
  asks that solver again.
- *`BGIP_SolverBFSNonIncremental`*: the loop of the brute force solver on a table
  of payoffs computed beforehand.
- *Overflow of the numbers of policies and histories*: it depends on the width of
  `LIndex`, at which no instance can be enumerated; the check itself
  (`Interface_ProblemToPolicyDiscretePure.h:67`) is listed as a hazard.
- *`Prune(pp, k)`*: no live caller.
- *Simulation, agents, generators, timers, parsers, command-line programs*: loops
  that sample or print, with no state that outlives them. *boost and libDAI* are
  vendored.

Corners of the modelled files that are left out, because they cannot be reached from
the programs, because they concern memory and not the state that is modelled, or for
the reason that is given:
- The BG solver for brute force search leaves `_m_CBGlowerBound` unset in its
  constructor; the planner sets it before the first call.
- `JESPDynamicProgrammingPlanner` does nothing for a single agent, and neither JESP
  planner nor the brute force planner looks at the discount (`AlternatingMaximization`
  has values per joint policy, whatever they stand for).
- The check for the overflow of joint action-observation histories
  (`PlanningUnitMADPDiscrete.cpp:2844`), which most overflows pass; and the number
  of sequences for a single observation (`IndexTools.cpp:368`), which divides by
  zero but is only compared for a warning when trees are created.
- `QMDP::Save`, which with its cache of histories writes rows per history where
  `ComputeWithCachedQValues` writes and reads rows per state (`QMDP.cpp:129`).
  `calculateQheuristic -Q QMDPc` gets there, under the file name of every other QMDP. No task of
  `QHeuristics` has such a cache, so this is a hazard that no property covers.
- `QFunctionJAOHTree::Load`, which initializes the table only if it is initialized;
  `QMDP::DeInitialize`, which keeps
  the pointer it deletes, so that the destructor after `SetPU` deletes it again.
- `MDPValueIteration::PlanWithCache(bool)`, which reads a flag that is not
  initialized and uses a file name without the discount.
- `QHybrid` and `QBG` leave a loop with `continue` before they free a belief.
- A cache file names its problem by its name only: two problems of one name are
  taken for one.
