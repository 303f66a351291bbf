---------------------------- MODULE BranchAndBound ----------------------------
(***************************************************************************)
(* BGIP_SolverBranchAndBound: the incremental branch-and-bound solver of   *)
(* Bayesian games with identical payoffs.  A search node of depth d has    *)
(* chosen joint actions for the first d joint types of an ordering; the    *)
(* open nodes and the solutions that were not returned yet are kept from   *)
(* one call to the next.  One iteration of the loop of ReSolve() is one    *)
(* step.  (A policy of the game maps the pairs of an agent and one of its  *)
(* types to an action; a node knows the part it has specified.)            *)
(***************************************************************************)
EXTENDS Integers, FiniteSets, FiniteSetsExt, Functions

CONSTANTS
  Agents,
  Types,      \* Types[agent]
  Actions,    \* of every agent
  Games,      \* the games, with the solver's options: see GamesAssumption
  Bounds,     \* the lower bounds that callers may pass
  MinusMax,   \* -DBL_MAX
  NoPolicy    \* the answer of a call that returns false

JointTypes == {jt \in [Agents -> UNION {Types[ag] : ag \in Agents}] :
                 \A ag \in Agents : jt[ag] \in Types[ag]}
JointActions == [Agents -> Actions]

AgentTypes == UNION {{ag} \X Types[ag] : ag \in Agents}
GamePolicies == [AgentTypes -> Actions]
PartialPolicies == UNION {[s -> Actions] : s \in SUBSET AgentTypes}

(* There are agents, finitely many, and so are their types and actions, of *)
(* which every agent has some.                                             *)
ASSUME SizesAssumption ==
  /\ IsFiniteSet(JointTypes) /\ IsFiniteSet(JointActions) /\ IsFiniteSet(GamePolicies)
  /\ Agents # {} /\ Actions # {}
  /\ \A ag \in Agents : Types[ag] # {}

ASSUME GamesAssumption ==
  /\ \A bg \in Games :
       /\ bg.contribution \in [JointTypes -> [JointActions -> Int]]
       /\ bg.ordering \in [1..Cardinality(JointTypes) -> JointTypes]
       /\ {bg.ordering[i] : i \in DOMAIN bg.ordering} = JointTypes
       /\ bg.reComputeH \in BOOLEAN
       /\ bg.nrDesired \in Nat \ {0}
       /\ bg.upperBound \in Int
  /\ MinusMax \in Bounds
  /\ \A b \in Bounds : b \in Int /\ MinusMax <= b
  /\ NoPolicy \notin GamePolicies

VARIABLES
  game,          \* the game and the options of the solver
  solved,        \* _m_solved
  phase,         \* "idle", "searching", or "stopped": the loop was left by break
  openQueue,     \* _m_openQueue
  solutions,     \* the BGIPSolution: policies with their values
  maxLowerBound, \* _m_maxLowerBound
  CBGlowerBound, \* _m_CBGlowerBound
  calls,         \* _m_nrSolutionsReturned
  answer         \* the policy that the last call returned

vars == <<game, solved, phase, openQueue, solutions, maxLowerBound, CBGlowerBound, calls, answer>>

-----------------------------------------------------------------------------

(***************************************************************************)
(* The order of joint types.  A joint type is useless when the types of    *)
(* all agents occur before it: it is moved to the back, so that the first  *)
(* MaxDepth joint types specify a complete policy.                         *)
(***************************************************************************)
IsUseful(i) == \E ag \in Agents : \A j \in 1..i-1 : game.ordering[j][ag] # game.ordering[i][ag]

UsefulPositions == {i \in DOMAIN game.ordering : IsUseful(i)}

MaxDepth == Cardinality(UsefulPositions)

(* The joint type that is specified at depth d, and the ones still to come. *)
JointTypeAt(d) ==
  game.ordering[CHOOSE i \in UsefulPositions :
                  Cardinality({j \in UsefulPositions : j <= i}) = d]

(* Mutant of Remaining: useless joint types are left out. *)
RemainingUseful(d) == {JointTypeAt(e) : e \in d+1..MaxDepth}

Remaining(d) == JointTypes \ {JointTypeAt(e) : e \in 1..d}

(* Mutant of ValidJointActions: what is specified already is ignored. *)
AllJointActions(pol, jt) == JointActions

(* The joint actions for jt that agree with what pol specifies already. *)
ValidJointActions(pol, jt) ==
  {ja \in JointActions :
     \A ag \in Agents : <<ag, jt[ag]>> \in DOMAIN pol => ja[ag] = pol[<<ag, jt[ag]>>]}

Specify(pol, jt, ja) ==
  [x \in DOMAIN pol \cup {<<ag, jt[ag]>> : ag \in Agents} |->
     IF x \in DOMAIN pol THEN pol[x] ELSE ja[x[1]]]

GetContribution(jt, ja) == game.contribution[jt][ja]

CompleteInformationValue(jt) == Max({GetContribution(jt, ja) : ja \in JointActions})

(* ReComputeH: the best that is left for the joint types after depth d. *)
ReComputedH(pol, d) ==
  SumFunction([jt \in Remaining(d) |->
    Max({GetContribution(jt, ja) : ja \in ValidJointActions(pol, jt)})])

(* The joint action that a complete policy takes at a joint type. *)
ActionsOf(pi, jt) == [ag \in Agents |-> pi[<<ag, jt[ag]>>]]

(* The expected payoff of the complete policies of every game. *)
GamePayoff ==
  [bg \in Games |-> [pi \in GamePolicies |->
     SumFunction([jt \in JointTypes |-> bg.contribution[jt][ActionsOf(pi, jt)]])]]

(* No payoff is below -DBL_MAX. *)
ASSUME PayoffsAssumption ==
  \A bg \in Games : \A pi \in GamePolicies : MinusMax <= GamePayoff[bg][pi]

ValueOf(pi) == GamePayoff[game][pi]

Nodes == [depth : 0..Cardinality(JointTypes), pol : PartialPolicies, g : Int, h : Int]

Root ==
  [depth |-> 0, pol |-> [x \in {} |-> NoPolicy], g |-> 0,
   h |-> SumFunction([jt \in JointTypes |-> CompleteInformationValue(jt)])]

F(node) == node.g + node.h

IsFullySpecifiedPolicy(node) == node.depth = MaxDepth

(* The child of node that takes ja for the next joint type. *)
Extension(node, ja) ==
  LET jt == JointTypeAt(node.depth + 1)
      pol == Specify(node.pol, jt, ja)
  IN [depth |-> node.depth + 1, pol |-> pol, g |-> node.g + GetContribution(jt, ja),
      h |-> IF game.reComputeH THEN ReComputedH(pol, node.depth + 1)
            ELSE node.h - CompleteInformationValue(jt)]

(* Mutant of Top: the queue is ordered the other way. *)
Bottom == {n \in openQueue : \A m \in openQueue : F(n) <= F(m)}

(* The nodes that may be at the top of the queue. *)
Top == {n \in openQueue : \A m \in openQueue : F(m) <= F(n)}

-----------------------------------------------------------------------------

Solution(pi, v) == [pol |-> pi, value |-> v]

(* GetPayoff(): the value of the best solution there is. *)
Payoff(s) == IF s = {} THEN MinusMax ELSE Max({i.value : i \in s})

(* Mutant of WithSolution: the queue has no capacity. *)
WithoutCapacity(s) == {solutions \cup {s}}

(* AddSolution() to a queue of nrDesired places: a solution that does not  *)
(* fit in replaces one of the worst, when that is worse.                   *)
WithSolution(s) ==
  LET worst == {i \in solutions : \A j \in solutions : i.value <= j.value}
  IN IF Cardinality(solutions) < game.nrDesired THEN {solutions \cup {s}}
     ELSE {IF w.value < s.value THEN (solutions \ {w}) \cup {s} ELSE solutions : w \in worst}

TypeOK ==
  /\ game \in Games
  /\ solved \in BOOLEAN
  /\ phase \in {"idle", "searching", "stopped"}
  /\ openQueue \subseteq Nodes
  /\ solutions \subseteq [pol : GamePolicies, value : Int]
  /\ Cardinality(solutions) <= game.nrDesired
  /\ maxLowerBound \in Int
  /\ CBGlowerBound \in Bounds
  /\ calls \in Nat
  /\ answer \in GamePolicies \cup {NoPolicy}

Init ==
  /\ game \in Games
  /\ solved = FALSE
  /\ phase = "idle"
  /\ openQueue = {}
  /\ solutions = {}
  /\ maxLowerBound = MinusMax
  /\ CBGlowerBound = MinusMax
  /\ calls = 0
  /\ answer = NoPolicy

(* SetCBGlowerBound and GetNextJointPolicyAndValue: Solve() on the first   *)
(* call, ReSolve() from what is open on the later ones.                    *)
GetNext ==
  /\ phase = "idle"
  /\ calls < game.nrDesired
  /\ \E b \in Bounds : b >= CBGlowerBound /\ CBGlowerBound' = b
  /\ calls' = calls + 1
  /\ solved' = TRUE
  /\ openQueue' = IF solved THEN openQueue ELSE {Root}
  /\ maxLowerBound' = Payoff(solutions)
  /\ phase' = "searching"
  /\ UNCHANGED <<game, solutions, answer>>

(* Mutant of ProcessFullySpecifiedNode: the bound follows every solution. *)
ProcessWithoutComparison(top) ==
  LET s == Solution(top.pol, ValueOf(top.pol))
  IN /\ solutions' \in WithSolution(s)
     /\ maxLowerBound' = s.value
     /\ openQueue' = openQueue \ {top}

(* ProcessFullySpecifiedNode: its true value makes it a solution. *)
ProcessFullySpecifiedNode(top) ==
  LET s == Solution(top.pol, ValueOf(top.pol))
  IN /\ solutions' \in WithSolution(s)
     /\ maxLowerBound' = IF s.value > maxLowerBound THEN s.value ELSE maxLowerBound
     /\ openQueue' = openQueue \ {top}

(* "Hit CBG upperbound": one solution is desired, and top reaches it. *)
HitsUpperBound(top) == game.nrDesired = 1 /\ F(top) >= game.upperBound

(* "max. upper bound < best found policy" *)
IsBelowBest(top) == F(top) < maxLowerBound

StopAt(top) ==
  /\ IsFullySpecifiedPolicy(top)
  /\ HitsUpperBound(top) \/ IsBelowBest(top)
  /\ ProcessFullySpecifiedNode(top)
  /\ phase' = "stopped"

ProcessTop(top) ==
  /\ IsFullySpecifiedPolicy(top)
  /\ ~HitsUpperBound(top)
  /\ ~IsBelowBest(top)
  /\ ProcessFullySpecifiedNode(top)
  /\ UNCHANGED phase

(* A child is pushed unless the F of its parent is below the bound. *)
IsPruned(node) == F(node) < CBGlowerBound

ExpandAllExtensions(top) ==
  /\ ~IsFullySpecifiedPolicy(top)
  /\ openQueue' =
       (openQueue \ {top}) \cup
         {Extension(top, ja) :
            ja \in {ja \in ValidJointActions(top.pol, JointTypeAt(top.depth + 1)) : ~IsPruned(top)}}
  /\ UNCHANGED <<phase, solutions, maxLowerBound>>

ReSolve ==
  /\ phase = "searching"
  /\ \E top \in Top : StopAt(top) \/ ProcessTop(top) \/ ExpandAllExtensions(top)
  /\ UNCHANGED <<game, solved, CBGlowerBound, calls, answer>>

(* The loop is over: the best solution is returned and popped, if any. *)
ReturnNext ==
  /\ phase = "stopped" \/ (phase = "searching" /\ openQueue = {})
  /\ phase' = "idle"
  /\ \/ /\ solutions = {}
        /\ answer' = NoPolicy
        /\ UNCHANGED solutions
     \/ \E s \in solutions :
          /\ s.value = Payoff(solutions)
          /\ answer' = s.pol
          /\ solutions' = solutions \ {s}
  /\ UNCHANGED <<game, solved, openQueue, maxLowerBound, CBGlowerBound, calls>>

Next == GetNext \/ ReSolve \/ ReturnNext

(* A call runs its loop and returns; nobody is obliged to call. *)
Spec == Init /\ [][Next]_vars /\ WF_vars(ReSolve \/ ReturnNext)

-----------------------------------------------------------------------------
(***************************************************************************)
(* Properties.                                                             *)
(***************************************************************************)

(* The complete policies that a node leads to. *)
Completions(node) == {pi \in GamePolicies : \A x \in DOMAIN node.pol : pi[x] = node.pol[x]}

(* The policies that were neither returned nor dropped. *)
Left ==
  IF ~solved THEN GamePolicies
  ELSE (UNION {Completions(n) : n \in openQueue}) \cup {s.pol : s \in solutions}

(* F never underestimates what a node leads to, whether H is kept up to    *)
(* date by subtraction or computed again: all pruning and the order of     *)
(* the queue depend on it.                                                 *)
OpenNodesBoundTheirCompletions ==
  \A n \in openQueue : \A pi \in Completions(n) : ValueOf(pi) <= F(n)

(* The search tree is a partition: no policy is reached from two open      *)
(* nodes, or is found again after it became a solution.                    *)
NoPolicyTwice ==
  /\ \A n, m \in openQueue : n # m => Completions(n) \cap Completions(m) = {}
  /\ \A n \in openQueue : \A s \in solutions : s.pol \notin Completions(n)

(* During a call the lower bound is the value of the best solution that    *)
(* the solver still has, not of one it returned in an earlier call.        *)
LowerBoundIsBestSolution == phase # "idle" => maxLowerBound = Payoff(solutions)

(* The policy that answers the only call of a solver that is asked for one *)
(* solution is the best of the game (when no lower bound is passed).       *)
AnswerIsBest ==
  game.nrDesired = 1 /\ phase = "idle" /\ calls = 1 /\ CBGlowerBound = MinusMax =>
    /\ answer # NoPolicy
    /\ \A pi \in GamePolicies : ValueOf(pi) <= ValueOf(answer)

(* The upper bound of a solver that stops at it is one that no policy of   *)
(* the game reaches, unless H is computed again: F of a complete node may  *)
(* overestimate its value when it is not.                                  *)
StopIsSound(bg) ==
  bg.nrDesired = 1 /\ ~bg.reComputeH =>
    SumFunction([jt \in JointTypes |-> Max({bg.contribution[jt][ja] : ja \in JointActions})])
      < bg.upperBound

(* The solver keeps the contract of the incremental interface. *)
Solver ==
  INSTANCE IncrementalSolver WITH
    NrDesired <- [bg \in Games |-> bg.nrDesired],
    Nothing <- NoPolicy,
    left <- Left,
    bound <- CBGlowerBound,
    status <- IF phase = "idle" THEN "idle" ELSE "asked"

IsIncrementalSolver == Solver!Spec
===============================================================================
