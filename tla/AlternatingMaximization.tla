----------------------- MODULE AlternatingMaximization ------------------------
(***************************************************************************)
(* The planners and the solver in which the agents take turns to replace   *)
(* their policy by a best response to the policies of the others:          *)
(*   "JESPExhaustive"  JESPExhaustivePlanner                               *)
(*   "JESPDP"          JESPDynamicProgrammingPlanner                       *)
(*   "AM"              BGIP_SolverAlternatingMaximization                  *)
(* They differ in whose turn it is first, in what they keep, and in when   *)
(* they stop.  One best response is one step.  An individual policy is its *)
(* index; values differ by more than the tolerance of the code or not at   *)
(* all.  The two JESP planners may be asked to plan again, as the program  *)
(* JESP does; AM is solved once, with a number of restarts whose results   *)
(* it collects in a SolutionQueue.                                         *)
(***************************************************************************)
EXTENDS Integers, Sequences, FiniteSets, FiniteSetsExt

CONSTANTS
  Problems,   \* [nrPolicies |-> of every agent, value |-> of every joint policy]
  Planners,   \* the ones above
  MaxRounds,  \* calls of Plan(), or _m_nrRestarts
  Cap,        \* the number of best responses after which JESP gives up (1000)
  NrDesired,  \* the number of solutions that AM collects
  IndexRange, \* the number of values of an Index
  MinusMax    \* -DBL_MAX

AgentsOf(pr) == DOMAIN pr.nrPolicies

JointPolicies(pr) ==
  {p \in [AgentsOf(pr) -> UNION {0..pr.nrPolicies[ag]-1 : ag \in AgentsOf(pr)}] :
     \A ag \in AgentsOf(pr) : p[ag] \in 0..pr.nrPolicies[ag]-1}

ASSUME ProblemsAssumption ==
  /\ \A pr \in Problems :
       /\ pr.nrPolicies \in Seq(Nat \ {0}) \ {<< >>}
       /\ pr.value \in [JointPolicies(pr) -> Int]
       /\ \A p \in JointPolicies(pr) : pr.value[p] > MinusMax
  /\ MaxRounds \in Nat /\ Cap \in Nat \ {0}
  /\ NrDesired \in Nat \ {0} /\ IndexRange \in Nat \ {0}
  /\ MinusMax \in Int

VARIABLES
  planner,
  problem,
  phase,         \* "idle", or "planning" during a call or restart
  rounds,        \* the number of calls or restarts so far
  jpol,
  best,          \* the best policy of this call (JESP)
  v_best,        \* its value; v_thisAMrun
  vmax,          \* the best of all restarts (AM)
  nonImproving,  \* nr_non_improving_agents
  stop,          \* the number of best responses (JESP)
  agent,         \* whose turn it is: _m_agentI, or optimizingAgentI
  found,         \* the last result: [policy, value]
  queue,         \* the BGIPSolution of AM, with its history:
  jpolIndices,
  added,
  returned

queueVars == <<queue, jpolIndices, added, returned>>
vars == <<planner, problem, phase, rounds, jpol, best, v_best, vmax, nonImproving, stop, agent,
          found, queueVars>>

Agents == AgentsOf(problem)
NrAgents == Cardinality(Agents)
ValueOf(p) == problem.value[p]
ZeroPolicy == [ag \in Agents |-> 0]

(* Mutant of NextAgent: the turn does not come back to the first agent. *)
NextAgentWithoutEnd == agent + 1

NextAgent == (agent % NrAgents) + 1
Result(p, v) == [policy |-> p, value |-> v]

(* The joint policies of the problems, as AM's BGIPSolution holds them.     *)
Solutions == UNION {[problem : {pr}, policy : JointPolicies(pr)] : pr \in Problems}
Solution(p) == [problem |-> problem, policy |-> p]

SolutionValue == [s \in Solutions |-> s.problem.value[s.policy]]

(* The indices of the policies of the first agents, the last one the least *)
(* significant.                                                            *)
PartialIndices(s) ==
  LET n == s.problem.nrPolicies
      index[ag \in 0..Len(n)] ==
        IF ag = 0 THEN 0 ELSE index[ag - 1] * n[ag] + s.policy[ag]
  IN index

SolutionIndex == [s \in Solutions |-> PartialIndices(s)[Len(s.problem.nrPolicies)]]

Queue ==
  INSTANCE SolutionQueue WITH
    JPolicies <- Solutions,
    Value <- SolutionValue,
    PolicyIndex <- SolutionIndex,
    Overflows <- FALSE,
    Infinite <- MinusMax,
    Capacities <- {NrDesired},
    capacity <- NrDesired

TypeOK ==
  /\ planner \in Planners
  /\ problem \in Problems
  /\ phase \in {"idle", "planning"}
  /\ rounds \in 0..MaxRounds
  /\ {jpol, best, found.policy} \subseteq JointPolicies(problem)
  /\ {v_best, vmax, found.value} \subseteq Int
  /\ nonImproving \in 0..NrAgents
  /\ stop \in 0..Cap
  /\ agent \in Agents
  /\ Queue!TypeOK

Init ==
  /\ planner \in Planners
  /\ problem \in Problems
  /\ phase = "idle"
  /\ rounds = 0
  /\ jpol = ZeroPolicy
  /\ best = ZeroPolicy
  /\ v_best = MinusMax
  /\ vmax = MinusMax
  /\ nonImproving = 0
  /\ stop = 0
  /\ agent = 1
  /\ found = Result(ZeroPolicy, MinusMax)
  /\ queue = << >>
  /\ jpolIndices = {}
  /\ added = {}
  /\ returned = << >>

-----------------------------------------------------------------------------

Responses(p, ag) == {[p EXCEPT ![ag] = i] : i \in 0..problem.nrPolicies[ag]-1}

(* What DynamicProgrammingBestResponse and ComputeBestResponse may find:   *)
(* between equally good actions of a history or type they take the first,  *)
(* which is left open here.                                                *)
BestResponses(p, ag) ==
  {r \in Responses(p, ag) : \A q \in Responses(p, ag) : ValueOf(q) <= ValueOf(r)}

(* ExhaustiveBestResponse tries the agent's policies from the zero policy  *)
(* on, and keeps the first of the best ones.                               *)
ExhaustiveBestResponses(p, ag) ==
  {r \in BestResponses(p, ag) : \A q \in BestResponses(p, ag) : r[ag] <= q[ag]}

(* How JESP judges a best response. *)
Keep(r) ==
  IF ValueOf(r) > v_best
  THEN best' = r /\ v_best' = ValueOf(r) /\ nonImproving' = 0
  ELSE nonImproving' = nonImproving + 1 /\ UNCHANGED <<best, v_best>>

IsJESP == planner \in {"JESPExhaustive", "JESPDP"}

(* Mutant of StopsAt: the exhaustive planner stops one agent too early. *)
StopsOneEarlier == NrAgents - 2

(* The number of agents in a row that do not improve after which a planner *)
(* stops: the dynamic programming planner does not ask the last one.       *)
StopsAt == IF planner = "JESPDP" THEN NrAgents - 1 ELSE NrAgents

(* Mutant of StartPlan: the value of the last call is left. *)
StartPlanKeepsValue ==
  /\ IsJESP
  /\ phase = "idle"
  /\ rounds < MaxRounds
  /\ phase' = "planning"
  /\ rounds' = rounds + 1
  /\ jpol' \in JointPolicies(problem)
  /\ best' = ZeroPolicy
  /\ nonImproving' = 0
  /\ stop' = 0
  /\ UNCHANGED <<planner, problem, v_best, vmax, agent, found, queueVars>>

(* Plan(): a random policy.  The turn is where the last call left it.      *)
StartPlan ==
  /\ IsJESP
  /\ phase = "idle"
  /\ rounds < MaxRounds
  /\ phase' = "planning"
  /\ rounds' = rounds + 1
  /\ jpol' \in JointPolicies(problem)
  /\ best' = ZeroPolicy
  /\ v_best' = MinusMax
  /\ nonImproving' = 0
  /\ stop' = 0
  /\ UNCHANGED <<planner, problem, vmax, agent, found, queueVars>>

Respond(r) ==
  /\ phase = "planning"
  /\ nonImproving < StopsAt
  /\ stop < Cap
  /\ stop' = stop + 1
  /\ agent' = NextAgent
  /\ jpol' = r
  /\ Keep(r)
  /\ UNCHANGED <<planner, problem, phase, rounds, vmax, found, queueVars>>

RespondExhaustively ==
  /\ planner = "JESPExhaustive"
  /\ \E r \in ExhaustiveBestResponses(jpol, agent) : Respond(r)

RespondByDP ==
  /\ planner = "JESPDP"
  /\ \E r \in BestResponses(jpol, agent) : Respond(r)

EndPlan ==
  /\ IsJESP
  /\ phase = "planning"
  /\ nonImproving >= StopsAt \/ stop = Cap
  /\ phase' = "idle"
  /\ found' = Result(best, v_best)
  /\ UNCHANGED <<planner, problem, rounds, jpol, best, v_best, vmax, nonImproving, stop, agent, queueVars>>

-----------------------------------------------------------------------------

(* A restart of Solve(): a random policy and its value, and the first      *)
(* agent's turn.                                                           *)
StartRun ==
  /\ planner = "AM"
  /\ phase = "idle"
  /\ rounds < MaxRounds
  /\ phase' = "planning"
  /\ rounds' = rounds + 1
  /\ \E p \in JointPolicies(problem) : jpol' = p /\ v_best' = ValueOf(p)
  /\ nonImproving' = 0
  /\ agent' = 1
  /\ UNCHANGED <<planner, problem, best, vmax, stop, found, queueVars>>

(* Mutant of Improve: an equal value counts as an improvement. *)
ImproveOrEqual(v) ==
  IF v >= v_best THEN v_best' = v /\ nonImproving' = 0
  ELSE nonImproving' = nonImproving + 1 /\ UNCHANGED v_best

(* AM does not keep the policy that improved: it goes on with the current. *)
Improve(v) ==
  IF v > v_best THEN v_best' = v /\ nonImproving' = 0
  ELSE nonImproving' = nonImproving + 1 /\ UNCHANGED v_best

RespondInRun ==
  /\ planner = "AM"
  /\ phase = "planning"
  /\ nonImproving < NrAgents
  /\ \E r \in BestResponses(jpol, agent) : jpol' = r /\ Improve(ValueOf(r))
  /\ agent' = NextAgent
  /\ UNCHANGED <<planner, problem, phase, rounds, best, vmax, stop, found, queueVars>>

(* Mutant of EndRun: the best value is overwritten by every restart. *)
EndRunOverwrites ==
  /\ planner = "AM"
  /\ phase = "planning"
  /\ nonImproving >= NrAgents
  /\ phase' = "idle"
  /\ found' = Result(jpol, v_best)
  /\ vmax' = v_best
  /\ added' = added \cup {Solution(jpol)}
  /\ Queue!AddIndexed(Solution(jpol))
  /\ UNCHANGED <<planner, problem, rounds, jpol, best, v_best, nonImproving, stop, agent, returned>>

(* The end of a restart: its policy is added to the solutions. *)
EndRun ==
  /\ planner = "AM"
  /\ phase = "planning"
  /\ nonImproving >= NrAgents
  /\ phase' = "idle"
  /\ found' = Result(jpol, v_best)
  /\ vmax' = IF v_best > vmax THEN v_best ELSE vmax
  /\ added' = added \cup {Solution(jpol)}
  /\ Queue!AddIndexed(Solution(jpol))
  /\ UNCHANGED <<planner, problem, rounds, jpol, best, v_best, nonImproving, stop, agent, returned>>

Work == RespondExhaustively \/ RespondByDP \/ EndPlan \/ RespondInRun \/ EndRun

Next == StartPlan \/ StartRun \/ Work

(* A call or restart runs to its end. *)
Spec == Init /\ [][Next]_vars /\ WF_vars(Work)

-----------------------------------------------------------------------------
(***************************************************************************)
(* Properties.                                                             *)
(***************************************************************************)

(* The dynamic programming planner asks nobody when there is one agent.    *)
IsDegenerate == planner = "JESPDP" /\ NrAgents = 1

HasResult == phase = "idle" /\ rounds > 0 /\ ~IsDegenerate

(* The value that is reported with a result is the value of its policy,    *)
(* although JESP goes on with other policies after its best one, and AM    *)
(* stores a policy that its last improvement need not have found.          *)
ResultIsAchieved == HasResult => ValueOf(found.policy) = found.value

IsEquilibrium(p) == \A ag \in Agents : \A r \in Responses(p, ag) : ValueOf(r) <= ValueOf(p)

HasUniqueResponses ==
  \A p \in JointPolicies(problem) : \A ag \in Agents :
    \A q, r \in BestResponses(p, ag) : q = r

(* No agent alone can improve a result: always when best responses are     *)
(* unique, and for JESP with two agents whatever the ties; unless JESP     *)
(* gave up.  The agents that did not improve were asked one after the      *)
(* other, and may each have moved to an equal policy in between.           *)
ResultIsEquilibrium ==
  HasResult /\ nonImproving = StopsAt /\ (HasUniqueResponses \/ (IsJESP /\ NrAgents <= 2)) =>
    IsEquilibrium(found.policy)

(* The indices of the joint policies fit into an Index.                    *)
IndicesFit == \A s \in Solutions : SolutionIndex[s] < IndexRange

(* What Solve() returns is the value of the solution that is read first,   *)
(* and the solutions are the best that any restart found.                  *)
SolutionsAreTheBestRestarts ==
  planner = "AM" /\ phase = "idle" /\ rounds > 0 =>
    /\ ValueOf(Head(queue).policy) = vmax
    /\ Queue!QueueHoldsTheBest

(* Every call and every restart ends: equal values are no improvement.     *)
SearchEnds == phase = "planning" ~> phase = "idle"
===============================================================================
