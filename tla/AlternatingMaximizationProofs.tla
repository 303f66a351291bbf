--------------------- MODULE AlternatingMaximizationProofs ---------------------
(***************************************************************************)
(* The results of alternating maximization, for every number of agents,    *)
(* every table of values, every cap and every number of restarts: their    *)
(* values are right, and they are equilibria.                              *)
(***************************************************************************)
EXTENDS AlternatingMaximization, FiniteSetTheorems, WellFoundedInduction, TLAPS

(* The agents are numbered from 1 on. *)
LEMMA AgentsAreNumbered ==
  ASSUME problem \in Problems
  PROVE  /\ NrAgents \in Nat \ {0}
         /\ Agents = 1..NrAgents
<1> DEFINE n == Len(problem.nrPolicies)
<1>1. /\ problem.nrPolicies \in Seq(Nat \ {0})
      /\ problem.nrPolicies # << >>
  BY ProblemsAssumption
<1>2. n \in Nat \ {0}
  BY <1>1
<1>3. Agents = 1..n
  BY <1>1 DEF Agents, AgentsOf
<1>4. Cardinality(1..n) = n
  BY <1>2, FS_Interval
<1> QED
  BY <1>2, <1>3, <1>4 DEF NrAgents

(* The turn goes round. *)
LEMMA TurnGoesRound ==
  ASSUME problem \in Problems, agent \in Agents
  PROVE  NextAgent = IF agent = NrAgents THEN 1 ELSE agent + 1
<1>1. NrAgents \in Nat \ {0} /\ agent \in 1..NrAgents
  BY AgentsAreNumbered
<1>2. CASE agent = NrAgents
  <2>1. agent % NrAgents = 0
    BY <1>1, <1>2
  <2> QED
    BY <1>1, <1>2, <2>1 DEF NextAgent
<1>3. CASE agent # NrAgents
  <2>1. agent % NrAgents = agent
    BY <1>1, <1>3
  <2> QED
    BY <1>1, <1>3, <2>1 DEF NextAgent
<1> QED
  BY <1>2, <1>3

(* Values are numbers above -DBL_MAX. *)
LEMMA ValuesAreNumbers ==
  ASSUME problem \in Problems, NEW p \in JointPolicies(problem)
  PROVE  ValueOf(p) \in Int /\ ValueOf(p) > MinusMax
BY ProblemsAssumption DEF ValueOf

(* A response is a joint policy, and has the responses of the policy that  *)
(* it responds to.                                                         *)
LEMMA ResponsesOfResponse ==
  ASSUME problem \in Problems, NEW p \in JointPolicies(problem), NEW ag \in Agents,
         NEW r \in Responses(p, ag)
  PROVE  /\ r \in JointPolicies(problem)
         /\ Responses(r, ag) = Responses(p, ag)
         /\ p \in Responses(p, ag)
<1>1. PICK i \in 0..problem.nrPolicies[ag]-1 : r = [p EXCEPT ![ag] = i]
  BY DEF Responses
<1>2. /\ DOMAIN p = Agents
      /\ \A a \in Agents : p[a] \in 0..problem.nrPolicies[a]-1
      /\ p = [a \in Agents |-> p[a]]
  BY DEF JointPolicies, Agents
<1>3. r \in JointPolicies(problem)
  BY <1>1, <1>2 DEF JointPolicies, Agents
<1>4. \A j : [r EXCEPT ![ag] = j] = [p EXCEPT ![ag] = j]
  BY <1>1, <1>2
<1>5. p = [p EXCEPT ![ag] = p[ag]]
  BY <1>2
<1> QED
  BY <1>2, <1>3, <1>4, <1>5 DEF Responses

-----------------------------------------------------------------------------
(***************************************************************************)
(* The inductive invariant.                                                *)
(***************************************************************************)

TypeInv ==
  /\ problem \in Problems
  /\ phase \in {"idle", "planning"}
  /\ {jpol, best} \subseteq JointPolicies(problem)
  /\ v_best \in Int
  /\ nonImproving \in Nat
  /\ stop \in Nat
  /\ agent \in Agents

(* JESP keeps the value of its best policy, AM that of its current one.    *)
ValueIsKept ==
  phase = "planning" =>
    /\ planner = "AM" => v_best = ValueOf(jpol)
    /\ IsJESP => IF stop = 0 THEN v_best = MinusMax /\ nonImproving = 0
                 ELSE v_best = ValueOf(best)

(* How many best responses ago it was the turn of agent ag. *)
TurnsSince(ag) == IF ag < agent THEN agent - ag ELSE agent - ag + NrAgents

IsContent(ag, p) == \A r \in Responses(p, ag) : ValueOf(r) <= ValueOf(p)

(* When best responses are unique nothing has changed since the last       *)
(* improvement, and the agents whose turn it was have the best responses   *)
(* to it, in JESP with the agent that improved.                            *)
AskedAreContent ==
  phase = "planning" /\ HasUniqueResponses /\ (IsJESP => stop > 0) =>
    /\ IsJESP => jpol = best
    /\ \A ag \in Agents :
         TurnsSince(ag) <= nonImproving + (IF IsJESP THEN 1 ELSE 0) => IsContent(ag, jpol)

(* In JESP with two agents the second one is asked about the best policy   *)
(* itself, wherever the policies move to afterwards.                       *)
PairIsContent ==
  phase = "planning" /\ IsJESP /\ stop > 0 =>
    /\ nonImproving = 0 =>
         /\ jpol = best
         /\ \A ag \in Agents : TurnsSince(ag) = 1 => IsContent(ag, best)
    /\ nonImproving > 0 /\ NrAgents <= 2 => IsEquilibrium(best)

IInv ==
  /\ TypeInv
  /\ ValueIsKept
  /\ AskedAreContent
  /\ PairIsContent
  /\ ResultIsAchieved
  /\ ResultIsEquilibrium

-----------------------------------------------------------------------------
(* Lemmas about one best response. *)

LEMMA BestResponseIsContent ==
  ASSUME TypeInv, NEW p \in JointPolicies(problem), NEW r \in BestResponses(p, agent)
  PROVE  /\ r \in JointPolicies(problem)
         /\ IsContent(agent, r)
         /\ ValueOf(p) <= ValueOf(r)
         /\ ValueOf(r) <= ValueOf(p) => IsContent(agent, p)
<1>1. problem \in Problems /\ agent \in Agents
  BY DEF TypeInv
<1>2. r \in Responses(p, agent) /\ \A q \in Responses(p, agent) : ValueOf(q) <= ValueOf(r)
  BY DEF BestResponses
<1>3. /\ r \in JointPolicies(problem)
      /\ Responses(r, agent) = Responses(p, agent)
      /\ p \in Responses(p, agent)
  BY <1>1, <1>2, ResponsesOfResponse
<1>4. \A q \in Responses(p, agent) : q \in JointPolicies(problem)
  BY <1>1, ResponsesOfResponse
<1>5. \A q \in JointPolicies(problem) : ValueOf(q) \in Int
  BY <1>1, ValuesAreNumbers
<1> QED
  BY <1>2, <1>3, <1>4, <1>5 DEF IsContent

(* Unique best responses that are no improvement change nothing. *)
LEMMA UniqueResponseStays ==
  ASSUME TypeInv, HasUniqueResponses, NEW r \in BestResponses(jpol, agent),
         ValueOf(r) <= ValueOf(jpol)
  PROVE  r = jpol
<1>1. jpol \in JointPolicies(problem) /\ agent \in Agents /\ problem \in Problems
  BY DEF TypeInv
<1>2. IsContent(agent, jpol)
  BY <1>1, BestResponseIsContent
<1>3. jpol \in Responses(jpol, agent)
  <2>1. r \in Responses(jpol, agent)
    BY DEF BestResponses
  <2> QED
    BY <1>1, <2>1, ResponsesOfResponse
<1>4. jpol \in BestResponses(jpol, agent)
  BY <1>2, <1>3 DEF IsContent, BestResponses
<1> QED
  BY <1>1, <1>4 DEF HasUniqueResponses

(* When the turn goes on, every other agent has waited for one more. *)
LEMMA TurnsGoOn ==
  ASSUME TypeInv, agent' = NextAgent, problem' = problem, NEW ag \in Agents
  PROVE  /\ TurnsSince(ag) \in 1..NrAgents
         /\ TurnsSince(ag)' = IF ag = agent THEN 1 ELSE TurnsSince(ag) + 1
         /\ NextAgent \in Agents
<1>1. /\ NrAgents \in Nat \ {0}
      /\ Agents = 1..NrAgents
      /\ agent \in Agents
      /\ NextAgent = IF agent = NrAgents THEN 1 ELSE agent + 1
  BY AgentsAreNumbered, TurnGoesRound DEF TypeInv
<1>2. NrAgents' = NrAgents
  BY DEF NrAgents, Agents
<1> QED
  BY <1>1, <1>2 DEF TurnsSince

(* The problem does not change, nor does what depends on it only. *)
LEMMA SameProblem ==
  ASSUME problem' = problem
  PROVE  /\ Agents' = Agents
         /\ NrAgents' = NrAgents
         /\ HasUniqueResponses' <=> HasUniqueResponses
BY DEF Agents, NrAgents, HasUniqueResponses, BestResponses, Responses, ValueOf

(* No agent can improve an equilibrium. *)
LEMMA AllContent ==
  ASSUME NEW p, \A ag \in Agents : IsContent(ag, p)
  PROVE  IsEquilibrium(p)
BY DEF IsEquilibrium, IsContent

-----------------------------------------------------------------------------
(* The invariant holds at first. *)
LEMMA InitEstablishes == Init => IInv
<1> SUFFICES ASSUME Init PROVE IInv
  OBVIOUS
<1>1. problem \in Problems
  BY DEF Init
<1>2. NrAgents \in Nat \ {0} /\ Agents = 1..NrAgents
  BY <1>1, AgentsAreNumbered
<1>3. ZeroPolicy \in JointPolicies(problem)
  <2>1. problem.nrPolicies \in Seq(Nat \ {0})
    BY <1>1, ProblemsAssumption
  <2>2. \A ag \in Agents : 0 \in 0..problem.nrPolicies[ag]-1
    BY <2>1 DEF Agents, AgentsOf
  <2> QED
    BY <2>2 DEF ZeroPolicy, JointPolicies, Agents
<1>4. TypeInv
  BY <1>1, <1>2, <1>3, ProblemsAssumption DEF Init, TypeInv
<1>5. phase = "idle" /\ rounds = 0
  BY DEF Init
<1> QED
  BY <1>4, <1>5
  DEF IInv, ValueIsKept, AskedAreContent, PairIsContent, ResultIsAchieved, ResultIsEquilibrium,
      HasResult

(* A call of Plan() starts with a policy that nobody was asked about. *)
LEMMA StartPlanPreserves == IInv /\ StartPlan => IInv'
<1> SUFFICES ASSUME IInv, StartPlan PROVE IInv'
  OBVIOUS
<1>1. /\ phase' = "planning" /\ problem' = problem /\ planner' = planner /\ IsJESP
      /\ stop' = 0 /\ nonImproving' = 0 /\ v_best' = MinusMax /\ agent' = agent
      /\ jpol' \in JointPolicies(problem) /\ best' = ZeroPolicy
  BY DEF StartPlan
<1>2. TypeInv'
  <2>1. ZeroPolicy \in JointPolicies(problem)
    <3>1. problem.nrPolicies \in Seq(Nat \ {0})
      BY ProblemsAssumption DEF IInv, TypeInv
    <3>2. \A ag \in Agents : 0 \in 0..problem.nrPolicies[ag]-1
      BY <3>1 DEF Agents, AgentsOf
    <3> QED
      BY <3>2 DEF ZeroPolicy, JointPolicies, Agents
  <2> QED
    BY <1>1, <2>1, ProblemsAssumption, SameProblem DEF IInv, TypeInv
<1>3. IsJESP' /\ planner' # "AM"
  BY <1>1 DEF IsJESP
<1>4. ValueIsKept'
  BY <1>1, <1>3 DEF ValueIsKept
<1>5. AskedAreContent' /\ PairIsContent'
  BY <1>1, <1>3 DEF AskedAreContent, PairIsContent
<1>6. ResultIsAchieved' /\ ResultIsEquilibrium'
  BY <1>1 DEF ResultIsAchieved, ResultIsEquilibrium, HasResult
<1> QED
  BY <1>2, <1>4, <1>5, <1>6 DEF IInv

(* So does a restart of the solver. *)
LEMMA StartRunPreserves == IInv /\ StartRun => IInv'
<1> SUFFICES ASSUME IInv, StartRun PROVE IInv'
  OBVIOUS
<1>1. /\ phase' = "planning" /\ problem' = problem /\ planner' = planner /\ planner = "AM"
      /\ nonImproving' = 0 /\ agent' = 1 /\ UNCHANGED <<best, stop>>
      /\ jpol' \in JointPolicies(problem) /\ v_best' = ValueOf(jpol')
  BY DEF StartRun
<1>2. problem \in Problems /\ NrAgents \in Nat \ {0} /\ Agents = 1..NrAgents
  BY AgentsAreNumbered DEF IInv, TypeInv
<1>3. TypeInv'
  <2>1. ValueOf(jpol') \in Int
    BY <1>1, <1>2, ProblemsAssumption DEF ValueOf
  <2> QED
    BY <1>1, <1>2, <2>1, SameProblem DEF IInv, TypeInv
<1>4. ~IsJESP'
  BY <1>1 DEF IsJESP
<1>5. ValueIsKept'
  BY <1>1, <1>4 DEF ValueIsKept, ValueOf
<1>6. AskedAreContent'
  <2>1. \A ag \in 1..NrAgents : IF ag < 1 THEN FALSE ELSE 1 - ag + NrAgents > 0
    BY <1>2
  <2> QED
    BY <1>1, <1>2, <1>4, <2>1, SameProblem DEF AskedAreContent, TurnsSince
<1>7. PairIsContent'
  BY <1>4 DEF PairIsContent
<1>8. ResultIsAchieved' /\ ResultIsEquilibrium'
  BY <1>1 DEF ResultIsAchieved, ResultIsEquilibrium, HasResult
<1> QED
  BY <1>3, <1>5, <1>6, <1>7, <1>8 DEF IInv

(* A best response of JESP. *)
LEMMA RespondPreserves ==
  ASSUME IInv, IsJESP, NEW r \in BestResponses(jpol, agent), Respond(r)
  PROVE  IInv'
<1>1. /\ phase = "planning" /\ phase' = "planning" /\ problem' = problem /\ planner' = planner
      /\ stop' = stop + 1 /\ agent' = NextAgent /\ jpol' = r /\ Keep(r)
  BY DEF Respond
<1>2. TypeInv /\ ValueIsKept /\ AskedAreContent /\ PairIsContent
  BY DEF IInv
<1>3. /\ problem \in Problems /\ agent \in Agents /\ stop \in Nat /\ nonImproving \in Nat
      /\ jpol \in JointPolicies(problem) /\ best \in JointPolicies(problem) /\ v_best \in Int
      /\ NrAgents \in Nat \ {0} /\ Agents = 1..NrAgents
  BY <1>2, AgentsAreNumbered DEF TypeInv
<1>4. /\ r \in JointPolicies(problem)
      /\ IsContent(agent, r)
      /\ ValueOf(jpol) <= ValueOf(r)
      /\ ValueOf(r) <= ValueOf(jpol) => IsContent(agent, jpol)
      /\ ValueOf(r) \in Int /\ ValueOf(r) > MinusMax /\ ValueOf(jpol) \in Int
  BY <1>2, <1>3, BestResponseIsContent, ValuesAreNumbers
<1>5. \A ag \in Agents :
         /\ TurnsSince(ag) \in 1..NrAgents
         /\ TurnsSince(ag)' = IF ag = agent THEN 1 ELSE TurnsSince(ag) + 1
         /\ NextAgent \in Agents
  BY <1>1, <1>2, TurnsGoOn
<1>6. /\ Agents' = Agents /\ NrAgents' = NrAgents
      /\ HasUniqueResponses' <=> HasUniqueResponses
      /\ IsJESP' /\ planner' # "AM"
  BY <1>1, SameProblem DEF IsJESP
<1>7. CASE ValueOf(r) > v_best
  <2>1. best' = r /\ v_best' = ValueOf(r) /\ nonImproving' = 0
    BY <1>1, <1>7 DEF Keep
  <2>2. TypeInv'
    BY <1>1, <1>3, <1>4, <1>5, <1>6, <2>1 DEF TypeInv
  <2>3. ValueIsKept'
    BY <1>1, <1>3, <1>6, <2>1 DEF ValueIsKept, ValueOf
  <2>4. \A ag \in Agents : TurnsSince(ag)' <= 1 => ag = agent
    BY <1>3, <1>5
  <2>5. \A ag \in Agents' : TurnsSince(ag)' <= 1 => IsContent(ag, jpol)' /\ IsContent(ag, best)'
    BY <1>1, <1>4, <1>6, <2>1, <2>4 DEF IsContent, Responses, ValueOf
  <2>6. AskedAreContent'
    BY <1>1, <1>6, <2>1, <2>5 DEF AskedAreContent
  <2>7. PairIsContent'
    BY <1>1, <1>3, <1>5, <1>6, <2>1, <2>5 DEF PairIsContent
  <2>8. ResultIsAchieved' /\ ResultIsEquilibrium'
    BY <1>1 DEF ResultIsAchieved, ResultIsEquilibrium, HasResult
  <2> QED
    BY <2>2, <2>3, <2>6, <2>7, <2>8 DEF IInv
<1>8. CASE ~(ValueOf(r) > v_best)
  <2>1. best' = best /\ v_best' = v_best /\ nonImproving' = nonImproving + 1
    BY <1>1, <1>8 DEF Keep
  <2>2. stop > 0 /\ v_best = ValueOf(best)
    BY <1>1, <1>2, <1>3, <1>4, <1>8 DEF ValueIsKept
  <2>3. TypeInv'
    BY <1>1, <1>3, <1>4, <1>5, <1>6, <2>1 DEF TypeInv
  <2>4. ValueIsKept'
    BY <1>1, <1>3, <1>6, <2>1, <2>2 DEF ValueIsKept, ValueOf
  <2>5. AskedAreContent'
    <3> SUFFICES ASSUME HasUniqueResponses
                 PROVE  /\ jpol' = best'
                        /\ \A ag \in Agents : TurnsSince(ag)' <= nonImproving' + 1 =>
                             IsContent(ag, jpol)'
      BY <1>6, <2>1 DEF AskedAreContent
    <3>1. /\ jpol = best
          /\ \A ag \in Agents : TurnsSince(ag) <= nonImproving + 1 => IsContent(ag, jpol)
      BY <1>1, <1>2, <2>2 DEF AskedAreContent
    <3>2. r = jpol
      BY <1>2, <1>4, <1>8, <2>2, <3>1, UniqueResponseStays
    <3>3. \A ag \in Agents : TurnsSince(ag)' <= nonImproving' + 1 => IsContent(ag, jpol)
      <4> SUFFICES ASSUME NEW ag \in Agents, TurnsSince(ag)' <= nonImproving' + 1, ag # agent
                   PROVE  IsContent(ag, jpol)
        BY <1>4, <3>2
      <4>1. TurnsSince(ag) + 1 <= nonImproving + 1 + 1 /\ TurnsSince(ag) \in Int
        BY <1>3, <1>5, <2>1
      <4> QED
        BY <1>3, <3>1, <4>1
    <3> QED
      BY <1>1, <2>1, <3>1, <3>2, <3>3 DEF IsContent, Responses, ValueOf
  <2>6. PairIsContent'
    <3> SUFFICES ASSUME NrAgents <= 2
                 PROVE  IsEquilibrium(best)'
      BY <1>1, <1>3, <1>6, <2>1 DEF PairIsContent
    <3>1. CASE nonImproving = 0
      <4>1. jpol = best /\ \A ag \in Agents : TurnsSince(ag) = 1 => IsContent(ag, best)
        BY <1>1, <1>2, <2>2, <3>1 DEF PairIsContent
      <4>2. IsContent(agent, best)
        BY <1>3, <1>4, <1>8, <2>2, <4>1
      <4>3. \A ag \in Agents : ag # agent => TurnsSince(ag) = 1
        BY <1>3 DEF TurnsSince
      <4>4. IsEquilibrium(best)
        BY <4>1, <4>2, <4>3, AllContent
      <4> QED
        BY <1>1, <2>1, <4>4 DEF IsEquilibrium, Agents, Responses, ValueOf
    <3>2. CASE nonImproving > 0
      <4>1. IsEquilibrium(best)
        BY <1>1, <1>2, <2>2, <3>2 DEF PairIsContent
      <4> QED
        BY <1>1, <2>1, <4>1 DEF IsEquilibrium, Agents, Responses, ValueOf
    <3> QED
      BY <1>3, <3>1, <3>2
  <2>7. ResultIsAchieved' /\ ResultIsEquilibrium'
    BY <1>1 DEF ResultIsAchieved, ResultIsEquilibrium, HasResult
  <2> QED
    BY <2>3, <2>4, <2>5, <2>6, <2>7 DEF IInv
<1> QED
  BY <1>7, <1>8

(* The end of a call of JESP. *)
LEMMA EndPlanPreserves == IInv /\ EndPlan => IInv'
<1> SUFFICES ASSUME IInv, EndPlan PROVE IInv'
  OBVIOUS
<1>1. /\ IsJESP /\ phase = "planning" /\ phase' = "idle" /\ found' = Result(best, v_best)
      /\ nonImproving >= StopsAt \/ stop = Cap
      /\ UNCHANGED <<planner, problem, jpol, best, v_best, nonImproving, stop, agent>>
  BY DEF EndPlan
<1>2. /\ TypeInv /\ ValueIsKept /\ AskedAreContent /\ PairIsContent
      /\ planner # "AM" /\ (planner # "JESPDP" => planner = "JESPExhaustive")
  BY <1>1 DEF IInv, IsJESP
<1>3. /\ stop \in Nat /\ nonImproving \in Nat /\ Cap \in Nat \ {0} /\ agent \in Agents
      /\ NrAgents \in Nat \ {0} /\ Agents = 1..NrAgents
  BY <1>2, AgentsAreNumbered, ProblemsAssumption DEF TypeInv
<1>4. TypeInv'
  BY <1>1, <1>2, SameProblem DEF TypeInv
<1>5. ValueIsKept' /\ AskedAreContent' /\ PairIsContent'
  BY <1>1 DEF ValueIsKept, AskedAreContent, PairIsContent
<1>6. IsDegenerate' <=> IsDegenerate
  BY <1>1, SameProblem DEF IsDegenerate
<1>7. ~IsDegenerate => StopsAt \in Nat \ {0} /\ NrAgents <= StopsAt + 1
  BY <1>3 DEF IsDegenerate, StopsAt
<1>8. ~IsDegenerate => stop > 0
  BY <1>1, <1>2, <1>3, <1>7 DEF ValueIsKept
<1>9. ResultIsAchieved'
  <2> SUFFICES ASSUME ~IsDegenerate
               PROVE  (ValueOf(found.policy) = found.value)'
    BY <1>6 DEF ResultIsAchieved, HasResult
  <2>1. v_best = ValueOf(best)
    BY <1>1, <1>2, <1>3, <1>8 DEF ValueIsKept
  <2> QED
    BY <1>1, <2>1 DEF ValueOf, Result
<1>10. ResultIsEquilibrium'
  <2> SUFFICES ASSUME ~IsDegenerate, nonImproving = StopsAt, HasUniqueResponses \/ NrAgents <= 2
               PROVE  IsEquilibrium(best)
    <3>1. StopsAt' = StopsAt
      BY <1>1, SameProblem DEF StopsAt
    <3>2. IsEquilibrium(found.policy)' <=> IsEquilibrium(best)
      BY <1>1 DEF IsEquilibrium, Agents, Responses, ValueOf, Result
    <3> QED
      BY <1>1, <1>6, <3>1, <3>2, SameProblem DEF ResultIsEquilibrium, HasResult
  <2>1. CASE HasUniqueResponses
    <3>1. /\ jpol = best
          /\ \A ag \in Agents : TurnsSince(ag) <= nonImproving + 1 => IsContent(ag, jpol)
      BY <1>1, <1>2, <1>8, <2>1 DEF AskedAreContent
    <3>2. \A ag \in Agents : TurnsSince(ag) <= NrAgents /\ TurnsSince(ag) \in Int
      BY <1>3 DEF TurnsSince
    <3>3. \A ag \in Agents : IsContent(ag, best)
      BY <1>3, <1>7, <3>1, <3>2
    <3> QED
      BY <3>3, AllContent
  <2>2. CASE NrAgents <= 2
    BY <1>1, <1>2, <1>3, <1>7, <1>8, <2>2 DEF PairIsContent
  <2> QED
    BY <2>1, <2>2
<1> QED
  BY <1>4, <1>5, <1>9, <1>10 DEF IInv

(* A best response in a restart of the solver. *)
LEMMA RespondInRunPreserves == IInv /\ RespondInRun => IInv'
<1> SUFFICES ASSUME IInv, RespondInRun PROVE IInv'
  OBVIOUS
<1>1. PICK r \in BestResponses(jpol, agent) : jpol' = r /\ Improve(ValueOf(r))
  BY DEF RespondInRun
<1>2. /\ planner = "AM" /\ phase = "planning" /\ agent' = NextAgent
      /\ UNCHANGED <<planner, problem, phase, best, stop>>
      /\ ~IsJESP /\ ~IsJESP'
  BY DEF RespondInRun, IsJESP
<1>3. TypeInv /\ v_best = ValueOf(jpol) /\ AskedAreContent
  BY <1>2 DEF IInv, ValueIsKept
<1>4. /\ problem \in Problems /\ agent \in Agents /\ nonImproving \in Nat
      /\ jpol \in JointPolicies(problem) /\ v_best \in Int
      /\ NrAgents \in Nat \ {0} /\ Agents = 1..NrAgents
  BY <1>3, AgentsAreNumbered DEF TypeInv
<1>5. /\ r \in JointPolicies(problem)
      /\ IsContent(agent, r)
      /\ ValueOf(jpol) <= ValueOf(r)
      /\ ValueOf(r) \in Int
  BY <1>3, <1>4, BestResponseIsContent, ValuesAreNumbers
<1>6. \A ag \in Agents :
         /\ TurnsSince(ag) \in 1..NrAgents
         /\ TurnsSince(ag)' = IF ag = agent THEN 1 ELSE TurnsSince(ag) + 1
         /\ NextAgent \in Agents
  BY <1>2, <1>3, TurnsGoOn
<1>7. /\ v_best' = ValueOf(r)
      /\ nonImproving' = IF ValueOf(r) > v_best THEN 0 ELSE nonImproving + 1
  BY <1>1, <1>3, <1>4, <1>5 DEF Improve
<1>8. TypeInv'
  BY <1>1, <1>2, <1>3, <1>4, <1>5, <1>6, <1>7, SameProblem DEF TypeInv
<1>9. ValueIsKept'
  BY <1>1, <1>2, <1>7 DEF ValueIsKept, ValueOf
<1>10. AskedAreContent'
  <2> SUFFICES ASSUME HasUniqueResponses, NEW ag \in Agents, TurnsSince(ag)' <= nonImproving'
               PROVE  IsContent(ag, r)
    <3>1. \A ag \in Agents : IsContent(ag, jpol)' <=> IsContent(ag, r)
      BY <1>1, <1>2 DEF IsContent, Responses, ValueOf
    <3>2. (\A ag \in Agents : TurnsSince(ag)' <= nonImproving' => IsContent(ag, jpol)')
            => AskedAreContent'
      BY <1>2, <1>4, <1>7, SameProblem DEF AskedAreContent
    <3>3. HasUniqueResponses' => HasUniqueResponses
      BY <1>2, SameProblem
    <3> QED
      BY <3>1, <3>2, <3>3 DEF AskedAreContent
  <2>1. ~(ValueOf(r) > v_best) /\ TurnsSince(ag)' <= nonImproving + 1
    <3>1. TurnsSince(ag)' \in Int /\ TurnsSince(ag)' > 0
      <4>1. TurnsSince(ag) \in Nat
        BY <1>4, <1>6
      <4>2. TurnsSince(ag)' = IF ag = agent THEN 1 ELSE TurnsSince(ag) + 1
        BY <1>6
      <4> QED
        BY <4>1, <4>2
    <3>2. nonImproving' \in Int
      BY <1>8 DEF TypeInv
    <3>3. nonImproving' > 0
      BY <3>1, <3>2
    <3> QED
      BY <1>7, <3>3
  <2>2. r = jpol
    BY <1>3, <1>4, <1>5, <2>1, UniqueResponseStays
  <2>3. CASE ag = agent
    BY <1>5, <2>3
  <2>4. CASE ag # agent
    <3>1. TurnsSince(ag) <= nonImproving + 0
      BY <1>4, <1>6, <2>1, <2>4
    <3> QED
      BY <1>2, <1>3, <2>2, <3>1 DEF AskedAreContent
  <2> QED
    BY <2>3, <2>4
<1>11. PairIsContent'
  BY <1>2 DEF PairIsContent
<1>12. ResultIsAchieved' /\ ResultIsEquilibrium'
  BY <1>2 DEF ResultIsAchieved, ResultIsEquilibrium, HasResult
<1> QED
  BY <1>8, <1>9, <1>10, <1>11, <1>12 DEF IInv

(* The end of a restart. *)
LEMMA EndRunPreserves == IInv /\ EndRun => IInv'
<1> SUFFICES ASSUME IInv, EndRun PROVE IInv'
  OBVIOUS
<1>1. /\ planner = "AM" /\ phase = "planning" /\ phase' = "idle"
      /\ nonImproving >= NrAgents /\ found' = Result(jpol, v_best)
      /\ UNCHANGED <<planner, problem, jpol, best, v_best, nonImproving, stop, agent>>
      /\ ~IsJESP /\ ~IsJESP'
  BY DEF EndRun, IsJESP
<1>2. TypeInv /\ v_best = ValueOf(jpol) /\ AskedAreContent
  BY <1>1 DEF IInv, ValueIsKept
<1>3. /\ nonImproving \in Nat /\ agent \in Agents
      /\ NrAgents \in Nat \ {0} /\ Agents = 1..NrAgents
  BY <1>2, AgentsAreNumbered DEF TypeInv
<1>4. TypeInv'
  BY <1>1, <1>2, SameProblem DEF TypeInv
<1>5. ValueIsKept' /\ AskedAreContent' /\ PairIsContent'
  BY <1>1 DEF ValueIsKept, AskedAreContent, PairIsContent
<1>6. ResultIsAchieved'
  BY <1>1, <1>2 DEF ResultIsAchieved, ValueOf, Result
<1>7. ResultIsEquilibrium'
  <2> SUFFICES ASSUME HasUniqueResponses
               PROVE  IsEquilibrium(jpol)
    <3>1. IsEquilibrium(found.policy)' <=> IsEquilibrium(jpol)
      BY <1>1 DEF IsEquilibrium, Agents, Responses, ValueOf, Result
    <3> QED
      BY <1>1, <3>1, SameProblem DEF ResultIsEquilibrium
  <2>1. \A ag \in Agents : TurnsSince(ag) <= nonImproving + 0
    BY <1>1, <1>3 DEF TurnsSince
  <2>2. \A ag \in Agents : IsContent(ag, jpol)
    BY <1>1, <1>2, <2>1 DEF AskedAreContent
  <2> QED
    BY <2>2, AllContent
<1> QED
  BY <1>4, <1>5, <1>6, <1>7 DEF IInv

(* Every step preserves the invariant. *)
LEMMA NextPreserves == IInv /\ [Next]_vars => IInv'
<1> SUFFICES ASSUME IInv, [Next]_vars PROVE IInv'
  OBVIOUS
<1>1. CASE StartPlan
  BY <1>1, StartPlanPreserves
<1>2. CASE StartRun
  BY <1>2, StartRunPreserves
<1>3. CASE RespondExhaustively
  <2>1. PICK r \in ExhaustiveBestResponses(jpol, agent) : Respond(r)
    BY <1>3 DEF RespondExhaustively
  <2>2. r \in BestResponses(jpol, agent)
    BY <2>1 DEF ExhaustiveBestResponses
  <2>3. IsJESP
    BY <1>3 DEF RespondExhaustively, IsJESP
  <2> QED
    BY <2>1, <2>2, <2>3, RespondPreserves
<1>4. CASE RespondByDP
  <2>1. PICK r \in BestResponses(jpol, agent) : Respond(r)
    BY <1>4 DEF RespondByDP
  <2>2. IsJESP
    BY <1>4 DEF RespondByDP, IsJESP
  <2> QED
    BY <2>1, <2>2, RespondPreserves
<1>5. CASE EndPlan
  BY <1>5, EndPlanPreserves
<1>6. CASE RespondInRun
  BY <1>6, RespondInRunPreserves
<1>7. CASE EndRun
  BY <1>7, EndRunPreserves
<1>8. CASE UNCHANGED vars
  <2>1. UNCHANGED <<planner, problem, phase, rounds, jpol, best, v_best, nonImproving, stop, agent, found>>
    BY <1>8 DEF vars
  <2>2. TypeInv'
    BY <2>1, SameProblem DEF IInv, TypeInv
  <2>3. /\ IsJESP' <=> IsJESP
        /\ \A ag : TurnsSince(ag)' = TurnsSince(ag)
    BY <2>1, SameProblem DEF IsJESP, TurnsSince
  <2>4. ValueIsKept'
    BY <2>1, <2>3 DEF IInv, ValueIsKept, ValueOf
  <2>5. AskedAreContent'
    <3>1. \A ag : IsContent(ag, jpol)' <=> IsContent(ag, jpol)
      BY <2>1 DEF IsContent, Responses, ValueOf
    <3> QED
      BY <2>1, <2>3, <3>1, SameProblem DEF IInv, AskedAreContent
  <2>6. PairIsContent'
    <3>1. \A ag : IsContent(ag, best)' <=> IsContent(ag, best)
      BY <2>1 DEF IsContent, Responses, ValueOf
    <3>2. IsEquilibrium(best)' <=> IsEquilibrium(best)
      BY <2>1 DEF IsEquilibrium, Agents, Responses, ValueOf
    <3> QED
      BY <2>1, <2>3, <3>1, <3>2, SameProblem DEF IInv, PairIsContent
  <2>7. HasResult' <=> HasResult
    BY <2>1, SameProblem DEF HasResult, IsDegenerate
  <2>8. ResultIsAchieved'
    BY <2>1, <2>7 DEF IInv, ResultIsAchieved, ValueOf
  <2>9. ResultIsEquilibrium'
    <3>1. IsEquilibrium(found.policy)' <=> IsEquilibrium(found.policy)
      BY <2>1 DEF IsEquilibrium, Agents, Responses, ValueOf
    <3>2. StopsAt' = StopsAt
      BY <2>1, SameProblem DEF StopsAt
    <3> QED
      BY <2>1, <2>3, <2>7, <3>1, <3>2, SameProblem DEF IInv, ResultIsEquilibrium
  <2> QED
    BY <2>2, <2>4, <2>5, <2>6, <2>8, <2>9 DEF IInv
<1> QED
  BY <1>1, <1>2, <1>3, <1>4, <1>5, <1>6, <1>7, <1>8 DEF Next, Work

-----------------------------------------------------------------------------

LEMMA Invariance == Spec => []IInv
<1>1. Init => IInv
  BY InitEstablishes
<1>2. IInv /\ [Next]_vars => IInv'
  BY NextPreserves
<1> QED
  BY <1>1, <1>2, PTL DEF Spec

(* The value that Plan() or Solve() reports is the value of the policy     *)
(* that it reports.                                                        *)
THEOREM ValuesAreAchieved == Spec => []ResultIsAchieved
<1>1. IInv => ResultIsAchieved
  BY DEF IInv
<1> QED
  BY <1>1, Invariance, PTL

(* No agent alone can improve the result: when best responses are unique,  *)
(* for any number of agents; and for JESP with two agents in any case.     *)
THEOREM Equilibrium == Spec => []ResultIsEquilibrium
<1>1. IInv => ResultIsEquilibrium
  BY DEF IInv
<1> QED
  BY <1>1, Invariance, PTL

-----------------------------------------------------------------------------
(***************************************************************************)
(* The index of a joint policy is its own among those of the problem.      *)
(***************************************************************************)

(* A set that holds 0 and is closed under successor up to m holds 0..m.    *)
LEMMA IntervalInduction ==
  ASSUME NEW m \in Nat, NEW S, 0 \in S, \A t \in 0..m-1 : t \in S => t + 1 \in S
  PROVE  0..m \subseteq S
<1> SUFFICES ASSUME ~(0..m \subseteq S) PROVE FALSE
  OBVIOUS
<1> DEFINE T == (0..m) \ S
<1>1. PICK t \in T : \A s \in T : <<s, t>> \notin OpToRel(<, Nat)
  <2>1. T \subseteq Nat /\ T # {}
    OBVIOUS
  <2> HIDE DEF T
  <2>2. QED BY <2>1, NatLessThanWellFounded, WFMin
<1>2. t # 0 /\ t - 1 \in 0..m-1 /\ (t - 1) + 1 = t
  OBVIOUS
<1>3. t - 1 \in T /\ <<t - 1, t>> \in OpToRel(<, Nat)
  BY <1>1, <1>2 DEF OpToRel
<1>4. QED BY <1>1, <1>3

IndexStep(t, n, p, ag) == IF ag = 0 THEN 0 ELSE t[ag - 1] * n[ag] + p[ag]

(* A solution is a joint policy of one of the problems.                    *)
LEMMA SolutionParts ==
  ASSUME NEW s \in Solutions
  PROVE  /\ s.problem \in Problems /\ s.policy \in JointPolicies(s.problem)
         /\ s = [problem |-> s.problem, policy |-> s.policy]
         /\ s.problem.nrPolicies \in Seq(Nat \ {0}) /\ Len(s.problem.nrPolicies) \in Nat \ {0}
         /\ DOMAIN s.policy = 1..Len(s.problem.nrPolicies)
         /\ \A ag \in 1..Len(s.problem.nrPolicies) :
              /\ s.problem.nrPolicies[ag] \in Nat \ {0}
              /\ s.policy[ag] \in 0..s.problem.nrPolicies[ag]-1
<1>1. PICK pr \in Problems : s \in [problem : {pr}, policy : JointPolicies(pr)]
  BY DEF Solutions
<1>2. pr.nrPolicies \in Seq(Nat \ {0}) /\ pr.nrPolicies # << >>
  BY ProblemsAssumption
<1>3. Len(pr.nrPolicies) \in Nat \ {0} /\ AgentsOf(pr) = 1..Len(pr.nrPolicies)
  BY <1>2 DEF AgentsOf
<1>4. s.problem = pr /\ s.policy \in JointPolicies(pr)
      /\ s = [problem |-> s.problem, policy |-> s.policy]
  BY <1>1
<1>5. DOMAIN s.policy = AgentsOf(pr) /\ \A ag \in AgentsOf(pr) : s.policy[ag] \in 0..pr.nrPolicies[ag]-1
  BY <1>4 DEF JointPolicies
<1>6. QED BY <1>2, <1>3, <1>4, <1>5

(* A number of which the last digit is x, and which starts as a.           *)
LEMMA NumberIsNatural ==
  ASSUME NEW a \in Nat, NEW m \in Nat, NEW x \in Nat
  PROVE  a * m + x \in Nat
<1>1. a * m \in Nat
  OBVIOUS
<1>2. QED BY <1>1

(* Two numbers are equal when their digits are.                            *)
LEMMA DigitsAgree ==
  ASSUME NEW a \in Nat, NEW b \in Nat, NEW m \in Nat \ {0}, NEW x \in 0..m-1, NEW y \in 0..m-1,
         a * m + x = b * m + y
  PROVE  a = b /\ x = y
<1>1. a * m \in Nat /\ b * m \in Nat
  OBVIOUS
<1>2. ASSUME NEW c \in Nat, NEW d \in Nat, c < d PROVE c * m + m <= d * m
  <2>1. d - c - 1 \in Nat /\ d = c + 1 + (d - c - 1)
    BY <1>2
  <2>2. (d - c - 1) * m \in Nat /\ c * m \in Nat
    BY <2>1
  <2>3. d * m = c * m + m + (d - c - 1) * m
    OBVIOUS
  <2>4. QED BY <2>2, <2>3
<1>3. ~(a < b)
  BY <1>1, <1>2
<1>4. ~(b < a)
  BY <1>1, <1>2
<1>5. a = b
  BY <1>3, <1>4
<1>6. QED BY <1>1, <1>5

(* The recursion for the index has a solution.                             *)
LEMMA IndexTableExists ==
  ASSUME NEW n \in Seq(Nat \ {0}), NEW p, \A ag \in 1..Len(n) : p[ag] \in Nat
  PROVE  \E t : t = [ag \in 0..Len(n) |-> IndexStep(t, n, p, ag)]
<1> DEFINE IsTable(t, k) == t \in [0..k -> Nat] /\ \A ag \in 0..k : t[ag] = IndexStep(t, n, p, ag)
           S == {k \in 0..Len(n) : \E t : IsTable(t, k)}
<1>1. Len(n) \in Nat /\ \A ag \in 1..Len(n) : n[ag] \in Nat
  OBVIOUS
<1>2. 0 \in S
  <2>1. IsTable([ag \in 0..0 |-> 0], 0)
    BY DEF IndexStep
  <2>2. QED BY <1>1, <2>1
<1>3. ASSUME NEW k \in 0..Len(n)-1, k \in S PROVE k + 1 \in S
  <2>1. k \in Nat /\ k + 1 \in 0..Len(n) /\ k + 1 \in 1..Len(n)
    BY <1>1
  <2>2. PICK t : IsTable(t, k)
    BY <1>3
  <2> DEFINE u == [ag \in 0..k+1 |-> IF ag = k + 1 THEN t[k] * n[k + 1] + p[k + 1] ELSE t[ag]]
  <2>3. t[k] \in Nat /\ n[k + 1] \in Nat /\ p[k + 1] \in Nat
    BY <1>1, <2>1, <2>2
  <2>4. t[k] * n[k + 1] + p[k + 1] \in Nat
    BY <2>3, NumberIsNatural
  <2>5. u \in [0..k+1 -> Nat]
    BY <2>1, <2>2, <2>4
  <2>6. ASSUME NEW ag \in 0..k+1 PROVE u[ag] = IndexStep(u, n, p, ag)
    <3>1. CASE ag = k + 1
      <4>1. ag # 0 /\ ag - 1 = k /\ k \in 0..k+1 /\ k # k + 1
        BY <2>1, <3>1
      <4>2. u[ag] = t[k] * n[k + 1] + p[k + 1] /\ u[ag - 1] = t[k]
        BY <3>1, <4>1
      <4> HIDE DEF u
      <4>3. QED BY <3>1, <4>1, <4>2 DEF IndexStep
    <3>2. CASE ag # k + 1
      <4>1. ag \in 0..k /\ u[ag] = t[ag] /\ t[ag] = IndexStep(t, n, p, ag)
        BY <2>1, <2>2, <3>2
      <4>2. ag # 0 => ag - 1 \in 0..k+1 /\ ag - 1 # k + 1
        BY <2>1, <4>1
      <4>3. ag # 0 => u[ag - 1] = t[ag - 1]
        BY <4>2
      <4> HIDE DEF u
      <4>4. QED BY <4>1, <4>3 DEF IndexStep
    <3>3. QED BY <3>1, <3>2
  <2>7. IsTable(u, k + 1)
    BY <2>5, <2>6
  <2> HIDE DEF u, IsTable
  <2>8. QED BY <2>1, <2>7
<1>4. Len(n) \in S
  <2> HIDE DEF S
  <2>1. 0..Len(n) \subseteq S
    BY <1>1, <1>2, <1>3, IntervalInduction
  <2>2. QED BY <1>1, <2>1
<1>5. PICK t : IsTable(t, Len(n))
  BY <1>4
<1>6. t = [ag \in 0..Len(n) |-> IndexStep(t, n, p, ag)]
  BY <1>5
<1>7. QED BY <1>6

(* The indices of the policies of the first agents, one after the other.   *)
LEMMA PartialIndicesAre ==
  ASSUME NEW s \in Solutions
  PROVE  LET n == s.problem.nrPolicies
             t == PartialIndices(s)
         IN /\ t[0] = 0
            /\ \A ag \in 1..Len(n) : t[ag] = t[ag - 1] * n[ag] + s.policy[ag]
            /\ \A ag \in 0..Len(n) : t[ag] \in Nat
<1> DEFINE n == s.problem.nrPolicies
           t == PartialIndices(s)
           S == {ag \in 0..Len(n) : t[ag] \in Nat}
<1>1. /\ n \in Seq(Nat \ {0}) /\ Len(n) \in Nat
      /\ \A ag \in 1..Len(n) : n[ag] \in Nat /\ s.policy[ag] \in Nat
  BY SolutionParts
<1>2. t = CHOOSE u : u = [ag \in 0..Len(n) |-> IndexStep(u, n, s.policy, ag)]
  BY DEF PartialIndices, IndexStep
<1> HIDE DEF t, n
<1>3. t = [ag \in 0..Len(n) |-> IndexStep(t, n, s.policy, ag)]
  <2>1. \E u : u = [ag \in 0..Len(n) |-> IndexStep(u, n, s.policy, ag)]
    BY <1>1, IndexTableExists
  <2>2. QED BY <1>2, <2>1
<1>4. t[0] = 0
  <2>1. 0 \in 0..Len(n)
    BY <1>1
  <2>2. t[0] = IndexStep(t, n, s.policy, 0)
    BY <1>3, <2>1
  <2>3. QED BY <2>2 DEF IndexStep
<1>5. ASSUME NEW ag \in 1..Len(n) PROVE t[ag] = t[ag - 1] * n[ag] + s.policy[ag]
  <2>1. ag \in 0..Len(n) /\ ag # 0
    BY <1>1
  <2>2. t[ag] = IndexStep(t, n, s.policy, ag)
    BY <1>3, <2>1
  <2>3. QED BY <2>1, <2>2 DEF IndexStep
<1>6. \A ag \in 0..Len(n) : t[ag] \in Nat
  <2>1. 0 \in S
    BY <1>1, <1>4
  <2>2. ASSUME NEW ag \in 0..Len(n)-1, ag \in S PROVE ag + 1 \in S
    <3>1. ag + 1 \in 1..Len(n) /\ ag + 1 \in 0..Len(n) /\ (ag + 1) - 1 = ag
      BY <1>1
    <3>2. t[ag + 1] = t[ag] * n[ag + 1] + s.policy[ag + 1]
      BY <1>5, <3>1
    <3>3. t[ag] \in Nat /\ n[ag + 1] \in Nat /\ s.policy[ag + 1] \in Nat
      BY <1>1, <2>2, <3>1
    <3>4. QED BY <3>1, <3>2, <3>3, NumberIsNatural
  <2> HIDE DEF S
  <2>3. 0..Len(n) \subseteq S
    BY <1>1, <2>1, <2>2, IntervalInduction
  <2>4. QED BY <2>3 DEF S
<1>7. QED BY <1>4, <1>5, <1>6 DEF t, n

(* An index is a number, and two joint policies of a problem with the same *)
(* index are the same.                                                     *)
LEMMA IndexIsNumber ==
  ASSUME NEW s \in Solutions
  PROVE  SolutionIndex[s] \in Nat
<1>1. Len(s.problem.nrPolicies) \in 0..Len(s.problem.nrPolicies)
  BY SolutionParts
<1>2. QED BY <1>1, PartialIndicesAre DEF SolutionIndex

LEMMA IndexIsItsOwn ==
  ASSUME NEW s \in Solutions, NEW r \in Solutions, s.problem = r.problem,
         SolutionIndex[s] = SolutionIndex[r]
  PROVE  s = r
<1> DEFINE n == s.problem.nrPolicies
           t == PartialIndices(s)
           u == PartialIndices(r)
           SameUpTo(k) == \A ag \in 1..k : s.policy[ag] = r.policy[ag]
           S == {k \in 0..Len(n) : t[k] = u[k] => SameUpTo(k)}
<1>1. /\ n \in Seq(Nat \ {0}) /\ Len(n) \in Nat
      /\ \A ag \in 1..Len(n) : /\ n[ag] \in Nat \ {0}
                               /\ s.policy[ag] \in 0..n[ag]-1 /\ r.policy[ag] \in 0..n[ag]-1
      /\ DOMAIN s.policy = 1..Len(n) /\ DOMAIN r.policy = 1..Len(n)
  BY SolutionParts
<1>2. /\ \A ag \in 1..Len(n) : t[ag] = t[ag - 1] * n[ag] + s.policy[ag]
      /\ \A ag \in 1..Len(n) : u[ag] = u[ag - 1] * n[ag] + r.policy[ag]
      /\ \A ag \in 0..Len(n) : t[ag] \in Nat /\ u[ag] \in Nat
  BY PartialIndicesAre
<1>3. t[Len(n)] = u[Len(n)]
  BY DEF SolutionIndex
<1> HIDE DEF t, u, n
<1>4. 0 \in S
  BY <1>1
<1>5. ASSUME NEW k \in 0..Len(n)-1, k \in S PROVE k + 1 \in S
  <2>1. k + 1 \in 1..Len(n) /\ k + 1 \in 0..Len(n) /\ (k + 1) - 1 = k /\ k \in 0..Len(n) /\ k \in Nat
    BY <1>1
  <2> SUFFICES ASSUME t[k + 1] = u[k + 1] PROVE SameUpTo(k + 1)
    BY <2>1
  <2>2. t[k] * n[k + 1] + s.policy[k + 1] = u[k] * n[k + 1] + r.policy[k + 1]
    <3>1. t[k + 1] = t[k] * n[k + 1] + s.policy[k + 1] /\ u[k + 1] = u[k] * n[k + 1] + r.policy[k + 1]
      BY <1>2, <2>1
    <3>2. QED BY <3>1
  <2>3. /\ t[k] \in Nat /\ u[k] \in Nat /\ n[k + 1] \in Nat \ {0}
        /\ s.policy[k + 1] \in 0..n[k + 1]-1 /\ r.policy[k + 1] \in 0..n[k + 1]-1
    BY <1>1, <1>2, <2>1
  <2>4. t[k] = u[k] /\ s.policy[k + 1] = r.policy[k + 1]
    <3> DEFINE a == t[k]
               b == u[k]
               m == n[k + 1]
               x == s.policy[k + 1]
               y == r.policy[k + 1]
    <3>1. /\ a \in Nat /\ b \in Nat /\ m \in Nat \ {0} /\ x \in 0..m-1 /\ y \in 0..m-1
          /\ a * m + x = b * m + y
      BY <2>2, <2>3
    <3> HIDE DEF a, b, m, x, y
    <3>2. a = b /\ x = y
      BY <3>1, DigitsAgree
    <3>3. QED BY <3>2 DEF a, b, x, y
  <2>5. SameUpTo(k)
    BY <1>5, <2>4
  <2>6. \A ag \in 1..k+1 : ag \in 1..k \/ ag = k + 1
    BY <2>1
  <2>7. QED BY <2>4, <2>5, <2>6
<1>6. SameUpTo(Len(n))
  <2> HIDE DEF S
  <2>1. 0..Len(n) \subseteq S
    BY <1>1, <1>4, <1>5, IntervalInduction
  <2>2. Len(n) \in S
    BY <1>1, <2>1
  <2>3. QED BY <1>3, <2>2 DEF S
<1>7. s.policy = r.policy
  <2>1. s.policy = [ag \in 1..Len(n) |-> s.policy[ag]] /\ r.policy = [ag \in 1..Len(n) |-> r.policy[ag]]
    <3>1. s.policy = [ag \in DOMAIN s.policy |-> s.policy[ag]] /\ r.policy = [ag \in DOMAIN r.policy |-> r.policy[ag]]
      BY SolutionParts DEF JointPolicies
    <3>2. QED BY <1>1, <3>1
  <2>2. QED BY <1>6, <2>1
<1>8. QED BY <1>7, SolutionParts

-----------------------------------------------------------------------------
(***************************************************************************)
(* The solutions of AM.  What is proved of SolutionQueue is proved of the  *)
(* queue in which AM collects the results of its restarts.                 *)
(***************************************************************************)

QP ==
  INSTANCE SolutionQueueProofs WITH
    JPolicies <- Solutions,
    Value <- SolutionValue,
    PolicyIndex <- SolutionIndex,
    Overflows <- FALSE,
    Infinite <- MinusMax,
    Capacities <- {NrDesired},
    capacity <- NrDesired

(* The parameters of the queue are what SolutionQueue assumes of them.     *)
LEMMA QueueParameters == QP!QueueAssumption
<1>1. SolutionValue \in [Solutions -> Int]
  <2>1. ASSUME NEW s \in Solutions PROVE s.problem.value[s.policy] \in Int
    <3>1. s.problem \in Problems /\ s.policy \in JointPolicies(s.problem)
      BY SolutionParts
    <3>2. QED BY <3>1, ProblemsAssumption
  <2>2. QED BY <2>1 DEF SolutionValue
<1>2. SolutionIndex \in [Solutions -> Nat]
  <2>1. SolutionIndex = [s \in Solutions |-> SolutionIndex[s]]
    BY DEF SolutionIndex
  <2>2. QED BY <2>1, IndexIsNumber
<1>3. QED BY <1>1, <1>2, ProblemsAssumption DEF QP!QueueAssumption

(* The additions of the module that AM uses are those of the proofs.       *)
LEMMA SameAddition ==
  ASSUME NEW p
  PROVE Queue!AddIndexed(p) <=> QP!AddIndexed(p)
<1>1. /\ \A x, y : Queue!Less(x, y) <=> QP!Less(x, y)
      /\ \A q : Queue!Overflown(q) <=> QP!Overflown(q)
      /\ \A i : Queue!CastToIndex(i) = QP!CastToIndex(i)
  BY DEF Queue!Less, QP!Less, Queue!Overflown, QP!Overflown, Queue!CastToIndex, QP!CastToIndex
<1>2. \A q, x : Queue!ThrownOut(q, x) = QP!ThrownOut(q, x)
  BY <1>1 DEF Queue!ThrownOut, QP!ThrownOut, Queue!Last, QP!Last
<1>3. \A q, x : Queue!Positions(q, x) = QP!Positions(q, x)
  BY <1>1 DEF Queue!Positions, QP!Positions
<1>4. \A q, x : Queue!Pushed(q, x) = QP!Pushed(q, x)
  BY <1>1 DEF Queue!Pushed, QP!Pushed, Queue!InsertAt, QP!InsertAt
<1>5. \A q, x : Queue!Place(q, x) = QP!Place(q, x)
  BY <1>3 DEF Queue!Place, QP!Place
<1>6. \A q : Queue!WithRoom(q) = QP!WithRoom(q)
  BY <1>1 DEF Queue!WithRoom, QP!WithRoom, Queue!Front, QP!Front
<1>7. \A q, x : Queue!Inserted(q, x) = QP!Inserted(q, x)
  <2>1. \A q, i, x : Queue!InsertAt(q, i, x) = QP!InsertAt(q, i, x)
    BY DEF Queue!InsertAt, QP!InsertAt
  <2>2. QED BY <1>1, <1>2, <1>5, <1>6, <2>1 DEF Queue!Inserted, QP!Inserted
<1>8. QED BY <1>1, <1>2, <1>4, <1>7 DEF Queue!AddIndexed, QP!AddIndexed

(* A joint policy of the problem as a solution.                            *)
LEMMA SolutionOfPolicy ==
  ASSUME problem \in Problems, NEW p \in JointPolicies(problem)
  PROVE  /\ Solution(p) \in Solutions
         /\ Solution(p).problem = problem /\ Solution(p).policy = p
         /\ SolutionValue[Solution(p)] = ValueOf(p)
<1>1. Solution(p) \in [problem : {problem}, policy : JointPolicies(problem)]
  BY DEF Solution
<1>2. Solution(p) \in Solutions
  BY <1>1 DEF Solutions
<1>3. QED BY <1>2 DEF Solution, SolutionValue, ValueOf

(* A step of the planner is one of the queue, or none.                     *)
LEMMA QueueTakesStep ==
  ASSUME TypeInv, returned = << >>, [Next]_vars
  PROVE  /\ [QP!Next]_(QP!vars) /\ [Queue!Next]_(Queue!vars)
         /\ returned' = << >> /\ problem' = problem /\ planner' = planner
         /\ added' = added \/ (EndRun /\ added' = added \cup {Solution(jpol)})
<1>1. CASE EndRun
  <2>1. /\ added' = added \cup {Solution(jpol)} /\ Queue!AddIndexed(Solution(jpol))
        /\ returned' = returned /\ problem' = problem /\ planner' = planner
    BY <1>1 DEF EndRun
  <2>2. Solution(jpol) \in Solutions
    BY SolutionOfPolicy DEF TypeInv
  <2>3. QP!AddIndexed(Solution(jpol))
    BY <2>1, SameAddition
  <2>4. QP!AddSolution /\ Queue!AddSolution
    BY <2>1, <2>2, <2>3 DEF QP!AddSolution, Queue!AddSolution
  <2>5. QED BY <1>1, <2>1, <2>4 DEF QP!Next, Queue!Next
<1>2. CASE UNCHANGED queueVars /\ problem' = problem /\ planner' = planner
  BY <1>2 DEF queueVars, QP!vars, Queue!vars
<1>3. Next => EndRun \/ (UNCHANGED queueVars /\ problem' = problem /\ planner' = planner)
  BY DEF Next, Work, StartPlan, StartRun, RespondExhaustively, RespondByDP, EndPlan, RespondInRun, Respond
<1>4. UNCHANGED vars => UNCHANGED queueVars /\ problem' = problem /\ planner' = planner
  BY DEF vars, queueVars
<1>5. QED BY <1>1, <1>2, <1>3, <1>4

-----------------------------------------------------------------------------
(***************************************************************************)
(* Type correctness.                                                       *)
(***************************************************************************)

AllTypesInv ==
  /\ TypeInv
  /\ planner \in Planners
  /\ rounds \in 0..MaxRounds
  /\ {vmax, found.value} \subseteq Int
  /\ found.policy \in JointPolicies(problem)
  /\ nonImproving <= NrAgents
  /\ stop <= Cap
  /\ returned = << >>
  /\ QP!TypeInv

LEMMA AllTypesInit == Init => AllTypesInv
<1> SUFFICES ASSUME Init PROVE AllTypesInv
  OBVIOUS
<1>1. TypeInv
  BY InitEstablishes DEF IInv
<1>2. NrAgents \in Nat
  BY <1>1, AgentsAreNumbered DEF TypeInv
<1>3. QP!Init
  BY DEF Init, QP!Init
<1>4. QP!TypeInv
  BY <1>3, QueueParameters, QP!TypeInvInit
<1>5. ZeroPolicy \in JointPolicies(problem)
  BY <1>1 DEF TypeInv, Init
<1>6. QED BY <1>1, <1>2, <1>4, <1>5, ProblemsAssumption DEF Init, AllTypesInv, Result

LEMMA AllTypesStep == IInv /\ AllTypesInv /\ [Next]_vars => AllTypesInv'
<1> SUFFICES ASSUME IInv, AllTypesInv, [Next]_vars PROVE AllTypesInv'
  OBVIOUS
<1>1. TypeInv /\ TypeInv'
  BY NextPreserves DEF IInv
<1>2. [QP!Next]_(QP!vars) /\ returned' = << >> /\ problem' = problem /\ planner' = planner
  BY <1>1, QueueTakesStep DEF AllTypesInv
<1>3. QP!TypeInv'
  BY <1>2, QueueParameters, QP!TypeInvStep DEF AllTypesInv
<1>4. NrAgents' = NrAgents /\ NrAgents \in Nat \ {0} /\ JointPolicies(problem)' = JointPolicies(problem)
  BY <1>1, <1>2, SameProblem, AgentsAreNumbered DEF TypeInv
<1> DEFINE InRange ==
             /\ rounds' \in 0..MaxRounds /\ vmax' \in Int /\ found'.value \in Int
             /\ found'.policy \in JointPolicies(problem)
             /\ nonImproving' <= NrAgents /\ stop' <= Cap
<1>5. InRange
  <2>1. /\ rounds \in 0..MaxRounds /\ vmax \in Int /\ found.value \in Int
        /\ found.policy \in JointPolicies(problem) /\ jpol \in JointPolicies(problem)
        /\ best \in JointPolicies(problem) /\ v_best \in Int /\ nonImproving \in Nat /\ stop \in Nat
        /\ nonImproving <= NrAgents /\ stop <= Cap
    BY <1>1 DEF AllTypesInv, TypeInv
  <2>2. MaxRounds \in Nat /\ Cap \in Nat \ {0}
    BY ProblemsAssumption
  <2>3. CASE StartPlan \/ StartRun
    BY <1>4, <2>1, <2>2, <2>3 DEF StartPlan, StartRun
  <2>4. ASSUME NEW r, Respond(r) PROVE InRange
    <3>1. nonImproving < NrAgents /\ stop < Cap /\ stop' = stop + 1 /\ UNCHANGED <<rounds, vmax, found>>
      BY <1>4, <2>1, <2>4 DEF Respond, StopsAt
    <3>2. nonImproving' = 0 \/ nonImproving' = nonImproving + 1
      BY <2>4 DEF Respond, Keep
    <3>3. QED BY <1>4, <2>1, <2>2, <3>1, <3>2
  <2>5. CASE EndPlan
    BY <2>1, <2>5 DEF EndPlan, Result
  <2>6. CASE RespondInRun
    <3>1. nonImproving < NrAgents /\ UNCHANGED <<rounds, vmax, found, stop>>
      BY <2>6 DEF RespondInRun
    <3>2. nonImproving' = 0 \/ nonImproving' = nonImproving + 1
      BY <2>6 DEF RespondInRun, Improve
    <3>3. QED BY <1>4, <2>1, <3>1, <3>2
  <2>7. CASE EndRun
    BY <2>1, <2>7 DEF EndRun, Result
  <2>8. CASE UNCHANGED vars
    BY <2>1, <2>8 DEF vars
  <2>9. QED
    BY <2>3, <2>4, <2>5, <2>6, <2>7, <2>8 DEF Next, Work, RespondExhaustively, RespondByDP
<1>6. QED BY <1>1, <1>2, <1>3, <1>4, <1>5 DEF AllTypesInv

LEMMA AllTypes == Spec => [](IInv /\ AllTypesInv)
<1>1. Init => IInv /\ AllTypesInv
  BY InitEstablishes, AllTypesInit
<1>2. (IInv /\ AllTypesInv) /\ [Next]_vars => (IInv /\ AllTypesInv)'
  BY NextPreserves, AllTypesStep
<1>3. QED BY <1>1, <1>2, PTL DEF Spec

(* Every variable keeps its type: the count of agents that do not improve  *)
(* never passes the number of agents, JESP gives up at the cap, and every  *)
(* restart leaves the queue of solutions what SolutionQueue says it is.    *)
THEOREM TypeCorrect == Spec => []TypeOK
<1>1. IInv /\ AllTypesInv => TypeOK
  <2> SUFFICES ASSUME AllTypesInv PROVE TypeOK
    OBVIOUS
  <2>1. NrAgents \in Nat
    BY AgentsAreNumbered DEF AllTypesInv, TypeInv
  <2>2. Queue!TypeOK
    BY DEF AllTypesInv, QP!TypeInv, QP!TypeOK, Queue!TypeOK
  <2>3. nonImproving \in 0..NrAgents /\ stop \in 0..Cap
    BY <2>1, ProblemsAssumption DEF AllTypesInv, TypeInv
  <2>4. QED BY <2>2, <2>3 DEF AllTypesInv, TypeInv, TypeOK
<1>2. QED BY <1>1, AllTypes, PTL

(* AM uses its BGIPSolution as SolutionQueue says that solvers do.         *)
THEOREM ImplementsSolutionQueue == Spec => Queue!Spec
<1>1. Init => Queue!Init
  BY DEF Init, Queue!Init
<1>2. (IInv /\ AllTypesInv) /\ [Next]_vars => [Queue!Next]_(Queue!vars)
  BY QueueTakesStep DEF AllTypesInv
<1>3. QED BY <1>1, <1>2, AllTypes, PTL DEF Spec, Queue!Spec

-----------------------------------------------------------------------------
(***************************************************************************)
(* The solutions are the best restarts.                                    *)
(***************************************************************************)

(* What Solve() keeps beside the queue is the best value that was added to *)
(* it, and once a restart has ended there is one.                          *)
BestInv ==
  /\ QP!QueueInv
  /\ \A s \in added : s.problem = problem /\ SolutionValue[s] <= vmax
  /\ IF added = {} THEN vmax = MinusMax ELSE \E s \in added : SolutionValue[s] = vmax
  /\ planner = "AM" /\ phase = "idle" /\ rounds > 0 => added # {}

LEMMA BestInit == Init => BestInv
<1> SUFFICES ASSUME Init PROVE BestInv
  OBVIOUS
<1>1. QP!Init
  BY DEF Init, QP!Init
<1>2. QP!QueueInv
  BY <1>1, QueueParameters, QP!QueueInvInit
<1>3. QED BY <1>2 DEF Init, BestInv

(* The indices of the solutions of one problem are their own.              *)
LEMMA SolutionsFit ==
  ASSUME IndicesFit, NEW S \in SUBSET Solutions, NEW pr, \A s \in S : s.problem = pr
  PROVE  QP!IndicesFit(S)
BY IndexIsItsOwn DEF IndicesFit, QP!IndicesFit

LEMMA BestStep ==
  ASSUME IndicesFit, IInv, AllTypesInv, BestInv, [Next]_vars
  PROVE  BestInv'
<1>1. TypeInv /\ returned = << >> /\ vmax \in Int /\ added \subseteq Solutions
  BY DEF AllTypesInv, QP!TypeInv, QP!TypeOK
<1>2. /\ [QP!Next]_(QP!vars) /\ problem' = problem /\ planner' = planner
      /\ added' = added \/ (EndRun /\ added' = added \cup {Solution(jpol)})
  BY <1>1, QueueTakesStep
<1>3. /\ Solution(jpol) \in Solutions /\ Solution(jpol).problem = problem
      /\ SolutionValue[Solution(jpol)] = ValueOf(jpol)
      /\ ValueOf(jpol) \in Int /\ ValueOf(jpol) > MinusMax /\ MinusMax \in Int
  BY <1>1, SolutionOfPolicy, ValuesAreNumbers, ProblemsAssumption DEF TypeInv
<1>4. \A s \in added' : s \in Solutions /\ s.problem = problem
  BY <1>1, <1>2, <1>3 DEF BestInv
<1>5. QP!QueueInv'
  <2>1. QP!IndicesFit(added')
    BY <1>4, SolutionsFit
  <2>2. QED BY <1>2, <2>1, QueueParameters, QP!QueueInvStep DEF BestInv
<1>6. \A s \in added : SolutionValue[s] \in Int
  BY <1>1, QueueParameters DEF QP!QueueAssumption
<1>7. CASE EndRun
  <2>1. /\ vmax' = IF v_best > vmax THEN v_best ELSE vmax
        /\ added' = added \cup {Solution(jpol)}
        /\ planner = "AM" /\ phase = "planning"
    BY <1>7 DEF EndRun
  <2>2. v_best = ValueOf(jpol)
    BY <2>1 DEF IInv, ValueIsKept
  <2>3. \A s \in added' : SolutionValue[s] <= vmax'
    BY <1>1, <1>3, <1>6, <2>1, <2>2 DEF BestInv
  <2>4. \E s \in added' : SolutionValue[s] = vmax'
    <3>1. CASE v_best > vmax
      BY <1>3, <2>1, <2>2, <3>1
    <3>2. CASE ~(v_best > vmax)
      <4>1. added # {}
        BY <1>3, <2>2, <3>2 DEF BestInv
      <4>2. QED BY <2>1, <3>2, <4>1 DEF BestInv
    <3>3. QED BY <3>1, <3>2
  <2>5. added' # {}
    BY <2>1
  <2>6. QED BY <1>2, <1>4, <1>5, <2>3, <2>4, <2>5 DEF BestInv
<1>8. CASE ~EndRun
  <2>1. added' = added
    BY <1>2, <1>8
  <2>2. vmax' = vmax
    BY <1>8 DEF Next, Work, StartPlan, StartRun, RespondExhaustively, RespondByDP, EndPlan, RespondInRun,
                Respond, vars
  <2>3. planner = "AM" /\ phase' = "idle" /\ rounds' > 0 => phase = "idle" /\ rounds > 0
    BY <1>8 DEF Next, Work, StartPlan, StartRun, RespondExhaustively, RespondByDP, EndPlan, RespondInRun,
                Respond, IsJESP, vars
  <2>4. QED BY <1>2, <1>4, <1>5, <2>1, <2>2, <2>3 DEF BestInv
<1>9. QED BY <1>7, <1>8

(* The solution that is read first is the best of those that were added.   *)
LEMMA HeadIsBest ==
  ASSUME AllTypesInv, BestInv, added # {}
  PROVE  ValueOf(Head(queue).policy) = vmax
<1>1. /\ queue \in Seq(Solutions) /\ QP!Sorted(queue) /\ returned = << >>
      /\ added \subseteq Solutions /\ vmax \in Int
  BY DEF AllTypesInv, QP!TypeInv, QP!TypeOK
<1>2. \A s \in Solutions : SolutionValue[s] \in Int
  BY QueueParameters DEF QP!QueueAssumption
<1>3. PICK s \in added : SolutionValue[s] = vmax
  BY DEF BestInv
<1>4. s \in QP!Elements(queue) \/ (QP!Overflown(queue) /\ ~QP!Less(QP!Last(queue), s))
  BY <1>1 DEF BestInv, QP!QueueInv, QP!BestIsKept
<1>5. \A i \in 1..Len(queue) : queue[i] \in Solutions /\ SolutionValue[queue[i]] \in Int
  BY <1>1, <1>2
<1>6. \A i \in 1..Len(queue) : SolutionValue[queue[i]] <= SolutionValue[queue[1]]
  <2> SUFFICES ASSUME NEW i \in 1..Len(queue)
               PROVE  SolutionValue[queue[i]] <= SolutionValue[queue[1]]
    OBVIOUS
  <2>1. CASE i = 1
    BY <1>5, <2>1
  <2>2. CASE i # 1
    <3>1. 1 \in 1..Len(queue) /\ 1 < i
      BY <1>1, <2>2
    <3>2. QED BY <1>1, <3>1 DEF QP!Sorted
  <2>3. QED BY <2>1, <2>2
<1>7. \E i \in 1..Len(queue) : vmax <= SolutionValue[queue[i]]
  <2>1. CASE s \in QP!Elements(queue)
    BY <1>1, <1>3, <2>1 DEF QP!Elements
  <2>2. CASE QP!Overflown(queue) /\ ~QP!Less(QP!Last(queue), s)
    <3>1. Len(queue) \in 1..Len(queue)
      BY <1>1, <2>2, ProblemsAssumption DEF QP!Overflown
    <3>2. ~(SolutionValue[queue[Len(queue)]] < vmax)
      BY <1>3, <2>2 DEF QP!Less, QP!Last
    <3>3. QED BY <1>1, <1>5, <3>1, <3>2
  <2>3. QED BY <1>4, <2>1, <2>2
<1>8. 1 \in 1..Len(queue) /\ queue # << >> /\ vmax <= SolutionValue[queue[1]]
  BY <1>1, <1>5, <1>6, <1>7
<1>9. queue[1] \in added
  BY <1>8 DEF BestInv, QP!QueueInv, QP!Elements
<1>10. SolutionValue[queue[1]] = vmax /\ queue[1].problem = problem
  BY <1>1, <1>5, <1>8, <1>9 DEF BestInv
<1>11. Head(queue) = queue[1] /\ queue[1] \in Solutions
  BY <1>1, <1>5, <1>8
<1>12. QED BY <1>10, <1>11 DEF ValueOf, SolutionValue

(* What the invariants say of the solutions.                               *)
LEMMA BestInvImplies ==
  ASSUME AllTypesInv, BestInv
  PROVE  SolutionsAreTheBestRestarts
<1>1. QP!QueueHoldsTheBest
  BY QueueParameters, QP!QueueInvImplies DEF BestInv
<1>2. Queue!QueueHoldsTheBest
  BY <1>1 DEF QP!QueueHoldsTheBest, Queue!QueueHoldsTheBest, QP!Less, Queue!Less, QP!Overflown,
              Queue!Overflown, QP!Last, Queue!Last, QP!Contains, Queue!Contains
<1>3. planner = "AM" /\ phase = "idle" /\ rounds > 0 => ValueOf(Head(queue).policy) = vmax
  BY HeadIsBest DEF BestInv
<1>4. QED BY <1>2, <1>3 DEF SolutionsAreTheBestRestarts

(* What Solve() returns is the value of the solution that is read first,   *)
(* and the solutions are the best that any restart found; as long as the   *)
(* indices of the joint policies fit into an Index.                        *)
THEOREM SolutionsAreBest == IndicesFit => (Spec => []SolutionsAreTheBestRestarts)
<1> SUFFICES ASSUME IndicesFit PROVE Spec => []SolutionsAreTheBestRestarts
  OBVIOUS
<1> DEFINE I == IInv /\ AllTypesInv /\ BestInv
<1>1. Init => I
  BY InitEstablishes, AllTypesInit, BestInit
<1>2. I /\ [Next]_vars => I'
  BY NextPreserves, AllTypesStep, BestStep
<1>3. I => SolutionsAreTheBestRestarts
  BY BestInvImplies
<1>4. QED BY <1>1, <1>2, <1>3, PTL DEF Spec
===============================================================================
