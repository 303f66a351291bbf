----------------------------- MODULE PlanningUnit -----------------------------
(***************************************************************************)
(* PlanningUnitMADPDiscrete: the histories of a problem up to a horizon.   *)
(* Of every kind, the histories of the agents and the joint histories are  *)
(* either created as trees or only counted, as the parameters say; the     *)
(* questions about them are answered from the trees or from the numbers.   *)
(* When the problem, the horizon or the parameters are set, everything is  *)
(* deinitialized and initialized again.  An initialization that fails is   *)
(* given up where it is: what was filled until then stays and the next     *)
(* initialization adds to it.  The probabilities and the beliefs of the    *)
(* joint action-observation histories are a sequence of blocks: [problem,  *)
(* horizon, size] stands for those of the first histories, size of them,   *)
(* of the tree of that problem and horizon.                                *)
(***************************************************************************)
EXTENDS Histories, FiniteSets

CONSTANTS
  Problems,   \* [nrA, nrO |-> the numbers of every agent]
  Nothing,    \* no problem yet
  Horizons,
  MAXHORIZON, \* the horizon that stands for infinite
  Params,     \* [individual, joint |-> the kinds that are created, beliefs]
  Throws,     \* the answer of a function that is not implemented
  MaxCalls    \* calls of SetProblem, SetHorizon and SetParams

ASSUME PlanningUnitAssumption ==
  /\ \A pr \in Problems :
       /\ pr.nrA \in Seq(Nat \ {0}) \ {<< >>}
       /\ pr.nrO \in Seq(Nat \ {0})
       /\ Len(pr.nrA) = Len(pr.nrO)
  /\ Nothing \notin Problems
  /\ Horizons \subseteq Nat \ {0}
  /\ \A pa \in Params :
       /\ pa.individual \subseteq Kinds
       /\ pa.joint \subseteq Kinds
       /\ pa.beliefs \in BOOLEAN
  /\ MaxCalls \in Nat

VARIABLES
  problem,
  horizon,
  params,
  initialized,
  trees,        \* of every kind and agent, the trees in the agent's vector
  counts,       \* the numbers of histories per stage
  firsts,       \* the indices of the first histories of the stages
  totals,       \* the numbers of histories
  jointTree,    \* of every kind, the vector of the joint histories
  jointCounts,
  jointFirsts,
  jaohProbs,             \* blocks
  jaohConditionalProbs,
  jBeliefCache,
  leftovers,    \* what may hold something of an initialization that failed
  calls

cacheVars ==
  <<trees, counts, firsts, totals, jointTree, jointCounts, jointFirsts,
    jaohProbs, jaohConditionalProbs, jBeliefCache>>
vars == <<problem, horizon, params, initialized, cacheVars, leftovers, calls>>

Blocks == Seq([problem : Problems, horizon : Horizons, size : Nat])

Element(kind) == IF kind = "AO" THEN Nat \X Nat ELSE Nat

TypeOK ==
  /\ problem \in Problems \cup {Nothing}
  /\ horizon \in Horizons
  /\ params \in Params
  /\ initialized \in BOOLEAN
  /\ leftovers \in SUBSET {"histories", "beliefs"}
  /\ \A kind \in Kinds :
       /\ leftovers = {} => Len(trees[kind]) \in {0, Len(counts[kind])}
       /\ Len(counts[kind]) = Len(firsts[kind])
       /\ trees[kind] \in Seq(Seq(Seq(Seq(Element(kind)))))
       /\ counts[kind] \in Seq(Seq(Int))
       /\ firsts[kind] \in Seq(Seq(Nat))
       /\ totals[kind] \in Seq(Nat)
       /\ jointTree[kind] \in Seq(Seq(Element(kind)))
       /\ jointCounts[kind] \in Seq(Int)
       /\ jointFirsts[kind] \in Seq(Int)
  /\ {jaohProbs, jaohConditionalProbs, jBeliefCache} \subseteq Blocks
  /\ calls \in 0..MaxCalls

-----------------------------------------------------------------------------

Empty == [kind \in Kinds |-> << >>]

NoCaches ==
  [trees |-> Empty, counts |-> Empty, firsts |-> Empty, totals |-> Empty,
   jointTree |-> Empty, jointCounts |-> Empty, jointFirsts |-> Empty,
   jaohProbs |-> << >>, jaohConditionalProbs |-> << >>, jBeliefCache |-> << >>,
   thrown |-> FALSE]

Caches ==
  [trees |-> trees, counts |-> counts, firsts |-> firsts, totals |-> totals,
   jointTree |-> jointTree, jointCounts |-> jointCounts, jointFirsts |-> jointFirsts,
   jaohProbs |-> jaohProbs, jaohConditionalProbs |-> jaohConditionalProbs,
   jBeliefCache |-> jBeliefCache, thrown |-> FALSE]

(* Deinitialize() does nothing after an initialization that failed.        *)
Clears == initialized /\ horizon /= MAXHORIZON

(* Mutant of Deinitialized: the trees of the agents are left. *)
DeinitializedButTrees(c) ==
  IF ~Clears THEN c ELSE [NoCaches EXCEPT !.trees = c.trees, !.totals = c.totals]

(* Mutant of Deinitialized: the beliefs are left. *)
DeinitializedButBeliefs(c) ==
  IF ~Clears THEN c ELSE [NoCaches EXCEPT !.jBeliefCache = c.jBeliefCache]

(* Mutant of Deinitialized: the numbers of the agents' histories are left. *)
DeinitializedButCounts(c) ==
  IF ~Clears THEN c ELSE [NoCaches EXCEPT !.counts = c.counts, !.firsts = c.firsts]

(* Deinitialize(): what is left of the caches c.  The probabilities of the *)
(* histories are not cleared, the conditional ones only with the beliefs.  *)
Deinitialized(c) ==
  IF ~Clears THEN c
  ELSE [NoCaches EXCEPT
          !.jaohProbs = c.jaohProbs,
          !.jaohConditionalProbs = IF params.beliefs THEN << >> ELSE c.jaohConditionalProbs,
          !.jBeliefCache = IF params.beliefs THEN << >> ELSE c.jBeliefCache]

Slot(slots, s) == IF s \in DOMAIN slots THEN slots[s] ELSE << >>

(* A slot is pushed back for every agent, but what is new goes to the slot *)
(* with the agent's number, also when that is not the one pushed back.     *)
Extended(slots, new) ==
  [s \in 1..Len(slots) + Len(new) |-> Slot(slots, s) \o Slot(new, s)]

(* The numbers of the histories of a tree's stages: where a stage ends,    *)
(* less the index that the vector first has for it.  What is left over in  *)
(* that vector gives wrong numbers, and one below 0 stands for the Index   *)
(* that the difference wraps to; the numbers counted from such numbers     *)
(* stand for those counted from these indices.                             *)
Stages(first, ends) == [t \in DOMAIN ends |-> ends[t] - first[t]]

(* Initialize() of the agents' histories: created ones are pushed back on  *)
(* what is there, numbers replace it.                                      *)
WithIndividual(c, pr, h, pa) ==
  LET tree(kind, ag) == CreatedTree(kind, AgentNumbers(pr, ag), h)
      computed(kind, ag) == ComputedCounts(kind, AgentNumbers(pr, ag), h)
      starts(kind, ag) == Firsts(CountsOfTree(tree(kind, ag), h))
      numbers(kind, ag) ==
        Stages(Slot(c.firsts[kind], ag) \o starts(kind, ag),
               Append(Tail(starts(kind, ag)), Len(tree(kind, ag))))
      total(count) == FoldSeq(LAMBDA a, b : a + b, 0, count)
  IN [c EXCEPT
        !.trees = [kind \in Kinds |->
          IF kind \in pa.individual
          THEN Extended(@[kind], [ag \in Agents(pr) |-> <<tree(kind, ag)>>]) ELSE @[kind]],
        !.counts = [kind \in Kinds |->
          IF kind \in pa.individual
          THEN Extended(@[kind], [ag \in Agents(pr) |-> numbers(kind, ag)])
          ELSE [ag \in Agents(pr) |-> computed(kind, ag)]],
        !.firsts = [kind \in Kinds |->
          IF kind \in pa.individual
          THEN Extended(@[kind], [ag \in Agents(pr) |-> starts(kind, ag)])
          ELSE [ag \in Agents(pr) |-> Firsts(computed(kind, ag))]],
        !.totals = [kind \in Kinds |->
          IF kind \in pa.individual
          THEN @[kind] \o [ag \in Agents(pr) |-> Len(tree(kind, ag))]
          ELSE [ag \in Agents(pr) |-> total(computed(kind, ag))]]]

AgentHistory(kind, pr, history, ag) ==
  [s \in DOMAIN history |-> AgentElement(kind, pr, history[s], ag)]

(* The constructor of a joint history looks up the agents' histories that  *)
(* it extends.  Those of observations must have been created, and the      *)
(* vectors of created observation and action histories must have the size  *)
(* of one tree per agent.  The vectors of action-observation histories are *)
(* not checked: the agent's first tree is walked.                          *)
ExtensionThrows(c, kind, pr, pa, history) ==
  \/ kind = "O" /\ kind \notin pa.individual
  \/ /\ kind /= "AO" /\ kind \in pa.individual
     /\ \/ Len(c.trees[kind]) /= Len(pr.nrA)
        \/ \E ag \in Agents(pr) : Len(FlattenSeq(c.trees[kind][ag])) /= c.totals[kind][ag]
  \/ /\ kind = "AO" /\ kind \in pa.individual
     /\ \E ag \in Agents(pr) :
          AgentHistory(kind, pr, history, ag) \notin Range(c.trees[kind][ag][1])

(* The joint histories of a kind that reach the vector: all, or those up   *)
(* to the first one that cannot be extended.                               *)
Reached(c, kind, pr, h, pa) ==
  LET tree == CreatedTree(kind, JointNumbers(pr), h)
      throwing == {i \in 2..Len(tree) : ExtensionThrows(c, kind, pr, pa, tree[i])}
      last == IF throwing = {} THEN Len(tree)
              ELSE CHOOSE i \in DOMAIN tree : tree[i] = Front(tree[Min(throwing)])
  IN SubSeq(tree, 1, last)

(* The joint histories of one kind, created; joint action histories are    *)
(* not counted then.                                                       *)
WithCreated(c, kind, pr, h, pa) ==
  LET reached == Reached(c, kind, pr, h, pa)
      thrown == Len(reached) < Len(CreatedTree(kind, JointNumbers(pr), h))
      starts == Firsts(CountsOfTree(reached, Len(Last(reached)) + 1))
      ends == IF thrown THEN Tail(starts) ELSE Append(Tail(starts), Len(reached))
      block == [problem |-> pr, horizon |-> h, size |-> Len(reached)]
  IN [c EXCEPT
        !.jointTree[kind] = @ \o reached,
        !.jointCounts[kind] =
          IF kind = "A" THEN @ ELSE @ \o Stages(c.jointFirsts[kind] \o starts, ends),
        !.jointFirsts[kind] = IF kind = "A" THEN @ ELSE @ \o starts,
        !.jaohProbs = IF kind = "AO" THEN Append(@, block) ELSE @,
        !.jaohConditionalProbs = IF kind = "AO" THEN Append(@, block) ELSE @,
        !.jBeliefCache = IF kind = "AO" /\ pa.beliefs THEN Append(@, block) ELSE @,
        !.thrown = thrown]

(* The joint histories of one kind, only counted.                          *)
WithCounted(c, kind, pr, h) ==
  LET ofAgents == [k \in Kinds |-> SubSeq(c.counts[k], 1, Len(pr.nrA))]
      numbers == ComputedJointCounts(kind, ofAgents, h)
  IN [c EXCEPT !.jointCounts[kind] = @ \o numbers,
               !.jointFirsts[kind] = @ \o Firsts(numbers)]

WithJoint(c, kind, pr, h, pa) ==
  IF c.thrown THEN c
  ELSE IF kind \in pa.joint THEN WithCreated(c, kind, pr, h, pa)
  ELSE WithCounted(c, kind, pr, h)

(* Initialize(): nothing is computed without a problem, or for an infinite *)
(* horizon.  An exception is caught, and ends it.                          *)
Initialized(c, pr, h, pa) ==
  IF pr = Nothing \/ h = MAXHORIZON THEN c
  ELSE LET kinds == <<"O", "A", "AO">>
           filled[i \in 0..Len(kinds)] ==
             IF i = 0 THEN WithIndividual(c, pr, h, pa)
             ELSE WithJoint(filled[i - 1], kinds[i], pr, h, pa)
       IN filled[Len(kinds)]

(* After an initialization that failed, until a Deinitialize() clears it.  *)
LeftOver(d, left) ==
  IF d.thrown THEN {"histories"} \cup {b \in {"beliefs"} : d.jBeliefCache /= << >>} ELSE left

(* The constructor, the only one that checks the parameters. *)
Init ==
  /\ problem \in Problems \cup {Nothing}
  /\ horizon \in Horizons
  /\ params \in {pa \in Params : pa.beliefs => "AO" \in pa.joint}
  /\ \E d \in {Initialized(NoCaches, problem, horizon, params)} :
       /\ initialized = (problem /= Nothing /\ ~d.thrown)
       /\ trees = d.trees
       /\ counts = d.counts
       /\ firsts = d.firsts
       /\ totals = d.totals
       /\ jointTree = d.jointTree
       /\ jointCounts = d.jointCounts
       /\ jointFirsts = d.jointFirsts
       /\ jaohProbs = d.jaohProbs
       /\ jaohConditionalProbs = d.jaohConditionalProbs
       /\ jBeliefCache = d.jBeliefCache
       /\ leftovers = LeftOver(d, {})
  /\ calls = 0

(* Every call begins with Deinitialize() and ends with Initialize().       *)
Set(pr, h, pa) ==
  /\ calls < MaxCalls
  /\ calls' = calls + 1
  /\ problem' = pr
  /\ horizon' = h
  /\ params' = pa
  /\ \E d \in {Initialized(Deinitialized(Caches), pr, h, pa)} :
       /\ initialized' = (pr /= Nothing /\ ~d.thrown)
       /\ trees' = d.trees
       /\ counts' = d.counts
       /\ firsts' = d.firsts
       /\ totals' = d.totals
       /\ jointTree' = d.jointTree
       /\ jointCounts' = d.jointCounts
       /\ jointFirsts' = d.jointFirsts
       /\ jaohProbs' = d.jaohProbs
       /\ jaohConditionalProbs' = d.jaohConditionalProbs
       /\ jBeliefCache' = d.jBeliefCache
       /\ leftovers' = LeftOver(d, IF ~Clears THEN leftovers
                                   ELSE leftovers \ ({"histories"} \cup {b \in {"beliefs"} : params.beliefs}))

SetProblem == \E pr \in Problems : Set(pr, horizon, params)

SetHorizon == \E h \in Horizons : Set(problem, h, params)

SetParams == \E pa \in Params : Set(problem, horizon, pa)

Next == SetProblem \/ SetHorizon \/ SetParams

Spec == Init /\ [][Next]_vars

-----------------------------------------------------------------------------
(* The questions that the planners ask about joint history number i, or    *)
(* about history number i of agent ag, when nothing is left over.          *)

Vector(kind, ag) == FlattenSeq(trees[kind][ag])

GetTimeStep(kind, ag, i) ==
  IF kind \in params.individual THEN TimeStepByTree(Vector(kind, ag), i)
  ELSE TimeStepByFirsts(firsts[kind][ag], i)

GetSuccessor(kind, ag, i, e) ==
  IF kind \in params.individual THEN SuccessorByTree(Vector(kind, ag), i, e)
  ELSE SuccessorByFirsts(kind, AgentNumbers(problem, ag), firsts[kind][ag], i, e)

GetHistoryIndex(kind, ag, history) ==
  HistoryIndex(kind, AgentNumbers(problem, ag), firsts[kind][ag], history)

GetHistoryArrays(kind, ag, i, t) ==
  HistoryArrays(kind, AgentNumbers(problem, ag), firsts[kind][ag], i, t)

GetJointTimeStep(kind, i) ==
  IF kind \in params.joint THEN TimeStepByTree(jointTree[kind], i)
  ELSE TimeStepByFirsts(jointFirsts[kind], i)

GetJointSuccessor(kind, i, e) ==
  IF kind \in params.joint THEN SuccessorByTree(jointTree[kind], i, e)
  ELSE SuccessorByFirsts(kind, JointNumbers(problem), jointFirsts[kind], i, e)

GetJointHistoryIndex(kind, history) ==
  HistoryIndex(kind, JointNumbers(problem), jointFirsts[kind], history)

GetJointHistoryArrays(kind, i, t) ==
  HistoryArrays(kind, JointNumbers(problem), jointFirsts[kind], i, t)

(* JointToIndividual...HistoryIndices: the elements of the joint history,  *)
(* taken apart.  Of joint action histories it only throws.                 *)
JointToIndividual(kind, i) ==
  LET t == GetJointTimeStep(kind, i)
      elements == GetJointHistoryArrays(kind, i, t)
  IN IF kind = "A" THEN Throws
     ELSE [ag \in Agents(problem) |->
             GetHistoryIndex(kind, ag, AgentHistory(kind, problem, elements, ag))]

(* JointToIndividual...HistoryIndicesRef: what a joint history stored when *)
(* it was created, from the indices that its predecessor had stored.       *)
StoredIndividual(kind, i) ==
  LET history == jointTree[kind][i + 1]
      stored[t \in 0..Len(history)] ==
        [ag \in Agents(problem) |->
           IF t = 0 THEN 0
           ELSE GetSuccessor(kind, ag, stored[t - 1][ag],
                             AgentElement(kind, problem, history[t], ag))]
  IN stored[Len(history)]

(* IndividualToJoint...HistoryIndex, of stage t.                           *)
IndividualToJoint(kind, t, indices) ==
  LET elements == [ag \in Agents(problem) |-> GetHistoryArrays(kind, ag, indices[ag], t)]
  IN GetJointHistoryIndex(kind,
       [s \in 1..t |-> JointElement(kind, problem, [ag \in Agents(problem) |-> elements[ag][s]])])

-----------------------------------------------------------------------------
(***************************************************************************)
(* Properties.                                                             *)
(***************************************************************************)

IsFinite == initialized /\ horizon /= MAXHORIZON

Elements(kind, n) ==
  CASE kind = "O" -> 0..n.O-1
    [] kind = "A" -> 0..n.A-1
    [] kind = "AO" -> (0..n.A-1) \X (0..n.O-1)

HistoriesOf(kind, n, t) == [1..t -> Elements(kind, n)]

(* A tree has every history once, and shorter histories first.             *)
IsTreeOf(tree, kind, n) ==
  /\ IsInjective(tree)
  /\ Range(tree) = UNION {HistoriesOf(kind, n, t) : t \in 0..horizon-1}
  /\ \A i \in 1..Len(tree)-1 : Len(tree[i]) <= Len(tree[i + 1])

AreCountsOf(count, kind, n) ==
  /\ Len(count) = horizon
  /\ \A t \in 1..horizon : count[t] = Cardinality(HistoriesOf(kind, n, t - 1))

(* The created joint action histories have no numbers: their index, which  *)
(* is computed from them, cannot be asked for.                             *)
HasNumbers(kind) == ~(kind = "A" /\ kind \in params.joint)

NrHistories(kind, n) == Cardinality(UNION {HistoriesOf(kind, n, t) : t \in 0..horizon-1})

AreNumbersOf(count, first, kind, n) == AreCountsOf(count, kind, n) /\ first = Firsts(count)

HistoriesDescribeTheProblem ==
  \A kind \in Kinds :
    /\ Len(counts[kind]) = Len(problem.nrA)
    /\ Len(totals[kind]) = Len(problem.nrA)
    /\ \A ag \in Agents(problem) :
         LET n == AgentNumbers(problem, ag) IN
           /\ AreNumbersOf(counts[kind][ag], firsts[kind][ag], kind, n)
           /\ totals[kind][ag] = NrHistories(kind, n)
           /\ kind \in params.individual =>
                Len(trees[kind][ag]) = 1 /\ IsTreeOf(trees[kind][ag][1], kind, n)
    /\ kind \notin params.individual => trees[kind] = << >>
    /\ kind \in params.joint => IsTreeOf(jointTree[kind], kind, JointNumbers(problem))
    /\ kind \notin params.joint => jointTree[kind] = << >>
    /\ HasNumbers(kind) =>
         AreNumbersOf(jointCounts[kind], jointFirsts[kind], kind, JointNumbers(problem))

BeliefsDescribeTheProblem ==
  jBeliefCache =
    IF IsFinite /\ params.beliefs /\ "AO" \in params.joint
    THEN <<[problem |-> problem, horizon |-> horizon,
            size |-> NrHistories("AO", JointNumbers(problem))]>>
    ELSE << >>

(* Whatever was set before, the trees, the numbers and the beliefs are     *)
(* those of the present problem, horizon and parameters; what is left over *)
(* of an initialization that failed is gone with the next Deinitialize()   *)
(* after one that did not, the beliefs when it is one that had beliefs.    *)
CachesDescribeTheProblem ==
  /\ "histories" \notin leftovers =>
       IF IsFinite THEN HistoriesDescribeTheProblem
       ELSE [Caches EXCEPT !.jaohProbs = << >>, !.jaohConditionalProbs = << >>,
                           !.jBeliefCache = << >>] = NoCaches
  /\ "beliefs" \notin leftovers => BeliefsDescribeTheProblem

(* A call on a planning unit that is initialized for a finite horizon, and *)
(* that does not fail itself, leaves only what belongs to the problem,     *)
(* whatever failed before: of a failed initialization nothing outlives the *)
(* first call that initializes for a finite horizon and the one after it.  *)
StartsAfresh ==
  [][Clears /\ IsFinite' =>
       /\ HistoriesDescribeTheProblem'
       /\ params.beliefs => BeliefsDescribeTheProblem']_vars

(* Histories and numbers correspond one to one, and all answers agree on   *)
(* the correspondence, from the trees or from the numbers.                 *)
AnswersAgree ==
  IsFinite /\ leftovers = {} =>
    \A kind \in Kinds : \A t \in 0..horizon-1 :
      /\ \A ag \in Agents(problem) :
           \A history \in HistoriesOf(kind, AgentNumbers(problem, ag), t) :
             LET i == GetHistoryIndex(kind, ag, history) IN
               /\ GetTimeStep(kind, ag, i) = t
               /\ GetHistoryArrays(kind, ag, i, t) = history
               /\ t < horizon - 1 =>
                    \A e \in Elements(kind, AgentNumbers(problem, ag)) :
                      GetSuccessor(kind, ag, i, e) = GetHistoryIndex(kind, ag, Append(history, e))
      /\ HasNumbers(kind) =>
           \A history \in HistoriesOf(kind, JointNumbers(problem), t) :
             LET i == GetJointHistoryIndex(kind, history) IN
               /\ GetJointTimeStep(kind, i) = t
               /\ GetJointHistoryArrays(kind, i, t) = history
               /\ t < horizon - 1 =>
                    \A e \in Elements(kind, JointNumbers(problem)) :
                      GetJointSuccessor(kind, i, e) = GetJointHistoryIndex(kind, Append(history, e))

(* A joint history and the histories of the agents that it consists of     *)
(* determine each other: the index of one is computed from those of the    *)
(* others, back where the code has the way back, and those that a joint    *)
(* history has stored since it was created are these, also of the joint    *)
(* action histories, which have no other way to them.                      *)
JointHistoriesAreTheAgents ==
  IsFinite /\ leftovers = {} =>
    \A kind \in Kinds :
      LET parts(history) ==
            [ag \in Agents(problem) |->
               GetHistoryIndex(kind, ag, AgentHistory(kind, problem, history, ag))]
      IN /\ HasNumbers(kind) =>
              \A t \in 0..horizon-1 : \A history \in HistoriesOf(kind, JointNumbers(problem), t) :
                LET i == GetJointHistoryIndex(kind, history) IN
                  /\ IndividualToJoint(kind, t, parts(history)) = i
                  /\ kind /= "A" => JointToIndividual(kind, i) = parts(history)
         /\ \A i \in DOMAIN jointTree[kind] :
              StoredIndividual(kind, i - 1) = parts(jointTree[kind][i])

(* A vector has the joint observation histories at their indices, also     *)
(* after an initialization that failed.                                    *)
VectorHoldsHistories ==
  IsFinite /\ "O" \in params.joint =>
    jointTree["O"] = CreatedTree("O", JointNumbers(problem), horizon)

(* The probability that is stored for a history when it is created: that   *)
(* of the empty history, and no other, is 1 in every problem.              *)
Probability(pr, history) == <<IF history = << >> THEN Nothing ELSE pr, history>>

(* _m_jaohProbs[k] is the probability of joint action-observation history  *)
(* number k, which GetJAOHProbs returns when the beliefs are cached.       *)
ProbabilityIsOfItsHistory ==
  IsFinite /\ leftovers = {} /\ params.beliefs /\ "AO" \in params.joint =>
    LET block(b) ==
          LET pr == jaohProbs[b].problem
              tree == CreatedTree("AO", JointNumbers(pr), jaohProbs[b].horizon)
          IN [i \in 1..jaohProbs[b].size |-> Probability(pr, tree[i])]
        stored == FlattenSeq([b \in DOMAIN jaohProbs |-> block(b)])
    IN \A i \in DOMAIN jointTree["AO"] :
         stored[i] = Probability(problem, jointTree["AO"][i])
===============================================================================
