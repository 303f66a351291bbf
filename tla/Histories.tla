------------------------------- MODULE Histories ------------------------------
(***************************************************************************)
(* The histories of a planning unit and their numbers.  A history of kind  *)
(* "O" is a sequence of observations, of kind "A" of actions and of kind   *)
(* "AO" of pairs <<action, observation>>, of one agent or of all of them   *)
(* together.  The histories are numbered breadth-first, from 0.  A         *)
(* numbering is a sequence counts, the number of histories of each length, *)
(* and Firsts(counts), the number of the first history of each length.     *)
(***************************************************************************)
EXTENDS Integers, Sequences, SequencesExt

Kinds == {"O", "A", "AO"}

(* The numbers of actions and observations of an agent.                    *)
Agents(pr) == DOMAIN pr.nrA
AgentNumbers(pr, ag) == [A |-> pr.nrA[ag], O |-> pr.nrO[ag]]
Product(seq) ==
  LET product[i \in 0..Len(seq)] == IF i = 0 THEN 1 ELSE product[i - 1] * seq[i]
  IN product[Len(seq)]
JointNumbers(pr) == [A |-> Product(pr.nrA), O |-> Product(pr.nrO)]

-----------------------------------------------------------------------------
(* Elements of histories and their numbers; n is one of the above.         *)

NrElements(kind, n) ==
  CASE kind = "O" -> n.O
    [] kind = "A" -> n.A
    [] kind = "AO" -> n.A * n.O

ElementIndex(kind, n, e) == IF kind = "AO" THEN e[1] * n.O + e[2] ELSE e

ElementOfIndex(kind, n, i) == IF kind = "AO" THEN <<i \div n.O, i % n.O>> ELSE i

(* The joint index of an index per agent, the last agent's changes first.  *)
JointIndex(nrs, indices) ==
  LET index[ag \in 0..Len(nrs)] ==
        IF ag = 0 THEN 0 ELSE index[ag - 1] * nrs[ag] + indices[ag]
  IN index[Len(nrs)]

(* Mutant of StepSize: a step counts the options of the agents before it.  *)
StepSizeOfOthers(nrs, ag) == Product(SubSeq(nrs, 1, ag - 1))

StepSize(nrs, ag) == Product(SubSeq(nrs, ag + 1, Len(nrs)))

IndividualIndices(nrs, joint) ==
  [ag \in DOMAIN nrs |-> (joint \div StepSize(nrs, ag)) % nrs[ag]]

(* The joint element of an element per agent, and an agent's part of it.   *)
JointElement(kind, pr, es) ==
  CASE kind = "O" -> JointIndex(pr.nrO, es)
    [] kind = "A" -> JointIndex(pr.nrA, es)
    [] kind = "AO" -> <<JointIndex(pr.nrA, [ag \in DOMAIN es |-> es[ag][1]]),
                        JointIndex(pr.nrO, [ag \in DOMAIN es |-> es[ag][2]])>>

AgentElement(kind, pr, e, ag) ==
  CASE kind = "O" -> IndividualIndices(pr.nrO, e)[ag]
    [] kind = "A" -> IndividualIndices(pr.nrA, e)[ag]
    [] kind = "AO" -> <<IndividualIndices(pr.nrA, e[1])[ag],
                        IndividualIndices(pr.nrO, e[2])[ag]>>

-----------------------------------------------------------------------------
(* The two ways to number the histories of less than h elements.           *)

(* Create...HistoryTree: the histories in the order of their queue.        *)
CreatedTree(kind, n, h) ==
  LET elements == [i \in 1..NrElements(kind, n) |-> ElementOfIndex(kind, n, i - 1)]
      successors(history) == [i \in DOMAIN elements |-> Append(history, elements[i])]
      level[t \in 0..h-1] ==
        IF t = 0 THEN << << >> >>
        ELSE FlattenSeq([i \in DOMAIN level[t - 1] |-> successors(level[t - 1][i])])
  IN FlattenSeq([t \in 1..h |-> level[t - 1]])

(* What is counted on the way.                                             *)
CountsOfTree(tree, h) ==
  [t \in 1..h |-> Len(SelectSeq(tree, LAMBDA history : Len(history) = t - 1))]

(* Only the numbers, as powers.                                            *)
ComputedCounts(kind, n, h) == [t \in 1..h |-> NrElements(kind, n) ^ (t - 1)]

(* The joint numbers, from the numbers of the agents; the joint action-    *)
(* observation histories from their observation and action histories.      *)
ComputedJointCounts(kind, counts, h) ==
  LET per(k, t) == Product([ag \in DOMAIN counts[k] |-> counts[k][ag][t]])
  IN [t \in 1..h |-> IF kind = "AO" THEN per("O", t) * per("A", t) ELSE per(kind, t)]

Firsts(counts) ==
  LET first[t \in 1..Len(counts)] == IF t = 1 THEN 0 ELSE first[t - 1] + counts[t - 1]
  IN first

-----------------------------------------------------------------------------
(* Histories and numbers; first is one of the Firsts.                      *)

(* Compute- and Get...HistoryIndex.                                        *)
HistoryIndex(kind, n, first, history) ==
  LET value[t \in 0..Len(history)] ==
        IF t = 0 THEN 0
        ELSE value[t - 1] * NrElements(kind, n) + ElementIndex(kind, n, history[t])
  IN first[Len(history) + 1] + value[Len(history)]

(* Get...HistoryArrays: the t elements of history number i.                *)
HistoryArrays(kind, n, first, i, t) ==
  LET base == NrElements(kind, n)
      within == i - first[t + 1]
  IN [s \in 1..t |-> ElementOfIndex(kind, n, (within \div base ^ (t - s)) % base)]

(* GetTimeStepFor...: the last stage whose first history is not beyond i.  *)
TimeStepByFirsts(first, i) ==
  CHOOSE t \in 0..Len(first)-1 :
    /\ first[t + 1] <= i
    /\ t + 1 < Len(first) => first[t + 2] > i

TimeStepByTree(tree, i) == Len(tree[i + 1])

(* Mutant of SuccessorByFirsts: the successor keeps the stage's offset.    *)
SuccessorWithinStage(kind, n, first, i, e) ==
  LET t == TimeStepByFirsts(first, i)
  IN (i - first[t + 1]) * NrElements(kind, n) + ElementIndex(kind, n, e) + first[t + 1]

(* GetSuccessor...                                                         *)
SuccessorByFirsts(kind, n, first, i, e) ==
  LET t == TimeStepByFirsts(first, i)
  IN (i - first[t + 1]) * NrElements(kind, n) + ElementIndex(kind, n, e) + first[t + 2]

SuccessorByTree(tree, i, e) ==
  (CHOOSE j \in DOMAIN tree : tree[j] = Append(tree[i + 1], e)) - 1
===============================================================================
