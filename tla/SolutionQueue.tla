----------------------------- MODULE SolutionQueue ----------------------------
(***************************************************************************)
(* BGIPSolution: the queue in which the solvers of Bayesian games collect  *)
(* their solutions.  It has room for the number of desired solutions (a    *)
(* FixedCapacityPriorityQueue), or for all of them when that is INT_MAX (a *)
(* std::priority_queue), and keeps the indices of the policies it holds to *)
(* detect duplicates.                                                      *)
(*                                                                         *)
(* The solvers are the environment: they add any policy, several times if  *)
(* they like (BGIP_SolverAlternatingMaximization does, from its restarts). *)
(* The solutions of a queue of fixed capacity are popped when the solver   *)
(* is done; with infinite capacity a solver adds and pops in turns.        *)
(***************************************************************************)
EXTENDS Integers, Sequences, SequencesExt

CONSTANTS
  JPolicies,   \* the joint policies of the game
  Value,       \* Value[p]: the value that solvers find for p
  PolicyIndex, \* PolicyIndex[p]: its joint policy index, an LIndex
  IndexRange,  \* the number of values of an Index, to which an LIndex is cast
  Overflows,   \* whether GetIndex() throws EOverflow: too many policies for an LIndex
  Capacities,  \* the numbers of desired solutions
  Infinite     \* the one that is INT_MAX

ASSUME QueueAssumption ==
  /\ Value \in [JPolicies -> Int]
  /\ PolicyIndex \in [JPolicies -> Nat]
  /\ IndexRange \in Nat \ {0}
  /\ Overflows \in BOOLEAN
  /\ Capacities \ {Infinite} \subseteq Nat \ {0}

VARIABLES
  capacity,    \* _m_nrDesiredSolutions
  queue,       \* _m_qFixedK, or _m_qInfSize in the order of its pops
  jpolIndices, \* _m_jpolIndices
  added,       \* history: the policies that solvers have added
  returned     \* history: the policies that were popped, in order

vars == <<capacity, queue, jpolIndices, added, returned>>

TypeOK ==
  /\ capacity \in Capacities
  /\ queue \in Seq(JPolicies)
  /\ capacity # Infinite => Len(queue) <= capacity
  /\ jpolIndices \subseteq Nat
  /\ added \subseteq JPolicies
  /\ returned \in Seq(JPolicies)

Init ==
  /\ capacity \in Capacities
  /\ queue = << >>
  /\ jpolIndices = {}
  /\ added = {}
  /\ returned = << >>

Less(p, q) == Value[p] < Value[q]

(* Mutant of Overflown: off by one. *)
OverflownTooLate(q) == capacity # Infinite /\ Len(q) > capacity

Overflown(q) == capacity # Infinite /\ Len(q) = capacity

(* Mutant of ThrownOut: a full queue always gives up its last element. *)
AlwaysLast(q, p) == Last(q)

(* FixedCapacityPriorityQueue::insert: what is thrown out of a full queue, *)
(* and the queue with p after everything that is no less than p.           *)
ThrownOut(q, p) == IF Less(Last(q), p) THEN Last(q) ELSE p

Positions(q, p) ==
  {i \in 1..Len(q)+1 : (\A j \in 1..i-1 : ~Less(q[j], p)) /\ (\A j \in i..Len(q) : Less(q[j], p))}

Place(q, p) == CHOOSE i \in Positions(q, p) : TRUE

WithRoom(q) == IF Overflown(q) THEN Front(q) ELSE q

Inserted(q, p) ==
  IF Overflown(q) /\ ThrownOut(q, p) = p THEN q
  ELSE InsertAt(WithRoom(q), Place(WithRoom(q), p), p)

(* The priority_queue leaves the order of equal values open. *)
Pushed(q, p) ==
  {InsertAt(q, i, p) : i \in {i \in 1..Len(q)+1 : (\A j \in 1..i-1 : ~Less(q[j], p))
                                                 /\ (\A j \in i..Len(q) : ~Less(p, q[j]))}}

(* CastLIndexToIndex. *)
CastToIndex(i) == i % IndexRange

(* AddSolution() when policies have an index. *)
AddIndexed(p) ==
  IF PolicyIndex[p] \in jpolIndices
  THEN UNCHANGED <<queue, jpolIndices>>
  ELSE LET known == jpolIndices \cup {PolicyIndex[p]}
       IN IF capacity = Infinite
          THEN queue' \in Pushed(queue, p) /\ jpolIndices' = known
          ELSE /\ queue' = Inserted(queue, p)
               /\ jpolIndices' =
                    IF Overflown(queue)
                    THEN known \ {CastToIndex(PolicyIndex[ThrownOut(queue, p)])}
                    ELSE known

(* AddSolution() when GetIndex() throws: no duplicate is found, index 0 is *)
(* recorded, and when the insertion throws something out, the index of     *)
(* that throws again and the handler inserts p a second time.              *)
AddOverflowing(p) ==
  /\ jpolIndices' = jpolIndices \cup {0}
  /\ IF capacity = Infinite THEN queue' \in Pushed(queue, p)
     ELSE queue' = IF Overflown(queue) THEN Inserted(Inserted(queue, p), p) ELSE Inserted(queue, p)

(* A solver finds p; one that is read from a queue of fixed size is done.  *)
(* Without indices duplicates are admitted (GiveOverFlowWarning), so there *)
(* every policy is added once.                                             *)
AddSolution ==
  \E p \in JPolicies :
    /\ capacity # Infinite => returned = << >>
    /\ added' = added \cup {p}
    /\ IF Overflows THEN p \notin added /\ AddOverflowing(p) ELSE AddIndexed(p)
    /\ UNCHANGED <<capacity, returned>>

(* Mutant of PopNextSolution: the index of the popped policy is erased. *)
PopErasesIndex ==
  /\ queue # << >>
  /\ returned' = Append(returned, Head(queue))
  /\ queue' = Tail(queue)
  /\ jpolIndices' = jpolIndices \ {PolicyIndex[Head(queue)]}
  /\ UNCHANGED <<capacity, added>>

(* GetNextSolutionJPPV and PopNextSolutionJPPV. *)
PopNextSolution ==
  /\ queue # << >>
  /\ returned' = Append(returned, Head(queue))
  /\ queue' = Tail(queue)
  /\ UNCHANGED <<capacity, jpolIndices, added>>

Next == AddSolution \/ PopNextSolution

Spec == Init /\ [][Next]_vars

-----------------------------------------------------------------------------

(* The policies in S have an index that fits into an LIndex and also into  *)
(* an Index, which is theirs alone, as it is among the joint policies of   *)
(* one game.                                                               *)
IndicesFit(S) ==
  /\ ~Overflows
  /\ \A p, q \in S : PolicyIndex[p] = PolicyIndex[q] => p = q
  /\ \A p \in S : PolicyIndex[p] < IndexRange

(* As long as nothing was popped, the queue holds the best of the policies *)
(* that were added, as many as it has room for, every one once and by      *)
(* decreasing value.                                                       *)
QueueHoldsTheBest ==
  returned = << >> =>
    /\ \A i, j \in DOMAIN queue : i < j => queue[i] # queue[j] /\ ~Less(queue[i], queue[j])
    /\ \A p \in added : ~Contains(queue, p) =>
         Overflown(queue) /\ ~Less(Last(queue), p)

(* No policy is returned a second time, not even one that a solver finds   *)
(* again after it was popped: the index of a popped policy is kept.        *)
NeverReturnedTwice == IsInjective(returned)
===============================================================================
