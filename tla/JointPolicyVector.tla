--------------------------- MODULE JointPolicyVector --------------------------
(***************************************************************************)
(* JointPolicyPureVector: a pure joint policy as a vector of actions for   *)
(* every agent, one for every element of the policy's domain (the types of *)
(* a Bayesian game, or the observation histories), its increment, and the  *)
(* conversions between a joint policy and its index (an LIndex, taken to   *)
(* be wide enough).  Actions count from 0.                                 *)
(***************************************************************************)
EXTENDS Integers, Sequences, SequencesExt, FiniteSetsExt

CONSTANTS
  NrActions,       \* NrActions[ag], for the agents 1..n
  NrDomainElements \* NrDomainElements[ag]: GetNrPolicyDomainElements()

ASSUME VectorAssumption ==
  /\ NrActions \in Seq(Nat \ {0})
  /\ NrActions # << >>
  /\ NrDomainElements \in [DOMAIN NrActions -> Nat \ {0}]

Agents == DOMAIN NrActions

IndividualPolicies(ag) == [1..NrDomainElements[ag] -> 0..NrActions[ag]-1]

JointPolicies ==
  {jpol \in [Agents -> UNION {IndividualPolicies(ag) : ag \in Agents}] :
     \A ag \in Agents : jpol[ag] \in IndividualPolicies(ag)}

ZeroInitialization == [ag \in Agents |-> [o \in 1..NrDomainElements[ag] |-> 0]]

(* PolicyPureVector::Increment counts up from the last domain element, and *)
(* carries over when every element has its last action.                    *)
CarriesOver(ag, pol) == \A o \in DOMAIN pol : pol[o] = NrActions[ag] - 1

(* Mutant of IncrementedPolicy: the elements behind are not reset. *)
IncrementedWithoutReset(ag, pol) ==
  LET up == Max({0} \cup {o \in DOMAIN pol : pol[o] # NrActions[ag] - 1})
  IN [o \in DOMAIN pol |-> IF o < up THEN pol[o] ELSE pol[o] + 1]

IncrementedPolicy(ag, pol) ==
  LET up == Max({0} \cup {o \in DOMAIN pol : pol[o] # NrActions[ag] - 1})
  IN [o \in DOMAIN pol |-> IF o < up THEN pol[o] ELSE IF o = up THEN pol[o] + 1 ELSE 0]

(* Mutant of Increment: the agents carry over in the other direction. *)
IncrementFirstAgentFirst(jpol) ==
  LET up == Min({Len(jpol)} \cup {ag \in Agents : ~CarriesOver(ag, jpol[ag])})
  IN [ag \in Agents |-> IF ag > up THEN jpol[ag] ELSE IncrementedPolicy(ag, jpol[ag])]

(* JPolComponent_VectorImplementation::Increment: from the last agent, as  *)
(* long as it carries over.                                                *)
Increment(jpol) ==
  LET up == Max({1} \cup {ag \in Agents : ~CarriesOver(ag, jpol[ag])})
  IN [ag \in Agents |-> IF ag < up THEN jpol[ag] ELSE IncrementedPolicy(ag, jpol[ag])]

(* What the increment of the joint policy returns: "round". *)
IsLastPolicy(jpol) == \A ag \in Agents : CarriesOver(ag, jpol[ag])

(***************************************************************************)
(* Numbers with a base of their own for every digit, the first digit first: *)
(* their values, from the left, the number of them, and what is left of a  *)
(* value in front of every digit.                                          *)
(***************************************************************************)
PartialProducts(base) ==
  LET product[k \in 0..Len(base)] == IF k = 0 THEN 1 ELSE product[k - 1] * base[k]
  IN product

PartialNumbers(base, digit) ==
  LET number[k \in 0..Len(base)] == IF k = 0 THEN 0 ELSE number[k - 1] * base[k] + digit[k]
  IN number

Quotients(base, i) ==
  LET rest[k \in 1..Len(base)] == IF k = Len(base) THEN i ELSE rest[k + 1] \div base[k + 1]
  IN rest

ActionsOfElements(ag) == [o \in 1..NrDomainElements[ag] |-> NrActions[ag]]

NrPolicies(ag) == PartialProducts(ActionsOfElements(ag))[NrDomainElements[ag]]

NrsOfPolicies == [ag \in Agents |-> NrPolicies(ag)]

NrJointPolicies == PartialProducts(NrsOfPolicies)[Len(NrActions)]

(* PolicyPureVector::GetIndex *)
PolicyIndexOf(ag, pol) == PartialNumbers(ActionsOfElements(ag), pol)[NrDomainElements[ag]]

(* JPolComponent_VectorImplementation::GetIndex *)
GetIndex(jpol) ==
  PartialNumbers(NrsOfPolicies, [ag \in Agents |-> PolicyIndexOf(ag, jpol[ag])])[Len(NrActions)]

(* PolicyPureVector::SetIndex *)
PolicyOfIndex(ag, i) ==
  [o \in 1..NrDomainElements[ag] |-> Quotients(ActionsOfElements(ag), i)[o] % NrActions[ag]]

(* JPolComponent_VectorImplementation::SetIndex divides the index from the *)
(* last agent to the second one; the first agent gets the first part of    *)
(* the last division.  A single agent always gets policy 0.                *)
PolicyOfJointIndex(i) ==
  LET rest == Quotients(NrsOfPolicies, i)
  IN [ag \in Agents |->
        PolicyOfIndex(ag, IF Len(NrActions) = 1 THEN 0
                          ELSE IF ag = 1 THEN rest[1] ELSE rest[ag] % NrPolicies(ag))]
===============================================================================
