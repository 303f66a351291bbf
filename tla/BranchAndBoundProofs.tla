------------------------- MODULE BranchAndBoundProofs --------------------------
(***************************************************************************)
(* Proofs about the branch-and-bound solver of Bayesian games: the nodes   *)
(* of the search tree divide the policies of the game among them, F never  *)
(* underestimates what a node leads to, and the solver keeps the contract  *)
(* of the incremental interface.                                           *)
(***************************************************************************)
EXTENDS BranchAndBound, FiniteSetTheorems, WellFoundedInduction, TLAPS

-----------------------------------------------------------------------------
(***************************************************************************)
(* Induction over numbers and finite sets.                                 *)
(***************************************************************************)

(* A set that holds 0 and is closed under successor up to m holds 0..m.    *)
LEMMA IntervalInduction ==
  ASSUME NEW m \in Nat, NEW S, 0 \in S, \A t \in 0..m-1 : t \in S => t + 1 \in S
  PROVE  0..m \subseteq S
<1> SUFFICES ASSUME ~(0..m \subseteq S) PROVE FALSE
  OBVIOUS
<1> DEFINE T == (0..m) \ S
<1>1. PICK t \in T : \A s \in T : <<s, t>> \notin OpToRel(<, Nat)
  <2>1. T \subseteq Nat /\ T # {}
    OBVIOUS
  <2> HIDE DEF T
  <2>2. QED BY <2>1, NatLessThanWellFounded, WFMin
<1>2. t # 0 /\ t - 1 \in 0..m-1 /\ (t - 1) + 1 = t
  OBVIOUS
<1>3. t - 1 \in T /\ <<t - 1, t>> \in OpToRel(<, Nat)
  BY <1>1, <1>2 DEF OpToRel
<1>4. QED BY <1>1, <1>3

(* A finite set of integers that is not empty has a greatest element.      *)
LEMMA FiniteSetHasGreatest ==
  ASSUME NEW S, IsFiniteSet(S), S \subseteq Int, S # {}
  PROVE  \E g \in S : \A x \in S : x <= g
<1> DEFINE Above == [x \in S |-> {y \in S : y > x}]
           T == {Above[x] : x \in S}
<1>1. /\ \A x \in S : Above[x] \in SUBSET S
      /\ \A x, y \in S : y \in Above[x] <=> y > x
  OBVIOUS
<1> HIDE DEF Above
<1>2. T \subseteq FiniteSubsetsOf(S) /\ T # {}
  <2>1. FiniteSubsetsOf(S) = SUBSET S
    BY FS_FiniteSubsetsOfFinite
  <2>2. T \subseteq SUBSET S
    BY <1>1
  <2>3. \A x \in S : Above[x] \in T
    OBVIOUS
  <2>4. T # {}
    BY <2>3
  <2>5. QED BY <2>1, <2>2, <2>4
<1>3. PICK U \in T : \A V \in T : <<V, U>> \notin StrictSubsetOrdering(S)
  <2> HIDE DEF T
  <2>1. QED BY <1>2, FS_StrictSubsetOrderingWellFounded, WFMin
<1>4. PICK g \in S : U = Above[g]
  BY <1>3
<1>5. ASSUME NEW x \in S, ~(x <= g) PROVE FALSE
  <2>1. x \in Int /\ g \in Int /\ \A y \in S : y \in Int
    BY <1>4
  <2>2. \A y \in S : y > x => y > g
    BY <1>5, <2>1
  <2>3. Above[x] \subseteq Above[g] /\ x \in Above[g] /\ x \notin Above[x]
    <3>1. x > g /\ ~(x > x)
      BY <1>5, <2>1
    <3>2. Above[x] \subseteq S
      BY <1>1
    <3>3. \A y \in Above[x] : y \in Above[g]
      BY <1>1, <1>4, <2>2, <3>2
    <3>4. QED BY <1>1, <1>4, <3>1, <3>3
  <2>4. <<Above[x], Above[g]>> \in StrictSubsetOrdering(S)
    BY <1>1, <1>4, <2>3 DEF StrictSubsetOrdering
  <2>5. QED BY <1>3, <1>4, <2>4
<1>6. QED BY <1>4, <1>5

(* A set that holds a subset of S when it holds all smaller ones, holds S. *)
LEMMA FiniteSubsetsInduction ==
  ASSUME NEW S, IsFiniteSet(S), NEW G,
         \A T \in SUBSET S : (\A V \in SUBSET T : V # T => V \in G) => T \in G
  PROVE  S \in G
<1> DEFINE Without == (SUBSET S) \ G
<1> SUFFICES ASSUME S \notin G PROVE FALSE
  OBVIOUS
<1>1. IsWellFoundedOn(StrictSubsetOrdering(S), FiniteSubsetsOf(S))
  BY FS_StrictSubsetOrderingWellFounded
<1>2. FiniteSubsetsOf(S) = SUBSET S
  BY FS_FiniteSubsetsOfFinite
<1>3. PICK U \in Without :
        \A V \in Without : <<V, U>> \notin StrictSubsetOrdering(S)
  <2>1. Without \subseteq FiniteSubsetsOf(S) /\ Without # {}
    BY <1>2
  <2> HIDE DEF Without
  <2>2. QED BY <1>1, <2>1, WFMin
<1>4. ASSUME NEW V \in SUBSET U, V # U PROVE V \in G
  <2>1. U \in SUBSET S /\ V \in SUBSET S
    BY <1>3
  <2>2. <<V, U>> \in StrictSubsetOrdering(S)
    BY <2>1, <1>4 DEF StrictSubsetOrdering
  <2>3. QED BY <1>3, <2>1, <2>2
<1>5. QED BY <1>3, <1>4

-----------------------------------------------------------------------------
(***************************************************************************)
(* Sums.  SumFunctionOnSet(f, S) is computed by a function on the subsets  *)
(* of S, each of which gives up a chosen element.                          *)
(***************************************************************************)
Chosen(T) == CHOOSE x \in T : TRUE

SumStep(it, f, T) == IF T = {} THEN 0 ELSE f[Chosen(T)] + it[T \ {Chosen(T)}]

IsSumTable(it, f, S) == it = [T \in SUBSET S |-> SumStep(it, f, T)]

(* The subsets of S with at most n elements. *)
SubsetsUpTo(S, n) == {T \in SUBSET S : Cardinality(T) <= n}

(* One element is taken from a set that is not empty.                      *)
LEMMA WithoutChosen ==
  ASSUME NEW S, IsFiniteSet(S), NEW T \in SUBSET S, T # {}
  PROVE  /\ Chosen(T) \in T
         /\ T \ {Chosen(T)} \in SUBSET S
         /\ Cardinality(T) \in Nat /\ Cardinality(T) <= Cardinality(S)
         /\ Cardinality(T \ {Chosen(T)}) = Cardinality(T) - 1
<1>1. Chosen(T) \in T
  BY DEF Chosen
<1>2. IsFiniteSet(T) /\ Cardinality(T) <= Cardinality(S)
  BY FS_Subset
<1>3. QED BY <1>1, <1>2, FS_RemoveElement, FS_CardinalityType

(* There is a table of sums, built up by the size of the subsets.          *)
LEMMA SumTableExists ==
  ASSUME NEW S, IsFiniteSet(S), NEW f, \A x \in S : f[x] \in Int
  PROVE  \E it \in [SUBSET S -> Int] : IsSumTable(it, f, S)
<1> DEFINE n == Cardinality(S)
           Upto(m) == SubsetsUpTo(S, m)
           Good == {m \in 0..n : \E it \in [Upto(m) -> Int] :
                      \A T \in Upto(m) : it[T] = SumStep(it, f, T)}
<1>1. n \in Nat
  BY FS_CardinalityType
<1>2. \A T \in SUBSET S : Cardinality(T) \in Nat /\ (Cardinality(T) = 0 <=> T = {})
  BY FS_Subset, FS_CardinalityType, FS_EmptySet
<1>3. 0 \in Good
  <2> DEFINE it == [T \in Upto(0) |-> 0]
  <2>1. \A T \in Upto(0) : T = {}
    BY <1>2 DEF SubsetsUpTo
  <2>2. it \in [Upto(0) -> Int] /\ \A T \in Upto(0) : it[T] = SumStep(it, f, T)
    BY <2>1 DEF SumStep
  <2> HIDE DEF it
  <2>3. QED BY <1>1, <2>2
<1>4. ASSUME NEW m \in 0..n-1, m \in Good PROVE m + 1 \in Good
  <2>1. PICK it \in [Upto(m) -> Int] : \A T \in Upto(m) : it[T] = SumStep(it, f, T)
    BY <1>4
  <2> DEFINE more == [T \in Upto(m + 1) |-> SumStep(it, f, T)]
  <2>2. \A T \in Upto(m) : more[T] = it[T]
    BY <1>1, <1>2, <2>1 DEF SubsetsUpTo
  <2>3. ASSUME NEW T \in Upto(m + 1), T # {}
        PROVE  T \ {Chosen(T)} \in Upto(m) /\ Chosen(T) \in S
    BY <2>3, <1>1, <1>2, WithoutChosen DEF SubsetsUpTo
  <2>4. more \in [Upto(m + 1) -> Int]
    <3>1. \A T \in Upto(m + 1) : SumStep(it, f, T) \in Int
      BY <2>1, <2>3 DEF SumStep
    <3>2. QED BY <3>1
  <2>5. \A T \in Upto(m + 1) : more[T] = SumStep(more, f, T)
    BY <2>2, <2>3 DEF SumStep
  <2> HIDE DEF more
  <2>6. QED BY <2>4, <2>5, <1>1
<1>5. n \in Good
  <2>1. 0..n \subseteq Good
    <3> HIDE DEF Good
    <3>1. QED BY <1>1, <1>3, <1>4, IntervalInduction
  <2>2. QED BY <1>1, <2>1
<1>6. Upto(n) = SUBSET S
  BY FS_Subset DEF SubsetsUpTo
<1>7. PICK it \in [SUBSET S -> Int] : \A T \in SUBSET S : it[T] = SumStep(it, f, T)
  BY <1>5, <1>6
<1>8. it = [T \in SUBSET S |-> SumStep(it, f, T)]
  BY <1>7
<1>9. QED BY <1>8 DEF IsSumTable

(* Tables of the same function agree on the sets that both of them have.   *)
LEMMA SumTablesAgree ==
  ASSUME NEW S, IsFiniteSet(S), NEW f,
         NEW R \in SUBSET S, NEW it1, NEW it2,
         IsSumTable(it1, f, S), IsSumTable(it2, f, R)
  PROVE  it1[R] = it2[R]
<1> DEFINE Good == {T \in SUBSET R : it1[T] = it2[T]}
<1>1. IsFiniteSet(R)
  BY FS_Subset
<1>2. \A T \in SUBSET R : it1[T] = SumStep(it1, f, T) /\ it2[T] = SumStep(it2, f, T)
  BY DEF IsSumTable
<1>3. {} \in Good
  BY <1>2 DEF SumStep
<1>4. ASSUME NEW T \in SUBSET R, T # {}, T \ {Chosen(T)} \in Good PROVE T \in Good
  BY <1>2, <1>4 DEF SumStep
<1>5. ASSUME NEW T \in SUBSET R, \A V \in SUBSET T : V # T => V \in Good PROVE T \in Good
  <2>1. CASE T = {}
    BY <1>3, <2>1
  <2>2. CASE T # {}
    <3>1. Chosen(T) \in T
      BY <2>2 DEF Chosen
    <3>2. T \ {Chosen(T)} \in SUBSET T /\ T \ {Chosen(T)} # T
      BY <3>1
    <3> HIDE DEF Good
    <3>3. T \ {Chosen(T)} \in Good
      BY <1>5, <3>2
    <3>4. QED BY <1>4, <2>2, <3>3
  <2>3. QED BY <2>1, <2>2
<1>6. R \in Good
  <2> HIDE DEF Good
  <2>1. QED BY <1>1, <1>5, FiniteSubsetsInduction
<1>7. QED BY <1>6

(* The sum is the entry of a table.                                        *)
LEMMA SumIsInTable ==
  ASSUME NEW S, IsFiniteSet(S), NEW f, \A x \in S : f[x] \in Int
  PROVE  \E it \in [SUBSET S -> Int] : IsSumTable(it, f, S) /\ SumFunctionOnSet(f, S) = it[S]
<1> DEFINE it == CHOOSE it : it = [T \in SUBSET S |->
                   IF T = {} THEN 0
                   ELSE f[CHOOSE x \in T : TRUE] + it[T \ {CHOOSE x \in T : TRUE}]]
<1>1. SumFunctionOnSet(f, S) = it[S]
  BY DEF SumFunctionOnSet, FoldFunctionOnSet, MapThenFoldSet
<1>2. PICK table \in [SUBSET S -> Int] : IsSumTable(table, f, S)
  BY SumTableExists
<1>3. table = [T \in SUBSET S |->
                 IF T = {} THEN 0
                 ELSE f[CHOOSE x \in T : TRUE] + table[T \ {CHOOSE x \in T : TRUE}]]
  BY <1>2 DEF IsSumTable, SumStep, Chosen
<1>4. it = [T \in SUBSET S |->
              IF T = {} THEN 0
              ELSE f[CHOOSE x \in T : TRUE] + it[T \ {CHOOSE x \in T : TRUE}]]
  BY <1>3
<1>5. IsSumTable(it, f, S)
  BY <1>4 DEF IsSumTable, SumStep, Chosen
<1> HIDE DEF it
<1>6. it[S] = table[S]
  BY <1>2, <1>5, SumTablesAgree
<1>7. QED BY <1>1, <1>2, <1>6

(* A sum without terms is 0, and another one is a chosen term and the sum  *)
(* of the rest.                                                            *)
LEMMA SumOfChosen ==
  ASSUME NEW S, IsFiniteSet(S), NEW f, \A x \in S : f[x] \in Int
  PROVE  /\ SumFunctionOnSet(f, S) \in Int
         /\ SumFunctionOnSet(f, S) =
              IF S = {} THEN 0 ELSE f[Chosen(S)] + SumFunctionOnSet(f, S \ {Chosen(S)})
<1>1. PICK it \in [SUBSET S -> Int] : IsSumTable(it, f, S) /\ SumFunctionOnSet(f, S) = it[S]
  BY SumIsInTable
<1>2. it[S] = SumStep(it, f, S)
  BY <1>1 DEF IsSumTable
<1>3. CASE S = {}
  BY <1>1, <1>2, <1>3 DEF SumStep
<1>4. CASE S # {}
  <2> DEFINE R == S \ {Chosen(S)}
  <2>1. R \in SUBSET S /\ IsFiniteSet(R) /\ \A x \in R : f[x] \in Int
    BY FS_Subset
  <2>2. PICK less \in [SUBSET R -> Int] : IsSumTable(less, f, R) /\ SumFunctionOnSet(f, R) = less[R]
    <3> HIDE DEF R
    <3>1. QED BY <2>1, SumIsInTable
  <2>3. it[R] = less[R]
    BY <1>1, <2>1, <2>2, SumTablesAgree
  <2>4. QED BY <1>1, <1>2, <1>4, <2>2, <2>3 DEF SumStep
<1>5. QED BY <1>3, <1>4

(* Any term can be taken out of a sum.                                     *)
LEMMA SumWithout ==
  ASSUME NEW S, IsFiniteSet(S), NEW f, \A x \in S : f[x] \in Int, NEW x \in S
  PROVE  SumFunctionOnSet(f, S) = f[x] + SumFunctionOnSet(f, S \ {x})
<1> DEFINE Good == {T \in SUBSET S : \A y \in T :
                      SumFunctionOnSet(f, T) = f[y] + SumFunctionOnSet(f, T \ {y})}
<1>1. ASSUME NEW T \in SUBSET S, \A V \in SUBSET T : V # T => V \in Good PROVE T \in Good
  <2> SUFFICES ASSUME NEW y \in T
               PROVE  SumFunctionOnSet(f, T) = f[y] + SumFunctionOnSet(f, T \ {y})
    OBVIOUS
  <2> DEFINE c == Chosen(T)
  <2>1. c \in T
    BY DEF Chosen
  <2>2. \A V \in SUBSET S : IsFiniteSet(V) /\ \A z \in V : f[z] \in Int
    BY FS_Subset
  <2>3. \A V \in SUBSET S : SumFunctionOnSet(f, V) \in Int
    BY <2>2, SumOfChosen
  <2>4. SumFunctionOnSet(f, T) = f[c] + SumFunctionOnSet(f, T \ {c})
    BY <2>1, <2>2, SumOfChosen
  <2> HIDE DEF c
  <2>5. CASE y = c
    BY <2>4, <2>5
  <2>6. CASE y # c
    <3>1. T \ {c} \in Good /\ y \in T \ {c} /\ T \ {y} \in Good /\ c \in T \ {y}
      BY <1>1, <2>1, <2>6
    <3>2. SumFunctionOnSet(f, T \ {c}) = f[y] + SumFunctionOnSet(f, (T \ {c}) \ {y})
      BY <3>1
    <3>3. SumFunctionOnSet(f, T \ {y}) = f[c] + SumFunctionOnSet(f, (T \ {y}) \ {c})
      BY <3>1
    <3>4. (T \ {c}) \ {y} = (T \ {y}) \ {c} /\ (T \ {c}) \ {y} \in SUBSET S
      OBVIOUS
    <3>5. f[c] \in Int /\ f[y] \in Int /\ SumFunctionOnSet(f, (T \ {c}) \ {y}) \in Int
      BY <2>1, <2>3, <3>4
    <3> DEFINE rest == SumFunctionOnSet(f, (T \ {c}) \ {y})
    <3>6. SumFunctionOnSet(f, (T \ {y}) \ {c}) = rest
      BY <3>4
    <3>7. SumFunctionOnSet(f, T) = f[c] + (f[y] + rest)
      BY <2>4, <3>2
    <3>8. SumFunctionOnSet(f, T \ {y}) = f[c] + rest
      BY <3>3, <3>6
    <3>9. rest \in Int
      BY <3>5
    <3> HIDE DEF rest
    <3>10. QED BY <3>5, <3>7, <3>8, <3>9
  <2>7. QED BY <2>5, <2>6
<1>2. S \in Good
  <2> HIDE DEF Good
  <2>1. QED BY <1>1, FiniteSubsetsInduction
<1>3. QED BY <1>2

(* A sum of terms that are no greater is no greater.                       *)
LEMMA SumIsMonotonic ==
  ASSUME NEW S, IsFiniteSet(S), NEW f, NEW g,
         \A x \in S : f[x] \in Int /\ g[x] \in Int /\ f[x] <= g[x]
  PROVE  SumFunctionOnSet(f, S) <= SumFunctionOnSet(g, S)
<1> DEFINE Good == {T \in SUBSET S : SumFunctionOnSet(f, T) <= SumFunctionOnSet(g, T)}
<1>1. ASSUME NEW T \in SUBSET S, \A V \in SUBSET T : V # T => V \in Good PROVE T \in Good
  <2> DEFINE c == Chosen(T)
             R == T \ {c}
  <2>1. IsFiniteSet(T) /\ (\A z \in T : f[z] \in Int) /\ (\A z \in T : g[z] \in Int)
    BY FS_Subset
  <2>2. CASE T = {}
    <3>1. SumFunctionOnSet(f, T) = 0 /\ SumFunctionOnSet(g, T) = 0
      BY <2>1, <2>2, SumOfChosen
    <3>2. QED BY <3>1
  <2>3. CASE T # {}
    <3>1. c \in T /\ R \in SUBSET S /\ R \in SUBSET T /\ R # T
      BY <2>3 DEF Chosen
    <3>2. IsFiniteSet(R) /\ (\A z \in R : f[z] \in Int) /\ (\A z \in R : g[z] \in Int)
      BY <2>1, FS_Subset
    <3>3. SumFunctionOnSet(f, R) \in Int /\ SumFunctionOnSet(g, R) \in Int
      BY <3>2, SumOfChosen
    <3>4. SumFunctionOnSet(f, T) = f[c] + SumFunctionOnSet(f, R)
      BY <2>1, <2>3, SumOfChosen
    <3>5. SumFunctionOnSet(g, T) = g[c] + SumFunctionOnSet(g, R)
      BY <2>1, <2>3, SumOfChosen
    <3>6. SumFunctionOnSet(f, R) <= SumFunctionOnSet(g, R)
      BY <1>1, <3>1
    <3> HIDE DEF c, R
    <3>7. f[c] \in Int /\ g[c] \in Int /\ f[c] <= g[c]
      BY <3>1
    <3>8. QED BY <3>3, <3>4, <3>5, <3>6, <3>7
  <2>4. QED BY <2>2, <2>3
<1>2. S \in Good
  <2> HIDE DEF Good
  <2>1. QED BY <1>1, FiniteSubsetsInduction
<1>3. QED BY <1>2

-----------------------------------------------------------------------------
(***************************************************************************)
(* Games and their payoffs.                                                *)
(***************************************************************************)

(* Max of a finite set of integers that is not empty.                      *)
LEMMA MaxOfSet ==
  ASSUME NEW S, IsFiniteSet(S), S \subseteq Int, S # {}
  PROVE  Max(S) \in S /\ \A x \in S : x <= Max(S)
<1>1. PICK g \in S : \A x \in S : x <= g
  BY FiniteSetHasGreatest
<1>2. \E x \in S : \A y \in S : x >= y
  BY <1>1
<1>3. QED BY <1>2 DEF Max

(* The values of a function on a finite set are finitely many.             *)
LEMMA FiniteRange ==
  ASSUME NEW S, IsFiniteSet(S), NEW f
  PROVE  IsFiniteSet({f[x] : x \in S})
<1> DEFINE R == {f[x] : x \in S}
           h == [x \in S |-> f[x]]
<1>1. h \in Surjection(S, R)
  BY DEF Surjection
<1>2. QED BY <1>1, FS_Surjection

(* A policy takes a joint action at every joint type.                      *)
LEMMA PolicyActs ==
  ASSUME NEW pi \in GamePolicies, NEW jt \in JointTypes
  PROVE  /\ \A ag \in Agents : <<ag, jt[ag]>> \in AgentTypes
         /\ ActionsOf(pi, jt) \in JointActions
<1>1. ASSUME NEW ag \in Agents PROVE <<ag, jt[ag]>> \in AgentTypes
  BY DEF JointTypes, AgentTypes
<1>2. ASSUME NEW ag \in Agents PROVE pi[<<ag, jt[ag]>>] \in Actions
  BY <1>1 DEF GamePolicies
<1>3. QED BY <1>1, <1>2 DEF ActionsOf, JointActions

(* The contributions of the joint types to the payoff of a policy.         *)
Contributions(bg, pi) == [jt \in JointTypes |-> bg.contribution[jt][ActionsOf(pi, jt)]]

(* What complete information would give.                                   *)
CompleteInformation(bg) == [jt \in JointTypes |-> Max({bg.contribution[jt][ja] : ja \in JointActions})]

(* Sums of the same terms.                                                 *)
LEMMA SumsOfEqualTerms ==
  ASSUME NEW S, IsFiniteSet(S), NEW f, NEW g,
         \A x \in S : f[x] \in Int /\ g[x] = f[x]
  PROVE  SumFunctionOnSet(f, S) = SumFunctionOnSet(g, S)
<1>1. (\A x \in S : f[x] \in Int) /\ (\A x \in S : g[x] \in Int)
  OBVIOUS
<1>2. SumFunctionOnSet(f, S) \in Int /\ SumFunctionOnSet(g, S) \in Int
  BY <1>1, SumOfChosen
<1>3. \A x \in S : f[x] \in Int /\ g[x] \in Int /\ f[x] <= g[x] /\ g[x] <= f[x]
  OBVIOUS
<1>4. SumFunctionOnSet(f, S) <= SumFunctionOnSet(g, S)
  BY <1>3, SumIsMonotonic
<1>5. SumFunctionOnSet(g, S) <= SumFunctionOnSet(f, S)
  BY <1>3, SumIsMonotonic
<1>6. QED BY <1>2, <1>4, <1>5

(* Contributions are numbers, and complete information is worth no less.   *)
LEMMA ContributionsAreNumbers ==
  ASSUME NEW bg \in Games, NEW jt \in JointTypes, NEW As \in SUBSET JointActions, As # {}
  PROVE  /\ \A ja \in As : bg.contribution[jt][ja] \in Int
         /\ Max({bg.contribution[jt][ja] : ja \in As}) \in Int
         /\ \A ja \in As : bg.contribution[jt][ja] <= Max({bg.contribution[jt][jb] : jb \in As})
         /\ \E ja \in As : Max({bg.contribution[jt][jb] : jb \in As}) = bg.contribution[jt][ja]
<1> DEFINE S == {bg.contribution[jt][ja] : ja \in As}
<1>1. \A ja \in As : bg.contribution[jt][ja] \in Int
  BY GamesAssumption
<1>2. IsFiniteSet(As)
  BY SizesAssumption, FS_Subset
<1>3. IsFiniteSet(S)
  BY <1>2, FiniteRange
<1>4. S \subseteq Int /\ S # {}
  BY <1>1
<1>5. Max(S) \in S /\ \A x \in S : x <= Max(S)
  <2> HIDE DEF S
  <2>1. QED BY <1>3, <1>4, MaxOfSet
<1>6. QED BY <1>1, <1>4, <1>5

(* There are joint actions.                                                *)
LEMMA JointActionsExist == JointActions # {}
<1>1. PICK a \in Actions : TRUE
  BY SizesAssumption
<1>2. [ag \in Agents |-> a] \in JointActions
  BY DEF JointActions
<1>3. QED BY <1>2

LEMMA ContributionOfPolicy ==
  ASSUME NEW bg \in Games, NEW pi \in GamePolicies, NEW jt \in JointTypes
  PROVE  /\ Contributions(bg, pi)[jt] \in Int
         /\ CompleteInformation(bg)[jt] \in Int
         /\ Contributions(bg, pi)[jt] <= CompleteInformation(bg)[jt]
BY PolicyActs, JointActionsExist, ContributionsAreNumbers DEF Contributions, CompleteInformation

(* The payoff of a policy sums its contributions.                          *)
LEMMA PayoffIsSum ==
  ASSUME NEW bg \in Games, NEW pi \in GamePolicies
  PROVE  /\ GamePayoff[bg][pi] = SumFunctionOnSet(Contributions(bg, pi), JointTypes)
         /\ GamePayoff[bg][pi] \in Int
<1>1. GamePayoff[bg][pi] = SumFunction(Contributions(bg, pi))
  BY DEF GamePayoff, Contributions
<1>2. DOMAIN Contributions(bg, pi) = JointTypes
  BY DEF Contributions
<1>3. SumFunctionOnSet(Contributions(bg, pi), JointTypes) \in Int
  BY SizesAssumption, ContributionOfPolicy, SumOfChosen
<1>4. QED BY <1>1, <1>2, <1>3 DEF SumFunction

-----------------------------------------------------------------------------
(***************************************************************************)
(* The order of joint types.                                               *)
(***************************************************************************)
NrJointTypes == Cardinality(JointTypes)

(* The number of a useful position among the useful ones.                  *)
RankOf(i) == Cardinality({j \in UsefulPositions : j <= i})

PositionAt(d) == CHOOSE i \in UsefulPositions : RankOf(i) = d

(* The ordering lists every joint type once.                               *)
LEMMA OrderingIsBijection ==
  ASSUME game \in Games
  PROVE  /\ NrJointTypes \in Nat
         /\ DOMAIN game.ordering = 1..NrJointTypes
         /\ \A i \in 1..NrJointTypes : game.ordering[i] \in JointTypes
         /\ \A jt \in JointTypes : \E i \in 1..NrJointTypes : game.ordering[i] = jt
         /\ \A i, j \in 1..NrJointTypes : game.ordering[i] = game.ordering[j] => i = j
<1>1. NrJointTypes \in Nat
  BY SizesAssumption, FS_CardinalityType DEF NrJointTypes
<1>2. /\ game.ordering \in [1..NrJointTypes -> JointTypes]
      /\ {game.ordering[i] : i \in DOMAIN game.ordering} = JointTypes
  BY GamesAssumption DEF NrJointTypes
<1>3. game.ordering \in Surjection(1..NrJointTypes, JointTypes)
  BY <1>2 DEF Surjection
<1>4. IsFiniteSet(1..NrJointTypes) /\ Cardinality(1..NrJointTypes) = Cardinality(JointTypes)
  BY <1>1, FS_Interval DEF NrJointTypes
<1>5. game.ordering \in Injection(1..NrJointTypes, JointTypes)
  BY <1>3, <1>4, FS_SurjSameCardinalityImpliesInj
<1>6. QED BY <1>1, <1>2, <1>5 DEF Injection, IsInjective

(* Ranks number the useful positions from 1 to MaxDepth.                   *)
LEMMA RanksOfUsefulPositions ==
  ASSUME game \in Games
  PROVE  /\ MaxDepth \in 0..NrJointTypes
         /\ UsefulPositions \subseteq 1..NrJointTypes
         /\ \A i \in UsefulPositions : RankOf(i) \in 1..MaxDepth
         /\ \A i, j \in UsefulPositions : RankOf(i) = RankOf(j) => i = j
         /\ \A d \in 1..MaxDepth : \E i \in UsefulPositions : RankOf(i) = d
<1>1. UsefulPositions \subseteq 1..NrJointTypes /\ NrJointTypes \in Nat
  BY OrderingIsBijection DEF UsefulPositions
<1>2. IsFiniteSet(1..NrJointTypes) /\ Cardinality(1..NrJointTypes) = NrJointTypes
  BY <1>1, FS_Interval
<1>3. IsFiniteSet(UsefulPositions) /\ MaxDepth \in 0..NrJointTypes /\ MaxDepth \in Int
  <2>1. IsFiniteSet(UsefulPositions) /\ MaxDepth <= NrJointTypes
    BY <1>1, <1>2, FS_Subset DEF MaxDepth
  <2>2. MaxDepth \in Nat
    BY <2>1, FS_CardinalityType DEF MaxDepth
  <2>3. QED BY <1>1, <2>1, <2>2
<1> DEFINE Upto(i) == {j \in UsefulPositions : j <= i}
<1>4. ASSUME NEW i \in UsefulPositions
      PROVE  /\ IsFiniteSet(Upto(i)) /\ RankOf(i) = Cardinality(Upto(i))
             /\ RankOf(i) \in 1..MaxDepth /\ RankOf(i) \in Int
  <2>1. Upto(i) \in SUBSET UsefulPositions /\ i \in Upto(i)
    BY <1>1
  <2>2. IsFiniteSet(Upto(i)) /\ Cardinality(Upto(i)) <= MaxDepth
    BY <1>3, <2>1, FS_Subset DEF MaxDepth
  <2>3. Cardinality(Upto(i)) \in Nat /\ Cardinality(Upto(i)) # 0
    BY <2>1, <2>2, FS_CardinalityType, FS_EmptySet
  <2>4. QED BY <1>3, <2>2, <2>3 DEF RankOf
<1>5. ASSUME NEW i \in UsefulPositions, NEW j \in UsefulPositions, i < j PROVE RankOf(i) < RankOf(j)
  <2>0. UsefulPositions \subseteq Int /\ i \in Int /\ j \in Int
    BY <1>1
  <2>1. Upto(i) \subseteq Upto(j) /\ j \in Upto(j) /\ j \notin Upto(i)
    <3>1. \A x \in UsefulPositions : x <= i => x <= j
      BY <2>0, <1>5
    <3>2. j <= j /\ ~(j <= i)
      BY <2>0, <1>5
    <3>3. QED BY <3>1, <3>2
  <2>2. Cardinality(Upto(i)) <= Cardinality(Upto(j)) /\ Cardinality(Upto(i)) # Cardinality(Upto(j))
    <3>1. IsFiniteSet(Upto(j))
      BY <1>4
    <3>2. Upto(i) # Upto(j)
      BY <2>1
    <3> HIDE DEF Upto
    <3>3. QED BY <2>1, <3>1, <3>2, FS_Subset
  <2>3. RankOf(i) = Cardinality(Upto(i)) /\ RankOf(j) = Cardinality(Upto(j))
    BY <1>4
  <2> HIDE DEF Upto
  <2>4. RankOf(i) \in Int /\ RankOf(j) \in Int
    BY <1>4
  <2>5. QED BY <2>2, <2>3, <2>4
<1>6. \A i, j \in UsefulPositions : RankOf(i) = RankOf(j) => i = j
  <2>1. SUFFICES ASSUME NEW i \in UsefulPositions, NEW j \in UsefulPositions, RankOf(i) = RankOf(j), i # j PROVE FALSE
    OBVIOUS
  <2> HIDE DEF Upto
  <2>2. i \in Int /\ j \in Int /\ RankOf(i) \in Int /\ RankOf(j) \in Int
    BY <1>1, <1>4
  <2>3. i < j \/ j < i
    BY <2>1, <2>2
  <2>4. QED BY <1>5, <2>1, <2>2, <2>3
<1> DEFINE rank == [i \in UsefulPositions |-> RankOf(i)]
<1>7. rank \in Injection(UsefulPositions, 1..MaxDepth)
  BY <1>4, <1>6 DEF Injection, IsInjective
<1>8. rank \in Surjection(UsefulPositions, 1..MaxDepth)
  <2>1. IsFiniteSet(1..MaxDepth) /\ Cardinality(1..MaxDepth) = MaxDepth
    BY <1>3, FS_Interval
  <2>2. Cardinality(UsefulPositions) = MaxDepth
    BY DEF MaxDepth
  <2> HIDE DEF rank
  <2>3. QED BY <1>7, <2>1, <2>2, FS_Injection
<1>9. \A d \in 1..MaxDepth : \E i \in UsefulPositions : RankOf(i) = d
  BY <1>8 DEF Surjection
<1>10. QED BY <1>1, <1>3, <1>4, <1>6, <1>9

(* The joint type of a depth is the one at a useful position.              *)
LEMMA JointTypeOfDepth ==
  ASSUME game \in Games, NEW d \in 1..MaxDepth
  PROVE  /\ PositionAt(d) \in UsefulPositions
         /\ RankOf(PositionAt(d)) = d
         /\ JointTypeAt(d) = game.ordering[PositionAt(d)]
         /\ JointTypeAt(d) \in JointTypes
<1>1. PositionAt(d) \in UsefulPositions /\ RankOf(PositionAt(d)) = d
  BY RanksOfUsefulPositions DEF PositionAt
<1>2. JointTypeAt(d) = game.ordering[PositionAt(d)]
  BY DEF JointTypeAt, PositionAt, RankOf
<1>3. JointTypeAt(d) \in JointTypes
  BY <1>1, <1>2, RanksOfUsefulPositions, OrderingIsBijection
<1>4. QED BY <1>1, <1>2, <1>3

(* Every depth specifies another joint type.                               *)
LEMMA JointTypesDiffer ==
  ASSUME game \in Games, NEW d \in 1..MaxDepth, NEW e \in 1..MaxDepth,
         JointTypeAt(d) = JointTypeAt(e)
  PROVE  d = e
<1>1. PositionAt(d) \in 1..NrJointTypes /\ PositionAt(e) \in 1..NrJointTypes
  BY JointTypeOfDepth, RanksOfUsefulPositions
<1>2. PositionAt(d) = PositionAt(e)
  BY <1>1, JointTypeOfDepth, OrderingIsBijection
<1>3. QED BY <1>2, JointTypeOfDepth

(* What remains after a depth.                                             *)
LEMMA RemainingJointTypes ==
  ASSUME game \in Games, NEW d \in 0..MaxDepth
  PROVE  /\ Remaining(d) \subseteq JointTypes
         /\ IsFiniteSet(Remaining(d))
         /\ Remaining(0) = JointTypes
         /\ d < MaxDepth =>
              /\ JointTypeAt(d + 1) \in Remaining(d)
              /\ Remaining(d + 1) = Remaining(d) \ {JointTypeAt(d + 1)}
<1>1. Remaining(d) \subseteq JointTypes /\ IsFiniteSet(Remaining(d))
  BY SizesAssumption, FS_Subset DEF Remaining
<1>2. Remaining(0) = JointTypes
  BY DEF Remaining
<1>3. ASSUME d < MaxDepth
      PROVE  /\ JointTypeAt(d + 1) \in Remaining(d)
             /\ Remaining(d + 1) = Remaining(d) \ {JointTypeAt(d + 1)}
  <2>1. MaxDepth \in Nat
    BY RanksOfUsefulPositions, OrderingIsBijection
  <2>2. d + 1 \in 1..MaxDepth /\ d \in Nat
    BY <1>3, <2>1
  <2>3. JointTypeAt(d + 1) \in JointTypes
    BY <2>2, JointTypeOfDepth
  <2>4. \A e \in 1..d : JointTypeAt(e) # JointTypeAt(d + 1)
    <3>1. SUFFICES ASSUME NEW e \in 1..d, JointTypeAt(e) = JointTypeAt(d + 1) PROVE FALSE
      OBVIOUS
    <3>2. e \in 1..MaxDepth /\ e # d + 1
      BY <2>1, <2>2, <1>3
    <3>3. QED BY <2>2, <3>1, <3>2, JointTypesDiffer
  <2>5. 1..(d + 1) = (1..d) \cup {d + 1}
    BY <2>2
  <2>6. QED BY <2>3, <2>4, <2>5 DEF Remaining
<1>4. QED BY <1>1, <1>2, <1>3

(* The useful joint types show every type of every agent.                  *)
LEMMA UsefulTypesShowEveryType ==
  ASSUME game \in Games, NEW ag \in Agents, NEW ty \in Types[ag]
  PROVE  \E d \in 1..MaxDepth : JointTypeAt(d)[ag] = ty
<1> DEFINE Occurs == {i \in 1..NrJointTypes : game.ordering[i][ag] = ty}
           Minus == {0 - i : i \in Occurs}
<1>1. Occurs # {}
  <2> DEFINE jt == [b \in Agents |-> IF b = ag THEN ty ELSE CHOOSE t \in Types[b] : TRUE]
  <2>1. \A b \in Agents : jt[b] \in Types[b]
    BY SizesAssumption
  <2>2. jt \in JointTypes
    BY <2>1 DEF JointTypes
  <2>3. jt[ag] = ty
    OBVIOUS
  <2> HIDE DEF jt
  <2>4. QED BY <2>2, <2>3, OrderingIsBijection
<1>2. PICK i \in Occurs : \A j \in Occurs : i <= j
  <2>1. NrJointTypes \in Nat
    BY OrderingIsBijection
  <2>2. IsFiniteSet(Occurs)
    <3>1. IsFiniteSet(1..NrJointTypes) /\ Occurs \in SUBSET (1..NrJointTypes)
      BY <2>1, FS_Interval
    <3>2. QED BY <3>1, FS_Subset
  <2> DEFINE minus == [j \in Occurs |-> 0 - j]
  <2>3. IsFiniteSet({minus[j] : j \in Occurs})
    <3> HIDE DEF Occurs, minus
    <3>1. QED BY <2>2, FiniteRange
  <2>4. {minus[j] : j \in Occurs} = Minus
    OBVIOUS
  <2>5. Minus \subseteq Int /\ Minus # {}
    BY <1>1, <2>1
  <2>6. PICK g \in Minus : \A x \in Minus : x <= g
    <3> HIDE DEF Minus
    <3>1. QED BY <2>3, <2>4, <2>5, FiniteSetHasGreatest
  <2>7. PICK i \in Occurs : g = 0 - i
    BY <2>6
  <2>8. \A j \in Occurs : 0 - j <= 0 - i
    BY <2>6, <2>7
  <2>9. QED BY <2>1, <2>8
<1>3. \A j \in 1..i-1 : game.ordering[j][ag] # game.ordering[i][ag]
  BY <1>2, OrderingIsBijection
<1>4. i \in UsefulPositions
  BY <1>2, <1>3, OrderingIsBijection DEF UsefulPositions, IsUseful
<1>5. RankOf(i) \in 1..MaxDepth
  BY <1>4, RanksOfUsefulPositions
<1>6. PositionAt(RankOf(i)) = i
  BY <1>4, <1>5, JointTypeOfDepth, RanksOfUsefulPositions
<1>7. JointTypeAt(RankOf(i)) = game.ordering[i]
  BY <1>5, <1>6, JointTypeOfDepth
<1>8. QED BY <1>2, <1>5, <1>7

-----------------------------------------------------------------------------
(***************************************************************************)
(* Nodes of the search tree.                                               *)
(***************************************************************************)
(* The types of agents that the first d joint types show. *)
Specified(d) == UNION {{<<ag, JointTypeAt(e)[ag]>> : ag \in Agents} : e \in 1..d}

(* The payoff that the joint types after depth d contribute. *)
Rest(pi, d) == SumFunctionOnSet(Contributions(game, pi), Remaining(d))

OptimisticRest(d) == SumFunctionOnSet(CompleteInformation(game), Remaining(d))

IsPartial(n) ==
  /\ n \in Nodes
  /\ n.depth \in 0..MaxDepth
  /\ DOMAIN n.pol = Specified(n.depth)

(* G is what the specified joint types contribute, H bounds the rest.      *)
GIsExact(n) == \A pi \in Completions(n) : n.g + Rest(pi, n.depth) = ValueOf(pi)

HIsOptimistic(n) == \A pi \in Completions(n) : Rest(pi, n.depth) <= n.h

(* H of a complete node is exact when it is computed again.                *)
HIsTight(n) ==
  game.reComputeH /\ n.depth = MaxDepth => \A pi \in Completions(n) : n.h <= Rest(pi, n.depth)

(* When it is not, F is no more than it is at the root.                    *)
HIsSubtracted(n) ==
  ~game.reComputeH => n.h = OptimisticRest(n.depth) /\ F(n) <= OptimisticRest(0)

NodeInv(n) ==
  IsPartial(n) /\ GIsExact(n) /\ HIsOptimistic(n) /\ HIsTight(n) /\ HIsSubtracted(n)

(* The sums of a node are numbers, and the optimistic one is no less.      *)
LEMMA RestsAreNumbers ==
  ASSUME game \in Games, NEW d \in 0..MaxDepth
  PROVE  /\ OptimisticRest(d) \in Int
         /\ \A pi \in GamePolicies :
              Rest(pi, d) \in Int /\ Rest(pi, d) <= OptimisticRest(d)
<1>1. Remaining(d) \subseteq JointTypes /\ IsFiniteSet(Remaining(d))
  BY RemainingJointTypes
<1>2. ASSUME NEW jt \in Remaining(d)
      PROVE  /\ CompleteInformation(game)[jt] \in Int
             /\ \A pi \in GamePolicies :
                  /\ Contributions(game, pi)[jt] \in Int
                  /\ Contributions(game, pi)[jt] <= CompleteInformation(game)[jt]
  <2>1. jt \in JointTypes
    BY <1>1
  <2>2. \E ja \in JointActions : TRUE
    BY JointActionsExist
  <2>3. CompleteInformation(game)[jt] \in Int
    BY <2>1, JointActionsExist, ContributionsAreNumbers DEF CompleteInformation
  <2>4. QED BY <2>1, <2>3, ContributionOfPolicy
<1>3. OptimisticRest(d) \in Int
  BY <1>1, <1>2, SumOfChosen DEF OptimisticRest
<1>4. ASSUME NEW pi \in GamePolicies
      PROVE  Rest(pi, d) \in Int /\ Rest(pi, d) <= OptimisticRest(d)
  <2>1. \A jt \in Remaining(d) :
          /\ Contributions(game, pi)[jt] \in Int /\ CompleteInformation(game)[jt] \in Int
          /\ Contributions(game, pi)[jt] <= CompleteInformation(game)[jt]
    BY <1>2
  <2>2. Rest(pi, d) \in Int
    BY <1>1, <2>1, SumOfChosen DEF Rest
  <2>3. Rest(pi, d) <= OptimisticRest(d)
    BY <1>1, <2>1, SumIsMonotonic DEF Rest, OptimisticRest
  <2>4. QED BY <2>2, <2>3
<1>5. QED BY <1>3, <1>4

(* One more joint type leaves that much less.                              *)
LEMMA RestAfterNext ==
  ASSUME game \in Games, NEW d \in 0..MaxDepth, d < MaxDepth
  PROVE  LET jt == JointTypeAt(d + 1)
         IN /\ OptimisticRest(d) = CompleteInformation(game)[jt] + OptimisticRest(d + 1)
            /\ \A pi \in GamePolicies :
                 Rest(pi, d) = Contributions(game, pi)[jt] + Rest(pi, d + 1)
<1> DEFINE jt == JointTypeAt(d + 1)
<1>1. /\ Remaining(d) \subseteq JointTypes /\ IsFiniteSet(Remaining(d))
      /\ jt \in Remaining(d) /\ Remaining(d + 1) = Remaining(d) \ {jt}
  BY RemainingJointTypes
<1>2. \A x \in Remaining(d) : CompleteInformation(game)[x] \in Int
  BY <1>1, JointActionsExist, ContributionsAreNumbers DEF CompleteInformation
<1>3. OptimisticRest(d) = CompleteInformation(game)[jt] + OptimisticRest(d + 1)
  <2> HIDE DEF jt
  <2>1. QED BY <1>1, <1>2, SumWithout DEF OptimisticRest
<1>4. ASSUME NEW pi \in GamePolicies
      PROVE  Rest(pi, d) = Contributions(game, pi)[jt] + Rest(pi, d + 1)
  <2>1. \A x \in Remaining(d) : Contributions(game, pi)[x] \in Int
    BY <1>1, ContributionOfPolicy
  <2> HIDE DEF jt
  <2>2. QED BY <1>1, <2>1, SumWithout DEF Rest
<1>5. QED BY <1>3, <1>4

(* A node specifies types of agents.                                       *)
LEMMA SpecifiedAreTypes ==
  ASSUME game \in Games, NEW d \in 0..MaxDepth
  PROVE  Specified(d) \subseteq AgentTypes
<1>1. ASSUME NEW e \in 1..d, NEW ag \in Agents PROVE <<ag, JointTypeAt(e)[ag]>> \in AgentTypes
  <2>1. e \in 1..MaxDepth
    BY RanksOfUsefulPositions, OrderingIsBijection
  <2>2. JointTypeAt(e) \in JointTypes
    BY <2>1, JointTypeOfDepth
  <2>3. QED BY <2>2 DEF JointTypes, AgentTypes
<1>2. QED BY <1>1 DEF Specified

(* A node of the last depth is a policy, and leads to nothing else.        *)
LEMMA CompleteNode ==
  ASSUME game \in Games, NEW n, IsPartial(n), n.depth = MaxDepth
  PROVE  n.pol \in GamePolicies /\ Completions(n) = {n.pol}
<1>1. ASSUME NEW x \in AgentTypes PROVE x \in Specified(MaxDepth)
  <2>1. PICK ag \in Agents : x \in {ag} \X Types[ag]
    BY DEF AgentTypes
  <2>2. PICK ty \in Types[ag] : x = <<ag, ty>>
    BY <2>1
  <2>3. PICK d \in 1..MaxDepth : JointTypeAt(d)[ag] = ty
    BY UsefulTypesShowEveryType
  <2>4. QED BY <2>2, <2>3 DEF Specified
<1>2. DOMAIN n.pol = AgentTypes
  BY <1>1, SpecifiedAreTypes DEF IsPartial
<1>3. PICK s \in SUBSET AgentTypes : n.pol \in [s -> Actions]
  BY DEF IsPartial, Nodes, PartialPolicies
<1>4. n.pol \in GamePolicies
  BY <1>2, <1>3 DEF GamePolicies
<1>5. ASSUME NEW pi \in Completions(n) PROVE pi = n.pol
  <2>1. pi \in [AgentTypes -> Actions] /\ n.pol \in [AgentTypes -> Actions]
    BY <1>4 DEF Completions, GamePolicies
  <2>2. \A x \in AgentTypes : pi[x] = n.pol[x]
    BY <1>2 DEF Completions
  <2>3. QED BY <2>1, <2>2
<1>6. n.pol \in Completions(n)
  BY <1>4 DEF Completions
<1>7. QED BY <1>4, <1>5, <1>6

(* F never underestimates what a node leads to.                            *)
LEMMA FBoundsValues ==
  ASSUME game \in Games, NEW n, NodeInv(n), NEW pi \in Completions(n)
  PROVE  ValueOf(pi) <= F(n) /\ ValueOf(pi) \in Int /\ F(n) \in Int
<1>1. pi \in GamePolicies
  BY DEF Completions
<1>2. ValueOf(pi) \in Int
  BY <1>1, PayoffIsSum DEF ValueOf
<1>3. Rest(pi, n.depth) \in Int
  BY <1>1, RestsAreNumbers DEF NodeInv, IsPartial
<1>4. n.g \in Int /\ n.h \in Int
  BY DEF NodeInv, IsPartial, Nodes
<1>5. n.g + Rest(pi, n.depth) = ValueOf(pi) /\ Rest(pi, n.depth) <= n.h
  BY DEF NodeInv, GIsExact, HIsOptimistic
<1>6. QED BY <1>2, <1>3, <1>4, <1>5 DEF F

(* F of a complete node is its value when H is computed again.             *)
LEMMA FOfCompleteNode ==
  ASSUME game \in Games, NEW n, NodeInv(n), n.depth = MaxDepth, game.reComputeH
  PROVE  F(n) = ValueOf(n.pol)
<1>1. n.pol \in GamePolicies /\ n.pol \in Completions(n)
  BY CompleteNode DEF NodeInv
<1>2. n.g + Rest(n.pol, n.depth) = ValueOf(n.pol) /\ Rest(n.pol, n.depth) <= n.h
      /\ n.h <= Rest(n.pol, n.depth)
  BY <1>1 DEF NodeInv, GIsExact, HIsOptimistic, HIsTight
<1>3. Rest(n.pol, n.depth) \in Int /\ n.g \in Int /\ n.h \in Int
  BY <1>1, RestsAreNumbers DEF NodeInv, IsPartial, Nodes
<1>4. QED BY <1>2, <1>3 DEF F

(* The joint action of a completion is among the valid ones.               *)
LEMMA CompletionsActValidly ==
  ASSUME NEW n, NEW pi \in Completions(n), NEW jt \in JointTypes
  PROVE  ActionsOf(pi, jt) \in ValidJointActions(n.pol, jt)
<1>1. pi \in GamePolicies /\ \A x \in DOMAIN n.pol : pi[x] = n.pol[x]
  BY DEF Completions
<1>2. ActionsOf(pi, jt) \in JointActions
  BY <1>1, PolicyActs
<1>3. \A ag \in Agents : ActionsOf(pi, jt)[ag] = pi[<<ag, jt[ag]>>]
  BY DEF ActionsOf
<1>4. QED BY <1>1, <1>2, <1>3 DEF ValidJointActions

(* There is something to decide.                                           *)
LEMMA DepthIsPositive ==
  ASSUME game \in Games
  PROVE  MaxDepth # 0 /\ MaxDepth \in Nat
<1>1. PICK ag \in Agents : TRUE
  BY SizesAssumption
<1>2. PICK ty \in Types[ag] : TRUE
  BY SizesAssumption
<1>3. PICK d \in 1..MaxDepth : TRUE
  BY <1>2, UsefulTypesShowEveryType
<1>4. MaxDepth \in Nat
  BY RanksOfUsefulPositions, OrderingIsBijection
<1>5. QED BY <1>3, <1>4

(* The root leads to all policies.                                         *)
LEMMA RootInv ==
  ASSUME game \in Games
  PROVE  NodeInv(Root) /\ Completions(Root) = GamePolicies
<1>1. /\ Root.depth = 0 /\ Root.g = 0 /\ DOMAIN Root.pol = {}
      /\ Root.h = SumFunction([jt \in JointTypes |-> CompleteInformationValue(jt)])
  BY DEF Root
<1>2. Completions(Root) = GamePolicies
  BY <1>1 DEF Completions
<1>3. 0 \in 0..MaxDepth /\ MaxDepth # 0
  BY DepthIsPositive
<1>4. Remaining(0) = JointTypes
  BY <1>3, RemainingJointTypes
<1>5. Root.h = OptimisticRest(0)
  <2>1. [jt \in JointTypes |-> CompleteInformationValue(jt)] = CompleteInformation(game)
    BY DEF CompleteInformationValue, CompleteInformation, GetContribution
  <2>2. DOMAIN CompleteInformation(game) = JointTypes
    BY DEF CompleteInformation
  <2>3. QED BY <1>1, <1>4, <2>1, <2>2 DEF SumFunction, OptimisticRest
<1>6. OptimisticRest(0) \in Int
  BY <1>3, RestsAreNumbers
<1>7. Root.pol \in PartialPolicies
  <2>1. Root.pol \in [{} -> Actions]
    BY DEF Root
  <2>2. {} \in SUBSET AgentTypes
    OBVIOUS
  <2>3. QED BY <2>1, <2>2 DEF PartialPolicies
<1>8. Root \in Nodes
  <2>1. 0 \in 0..Cardinality(JointTypes)
    BY OrderingIsBijection DEF NrJointTypes
  <2>2. Root = [depth |-> 0, pol |-> Root.pol, g |-> 0, h |-> Root.h]
    BY DEF Root
  <2>3. QED BY <1>5, <1>6, <1>7, <2>1, <2>2 DEF Nodes
<1>9. Specified(0) = {}
  BY DEF Specified
<1>10. IsPartial(Root)
  BY <1>1, <1>3, <1>8, <1>9 DEF IsPartial
<1>11. ASSUME NEW pi \in GamePolicies
       PROVE  0 + Rest(pi, 0) = ValueOf(pi) /\ Rest(pi, 0) <= Root.h
  <2>1. Rest(pi, 0) \in Int /\ Rest(pi, 0) <= OptimisticRest(0)
    BY <1>3, RestsAreNumbers
  <2>2. Rest(pi, 0) = ValueOf(pi)
    BY <1>4, PayoffIsSum DEF Rest, ValueOf
  <2>3. QED BY <1>5, <2>1, <2>2
<1>12. GIsExact(Root) /\ HIsOptimistic(Root)
  BY <1>1, <1>2, <1>11 DEF GIsExact, HIsOptimistic
<1>13. HIsTight(Root) /\ HIsSubtracted(Root)
  BY <1>1, <1>3, <1>5, <1>6 DEF HIsTight, HIsSubtracted, F
<1>14. QED BY <1>2, <1>10, <1>12, <1>13 DEF NodeInv

(* A node can be extended.                                                 *)
LEMMA ValidJointActionsExist ==
  ASSUME game \in Games, NEW pol \in PartialPolicies, NEW jt \in JointTypes
  PROVE  /\ ValidJointActions(pol, jt) # {}
         /\ ValidJointActions(pol, jt) \subseteq JointActions
<1>1. PICK s \in SUBSET AgentTypes : pol \in [s -> Actions]
  BY DEF PartialPolicies
<1>2. PICK a \in Actions : TRUE
  BY SizesAssumption
<1> DEFINE ja == [ag \in Agents |-> IF <<ag, jt[ag]>> \in DOMAIN pol THEN pol[<<ag, jt[ag]>>] ELSE a]
<1>3. \A ag \in Agents : ja[ag] \in Actions
  BY <1>1, <1>2
<1>4. ja \in JointActions
  BY <1>3 DEF JointActions
<1>5. ja \in ValidJointActions(pol, jt)
  BY <1>4 DEF ValidJointActions
<1>6. QED BY <1>5 DEF ValidJointActions

(* The completions of a child are those of its parent that take its joint  *)
(* action.                                                                 *)
LEMMA CompletionsOfExtension ==
  ASSUME game \in Games, NEW n, IsPartial(n), n.depth < MaxDepth,
         NEW ja \in ValidJointActions(n.pol, JointTypeAt(n.depth + 1))
  PROVE  LET jt == JointTypeAt(n.depth + 1)
         IN  /\ IsFiniteSet(JointTypes) /\ jt \in JointTypes
             /\ Extension(n, ja).pol \in PartialPolicies
             /\ DOMAIN Extension(n, ja).pol = Specified(n.depth + 1)
             /\ Completions(Extension(n, ja)) = {pi \in Completions(n) : ActionsOf(pi, jt) = ja}
<1> DEFINE d == n.depth + 1
           jt == JointTypeAt(d)
           pol == Specify(n.pol, jt, ja)
           shown == {<<ag, jt[ag]>> : ag \in Agents}
<1>1. n.depth \in Nat /\ d \in 1..MaxDepth /\ d \in 0..MaxDepth
  BY DepthIsPositive DEF IsPartial
<1>2. jt \in JointTypes
  BY <1>1, JointTypeOfDepth
<1>3. Extension(n, ja).pol = pol
  BY DEF Extension
<1>4. DOMAIN pol = DOMAIN n.pol \cup shown
  BY DEF Specify
<1>5. DOMAIN n.pol = Specified(n.depth)
  BY DEF IsPartial
<1>6. Specified(d) = Specified(n.depth) \cup shown
  <2>1. 1..d = (1..n.depth) \cup {d}
    BY <1>1
  <2>2. QED BY <2>1 DEF Specified
<1>7. DOMAIN pol = Specified(d) /\ DOMAIN pol \in SUBSET AgentTypes
  BY <1>1, <1>4, <1>5, <1>6, SpecifiedAreTypes
<1>8. /\ \A x \in DOMAIN n.pol : pol[x] = n.pol[x]
      /\ \A ag \in Agents : pol[<<ag, jt[ag]>>] = ja[ag]
  <2>1. \A x \in DOMAIN n.pol : pol[x] = n.pol[x]
    BY DEF Specify
  <2>2. ASSUME NEW ag \in Agents PROVE pol[<<ag, jt[ag]>>] = ja[ag]
    <3>1. CASE <<ag, jt[ag]>> \in DOMAIN n.pol
      BY <2>1, <3>1 DEF ValidJointActions
    <3>2. CASE <<ag, jt[ag]>> \notin DOMAIN n.pol
      <4>1. <<ag, jt[ag]>> \in shown /\ <<ag, jt[ag]>>[1] = ag
        OBVIOUS
      <4>2. QED BY <3>2, <4>1 DEF Specify
    <3>3. QED BY <3>1, <3>2
  <2>3. QED BY <2>1, <2>2
<1> HIDE DEF pol
<1>9. pol \in PartialPolicies
  <2>1. PICK s \in SUBSET AgentTypes : n.pol \in [s -> Actions]
    BY DEF IsPartial, Nodes, PartialPolicies
  <2>2. \A ag \in Agents : ja[ag] \in Actions
    BY DEF ValidJointActions, JointActions
  <2>3. ASSUME NEW x \in DOMAIN pol PROVE pol[x] \in Actions
    <3>1. CASE x \in DOMAIN n.pol
      BY <1>8, <2>1, <3>1
    <3>2. CASE x \in shown
      BY <1>8, <2>2, <3>2
    <3>3. QED BY <1>4, <3>1, <3>2
  <2>4. pol = [x \in DOMAIN pol |-> pol[x]]
    BY DEF pol, Specify
  <2>5. pol \in [DOMAIN pol -> Actions]
    BY <2>3, <2>4
  <2>6. QED BY <1>7, <2>5 DEF PartialPolicies
<1>10. ASSUME NEW pi \in GamePolicies
       PROVE  (\A x \in DOMAIN pol : pi[x] = pol[x]) <=>
                (\A x \in DOMAIN n.pol : pi[x] = n.pol[x]) /\ ActionsOf(pi, jt) = ja
  <2>1. ActionsOf(pi, jt) = ja <=> \A ag \in Agents : pi[<<ag, jt[ag]>>] = ja[ag]
    <3>1. ja = [ag \in Agents |-> ja[ag]]
      BY DEF ValidJointActions, JointActions
    <3>2. ActionsOf(pi, jt) = [ag \in Agents |-> pi[<<ag, jt[ag]>>]]
      BY DEF ActionsOf
    <3>3. QED BY <3>1, <3>2
  <2>2. (\A x \in shown : pi[x] = pol[x]) <=> \A ag \in Agents : pi[<<ag, jt[ag]>>] = ja[ag]
    BY <1>8
  <2>3. QED BY <1>4, <1>8, <2>1, <2>2
<1>11. Completions(Extension(n, ja)) = {pi \in Completions(n) : ActionsOf(pi, jt) = ja}
  <2> HIDE DEF jt
  <2>1. QED BY <1>3, <1>10 DEF Completions
<1>12. QED BY <1>2, <1>3, <1>7, <1>9, <1>11, SizesAssumption

(* What H is when it is computed again: the best that agrees with what is  *)
(* specified, for every joint type that remains.                           *)
LEMMA ReComputedHBounds ==
  ASSUME game \in Games, NEW n, n.pol \in PartialPolicies, NEW d \in 0..MaxDepth
  PROVE  /\ ReComputedH(n.pol, d) \in Int
         /\ \A pi \in Completions(n) : Rest(pi, d) <= ReComputedH(n.pol, d)
         /\ n.pol \in GamePolicies => ReComputedH(n.pol, d) <= Rest(n.pol, d)
<1> DEFINE best == [jt \in Remaining(d) |->
                      Max({GetContribution(jt, ja) : ja \in ValidJointActions(n.pol, jt)})]
<1>1. Remaining(d) \subseteq JointTypes /\ IsFiniteSet(Remaining(d))
  BY RemainingJointTypes
<1>2. ReComputedH(n.pol, d) = SumFunctionOnSet(best, Remaining(d))
  BY DEF ReComputedH, SumFunction
<1>3. ASSUME NEW jt \in Remaining(d)
      PROVE  /\ best[jt] \in Int
             /\ \A ja \in ValidJointActions(n.pol, jt) : game.contribution[jt][ja] <= best[jt]
             /\ \E ja \in ValidJointActions(n.pol, jt) : best[jt] = game.contribution[jt][ja]
  <2>1. jt \in JointTypes
    BY <1>1
  <2> DEFINE As == ValidJointActions(n.pol, jt)
  <2>2. As \in SUBSET JointActions /\ As # {}
    BY <2>1, ValidJointActionsExist
  <2>3. best[jt] = Max({game.contribution[jt][ja] : ja \in As})
    BY DEF GetContribution
  <2> HIDE DEF best, As
  <2>4. /\ Max({game.contribution[jt][ja] : ja \in As}) \in Int
        /\ \A ja \in As : game.contribution[jt][ja] <= Max({game.contribution[jt][ja2] : ja2 \in As})
        /\ \E ja \in As : Max({game.contribution[jt][ja2] : ja2 \in As}) = game.contribution[jt][ja]
    BY <2>1, <2>2, ContributionsAreNumbers
  <2>5. QED BY <2>3, <2>4 DEF As
<1> HIDE DEF best
<1>4. ReComputedH(n.pol, d) \in Int
  BY <1>1, <1>2, <1>3, SumOfChosen
<1>5. ASSUME NEW pi \in Completions(n) PROVE Rest(pi, d) <= ReComputedH(n.pol, d)
  <2>1. pi \in GamePolicies
    BY DEF Completions
  <2>2. ASSUME NEW jt \in Remaining(d)
        PROVE  /\ Contributions(game, pi)[jt] \in Int
               /\ best[jt] \in Int
               /\ Contributions(game, pi)[jt] <= best[jt]
    <3>1. jt \in JointTypes
      BY <1>1
    <3>2. Contributions(game, pi)[jt] = game.contribution[jt][ActionsOf(pi, jt)]
      BY <3>1 DEF Contributions
    <3>3. ActionsOf(pi, jt) \in ValidJointActions(n.pol, jt)
      BY <3>1, CompletionsActValidly
    <3>4. QED BY <1>3, <2>1, <3>1, <3>2, <3>3, ContributionOfPolicy
  <2>3. QED BY <1>1, <1>2, <2>2, SumIsMonotonic DEF Rest
<1>6. ASSUME n.pol \in GamePolicies PROVE ReComputedH(n.pol, d) <= Rest(n.pol, d)
  <2>1. ASSUME NEW jt \in Remaining(d)
        PROVE  /\ best[jt] \in Int
               /\ Contributions(game, n.pol)[jt] \in Int
               /\ best[jt] <= Contributions(game, n.pol)[jt]
    <3>1. jt \in JointTypes
      BY <1>1
    <3>2. Contributions(game, n.pol)[jt] = game.contribution[jt][ActionsOf(n.pol, jt)]
      BY <3>1 DEF Contributions
    <3>3. ASSUME NEW ja \in ValidJointActions(n.pol, jt) PROVE ja = ActionsOf(n.pol, jt)
      <4>1. ja \in [Agents -> Actions]
        BY DEF ValidJointActions, JointActions
      <4>2. \A ag \in Agents : <<ag, jt[ag]>> \in DOMAIN n.pol
        BY <1>6, <3>1, PolicyActs DEF GamePolicies
      <4>3. \A ag \in Agents : ja[ag] = n.pol[<<ag, jt[ag]>>]
        BY <4>2 DEF ValidJointActions
      <4>4. QED BY <4>1, <4>3 DEF ActionsOf
    <3>4. best[jt] = Contributions(game, n.pol)[jt]
      BY <1>3, <3>2, <3>3
    <3>5. best[jt] \in Int
      BY <1>3
    <3>6. QED BY <3>4, <3>5
  <2>2. QED BY <1>1, <1>2, <2>1, SumIsMonotonic DEF Rest
<1>7. QED BY <1>4, <1>5, <1>6

(* What holds of a node holds of its children.                             *)
LEMMA ExtensionInv ==
  ASSUME game \in Games, NEW n, NodeInv(n), n.depth < MaxDepth,
         NEW ja \in ValidJointActions(n.pol, JointTypeAt(n.depth + 1))
  PROVE  NodeInv(Extension(n, ja))
<1> DEFINE d == n.depth + 1
           jt == JointTypeAt(d)
           m == Extension(n, ja)
<1>1. n.depth \in 0..MaxDepth /\ d \in 1..MaxDepth /\ d \in 0..MaxDepth /\ d \in 0..NrJointTypes
  BY DepthIsPositive, RanksOfUsefulPositions, OrderingIsBijection DEF NodeInv, IsPartial
<1>2. /\ jt \in JointTypes /\ m.pol \in PartialPolicies /\ DOMAIN m.pol = Specified(d)
      /\ Completions(m) = {pi \in Completions(n) : ActionsOf(pi, jt) = ja}
  BY CompletionsOfExtension DEF NodeInv
<1>3. /\ m.depth = d /\ m.g = n.g + game.contribution[jt][ja]
      /\ m.h = IF game.reComputeH THEN ReComputedH(m.pol, d) ELSE n.h - CompleteInformation(game)[jt]
  BY <1>2 DEF Extension, GetContribution, CompleteInformationValue, CompleteInformation
<1>4. n.g \in Int /\ n.h \in Int
  BY DEF NodeInv, IsPartial, Nodes
<1>5. ja \in JointActions
  BY DEF ValidJointActions
<1>6. /\ game.contribution[jt][ja] \in Int /\ CompleteInformation(game)[jt] \in Int
      /\ game.contribution[jt][ja] <= CompleteInformation(game)[jt]
  BY <1>2, <1>5, JointActionsExist, ContributionsAreNumbers DEF CompleteInformation
<1>7. OptimisticRest(n.depth) = CompleteInformation(game)[jt] + OptimisticRest(d)
  BY <1>1, RestAfterNext, DepthIsPositive
<1>8. ASSUME NEW pi \in GamePolicies PROVE Rest(pi, n.depth) = Contributions(game, pi)[jt] + Rest(pi, d)
  BY <1>1, RestAfterNext, DepthIsPositive
<1>9. /\ OptimisticRest(d) \in Int /\ OptimisticRest(n.depth) \in Int /\ OptimisticRest(0) \in Int
      /\ \A pi \in GamePolicies : /\ Rest(pi, d) \in Int /\ Rest(pi, d) <= OptimisticRest(d)
                                  /\ Rest(pi, n.depth) \in Int
  BY <1>1, RestsAreNumbers, DepthIsPositive
<1>10. ReComputedH(m.pol, d) \in Int /\ \A pi \in Completions(m) : Rest(pi, d) <= ReComputedH(m.pol, d)
  BY <1>1, <1>2, ReComputedHBounds
<1> HIDE DEF m, jt, d
<1>11. m.g \in Int /\ m.h \in Int
  BY <1>3, <1>4, <1>6, <1>10
<1>12. IsPartial(m)
  <2>1. m = [depth |-> d, pol |-> m.pol, g |-> m.g, h |-> m.h]
    BY <1>3 DEF m, Extension, d
  <2>2. m \in Nodes
    BY <1>1, <1>2, <1>11, <2>1 DEF Nodes, NrJointTypes
  <2>3. QED BY <1>1, <1>2, <1>3, <2>2 DEF IsPartial
<1>13. GIsExact(m)
  <2> SUFFICES ASSUME NEW pi \in Completions(m) PROVE m.g + Rest(pi, d) = ValueOf(pi)
    BY <1>3 DEF GIsExact
  <2>1. pi \in Completions(n) /\ ActionsOf(pi, jt) = ja /\ pi \in GamePolicies
    BY <1>2 DEF Completions
  <2>2. Contributions(game, pi)[jt] = game.contribution[jt][ja]
    BY <1>2, <2>1 DEF Contributions
  <2>3. n.g + Rest(pi, n.depth) = ValueOf(pi)
    BY <2>1 DEF NodeInv, GIsExact
  <2>4. Rest(pi, n.depth) = game.contribution[jt][ja] + Rest(pi, d)
    BY <1>8, <2>1, <2>2
  <2>5. Rest(pi, d) \in Int
    BY <1>9, <2>1
  <2>6. QED BY <1>3, <1>4, <1>6, <2>3, <2>4, <2>5
<1>14. CASE game.reComputeH
  <2>1. HIsOptimistic(m)
    BY <1>3, <1>10, <1>14 DEF HIsOptimistic
  <2>2. HIsTight(m)
    <3> SUFFICES ASSUME d = MaxDepth, NEW pi \in Completions(m) PROVE m.h <= Rest(pi, d)
      BY <1>3 DEF HIsTight
    <3>1. m.pol \in GamePolicies /\ pi = m.pol
      BY <1>3, <1>12, CompleteNode
    <3>2. ReComputedH(m.pol, d) <= Rest(m.pol, d)
      BY <1>1, <1>2, <3>1, ReComputedHBounds
    <3>3. QED BY <1>3, <1>14, <3>1, <3>2
  <2>3. HIsSubtracted(m)
    BY <1>14 DEF HIsSubtracted
  <2>4. QED BY <1>12, <1>13, <2>1, <2>2, <2>3 DEF NodeInv, m
<1>15. CASE ~game.reComputeH
  <2>1. n.h = OptimisticRest(n.depth) /\ n.g + n.h <= OptimisticRest(0)
    BY <1>15 DEF NodeInv, HIsSubtracted, F
  <2>2. m.h = OptimisticRest(d)
    BY <1>3, <1>6, <1>7, <1>9, <1>15, <2>1
  <2>3. m.g + m.h <= OptimisticRest(0)
    BY <1>3, <1>4, <1>6, <1>7, <1>9, <2>1, <2>2
  <2>4. HIsSubtracted(m)
    BY <1>3, <2>2, <2>3 DEF HIsSubtracted, F
  <2>5. HIsOptimistic(m)
    BY <1>2, <1>3, <1>9, <2>2 DEF HIsOptimistic, Completions
  <2>6. HIsTight(m)
    BY <1>15 DEF HIsTight
  <2>7. QED BY <1>12, <1>13, <2>4, <2>5, <2>6 DEF NodeInv, m
<1>16. QED BY <1>14, <1>15

(* All of this depends on the game alone, which no step changes.           *)
LEMMA GameStays ==
  ASSUME game' = game
  PROVE  /\ MaxDepth' = MaxDepth
         /\ Root' = Root
         /\ OptimisticRest(0)' = OptimisticRest(0)
         /\ \A pi : ValueOf(pi)' = ValueOf(pi)
         /\ \A n : NodeInv(n)' <=> NodeInv(n)
<1>1. UsefulPositions' = UsefulPositions
  BY DEF UsefulPositions, IsUseful
<1>2. MaxDepth' = MaxDepth
  BY <1>1 DEF MaxDepth
<1>3. \A d : JointTypeAt(d)' = JointTypeAt(d)
  BY <1>1 DEF JointTypeAt
<1>4. \A d : Remaining(d)' = Remaining(d)
  BY <1>3 DEF Remaining
<1>5. \A d : Specified(d)' = Specified(d)
  BY <1>3 DEF Specified
<1>6. \A pi, d : Rest(pi, d)' = Rest(pi, d)
  BY <1>4 DEF Rest
<1>7. \A d : OptimisticRest(d)' = OptimisticRest(d)
  BY <1>4 DEF OptimisticRest
<1>8. \A pi : ValueOf(pi)' = ValueOf(pi)
  BY DEF ValueOf
<1>9. \A n : IsPartial(n)' <=> IsPartial(n)
  BY <1>2, <1>5 DEF IsPartial
<1>10. \A n : GIsExact(n)' <=> GIsExact(n)
  BY <1>6, <1>8 DEF GIsExact
<1>11. \A n : HIsOptimistic(n)' <=> HIsOptimistic(n)
  BY <1>6 DEF HIsOptimistic
<1>12. \A n : HIsTight(n)' <=> HIsTight(n)
  BY <1>2, <1>6 DEF HIsTight
<1>13. \A n : HIsSubtracted(n)' <=> HIsSubtracted(n)
  BY <1>7 DEF HIsSubtracted
<1>14. Root' = Root
  BY DEF Root, CompleteInformationValue, GetContribution
<1>15. QED
  BY <1>2, <1>7, <1>8, <1>9, <1>10, <1>11, <1>12, <1>13, <1>14 DEF NodeInv

-----------------------------------------------------------------------------
(***************************************************************************)
(* Solutions.                                                              *)
(***************************************************************************)
AreSolutions(s) ==
  /\ s \subseteq [pol : GamePolicies, value : Int]
  /\ IsFiniteSet(s)
  /\ \A i \in s : i.value = ValueOf(i.pol)

(* The payoff of a set of solutions.                                       *)
LEMMA PayoffOfSolutions ==
  ASSUME NEW s, AreSolutions(s)
  PROVE  /\ Payoff(s) \in Int
         /\ s = {} => Payoff(s) = MinusMax
         /\ s # {} => \E i \in s : i.value = Payoff(s)
         /\ \A i \in s : i.value \in Int /\ i.value <= Payoff(s)
<1> DEFINE values == {i.value : i \in s}
<1>1. \A i \in s : i.value \in Int
  BY DEF AreSolutions
<1>2. MinusMax \in Int
  BY GamesAssumption
<1>3. CASE s = {}
  BY <1>2, <1>3 DEF Payoff
<1>4. CASE s # {}
  <2> DEFINE h == [i \in s |-> i.value]
  <2>1. h \in Surjection(s, values)
    BY DEF Surjection
  <2>2. IsFiniteSet(values)
    <3> HIDE DEF h, values
    <3>1. QED BY <2>1, FS_Surjection DEF AreSolutions
  <2>3. values \subseteq Int /\ values # {}
    BY <1>1, <1>4
  <2>4. Payoff(s) = Max(values)
    BY <1>4 DEF Payoff
  <2> HIDE DEF values
  <2>5. Max(values) \in values /\ \A x \in values : x <= Max(values)
    BY <2>2, <2>3, MaxOfSet
  <2>6. QED BY <1>1, <1>4, <2>3, <2>4, <2>5 DEF values
<1>5. QED BY <1>3, <1>4

(* Adding a solution loses one only when there is no place, and then it is *)
(* one of the worst; the payoff of the best is kept up to date.            *)
LEMMA AddedSolution ==
  ASSUME game \in Games, AreSolutions(solutions), Cardinality(solutions) <= game.nrDesired,
         NEW pi \in GamePolicies, NEW after,
         Solution(pi, ValueOf(pi)) \notin solutions,
         after \in WithSolution(Solution(pi, ValueOf(pi)))
  PROVE  LET s == Solution(pi, ValueOf(pi))
         IN  /\ AreSolutions(after) /\ after # {}
             /\ Cardinality(after) <= game.nrDesired
             /\ \/ after = solutions \cup {s}
                \/ \E w \in solutions \cup {s} :
                     /\ after = (solutions \cup {s}) \ {w}
                     /\ Cardinality(after) = game.nrDesired
                     /\ \A i \in after : w.value <= i.value
             /\ Payoff(after) = IF s.value > Payoff(solutions) THEN s.value ELSE Payoff(solutions)
<1> DEFINE s == Solution(pi, ValueOf(pi))
           all == solutions \cup {s}
           worst == {i \in solutions : \A j \in solutions : i.value <= j.value}
<1>1. s \in [pol : GamePolicies, value : Int] /\ s.value = ValueOf(pi) /\ s.pol = pi
      /\ s.value \in Int /\ MinusMax <= s.value
  BY PayoffIsSum, PayoffsAssumption DEF Solution, ValueOf
<1>2. game.nrDesired \in Nat \ {0} /\ MinusMax \in Int
  BY GamesAssumption
<1>3. IsFiniteSet(solutions) /\ Cardinality(solutions) \in Nat
  BY FS_CardinalityType DEF AreSolutions
<1>4. AreSolutions(all)
  BY <1>1, <1>3, FS_AddElement DEF AreSolutions
<1>5. s \notin solutions /\ Cardinality(all) = Cardinality(solutions) + 1
  BY <1>3, FS_AddElement
<1>6. after \in IF Cardinality(solutions) < game.nrDesired THEN {all}
                ELSE {IF w.value < s.value THEN (solutions \ {w}) \cup {s} ELSE solutions : w \in worst}
  BY DEF WithSolution
<1> HIDE DEF s
<1>7. \/ after = all /\ Cardinality(all) <= game.nrDesired
      \/ \E w \in all : /\ after = all \ {w}
                        /\ Cardinality(after) = game.nrDesired
                        /\ \A i \in after : w.value <= i.value
  <2>1. CASE Cardinality(solutions) < game.nrDesired
    BY <1>2, <1>3, <1>5, <1>6, <2>1
  <2>2. CASE ~(Cardinality(solutions) < game.nrDesired)
    <3>1. Cardinality(solutions) = game.nrDesired
      BY <1>2, <1>3, <2>2
    <3>2. PICK w \in worst : after = IF w.value < s.value THEN (solutions \ {w}) \cup {s} ELSE solutions
      BY <1>6, <2>2
    <3>3. \A i \in solutions : i.value \in Int
      BY DEF AreSolutions
    <3>4. w \in solutions /\ w.value \in Int /\ \A i \in solutions : w.value <= i.value
      BY <3>2, <3>3
    <3>5. CASE w.value < s.value
      <4>1. w # s /\ after = all \ {w}
        BY <1>5, <3>2, <3>4, <3>5
      <4>2. Cardinality(all \ {w}) = Cardinality(all) - 1
        BY <1>4, <3>4, FS_RemoveElement DEF AreSolutions
      <4>3. Cardinality(after) = game.nrDesired
        BY <1>3, <1>5, <3>1, <4>1, <4>2
      <4>4. \A i \in after : w.value <= i.value
        BY <1>1, <3>4, <3>5, <4>1
      <4>5. QED BY <3>4, <4>1, <4>3, <4>4
    <3>6. CASE ~(w.value < s.value)
      <4>1. after = solutions /\ solutions = all \ {s}
        BY <1>5, <3>2, <3>6
      <4>2. \A i \in after : s.value <= i.value
        BY <1>1, <3>3, <3>4, <3>6, <4>1
      <4>3. QED BY <3>1, <4>1, <4>2
    <3>7. QED BY <3>5, <3>6
  <2>3. QED BY <2>1, <2>2
<1>8. after \subseteq all /\ AreSolutions(after)
  <2>1. after \subseteq all
    BY <1>7
  <2>2. IsFiniteSet(after)
    BY <1>4, <2>1, FS_Subset DEF AreSolutions
  <2>3. QED BY <1>4, <2>1, <2>2 DEF AreSolutions
<1>9. Cardinality(after) <= game.nrDesired /\ after # {}
  BY <1>2, <1>7, FS_EmptySet
<1>10. Payoff(after) = IF s.value > Payoff(solutions) THEN s.value ELSE Payoff(solutions)
  <2> DEFINE best == IF s.value > Payoff(solutions) THEN s.value ELSE Payoff(solutions)
  <2>1. /\ Payoff(solutions) \in Int
        /\ solutions = {} => Payoff(solutions) = MinusMax
        /\ solutions # {} => \E i \in solutions : i.value = Payoff(solutions)
        /\ \A i \in solutions : i.value \in Int /\ i.value <= Payoff(solutions)
    BY PayoffOfSolutions
  <2>2. best \in Int /\ (\A i \in all : i.value \in Int /\ i.value <= best)
    BY <1>1, <2>1
  <2>3. \E i \in all : i.value = best
    BY <1>1, <1>2, <2>1
  <2> HIDE DEF best
  <2>4. \E i \in after : i.value = best
    <3>1. CASE after = all
      BY <2>3, <3>1
    <3>2. ASSUME NEW w \in all, after = all \ {w}, \A i \in after : w.value <= i.value
          PROVE  \E i \in after : i.value = best
      <4>1. PICK x \in all : x.value = best
        BY <2>3
      <4>2. CASE x # w
        BY <3>2, <4>1, <4>2
      <4>3. CASE x = w
        <5>1. PICK i \in after : TRUE
          BY <1>9
        <5>2. i \in all /\ best <= i.value
          BY <3>2, <4>1, <4>3, <5>1
        <5>3. i.value = best
          BY <2>2, <5>2
        <5>4. QED BY <5>3
      <4>4. QED BY <4>2, <4>3
    <3>3. QED BY <1>7, <3>1, <3>2
  <2>5. /\ Payoff(after) \in Int
        /\ \E i \in after : i.value = Payoff(after)
        /\ \A i \in after : i.value \in Int /\ i.value <= Payoff(after)
    BY <1>8, <1>9, PayoffOfSolutions
  <2>6. PICK i \in after : i.value = Payoff(after)
    BY <2>5
  <2>7. PICK j \in after : j.value = best
    BY <2>4
  <2>8. Payoff(after) <= best /\ best <= Payoff(after)
    BY <1>8, <2>2, <2>5, <2>6, <2>7
  <2>9. Payoff(after) = best
    BY <2>2, <2>5, <2>8
  <2>10. QED BY <2>9 DEF best
<1>11. QED BY <1>7, <1>8, <1>9, <1>10 DEF s

-----------------------------------------------------------------------------
(***************************************************************************)
(* The inductive invariant.                                                *)
(***************************************************************************)
OpenNodesAreSound == \A n \in openQueue : NodeInv(n)

(* Nothing is open before the first call, and a call has been counted when *)
(* it is under way.                                                        *)
CallsAreCounted ==
  /\ ~solved => phase = "idle" /\ openQueue = {} /\ solutions = {}
  /\ phase # "idle" => calls >= 1

(* No policy of an open node is better than the best solution. *)
BestIsFound == \A n \in openQueue : \A pi \in Completions(n) : ValueOf(pi) <= Payoff(solutions)

(* The search stops when it has a solution that nothing open can improve.  *)
StoppedIsRight ==
  phase = "stopped" => solutions # {} /\ (StopIsSound(game) => BestIsFound)

IInv ==
  /\ TypeOK
  /\ OpenNodesAreSound
  /\ AreSolutions(solutions)
  /\ NoPolicyTwice
  /\ LowerBoundIsBestSolution
  /\ CallsAreCounted
  /\ StoppedIsRight

LEMMA InitInv == Init => IInv
<1> SUFFICES ASSUME Init PROVE IInv
  OBVIOUS
<1> USE DEF Init
<1>1. MinusMax \in Int /\ MinusMax \in Bounds /\ game.nrDesired \in Nat \ {0}
  BY GamesAssumption
<1>2. IsFiniteSet(solutions) /\ Cardinality(solutions) = 0
  BY FS_EmptySet
<1>3. TypeOK
  <2>1. Cardinality(solutions) <= game.nrDesired
    BY <1>1, <1>2
  <2>2. openQueue \subseteq Nodes /\ solutions \subseteq [pol : GamePolicies, value : Int]
    OBVIOUS
  <2>3. QED BY <1>1, <2>1, <2>2 DEF TypeOK
<1>4. AreSolutions(solutions)
  BY <1>2 DEF AreSolutions
<1>5. QED
  BY <1>3, <1>4 DEF IInv, OpenNodesAreSound, NoPolicyTwice, LowerBoundIsBestSolution,
    CallsAreCounted, StoppedIsRight

LEMMA GetNextInv == IInv /\ GetNext => IInv'
<1> SUFFICES ASSUME IInv, GetNext PROVE IInv'
  OBVIOUS
<1> USE DEF IInv
<1>1. game' = game /\ solutions' = solutions /\ answer' = answer /\ game \in Games
  BY DEF GetNext, TypeOK
<1>2. openQueue' = openQueue \/ (openQueue' = {Root} /\ solutions = {})
  <2>1. openQueue' = IF solved THEN openQueue ELSE {Root}
    BY DEF GetNext
  <2>2. CASE solved = TRUE
    BY <2>1, <2>2
  <2>3. CASE solved = FALSE
    BY <2>1, <2>3 DEF CallsAreCounted
  <2>4. QED BY <2>2, <2>3 DEF TypeOK
<1>3. NodeInv(Root)
  BY <1>1, RootInv
<1>4. OpenNodesAreSound'
  BY <1>1, <1>2, <1>3, GameStays DEF OpenNodesAreSound
<1>5. NodeInv(Root)' /\ Root \in Nodes
  BY <1>1, <1>3, GameStays DEF NodeInv, IsPartial
<1>6. AreSolutions(solutions)'
  BY <1>1, GameStays DEF AreSolutions
<1>7. Payoff(solutions) \in Int
  BY PayoffOfSolutions
<1>8. TypeOK'
  <2>1. openQueue' \subseteq Nodes
    BY <1>2, <1>5 DEF TypeOK
  <2>2. QED BY <1>1, <1>7, <2>1 DEF TypeOK, GetNext
<1>9. NoPolicyTwice'
  BY <1>1, <1>2 DEF NoPolicyTwice, Completions
<1>10. LowerBoundIsBestSolution' /\ StoppedIsRight'
  BY <1>1 DEF GetNext, LowerBoundIsBestSolution, StoppedIsRight, Payoff
<1>11. CallsAreCounted'
  BY DEF GetNext, CallsAreCounted, TypeOK
<1>12. QED BY <1>4, <1>6, <1>8, <1>9, <1>10, <1>11

(* A node at the top that is complete becomes a solution.                  *)
LEMMA ProcessedNode ==
  ASSUME IInv, NEW top \in Top, IsFullySpecifiedPolicy(top), game' = game,
         ProcessFullySpecifiedNode(top)
  PROVE  LET s == Solution(top.pol, ValueOf(top.pol))
         IN  /\ top \in openQueue /\ NodeInv(top) /\ game \in Games
             /\ top.pol \in GamePolicies /\ Completions(top) = {top.pol}
             /\ s \notin solutions
             /\ AreSolutions(solutions') /\ solutions' # {}
             /\ Cardinality(solutions') <= game.nrDesired
             /\ \/ solutions' = solutions \cup {s}
                \/ \E w \in solutions \cup {s} :
                     /\ solutions' = (solutions \cup {s}) \ {w}
                     /\ Cardinality(solutions') = game.nrDesired
                     /\ \A i \in solutions' : w.value <= i.value
             /\ Payoff(solutions') = IF s.value > Payoff(solutions) THEN s.value ELSE Payoff(solutions)
<1> DEFINE s == Solution(top.pol, ValueOf(top.pol))
<1>1. top \in openQueue /\ game \in Games /\ NodeInv(top)
  BY DEF Top, IInv, TypeOK, OpenNodesAreSound
<1>2. top.pol \in GamePolicies /\ Completions(top) = {top.pol}
  BY <1>1, CompleteNode DEF NodeInv, IsFullySpecifiedPolicy
<1>3. s \notin solutions
  BY <1>1, <1>2 DEF IInv, NoPolicyTwice, Solution
<1>4. AreSolutions(solutions) /\ Cardinality(solutions) <= game.nrDesired
  BY DEF IInv, TypeOK
<1>5. solutions' \in WithSolution(s)
  BY DEF ProcessFullySpecifiedNode
<1>6. QED
  BY <1>1, <1>2, <1>3, <1>4, <1>5, AddedSolution

LEMMA ProcessInv ==
  ASSUME IInv, NEW top \in Top, phase = "searching", StopAt(top) \/ ProcessTop(top),
         UNCHANGED <<game, solved, CBGlowerBound, calls, answer>>
  PROVE  IInv'
<1> DEFINE s == Solution(top.pol, ValueOf(top.pol))
<1> USE DEF IInv
<1>1. /\ IsFullySpecifiedPolicy(top) /\ ProcessFullySpecifiedNode(top)
      /\ openQueue' = openQueue \ {top}
      /\ maxLowerBound' = IF s.value > maxLowerBound THEN s.value ELSE maxLowerBound
      /\ game' = game /\ phase' \in {"searching", "stopped"}
  BY DEF StopAt, ProcessTop, ProcessFullySpecifiedNode
<1>2. /\ top \in openQueue /\ NodeInv(top) /\ game \in Games
      /\ top.pol \in GamePolicies /\ Completions(top) = {top.pol}
      /\ AreSolutions(solutions') /\ solutions' # {}
      /\ Cardinality(solutions') <= game.nrDesired
      /\ solutions' \subseteq solutions \cup {s}
      /\ Payoff(solutions') = IF s.value > Payoff(solutions) THEN s.value ELSE Payoff(solutions)
  BY <1>1, ProcessedNode
<1>3. OpenNodesAreSound'
  BY <1>1, GameStays DEF OpenNodesAreSound
<1>4. AreSolutions(solutions)'
  BY <1>1, <1>2, GameStays DEF AreSolutions
<1>5. maxLowerBound' = Payoff(solutions')
  BY <1>1, <1>2 DEF LowerBoundIsBestSolution
<1>6. Payoff(solutions') \in Int /\ Payoff(solutions) \in Int
  BY <1>2, PayoffOfSolutions
<1>7. TypeOK'
  BY <1>1, <1>2, <1>5, <1>6 DEF TypeOK, AreSolutions
<1>8. NoPolicyTwice'
  <2>1. \A n \in openQueue \ {top} : top.pol \notin Completions(n)
    BY <1>2 DEF NoPolicyTwice
  <2>2. s.pol = top.pol
    BY DEF Solution
  <2> HIDE DEF s
  <2>3. \A n \in openQueue \ {top} : \A i \in solutions \cup {s} : i.pol \notin Completions(n)
    BY <2>1, <2>2 DEF NoPolicyTwice
  <2>4. \A n, m \in openQueue \ {top} : n # m => Completions(n) \cap Completions(m) = {}
    BY DEF NoPolicyTwice
  <2>5. QED BY <1>1, <1>2, <2>3, <2>4 DEF NoPolicyTwice, Completions
<1>9. LowerBoundIsBestSolution'
  BY <1>5 DEF LowerBoundIsBestSolution, Payoff
<1>10. CallsAreCounted'
  BY <1>1 DEF CallsAreCounted
<1>11. StoppedIsRight'
  <2> SUFFICES ASSUME phase' = "stopped", StopIsSound(game),
                      NEW n \in openQueue \ {top}, NEW pi \in Completions(n)
               PROVE  ValueOf(pi) <= Payoff(solutions')
    BY <1>1, <1>2, GameStays DEF StoppedIsRight, BestIsFound, Completions, StopIsSound, Payoff
  <2>1. StopAt(top)
    BY DEF ProcessTop
  <2>2. F(n) <= F(top) /\ n \in openQueue /\ NodeInv(n)
    BY DEF Top, OpenNodesAreSound
  <2>3. ValueOf(pi) <= F(n) /\ F(n) \in Int /\ ValueOf(pi) \in Int
    BY <1>2, <2>2, FBoundsValues
  <2>4. F(top) \in Int /\ ValueOf(top.pol) \in Int /\ s.value = ValueOf(top.pol)
    BY <1>2, FBoundsValues DEF Solution
  <2> HIDE DEF s
  <2>5. Payoff(solutions) <= Payoff(solutions') /\ s.value <= Payoff(solutions')
    BY <1>2, <1>6, <2>4
  <2>6. CASE IsBelowBest(top)
    <3>1. F(top) < Payoff(solutions)
      BY <2>6 DEF IsBelowBest, LowerBoundIsBestSolution
    <3>2. QED BY <1>6, <2>2, <2>3, <2>4, <2>5, <3>1
  <2>7. CASE HitsUpperBound(top) /\ game.reComputeH
    <3>1. F(top) = ValueOf(top.pol)
      BY <1>1, <1>2, <2>7, FOfCompleteNode DEF IsFullySpecifiedPolicy
    <3>2. QED BY <1>6, <2>2, <2>3, <2>4, <2>5, <3>1
  <2>8. CASE HitsUpperBound(top) /\ ~game.reComputeH
    <3>1. Root.h < game.upperBound
      BY <2>8 DEF HitsUpperBound, StopIsSound, Root, CompleteInformationValue, GetContribution
    <3>2. F(top) <= OptimisticRest(0)
      BY <1>2, <2>8 DEF NodeInv, HIsSubtracted
    <3>3. Root.h = OptimisticRest(0) /\ Root.h \in Int
      <4>1. NodeInv(Root) /\ Root.depth = 0
        BY <1>2, RootInv DEF Root
      <4>2. QED BY <4>1, <2>8 DEF NodeInv, HIsSubtracted, IsPartial, Nodes
    <3>4. F(top) >= game.upperBound /\ game.upperBound \in Int
      BY <1>2, <2>8, GamesAssumption DEF HitsUpperBound
    <3>5. QED BY <2>4, <3>1, <3>2, <3>3, <3>4
  <2>9. QED BY <2>1, <2>6, <2>7, <2>8 DEF StopAt
<1>12. QED BY <1>3, <1>4, <1>7, <1>8, <1>9, <1>10, <1>11

(* The children of the node at the top divide its policies up.             *)
Children(top) ==
  {Extension(top, ja) : ja \in ValidJointActions(top.pol, JointTypeAt(top.depth + 1))}

LEMMA ChildrenOfTop ==
  ASSUME game \in Games, NEW top, NodeInv(top), ~IsFullySpecifiedPolicy(top)
  PROVE  /\ \A n \in Children(top) : NodeInv(n) /\ Completions(n) \subseteq Completions(top)
         /\ \A n, m \in Children(top) : n # m => Completions(n) \cap Completions(m) = {}
         /\ \A pi \in Completions(top) : \E n \in Children(top) : pi \in Completions(n)
<1> DEFINE jt == JointTypeAt(top.depth + 1)
           As == ValidJointActions(top.pol, jt)
<1>1. IsPartial(top) /\ top.depth < MaxDepth
  BY DepthIsPositive DEF NodeInv, IsPartial, IsFullySpecifiedPolicy
<1>2. ASSUME NEW ja \in As
      PROVE  /\ NodeInv(Extension(top, ja))
             /\ Completions(Extension(top, ja)) = {pi \in Completions(top) : ActionsOf(pi, jt) = ja}
  BY <1>1, ExtensionInv, CompletionsOfExtension
<1>3. jt \in JointTypes
  BY <1>1, JointTypeOfDepth, DepthIsPositive DEF IsPartial
<1>4. \A pi \in Completions(top) : ActionsOf(pi, jt) \in As
  BY <1>3, CompletionsActValidly
<1>5. Children(top) = {Extension(top, ja) : ja \in As}
  BY DEF Children
<1> HIDE DEF jt, As
<1>6. \A n \in Children(top) : NodeInv(n) /\ Completions(n) \subseteq Completions(top)
  BY <1>2, <1>5
<1>7. ASSUME NEW n \in Children(top), NEW m \in Children(top), n # m
      PROVE  Completions(n) \cap Completions(m) = {}
  <2>1. PICK a \in As : n = Extension(top, a)
    BY <1>5
  <2>2. PICK b \in As : m = Extension(top, b)
    BY <1>5
  <2>3. a # b
    BY <1>7, <2>1, <2>2
  <2>4. Completions(n) = {pi \in Completions(top) : ActionsOf(pi, jt) = a}
    BY <1>2, <2>1
  <2>5. Completions(m) = {pi \in Completions(top) : ActionsOf(pi, jt) = b}
    BY <1>2, <2>2
  <2>6. QED BY <2>3, <2>4, <2>5
<1>8. ASSUME NEW pi \in Completions(top) PROVE \E n \in Children(top) : pi \in Completions(n)
  <2>1. Extension(top, ActionsOf(pi, jt)) \in Children(top)
    BY <1>4, <1>5
  <2>2. pi \in Completions(Extension(top, ActionsOf(pi, jt)))
    BY <1>2, <1>4
  <2>3. QED BY <2>1, <2>2
<1>9. QED BY <1>6, <1>7, <1>8

LEMMA ExpandInv ==
  ASSUME IInv, NEW top \in Top, phase = "searching", ExpandAllExtensions(top),
         UNCHANGED <<game, solved, CBGlowerBound, calls, answer>>
  PROVE  IInv'
<1> USE DEF IInv
<1>1. /\ game' = game /\ game \in Games /\ top \in openQueue /\ NodeInv(top)
      /\ phase' = phase /\ solutions' = solutions /\ maxLowerBound' = maxLowerBound
  BY DEF ExpandAllExtensions, TypeOK, Top, OpenNodesAreSound
<1>2. openQueue' \subseteq (openQueue \ {top}) \cup Children(top)
  BY DEF ExpandAllExtensions, Children
<1>3. /\ \A n \in Children(top) : NodeInv(n) /\ Completions(n) \subseteq Completions(top)
      /\ \A n, m \in Children(top) : n # m => Completions(n) \cap Completions(m) = {}
  BY <1>1, ChildrenOfTop DEF ExpandAllExtensions
<1>4. \A n \in openQueue' : NodeInv(n)
  BY <1>2, <1>3 DEF OpenNodesAreSound
<1>5. OpenNodesAreSound'
  BY <1>1, <1>4, GameStays DEF OpenNodesAreSound
<1>6. AreSolutions(solutions)'
  BY <1>1, GameStays DEF AreSolutions
<1>7. TypeOK'
  <2>1. openQueue' \subseteq Nodes
    BY <1>4 DEF NodeInv, IsPartial
  <2>2. QED BY <1>1, <2>1 DEF TypeOK
<1>8. NoPolicyTwice'
  <2>1. ASSUME NEW n \in (openQueue \ {top}) \cup Children(top),
               NEW m \in (openQueue \ {top}) \cup Children(top), n # m
        PROVE  Completions(n) \cap Completions(m) = {}
    <3>1. CASE n \in openQueue \ {top} /\ m \in openQueue \ {top}
      BY <2>1, <3>1 DEF NoPolicyTwice
    <3>2. CASE n \in openQueue \ {top} /\ m \in Children(top)
      BY <1>1, <1>3, <3>2 DEF NoPolicyTwice
    <3>3. CASE n \in Children(top) /\ m \in openQueue \ {top}
      BY <1>1, <1>3, <3>3 DEF NoPolicyTwice
    <3>4. CASE n \in Children(top) /\ m \in Children(top)
      BY <1>3, <2>1, <3>4
    <3>5. QED BY <3>1, <3>2, <3>3, <3>4
  <2>2. ASSUME NEW n \in (openQueue \ {top}) \cup Children(top), NEW s \in solutions
        PROVE  s.pol \notin Completions(n)
    <3>1. CASE n \in openQueue \ {top}
      BY <3>1 DEF NoPolicyTwice
    <3>2. CASE n \in Children(top)
      BY <1>1, <1>3, <3>2 DEF NoPolicyTwice
    <3>3. QED BY <3>1, <3>2
  <2>3. /\ \A n, m \in openQueue' : n # m => Completions(n) \cap Completions(m) = {}
        /\ \A n \in openQueue' : \A s \in solutions : s.pol \notin Completions(n)
    BY <1>2, <2>1, <2>2
  <2>4. QED BY <1>1, <2>3 DEF NoPolicyTwice, Completions
<1>9. LowerBoundIsBestSolution' /\ StoppedIsRight'
  BY <1>1 DEF LowerBoundIsBestSolution, StoppedIsRight, Payoff
<1>10. CallsAreCounted'
  BY <1>1 DEF CallsAreCounted
<1>11. QED BY <1>5, <1>6, <1>7, <1>8, <1>9, <1>10

LEMMA ReturnNextInv == IInv /\ ReturnNext => IInv'
<1> SUFFICES ASSUME IInv, ReturnNext PROVE IInv'
  OBVIOUS
<1> USE DEF IInv
<1>1. /\ game' = game /\ game \in Games /\ solved' = solved /\ openQueue' = openQueue
      /\ maxLowerBound' = maxLowerBound /\ CBGlowerBound' = CBGlowerBound /\ calls' = calls
      /\ phase' = "idle"
  BY DEF ReturnNext, TypeOK
<1>2. solutions' \subseteq solutions /\ answer' \in GamePolicies \cup {NoPolicy}
  BY DEF ReturnNext, TypeOK
<1>3. OpenNodesAreSound'
  BY <1>1, GameStays DEF OpenNodesAreSound
<1>4. IsFiniteSet(solutions') /\ Cardinality(solutions') <= game.nrDesired
  <2>1. IsFiniteSet(solutions') /\ Cardinality(solutions') <= Cardinality(solutions)
    BY <1>2, FS_Subset DEF AreSolutions
  <2>2. Cardinality(solutions') \in Nat /\ Cardinality(solutions) \in Nat /\ game.nrDesired \in Nat
    BY <1>1, <2>1, FS_CardinalityType, GamesAssumption DEF AreSolutions
  <2>3. QED BY <2>1, <2>2 DEF TypeOK
<1>5. AreSolutions(solutions)'
  BY <1>1, <1>2, <1>4, GameStays DEF AreSolutions
<1>6. TypeOK'
  BY <1>1, <1>2, <1>4 DEF TypeOK
<1>7. NoPolicyTwice'
  BY <1>1, <1>2 DEF NoPolicyTwice, Completions
<1>8. LowerBoundIsBestSolution' /\ StoppedIsRight'
  BY <1>1 DEF LowerBoundIsBestSolution, StoppedIsRight
<1>9. CallsAreCounted'
  BY <1>1, <1>2 DEF CallsAreCounted, ReturnNext
<1>10. QED BY <1>3, <1>5, <1>6, <1>7, <1>8, <1>9

LEMMA StutterInv == IInv /\ UNCHANGED vars => IInv'
<1> SUFFICES ASSUME IInv, UNCHANGED vars PROVE IInv'
  OBVIOUS
<1> USE DEF IInv, vars
<1>1. game' = game
  OBVIOUS
<1>2. OpenNodesAreSound' /\ AreSolutions(solutions)'
  BY <1>1, GameStays DEF OpenNodesAreSound, AreSolutions
<1>3. TypeOK' /\ NoPolicyTwice'
  BY DEF TypeOK, NoPolicyTwice, Completions
<1>4. LowerBoundIsBestSolution' /\ CallsAreCounted'
  BY DEF LowerBoundIsBestSolution, CallsAreCounted, Payoff
<1>5. StoppedIsRight'
  BY <1>1, GameStays DEF StoppedIsRight, BestIsFound, StopIsSound, Completions, Payoff
<1>6. QED BY <1>2, <1>3, <1>4, <1>5

LEMMA NextInv == IInv /\ [Next]_vars => IInv'
<1> SUFFICES ASSUME IInv, [Next]_vars PROVE IInv'
  OBVIOUS
<1>1. CASE GetNext
  BY <1>1, GetNextInv
<1>2. CASE ReSolve
  <2>1. PICK top \in Top : StopAt(top) \/ ProcessTop(top) \/ ExpandAllExtensions(top)
    BY <1>2 DEF ReSolve
  <2>2. phase = "searching" /\ UNCHANGED <<game, solved, CBGlowerBound, calls, answer>>
    BY <1>2 DEF ReSolve
  <2>3. QED BY <2>1, <2>2, ProcessInv, ExpandInv
<1>3. CASE ReturnNext
  BY <1>3, ReturnNextInv
<1>4. CASE UNCHANGED vars
  BY <1>4, StutterInv
<1>5. QED BY <1>1, <1>2, <1>3, <1>4 DEF Next

(* The inductive invariant holds. *)
LEMMA Invariance == Spec => []IInv
<1>1. QED BY InitInv, NextInv, PTL DEF Spec

(* The variables keep their types: nodes are nodes of the search tree, and *)
(* no more solutions are kept than were asked for.                         *)
THEOREM TypeCorrect == Spec => []TypeOK
<1>1. IInv => TypeOK
  BY DEF IInv
<1>2. QED BY <1>1, Invariance, PTL

(* F never underestimates what an open node leads to, however H is kept up *)
(* to date and whatever the ordering of the joint types.                   *)
THEOREM NodesBoundTheirCompletions == Spec => []OpenNodesBoundTheirCompletions
<1>1. IInv => OpenNodesBoundTheirCompletions
  BY FBoundsValues DEF IInv, TypeOK, OpenNodesAreSound, OpenNodesBoundTheirCompletions
<1>2. QED BY <1>1, Invariance, PTL

(* No policy is reached from two open nodes, or found again after it       *)
(* became a solution.                                                      *)
THEOREM PoliciesAreFoundOnce == Spec => []NoPolicyTwice
<1>1. IInv => NoPolicyTwice
  BY DEF IInv
<1>2. QED BY <1>1, Invariance, PTL

(* During a call the lower bound is the value of the best solution there   *)
(* still is.                                                               *)
THEOREM LowerBoundIsUpToDate == Spec => []LowerBoundIsBestSolution
<1>1. IInv => LowerBoundIsBestSolution
  BY DEF IInv
<1>2. QED BY <1>1, Invariance, PTL

-----------------------------------------------------------------------------
(***************************************************************************)
(* The contract of the incremental interface.                              *)
(***************************************************************************)
PoliciesOf(s) == {i.pol : i \in s}
PoliciesBelow(q) == UNION {Completions(n) : n \in q}

LEMMA LeftIs ==
  /\ solved = FALSE => Left = GamePolicies
  /\ solved = TRUE => Left = PoliciesBelow(openQueue) \cup PoliciesOf(solutions)
BY DEF Left, PoliciesBelow, PoliciesOf

LEMMA LeftIsPrimed ==
  solved' = TRUE => Left' = PoliciesBelow(openQueue') \cup PoliciesOf(solutions')
BY DEF Left, PoliciesBelow, PoliciesOf, Completions

NrNoWorse(kept, p) == Cardinality({q \in kept : GamePayoff[game][p] <= GamePayoff[game][q]})

(* As many policies are left that are no worse as can still be asked for.  *)
LEMMA EnoughAreNoWorse ==
  ASSUME game \in Games, NEW s, AreSolutions(s), Cardinality(s) = game.nrDesired,
         NEW kept \in SUBSET GamePolicies, PoliciesOf(s) \subseteq kept,
         NEW p, \A i \in s : GamePayoff[game][p] <= i.value,
         calls \in Nat, calls >= 1
  PROVE  NrNoWorse(kept, p) >= game.nrDesired - calls + 1
<1> DEFINE T == {q \in kept : GamePayoff[game][p] <= GamePayoff[game][q]}
           h == [i \in s |-> i.pol]
<1>1. IsFiniteSet(T)
  BY SizesAssumption, FS_Subset
<1>2. \A i \in s : i.pol \in T
  BY DEF AreSolutions, ValueOf, PoliciesOf
<1>3. \A i, j \in s : i.pol = j.pol => i = j
  BY DEF AreSolutions
<1>4. h \in Injection(s, T)
  <2> HIDE DEF T
  <2>1. QED BY <1>2, <1>3 DEF Injection, IsInjective
<1>5. Cardinality(s) <= Cardinality(T) /\ Cardinality(T) \in Nat
  <2> HIDE DEF T, h
  <2>1. QED BY <1>1, <1>4, FS_Injection, FS_CardinalityType
<1>6. game.nrDesired \in Nat
  BY GamesAssumption
<1> HIDE DEF T
<1>7. Cardinality(T) >= game.nrDesired - calls + 1
  BY <1>5, <1>6
<1>8. QED BY <1>7 DEF T, NrNoWorse

LEMMA MayBeDropped ==
  ASSUME NEW kept, NEW p, NrNoWorse(kept, p) >= Solver!NrToReturn
  PROVE  Solver!MayDrop(p, kept)
BY DEF Solver!MayDrop, NrNoWorse, Cardinality, Solver!Cardinality

LEMMA InitRefines == Init => Solver!Init
<1> SUFFICES ASSUME Init PROVE Solver!Init
  OBVIOUS
<1>1. MinusMax \in Int
  BY GamesAssumption
<1>2. QED BY <1>1 DEF Init, Solver!Init, Left

LEMMA GetNextRefines == IInv /\ GetNext => Solver!Ask
<1> SUFFICES ASSUME IInv, GetNext PROVE Solver!Ask
  OBVIOUS
<1>1. game \in Games /\ solved \in BOOLEAN /\ solved' = TRUE /\ solutions' = solutions
  BY DEF IInv, TypeOK, GetNext
<1>2. Left' = Left
  <2>1. CASE solved = TRUE
    <3>1. openQueue' = openQueue
      BY <2>1 DEF GetNext
    <3>2. QED BY <1>1, <2>1, <3>1, LeftIs, LeftIsPrimed
  <2>2. CASE solved = FALSE
    <3>1. openQueue' = {Root} /\ solutions = {}
      BY <2>2 DEF GetNext, IInv, CallsAreCounted
    <3>2. Completions(Root) = GamePolicies
      BY <1>1, RootInv
    <3>3. PoliciesBelow({Root}) = GamePolicies /\ PoliciesOf({}) = {}
      BY <3>2 DEF PoliciesBelow, PoliciesOf
    <3>4. QED BY <1>1, <2>2, <3>1, <3>3, LeftIs, LeftIsPrimed
  <2>3. QED BY <1>1, <2>1, <2>2
<1>3. [bg \in Games |-> bg.nrDesired][game] = game.nrDesired
  BY <1>1
<1>4. CBGlowerBound' >= CBGlowerBound
  BY DEF GetNext
<1>5. /\ phase = "idle" /\ calls < game.nrDesired /\ phase' = "searching" /\ calls' = calls + 1
      /\ game' = game /\ answer' = answer
  BY DEF GetNext
<1>6. QED BY <1>2, <1>3, <1>4, <1>5 DEF Solver!Ask

LEMMA ProcessRefines ==
  ASSUME IInv, IInv', NEW top \in Top, phase = "searching", StopAt(top) \/ ProcessTop(top),
         UNCHANGED <<game, solved, CBGlowerBound, calls, answer>>
  PROVE  Solver!Drop
<1> DEFINE s == Solution(top.pol, ValueOf(top.pol))
           rest == openQueue \ {top}
<1>1. /\ IsFullySpecifiedPolicy(top) /\ ProcessFullySpecifiedNode(top)
      /\ openQueue' = rest /\ game' = game /\ phase' \in {"searching", "stopped"}
  BY DEF StopAt, ProcessTop, ProcessFullySpecifiedNode
<1>2. /\ top \in openQueue /\ game \in Games /\ Completions(top) = {top.pol}
      /\ AreSolutions(solutions')
      /\ \/ solutions' = solutions \cup {s}
         \/ \E w \in solutions \cup {s} :
              /\ solutions' = (solutions \cup {s}) \ {w}
              /\ Cardinality(solutions') = game.nrDesired
              /\ \A i \in solutions' : w.value <= i.value
  BY <1>1, ProcessedNode
<1>3. solved = TRUE /\ solved' = TRUE /\ calls \in Nat /\ calls >= 1
  BY DEF IInv, TypeOK, CallsAreCounted
<1>4. s.pol = top.pol /\ s.value = ValueOf(top.pol)
  BY DEF Solution
<1> HIDE DEF s
<1>5. Left = PoliciesBelow(rest) \cup PoliciesOf(solutions \cup {s})
  <2>1. PoliciesBelow(openQueue) = PoliciesBelow(rest) \cup {top.pol}
    BY <1>2 DEF PoliciesBelow
  <2>2. PoliciesOf(solutions \cup {s}) = PoliciesOf(solutions) \cup {top.pol}
    BY <1>4 DEF PoliciesOf
  <2>3. QED BY <1>3, <2>1, <2>2, LeftIs
<1>6. Left' = PoliciesBelow(rest) \cup PoliciesOf(solutions')
  BY <1>1, <1>3, LeftIsPrimed
<1>7. Left' \subseteq GamePolicies
  BY <1>2, <1>6 DEF PoliciesBelow, PoliciesOf, Completions, AreSolutions
<1>8. [bg \in Games |-> bg.nrDesired][game] = game.nrDesired
  BY <1>2
<1>9. Left' \subseteq Left /\ \A p \in Left \ Left' : Solver!MayDrop(p, Left')
  <2>1. CASE solutions' = solutions \cup {s}
    BY <1>5, <1>6, <2>1
  <2>2. ASSUME NEW w \in solutions \cup {s}, solutions' = (solutions \cup {s}) \ {w},
               Cardinality(solutions') = game.nrDesired, \A i \in solutions' : w.value <= i.value
        PROVE  Left' \subseteq Left /\ \A p \in Left \ Left' : Solver!MayDrop(p, Left')
    <3>1. Left' \subseteq Left /\ Left \ Left' \subseteq {w.pol}
      BY <1>5, <1>6, <2>2 DEF PoliciesOf
    <3>2. PoliciesOf(solutions') \subseteq Left'
      BY <1>6
    <3>3. w.value = GamePayoff[game][w.pol]
      BY <1>4 DEF IInv, AreSolutions, ValueOf
    <3>4. NrNoWorse(Left', w.pol) >= game.nrDesired - calls + 1
      BY <1>2, <1>3, <1>7, <2>2, <3>2, <3>3, EnoughAreNoWorse
    <3>5. NrNoWorse(Left', w.pol) >= Solver!NrToReturn
      BY <1>8, <3>4 DEF Solver!NrToReturn
    <3>6. Solver!MayDrop(w.pol, Left')
      BY <3>5, MayBeDropped
    <3>7. QED BY <3>1, <3>6
  <2>3. QED BY <1>2, <2>1, <2>2
<1>10. phase # "idle" /\ phase' # "idle"
  BY <1>1
<1>11. QED BY <1>9, <1>10 DEF Solver!Drop

LEMMA ExpandRefines ==
  ASSUME IInv, NEW top \in Top, phase = "searching", ExpandAllExtensions(top),
         UNCHANGED <<game, solved, CBGlowerBound, calls, answer>>
  PROVE  Solver!Drop
<1> DEFINE rest == openQueue \ {top}
<1>1. /\ top \in openQueue /\ NodeInv(top) /\ game \in Games
      /\ solutions' = solutions /\ phase' = phase /\ ~IsFullySpecifiedPolicy(top)
  BY DEF IInv, TypeOK, Top, OpenNodesAreSound, ExpandAllExtensions
<1>2. solved = TRUE /\ solved' = TRUE
  BY DEF IInv, TypeOK, CallsAreCounted
<1>3. openQueue' = IF IsPruned(top) THEN rest ELSE rest \cup Children(top)
  BY DEF ExpandAllExtensions, Children
<1>4. PoliciesBelow(openQueue) = PoliciesBelow(rest) \cup Completions(top)
  BY <1>1 DEF PoliciesBelow
<1>5. /\ \A n \in Children(top) : Completions(n) \subseteq Completions(top)
      /\ \A pi \in Completions(top) : \E n \in Children(top) : pi \in Completions(n)
  BY <1>1, ChildrenOfTop
<1>6. CASE IsPruned(top)
  <2>1. Left' \subseteq Left /\ Left \ Left' \subseteq Completions(top)
    BY <1>1, <1>2, <1>3, <1>4, <1>6, LeftIs, LeftIsPrimed
  <2>2. ASSUME NEW p \in Completions(top) PROVE Solver!MayDrop(p, Left')
    <3>1. ValueOf(p) <= F(top) /\ ValueOf(p) \in Int /\ F(top) \in Int
      BY <1>1, FBoundsValues
    <3>2. F(top) < CBGlowerBound /\ CBGlowerBound \in Int
      BY <1>6, GamesAssumption DEF IsPruned, IInv, TypeOK
    <3>3. GamePayoff[game][p] < CBGlowerBound
      BY <3>1, <3>2 DEF ValueOf
    <3>4. QED BY <3>3 DEF Solver!MayDrop
  <2>3. QED BY <1>1, <2>1, <2>2 DEF Solver!Drop
<1>7. CASE ~IsPruned(top)
  <2>1. PoliciesBelow(rest \cup Children(top)) = PoliciesBelow(rest) \cup Completions(top)
    BY <1>5 DEF PoliciesBelow
  <2>2. Left' = Left
    BY <1>1, <1>2, <1>3, <1>4, <1>7, <2>1, LeftIs, LeftIsPrimed
  <2>3. QED BY <1>1, <2>2 DEF Solver!Drop
<1>8. QED BY <1>6, <1>7

(* The best solution is the best policy that is left: nothing open is      *)
(* better when the loop ends.                                              *)
LEMMA ReturnNextRefines ==
  ASSUME IInv, ReturnNext, StopIsSound(game)
  PROVE  Solver!Return
<1>1. /\ phase # "idle" /\ phase' = "idle" /\ openQueue' = openQueue /\ solved' = solved
      /\ game' = game /\ CBGlowerBound' = CBGlowerBound /\ calls' = calls
      /\ phase = "stopped" \/ openQueue = {}
  BY DEF ReturnNext
<1>2. solved = TRUE /\ solved' = TRUE
  BY <1>1 DEF IInv, TypeOK, CallsAreCounted
<1>3. Left = PoliciesBelow(openQueue) \cup PoliciesOf(solutions)
      /\ Left' = PoliciesBelow(openQueue) \cup PoliciesOf(solutions')
  BY <1>1, <1>2, LeftIs, LeftIsPrimed
<1>4. BestIsFound
  BY <1>1 DEF IInv, StoppedIsRight, BestIsFound
<1>5. AreSolutions(solutions) /\ NoPolicyTwice
  BY DEF IInv
<1>6. CASE solutions = {}
  <2>1. openQueue = {} /\ answer' = NoPolicy /\ solutions' = {}
    BY <1>1, <1>6 DEF ReturnNext, IInv, StoppedIsRight
  <2>2. Left = {} /\ Left' = {}
    BY <1>3, <1>6, <2>1 DEF PoliciesBelow, PoliciesOf
  <2>3. QED BY <1>1, <2>1, <2>2 DEF Solver!Return
<1>7. CASE solutions # {}
  <2>1. PICK s \in solutions : /\ s.value = Payoff(solutions)
                               /\ answer' = s.pol
                               /\ solutions' = solutions \ {s}
    BY <1>7 DEF ReturnNext
  <2>2. s.pol \in Left /\ Left' = Left \ {s.pol}
    <3>1. \A n \in openQueue : s.pol \notin Completions(n)
      BY <1>5 DEF NoPolicyTwice
    <3>2. s.pol \notin PoliciesBelow(openQueue)
      BY <3>1 DEF PoliciesBelow
    <3>3. \A i \in solutions : i.pol = s.pol => i = s
      BY <1>5 DEF AreSolutions
    <3>4. PoliciesOf(solutions \ {s}) = PoliciesOf(solutions) \ {s.pol} /\ s.pol \in PoliciesOf(solutions)
      BY <3>3 DEF PoliciesOf
    <3>5. QED BY <1>3, <2>1, <3>2, <3>4
  <2>3. \A p \in Left : GamePayoff[game][p] <= GamePayoff[game][s.pol]
    <3>1. GamePayoff[game][s.pol] = Payoff(solutions)
      BY <1>5, <2>1 DEF AreSolutions, ValueOf
    <3>2. \A p \in PoliciesOf(solutions) : GamePayoff[game][p] <= Payoff(solutions)
      BY <1>5, PayoffOfSolutions DEF PoliciesOf, AreSolutions, ValueOf
    <3>3. \A p \in PoliciesBelow(openQueue) : GamePayoff[game][p] <= Payoff(solutions)
      BY <1>4 DEF PoliciesBelow, BestIsFound, ValueOf
    <3>4. QED BY <1>3, <3>1, <3>2, <3>3
  <2>4. Left' \cup ({answer'} \cap Left) = Left /\ Left' \subseteq Left \ {answer'}
        /\ answer' \in Left
    BY <2>1, <2>2
  <2>5. \A p \in Left : GamePayoff[game][p] <= GamePayoff[game][answer']
    BY <2>1, <2>3
  <2>6. QED BY <1>1, <2>4, <2>5 DEF Solver!Return
<1>8. QED BY <1>6, <1>7

LEMMA NextRefines ==
  ASSUME IInv, IInv', [Next]_vars, \A bg \in Games : StopIsSound(bg)
  PROVE  [Solver!Next]_(Solver!solverVars)
<1>1. CASE GetNext
  BY <1>1, GetNextRefines DEF Solver!Next
<1>2. CASE ReSolve
  <2>1. PICK top \in Top : StopAt(top) \/ ProcessTop(top) \/ ExpandAllExtensions(top)
    BY <1>2 DEF ReSolve
  <2>2. phase = "searching" /\ UNCHANGED <<game, solved, CBGlowerBound, calls, answer>>
    BY <1>2 DEF ReSolve
  <2>3. Solver!Drop
    BY <2>1, <2>2, ProcessRefines, ExpandRefines
  <2>4. QED BY <2>3 DEF Solver!Next
<1>3. CASE ReturnNext
  <2>1. StopIsSound(game)
    BY DEF IInv, TypeOK
  <2>2. QED BY <1>3, <2>1, ReturnNextRefines DEF Solver!Next
<1>4. CASE UNCHANGED vars
  <2>1. Left' = Left
    BY <1>4 DEF vars, Left, Completions
  <2>2. QED BY <1>4, <2>1 DEF vars, Solver!solverVars
<1>5. QED BY <1>1, <1>2, <1>3, <1>4 DEF Next

(* The solver keeps the safety part of the contract of an incremental      *)
(* solver, where the upper bounds it stops at are sound: policies come by  *)
(* decreasing payoff, and only policies below the caller's bound, or no    *)
(* better than as many others as can still be asked for, are lost.         *)
THEOREM ImplementsIncrementalSolver ==
  (\A bg \in Games : StopIsSound(bg)) => (Spec => Solver!SafeSpec)
<1> SUFFICES ASSUME \A bg \in Games : StopIsSound(bg) PROVE Spec => Solver!SafeSpec
  OBVIOUS
<1>1. IInv /\ IInv' /\ [Next]_vars => [Solver!Next]_(Solver!solverVars)
  BY NextRefines
<1>2. QED BY <1>1, InitRefines, Invariance, PTL DEF Spec, Solver!SafeSpec

-----------------------------------------------------------------------------
(***************************************************************************)
(* The answer of a solver that is asked for one solution.                  *)
(***************************************************************************)
OnlyCall == game.nrDesired = 1 /\ calls = 1 /\ CBGlowerBound = MinusMax

(* Until the only call returns, a policy is open or no better than the     *)
(* best solution.                                                          *)
AllAreConsidered ==
  OnlyCall /\ phase # "idle" =>
    \A pi \in GamePolicies :
      \/ pi \in PoliciesBelow(openQueue)
      \/ solutions # {} /\ ValueOf(pi) <= Payoff(solutions)

AnswerInv ==
  /\ calls = 0 => solved = FALSE
  /\ AllAreConsidered
  /\ AnswerIsBest

LEMMA GetNextAnswerInv == IInv /\ AnswerInv /\ GetNext => AnswerInv'
<1> SUFFICES ASSUME IInv, AnswerInv, GetNext PROVE AnswerInv'
  OBVIOUS
<1>1. /\ game' = game /\ game \in Games /\ calls' = calls + 1 /\ calls \in Nat
      /\ phase' = "searching" /\ solved' = TRUE
  BY DEF GetNext, IInv, TypeOK
<1>2. AllAreConsidered'
  <2> SUFFICES ASSUME calls' = 1 PROVE \A pi \in GamePolicies : pi \in PoliciesBelow(openQueue')
    BY <1>1 DEF AllAreConsidered, OnlyCall, PoliciesBelow, Completions
  <2>1. solved = FALSE
    BY <1>1 DEF AnswerInv
  <2>2. openQueue' = {Root}
    BY <2>1 DEF GetNext
  <2>3. Completions(Root) = GamePolicies
    BY <1>1, RootInv
  <2>4. QED BY <2>2, <2>3 DEF PoliciesBelow
<1>3. AnswerIsBest'
  BY <1>1 DEF AnswerIsBest
<1>4. QED BY <1>1, <1>2, <1>3 DEF AnswerInv

LEMMA ProcessAnswerInv ==
  ASSUME IInv, AnswerInv, NEW top \in Top, phase = "searching", StopAt(top) \/ ProcessTop(top),
         UNCHANGED <<game, solved, CBGlowerBound, calls, answer>>
  PROVE  AnswerInv'
<1> DEFINE s == Solution(top.pol, ValueOf(top.pol))
<1>1. /\ IsFullySpecifiedPolicy(top) /\ ProcessFullySpecifiedNode(top)
      /\ openQueue' = openQueue \ {top} /\ game' = game /\ phase' # "idle"
  BY DEF StopAt, ProcessTop, ProcessFullySpecifiedNode
<1>2. /\ top \in openQueue /\ Completions(top) = {top.pol} /\ game \in Games /\ top.pol \in GamePolicies
      /\ AreSolutions(solutions') /\ solutions' # {}
      /\ Payoff(solutions') = IF s.value > Payoff(solutions) THEN s.value ELSE Payoff(solutions)
  BY <1>1, ProcessedNode
<1>3. s.value = ValueOf(top.pol) /\ Payoff(solutions) \in Int /\ ValueOf(top.pol) \in Int
  BY <1>2, PayoffOfSolutions, PayoffIsSum DEF Solution, IInv, ValueOf
<1> HIDE DEF s
<1>4. Payoff(solutions) <= Payoff(solutions') /\ ValueOf(top.pol) <= Payoff(solutions')
      /\ Payoff(solutions') \in Int
  BY <1>2, <1>3
<1>5. ASSUME OnlyCall, NEW pi \in GamePolicies
      PROVE  pi \in PoliciesBelow(openQueue') \/ ValueOf(pi) <= Payoff(solutions')
  <2>1. CASE pi \in PoliciesBelow(openQueue)
    <3>1. PICK n \in openQueue : pi \in Completions(n)
      BY <2>1 DEF PoliciesBelow
    <3>2. CASE n = top
      BY <1>2, <1>4, <3>1, <3>2
    <3>3. CASE n # top
      BY <1>1, <3>1, <3>3 DEF PoliciesBelow
    <3>4. QED BY <3>2, <3>3
  <2>2. CASE ValueOf(pi) <= Payoff(solutions)
    <3>1. ValueOf(pi) \in Int
      BY <1>2, PayoffIsSum DEF ValueOf
    <3>2. QED BY <1>3, <1>4, <2>2, <3>1
  <2>3. QED BY <1>5, <2>1, <2>2 DEF AnswerInv, AllAreConsidered
<1>6. AllAreConsidered'
  BY <1>1, <1>2, <1>5, GameStays
  DEF AllAreConsidered, OnlyCall, PoliciesBelow, Completions, Payoff
<1>7. AnswerIsBest'
  BY <1>1 DEF AnswerIsBest
<1>8. QED BY <1>6, <1>7 DEF AnswerInv

LEMMA ExpandAnswerInv ==
  ASSUME IInv, AnswerInv, NEW top \in Top, phase = "searching", ExpandAllExtensions(top),
         UNCHANGED <<game, solved, CBGlowerBound, calls, answer>>
  PROVE  AnswerInv'
<1>1. /\ top \in openQueue /\ NodeInv(top) /\ game \in Games
      /\ solutions' = solutions /\ phase' = phase /\ ~IsFullySpecifiedPolicy(top) /\ game' = game
  BY DEF IInv, TypeOK, Top, OpenNodesAreSound, ExpandAllExtensions
<1>2. openQueue' = (openQueue \ {top}) \cup (IF IsPruned(top) THEN {} ELSE Children(top))
  BY DEF ExpandAllExtensions, Children
<1>3. ASSUME OnlyCall, NEW pi \in PoliciesBelow(openQueue) PROVE pi \in PoliciesBelow(openQueue')
  <2>1. PICK n \in openQueue : pi \in Completions(n)
    BY DEF PoliciesBelow
  <2>2. CASE n # top
    BY <1>2, <2>1, <2>2 DEF PoliciesBelow
  <2>3. CASE n = top
    <3>1. ValueOf(pi) <= F(top) /\ ValueOf(pi) \in Int /\ F(top) \in Int
      BY <1>1, <2>1, <2>3, FBoundsValues
    <3>2. MinusMax <= ValueOf(pi) /\ MinusMax \in Int
      BY <1>1, <2>1, PayoffsAssumption, GamesAssumption DEF ValueOf, Completions
    <3>3. ~IsPruned(top)
      BY <1>3, <3>1, <3>2 DEF IsPruned, OnlyCall
    <3>4. PICK m \in Children(top) : pi \in Completions(m)
      BY <1>1, <2>1, <2>3, ChildrenOfTop
    <3>5. QED BY <1>2, <3>3, <3>4 DEF PoliciesBelow
  <2>4. QED BY <2>2, <2>3
<1>4. AllAreConsidered'
  BY <1>1, <1>3, GameStays
  DEF AnswerInv, AllAreConsidered, OnlyCall, PoliciesBelow, Completions, Payoff
<1>5. AnswerIsBest'
  BY <1>1 DEF AnswerIsBest
<1>6. QED BY <1>4, <1>5 DEF AnswerInv

LEMMA ReturnNextAnswerInv ==
  ASSUME IInv, AnswerInv, ReturnNext, StopIsSound(game)
  PROVE  AnswerInv'
<1>1. /\ phase # "idle" /\ phase' = "idle" /\ solved' = solved
      /\ game' = game /\ CBGlowerBound' = CBGlowerBound /\ calls' = calls
      /\ phase = "stopped" \/ openQueue = {}
  BY DEF ReturnNext
<1>2. AnswerIsBest'
  <2> SUFFICES ASSUME OnlyCall
               PROVE  answer' # NoPolicy /\ \A pi \in GamePolicies : ValueOf(pi) <= ValueOf(answer')
    BY <1>1, GameStays DEF AnswerIsBest, OnlyCall
  <2>1. BestIsFound /\ AreSolutions(solutions)
    BY <1>1 DEF IInv, StoppedIsRight, BestIsFound
  <2>2. \A pi \in GamePolicies : ValueOf(pi) <= Payoff(solutions)
    BY <1>1, <2>1 DEF AnswerInv, AllAreConsidered, BestIsFound, PoliciesBelow
  <2>3. solutions # {}
    <3>1. CASE phase = "stopped"
      BY <3>1 DEF IInv, StoppedIsRight
    <3>2. CASE openQueue = {}
      <4>1. PICK a \in Actions : TRUE
        BY SizesAssumption
      <4>2. [x \in AgentTypes |-> a] \in GamePolicies
        BY DEF GamePolicies
      <4>3. PoliciesBelow(openQueue) = {}
        BY <3>2 DEF PoliciesBelow
      <4>4. QED BY <1>1, <4>2, <4>3 DEF AnswerInv, AllAreConsidered
    <3>3. QED BY <1>1, <3>1, <3>2
  <2>4. PICK s \in solutions : s.value = Payoff(solutions) /\ answer' = s.pol
    BY <2>3 DEF ReturnNext
  <2>5. s.pol \in GamePolicies /\ ValueOf(s.pol) = Payoff(solutions)
    BY <2>1, <2>4 DEF AreSolutions
  <2>6. QED BY <2>2, <2>4, <2>5, GamesAssumption
<1>3. AllAreConsidered'
  BY <1>1 DEF AllAreConsidered
<1>4. QED BY <1>1, <1>2, <1>3 DEF AnswerInv

LEMMA NextAnswerInv ==
  ASSUME IInv, AnswerInv, [Next]_vars, \A bg \in Games : StopIsSound(bg)
  PROVE  AnswerInv'
<1>1. CASE GetNext
  BY <1>1, GetNextAnswerInv
<1>2. CASE ReSolve
  <2>1. PICK top \in Top : StopAt(top) \/ ProcessTop(top) \/ ExpandAllExtensions(top)
    BY <1>2 DEF ReSolve
  <2>2. phase = "searching" /\ UNCHANGED <<game, solved, CBGlowerBound, calls, answer>>
    BY <1>2 DEF ReSolve
  <2>3. QED BY <2>1, <2>2, ProcessAnswerInv, ExpandAnswerInv
<1>3. CASE ReturnNext
  <2>1. StopIsSound(game)
    BY DEF IInv, TypeOK
  <2>2. QED BY <1>3, <2>1, ReturnNextAnswerInv
<1>4. CASE UNCHANGED vars
  <2>1. game' = game
    BY <1>4 DEF vars
  <2>2. QED BY <1>4, <2>1, GameStays
    DEF vars, AnswerInv, AllAreConsidered, AnswerIsBest, OnlyCall, PoliciesBelow, Completions, Payoff
<1>5. QED BY <1>1, <1>2, <1>3, <1>4 DEF Next

(* Where the upper bound it stops at is sound, a solver that is asked for  *)
(* one solution, without a lower bound, answers with the best policy.      *)
THEOREM OneSolutionIsBest ==
  (\A bg \in Games : StopIsSound(bg)) => (Spec => []AnswerIsBest)
<1> SUFFICES ASSUME \A bg \in Games : StopIsSound(bg) PROVE Spec => []AnswerIsBest
  OBVIOUS
<1>1. Init => AnswerInv
  BY DEF Init, AnswerInv, AllAreConsidered, AnswerIsBest
<1>2. IInv /\ AnswerInv /\ [Next]_vars => AnswerInv'
  BY NextAnswerInv
<1>3. AnswerInv => AnswerIsBest
  BY DEF AnswerInv
<1>4. QED BY <1>1, <1>2, <1>3, Invariance, PTL DEF Spec
===============================================================================
