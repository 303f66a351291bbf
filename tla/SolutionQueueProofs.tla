-------------------------- MODULE SolutionQueueProofs --------------------------
(***************************************************************************)
(* BGIPSolution keeps the best of what the solvers find and returns        *)
(* nothing twice, for every capacity, every set of policies and every      *)
(* sequence of additions, as long as the indices of the policies fit: into *)
(* an LIndex, or duplicates would not be seen, and into an Index, or the   *)
(* erased index would be that of another policy.                           *)
(***************************************************************************)
EXTENDS SolutionQueue, FiniteSetTheorems, WellFoundedInduction, TLAPS

Elements(q) == {q[i] : i \in 1..Len(q)}

Sorted(q) == \A i, j \in 1..Len(q) : i < j => Value[q[j]] <= Value[q[i]]

Distinct(q) == \A i, j \in 1..Len(q) : q[i] = q[j] => i = j

(* A finite set of integers that is not empty has a greatest element.      *)
LEMMA FiniteSetHasGreatest ==
  ASSUME NEW S, IsFiniteSet(S), S \subseteq Int, S # {}
  PROVE  \E g \in S : \A x \in S : x <= g
<1> DEFINE Above == [x \in S |-> {y \in S : y > x}]
           T == {Above[x] : x \in S}
<1>1. /\ \A x \in S : Above[x] \in SUBSET S
      /\ \A x, y \in S : y \in Above[x] <=> y > x
  OBVIOUS
<1> HIDE DEF Above
<1>2. T \subseteq FiniteSubsetsOf(S) /\ T # {}
  <2>1. FiniteSubsetsOf(S) = SUBSET S
    BY FS_FiniteSubsetsOfFinite
  <2>2. T \subseteq SUBSET S
    BY <1>1
  <2>3. \A x \in S : Above[x] \in T
    OBVIOUS
  <2>4. T # {}
    BY <2>3
  <2>5. QED BY <2>1, <2>2, <2>4
<1>3. PICK U \in T : \A V \in T : <<V, U>> \notin StrictSubsetOrdering(S)
  <2> HIDE DEF T
  <2>1. QED BY <1>2, FS_StrictSubsetOrderingWellFounded, WFMin
<1>4. PICK g \in S : U = Above[g]
  BY <1>3
<1>5. ASSUME NEW x \in S, ~(x <= g) PROVE FALSE
  <2>1. x \in Int /\ g \in Int /\ \A y \in S : y \in Int
    BY <1>4
  <2>2. \A y \in S : y > x => y > g
    BY <1>5, <2>1
  <2>3. Above[x] \subseteq Above[g] /\ x \in Above[g] /\ x \notin Above[x]
    <3>1. x > g /\ ~(x > x)
      BY <1>5, <2>1
    <3>2. Above[x] \subseteq S
      BY <1>1
    <3>3. \A y \in Above[x] : y \in Above[g]
      BY <1>1, <1>4, <2>2, <3>2
    <3>4. QED BY <1>1, <1>4, <3>1, <3>3
  <2>4. <<Above[x], Above[g]>> \in StrictSubsetOrdering(S)
    BY <1>1, <1>4, <2>3 DEF StrictSubsetOrdering
  <2>5. QED BY <1>3, <1>4, <2>4
<1>6. QED BY <1>4, <1>5

-----------------------------------------------------------------------------
(***************************************************************************)
(* Insertion into a sequence.                                              *)
(***************************************************************************)

(* What is at each place of a sequence after an insertion.                 *)
LEMMA InsertAtPlaces ==
  ASSUME NEW q \in Seq(JPolicies), NEW p \in JPolicies, NEW i \in 1..Len(q)+1
  PROVE  LET r == InsertAt(q, i, p)
         IN /\ r \in Seq(JPolicies)
            /\ Len(r) = Len(q) + 1
            /\ \A j \in 1..i-1 : r[j] = q[j]
            /\ r[i] = p
            /\ \A j \in i..Len(q) : r[j + 1] = q[j]
<1> DEFINE front == SubSeq(q, 1, i - 1)
           back == SubSeq(q, i, Len(q))
           both == front \o <<p>>
<1>1. Len(q) \in Nat /\ i \in Nat /\ 1 <= i /\ i <= Len(q) + 1
  OBVIOUS
<1>2. front \in Seq(JPolicies) /\ Len(front) = i - 1 /\ \A j \in 1..i-1 : front[j] = q[j]
  BY <1>1
<1>3. /\ back \in Seq(JPolicies) /\ Len(back) = Len(q) - i + 1
      /\ \A j \in 1..Len(q)-i+1 : back[j] = q[i + j - 1]
  BY <1>1
<1> HIDE DEF front, back
<1>4. /\ both \in Seq(JPolicies) /\ Len(both) = i
      /\ \A j \in 1..i-1 : both[j] = front[j]
      /\ both[i] = p
  BY <1>1, <1>2
<1> HIDE DEF both
<1>5. /\ both \o back \in Seq(JPolicies)
      /\ Len(both \o back) = i + (Len(q) - i + 1)
      /\ \A j \in 1..i : (both \o back)[j] = both[j]
      /\ \A j \in 1..Len(q)-i+1 : (both \o back)[i + j] = back[j]
  <2>1. Len(back) = Len(q) - i + 1 /\ Len(both) = i /\ i \in Nat /\ Len(q) \in Nat /\ i <= Len(q) + 1
    BY <1>1, <1>3, <1>4
  <2>2. both \o back \in Seq(JPolicies) /\ Len(both \o back) = Len(both) + Len(back)
    <3>1. both \in Seq(JPolicies) /\ back \in Seq(JPolicies)
      BY <1>3, <1>4
    <3>2. QED BY ONLY <3>1
  <2>3. \A j \in 1..Len(both)+Len(back) :
          (both \o back)[j] = IF j <= Len(both) THEN both[j] ELSE back[j - Len(both)]
    BY <1>3, <1>4
  <2>4. ASSUME NEW j \in 1..Len(q)-i+1 PROVE (both \o back)[i + j] = back[j]
    <3>1. i + j \in 1..Len(both)+Len(back) /\ ~(i + j <= Len(both)) /\ i + j - Len(both) = j
      BY <2>1
    <3>2. QED BY <2>3, <3>1
  <2>5. ASSUME NEW j \in 1..i PROVE (both \o back)[j] = both[j]
    <3>1. j \in 1..Len(both)+Len(back) /\ j <= Len(both)
      BY <2>1
    <3>2. QED BY <2>3, <3>1
  <2>6. QED BY <2>1, <2>2, <2>4, <2>5
<1>6. InsertAt(q, i, p) = both \o back
  BY DEF InsertAt, front, back, both
<1>7. ASSUME NEW j \in i..Len(q) PROVE (both \o back)[j + 1] = q[j]
  <2>1. j - i + 1 \in 1..Len(q)-i+1 /\ i + (j - i + 1) = j + 1 /\ i + (j - i + 1) - 1 = j
    BY <1>1
  <2>2. QED BY <1>3, <1>5, <2>1
<1>8. \A j \in 1..i-1 : (both \o back)[j] = q[j]
  BY <1>1, <1>2, <1>4, <1>5
<1>9. (both \o back)[i] = p
  BY <1>1, <1>4, <1>5
<1>10. Len(both \o back) = Len(q) + 1
  BY <1>1, <1>5
<1>11. QED BY <1>5, <1>6, <1>7, <1>8, <1>9, <1>10

(* An insertion adds one element.                                          *)
LEMMA InsertAtElements ==
  ASSUME NEW q \in Seq(JPolicies), NEW p \in JPolicies, NEW i \in 1..Len(q)+1
  PROVE  /\ Elements(InsertAt(q, i, p)) = Elements(q) \cup {p}
         /\ Distinct(q) /\ p \notin Elements(q) => Distinct(InsertAt(q, i, p))
<1> DEFINE r == InsertAt(q, i, p)
<1>1. /\ r \in Seq(JPolicies)
      /\ Len(r) = Len(q) + 1
      /\ \A j \in 1..i-1 : r[j] = q[j]
      /\ r[i] = p
      /\ \A j \in i..Len(q) : r[j + 1] = q[j]
  BY InsertAtPlaces
<1>2. Len(q) \in Nat /\ i \in 1..Len(q)+1
  OBVIOUS
<1> HIDE DEF r
<1>3. \A j \in 1..Len(r) : \/ j \in 1..i-1 /\ j \in 1..Len(q) /\ r[j] = q[j]
                           \/ j = i /\ r[j] = p
                           \/ j - 1 \in i..Len(q) /\ j - 1 \in 1..Len(q) /\ r[j] = q[j - 1]
  <2> SUFFICES ASSUME NEW j \in 1..Len(r)
               PROVE  \/ j \in 1..i-1 /\ j \in 1..Len(q) /\ r[j] = q[j]
                      \/ j = i /\ r[j] = p
                      \/ j - 1 \in i..Len(q) /\ j - 1 \in 1..Len(q) /\ r[j] = q[j - 1]
    OBVIOUS
  <2>1. CASE j < i
    BY <1>1, <1>2, <2>1
  <2>2. CASE j = i
    BY <1>1, <2>2
  <2>3. CASE j > i
    <3>1. j - 1 \in i..Len(q) /\ (j - 1) + 1 = j
      BY <1>1, <1>2, <2>3
    <3>2. r[(j - 1) + 1] = q[j - 1]
      BY <1>1, <3>1
    <3>3. QED BY <1>2, <3>1, <3>2
  <2>4. QED BY <1>2, <2>1, <2>2, <2>3
<1>4. Elements(r) = Elements(q) \cup {p}
  <2>1. Elements(r) \subseteq Elements(q) \cup {p}
    BY <1>3 DEF Elements
  <2>2. p \in Elements(r)
    BY <1>1, <1>2 DEF Elements
  <2>3. ASSUME NEW j \in 1..Len(q) PROVE q[j] \in Elements(r)
    <3>1. CASE j < i
      <4>1. j \in 1..Len(r) /\ r[j] = q[j]
        BY <1>1, <1>2, <3>1
      <4>2. QED BY <4>1 DEF Elements
    <3>2. CASE ~(j < i)
      <4>1. j + 1 \in 1..Len(r) /\ r[j + 1] = q[j]
        BY <1>1, <1>2, <3>2
      <4>2. QED BY <4>1 DEF Elements
    <3>3. QED BY <3>1, <3>2
  <2>4. QED BY <2>1, <2>2, <2>3 DEF Elements
<1>5. ASSUME Distinct(q), p \notin Elements(q) PROVE Distinct(r)
  <2> SUFFICES ASSUME NEW j \in 1..Len(r), NEW k \in 1..Len(r), r[j] = r[k], j < k PROVE FALSE
    <3>1. \A j, k \in 1..Len(r) : r[j] = r[k] => ~(j < k) /\ ~(k < j)
      OBVIOUS
    <3>2. QED BY <1>1, <1>2, <3>1 DEF Distinct
  <2>1. \A l \in 1..Len(q) : q[l] # p
    BY <1>5 DEF Elements
  <2>2. \A l, m \in 1..Len(q) : q[l] = q[m] => l = m
    BY <1>5 DEF Distinct
  <2>3. j \in Int /\ k \in Int
    OBVIOUS
  <2>4. \/ j \in 1..Len(q) /\ j < i /\ r[j] = q[j]
        \/ j = i /\ r[j] = p
        \/ j - 1 \in 1..Len(q) /\ j > i /\ r[j] = q[j - 1]
    BY <1>2, <1>3, <2>3
  <2>5. \/ k \in 1..Len(q) /\ k < i /\ r[k] = q[k]
        \/ k = i /\ r[k] = p
        \/ k - 1 \in 1..Len(q) /\ k > i /\ r[k] = q[k - 1]
    BY <1>2, <1>3, <2>3
  <2>6. CASE j = i
    BY <1>2, <2>1, <2>3, <2>4, <2>5, <2>6
  <2>7. CASE j < i
    <3>1. j \in 1..Len(q) /\ r[j] = q[j]
      BY <1>2, <2>3, <2>4, <2>7
    <3>2. QED BY <1>2, <2>1, <2>2, <2>3, <2>5, <2>7, <3>1
  <2>8. CASE j > i
    <3>1. j - 1 \in 1..Len(q) /\ r[j] = q[j - 1] /\ k - 1 \in 1..Len(q) /\ r[k] = q[k - 1]
      BY <1>2, <2>3, <2>4, <2>5, <2>8
    <3>2. j - 1 = k - 1
      BY <2>2, <3>1
    <3>3. QED BY <2>3, <3>2
  <2>9. QED BY <1>2, <2>3, <2>6, <2>7, <2>8
<1>6. QED BY <1>4, <1>5 DEF r

(* An insertion at a place that fits keeps the sequence sorted.            *)
LEMMA InsertAtSorted ==
  ASSUME NEW q \in Seq(JPolicies), NEW p \in JPolicies, NEW i \in 1..Len(q)+1, Sorted(q),
         \A j \in 1..i-1 : Value[p] <= Value[q[j]],
         \A j \in i..Len(q) : Value[q[j]] <= Value[p]
  PROVE  Sorted(InsertAt(q, i, p))
<1> DEFINE r == InsertAt(q, i, p)
<1>1. /\ r \in Seq(JPolicies)
      /\ Len(r) = Len(q) + 1
      /\ \A j \in 1..i-1 : r[j] = q[j]
      /\ r[i] = p
      /\ \A j \in i..Len(q) : r[j + 1] = q[j]
  BY InsertAtPlaces
<1>2. Len(q) \in Nat /\ i \in 1..Len(q)+1
  OBVIOUS
<1> HIDE DEF r
<1> SUFFICES ASSUME NEW j \in 1..Len(r), NEW k \in 1..Len(r), j < k
             PROVE  Value[r[k]] <= Value[r[j]]
  BY DEF Sorted, r
<1>3. \A l \in 1..Len(q) : Value[q[l]] \in Int
  BY QueueAssumption
<1>4. CASE k < i
  BY <1>1, <1>2, <1>4 DEF Sorted
<1>5. CASE k = i
  BY <1>1, <1>2, <1>5
<1>6. CASE k > i
  <2>1. k - 1 \in i..Len(q) /\ (k - 1) + 1 = k
    BY <1>1, <1>2, <1>6
  <2>2. r[k] = q[k - 1]
    BY <1>1, <2>1
  <2>3. CASE j = i
    BY <1>1, <2>1, <2>2, <2>3
  <2>4. CASE j < i
    <3>1. j \in 1..i-1 /\ j \in 1..Len(q) /\ k - 1 \in 1..Len(q) /\ j < k - 1
      BY <1>1, <1>2, <2>1, <2>4
    <3>2. r[j] = q[j]
      BY <1>1, <3>1
    <3>3. QED BY <2>2, <3>1, <3>2 DEF Sorted
  <2>5. CASE j > i
    <3>1. j - 1 \in i..Len(q) /\ (j - 1) + 1 = j /\ j - 1 \in 1..Len(q) /\ k - 1 \in 1..Len(q)
      BY <1>1, <1>2, <2>1, <2>5
    <3>2. r[j] = q[j - 1] /\ j - 1 < k - 1
      BY <1>1, <3>1
    <3>3. QED BY <2>2, <3>1, <3>2 DEF Sorted
  <2>6. QED BY <1>2, <2>3, <2>4, <2>5
<1>7. QED BY <1>1, <1>2, <1>4, <1>5, <1>6

(* In a sorted queue there is a place for p.                               *)
LEMMA PositionExists ==
  ASSUME NEW q \in Seq(JPolicies), NEW p \in JPolicies, Sorted(q)
  PROVE  Positions(q, p) # {}
<1> DEFINE S == {k \in 0..Len(q) : \A j \in 1..k : ~Less(q[j], p)}
<1>1. Len(q) \in Nat
  OBVIOUS
<1>2. 0 \in S /\ S \subseteq 0..Len(q) /\ S \subseteq Int
  BY <1>1
<1>3. IsFiniteSet(S)
  <2>1. IsFiniteSet(0..Len(q))
    BY <1>1, FS_Interval
  <2> HIDE DEF S
  <2>2. QED BY <1>2, <2>1, FS_Subset
<1>4. PICK k \in S : \A x \in S : x <= k
  <2> HIDE DEF S
  <2>1. QED BY <1>2, <1>3, FiniteSetHasGreatest
<1>5. k \in 0..Len(q) /\ \A j \in 1..k : ~Less(q[j], p)
  OBVIOUS
<1>6. ASSUME NEW j \in k+1..Len(q) PROVE Less(q[j], p)
  <2>1. k + 1 \in 0..Len(q) /\ k + 1 \in 1..Len(q) /\ j \in 1..Len(q)
    BY <1>1, <1>5
  <2>2. k + 1 \notin S
    BY <1>4, <1>5
  <2>3. Less(q[k + 1], p)
    <3>1. \E l \in 1..k+1 : Less(q[l], p)
      BY <2>1, <2>2
    <3>2. QED BY <1>5, <3>1
  <2>4. Value[q[k + 1]] \in Int /\ Value[q[j]] \in Int /\ Value[p] \in Int
    BY <2>1, QueueAssumption
  <2>5. Value[q[j]] <= Value[q[k + 1]]
    BY <1>5, <2>1, <2>4 DEF Sorted
  <2>6. QED BY <2>3, <2>4, <2>5 DEF Less
<1>7. k + 1 \in 1..Len(q)+1 /\ (k + 1) - 1 = k
  BY <1>1, <1>5
<1>8. k + 1 \in Positions(q, p)
  BY <1>5, <1>6, <1>7 DEF Positions
<1>9. QED BY <1>8

-----------------------------------------------------------------------------
(***************************************************************************)
(* Insertion into the queue of fixed size and into the other.              *)
(***************************************************************************)

(* What is in the queue of fixed size after an insertion: what was there,  *)
(* with p, and without what was thrown out, the last of the queue or p.    *)
LEMMA InsertedEffect ==
  ASSUME NEW q \in Seq(JPolicies), NEW p \in JPolicies, Sorted(q),
         capacity # Infinite, capacity \in Nat \ {0}, Len(q) <= capacity
  PROVE  /\ Inserted(q, p) \in Seq(JPolicies)
         /\ Sorted(Inserted(q, p))
         /\ Len(Inserted(q, p)) <= capacity
         /\ Overflown(q) => Overflown(Inserted(q, p))
         /\ ~Overflown(q) =>
              /\ Elements(Inserted(q, p)) = Elements(q) \cup {p}
              /\ Distinct(q) /\ p \notin Elements(q) => Distinct(Inserted(q, p))
         /\ Overflown(q) =>
              /\ Last(q) \in Elements(q)
              /\ \/ /\ Less(Last(q), p)
                    /\ ThrownOut(q, p) = Last(q)
                    /\ Distinct(q) /\ p \notin Elements(q) =>
                         /\ Distinct(Inserted(q, p))
                         /\ Elements(Inserted(q, p)) = (Elements(q) \ {Last(q)}) \cup {p}
                 \/ /\ ~Less(Last(q), p)
                    /\ ThrownOut(q, p) = p
                    /\ Inserted(q, p) = q
<1> DEFINE kept == IF Overflown(q) THEN Front(q) ELSE q
           place == CHOOSE i \in Positions(kept, p) : TRUE
<1>1. Len(q) \in Nat /\ capacity \in Nat /\ capacity > 0
  OBVIOUS
<1>2. ASSUME Overflown(q)
      PROVE  /\ Len(q) = capacity
             /\ Front(q) \in Seq(JPolicies) /\ Len(Front(q)) = Len(q) - 1
             /\ \A j \in 1..Len(q)-1 : Front(q)[j] = q[j]
             /\ Last(q) \in JPolicies /\ Last(q) = q[Len(q)] /\ Last(q) \in Elements(q)
  BY <1>1, <1>2 DEF Overflown, Front, Last, Elements
<1>3. kept \in Seq(JPolicies) /\ Sorted(kept)
  <2>1. CASE Overflown(q)
    <3>1. \A j \in 1..Len(Front(q)) : j \in 1..Len(q) /\ Front(q)[j] = q[j]
      BY <1>1, <1>2, <2>1
    <3>2. Sorted(Front(q))
      BY <3>1 DEF Sorted
    <3>3. QED BY <1>2, <2>1, <3>2
  <2>2. CASE ~Overflown(q)
    BY <2>2
  <2>3. QED BY <2>1, <2>2
<1> HIDE DEF kept
<1>4. place \in Positions(kept, p)
  BY <1>3, PositionExists
<1> HIDE DEF place
<1>5. /\ place \in 1..Len(kept)+1
      /\ \A j \in 1..place-1 : ~Less(kept[j], p)
      /\ \A j \in place..Len(kept) : Less(kept[j], p)
  BY <1>4 DEF Positions
<1> DEFINE r == InsertAt(kept, place, p)
<1>6. r \in Seq(JPolicies) /\ Len(r) = Len(kept) + 1
  BY <1>3, <1>5, InsertAtPlaces
<1>7. /\ Elements(r) = Elements(kept) \cup {p}
      /\ Distinct(kept) /\ p \notin Elements(kept) => Distinct(r)
  BY <1>3, <1>5, InsertAtElements
<1>8. Sorted(r)
  <2>1. Len(kept) \in Nat /\ \A j \in 1..Len(kept) : Value[kept[j]] \in Int /\ Value[p] \in Int
    BY <1>3, QueueAssumption
  <2>2. \A j \in 1..place-1 : Value[p] <= Value[kept[j]]
    BY <1>5, <2>1 DEF Less
  <2>3. \A j \in place..Len(kept) : Value[kept[j]] <= Value[p]
    BY <1>5, <2>1 DEF Less
  <2>4. QED BY <1>3, <1>5, <2>2, <2>3, InsertAtSorted
<1> HIDE DEF r
<1>9. CASE ~Overflown(q)
  <2>1. kept = q /\ Inserted(q, p) = r
    BY <1>9 DEF Inserted, WithRoom, Place, kept, r, place
  <2>2. Len(q) < capacity
    BY <1>1, <1>9 DEF Overflown
  <2>3. QED BY <1>1, <1>6, <1>7, <1>8, <1>9, <2>1, <2>2
<1>10. CASE Overflown(q) /\ Less(Last(q), p)
  <2>1. Value[p] \in Int
    BY QueueAssumption
  <2>2. ThrownOut(q, p) = Last(q) /\ Last(q) # p
    BY <1>10, <2>1 DEF ThrownOut, Less
  <2>3. kept = Front(q) /\ Inserted(q, p) = r
    BY <1>10, <2>2 DEF Inserted, WithRoom, Place, kept, r, place
  <2>4. Len(r) = capacity
    BY <1>1, <1>2, <1>6, <1>10, <2>3
  <2>5. \A j \in 1..Len(kept) : j \in 1..Len(q) /\ j # Len(q) /\ kept[j] = q[j]
    BY <1>1, <1>2, <1>10, <2>3
  <2>6. ASSUME Distinct(q), p \notin Elements(q)
        PROVE  Distinct(kept) /\ Elements(kept) = Elements(q) \ {Last(q)}
    <3>1. \A i, j \in 1..Len(q) : q[i] = q[j] => i = j
      BY <2>6 DEF Distinct
    <3>2. Distinct(kept)
      BY <2>5, <3>1 DEF Distinct
    <3>3. Elements(kept) \subseteq Elements(q) \ {Last(q)}
      <4>1. Len(q) \in 1..Len(q)
        BY <1>1, <1>2, <1>10
      <4>2. QED BY <1>2, <1>10, <2>5, <3>1, <4>1 DEF Elements
    <3>4. ASSUME NEW j \in 1..Len(q), q[j] # Last(q) PROVE q[j] \in Elements(kept)
      <4>1. j # Len(q)
        BY <1>2, <1>10, <3>4
      <4>2. j \in 1..Len(kept) /\ kept[j] = q[j]
        BY <1>1, <1>2, <1>10, <2>3, <4>1
      <4>3. QED BY <4>2 DEF Elements
    <3>5. QED BY <3>2, <3>3, <3>4 DEF Elements
  <2>7. Overflown(r)
    BY <2>4 DEF Overflown
  <2>8. ASSUME Distinct(q), p \notin Elements(q)
        PROVE  Distinct(r) /\ Elements(r) = (Elements(q) \ {Last(q)}) \cup {p}
    BY <1>7, <2>6, <2>8
  <2>9. Len(r) <= capacity
    BY <1>1, <2>4
  <2>10. QED BY <1>2, <1>6, <1>8, <1>10, <2>2, <2>3, <2>7, <2>8, <2>9
<1>11. CASE Overflown(q) /\ ~Less(Last(q), p)
  <2>1. ThrownOut(q, p) = p /\ Inserted(q, p) = q
    BY <1>11 DEF ThrownOut, Inserted
  <2>2. QED BY <1>2, <1>11, <2>1
<1>12. QED BY <1>9, <1>10, <1>11

(* What is in the other queue after an insertion: what was there, with p.  *)
LEMMA PushedEffect ==
  ASSUME NEW q \in Seq(JPolicies), NEW p \in JPolicies, Sorted(q), NEW r \in Pushed(q, p)
  PROVE  /\ r \in Seq(JPolicies)
         /\ Sorted(r)
         /\ Elements(r) = Elements(q) \cup {p}
         /\ Distinct(q) /\ p \notin Elements(q) => Distinct(r)
<1>1. PICK i \in 1..Len(q)+1 :
        /\ \A j \in 1..i-1 : ~Less(q[j], p)
        /\ \A j \in i..Len(q) : ~Less(p, q[j])
        /\ r = InsertAt(q, i, p)
  BY DEF Pushed
<1>2. Len(q) \in Nat /\ Value[p] \in Int /\ \A j \in 1..Len(q) : Value[q[j]] \in Int
  BY QueueAssumption
<1>3. \A j \in 1..i-1 : Value[p] <= Value[q[j]]
  BY <1>1, <1>2 DEF Less
<1>4. \A j \in i..Len(q) : Value[q[j]] <= Value[p]
  BY <1>1, <1>2 DEF Less
<1>5. Sorted(r)
  BY <1>1, <1>3, <1>4, InsertAtSorted
<1>6. r \in Seq(JPolicies)
  BY <1>1, InsertAtPlaces
<1>7. QED BY <1>1, <1>5, <1>6, InsertAtElements

-----------------------------------------------------------------------------
(***************************************************************************)
(* Type correctness.  The queue is sorted, or else there would be no place *)
(* for the next policy.                                                    *)
(***************************************************************************)

TypeInv == TypeOK /\ Sorted(queue)

(* The capacity of a queue of fixed size is a number.                      *)
LEMMA CapacityIsNumber ==
  ASSUME TypeOK, capacity # Infinite
  PROVE  capacity \in Nat \ {0} /\ Len(queue) <= capacity
BY QueueAssumption DEF TypeOK

(* Both kinds of additions keep the types.                                 *)
LEMMA AddSolutionTypes ==
  ASSUME TypeInv, NEW p \in JPolicies, UNCHANGED capacity,
         AddIndexed(p) \/ AddOverflowing(p)
  PROVE  /\ queue' \in Seq(JPolicies) /\ Sorted(queue')
         /\ capacity # Infinite => Len(queue') <= capacity
         /\ jpolIndices' \subseteq Nat
<1>1. queue \in Seq(JPolicies) /\ Sorted(queue) /\ jpolIndices \subseteq Nat /\ PolicyIndex[p] \in Nat
  BY QueueAssumption DEF TypeInv, TypeOK
<1>2. jpolIndices' \subseteq Nat
  <2>1. jpolIndices' \subseteq jpolIndices \cup {PolicyIndex[p], 0}
    BY DEF AddIndexed, AddOverflowing
  <2>2. QED BY <1>1, <2>1
<1>3. CASE UNCHANGED queue
  BY <1>1, <1>2, <1>3 DEF TypeInv, TypeOK
<1>4. CASE queue' \in Pushed(queue, p) /\ capacity = Infinite
  BY <1>1, <1>2, <1>4, PushedEffect
<1>5. CASE queue' = Inserted(queue, p) /\ capacity # Infinite
  BY <1>1, <1>2, <1>5, InsertedEffect, CapacityIsNumber DEF TypeInv
<1>6. CASE queue' = Inserted(Inserted(queue, p), p) /\ capacity # Infinite
  <2>1. capacity \in Nat \ {0} /\ Len(queue) <= capacity
    BY <1>6, CapacityIsNumber DEF TypeInv
  <2> DEFINE once == Inserted(queue, p)
  <2>2. once \in Seq(JPolicies) /\ Sorted(once) /\ Len(once) <= capacity
    BY <1>1, <1>6, <2>1, InsertedEffect
  <2>3. queue' = Inserted(once, p)
    BY <1>6
  <2> HIDE DEF once
  <2>4. QED BY <1>2, <1>6, <2>1, <2>2, <2>3, InsertedEffect
<1>7. QED BY <1>3, <1>4, <1>5, <1>6 DEF AddIndexed, AddOverflowing

(* What a pop leaves, and what it returns.                                 *)
LEMMA PopEffect ==
  ASSUME TypeInv, PopNextSolution
  PROVE  /\ UNCHANGED <<capacity, jpolIndices, added>>
         /\ queue' \in Seq(JPolicies) /\ Len(queue') = Len(queue) - 1 /\ Len(queue) > 0
         /\ \A i \in 1..Len(queue') : queue'[i] = queue[i + 1] /\ i + 1 \in 1..Len(queue)
         /\ returned' \in Seq(JPolicies) /\ Len(returned') = Len(returned) + 1
         /\ \A i \in 1..Len(returned) : returned'[i] = returned[i]
         /\ returned'[Len(returned) + 1] = queue[1]
<1>1. queue \in Seq(JPolicies) /\ queue # << >> /\ returned \in Seq(JPolicies)
  BY DEF TypeInv, TypeOK, PopNextSolution
<1>2. queue' = Tail(queue) /\ returned' = Append(returned, Head(queue))
  BY DEF PopNextSolution
<1>3. Len(queue) \in Nat /\ Len(queue) > 0
  BY <1>1
<1>4. /\ Tail(queue) \in Seq(JPolicies) /\ Len(Tail(queue)) = Len(queue) - 1
      /\ \A i \in 1..Len(Tail(queue)) : Tail(queue)[i] = queue[i + 1]
  BY <1>1
<1>5. Head(queue) = queue[1] /\ Head(queue) \in JPolicies
  BY <1>1
<1>6. /\ Append(returned, Head(queue)) \in Seq(JPolicies)
      /\ Len(Append(returned, Head(queue))) = Len(returned) + 1
      /\ \A i \in 1..Len(returned) : Append(returned, Head(queue))[i] = returned[i]
      /\ Append(returned, Head(queue))[Len(returned) + 1] = queue[1]
  BY <1>1, <1>5
<1>7. \A i \in 1..Len(queue') : i + 1 \in 1..Len(queue)
  BY <1>2, <1>3, <1>4
<1>8. QED BY <1>2, <1>3, <1>4, <1>6, <1>7 DEF PopNextSolution

(* Every action keeps the types.                                           *)
LEMMA TypeInvStep == TypeInv /\ [Next]_vars => TypeInv'
<1> SUFFICES ASSUME TypeInv, [Next]_vars PROVE TypeInv'
  OBVIOUS
<1>1. CASE AddSolution
  <2>1. PICK p \in JPolicies :
          /\ added' = added \cup {p}
          /\ AddIndexed(p) \/ AddOverflowing(p)
          /\ UNCHANGED <<capacity, returned>>
    BY <1>1 DEF AddSolution
  <2>2. /\ queue' \in Seq(JPolicies) /\ Sorted(queue')
        /\ capacity # Infinite => Len(queue') <= capacity
        /\ jpolIndices' \subseteq Nat
    BY <2>1, AddSolutionTypes
  <2>3. QED BY <2>1, <2>2 DEF TypeInv, TypeOK
<1>2. CASE PopNextSolution
  <2>1. /\ UNCHANGED <<capacity, jpolIndices, added>>
        /\ queue' \in Seq(JPolicies) /\ Len(queue') = Len(queue) - 1
        /\ returned' \in Seq(JPolicies)
    BY <1>2, PopEffect
  <2>2. \A i \in 1..Len(queue') : queue'[i] = queue[i + 1] /\ i + 1 \in 1..Len(queue)
    BY <1>2, PopEffect
  <2>3. Sorted(queue')
    <3>1. ASSUME NEW i \in 1..Len(queue'), NEW j \in 1..Len(queue'), i < j
          PROVE  Value[queue'[j]] <= Value[queue'[i]]
      <4>1. i + 1 \in 1..Len(queue) /\ j + 1 \in 1..Len(queue) /\ i + 1 < j + 1
        BY <2>2, <3>1
      <4>2. Value[queue[j + 1]] <= Value[queue[i + 1]]
        BY <4>1 DEF TypeInv, Sorted
      <4>3. QED BY <2>2, <4>2
    <3>2. QED BY <3>1 DEF Sorted
  <2>4. capacity # Infinite => Len(queue') <= capacity
    BY <2>1, CapacityIsNumber DEF TypeInv, TypeOK
  <2>5. QED BY <2>1, <2>3, <2>4 DEF TypeInv, TypeOK
<1>3. CASE UNCHANGED vars
  BY <1>3 DEF vars, TypeInv, TypeOK
<1>4. QED BY <1>1, <1>2, <1>3 DEF Next

(* An empty queue has its type and is sorted.                              *)
LEMMA TypeInvInit == Init => TypeInv
BY QueueAssumption DEF Init, TypeInv, TypeOK, Sorted

(* Every variable keeps its type, and a queue of fixed size its capacity,  *)
(* also when the handler of an overflow inserts a policy twice.            *)
THEOREM TypeCorrect == Spec => []TypeOK
<1>1. TypeInv => TypeOK
  BY DEF TypeInv
<1>2. QED BY <1>1, TypeInvInit, TypeInvStep, PTL DEF Spec

-----------------------------------------------------------------------------
(***************************************************************************)
(* Duplicates.  The recorded indices are those of the policies that are in *)
(* the queue or were popped from it: what is thrown out is forgotten.      *)
(***************************************************************************)

Recorded == {PolicyIndex[p] : p \in Elements(queue) \cup Elements(returned)}

BestIsKept ==
  returned = << >> =>
    \A p \in added : p \in Elements(queue) \/ (Overflown(queue) /\ ~Less(Last(queue), p))

QueueInv ==
  /\ TypeInv
  /\ jpolIndices = Recorded
  /\ Distinct(queue)
  /\ Distinct(returned)
  /\ Elements(queue) \cap Elements(returned) = {}
  /\ Elements(queue) \cup Elements(returned) \subseteq added
  /\ BestIsKept

(* A policy with an index that is not recorded is neither in the queue nor *)
(* was it popped.                                                          *)
LEMMA UnrecordedIsNew ==
  ASSUME QueueInv, NEW p \in JPolicies, IndicesFit(added \cup {p})
  PROVE  PolicyIndex[p] \in jpolIndices <=> p \in Elements(queue) \cup Elements(returned)
<1>1. Elements(queue) \cup Elements(returned) \subseteq added
  BY DEF QueueInv
<1>2. QED BY <1>1 DEF QueueInv, Recorded, IndicesFit

(* Adding a policy that is known changes nothing.                          *)
LEMMA AddKnownStep ==
  ASSUME QueueInv, NEW p \in JPolicies, p \in Elements(queue) \cup Elements(returned),
         TypeInv', added' = added \cup {p},
         UNCHANGED <<capacity, returned, queue, jpolIndices>>
  PROVE  QueueInv'
<1>1. BestIsKept'
  <2>1. returned = << >> => p \in Elements(queue)
    BY DEF Elements
  <2>2. QED BY <2>1 DEF QueueInv, BestIsKept, Overflown
<1>2. QED BY <1>1 DEF QueueInv, Recorded

(* Adding a policy to a queue that has room.                               *)
LEMMA AddNewStep ==
  ASSUME QueueInv, NEW p \in JPolicies, p \notin Elements(queue) \cup Elements(returned),
         TypeInv', added' = added \cup {p}, UNCHANGED <<capacity, returned>>, ~Overflown(queue),
         jpolIndices' = jpolIndices \cup {PolicyIndex[p]},
         Elements(queue') = Elements(queue) \cup {p}, Distinct(queue')
  PROVE  QueueInv'
<1>1. BestIsKept'
  <2>1. returned = << >> => \A x \in added : x \in Elements(queue)
    BY DEF QueueInv, BestIsKept
  <2>2. returned' = << >> => \A x \in added' : x \in Elements(queue')
    BY <2>1
  <2>3. QED BY <2>2 DEF BestIsKept
<1>2. jpolIndices' = Recorded'
  BY DEF QueueInv, Recorded
<1>3. QED BY <1>1, <1>2 DEF QueueInv

(* Adding a policy to a queue that is full.                                *)
LEMMA AddFullStep ==
  ASSUME QueueInv, NEW p \in JPolicies, p \notin Elements(queue) \cup Elements(returned),
         IndicesFit(added \cup {p}),
         TypeInv', added' = added \cup {p}, UNCHANGED <<capacity, returned>>, Overflown(queue),
         queue' = Inserted(queue, p),
         jpolIndices' = (jpolIndices \cup {PolicyIndex[p]}) \ {PolicyIndex[ThrownOut(queue, p)]},
         returned = << >>
  PROVE  QueueInv'
<1>1. /\ queue \in Seq(JPolicies) /\ Sorted(queue) /\ Distinct(queue)
      /\ capacity # Infinite /\ capacity \in Nat \ {0} /\ Len(queue) <= capacity
      /\ Len(queue) = capacity
  BY CapacityIsNumber DEF QueueInv, TypeInv, TypeOK, Overflown
<1>2. Overflown(queue)'
  <2>1. Overflown(Inserted(queue, p))
    BY <1>1, InsertedEffect
  <2>2. QED BY <2>1 DEF Overflown
<1>3. Last(queue) \in Elements(queue) /\ Last(queue) \in JPolicies /\ Last(queue) # p
  <2>1. Last(queue) \in Elements(queue)
    BY <1>1, InsertedEffect
  <2>2. QED BY <1>1, <2>1 DEF Elements
<1>4. \A x \in Elements(queue) : Value[Last(queue)] <= Value[x]
  <2>1. ASSUME NEW i \in 1..Len(queue) PROVE Value[queue[Len(queue)]] <= Value[queue[i]]
    <3>1. Len(queue) \in 1..Len(queue) /\ Value[queue[i]] \in Int
      BY <1>1, QueueAssumption
    <3>2. CASE i < Len(queue)
      BY <1>1, <3>1, <3>2 DEF Sorted
    <3>3. CASE ~(i < Len(queue))
      <4>1. i = Len(queue)
        BY <1>1, <3>3
      <4>2. QED BY <3>1, <4>1
    <3>4. QED BY <3>2, <3>3
  <2>2. QED BY <2>1 DEF Elements, Last
<1>5. \A x \in Elements(queue) \cup {p} \cup added : x \in JPolicies /\ Value[x] \in Int
  BY <1>1, QueueAssumption DEF Elements, QueueInv, TypeInv, TypeOK
<1>6. Elements(queue) \cup Elements(returned) \subseteq added
  BY DEF QueueInv
<1>7. CASE Less(Last(queue), p)
  <2>1. /\ Distinct(queue') /\ Elements(queue') = (Elements(queue) \ {Last(queue)}) \cup {p}
        /\ ThrownOut(queue, p) = Last(queue)
    BY <1>1, <1>7, InsertedEffect
  <2>2. jpolIndices' = Recorded'
    <3>1. PolicyIndex[p] # PolicyIndex[Last(queue)]
      BY <1>3, <1>6 DEF IndicesFit
    <3>2. \A x \in Elements(queue) \cup Elements(returned) :
            PolicyIndex[x] = PolicyIndex[Last(queue)] => x = Last(queue)
      BY <1>3, <1>6 DEF IndicesFit
    <3>3. jpolIndices = {PolicyIndex[x] : x \in Elements(queue) \cup Elements(returned)}
      BY DEF QueueInv, Recorded
    <3>4. Last(queue) \notin Elements(returned)
      BY <1>3 DEF QueueInv
    <3>5. Recorded' = {PolicyIndex[x] : x \in Elements(queue') \cup Elements(returned)}
      BY DEF Recorded
    <3> HIDE DEF Elements
    <3>6. QED BY <2>1, <3>1, <3>2, <3>3, <3>4, <3>5
  <2>3. Last(queue') \in Elements(queue')
    <3>1. queue' \in Seq(JPolicies) /\ Len(queue') = capacity
      BY <1>2 DEF TypeInv, TypeOK, Overflown
    <3>2. QED BY <1>1, <3>1 DEF Elements, Last
  <2>4. Value[Last(queue)] <= Value[Last(queue')] /\ Value[Last(queue')] \in Int
    <3>1. Value[Last(queue)] <= Value[p]
      BY <1>3, <1>5, <1>7 DEF Less
    <3>2. QED BY <1>4, <1>5, <2>1, <2>3, <3>1
  <2>5. ASSUME NEW x \in added \cup {p}
        PROVE  x \in Elements(queue') \/ ~Less(Last(queue'), x)
    <3>1. CASE x = p
      BY <2>1, <3>1
    <3>2. CASE x \in Elements(queue) /\ x # Last(queue)
      BY <2>1, <3>2
    <3>3. CASE x = Last(queue)
      BY <1>3, <1>5, <2>4, <3>3 DEF Less
    <3>4. CASE x \in added /\ x \notin Elements(queue)
      <4>1. ~Less(Last(queue), x)
        BY <3>4 DEF QueueInv, BestIsKept
      <4>2. QED BY <1>3, <1>5, <2>4, <4>1 DEF Less
    <3>5. QED BY <3>1, <3>2, <3>3, <3>4
  <2>6. BestIsKept'
    <3>1. Last(queue)' = Last(queue')
      BY DEF Last
    <3>2. Elements(queue)' = Elements(queue')
      BY DEF Elements
    <3>3. QED BY <1>2, <2>5 DEF BestIsKept, Less, Last
  <2>7. QED BY <2>1, <2>2, <2>6 DEF QueueInv
<1>8. CASE ~Less(Last(queue), p)
  <2>1. ThrownOut(queue, p) = p /\ queue' = queue
    BY <1>1, <1>8, InsertedEffect
  <2>2. PolicyIndex[p] \notin jpolIndices
    BY UnrecordedIsNew
  <2>3. jpolIndices' = jpolIndices
    BY <2>1, <2>2
  <2>4. BestIsKept'
    <3>1. \A x \in added \cup {p} : x \in Elements(queue) \/ ~Less(Last(queue), x)
      BY <1>8 DEF QueueInv, BestIsKept
    <3>2. QED BY <1>2, <2>1, <3>1 DEF BestIsKept
  <2>5. QED BY <2>1, <2>3, <2>4 DEF QueueInv, Recorded
<1>9. QED BY <1>7, <1>8

(* An index that fits is not changed by the cast.                          *)
LEMMA CastIsIdentity ==
  ASSUME NEW p \in JPolicies, PolicyIndex[p] < IndexRange
  PROVE  CastToIndex(PolicyIndex[p]) = PolicyIndex[p]
<1>1. PolicyIndex[p] \in Nat /\ IndexRange \in Nat \ {0} /\ PolicyIndex[p] < IndexRange
  BY QueueAssumption
<1>2. ASSUME NEW x \in Nat, NEW n \in Nat \ {0}, x < n PROVE x % n = x
  BY <1>2
<1>3. QED BY <1>1, <1>2 DEF CastToIndex

(* Every action keeps the invariant.                                       *)
LEMMA QueueInvStep ==
  ASSUME QueueInv, [Next]_vars, IndicesFit(added')
  PROVE  QueueInv'
<1>1. TypeInv'
  BY TypeInvStep DEF QueueInv
<1>2. CASE AddSolution
  <2>1. PICK p \in JPolicies :
          /\ capacity # Infinite => returned = << >>
          /\ added' = added \cup {p}
          /\ AddIndexed(p)
          /\ UNCHANGED <<capacity, returned>>
    BY <1>2 DEF AddSolution, IndicesFit
  <2> IndicesFit(added \cup {p})
    BY <2>1
  <2>2. CASE PolicyIndex[p] \in jpolIndices
    <3>1. p \in Elements(queue) \cup Elements(returned)
      BY <2>2, UnrecordedIsNew
    <3>2. UNCHANGED <<queue, jpolIndices>>
      BY <2>1, <2>2 DEF AddIndexed
    <3>3. QED BY <1>1, <2>1, <3>1, <3>2, AddKnownStep
  <2>3. CASE PolicyIndex[p] \notin jpolIndices
    <3>1. p \notin Elements(queue) \cup Elements(returned)
      BY <2>3, UnrecordedIsNew
    <3>2. queue \in Seq(JPolicies) /\ Sorted(queue) /\ Distinct(queue)
      BY DEF QueueInv, TypeInv, TypeOK
    <3>3. CASE capacity = Infinite
      <4>1. queue' \in Pushed(queue, p) /\ jpolIndices' = jpolIndices \cup {PolicyIndex[p]}
        BY <2>1, <2>3, <3>3 DEF AddIndexed
      <4>2. Elements(queue') = Elements(queue) \cup {p} /\ Distinct(queue')
        BY <3>1, <3>2, <4>1, PushedEffect
      <4>3. ~Overflown(queue)
        BY <3>3 DEF Overflown
      <4>4. QED BY <1>1, <2>1, <3>1, <4>1, <4>2, <4>3, AddNewStep
    <3>4. CASE capacity # Infinite /\ ~Overflown(queue)
      <4>1. queue' = Inserted(queue, p) /\ jpolIndices' = jpolIndices \cup {PolicyIndex[p]}
        BY <2>1, <2>3, <3>4 DEF AddIndexed
      <4>2. capacity \in Nat \ {0} /\ Len(queue) <= capacity
        BY <3>4, CapacityIsNumber DEF QueueInv, TypeInv
      <4>3. Elements(queue') = Elements(queue) \cup {p} /\ Distinct(queue')
        BY <3>1, <3>2, <3>4, <4>1, <4>2, InsertedEffect
      <4>4. QED BY <1>1, <2>1, <3>1, <3>4, <4>1, <4>3, AddNewStep
    <3>5. CASE capacity # Infinite /\ Overflown(queue)
      <4>1. /\ queue' = Inserted(queue, p)
            /\ jpolIndices' = (jpolIndices \cup {PolicyIndex[p]})
                                \ {CastToIndex(PolicyIndex[ThrownOut(queue, p)])}
        BY <2>1, <2>3, <3>5 DEF AddIndexed
      <4>2. capacity \in Nat \ {0} /\ Len(queue) = capacity
        BY <3>5, CapacityIsNumber DEF QueueInv, TypeInv, Overflown
      <4>3. ThrownOut(queue, p) \in JPolicies
        BY <3>2, <4>2 DEF ThrownOut, Last
      <4>4. CastToIndex(PolicyIndex[ThrownOut(queue, p)]) = PolicyIndex[ThrownOut(queue, p)]
        <5>1. ThrownOut(queue, p) \in added \cup {p}
          <6>1. Last(queue) \in Elements(queue)
            BY <3>2, <4>2 DEF Elements, Last
          <6>2. QED BY <6>1 DEF ThrownOut, QueueInv
        <5>2. PolicyIndex[ThrownOut(queue, p)] < IndexRange
          BY <5>1 DEF IndicesFit
        <5>3. QED BY <4>3, <5>2, CastIsIdentity
      <4>5. QED BY <1>1, <2>1, <3>1, <3>5, <4>1, <4>4, AddFullStep
    <3>6. QED BY <3>3, <3>4, <3>5
  <2>4. QED BY <2>2, <2>3
<1>3. CASE PopNextSolution
  <2>1. /\ UNCHANGED <<capacity, jpolIndices, added>>
        /\ Len(queue') = Len(queue) - 1 /\ Len(queue) > 0 /\ Len(queue) \in Nat
        /\ \A i \in 1..Len(queue') : queue'[i] = queue[i + 1] /\ i + 1 \in 1..Len(queue)
        /\ Len(returned') = Len(returned) + 1 /\ Len(returned) \in Nat
        /\ \A i \in 1..Len(returned) : returned'[i] = returned[i]
        /\ returned'[Len(returned) + 1] = queue[1]
    BY <1>3, PopEffect DEF QueueInv, TypeInv, TypeOK
  <2>2. \A i, j \in 1..Len(queue) : queue[i] = queue[j] => i = j
    BY DEF QueueInv, Distinct
  <2>3. 1 \in 1..Len(queue) /\ queue[1] \in Elements(queue)
    BY <2>1 DEF Elements
  <2>4. Elements(queue') = Elements(queue) \ {queue[1]}
    <3>1. ASSUME NEW i \in 1..Len(queue') PROVE queue'[i] \in Elements(queue) \ {queue[1]}
      <4>1. queue'[i] = queue[i + 1] /\ i + 1 \in 1..Len(queue) /\ i + 1 # 1
        BY <2>1
      <4>2. QED BY <2>2, <2>3, <4>1 DEF Elements
    <3>2. ASSUME NEW j \in 1..Len(queue), queue[j] # queue[1] PROVE queue[j] \in Elements(queue')
      <4>1. j - 1 \in 1..Len(queue') /\ (j - 1) + 1 = j
        BY <2>1, <3>2
      <4>2. queue'[j - 1] = queue[j]
        BY <2>1, <4>1
      <4>3. QED BY <4>1, <4>2 DEF Elements
    <3>3. QED BY <3>1, <3>2 DEF Elements
  <2>5. Elements(returned') = Elements(returned) \cup {queue[1]}
    <3>1. \A i \in 1..Len(returned') : i \in 1..Len(returned) \/ i = Len(returned) + 1
      BY <2>1
    <3>2. \A i \in 1..Len(returned) : i \in 1..Len(returned')
      BY <2>1
    <3>3. Len(returned) + 1 \in 1..Len(returned')
      BY <2>1
    <3>4. QED BY <2>1, <3>1, <3>2, <3>3 DEF Elements
  <2>6. Distinct(queue')
    <3>1. ASSUME NEW i \in 1..Len(queue'), NEW j \in 1..Len(queue'), queue'[i] = queue'[j]
          PROVE  i = j
      <4>1. i + 1 = j + 1
        BY <2>1, <2>2, <3>1
      <4>2. QED BY <4>1
    <3>2. QED BY <3>1 DEF Distinct
  <2>7. Distinct(returned')
    <3>1. \A i \in 1..Len(returned) : returned[i] # queue[1]
      BY <2>3 DEF QueueInv, Elements
    <3>2. \A i, j \in 1..Len(returned) : returned[i] = returned[j] => i = j
      BY DEF QueueInv, Distinct
    <3>3. \A i \in 1..Len(returned') : \/ i \in 1..Len(returned) /\ returned'[i] = returned[i]
                                       \/ i = Len(returned) + 1 /\ returned'[i] = queue[1]
      BY <2>1
    <3>4. QED BY <3>1, <3>2, <3>3 DEF Distinct
  <2>8. Elements(queue') \cap Elements(returned') = {}
    BY <2>3, <2>4, <2>5 DEF QueueInv
  <2>9. Elements(queue') \cup Elements(returned') = Elements(queue) \cup Elements(returned)
    BY <2>3, <2>4, <2>5
  <2>10. jpolIndices' = Recorded'
    <3>1. Elements(queue)' = Elements(queue') /\ Elements(returned)' = Elements(returned')
      BY DEF Elements
    <3>2. QED BY <2>1, <2>9, <3>1 DEF QueueInv, Recorded
  <2>11. BestIsKept'
    <3>1. returned' # << >>
      BY <2>1
    <3>2. QED BY <3>1 DEF BestIsKept
  <2>12. (Elements(queue) \cup Elements(returned) \subseteq added)'
    <3>1. Elements(queue)' = Elements(queue') /\ Elements(returned)' = Elements(returned')
      BY DEF Elements
    <3>2. QED BY <2>1, <2>9, <3>1 DEF QueueInv
  <2>13. QED BY <1>1, <2>6, <2>7, <2>8, <2>10, <2>11, <2>12 DEF QueueInv, Distinct, Elements
<1>4. CASE UNCHANGED vars
  BY <1>1, <1>4 DEF vars, QueueInv, Recorded, Distinct, Elements, BestIsKept, Overflown
<1>5. QED BY <1>2, <1>3, <1>4 DEF Next

(* The invariant holds at first.                                           *)
LEMMA QueueInvInit == Init => QueueInv
<1>1. Init => Elements(queue) = {} /\ Elements(returned) = {}
  BY DEF Init, Elements
<1>2. QED
  BY <1>1, TypeInvInit DEF Init, QueueInv, Recorded, Distinct, BestIsKept

(* What the invariant says of the queue and of what it has returned.       *)
LEMMA QueueInvImplies == QueueInv => QueueHoldsTheBest /\ NeverReturnedTwice
<1> SUFFICES ASSUME QueueInv PROVE QueueHoldsTheBest /\ NeverReturnedTwice
  OBVIOUS
<1>1. queue \in Seq(JPolicies) /\ returned \in Seq(JPolicies)
  BY DEF QueueInv, TypeInv, TypeOK
<1>2. DOMAIN queue = 1..Len(queue) /\ DOMAIN returned = 1..Len(returned)
  BY <1>1
<1>3. NeverReturnedTwice
  BY <1>2 DEF QueueInv, Distinct, NeverReturnedTwice, IsInjective
<1>4. ASSUME NEW i \in 1..Len(queue), NEW j \in 1..Len(queue), i < j
      PROVE  queue[i] # queue[j] /\ ~Less(queue[i], queue[j])
  <2>1. Value[queue[j]] <= Value[queue[i]]
    BY <1>4 DEF QueueInv, TypeInv, Sorted
  <2>2. Value[queue[j]] \in Int /\ Value[queue[i]] \in Int
    BY <1>1, QueueAssumption
  <2>3. queue[i] # queue[j]
    BY <1>4 DEF QueueInv, Distinct
  <2>4. QED BY <2>1, <2>2, <2>3 DEF Less
<1>5. ASSUME returned = << >>, NEW p \in added, ~Contains(queue, p)
      PROVE  Overflown(queue) /\ ~Less(Last(queue), p)
  <2>1. p \notin Elements(queue)
    BY <1>5 DEF Contains, Elements
  <2>2. QED BY <1>5, <2>1 DEF QueueInv, BestIsKept
<1>6. QED BY <1>2, <1>3, <1>4, <1>5 DEF QueueHoldsTheBest

(* The invariant holds as long as the indices fit.                         *)
LEMMA QueueInvariance == IndicesFit(JPolicies) => (Spec => []QueueInv)
<1> SUFFICES ASSUME IndicesFit(JPolicies) PROVE Spec => []QueueInv
  OBVIOUS
<1>1. Init => QueueInv
  BY QueueInvInit
<1>2. QueueInv /\ [Next]_vars => QueueInv'
  <2> SUFFICES ASSUME QueueInv, [Next]_vars PROVE QueueInv'
    OBVIOUS
  <2>1. added' \subseteq JPolicies
    BY TypeInvStep DEF QueueInv, TypeInv, TypeOK
  <2>2. IndicesFit(added')
    BY <2>1 DEF IndicesFit
  <2>3. QED BY <2>2, QueueInvStep
<1>3. QED BY <1>1, <1>2, PTL DEF Spec

(* As long as nothing was popped, the queue holds the best of the policies *)
(* that were added, once each and by decreasing value; as long as their    *)
(* indices fit.                                                            *)
THEOREM BestOnceEach == IndicesFit(JPolicies) => (Spec => []QueueHoldsTheBest)
<1>1. QueueInv => QueueHoldsTheBest
  BY QueueInvImplies
<1>2. QED BY <1>1, QueueInvariance, PTL

(* No policy is returned twice, not even one that is found again after it  *)
(* was popped; as long as indices fit.                                     *)
THEOREM NothingReturnedTwice == IndicesFit(JPolicies) => (Spec => []NeverReturnedTwice)
<1>1. QueueInv => NeverReturnedTwice
  BY QueueInvImplies
<1>2. QED BY <1>1, QueueInvariance, PTL
===============================================================================
