------------------------ MODULE BruteForceSolverProofs ------------------------
(***************************************************************************)
(* The indices of joint policies are numbers with a base of their own for  *)
(* every digit, the increment counts them up, and so the search of         *)
(* BGIP_SolverBruteForceSearch tries every joint policy once; with what is *)
(* proved of SolutionQueue it keeps the contract of the incremental        *)
(* interface.                                                              *)
(***************************************************************************)
EXTENDS BruteForceSolver, FiniteSetTheorems, WellFoundedInduction, NaturalsInduction, TLAPS

-----------------------------------------------------------------------------
(***************************************************************************)
(* Numbers with a base of their own for every digit.                       *)
(***************************************************************************)

(* A set that holds 0 and is closed under successor up to m holds 0..m.    *)
LEMMA IntervalInduction ==
  ASSUME NEW m \in Nat, NEW S, 0 \in S, \A k \in 0..m-1 : k \in S => k + 1 \in S
  PROVE  0..m \subseteq S
<1> SUFFICES ASSUME ~(0..m \subseteq S) PROVE FALSE
  OBVIOUS
<1> DEFINE T == (0..m) \ S
<1>1. PICK k \in T : \A j \in T : <<j, k>> \notin OpToRel(<, Nat)
  <2>1. T \subseteq Nat /\ T # {}
    OBVIOUS
  <2> HIDE DEF T
  <2>2. QED BY <2>1, NatLessThanWellFounded, WFMin
<1>2. k # 0 /\ k - 1 \in 0..m-1 /\ (k - 1) + 1 = k
  OBVIOUS
<1>3. k - 1 \in T /\ <<k - 1, k>> \in OpToRel(<, Nat)
  BY <1>1, <1>2 DEF OpToRel
<1>4. QED BY <1>1, <1>3

(* The value that starts as a and goes on with the digit x.                *)
LEMMA NumberIsNatural ==
  ASSUME NEW a \in Nat, NEW m \in Nat, NEW x \in Nat
  PROVE  a * m + x \in Nat
<1>1. a * m \in Nat
  OBVIOUS
<1>2. QED BY <1>1

Step(t, first, base, digit, k) == IF k = 0 THEN first ELSE t[k - 1] * base[k] + digit[k]

IsTable(t, first, base, digit) ==
  /\ t \in [0..Len(base) -> Nat]
  /\ \A k \in 0..Len(base) : t[k] = Step(t, first, base, digit, k)

(* Both recursions of JointPolicyVector have a solution, from 0 or from 1. *)
LEMMA StepsHaveTable ==
  ASSUME NEW base \in Seq(Nat \ {0}), NEW digit, \A k \in 1..Len(base) : digit[k] \in Nat,
         NEW first \in Nat
  PROVE  \E t : IsTable(t, first, base, digit)
<1> DEFINE IsTableTo(t, k) == t \in [0..k -> Nat] /\ \A j \in 0..k : t[j] = Step(t, first, base, digit, j)
           S == {k \in 0..Len(base) : \E t : IsTableTo(t, k)}
<1>1. Len(base) \in Nat /\ \A k \in 1..Len(base) : base[k] \in Nat
  OBVIOUS
<1>2. 0 \in S
  <2>1. IsTableTo([k \in 0..0 |-> first], 0)
    BY DEF Step
  <2>2. QED BY <1>1, <2>1
<1>3. ASSUME NEW k \in 0..Len(base)-1, k \in S PROVE k + 1 \in S
  <2>1. k \in Nat /\ k + 1 \in 0..Len(base) /\ k + 1 \in 1..Len(base)
    BY <1>1
  <2>2. PICK t : IsTableTo(t, k)
    BY <1>3
  <2> DEFINE u == [j \in 0..k+1 |-> IF j = k + 1 THEN t[k] * base[k + 1] + digit[k + 1] ELSE t[j]]
  <2>3. t[k] \in Nat /\ base[k + 1] \in Nat /\ digit[k + 1] \in Nat
    BY <1>1, <2>1, <2>2
  <2>4. t[k] * base[k + 1] + digit[k + 1] \in Nat
    BY <2>3, NumberIsNatural
  <2>5. u \in [0..k+1 -> Nat]
    BY <2>1, <2>2, <2>4
  <2>6. ASSUME NEW j \in 0..k+1 PROVE u[j] = Step(u, first, base, digit, j)
    <3>1. CASE j = k + 1
      <4>1. j # 0 /\ j - 1 = k /\ k \in 0..k+1 /\ k # k + 1
        BY <2>1, <3>1
      <4>2. u[j] = t[k] * base[k + 1] + digit[k + 1] /\ u[j - 1] = t[k]
        BY <3>1, <4>1
      <4> HIDE DEF u
      <4>3. QED BY <3>1, <4>1, <4>2 DEF Step
    <3>2. CASE j # k + 1
      <4>1. j \in 0..k /\ u[j] = t[j] /\ t[j] = Step(t, first, base, digit, j)
        BY <2>1, <2>2, <3>2
      <4>2. j # 0 => j - 1 \in 0..k+1 /\ j - 1 # k + 1
        BY <2>1, <4>1
      <4>3. j # 0 => u[j - 1] = t[j - 1]
        BY <4>2
      <4> HIDE DEF u
      <4>4. QED BY <4>1, <4>3 DEF Step
    <3>3. QED BY <3>1, <3>2
  <2>7. IsTableTo(u, k + 1)
    BY <2>5, <2>6
  <2> HIDE DEF u, IsTableTo
  <2>8. QED BY <2>1, <2>7
<1>4. Len(base) \in S
  <2> HIDE DEF S
  <2>1. 0..Len(base) \subseteq S
    BY <1>1, <1>2, <1>3, IntervalInduction
  <2>2. QED BY <1>1, <2>1
<1>5. QED BY <1>4 DEF IsTable

(* What the recursion for the value of a number computes.                  *)
LEMMA PartialNumbersAre ==
  ASSUME NEW base \in Seq(Nat \ {0}), NEW digit, \A k \in 1..Len(base) : digit[k] \in Nat
  PROVE  LET t == PartialNumbers(base, digit)
         IN /\ t[0] = 0
            /\ \A k \in 1..Len(base) : t[k] = t[k - 1] * base[k] + digit[k]
            /\ \A k \in 0..Len(base) : t[k] \in Nat
<1> DEFINE t == PartialNumbers(base, digit)
<1>1. t = CHOOSE u : u = [k \in 0..Len(base) |-> Step(u, 0, base, digit, k)]
  BY DEF PartialNumbers, Step
<1> HIDE DEF t
<1>2. PICK u : IsTable(u, 0, base, digit)
  BY StepsHaveTable
<1>3. t = [k \in 0..Len(base) |-> Step(t, 0, base, digit, k)]
  <2>1. u = [k \in 0..Len(base) |-> Step(u, 0, base, digit, k)]
    BY <1>2 DEF IsTable
  <2>2. QED BY <1>1, <2>1
<1>4. Len(base) \in Nat /\ \A k \in 1..Len(base) : base[k] \in Nat
  OBVIOUS
<1>5. t[0] = 0
  BY <1>3, <1>4 DEF Step
<1>6. ASSUME NEW k \in 1..Len(base) PROVE t[k] = t[k - 1] * base[k] + digit[k]
  <2>1. k \in 0..Len(base) /\ k # 0
    BY <1>4
  <2>2. t[k] = Step(t, 0, base, digit, k)
    BY <1>3, <2>1
  <2>3. QED BY <2>1, <2>2 DEF Step
<1>7. \A k \in 0..Len(base) : t[k] \in Nat
  <2> DEFINE S == {k \in 0..Len(base) : t[k] \in Nat}
  <2>1. 0 \in S
    BY <1>4, <1>5
  <2>2. ASSUME NEW k \in 0..Len(base)-1, k \in S PROVE k + 1 \in S
    <3>1. k + 1 \in 1..Len(base) /\ k + 1 \in 0..Len(base) /\ (k + 1) - 1 = k
      BY <1>4
    <3>2. t[k + 1] = t[k] * base[k + 1] + digit[k + 1]
      BY <1>6, <3>1
    <3>3. t[k] \in Nat /\ base[k + 1] \in Nat /\ digit[k + 1] \in Nat
      BY <1>4, <2>2, <3>1
    <3>4. t[k] * base[k + 1] + digit[k + 1] \in Nat
      BY <3>3, NumberIsNatural
    <3>5. QED BY <3>1, <3>2, <3>4
  <2> HIDE DEF S
  <2>3. 0..Len(base) \subseteq S
    BY <1>4, <2>1, <2>2, IntervalInduction
  <2>4. QED BY <2>3 DEF S
<1>8. QED BY <1>5, <1>6, <1>7 DEF t

(* What the recursion for the number of values computes.                   *)
LEMMA PartialProductsAre ==
  ASSUME NEW base \in Seq(Nat \ {0})
  PROVE  LET t == PartialProducts(base)
         IN /\ t[0] = 1
            /\ \A k \in 1..Len(base) : t[k] = t[k - 1] * base[k]
            /\ \A k \in 0..Len(base) : t[k] \in Nat \ {0}
<1> DEFINE t == PartialProducts(base)
           ProductStep(u, k) == IF k = 0 THEN 1 ELSE u[k - 1] * base[k]
           zeros == [k \in 1..Len(base) |-> 0]
<1>1. t = CHOOSE u : u = [k \in 0..Len(base) |-> ProductStep(u, k)]
  BY DEF PartialProducts
<1> HIDE DEF t
<1>2. Len(base) \in Nat /\ \A k \in 1..Len(base) : base[k] \in Nat \ {0}
  OBVIOUS
<1>3. PICK u : IsTable(u, 1, base, zeros)
  <2>1. \A k \in 1..Len(base) : zeros[k] \in Nat
    OBVIOUS
  <2> HIDE DEF zeros
  <2>2. QED BY <2>1, StepsHaveTable
<1>4. \A k \in 0..Len(base) : u[k] = ProductStep(u, k)
  <2> SUFFICES ASSUME NEW k \in 0..Len(base), k # 0 PROVE u[k] = u[k - 1] * base[k]
    BY <1>3 DEF IsTable, Step
  <2>1. k - 1 \in 0..Len(base) /\ k \in 1..Len(base)
    BY <1>2
  <2>2. u[k] = u[k - 1] * base[k] + 0
    BY <1>3, <2>1 DEF IsTable, Step
  <2>3. u[k - 1] * base[k] \in Nat
    <3>1. u[k - 1] \in Nat /\ base[k] \in Nat
      BY <1>2, <1>3, <2>1 DEF IsTable
    <3>2. QED BY <3>1
  <2>4. QED BY <2>2, <2>3
<1>5. t = [k \in 0..Len(base) |-> ProductStep(t, k)]
  <2>1. u = [k \in 0..Len(base) |-> ProductStep(u, k)]
    BY <1>3, <1>4 DEF IsTable
  <2> HIDE DEF ProductStep
  <2>2. QED BY <1>1, <2>1
<1>6. t[0] = 1
  BY <1>2, <1>5
<1>7. ASSUME NEW k \in 1..Len(base) PROVE t[k] = t[k - 1] * base[k]
  <2>1. k \in 0..Len(base) /\ k # 0
    BY <1>2
  <2>2. QED BY <1>5, <2>1
<1>8. \A k \in 0..Len(base) : t[k] \in Nat \ {0}
  <2> DEFINE S == {k \in 0..Len(base) : t[k] \in Nat \ {0}}
  <2>1. 0 \in S
    BY <1>2, <1>6
  <2>2. ASSUME NEW k \in 0..Len(base)-1, k \in S PROVE k + 1 \in S
    <3>1. k + 1 \in 1..Len(base) /\ k + 1 \in 0..Len(base) /\ (k + 1) - 1 = k
      BY <1>2
    <3>2. t[k + 1] = t[k] * base[k + 1]
      BY <1>7, <3>1
    <3>3. t[k] \in Nat \ {0} /\ base[k + 1] \in Nat \ {0}
      BY <1>2, <2>2, <3>1
    <3>4. \A x, y \in Nat \ {0} : x * y \in Nat \ {0}
      OBVIOUS
    <3>5. QED BY <3>1, <3>2, <3>3, <3>4
  <2> HIDE DEF S
  <2>3. 0..Len(base) \subseteq S
    BY <1>2, <2>1, <2>2, IntervalInduction
  <2>4. QED BY <2>3 DEF S
<1>9. QED BY <1>6, <1>7, <1>8 DEF t

(* Numbers of one base with the same value have the same digits.           *)
LEMMA DigitsAgree ==
  ASSUME NEW a \in Nat, NEW b \in Nat, NEW m \in Nat \ {0}, NEW x \in 0..m-1, NEW y \in 0..m-1,
         a * m + x = b * m + y
  PROVE  a = b /\ x = y
<1>1. a * m \in Nat /\ b * m \in Nat
  OBVIOUS
<1>2. ASSUME NEW c \in Nat, NEW d \in Nat, c < d PROVE c * m + m <= d * m
  <2>1. d - c - 1 \in Nat /\ d = c + 1 + (d - c - 1)
    BY <1>2
  <2>2. (d - c - 1) * m \in Nat /\ c * m \in Nat
    BY <2>1
  <2>3. d * m = c * m + m + (d - c - 1) * m
    OBVIOUS
  <2>4. QED BY <2>2, <2>3
<1>3. ~(a < b)
  BY <1>1, <1>2
<1>4. ~(b < a)
  BY <1>1, <1>2
<1>5. a = b
  BY <1>3, <1>4
<1>6. QED BY <1>1, <1>5

Digits(base) ==
  {digit \in [1..Len(base) -> Nat] : \A k \in 1..Len(base) : digit[k] < base[k]}

LEMMA DigitsAre ==
  ASSUME NEW base \in Seq(Nat \ {0}), NEW d \in Digits(base)
  PROVE  /\ Len(base) \in Nat
         /\ \A k \in 1..Len(base) : base[k] \in Nat \ {0} /\ d[k] \in 0..base[k]-1 /\ d[k] \in Nat
<1>1. Len(base) \in Nat /\ \A k \in 1..Len(base) : base[k] \in Nat \ {0}
  OBVIOUS
<1>2. d \in [1..Len(base) -> Nat] /\ \A k \in 1..Len(base) : d[k] < base[k]
  BY DEF Digits
<1>3. QED BY <1>1, <1>2

LEMMA NumbersDiffer ==
  ASSUME NEW base \in Seq(Nat \ {0}), NEW d \in Digits(base), NEW e \in Digits(base),
         PartialNumbers(base, d)[Len(base)] = PartialNumbers(base, e)[Len(base)]
  PROVE  d = e
<1> DEFINE t == PartialNumbers(base, d)
           u == PartialNumbers(base, e)
           SameUpTo(k) == \A j \in 1..k : d[j] = e[j]
           S == {k \in 0..Len(base) : t[k] = u[k] => SameUpTo(k)}
<1>1. /\ Len(base) \in Nat
      /\ \A k \in 1..Len(base) : base[k] \in Nat \ {0} /\ d[k] \in 0..base[k]-1 /\ e[k] \in 0..base[k]-1
      /\ \A k \in 1..Len(base) : d[k] \in Nat /\ e[k] \in Nat
  BY DigitsAre
<1>2. /\ \A k \in 1..Len(base) : t[k] = t[k - 1] * base[k] + d[k]
      /\ \A k \in 1..Len(base) : u[k] = u[k - 1] * base[k] + e[k]
      /\ \A k \in 0..Len(base) : t[k] \in Nat /\ u[k] \in Nat
  BY <1>1, PartialNumbersAre
<1>3. t[Len(base)] = u[Len(base)]
  OBVIOUS
<1> HIDE DEF t, u
<1>4. 0 \in S
  BY <1>1
<1>5. ASSUME NEW k \in 0..Len(base)-1, k \in S PROVE k + 1 \in S
  <2>1. k + 1 \in 1..Len(base) /\ k + 1 \in 0..Len(base) /\ (k + 1) - 1 = k /\ k \in 0..Len(base) /\ k \in Nat
    BY <1>1
  <2> SUFFICES ASSUME t[k + 1] = u[k + 1] PROVE SameUpTo(k + 1)
    BY <2>1
  <2>2. t[k] * base[k + 1] + d[k + 1] = u[k] * base[k + 1] + e[k + 1]
    <3>1. t[k + 1] = t[k] * base[k + 1] + d[k + 1] /\ u[k + 1] = u[k] * base[k + 1] + e[k + 1]
      BY <1>2, <2>1
    <3>2. QED BY <3>1
  <2>3. t[k] = u[k] /\ d[k + 1] = e[k + 1]
    <3> DEFINE a == t[k]
               b == u[k]
               m == base[k + 1]
               x == d[k + 1]
               y == e[k + 1]
    <3>1. /\ a \in Nat /\ b \in Nat /\ m \in Nat \ {0} /\ x \in 0..m-1 /\ y \in 0..m-1
          /\ a * m + x = b * m + y
      BY <1>1, <1>2, <2>1, <2>2
    <3> HIDE DEF a, b, m, x, y
    <3>2. a = b /\ x = y
      BY <3>1, DigitsAgree
    <3>3. QED BY <3>2 DEF a, b, x, y
  <2>4. SameUpTo(k)
    BY <1>5, <2>3
  <2>5. \A j \in 1..k+1 : j \in 1..k \/ j = k + 1
    BY <2>1
  <2>6. QED BY <2>3, <2>4, <2>5
<1>6. SameUpTo(Len(base))
  <2> HIDE DEF S
  <2>1. 0..Len(base) \subseteq S
    BY <1>1, <1>4, <1>5, IntervalInduction
  <2>2. Len(base) \in S
    BY <1>1, <2>1
  <2>3. QED BY <1>3, <2>2 DEF S
<1>7. d \in [1..Len(base) -> Nat] /\ e \in [1..Len(base) -> Nat]
  BY DEF Digits
<1>8. QED BY <1>6, <1>7

(* The values are smaller than their number, which the greatest one        *)
(* reaches.                                                                *)
LEMMA NumbersStayBelow ==
  ASSUME NEW base \in Seq(Nat \ {0}), NEW d \in Digits(base)
  PROVE  LET value == PartialNumbers(base, d)[Len(base)]
             nr    == PartialProducts(base)[Len(base)]
         IN /\ value \in 0..nr-1
            /\ nr \in Nat \ {0}
            /\ (\A k \in 1..Len(base) : d[k] = base[k] - 1) => value = nr - 1
<1> DEFINE t == PartialNumbers(base, d)
           n == PartialProducts(base)
           full == \A k \in 1..Len(base) : d[k] = base[k] - 1
           S == {k \in 0..Len(base) : t[k] + 1 <= n[k] /\ (full => t[k] + 1 = n[k])}
<1>1. /\ Len(base) \in Nat
      /\ \A k \in 1..Len(base) : base[k] \in Nat \ {0} /\ d[k] \in 0..base[k]-1
      /\ \A k \in 1..Len(base) : d[k] \in Nat
  BY DigitsAre
<1>2. /\ t[0] = 0
      /\ \A k \in 1..Len(base) : t[k] = t[k - 1] * base[k] + d[k]
      /\ \A k \in 0..Len(base) : t[k] \in Nat
  BY <1>1, PartialNumbersAre
<1>3. /\ n[0] = 1
      /\ \A k \in 1..Len(base) : n[k] = n[k - 1] * base[k]
      /\ \A k \in 0..Len(base) : n[k] \in Nat \ {0}
  BY PartialProductsAre
<1> HIDE DEF t, n
<1>4. 0 \in S
  BY <1>1, <1>2, <1>3
<1>5. ASSUME NEW k \in 0..Len(base)-1, k \in S PROVE k + 1 \in S
  <2>1. k + 1 \in 1..Len(base) /\ k + 1 \in 0..Len(base) /\ (k + 1) - 1 = k /\ k \in 0..Len(base)
    BY <1>1
  <2> DEFINE a == t[k]
             b == n[k]
             m == base[k + 1]
             x == d[k + 1]
  <2>2. /\ a \in Nat /\ b \in Nat \ {0} /\ m \in Nat \ {0} /\ x \in 0..m-1
        /\ t[k + 1] = a * m + x /\ n[k + 1] = b * m
        /\ a + 1 <= b /\ (full => a + 1 = b /\ x = m - 1)
    BY <1>1, <1>2, <1>3, <1>5, <2>1
  <2> HIDE DEF a, b, m, x, full
  <2>3. (a + 1) * m = a * m + m /\ a * m \in Nat
    BY <2>2
  <2>4. (a + 1) * m <= b * m
    <3>1. b - (a + 1) \in Nat /\ b = (a + 1) + (b - (a + 1))
      BY <2>2
    <3>2. (b - (a + 1)) * m \in Nat
      BY <2>2, <3>1
    <3>3. b * m = (a + 1) * m + (b - (a + 1)) * m
      BY <2>2, <3>1
    <3>4. (a + 1) * m \in Nat /\ b * m \in Nat
      BY <2>2
    <3>5. QED BY <3>2, <3>3, <3>4
  <2>5. b * m \in Nat
    BY <2>2
  <2>6. a * m + x + 1 <= b * m
    BY <2>2, <2>3, <2>4, <2>5
  <2>7. full => a * m + x + 1 = b * m
    BY <2>2, <2>3
  <2>8. QED BY <2>1, <2>2, <2>6, <2>7
<1>6. Len(base) \in S
  <2> HIDE DEF S
  <2>1. 0..Len(base) \subseteq S
    BY <1>1, <1>4, <1>5, IntervalInduction
  <2>2. QED BY <1>1, <2>1
<1>7. t[Len(base)] \in Nat /\ n[Len(base)] \in Nat \ {0}
  BY <1>1, <1>2, <1>3
<1>8. QED BY <1>6, <1>7 DEF t, n

(* Counting up changes a digit that is not its last, and resets those      *)
(* behind it, which are their last; if all are, the value is 0 again.      *)
CountsUp(base, d, e, up) ==
  /\ up \in 0..Len(base)
  /\ \A k \in 1..up-1 : e[k] = d[k]
  /\ up > 0 => e[up] = d[up] + 1
  /\ \A k \in up+1..Len(base) : d[k] = base[k] - 1 /\ e[k] = 0

LEMMA CountingUp ==
  ASSUME NEW base \in Seq(Nat \ {0}), NEW d \in Digits(base), NEW e \in Digits(base),
         NEW up, CountsUp(base, d, e, up)
  PROVE  PartialNumbers(base, e)[Len(base)] =
           IF up = 0 THEN 0 ELSE PartialNumbers(base, d)[Len(base)] + 1
<1> DEFINE t == PartialNumbers(base, d)
           u == PartialNumbers(base, e)
           Value(k) == IF up = 0 THEN 0 ELSE IF k < up THEN t[k] ELSE t[k] + 1
           S == {k \in 0..Len(base) : u[k] = Value(k)}
<1>1. /\ Len(base) \in Nat
      /\ \A k \in 1..Len(base) : base[k] \in Nat \ {0}
      /\ \A k \in 1..Len(base) : d[k] \in Nat /\ e[k] \in Nat
  BY DigitsAre
<1>2. /\ t[0] = 0 /\ u[0] = 0
      /\ \A k \in 1..Len(base) : t[k] = t[k - 1] * base[k] + d[k]
      /\ \A k \in 1..Len(base) : u[k] = u[k - 1] * base[k] + e[k]
      /\ \A k \in 0..Len(base) : t[k] \in Nat /\ u[k] \in Nat
  BY <1>1, PartialNumbersAre
<1>3. /\ up \in 0..Len(base)
      /\ \A k \in 1..up-1 : e[k] = d[k]
      /\ up > 0 => e[up] = d[up] + 1
      /\ \A k \in up+1..Len(base) : d[k] = base[k] - 1 /\ e[k] = 0
  BY DEF CountsUp
<1> HIDE DEF t, u
<1>4. 0 \in S
  BY <1>1, <1>2, <1>3
<1>5. ASSUME NEW k \in 0..Len(base)-1, k \in S PROVE k + 1 \in S
  <2> DEFINE a == t[k]
             m == base[k + 1]
             x == d[k + 1]
  <2>1. k + 1 \in 1..Len(base) /\ k + 1 \in 0..Len(base) /\ (k + 1) - 1 = k /\ k \in 0..Len(base)
    BY <1>1
  <2>2. /\ a \in Nat /\ m \in Nat \ {0} /\ x \in Nat
        /\ t[k + 1] = a * m + x
        /\ u[k + 1] = u[k] * m + e[k + 1]
        /\ u[k] = Value(k)
    BY <1>1, <1>2, <1>5, <2>1
  <2>3. a * m \in Nat /\ 0 * m = 0 /\ (a + 1) * m = a * m + m
    <3>1. a \in Nat /\ m \in Nat
      BY <2>2
    <3> HIDE DEF a, m
    <3>2. QED BY <3>1
  <2>4. CASE up = 0
    <3>1. e[k + 1] = 0 /\ u[k] = 0
      BY <1>1, <1>3, <2>1, <2>2, <2>4
    <3>2. u[k + 1] = 0
      BY <2>2, <2>3, <3>1
    <3>3. QED BY <2>1, <2>4, <3>2
  <2>5. CASE up # 0 /\ k + 1 < up
    <3>1. e[k + 1] = x /\ u[k] = a
      BY <1>1, <1>3, <2>1, <2>2, <2>5
    <3>2. u[k + 1] = t[k + 1]
      BY <2>2, <3>1
    <3>3. QED BY <2>1, <2>5, <3>2
  <2>6. CASE up # 0 /\ k + 1 = up
    <3>1. e[k + 1] = x + 1 /\ u[k] = a
      BY <1>1, <1>3, <2>1, <2>2, <2>6
    <3>2. u[k + 1] = t[k + 1] + 1
      BY <2>2, <2>3, <3>1
    <3>3. QED BY <2>1, <2>6, <3>2
  <2>7. CASE up # 0 /\ k + 1 > up
    <3>1. k + 1 \in up+1..Len(base)
      BY <1>3, <2>1, <2>7
    <3>2. e[k + 1] = 0 /\ x = m - 1 /\ u[k] = a + 1
      BY <1>1, <1>3, <2>1, <2>2, <2>7, <3>1
    <3>3. u[k + 1] = t[k + 1] + 1
      BY <2>2, <2>3, <3>2
    <3>4. QED BY <1>3, <2>1, <2>7, <3>3
  <2>8. QED BY <1>3, <2>1, <2>4, <2>5, <2>6, <2>7
<1>6. Len(base) \in S
  <2> HIDE DEF S
  <2>1. 0..Len(base) \subseteq S
    BY <1>1, <1>4, <1>5, IntervalInduction
  <2>2. QED BY <1>1, <2>1
<1>7. QED BY <1>3, <1>6 DEF t, u

-----------------------------------------------------------------------------
(***************************************************************************)
(* The policies of an agent and their indices.                             *)
(***************************************************************************)

(* A set of numbers up to n has a greatest one, which Max finds.           *)
LEMMA MaxIsGreatest ==
  ASSUME NEW n \in Nat, NEW S \in SUBSET (0..n), S # {}
  PROVE  Max(S) \in S /\ \A x \in S : x <= Max(S)
<1> DEFINE T == {k \in 0..n : n - k \in S}
<1>1. T \subseteq Nat /\ T # {}
  <2>1. PICK x \in S : TRUE
    OBVIOUS
  <2>2. n - x \in 0..n /\ n - (n - x) = x
    OBVIOUS
  <2>3. n - x \in T /\ T \subseteq Nat
    BY <2>1, <2>2
  <2>4. QED BY <2>3
<1>2. PICK k \in T : \A j \in T : <<j, k>> \notin OpToRel(<, Nat)
  <2> HIDE DEF T
  <2>1. QED BY <1>1, NatLessThanWellFounded, WFMin
<1>3. n - k \in S /\ k \in 0..n
  OBVIOUS
<1>4. ASSUME NEW x \in S PROVE n - k >= x
  <2>1. n - x \in 0..n /\ n - (n - x) = x
    OBVIOUS
  <2>2. n - x \in T
    BY <2>1
  <2>3. ~(n - x < k)
    <3> DEFINE j == n - x
    <3>1. j \in T /\ j \in Nat /\ k \in Nat
      BY <1>3, <2>1, <2>2
    <3> HIDE DEF j, T
    <3>2. ~(j < k)
      BY <1>2, <3>1 DEF OpToRel
    <3>3. QED BY <3>2 DEF j
  <2>4. QED BY <1>3, <2>1, <2>3
<1>5. Max(S) \in S /\ \A x \in S : Max(S) >= x
  BY <1>3, <1>4 DEF Max
<1>6. QED BY <1>5

LEMMA AgentsAre ==
  /\ Len(NrActions) \in Nat \ {0} /\ Agents = 1..Len(NrActions)
  /\ \A ag \in Agents : NrActions[ag] \in Nat \ {0} /\ NrDomainElements[ag] \in Nat \ {0}
<1>1. NrActions \in Seq(Nat \ {0}) /\ NrActions # << >>
  BY VectorAssumption
<1>2. Len(NrActions) \in Nat \ {0} /\ Agents = 1..Len(NrActions)
  BY <1>1 DEF Agents
<1>3. \A ag \in Agents : NrActions[ag] \in Nat \ {0}
  BY <1>1, <1>2
<1>4. \A ag \in Agents : NrDomainElements[ag] \in Nat \ {0}
  BY VectorAssumption DEF Agents
<1>5. QED BY <1>2, <1>3, <1>4

(* The policies of an agent are the numbers with as many digits as there   *)
(* are domain elements.                                                    *)
LEMMA ElementsAre ==
  ASSUME NEW ag \in Agents
  PROVE  /\ ActionsOfElements(ag) \in Seq(Nat \ {0})
         /\ Len(ActionsOfElements(ag)) = NrDomainElements[ag]
         /\ \A o \in 1..NrDomainElements[ag] : ActionsOfElements(ag)[o] = NrActions[ag]
<1> DEFINE n == NrDomainElements[ag]
           m == NrActions[ag]
<1>1. n \in Nat \ {0} /\ m \in Nat \ {0}
  BY AgentsAre
<1> HIDE DEF n, m
<1>2. [o \in 1..n |-> m] \in Seq(Nat \ {0}) /\ Len([o \in 1..n |-> m]) = n
  BY <1>1
<1>3. QED BY <1>2 DEF ActionsOfElements, n, m

LEMMA PoliciesAreDigits ==
  ASSUME NEW ag \in Agents
  PROVE  IndividualPolicies(ag) = Digits(ActionsOfElements(ag))
<1> DEFINE base == ActionsOfElements(ag)
<1>1. Len(base) = NrDomainElements[ag] /\ \A o \in 1..Len(base) : base[o] = NrActions[ag]
  BY ElementsAre
<1>2. NrActions[ag] \in Nat \ {0}
  BY AgentsAre
<1>3. IndividualPolicies(ag) = [1..Len(base) -> 0..NrActions[ag]-1]
  BY <1>1 DEF IndividualPolicies
<1> HIDE DEF base
<1>4. ASSUME NEW pol \in IndividualPolicies(ag) PROVE pol \in Digits(base)
  BY <1>1, <1>2, <1>3 DEF Digits
<1>5. ASSUME NEW pol \in Digits(base) PROVE pol \in IndividualPolicies(ag)
  <2>1. pol \in [1..Len(base) -> Nat] /\ \A o \in 1..Len(base) : pol[o] < NrActions[ag]
    BY <1>1 DEF Digits
  <2>2. QED BY <1>2, <1>3, <2>1
<1>6. QED BY <1>4, <1>5 DEF base

LEMMA PolicyIndices ==
  ASSUME NEW ag \in Agents
  PROVE  /\ NrPolicies(ag) \in Nat \ {0}
         /\ \A pol \in IndividualPolicies(ag) :
              /\ PolicyIndexOf(ag, pol) \in 0..NrPolicies(ag)-1
              /\ CarriesOver(ag, pol) => PolicyIndexOf(ag, pol) = NrPolicies(ag) - 1
         /\ \A pol, other \in IndividualPolicies(ag) :
              PolicyIndexOf(ag, pol) = PolicyIndexOf(ag, other) => pol = other
<1> DEFINE base == ActionsOfElements(ag)
           n == NrDomainElements[ag]
<1>1. /\ base \in Seq(Nat \ {0}) /\ Len(base) = n
      /\ \A o \in 1..n : base[o] = NrActions[ag]
      /\ IndividualPolicies(ag) = Digits(base)
  BY ElementsAre, PoliciesAreDigits
<1>2. /\ \A pol : PolicyIndexOf(ag, pol) = PartialNumbers(base, pol)[n]
      /\ NrPolicies(ag) = PartialProducts(base)[n]
  BY DEF PolicyIndexOf, NrPolicies
<1> HIDE DEF base, n
<1>3. NrPolicies(ag) \in Nat \ {0}
  <2>1. n \in 0..n
    BY <1>1
  <2>2. QED BY <1>1, <1>2, <2>1, PartialProductsAre
<1>4. ASSUME NEW pol \in IndividualPolicies(ag)
      PROVE  /\ PolicyIndexOf(ag, pol) \in 0..NrPolicies(ag)-1
             /\ CarriesOver(ag, pol) => PolicyIndexOf(ag, pol) = NrPolicies(ag) - 1
  <2>1. pol \in Digits(base) /\ DOMAIN pol = 1..n
    BY <1>1 DEF Digits
  <2>2. CarriesOver(ag, pol) => \A o \in 1..Len(base) : pol[o] = base[o] - 1
    BY <1>1, <2>1 DEF CarriesOver
  <2>3. QED BY <1>1, <1>2, <2>1, <2>2, NumbersStayBelow
<1>5. ASSUME NEW pol \in IndividualPolicies(ag), NEW other \in IndividualPolicies(ag),
             PolicyIndexOf(ag, pol) = PolicyIndexOf(ag, other)
      PROVE  pol = other
  BY <1>1, <1>2, <1>5, NumbersDiffer
<1>6. QED BY <1>3, <1>4, <1>5

(* The increment of a policy counts its index up, or from the last policy  *)
(* back to 0.                                                              *)
LEMMA PolicyIncrements ==
  ASSUME NEW ag \in Agents, NEW pol \in IndividualPolicies(ag)
  PROVE  /\ IncrementedPolicy(ag, pol) \in IndividualPolicies(ag)
         /\ PolicyIndexOf(ag, IncrementedPolicy(ag, pol)) =
              IF CarriesOver(ag, pol) THEN 0 ELSE PolicyIndexOf(ag, pol) + 1
<1> DEFINE base == ActionsOfElements(ag)
           n == NrDomainElements[ag]
           m == NrActions[ag]
           S == {0} \cup {o \in DOMAIN pol : pol[o] # m - 1}
           up == Max(S)
           e == IncrementedPolicy(ag, pol)
<1>1. /\ base \in Seq(Nat \ {0}) /\ Len(base) = n
      /\ \A o \in 1..n : base[o] = m
      /\ IndividualPolicies(ag) = Digits(base)
      /\ n \in Nat \ {0} /\ m \in Nat \ {0}
  BY ElementsAre, PoliciesAreDigits, AgentsAre
<1>2. /\ PolicyIndexOf(ag, pol) = PartialNumbers(base, pol)[n]
      /\ PolicyIndexOf(ag, e) = PartialNumbers(base, e)[n]
  BY DEF PolicyIndexOf
<1>3. DOMAIN pol = 1..n /\ pol \in [1..n -> Nat] /\ \A o \in 1..n : pol[o] < m
  BY <1>1 DEF Digits
<1>4. e = [o \in 1..n |-> IF o < up THEN pol[o] ELSE IF o = up THEN pol[o] + 1 ELSE 0]
  BY <1>3 DEF IncrementedPolicy
<1>5. CarriesOver(ag, pol) <=> \A o \in 1..n : pol[o] = m - 1
  BY <1>3 DEF CarriesOver
<1> HIDE DEF base, n, m, e
<1>6. up \in S /\ \A o \in S : o <= up
  <2>1. S \in SUBSET (0..n) /\ S # {}
    BY <1>1, <1>3
  <2> HIDE DEF S
  <2>2. QED BY <1>1, <2>1, MaxIsGreatest
<1> HIDE DEF up
<1>7. up \in 0..n /\ (up > 0 => pol[up] # m - 1)
  BY <1>1, <1>3, <1>6
<1>8. \A o \in up+1..n : pol[o] = m - 1
  BY <1>1, <1>3, <1>6, <1>7
<1>9. up = 0 <=> CarriesOver(ag, pol)
  <2>1. up # 0 => up \in 1..n
    BY <1>1, <1>7
  <2>2. up = 0 => \A o \in 1..n : o \in up+1..n
    BY <1>1
  <2>3. QED BY <1>5, <1>7, <1>8, <2>1, <2>2
<1>10. e \in [1..n -> Nat] /\ \A o \in 1..n : e[o] < m
  <2>1. ASSUME NEW o \in 1..n
        PROVE (IF o < up THEN pol[o] ELSE IF o = up THEN pol[o] + 1 ELSE 0) \in 0..m-1
    BY <1>1, <1>3, <1>7
  <2>2. QED BY <1>1, <1>4, <2>1
<1>11. e \in Digits(base)
  BY <1>1, <1>10 DEF Digits
<1>12. CountsUp(base, pol, e, up)
  <2>1. \A o \in 1..up-1 : o \in 1..n /\ o < up
    BY <1>1, <1>7
  <2>2. up > 0 => up \in 1..n
    BY <1>7
  <2>3. \A o \in up+1..n : o \in 1..n /\ o > up
    BY <1>1, <1>7
  <2>4. QED BY <1>1, <1>4, <1>7, <1>8, <2>1, <2>2, <2>3 DEF CountsUp
<1>13. PolicyIndexOf(ag, e) = IF CarriesOver(ag, pol) THEN 0 ELSE PolicyIndexOf(ag, pol) + 1
  BY <1>1, <1>2, <1>9, <1>11, <1>12, CountingUp
<1>14. QED BY <1>1, <1>11, <1>13 DEF e

(* The number of zeros only has the value 0: it follows the last one.      *)
LEMMA ZeroNumber ==
  ASSUME NEW base \in Seq(Nat \ {0}), NEW e \in Digits(base), \A k \in 1..Len(base) : e[k] = 0
  PROVE  PartialNumbers(base, e)[Len(base)] = 0
<1> DEFINE d == [k \in 1..Len(base) |-> base[k] - 1]
<1>1. Len(base) \in Nat /\ \A k \in 1..Len(base) : base[k] \in Nat \ {0}
  BY DigitsAre
<1>2. d \in Digits(base)
  BY <1>1 DEF Digits
<1>3. CountsUp(base, d, e, 0)
  BY <1>1 DEF CountsUp
<1> HIDE DEF d
<1>4. QED BY <1>2, <1>3, CountingUp

-----------------------------------------------------------------------------
(***************************************************************************)
(* The joint policies and their indices.                                   *)
(***************************************************************************)

IndexDigits(p) == [ag \in Agents |-> PolicyIndexOf(ag, p[ag])]

LEMMA JointPolicyParts ==
  ASSUME NEW p \in JointPolicies
  PROVE  /\ p = [ag \in Agents |-> p[ag]]
         /\ \A ag \in Agents : p[ag] \in IndividualPolicies(ag)
BY DEF JointPolicies

LEMMA PartsAreJointPolicy ==
  ASSUME NEW p, p = [ag \in Agents |-> p[ag]], \A ag \in Agents : p[ag] \in IndividualPolicies(ag)
  PROVE  p \in JointPolicies
BY DEF JointPolicies

LEMMA NrsAre ==
  /\ NrsOfPolicies \in Seq(Nat \ {0})
  /\ Len(NrsOfPolicies) = Len(NrActions)
  /\ \A ag \in Agents : NrsOfPolicies[ag] = NrPolicies(ag)
<1> DEFINE n == Len(NrActions)
<1>1. n \in Nat \ {0} /\ Agents = 1..n
  BY AgentsAre
<1>2. NrsOfPolicies \in [1..n -> Nat \ {0}]
  BY <1>1, PolicyIndices DEF NrsOfPolicies
<1>3. \A ag \in Agents : NrsOfPolicies[ag] = NrPolicies(ag)
  BY DEF NrsOfPolicies
<1> HIDE DEF n
<1>4. NrsOfPolicies \in Seq(Nat \ {0}) /\ Len(NrsOfPolicies) = n
  BY <1>1, <1>2
<1>5. QED BY <1>3, <1>4 DEF n

LEMMA IndexDigitsAre ==
  ASSUME NEW p \in JointPolicies
  PROVE  /\ IndexDigits(p) \in Digits(NrsOfPolicies)
         /\ GetIndex(p) = PartialNumbers(NrsOfPolicies, IndexDigits(p))[Len(NrsOfPolicies)]
<1>1. \A ag \in Agents : /\ PolicyIndexOf(ag, p[ag]) \in 0..NrPolicies(ag)-1
                         /\ NrPolicies(ag) \in Nat \ {0}
  BY PolicyIndices, JointPolicyParts
<1>2. Agents = 1..Len(NrsOfPolicies)
  BY AgentsAre, NrsAre
<1>3. \A ag \in Agents : PolicyIndexOf(ag, p[ag]) \in Nat /\ PolicyIndexOf(ag, p[ag]) < NrPolicies(ag)
  BY <1>1
<1>4. IndexDigits(p) \in Digits(NrsOfPolicies)
  BY <1>2, <1>3, NrsAre DEF IndexDigits, Digits
<1>5. QED BY <1>4, NrsAre DEF GetIndex, IndexDigits

(* The index of a joint policy is its own, below the number of joint       *)
(* policies, and the last policy has the last one.                         *)
LEMMA JointIndices ==
  /\ NrJointPolicies \in Nat \ {0}
  /\ \A p \in JointPolicies :
       /\ GetIndex(p) \in 0..NrJointPolicies-1
       /\ IsLastPolicy(p) => GetIndex(p) = NrJointPolicies - 1
  /\ \A p, q \in JointPolicies : GetIndex(p) = GetIndex(q) => p = q
<1> DEFINE base == NrsOfPolicies
           n == Len(NrsOfPolicies)
<1>1. /\ base \in Seq(Nat \ {0}) /\ n \in Nat /\ Agents = 1..n
      /\ \A ag \in Agents : base[ag] = NrPolicies(ag)
  BY NrsAre, AgentsAre
<1>2. NrJointPolicies = PartialProducts(base)[n]
  BY NrsAre DEF NrJointPolicies
<1> HIDE DEF base
<1>3. NrJointPolicies \in Nat \ {0}
  <2>1. n = Len(base) /\ n \in 0..Len(base)
    BY <1>1 DEF base
  <2> HIDE DEF n
  <2>2. QED BY <1>1, <1>2, <2>1, PartialProductsAre
<1>4. ASSUME NEW p \in JointPolicies
      PROVE  /\ GetIndex(p) \in 0..NrJointPolicies-1
             /\ IsLastPolicy(p) => GetIndex(p) = NrJointPolicies - 1
  <2>1. IndexDigits(p) \in Digits(base) /\ GetIndex(p) = PartialNumbers(base, IndexDigits(p))[Len(base)]
    BY IndexDigitsAre DEF base
  <2>2. IsLastPolicy(p) => \A ag \in 1..Len(base) : IndexDigits(p)[ag] = base[ag] - 1
    <3>1. Agents = 1..Len(base)
      BY <1>1 DEF base
    <3>2. IsLastPolicy(p) => \A ag \in Agents : PolicyIndexOf(ag, p[ag]) = NrPolicies(ag) - 1
      BY PolicyIndices, JointPolicyParts DEF IsLastPolicy
    <3>3. QED BY <1>1, <3>1, <3>2 DEF IndexDigits
  <2>3. NrJointPolicies = PartialProducts(base)[Len(base)]
    BY <1>2 DEF base
  <2>4. QED BY <1>1, <2>1, <2>2, <2>3, NumbersStayBelow
<1>5. ASSUME NEW p \in JointPolicies, NEW q \in JointPolicies, GetIndex(p) = GetIndex(q)
      PROVE  p = q
  <2>1. /\ IndexDigits(p) \in Digits(base) /\ GetIndex(p) = PartialNumbers(base, IndexDigits(p))[Len(base)]
        /\ IndexDigits(q) \in Digits(base) /\ GetIndex(q) = PartialNumbers(base, IndexDigits(q))[Len(base)]
    BY IndexDigitsAre DEF base
  <2>2. IndexDigits(p) = IndexDigits(q)
    BY <1>1, <1>5, <2>1, NumbersDiffer
  <2>3. \A ag \in Agents : PolicyIndexOf(ag, p[ag]) = PolicyIndexOf(ag, q[ag])
    <3>1. \A ag \in Agents : IndexDigits(p)[ag] = IndexDigits(q)[ag]
      BY <2>2
    <3>2. QED BY <3>1 DEF IndexDigits
  <2>4. \A ag \in Agents : p[ag] = q[ag]
    BY <2>3, PolicyIndices, JointPolicyParts
  <2>5. p = [ag \in Agents |-> p[ag]] /\ q = [ag \in Agents |-> q[ag]]
    BY JointPolicyParts
  <2>6. QED BY <2>4, <2>5
<1>6. QED BY <1>3, <1>4, <1>5

(* The increment counts up the index of a joint policy, and leads from the *)
(* last policy back to index 0.                                            *)
LEMMA JointIncrements ==
  ASSUME NEW p \in JointPolicies
  PROVE  /\ Increment(p) \in JointPolicies
         /\ GetIndex(Increment(p)) = IF IsLastPolicy(p) THEN 0 ELSE GetIndex(p) + 1
<1> DEFINE base == NrsOfPolicies
           n == Len(NrActions)
           S == {1} \cup {ag \in Agents : ~CarriesOver(ag, p[ag])}
           up == Max(S)
           q == Increment(p)
           d == IndexDigits(p)
           e == IndexDigits(q)
<1>1. /\ base \in Seq(Nat \ {0}) /\ Len(base) = n /\ n \in Nat \ {0} /\ Agents = 1..n
      /\ \A ag \in Agents : base[ag] = NrPolicies(ag)
  BY NrsAre, AgentsAre
<1>2. q = [ag \in Agents |-> IF ag < up THEN p[ag] ELSE IncrementedPolicy(ag, p[ag])]
  BY DEF Increment
<1>3. up \in S /\ \A ag \in S : ag <= up
  <2>1. S \in SUBSET (0..n) /\ S # {}
    BY <1>1
  <2> HIDE DEF S
  <2>2. QED BY <1>1, <2>1, MaxIsGreatest
<1> HIDE DEF up, q
<1>4. up \in Agents /\ \A ag \in Agents : ag > up => CarriesOver(ag, p[ag])
  BY <1>1, <1>3
<1>5. CarriesOver(up, p[up]) <=> IsLastPolicy(p)
  BY <1>1, <1>3, <1>4 DEF IsLastPolicy
<1>6. \A ag \in Agents : q[ag] = IF ag < up THEN p[ag] ELSE IncrementedPolicy(ag, p[ag])
  BY <1>2
<1>7. q \in JointPolicies
  <2>1. \A ag \in Agents : q[ag] \in IndividualPolicies(ag)
    BY <1>6, JointPolicyParts, PolicyIncrements
  <2>2. q = [ag \in Agents |-> q[ag]]
    BY <1>2
  <2>3. QED BY <2>1, <2>2, PartsAreJointPolicy
<1>8. /\ \A ag \in Agents : d[ag] = PolicyIndexOf(ag, p[ag])
      /\ \A ag \in Agents : e[ag] = PolicyIndexOf(ag, q[ag])
  BY DEF IndexDigits
<1>9. /\ d \in Digits(base) /\ GetIndex(p) = PartialNumbers(base, d)[Len(base)]
      /\ e \in Digits(base) /\ GetIndex(q) = PartialNumbers(base, e)[Len(base)]
  BY <1>7, IndexDigitsAre
<1> HIDE DEF base, d, e
<1>10. \A ag \in Agents :
         /\ ag < up => e[ag] = d[ag]
         /\ ag = up => e[ag] = IF IsLastPolicy(p) THEN 0 ELSE d[ag] + 1
         /\ ag = up /\ IsLastPolicy(p) => d[ag] = base[ag] - 1
         /\ ag > up => e[ag] = 0 /\ d[ag] = base[ag] - 1
  <2> SUFFICES ASSUME NEW ag \in Agents
               PROVE  /\ ag < up => e[ag] = d[ag]
                      /\ ag = up => e[ag] = IF IsLastPolicy(p) THEN 0 ELSE d[ag] + 1
                      /\ ag = up /\ IsLastPolicy(p) => d[ag] = base[ag] - 1
                      /\ ag > up => e[ag] = 0 /\ d[ag] = base[ag] - 1
    OBVIOUS
  <2>1. p[ag] \in IndividualPolicies(ag)
    BY JointPolicyParts
  <2>2. CarriesOver(ag, p[ag]) => d[ag] = base[ag] - 1
    BY <1>1, <1>8, <2>1, PolicyIndices
  <2>3. ~(ag < up) => e[ag] = IF CarriesOver(ag, p[ag]) THEN 0 ELSE d[ag] + 1
    BY <1>6, <1>8, <2>1, PolicyIncrements
  <2>4. ag < up => e[ag] = d[ag]
    BY <1>6, <1>8
  <2>5. ag \in Int /\ up \in Int
    BY <1>1, <1>4
  <2>6. QED BY <1>4, <1>5, <2>2, <2>3, <2>4, <2>5
<1>11. CASE IsLastPolicy(p)
  <2>1. \A ag \in Agents : d[ag] = base[ag] - 1 /\ e[ag] = 0
    <3>1. \A ag \in Agents : ~(ag < up)
      <4>1. up = 1
        BY <1>1, <1>3, <1>11 DEF IsLastPolicy
      <4>2. QED BY <1>1, <4>1
    <3>2. \A ag \in Agents : ag = up \/ ag > up
      BY <1>1, <1>4, <3>1
    <3>3. QED BY <1>10, <1>11, <3>2
  <2>2. GetIndex(q) = 0
    BY <1>1, <1>9, <2>1, ZeroNumber
  <2>3. QED BY <1>7, <1>11, <2>2 DEF q
<1>12. CASE ~IsLastPolicy(p)
  <2>1. CountsUp(base, d, e, up)
    <3>1. up \in 0..Len(base) /\ up \in Agents /\ up \in Nat
      BY <1>1, <1>4
    <3>2. \A ag \in 1..up-1 : e[ag] = d[ag]
      BY <1>1, <1>10, <3>1
    <3>3. e[up] = d[up] + 1
      BY <1>10, <1>12, <3>1
    <3>4. \A ag \in up+1..Len(base) : d[ag] = base[ag] - 1 /\ e[ag] = 0
      BY <1>1, <1>10, <3>1
    <3>5. QED BY <3>1, <3>2, <3>3, <3>4 DEF CountsUp
  <2>2. up # 0
    BY <1>1, <1>4
  <2>3. GetIndex(q) = GetIndex(p) + 1
    BY <1>1, <1>9, <2>1, <2>2, CountingUp
  <2>4. QED BY <1>7, <1>12, <2>3 DEF q
<1>13. QED BY <1>11, <1>12

(* The search begins with the policy of index 0.                           *)
LEMMA ZeroPolicyIsFirst ==
  ZeroInitialization \in JointPolicies /\ GetIndex(ZeroInitialization) = 0
<1> DEFINE p == ZeroInitialization
<1>1. \A ag \in Agents : p[ag] = [o \in 1..NrDomainElements[ag] |-> 0]
  BY DEF ZeroInitialization
<1>2. \A ag \in Agents : p[ag] \in IndividualPolicies(ag)
  <2>1. \A ag \in Agents : 0 \in 0..NrActions[ag]-1
    BY AgentsAre
  <2> HIDE DEF p
  <2>2. QED BY <1>1, <2>1 DEF IndividualPolicies
<1>3. p = [ag \in Agents |-> p[ag]]
  BY DEF ZeroInitialization
<1> HIDE DEF p
<1>4. p \in JointPolicies
  BY <1>2, <1>3, PartsAreJointPolicy
<1>5. ASSUME NEW ag \in Agents PROVE PolicyIndexOf(ag, p[ag]) = 0
  <2>1. /\ p[ag] \in Digits(ActionsOfElements(ag)) /\ ActionsOfElements(ag) \in Seq(Nat \ {0})
        /\ Len(ActionsOfElements(ag)) = NrDomainElements[ag]
    BY <1>2, PoliciesAreDigits, ElementsAre
  <2>2. \A o \in 1..Len(ActionsOfElements(ag)) : p[ag][o] = 0
    BY <1>1, <2>1
  <2>3. PartialNumbers(ActionsOfElements(ag), p[ag])[Len(ActionsOfElements(ag))] = 0
    BY <2>1, <2>2, ZeroNumber
  <2>4. QED BY <2>1, <2>3 DEF PolicyIndexOf
<1>6. \A k \in 1..Len(NrsOfPolicies) : IndexDigits(p)[k] = 0
  BY <1>5, NrsAre, AgentsAre DEF IndexDigits
<1>7. GetIndex(p) = 0
  BY <1>4, <1>6, NrsAre, IndexDigitsAre, ZeroNumber
<1>8. QED BY <1>4, <1>7 DEF p

-----------------------------------------------------------------------------
(***************************************************************************)
(* An index leads back to its policy.                                      *)
(***************************************************************************)

(* The last digit of a number, and what is in front of it.                 *)
LEMMA LastDigit ==
  ASSUME NEW a \in Nat, NEW m \in Nat \ {0}, NEW x \in 0..m-1
  PROVE  (a * m + x) \div m = a /\ (a * m + x) % m = x
<1> DEFINE i == a * m + x
           b == i \div m
           y == i % m
<1>1. i \in Nat
  BY NumberIsNatural
<1> HIDE DEF i
<1>2. b \in Nat /\ y \in 0..m-1 /\ i = b * m + y
  BY <1>1
<1> HIDE DEF b, y
<1>3. a = b /\ x = y
  BY <1>2, DigitsAgree DEF i
<1>4. QED BY <1>3 DEF i, b, y

(* The quotients of a number are its values from the left, and give its    *)
(* digits back.                                                            *)
LEMMA QuotientsGiveDigits ==
  ASSUME NEW base \in Seq(Nat \ {0}), base # << >>, NEW d \in Digits(base),
         NEW i, i = PartialNumbers(base, d)[Len(base)]
  PROVE  /\ \A k \in 1..Len(base) : Quotients(base, i)[k] % base[k] = d[k]
         /\ Quotients(base, i)[1] = d[1]
<1> DEFINE n == Len(base)
           t == PartialNumbers(base, d)
           RestStep(u, k) == IF k = n THEN i ELSE u[k + 1] \div base[k + 1]
           values == [k \in 1..n |-> t[k]]
           q == Quotients(base, i)
           S == {j \in 0..n-1 : q[n - j] = t[n - j]}
<1>1. n \in Nat \ {0} /\ \A k \in 1..n : base[k] \in Nat \ {0} /\ d[k] \in 0..base[k]-1 /\ d[k] \in Nat
  BY DigitsAre
<1>2. /\ t[0] = 0
      /\ \A k \in 1..n : t[k] = t[k - 1] * base[k] + d[k]
      /\ \A k \in 0..n : t[k] \in Nat
  BY <1>1, PartialNumbersAre
<1>3. q = CHOOSE u : u = [k \in 1..n |-> RestStep(u, k)]
  BY DEF Quotients
<1>4. i = t[n]
  OBVIOUS
<1> HIDE DEF n, t, q
<1>5. ASSUME NEW k \in 1..n
      PROVE  t[k] \div base[k] = t[k - 1] /\ t[k] % base[k] = d[k]
  <2> DEFINE a == t[k - 1]
             m == base[k]
             x == d[k]
  <2>1. a \in Nat /\ m \in Nat \ {0} /\ x \in 0..m-1 /\ t[k] = a * m + x
    BY <1>1, <1>2
  <2> HIDE DEF a, m, x
  <2>2. t[k] \div m = a /\ t[k] % m = x
    BY <2>1, LastDigit
  <2>3. QED BY <2>2 DEF a, m, x
<1>6. values = [k \in 1..n |-> RestStep(values, k)]
  <2>1. ASSUME NEW k \in 1..n PROVE t[k] = RestStep(values, k)
    <3>1. CASE k = n
      BY <1>4, <3>1
    <3>2. CASE k # n
      <4>1. k + 1 \in 1..n /\ (k + 1) - 1 = k
        BY <1>1, <3>2
      <4>2. values[k + 1] = t[k + 1]
        BY <4>1
      <4>3. t[k + 1] \div base[k + 1] = t[k]
        BY <1>5, <4>1
      <4> HIDE DEF values
      <4>4. QED BY <3>2, <4>2, <4>3
    <3>3. QED BY <3>1, <3>2
  <2>2. values = [k \in 1..n |-> t[k]]
    OBVIOUS
  <2> HIDE DEF values, RestStep
  <2>3. QED BY <2>1, <2>2
<1>7. q = [k \in 1..n |-> RestStep(q, k)]
  <2> HIDE DEF values, RestStep
  <2>1. QED BY <1>3, <1>6
<1>8. \A k \in 1..n : q[k] = RestStep(q, k)
  <2> HIDE DEF RestStep
  <2>1. QED BY <1>7
<1>9. 0 \in S
  BY <1>1, <1>4, <1>8
<1>10. ASSUME NEW j \in 0..(n-1)-1, j \in S PROVE j + 1 \in S
  <2> DEFINE k == n - (j + 1)
  <2>1. /\ k \in 1..n /\ k # n /\ k + 1 = n - j /\ k + 1 \in 1..n /\ (k + 1) - 1 = k
        /\ j + 1 \in 0..n-1
    BY <1>1
  <2>2. q[k + 1] = t[k + 1]
    BY <1>10, <2>1
  <2>3. q[k] = q[k + 1] \div base[k + 1]
    BY <1>8, <2>1
  <2>4. t[k + 1] \div base[k + 1] = t[k]
    BY <1>5, <2>1
  <2>5. q[k] = t[k]
    BY <2>2, <2>3, <2>4
  <2>6. QED BY <2>1, <2>5
<1>11. ASSUME NEW k \in 1..n PROVE q[k] = t[k]
  <2>1. n - 1 \in Nat /\ n - k \in 0..n-1 /\ n - (n - k) = k
    BY <1>1
  <2> HIDE DEF S
  <2>2. 0..n-1 \subseteq S
    BY <1>9, <1>10, <2>1, IntervalInduction
  <2>3. n - k \in S
    BY <2>1, <2>2
  <2>4. QED BY <2>1, <2>3 DEF S
<1>12. \A k \in 1..n : q[k] % base[k] = d[k]
  BY <1>5, <1>11
<1>13. q[1] = d[1]
  <2>1. 1 \in 1..n /\ base[1] \in Nat /\ d[1] \in Nat
    BY <1>1
  <2>2. t[1] = 0 * base[1] + d[1]
    BY <1>2, <2>1
  <2>3. \A x \in Nat : 0 * x = 0
    OBVIOUS
  <2>4. t[1] = d[1]
    BY <2>1, <2>2, <2>3
  <2>5. QED BY <1>11, <2>1, <2>4
<1>14. QED BY <1>12, <1>13 DEF n, q

LEMMA PolicyOfItsIndex ==
  ASSUME NEW ag \in Agents, NEW pol \in IndividualPolicies(ag)
  PROVE  PolicyOfIndex(ag, PolicyIndexOf(ag, pol)) = pol
<1> DEFINE base == ActionsOfElements(ag)
           n == NrDomainElements[ag]
           i == PolicyIndexOf(ag, pol)
<1>1. /\ base \in Seq(Nat \ {0}) /\ Len(base) = n /\ n \in Nat \ {0}
      /\ \A o \in 1..n : base[o] = NrActions[ag]
      /\ pol \in Digits(base)
  BY ElementsAre, PoliciesAreDigits, AgentsAre
<1>2. i = PartialNumbers(base, pol)[n]
  BY DEF PolicyIndexOf
<1>3. PolicyOfIndex(ag, i) = [o \in 1..n |-> Quotients(base, i)[o] % NrActions[ag]]
  BY DEF PolicyOfIndex
<1> HIDE DEF base, n, i
<1>4. base # << >>
  BY <1>1
<1>5. \A o \in 1..Len(base) : Quotients(base, i)[o] % base[o] = pol[o]
  BY <1>1, <1>2, <1>4, QuotientsGiveDigits
<1>6. pol = [o \in 1..n |-> pol[o]]
  BY <1>1 DEF Digits
<1>7. PolicyOfIndex(ag, i) = [o \in 1..n |-> pol[o]]
  BY <1>1, <1>3, <1>5
<1>8. QED BY <1>6, <1>7 DEF i

LEMMA JointPolicyOfItsIndex ==
  ASSUME NEW p \in JointPolicies, Len(NrActions) > 1
  PROVE  PolicyOfJointIndex(GetIndex(p)) = p
<1> DEFINE base == NrsOfPolicies
           d == IndexDigits(p)
           i == GetIndex(p)
           rest == Quotients(base, i)
<1>1. /\ base \in Seq(Nat \ {0}) /\ Len(base) = Len(NrActions) /\ Agents = 1..Len(NrActions)
      /\ Len(NrActions) \in Nat
      /\ \A ag \in Agents : base[ag] = NrPolicies(ag)
      /\ d \in Digits(base) /\ i = PartialNumbers(base, d)[Len(base)]
  BY NrsAre, AgentsAre, IndexDigitsAre
<1>2. \A ag \in Agents : d[ag] = PolicyIndexOf(ag, p[ag])
  BY DEF IndexDigits
<1>3. PolicyOfJointIndex(i) =
        [ag \in Agents |-> PolicyOfIndex(ag, IF ag = 1 THEN rest[1] ELSE rest[ag] % base[ag])]
  <2>1. PolicyOfJointIndex(i) =
          [ag \in Agents |-> PolicyOfIndex(ag, IF ag = 1 THEN rest[1] ELSE rest[ag] % NrPolicies(ag))]
    <3>1. Len(NrActions) # 1
      BY <1>1
    <3> HIDE DEF i
    <3>2. QED BY <3>1 DEF PolicyOfJointIndex
  <2> HIDE DEF base, i, rest
  <2>2. QED BY <1>1, <2>1
<1> HIDE DEF base, d, i
<1>4. /\ \A ag \in 1..Len(base) : rest[ag] % base[ag] = d[ag]
      /\ rest[1] = d[1]
  <2>1. base # << >>
    BY <1>1
  <2>2. QED BY <1>1, <2>1, QuotientsGiveDigits
<1>5. \A ag \in Agents :
        PolicyOfIndex(ag, IF ag = 1 THEN rest[1] ELSE rest[ag] % base[ag]) = p[ag]
  <2> SUFFICES ASSUME NEW ag \in Agents
               PROVE  PolicyOfIndex(ag, IF ag = 1 THEN rest[1] ELSE rest[ag] % base[ag]) = p[ag]
    OBVIOUS
  <2>1. (IF ag = 1 THEN rest[1] ELSE rest[ag] % base[ag]) = PolicyIndexOf(ag, p[ag])
    BY <1>1, <1>2, <1>4
  <2>2. QED BY <2>1, PolicyOfItsIndex, JointPolicyParts
<1>6. p = [ag \in Agents |-> p[ag]]
  BY JointPolicyParts
<1>7. PolicyOfJointIndex(i) = [ag \in Agents |-> p[ag]]
  <2> HIDE DEF rest
  <2>1. QED BY <1>3, <1>5
<1>8. QED BY <1>6, <1>7 DEF i

-----------------------------------------------------------------------------
(***************************************************************************)
(* The queue of the solver.  What is proved of SolutionQueue is proved of  *)
(* it.                                                                     *)
(***************************************************************************)

QP ==
  INSTANCE SolutionQueueProofs WITH
    JPolicies <- Solutions,
    Value <- SolutionValue,
    PolicyIndex <- SolutionIndex,
    Overflows <- FALSE,
    Capacities <- {bg.nrDesired : bg \in Games},
    capacity <- game.nrDesired

(* The parameters of the queue are what SolutionQueue assumes of them.     *)
LEMMA QueueParameters == QP!QueueAssumption
<1>1. SolutionValue \in [Solutions -> Int]
  <2>1. ASSUME NEW s \in Solutions PROVE GamePayoff[s.game][s.policy] \in Int
    BY PayoffsAssumption DEF Solutions
  <2>2. QED BY <2>1 DEF SolutionValue
<1>2. SolutionIndex \in [Solutions -> Nat]
  <2>1. ASSUME NEW s \in Solutions PROVE GetIndex(s.policy) \in Nat
    <3>1. s.policy \in JointPolicies
      BY DEF Solutions
    <3>2. QED BY <3>1, JointIndices
  <2>2. QED BY <2>1 DEF SolutionIndex
<1>3. {bg.nrDesired : bg \in Games} \ {Infinite} \subseteq Nat \ {0}
  BY GamesAssumption
<1>4. IndexRange \in Nat \ {0}
  BY GamesAssumption
<1>5. QED BY <1>1, <1>2, <1>3, <1>4 DEF QP!QueueAssumption

(* The steps of the queue that the solver uses are those of the proofs.    *)
LEMMA SameAddition ==
  ASSUME NEW p
  PROVE Queue!AddIndexed(p) <=> QP!AddIndexed(p)
<1>1. /\ \A x, y : Queue!Less(x, y) <=> QP!Less(x, y)
      /\ \A q : Queue!Overflown(q) <=> QP!Overflown(q)
      /\ \A i : Queue!CastToIndex(i) = QP!CastToIndex(i)
  BY DEF Queue!Less, QP!Less, Queue!Overflown, QP!Overflown, Queue!CastToIndex, QP!CastToIndex
<1>2. \A q, x : Queue!ThrownOut(q, x) = QP!ThrownOut(q, x)
  BY <1>1 DEF Queue!ThrownOut, QP!ThrownOut, Queue!Last, QP!Last
<1>3. \A q, x : Queue!Positions(q, x) = QP!Positions(q, x)
  BY <1>1 DEF Queue!Positions, QP!Positions
<1>4. \A q, x : Queue!Pushed(q, x) = QP!Pushed(q, x)
  BY <1>1 DEF Queue!Pushed, QP!Pushed, Queue!InsertAt, QP!InsertAt
<1>5. \A q, x : Queue!Place(q, x) = QP!Place(q, x)
  BY <1>3 DEF Queue!Place, QP!Place
<1>6. \A q : Queue!WithRoom(q) = QP!WithRoom(q)
  BY <1>1 DEF Queue!WithRoom, QP!WithRoom, Queue!Front, QP!Front
<1>7. \A q, x : Queue!Inserted(q, x) = QP!Inserted(q, x)
  <2>1. \A q, i, x : Queue!InsertAt(q, i, x) = QP!InsertAt(q, i, x)
    BY DEF Queue!InsertAt, QP!InsertAt
  <2>2. QED BY <1>1, <1>2, <1>5, <1>6, <2>1 DEF Queue!Inserted, QP!Inserted
<1>8. QED BY <1>1, <1>2, <1>4, <1>7 DEF Queue!AddIndexed, QP!AddIndexed

LEMMA SamePop == Queue!PopNextSolution => QP!PopNextSolution
BY DEF Queue!PopNextSolution, QP!PopNextSolution

(* A joint policy as a solution of the game.                               *)
LEMMA SolutionOfPolicy ==
  ASSUME game \in Games, NEW p \in JointPolicies
  PROVE  /\ Solution(p) \in Solutions
         /\ Solution(p).game = game /\ Solution(p).policy = p
         /\ SolutionValue[Solution(p)] = GamePayoff[game][p]
         /\ SolutionIndex[Solution(p)] = GetIndex(p)
         /\ GamePayoff[game][p] \in Int /\ GamePayoff[game][p] > MinusMax
<1>1. Solution(p) \in Solutions /\ Solution(p).game = game /\ Solution(p).policy = p
  BY DEF Solution, Solutions
<1>2. SolutionValue[Solution(p)] = GamePayoff[game][p] /\ SolutionIndex[Solution(p)] = GetIndex(p)
  BY <1>1 DEF SolutionValue, SolutionIndex
<1>3. QED BY <1>1, <1>2, PayoffsAssumption

LEMMA PolicyOfSolution ==
  ASSUME NEW s \in Solutions, s.game = game
  PROVE  s.policy \in JointPolicies /\ s = Solution(s.policy)
BY DEF Solutions, Solution

-----------------------------------------------------------------------------
(***************************************************************************)
(* Type correctness.  Nothing is returned before the game is solved, so    *)
(* that the queue is filled as SolutionQueue says.                         *)
(***************************************************************************)

TypeInv ==
  /\ game \in Games
  /\ phase \in {"idle", "solving", "solved"}
  /\ solved \in BOOLEAN
  /\ jpol \in JointPolicies
  /\ best \in JointPolicies
  /\ v_best \in Int
  /\ CBGlowerBound \in Bounds
  /\ calls \in Nat
  /\ answer \in JointPolicies \cup {NoPolicy}
  /\ QP!TypeInv
  /\ ~solved => phase = "idle" /\ returned = << >>
  /\ phase = "solving" => returned = << >>

LEMMA TypeInvInit == Init => TypeInv
<1> SUFFICES ASSUME Init PROVE TypeInv
  OBVIOUS
<1>1. QP!Init
  BY DEF Init, QP!Init
<1>2. QP!TypeInv
  BY <1>1, QueueParameters, QP!TypeInvInit
<1>3. QED BY <1>2, ZeroPolicyIsFirst, GamesAssumption DEF Init, TypeInv

(* A step of the loop tries the current joint policy.                      *)
LEMMA TryEffect ==
  ASSUME TypeInv, Try
  PROVE  /\ phase = "solving" /\ returned = << >> /\ returned' = returned
         /\ UNCHANGED <<game, solved, CBGlowerBound, calls, answer>>
         /\ GamePayoff[game][jpol] \in Int /\ GamePayoff[game][jpol] > MinusMax
         /\ KeepBest(GamePayoff[game][jpol])
         /\ best' \in JointPolicies /\ v_best' \in Int
         /\ jpol' \in JointPolicies /\ phase' \in {"solving", "solved"}
         /\ \/ UNCHANGED queueVars
            \/ \E p \in {jpol, best'} : AddSolution(p)
<1> DEFINE v == GamePayoff[game][jpol]
<1>1. /\ phase = "solving" /\ UNCHANGED <<game, solved, CBGlowerBound, calls, answer>>
      /\ StopAtUpperBound(v) \/ TryNext(v) \/ TryLast(v)
  BY DEF Try
<1>2. jpol \in JointPolicies /\ v \in Int /\ v > MinusMax /\ returned = << >>
  BY <1>1, SolutionOfPolicy DEF TypeInv
<1>3. Increment(jpol) \in JointPolicies
  BY <1>2, JointIncrements
<1> HIDE DEF v
<1>4. KeepBest(v)
  BY <1>1 DEF StopAtUpperBound, TryNext, TryLast
<1>5. best' \in JointPolicies /\ v_best' \in Int
  BY <1>2, <1>4 DEF KeepBest, TypeInv
<1>6. /\ returned' = returned
      /\ jpol' \in JointPolicies /\ phase' \in {"solving", "solved"}
      /\ UNCHANGED queueVars \/ \E p \in {jpol, best'} : AddSolution(p)
  <2>1. CASE StopAtUpperBound(v)
    BY <1>2, <2>1 DEF StopAtUpperBound
  <2>2. CASE TryNext(v)
    BY <1>1, <1>3, <2>2 DEF TryNext, queueVars
  <2>3. CASE TryLast(v)
    BY <1>3, <2>3 DEF TryLast
  <2>4. QED BY <1>1, <2>1, <2>2, <2>3
<1>7. QED BY <1>1, <1>2, <1>4, <1>5, <1>6 DEF v

(* A step of the solver is one of the queue, or none.                      *)
LEMMA QueueTakesStep ==
  ASSUME TypeInv, [Next]_vars
  PROVE  [QP!Next]_(QP!vars) /\ game' = game
<1>1. CASE GetNext
  BY <1>1 DEF GetNext, queueVars, QP!vars
<1>2. CASE Try
  <2>1. UNCHANGED queueVars => UNCHANGED QP!vars
    BY <1>2, TryEffect DEF queueVars, QP!vars
  <2>2. ASSUME NEW p \in {jpol, best'}, AddSolution(p) PROVE QP!AddSolution
    <3>1. Solution(p) \in Solutions
      BY <1>2, TryEffect, SolutionOfPolicy DEF TypeInv
    <3>2. added' = added \cup {Solution(p)} /\ QP!AddIndexed(Solution(p))
      BY <2>2, SameAddition DEF AddSolution
    <3>3. QED BY <1>2, <3>1, <3>2, TryEffect DEF QP!AddSolution
  <2>3. QED BY <1>2, <2>1, <2>2, TryEffect DEF QP!Next
<1>3. CASE ReturnNext
  <2>1. game' = game /\ (Queue!PopNextSolution \/ UNCHANGED queueVars)
    BY <1>3 DEF ReturnNext
  <2>2. QED BY <2>1, SamePop DEF QP!Next, queueVars, QP!vars
<1>4. CASE UNCHANGED vars
  BY <1>4 DEF vars, queueVars, QP!vars
<1>5. QED BY <1>1, <1>2, <1>3, <1>4 DEF Next

LEMMA TypeInvStep == TypeInv /\ [Next]_vars => TypeInv'
<1> SUFFICES ASSUME TypeInv, [Next]_vars PROVE TypeInv'
  OBVIOUS
<1>1. QP!TypeInv' /\ game' \in Games
  BY QueueTakesStep, QueueParameters, QP!TypeInvStep DEF TypeInv
<1>2. CASE GetNext
  <2>1. \A b \in Bounds : b \in Int
    BY GamesAssumption
  <2>2. calls' \in Nat /\ CBGlowerBound' \in Bounds
    BY <1>2 DEF GetNext, TypeInv
  <2>3. solved' \in BOOLEAN /\ phase' \in {"idle", "solving", "solved"}
    BY <1>2 DEF GetNext
  <2>4. (~solved' => phase' = "idle" /\ returned' = << >>) /\ (phase' = "solving" => returned' = << >>)
    BY <1>2 DEF GetNext, queueVars, TypeInv
  <2>5. QED BY <1>1, <1>2, <2>2, <2>3, <2>4 DEF GetNext, searchVars, TypeInv
<1>3. CASE Try
  BY <1>1, <1>3, TryEffect DEF TypeInv
<1>4. CASE ReturnNext
  <2>1. queue \in Seq(Solutions)
    BY DEF TypeInv, QP!TypeInv, QP!TypeOK
  <2>2. queue # << >> => Head(queue) \in Solutions
    BY <2>1
  <2>3. answer' \in JointPolicies \cup {NoPolicy}
    BY <1>4, <2>2 DEF ReturnNext, Solutions
  <2>4. solved /\ solved' = solved /\ phase' = "idle"
    BY <1>4 DEF ReturnNext, TypeInv
  <2>5. QED BY <1>1, <1>4, <2>3, <2>4 DEF ReturnNext, searchVars, TypeInv
<1>5. CASE UNCHANGED vars
  BY <1>1, <1>5 DEF vars, searchVars, queueVars, TypeInv
<1>6. QED BY <1>2, <1>3, <1>4, <1>5 DEF Next

LEMMA Types == Spec => []TypeInv
BY TypeInvInit, TypeInvStep, PTL DEF Spec

(* Every variable keeps its type, and the queue its capacity.              *)
THEOREM TypeCorrect == Spec => []TypeOK
<1>1. TypeInv => TypeOK
  BY DEF TypeInv, TypeOK, QP!TypeInv, QP!TypeOK, Queue!TypeOK
<1>2. QED BY <1>1, Types, PTL

-----------------------------------------------------------------------------
(***************************************************************************)
(* The increment.                                                          *)
(***************************************************************************)

(* The increment of the search goes to the joint policy of the next index, *)
(* and from the last one to the first; and the index of a joint policy of  *)
(* several agents leads back to it.                                        *)
THEOREM IncrementIsNextIndex == Spec => IncrementFollowsIndex
<1> DEFINE Goal == jpol' # jpol =>
                     /\ GetIndex(jpol') = (GetIndex(jpol) + 1) % NrJointPolicies
                     /\ Len(NrActions) > 1 => PolicyOfJointIndex(GetIndex(jpol')) = jpol'
<1>1. TypeInv /\ [Next]_vars => Goal
  <2> SUFFICES ASSUME TypeInv, [Next]_vars, jpol' # jpol
               PROVE  /\ GetIndex(jpol') = (GetIndex(jpol) + 1) % NrJointPolicies
                      /\ Len(NrActions) > 1 => PolicyOfJointIndex(GetIndex(jpol')) = jpol'
    OBVIOUS
  <2>1. jpol' = Increment(jpol) /\ jpol \in JointPolicies
    BY DEF Next, GetNext, Try, StopAtUpperBound, TryNext, TryLast, ReturnNext, vars, searchVars, TypeInv
  <2>2. /\ jpol' \in JointPolicies
        /\ GetIndex(jpol') = IF IsLastPolicy(jpol) THEN 0 ELSE GetIndex(jpol) + 1
    BY <2>1, JointIncrements
  <2> DEFINE n == NrJointPolicies
             i == GetIndex(jpol)
             j == GetIndex(jpol')
  <2>3. /\ n \in Nat \ {0} /\ i \in 0..n-1 /\ j \in 0..n-1
        /\ IsLastPolicy(jpol) => i = n - 1
    BY <2>1, <2>2, JointIndices
  <2>4. j = (i + 1) % n
    <3> HIDE DEF n, i, j
    <3>1. ASSUME NEW x \in Nat, NEW m \in Nat \ {0}, x < m PROVE x % m = x
      BY <3>1
    <3>2. ASSUME NEW m \in Nat \ {0} PROVE m % m = 0
      <4>1. 1 \in Nat /\ 0 \in 0..m-1 /\ 1 * m + 0 = m
        OBVIOUS
      <4>2. (1 * m + 0) % m = 0
        BY <4>1, LastDigit
      <4>3. QED BY <4>1, <4>2
    <3>3. CASE IsLastPolicy(jpol)
      <4>1. i + 1 = n /\ j = 0
        BY <2>2, <2>3, <3>3 DEF j
      <4>2. QED BY <2>3, <3>2, <4>1
    <3>4. CASE ~IsLastPolicy(jpol)
      <4>1. j = i + 1 /\ j \in Nat /\ j < n
        BY <2>2, <2>3, <3>4 DEF i, j
      <4>2. QED BY <2>3, <3>1, <4>1
    <3>5. QED BY <3>3, <3>4
  <2>5. Len(NrActions) > 1 => PolicyOfJointIndex(GetIndex(jpol')) = jpol'
    BY <2>2, JointPolicyOfItsIndex
  <2>6. QED BY <2>4, <2>5
<1>2. TypeInv /\ [Next]_vars => [Goal]_vars
  BY <1>1
<1>3. QED BY <1>2, Types, PTL DEF Spec, IncrementFollowsIndex

-----------------------------------------------------------------------------
(***************************************************************************)
(* The search.  It has tried the policies before the current one, and      *)
(* keeps the first best of them, or all of them, in the queue.             *)
(***************************************************************************)

Before(p) == {q \in JointPolicies : GetIndex(q) < GetIndex(p)}

(* The first best of the policies in T, and its payoff.                    *)
IsBestOf(T, b, v) ==
  /\ \A p \in T : GamePayoff[game][p] <= v
  /\ T # {} => b \in T /\ GamePayoff[game][b] = v
  /\ \A p \in T : GamePayoff[game][p] = v => GetIndex(b) <= GetIndex(p)
  /\ T = {} => v = MinusMax

SearchInv ==
  /\ QP!QueueInv
  /\ \A s \in added : s.game = game
  /\ ~solved => /\ calls = 0 /\ added = {}
                /\ jpol = ZeroInitialization /\ v_best = MinusMax
  /\ phase # "idle" => solved
  /\ phase = "solving" =>
       /\ calls = 1
       /\ IsBestOf(Before(jpol), best, v_best)
       /\ game.nrDesired > 1 => added = {Solution(p) : p \in Before(jpol)}
       /\ game.nrDesired = 1 => added = {}

LEMMA SolutionsFit ==
  ASSUME IndicesFit, game \in Games, NEW S \in SUBSET Solutions, \A s \in S : s.game = game
  PROVE  QP!IndicesFit(S)
<1>1. \A s \in S : s.policy \in JointPolicies /\ s = Solution(s.policy)
                   /\ SolutionIndex[s] = GetIndex(s.policy)
  BY PolicyOfSolution, SolutionOfPolicy
<1>2. \A s \in S : SolutionIndex[s] < IndexRange
  BY <1>1, JointIndices, GamesAssumption DEF IndicesFit
<1>3. \A s, t \in S : SolutionIndex[s] = SolutionIndex[t] => s = t
  BY <1>1, JointIndices
<1>4. QED BY <1>2, <1>3 DEF QP!IndicesFit

(* What the increment leaves behind.                                       *)
LEMMA TriedNext ==
  ASSUME NEW p \in JointPolicies, ~IsLastPolicy(p)
  PROVE  Before(Increment(p)) = Before(p) \cup {p}
<1>1. GetIndex(Increment(p)) = GetIndex(p) + 1
  BY JointIncrements
<1>2. \A q \in JointPolicies : GetIndex(q) \in Nat
  BY JointIndices
<1>3. \A q \in JointPolicies : GetIndex(q) < GetIndex(p) + 1 <=> GetIndex(q) < GetIndex(p) \/ q = p
  BY <1>2, JointIndices
<1>4. QED BY <1>1, <1>3 DEF Before

LEMMA TriedAll ==
  ASSUME NEW p \in JointPolicies, IsLastPolicy(p)
  PROVE  Before(p) \cup {p} = JointPolicies
<1>1. NrJointPolicies \in Nat /\ GetIndex(p) = NrJointPolicies - 1
  BY JointIndices
<1>2. \A q \in JointPolicies : GetIndex(q) \in Nat /\ GetIndex(q) < NrJointPolicies
  BY <1>1, JointIndices
<1>3. \A q \in JointPolicies : GetIndex(q) < GetIndex(p) \/ q = p
  BY <1>1, <1>2, JointIndices
<1>4. QED BY <1>3 DEF Before

LEMMA NothingBeforeZero == Before(ZeroInitialization) = {}
<1>1. \A q \in JointPolicies : ~(GetIndex(q) < 0)
  BY JointIndices
<1>2. QED BY <1>1, ZeroPolicyIsFirst DEF Before

(* The best of the policies up to the current one.                         *)
LEMMA KeptIsBest ==
  ASSUME TypeInv, IsBestOf(Before(jpol), best, v_best), KeepBest(GamePayoff[game][jpol])
  PROVE  IsBestOf(Before(jpol) \cup {jpol}, best', v_best')
<1> DEFINE T == Before(jpol)
           v == GamePayoff[game][jpol]
           U == T \cup {jpol}
<1>1. /\ jpol \in JointPolicies /\ v \in Int /\ v > MinusMax /\ MinusMax \in Int
      /\ v_best \in Int /\ GetIndex(jpol) \in Nat /\ GetIndex(jpol) <= GetIndex(jpol)
  BY SolutionOfPolicy, GamesAssumption, JointIndices DEF TypeInv
<1>2. \A p \in T : /\ p \in JointPolicies /\ GamePayoff[game][p] \in Int
                   /\ GetIndex(p) \in Nat /\ GetIndex(p) < GetIndex(jpol)
  BY SolutionOfPolicy, JointIndices DEF Before, TypeInv
<1>3. /\ \A p \in T : GamePayoff[game][p] <= v_best
      /\ T # {} => best \in T /\ GamePayoff[game][best] = v_best
      /\ \A p \in T : GamePayoff[game][p] = v_best => GetIndex(best) <= GetIndex(p)
      /\ T = {} => v_best = MinusMax
  BY DEF IsBestOf
<1>4. IF v > v_best THEN best' = jpol /\ v_best' = v ELSE best' = best /\ v_best' = v_best
  BY DEF KeepBest
<1>5. U # {} /\ jpol \in U
  OBVIOUS
<1> HIDE DEF T
<1>6. CASE v > v_best
  <2>1. best' = jpol /\ v_best' = v
    BY <1>4, <1>6
  <2>2. \A p \in T : GamePayoff[game][p] < v
    BY <1>1, <1>2, <1>3, <1>6
  <2>3. /\ \A p \in U : GamePayoff[game][p] <= v
        /\ \A p \in U : GamePayoff[game][p] = v => p = jpol
    BY <1>1, <1>2, <2>2
  <2> HIDE DEF U
  <2>4. IsBestOf(U, best', v_best')
    BY <1>1, <1>5, <2>1, <2>3 DEF IsBestOf
  <2>5. QED BY <2>4 DEF T, U
<1>7. CASE ~(v > v_best)
  <2>1. best' = best /\ v_best' = v_best
    BY <1>4, <1>7
  <2>2. T # {}
    BY <1>1, <1>3, <1>7
  <2>3. best \in T /\ best \in U /\ GamePayoff[game][best] = v_best
    BY <1>3, <2>2
  <2>4. \A p \in U : GamePayoff[game][p] <= v_best
    BY <1>1, <1>3, <1>7
  <2>5. GetIndex(best) \in Nat /\ GetIndex(best) <= GetIndex(jpol)
    BY <1>1, <1>2, <2>3
  <2>6. \A p \in U : GamePayoff[game][p] = v_best => GetIndex(best) <= GetIndex(p)
    BY <1>3, <2>5
  <2> HIDE DEF U
  <2>7. IsBestOf(U, best', v_best')
    BY <1>5, <2>1, <2>3, <2>4, <2>6 DEF IsBestOf
  <2>8. QED BY <2>7 DEF T, U
<1>8. QED BY <1>6, <1>7

LEMMA SearchInvInit == Init => SearchInv
<1> SUFFICES ASSUME Init PROVE SearchInv
  OBVIOUS
<1>1. QP!Init
  BY DEF Init, QP!Init
<1>2. QP!QueueInv
  BY <1>1, QueueParameters, QP!QueueInvInit
<1>3. QED BY <1>2 DEF Init, SearchInv

(* What a step of the loop adds to the queue.                              *)
LEMMA TryAdds ==
  ASSUME TypeInv, SearchInv, Try
  PROVE  LET U == Before(jpol) \cup {jpol}
         IN /\ IsBestOf(U, best', v_best') /\ best' \in U
            /\ \/ /\ phase' = "solving" /\ Before(jpol') = U
                  /\ added' = IF game.nrDesired > 1 THEN added \cup {Solution(jpol)} ELSE added
               \/ /\ phase' = "solved" /\ U = JointPolicies /\ ~HitsUpperBound(GamePayoff[game][jpol])
                  /\ added' = added \cup {Solution(IF game.nrDesired > 1 THEN jpol ELSE best')}
               \/ /\ phase' = "solved" /\ HitsUpperBound(GamePayoff[game][jpol])
                  /\ added' = added \cup {Solution(jpol)}
<1> DEFINE v == GamePayoff[game][jpol]
           U == Before(jpol) \cup {jpol}
<1>1. /\ phase = "solving" /\ jpol \in JointPolicies
      /\ StopAtUpperBound(v) \/ TryNext(v) \/ TryLast(v)
  BY DEF Try, TypeInv
<1>2. KeepBest(v)
  BY TryEffect
<1>3. IsBestOf(U, best', v_best')
  BY <1>1, <1>2, KeptIsBest DEF SearchInv
<1>4. ~IsLastPolicy(jpol) => Before(Increment(jpol)) = U
  BY <1>1, TriedNext
<1>5. IsLastPolicy(jpol) => U = JointPolicies
  BY <1>1, TriedAll
<1>6. U # {}
  OBVIOUS
<1> HIDE DEF v, U
<1>7. best' \in U
  BY <1>3, <1>6 DEF IsBestOf
<1>8. \/ /\ phase' = "solving" /\ Before(jpol') = U
         /\ added' = IF game.nrDesired > 1 THEN added \cup {Solution(jpol)} ELSE added
      \/ /\ phase' = "solved" /\ U = JointPolicies /\ ~HitsUpperBound(v)
         /\ added' = added \cup {Solution(IF game.nrDesired > 1 THEN jpol ELSE best')}
      \/ /\ phase' = "solved" /\ HitsUpperBound(v)
         /\ added' = added \cup {Solution(jpol)}
  <2>1. CASE StopAtUpperBound(v)
    BY <2>1 DEF StopAtUpperBound, AddSolution
  <2>2. CASE TryNext(v)
    <3>1. jpol' = Increment(jpol) /\ ~IsLastPolicy(jpol) /\ phase' = phase
      BY <2>2 DEF TryNext
    <3>2. Before(jpol') = Before(Increment(jpol))
      BY <3>1 DEF Before
    <3>3. added' = IF game.nrDesired > 1 THEN added \cup {Solution(jpol)} ELSE added
      BY <2>2 DEF TryNext, AddSolution, queueVars
    <3>4. QED BY <1>1, <1>4, <3>1, <3>2, <3>3
  <2>3. CASE TryLast(v)
    BY <1>5, <2>3 DEF TryLast, AddSolution
  <2>4. QED BY <1>1, <2>1, <2>2, <2>3
<1>9. QED BY <1>3, <1>7, <1>8 DEF v, U

LEMMA SearchInvStep ==
  ASSUME IndicesFit, TypeInv, SearchInv, [Next]_vars
  PROVE  SearchInv'
<1>1. /\ [QP!Next]_(QP!vars) /\ game' = game /\ TypeInv' /\ game \in Games
      /\ added' \subseteq Solutions /\ game.nrDesired \in Nat \ {0}
  BY QueueTakesStep, TypeInvStep, GamesAssumption DEF TypeInv, QP!TypeInv, QP!TypeOK
<1>2. ASSUME \A s \in added' : s.game = game PROVE QP!QueueInv'
  <2>1. QP!IndicesFit(added')
    BY <1>1, <1>2, SolutionsFit
  <2>2. QED BY <1>1, <2>1, QueueParameters, QP!QueueInvStep DEF SearchInv
<1>3. CASE GetNext
  <2>1. /\ added' = added /\ solved' = TRUE /\ calls' = calls + 1
        /\ jpol' = jpol /\ best' = best /\ v_best' = v_best
        /\ phase' = IF solved THEN "solved" ELSE "solving"
    BY <1>3 DEF GetNext, queueVars, searchVars
  <2>2. QP!QueueInv'
    BY <1>2, <2>1 DEF SearchInv
  <2>3. ASSUME phase' = "solving"
        PROVE  /\ calls' = 1
               /\ IsBestOf(Before(jpol'), best', v_best')
               /\ game.nrDesired > 1 => added' = {Solution(p) : p \in Before(jpol')}
               /\ game.nrDesired = 1 => added' = {}
    <3>1. ~solved
      BY <2>1, <2>3
    <3>2. calls = 0 /\ added = {} /\ jpol = ZeroInitialization /\ v_best = MinusMax
      BY <3>1 DEF SearchInv
    <3>3. Before(jpol') = {}
      BY <2>1, <3>2, NothingBeforeZero
    <3>4. QED BY <2>1, <3>2, <3>3 DEF IsBestOf
  <2>4. IsBestOf(Before(jpol'), best', v_best') => (IsBestOf(Before(jpol), best, v_best))'
    BY <1>1 DEF IsBestOf, Before
  <2>5. {Solution(p) : p \in Before(jpol')} = ({Solution(p) : p \in Before(jpol)})'
    BY <1>1 DEF Solution, Before
  <2>6. \A s \in added' : s.game = game'
    BY <1>1, <2>1 DEF SearchInv
  <2>7. QED BY <1>1, <2>1, <2>2, <2>3, <2>4, <2>5, <2>6 DEF SearchInv
<1>4. CASE Try
  <2> DEFINE U == Before(jpol) \cup {jpol}
  <2>1. /\ IsBestOf(U, best', v_best') /\ best' \in U
        /\ \/ /\ phase' = "solving" /\ Before(jpol') = U
              /\ added' = IF game.nrDesired > 1 THEN added \cup {Solution(jpol)} ELSE added
           \/ phase' = "solved" /\ \E p \in {jpol, best'} : added' = added \cup {Solution(p)}
    BY <1>4, TryAdds
  <2>2. phase = "solving" /\ solved' = solved /\ calls' = calls
    BY <1>4, TryEffect
  <2>3. solved /\ calls = 1
        /\ (game.nrDesired > 1 => added = {Solution(p) : p \in Before(jpol)})
        /\ (game.nrDesired = 1 => added = {})
    BY <2>2 DEF SearchInv
  <2>4. \A p \in {jpol, best'} : Solution(p).game = game
    BY <1>4, TryEffect, SolutionOfPolicy DEF TypeInv
  <2>5. \A s \in added' : s.game = game
    BY <2>1, <2>4 DEF SearchInv
  <2>6. ASSUME phase' = "solving"
        PROVE  /\ IsBestOf(Before(jpol'), best', v_best')
               /\ game.nrDesired > 1 => added' = {Solution(p) : p \in Before(jpol')}
               /\ game.nrDesired = 1 => added' = {}
    <3>1. /\ Before(jpol') = U
          /\ added' = IF game.nrDesired > 1 THEN added \cup {Solution(jpol)} ELSE added
      BY <2>1, <2>6
    <3>2. IsBestOf(Before(jpol'), best', v_best')
      BY <2>1, <3>1
    <3>3. {Solution(p) : p \in U} = {Solution(p) : p \in Before(jpol)} \cup {Solution(jpol)}
      OBVIOUS
    <3> HIDE DEF U
    <3>4. game.nrDesired > 1 => added' = {Solution(p) : p \in Before(jpol')}
      BY <2>3, <3>1, <3>3
    <3>5. game.nrDesired = 1 => added' = {}
      BY <2>3, <3>1
    <3>6. QED BY <3>2, <3>4, <3>5
  <2>7. IsBestOf(Before(jpol'), best', v_best') => (IsBestOf(Before(jpol), best, v_best))'
    BY <1>1 DEF IsBestOf, Before
  <2>8. {Solution(p) : p \in Before(jpol')} = ({Solution(p) : p \in Before(jpol)})'
    BY <1>1 DEF Solution, Before
  <2>9. QED BY <1>1, <1>2, <2>2, <2>3, <2>5, <2>6, <2>7, <2>8 DEF SearchInv
<1>5. CASE ReturnNext
  <2>1. phase = "solved" /\ phase' = "idle" /\ solved' = solved /\ added' = added
    BY <1>5, SamePop DEF ReturnNext, queueVars, QP!PopNextSolution
  <2>2. solved' /\ \A s \in added' : s.game = game'
    BY <1>1, <2>1 DEF SearchInv
  <2>3. QED BY <1>1, <1>2, <2>1, <2>2 DEF SearchInv
<1>6. CASE UNCHANGED vars
  <2>1. /\ added' = added /\ phase' = phase /\ solved' = solved /\ calls' = calls
        /\ jpol' = jpol /\ best' = best /\ v_best' = v_best
    BY <1>6 DEF vars, searchVars, queueVars
  <2>2. IsBestOf(Before(jpol), best, v_best) => (IsBestOf(Before(jpol), best, v_best))'
    BY <1>1, <2>1 DEF IsBestOf, Before
  <2>3. {Solution(p) : p \in Before(jpol)} = ({Solution(p) : p \in Before(jpol)})'
    BY <1>1, <2>1 DEF Solution, Before
  <2>4. QED BY <1>1, <1>2, <2>1, <2>2, <2>3 DEF SearchInv
<1>7. QED BY <1>3, <1>4, <1>5, <1>6 DEF Next

LEMMA SearchInvariance == IndicesFit => (Spec => [](TypeInv /\ SearchInv))
<1> SUFFICES ASSUME IndicesFit PROVE Spec => [](TypeInv /\ SearchInv)
  OBVIOUS
<1> DEFINE I == TypeInv /\ SearchInv
<1>1. Init => I
  BY TypeInvInit, SearchInvInit
<1>2. I /\ [Next]_vars => I'
  BY TypeInvStep, SearchInvStep
<1> HIDE DEF I
<1>3. Spec => []I
  BY <1>1, <1>2, PTL DEF Spec
<1>4. QED BY <1>3 DEF I

(* While it searches, the solver has tried the policies with a smaller     *)
(* index than the current one, each of them; it keeps the first best of    *)
(* them, and its queue the best of them, as many as are desired.  As long  *)
(* as the indices of the joint policies fit into an Index.                 *)
THEOREM SearchIsExhaustive == IndicesFit => (Spec => []SearchKeepsTheBestTried)
<1> SUFFICES ASSUME IndicesFit PROVE Spec => []SearchKeepsTheBestTried
  OBVIOUS
<1>1. TypeInv /\ SearchInv => SearchKeepsTheBestTried
  <2> SUFFICES ASSUME TypeInv, SearchInv, phase = "solving"
               PROVE  /\ \A p \in Tried : GamePayoff[game][p] <= v_best
                      /\ Tried # {} => best \in Tried /\ GamePayoff[game][best] = v_best
                      /\ \A p \in Tried : GamePayoff[game][p] = v_best => GetIndex(best) <= GetIndex(p)
                      /\ game.nrDesired > 1 =>
                           added = {Solution(p) : p \in Tried} /\ Queue!QueueHoldsTheBest
    BY DEF SearchKeepsTheBestTried
  <2>1. Tried = Before(jpol)
    BY DEF Tried, Before
  <2>2. QP!QueueHoldsTheBest
    BY QueueParameters, QP!QueueInvImplies DEF SearchInv
  <2>3. Queue!QueueHoldsTheBest
    BY <2>2 DEF QP!QueueHoldsTheBest, Queue!QueueHoldsTheBest, QP!Less, Queue!Less, QP!Overflown,
                Queue!Overflown, QP!Last, Queue!Last, QP!Contains, Queue!Contains
  <2>4. QED BY <2>1, <2>3 DEF SearchInv, IsBestOf
<1>2. QED BY <1>1, SearchInvariance, PTL

-----------------------------------------------------------------------------
(***************************************************************************)
(* The solutions.  When the search is over, the queue has all policies, or *)
(* the best as many as are desired; a call that came back empty left       *)
(* nothing in it that is not below the lower bound.                        *)
(***************************************************************************)

(* The calls that have returned.                                           *)
Returns == calls - (IF phase = "idle" THEN 0 ELSE 1)

Found == QP!Elements(queue) \cup QP!Elements(returned)

(* What is not among several solutions is no better than those that are    *)
(* still to be returned, of which there are enough.                        *)
AllAreFound ==
  \A p \in JointPolicies :
    \/ Solution(p) \in Found
    \/ /\ game.nrDesired # Infinite
       /\ Len(queue) + Len(returned) = game.nrDesired
       /\ \A s \in QP!Elements(queue) : GamePayoff[game][p] <= SolutionValue[s]

BestIsFound ==
  \E b \in JointPolicies :
    Found = {Solution(b)} /\ \A p \in JointPolicies : GamePayoff[game][p] <= GamePayoff[game][b]

NothingAboveBound == queue = << >> \/ SolutionValue[Head(queue)] < CBGlowerBound

DoneInv ==
  /\ phase # "idle" => calls >= 1
  /\ calls <= NrCalls(game)
  /\ Len(returned) <= Returns
  /\ Len(returned) < Returns => NothingAboveBound
  /\ solved /\ phase # "solving" =>
       /\ game.nrDesired > 1 => AllAreFound
       /\ game.nrDesired = 1 => BestIsFound

LEMMA NrCallsIs ==
  ASSUME game \in Games
  PROVE  /\ NrCalls(game) \in Nat \ {0}
         /\ game.nrDesired \in Nat \ {0}
         /\ game.nrDesired = 1 => NrCalls(game) = 1
         /\ game.nrDesired # Infinite => NrCalls(game) = game.nrDesired
<1>1. /\ NrJointPolicies \in Nat \ {0} /\ game.nrDesired \in Nat \ {0}
      /\ Infinite \in Nat /\ Infinite > NrJointPolicies
  BY JointIndices, GamesAssumption
<1>2. game.nrDesired = 1 => game.nrDesired # Infinite
  BY <1>1
<1>3. QED BY <1>1, <1>2 DEF NrCalls

(* The queue and its sequences.                                            *)
LEMMA QueueIs ==
  ASSUME TypeInv
  PROVE  /\ queue \in Seq(Solutions) /\ returned \in Seq(Solutions)
         /\ Len(queue) \in Nat /\ Len(returned) \in Nat
         /\ QP!Elements(queue) \subseteq Solutions /\ QP!Elements(returned) \subseteq Solutions
         /\ queue # << >> => /\ Len(queue) > 0 /\ Head(queue) = queue[1]
                             /\ queue[1] \in QP!Elements(queue)
         /\ queue = << >> => QP!Elements(queue) = {}
         /\ \A s \in QP!Elements(queue) : /\ queue # << >>
                                          /\ SolutionValue[s] <= SolutionValue[Head(queue)]
                                          /\ SolutionValue[s] \in Int
<1>1. queue \in Seq(Solutions) /\ returned \in Seq(Solutions) /\ QP!Sorted(queue)
  BY DEF TypeInv, QP!TypeInv, QP!TypeOK
<1>2. \A s \in Solutions : SolutionValue[s] \in Int
  BY QueueParameters DEF QP!QueueAssumption
<1>3. queue # << >> => /\ Len(queue) > 0 /\ Head(queue) = queue[1] /\ queue[1] \in QP!Elements(queue)
  BY <1>1 DEF QP!Elements
<1>4. ASSUME NEW s \in QP!Elements(queue)
      PROVE  queue # << >> /\ SolutionValue[s] <= SolutionValue[Head(queue)] /\ SolutionValue[s] \in Int
  <2>1. PICK i \in 1..Len(queue) : s = queue[i]
    BY DEF QP!Elements
  <2>2. queue # << >> /\ Head(queue) = queue[1] /\ queue[1] \in Solutions /\ queue[i] \in Solutions
        /\ 1 \in 1..Len(queue)
    BY <1>1, <2>1
  <2>3. SolutionValue[queue[i]] \in Int /\ SolutionValue[queue[1]] \in Int
    BY <1>2, <2>2
  <2>4. CASE i = 1
    BY <2>1, <2>2, <2>3, <2>4
  <2>5. CASE i # 1
    <3>1. 1 < i
      BY <2>1, <2>5
    <3>2. SolutionValue[queue[i]] <= SolutionValue[queue[1]]
      BY <1>1, <2>1, <2>2, <3>1 DEF QP!Sorted
    <3>3. QED BY <2>1, <2>2, <2>3, <3>2
  <2>6. QED BY <2>4, <2>5
<1>5. QP!Elements(queue) \subseteq Solutions /\ QP!Elements(returned) \subseteq Solutions
  BY <1>1 DEF QP!Elements
<1>6. Len(queue) \in Nat /\ Len(returned) \in Nat /\ (queue = << >> => QP!Elements(queue) = {})
  BY <1>1 DEF QP!Elements
<1>7. QED BY <1>1, <1>3, <1>4, <1>5, <1>6

(* A pop moves the first solution to those that were returned.             *)
LEMMA PopMoves ==
  ASSUME TypeInv, Queue!PopNextSolution
  PROVE  /\ queue # << >> /\ added' = added
         /\ QP!Elements(queue) = QP!Elements(queue') \cup {Head(queue)}
         /\ QP!Elements(returned') = QP!Elements(returned) \cup {Head(queue)}
         /\ Len(returned') = Len(returned) + 1
         /\ Len(queue') + Len(returned') = Len(queue) + Len(returned)
<1>1. QP!PopNextSolution /\ queue # << >>
  BY SamePop DEF Queue!PopNextSolution
<1>2. /\ added' = added
      /\ queue' \in Seq(Solutions) /\ Len(queue') = Len(queue) - 1 /\ Len(queue) > 0
      /\ \A i \in 1..Len(queue') : queue'[i] = queue[i + 1] /\ i + 1 \in 1..Len(queue)
      /\ returned' \in Seq(Solutions) /\ Len(returned') = Len(returned) + 1
      /\ \A i \in 1..Len(returned) : returned'[i] = returned[i]
      /\ returned'[Len(returned) + 1] = queue[1]
  BY <1>1, QueueParameters, QP!PopEffect DEF TypeInv
<1>3. Len(queue) \in Nat /\ Len(returned) \in Nat /\ Head(queue) = queue[1]
  BY <1>1, QueueIs
<1>4. QP!Elements(queue) \subseteq QP!Elements(queue') \cup {queue[1]}
  <2>1. ASSUME NEW i \in 1..Len(queue), i # 1 PROVE queue[i] \in QP!Elements(queue')
    <3>1. i - 1 \in 1..Len(queue') /\ (i - 1) + 1 = i
      BY <1>2, <1>3, <2>1
    <3>2. queue'[i - 1] = queue[i]
      BY <1>2, <3>1
    <3>3. QED BY <3>1, <3>2 DEF QP!Elements
  <2>2. QED BY <2>1 DEF QP!Elements
<1>5. QP!Elements(queue') \cup {queue[1]} \subseteq QP!Elements(queue)
  BY <1>2, <1>3 DEF QP!Elements
<1>6. QP!Elements(returned') = QP!Elements(returned) \cup {queue[1]}
  <2>1. \A i : i \in 1..Len(returned') <=> i \in 1..Len(returned) \/ i = Len(returned) + 1
    BY <1>2, <1>3
  <2>2. QED BY <1>2, <2>1 DEF QP!Elements
<1>7. QED BY <1>1, <1>2, <1>3, <1>4, <1>5, <1>6

(* When the search is over the queue has what is promised.                 *)
LEMMA SearchFinds ==
  ASSUME UpperBoundsAreSound, TypeInv, SearchInv, TypeInv', SearchInv', Try, phase' = "solved"
  PROVE  /\ game.nrDesired > 1 => AllAreFound'
         /\ game.nrDesired = 1 => BestIsFound'
<1> DEFINE U == Before(jpol) \cup {jpol}
<1>1. /\ phase = "solving" /\ returned = << >> /\ returned' = << >> /\ game' = game
      /\ game \in Games /\ jpol \in JointPolicies /\ best' \in JointPolicies
      /\ GamePayoff[game][jpol] \in Int
  BY TryEffect DEF TypeInv
<1>2. /\ IsBestOf(U, best', v_best') /\ best' \in U
      /\ \/ /\ U = JointPolicies /\ ~HitsUpperBound(GamePayoff[game][jpol])
            /\ added' = added \cup {Solution(IF game.nrDesired > 1 THEN jpol ELSE best')}
         \/ /\ HitsUpperBound(GamePayoff[game][jpol])
            /\ added' = added \cup {Solution(jpol)}
  BY TryAdds
<1>3. /\ game.nrDesired > 1 => added = {Solution(p) : p \in Before(jpol)}
      /\ game.nrDesired = 1 => added = {}
  BY <1>1 DEF SearchInv
<1>4. /\ QP!Elements(returned') = {}
      /\ QP!Elements(queue') \subseteq added'
      /\ \A s \in added' : \/ s \in QP!Elements(queue')
                           \/ /\ game.nrDesired # Infinite /\ Len(queue') = game.nrDesired
                              /\ ~(SolutionValue[queue'[Len(queue')]] < SolutionValue[s])
  BY <1>1 DEF SearchInv, QP!QueueInv, QP!BestIsKept, QP!Overflown, QP!Less, QP!Last, QP!Elements
<1>5. Found' = QP!Elements(queue')
  BY <1>4 DEF Found
<1>6. queue' \in Seq(Solutions) /\ Len(queue') \in Nat /\ QP!Sorted(queue')
  BY DEF TypeInv, QP!TypeInv, QP!TypeOK
<1>7. \A p : (Solution(p))' = Solution(p)
  BY <1>1 DEF Solution
<1>8. game.nrDesired \in Nat \ {0}
  BY <1>1, NrCallsIs
<1>9. ASSUME game.nrDesired > 1 PROVE AllAreFound'
  <2>1. U = JointPolicies /\ added' = {Solution(p) : p \in JointPolicies}
    <3>1. U = JointPolicies /\ added' = added \cup {Solution(jpol)}
      BY <1>2, <1>8, <1>9 DEF HitsUpperBound
    <3>2. {Solution(p) : p \in U} = {Solution(p) : p \in Before(jpol)} \cup {Solution(jpol)}
      OBVIOUS
    <3>3. QED BY <1>3, <1>9, <3>1, <3>2
  <2> HIDE DEF U
  <2>2. ASSUME NEW p \in JointPolicies
        PROVE  \/ Solution(p) \in QP!Elements(queue')
               \/ /\ game.nrDesired # Infinite
                  /\ Len(queue') + Len(returned') = game.nrDesired
                  /\ \A s \in QP!Elements(queue') : GamePayoff[game][p] <= SolutionValue[s]
    <3>1. Solution(p) \in added' /\ SolutionValue[Solution(p)] = GamePayoff[game][p]
          /\ GamePayoff[game][p] \in Int
      BY <1>1, <2>1, SolutionOfPolicy
    <3>2. CASE Solution(p) \in QP!Elements(queue')
      BY <3>2
    <3>3. CASE Solution(p) \notin QP!Elements(queue')
      <4> DEFINE n == Len(queue')
      <4>1. /\ game.nrDesired # Infinite /\ n = game.nrDesired
            /\ ~(SolutionValue[queue'[n]] < GamePayoff[game][p])
        BY <1>4, <3>1, <3>3
      <4>2. n \in Nat /\ n \in 1..n /\ Len(returned') = 0
        BY <1>1, <1>6, <1>8, <4>1
      <4>3. ASSUME NEW i \in 1..n PROVE GamePayoff[game][p] <= SolutionValue[queue'[i]]
        <5>1. queue'[i] \in Solutions /\ queue'[n] \in Solutions
          BY <1>6, <4>2
        <5>2. SolutionValue[queue'[i]] \in Int /\ SolutionValue[queue'[n]] \in Int
          BY <5>1, QueueParameters DEF QP!QueueAssumption
        <5>3. SolutionValue[queue'[n]] <= SolutionValue[queue'[i]]
          <6>1. CASE i = n
            BY <5>2, <6>1
          <6>2. CASE i # n
            <7>1. i < n
              BY <4>2, <6>2
            <7>2. QED BY <1>6, <4>2, <7>1 DEF QP!Sorted
          <6>3. QED BY <6>1, <6>2
        <5> HIDE DEF n
        <5>4. QED BY <3>1, <4>1, <5>2, <5>3
      <4>4. \A s \in QP!Elements(queue') : GamePayoff[game][p] <= SolutionValue[s]
        BY <4>3 DEF QP!Elements
      <4>5. QED BY <4>1, <4>2, <4>4
    <3>4. QED BY <3>2, <3>3
  <2>3. QED BY <1>1, <1>5, <1>7, <2>2 DEF AllAreFound
<1>10. ASSUME game.nrDesired = 1 PROVE BestIsFound'
  <2>1. PICK b \in JointPolicies : /\ added' = {Solution(b)}
                                   /\ \A p \in JointPolicies : GamePayoff[game][p] <= GamePayoff[game][b]
    <3>1. CASE HitsUpperBound(GamePayoff[game][jpol])
      <4>1. GamePayoff[game][jpol] >= game.upperBound /\ game.upperBound \in Int
        BY <1>1, <3>1, GamesAssumption DEF HitsUpperBound
      <4>2. \A p \in JointPolicies : GamePayoff[game][p] <= game.upperBound /\ GamePayoff[game][p] \in Int
        BY <1>1, <1>10, SolutionOfPolicy DEF UpperBoundsAreSound
      <4>3. \A p \in JointPolicies : GamePayoff[game][p] <= GamePayoff[game][jpol]
        BY <1>1, <4>1, <4>2
      <4>4. added' = {Solution(jpol)}
        BY <1>2, <1>3, <1>10, <3>1
      <4>5. QED BY <1>1, <4>3, <4>4
    <3>2. CASE ~HitsUpperBound(GamePayoff[game][jpol])
      <4>1. U = JointPolicies /\ added' = {Solution(best')}
        BY <1>2, <1>3, <1>8, <1>10, <3>2
      <4>2. U # {}
        OBVIOUS
      <4> HIDE DEF U
      <4>3. \A p \in JointPolicies : GamePayoff[game][p] <= GamePayoff[game][best']
        BY <1>2, <4>1, <4>2 DEF IsBestOf
      <4>4. QED BY <1>1, <4>1, <4>3
    <3>3. QED BY <3>1, <3>2
  <2>2. Solution(b) \in QP!Elements(queue')
    <3>1. ASSUME Len(queue') = 1 PROVE QP!Elements(queue') # {}
      BY <3>1 DEF QP!Elements
    <3>2. QED BY <1>4, <1>10, <2>1, <3>1
  <2>3. Found' = {Solution(b)}
    BY <1>4, <1>5, <2>1, <2>2
  <2>4. QED BY <1>1, <1>7, <2>1, <2>3 DEF BestIsFound
<1>11. QED BY <1>9, <1>10

LEMMA DoneInvInit == Init => DoneInv
<1> SUFFICES ASSUME Init PROVE DoneInv
  OBVIOUS
<1>1. game \in Games /\ phase = "idle" /\ solved = FALSE /\ calls = 0 /\ returned = << >>
  BY DEF Init
<1>2. Returns = 0 /\ Len(returned) = 0
  BY <1>1 DEF Returns
<1>3. NrCalls(game) \in Nat
  BY <1>1, NrCallsIs
<1>4. QED BY <1>1, <1>2, <1>3 DEF DoneInv

LEMMA GetNextDone ==
  ASSUME TypeInv, TypeInv', SearchInv, DoneInv, GetNext
  PROVE  DoneInv'
<1>1. /\ phase = "idle" /\ calls < NrCalls(game) /\ CBGlowerBound' >= CBGlowerBound
      /\ calls' = calls + 1 /\ solved' = TRUE /\ phase' = IF solved THEN "solved" ELSE "solving"
      /\ game' = game /\ queue' = queue /\ returned' = returned
  BY DEF GetNext, queueVars
<1>2. game \in Games /\ calls \in Nat /\ NrCalls(game) \in Nat
  BY NrCallsIs DEF TypeInv
<1>3. Returns = calls /\ Returns' = calls' - 1 /\ Returns' = Returns
  BY <1>1, <1>2 DEF Returns
<1>4. NothingAboveBound => NothingAboveBound'
  <2>1. CBGlowerBound \in Int /\ CBGlowerBound' \in Int
    BY GamesAssumption DEF TypeInv
  <2>2. queue # << >> => SolutionValue[Head(queue)] \in Int
    BY QueueIs
  <2>3. QED BY <1>1, <2>1, <2>2 DEF NothingAboveBound
<1>5. Found' = Found
  BY <1>1 DEF Found, QP!Elements
<1>6. (AllAreFound => AllAreFound') /\ (BestIsFound => BestIsFound')
  BY <1>1, <1>5 DEF AllAreFound, BestIsFound, Solution, QP!Elements
<1>7. NrCalls(game)' = NrCalls(game)
  BY <1>1 DEF NrCalls
<1>8. calls' >= 1 /\ calls' <= NrCalls(game)
  BY <1>1, <1>2
<1>9. solved' /\ phase' # "solving" => solved
  BY <1>1
<1>10. QED BY <1>1, <1>3, <1>4, <1>6, <1>7, <1>8, <1>9 DEF DoneInv

LEMMA TryDone ==
  ASSUME UpperBoundsAreSound, TypeInv, SearchInv, TypeInv', SearchInv', DoneInv, Try
  PROVE  DoneInv'
<1>1. /\ phase = "solving" /\ phase' \in {"solving", "solved"} /\ returned' = << >>
      /\ game' = game /\ calls' = calls /\ solved' = solved
  BY TryEffect
<1>2. calls = 1 /\ game \in Games
  BY <1>1 DEF SearchInv, TypeInv
<1>3. Returns' = 0 /\ Len(returned') = 0
  BY <1>1, <1>2 DEF Returns
<1>4. NrCalls(game)' = NrCalls(game)
  BY <1>1 DEF NrCalls
<1>5. phase' = "solved" => /\ game.nrDesired > 1 => AllAreFound'
                           /\ game.nrDesired = 1 => BestIsFound'
  BY SearchFinds
<1>6. calls' >= 1 /\ calls' <= NrCalls(game)
  BY <1>1, <1>2 DEF DoneInv
<1>7. QED BY <1>1, <1>3, <1>4, <1>5, <1>6 DEF DoneInv

LEMMA ReturnNextDone ==
  ASSUME TypeInv, TypeInv', SearchInv, DoneInv, ReturnNext
  PROVE  DoneInv'
<1>1. /\ phase = "solved" /\ phase' = "idle"
      /\ game' = game /\ solved' = solved /\ CBGlowerBound' = CBGlowerBound /\ calls' = calls
  BY DEF ReturnNext
<1>2. solved /\ calls \in Nat /\ NrCalls(game)' = NrCalls(game)
  BY <1>1 DEF SearchInv, TypeInv, NrCalls
<1>3. Returns = calls - 1 /\ Returns' = Returns + 1 /\ Returns \in Int
  BY <1>1, <1>2 DEF Returns
<1>4. /\ calls <= NrCalls(game) /\ Len(returned) <= Returns
      /\ Len(returned) < Returns => NothingAboveBound
      /\ game.nrDesired > 1 => AllAreFound
      /\ game.nrDesired = 1 => BestIsFound
  BY <1>1, <1>2 DEF DoneInv
<1>5. Len(returned) \in Nat
  BY QueueIs
<1>6. CASE queue # << >> /\ SolutionValue[Head(queue)] >= CBGlowerBound
  <2>1. Queue!PopNextSolution
    BY <1>6 DEF ReturnNext
  <2>2. /\ QP!Elements(queue) = QP!Elements(queue') \cup {Head(queue)}
        /\ QP!Elements(returned') = QP!Elements(returned) \cup {Head(queue)}
        /\ Len(returned') = Len(returned) + 1
        /\ Len(queue') + Len(returned') = Len(queue) + Len(returned)
    BY <2>1, PopMoves
  <2>3. Found' = Found
    BY <2>2 DEF Found
  <2>4. \A s \in QP!Elements(queue') : s \in QP!Elements(queue)
    BY <2>2
  <2>5. (AllAreFound => AllAreFound') /\ (BestIsFound => BestIsFound')
    <3>1. \A p : Solution(p)' = Solution(p)
      BY <1>1 DEF Solution
    <3>2. QED BY <1>1, <2>2, <2>3, <2>4, <3>1 DEF AllAreFound, BestIsFound
  <2>6. ~(Len(returned) < Returns)
    <3>1. ~(SolutionValue[Head(queue)] < CBGlowerBound)
      <4>1. SolutionValue[Head(queue)] \in Int /\ CBGlowerBound \in Int
        BY <1>6, QueueIs, GamesAssumption DEF TypeInv
      <4>2. QED BY <1>6, <4>1
    <3>2. QED BY <1>4, <1>6, <3>1 DEF NothingAboveBound
  <2>7. Len(returned') <= Returns' /\ ~(Len(returned') < Returns')
    BY <1>3, <1>4, <1>5, <2>2, <2>6
  <2>8. QED BY <1>1, <1>2, <1>4, <2>5, <2>7 DEF DoneInv
<1>7. CASE ~(queue # << >> /\ SolutionValue[Head(queue)] >= CBGlowerBound)
  <2>1. queue' = queue /\ returned' = returned
    BY <1>7 DEF ReturnNext, queueVars
  <2>2. NothingAboveBound'
    <3>1. queue # << >> => SolutionValue[Head(queue)] \in Int /\ CBGlowerBound \in Int
      BY QueueIs, GamesAssumption DEF TypeInv
    <3>2. QED BY <1>1, <1>7, <2>1, <3>1 DEF NothingAboveBound
  <2>3. (AllAreFound => AllAreFound') /\ (BestIsFound => BestIsFound')
    BY <1>1, <2>1 DEF AllAreFound, BestIsFound, Solution, Found, QP!Elements
  <2>4. Len(returned') <= Returns'
    BY <1>3, <1>4, <1>5, <2>1
  <2>5. QED BY <1>1, <1>2, <1>4, <2>2, <2>3, <2>4 DEF DoneInv
<1>8. QED BY <1>6, <1>7

LEMMA DoneInvStep ==
  ASSUME UpperBoundsAreSound, IndicesFit, TypeInv, SearchInv, DoneInv, [Next]_vars
  PROVE  DoneInv'
<1>1. TypeInv' /\ SearchInv'
  BY TypeInvStep, SearchInvStep
<1>2. CASE UNCHANGED vars
  BY <1>2 DEF vars, searchVars, queueVars, DoneInv, Returns, NothingAboveBound, AllAreFound, BestIsFound,
              Solution, Found, QP!Elements, NrCalls
<1>3. QED BY <1>1, <1>2, GetNextDone, TryDone, ReturnNextDone DEF Next

-----------------------------------------------------------------------------
(***************************************************************************)
(* The contract of the incremental interface.                              *)
(***************************************************************************)

LEMMA PoliciesAre ==
  ASSUME NEW q \in Seq(Solutions)
  PROVE  PoliciesOf(q) = {s.policy : s \in QP!Elements(q)}
<1>1. ToSet(q) = QP!Elements(q)
  BY DEF ToSet, QP!Elements
<1>2. QED BY <1>1 DEF PoliciesOf

LEMMA LeftIs ==
  Left = IF Len(returned) < Returns THEN {}
         ELSE IF game.nrDesired = 1 /\ added # {} THEN PoliciesOf(queue)
         ELSE JointPolicies \ PoliciesOf(returned)
BY DEF Left, Returns

LEMMA LeftIsPrimed ==
  Left' = IF Len(returned') < Returns' THEN {}
          ELSE IF game.nrDesired' = 1 /\ added' # {} THEN PoliciesOf(queue')
          ELSE JointPolicies \ PoliciesOf(returned')
BY DEF Left, Returns, PoliciesOf, ToSet

(* Before the search is over every policy is left.                         *)
LEMMA AllLeft ==
  ASSUME TypeInv, SearchInv, DoneInv, phase = "solving"
  PROVE  Left = JointPolicies
<1>1. returned = << >> /\ calls = 1 /\ (game.nrDesired = 1 => added = {})
  BY DEF SearchInv, TypeInv
<1>2. Returns = 0 /\ Len(returned) = 0
  BY <1>1 DEF Returns
<1>3. PoliciesOf(returned) = {}
  BY <1>1 DEF PoliciesOf, ToSet
<1>4. QED BY <1>1, <1>2, <1>3, LeftIs

(* No policy that is left is better than the first solution of the queue,  *)
(* and while policies are left there is one.                               *)
LEMMA LeftIsBelowHead ==
  ASSUME TypeInv, SearchInv, DoneInv, phase = "solved", NEW p \in Left
  PROVE  /\ p \in JointPolicies /\ Len(returned) = Returns
         /\ queue # << >> /\ GamePayoff[game][p] <= SolutionValue[Head(queue)]
<1>1. /\ solved /\ Len(returned) = Returns /\ calls <= NrCalls(game) /\ calls \in Nat
      /\ game \in Games
      /\ game.nrDesired > 1 => AllAreFound
      /\ game.nrDesired = 1 => BestIsFound
  <2>1. ~(Len(returned) < Returns)
    BY LeftIs
  <2>2. Len(returned) \in Nat /\ Returns \in Int
    BY QueueIs DEF Returns, TypeInv
  <2>3. QED BY <2>1, <2>2 DEF DoneInv, SearchInv, TypeInv
<1>2. Returns = calls - 1
  BY DEF Returns
<1>3. /\ NrCalls(game) \in Nat \ {0} /\ game.nrDesired \in Nat \ {0}
      /\ game.nrDesired # Infinite => NrCalls(game) = game.nrDesired
  BY <1>1, NrCallsIs
<1>4. CASE game.nrDesired = 1
  <2>1. PICK b \in JointPolicies :
          Found = {Solution(b)} /\ \A q \in JointPolicies : GamePayoff[game][q] <= GamePayoff[game][b]
    BY <1>1, <1>4 DEF BestIsFound
  <2>2. added # {}
    BY <2>1 DEF Found, SearchInv, QP!QueueInv
  <2>3. Left = {s.policy : s \in QP!Elements(queue)}
    BY <1>1, <1>4, <2>2, LeftIs, PoliciesAre, QueueIs
  <2>4. PICK s \in QP!Elements(queue) : p = s.policy
    BY <2>3
  <2>5. s = Solution(b) /\ p = b
    BY <1>1, <2>1, <2>4, SolutionOfPolicy DEF Found
  <2>6. SolutionValue[s] = GamePayoff[game][p]
    BY <1>1, <2>5, SolutionOfPolicy
  <2>7. queue # << >> /\ SolutionValue[s] <= SolutionValue[Head(queue)]
    BY QueueIs
  <2>8. QED BY <1>1, <2>5, <2>6, <2>7
<1>5. CASE game.nrDesired > 1
  <2>1. p \in JointPolicies /\ p \notin PoliciesOf(returned)
    BY <1>1, <1>3, <1>5, LeftIs
  <2>2. Solution(p) \notin QP!Elements(returned) /\ SolutionValue[Solution(p)] = GamePayoff[game][p]
        /\ GamePayoff[game][p] \in Int
    BY <1>1, <2>1, PoliciesAre, QueueIs, SolutionOfPolicy
  <2>3. \/ Solution(p) \in QP!Elements(queue)
        \/ /\ game.nrDesired # Infinite
           /\ Len(queue) + Len(returned) = game.nrDesired
           /\ \A s \in QP!Elements(queue) : GamePayoff[game][p] <= SolutionValue[s]
    BY <1>1, <1>5, <2>1, <2>2 DEF AllAreFound, Found
  <2>4. CASE Solution(p) \in QP!Elements(queue)
    BY <1>1, <2>1, <2>2, <2>4, QueueIs
  <2>5. ASSUME game.nrDesired # Infinite, Len(queue) + Len(returned) = game.nrDesired,
               \A s \in QP!Elements(queue) : GamePayoff[game][p] <= SolutionValue[s]
        PROVE  queue # << >> /\ GamePayoff[game][p] <= SolutionValue[Head(queue)]
    <3>1. Len(queue) > 0
      BY <1>1, <1>2, <1>3, <2>5, QueueIs
    <3>2. queue # << >>
      BY <3>1
    <3>3. QED BY <2>5, <3>2, QueueIs
  <2>6. QED BY <1>1, <2>1, <2>3, <2>4, <2>5
<1>6. QED BY <1>3, <1>4, <1>5

LEMMA InitRefines == Init => Solver!Init
<1> SUFFICES ASSUME Init PROVE Solver!Init
  OBVIOUS
<1>1. /\ game \in Games /\ phase = "idle" /\ calls = 0 /\ returned = << >> /\ added = {}
      /\ CBGlowerBound \in Int /\ answer = NoPolicy
  BY GamesAssumption DEF Init
<1>2. Returns = 0 /\ Len(returned) = 0
  BY <1>1 DEF Returns
<1>3. PoliciesOf(returned) = {}
  BY <1>1 DEF PoliciesOf, ToSet
<1>4. Left = JointPolicies
  BY <1>1, <1>2, <1>3, LeftIs
<1>5. QED BY <1>1, <1>4 DEF Solver!Init

LEMMA GetNextRefines == TypeInv /\ GetNext => Solver!Ask
<1> SUFFICES ASSUME TypeInv, GetNext PROVE Solver!Ask
  OBVIOUS
<1>1. /\ phase = "idle" /\ phase' # "idle" /\ calls < NrCalls(game) /\ calls' = calls + 1
      /\ CBGlowerBound' >= CBGlowerBound /\ game' = game /\ answer' = answer
      /\ queue' = queue /\ added' = added /\ returned' = returned
      /\ calls \in Nat /\ game \in Games
  BY DEF GetNext, queueVars, TypeInv
<1>2. Returns' = Returns
  BY <1>1 DEF Returns
<1>3. Left' = Left
  BY <1>1, <1>2, LeftIs, LeftIsPrimed
<1>4. [bg \in Games |-> NrCalls(bg)][game] = NrCalls(game)
  BY <1>1
<1>5. QED BY <1>1, <1>3, <1>4 DEF Solver!Ask

NrNoWorse(kept, p) == Cardinality({q \in kept : GamePayoff[game][p] <= GamePayoff[game][q]})

LEMMA MayBeDropped ==
  ASSUME NEW kept, NEW p,
         GamePayoff[game][p] < CBGlowerBound \/ NrNoWorse(kept, p) >= Solver!NrToReturn
  PROVE  Solver!MayDrop(p, kept)
BY DEF Solver!MayDrop, NrNoWorse, Cardinality, Solver!Cardinality

(* A step of the search drops what is no better than the one solution that *)
(* is desired, when it is found.                                           *)
LEMMA TryRefines ==
  ASSUME TypeInv, TypeInv', SearchInv, SearchInv', DoneInv, DoneInv', Try
  PROVE  Solver!Drop \/ UNCHANGED Solver!solverVars
<1>1. /\ phase = "solving" /\ phase' \in {"solving", "solved"} /\ returned' = << >>
      /\ UNCHANGED <<game, solved, CBGlowerBound, calls, answer>>
  BY TryEffect
<1>2. calls = 1 /\ game \in Games /\ solved
  BY <1>1 DEF SearchInv, TypeInv
<1>3. Left = JointPolicies
  BY <1>1, AllLeft
<1>4. Returns' = 0 /\ Len(returned') = 0 /\ PoliciesOf(returned') = {}
  <2>1. Returns' = 0 /\ Len(returned') = 0
    BY <1>1, <1>2 DEF Returns
  <2>2. PoliciesOf(returned') = {}
    BY <1>1 DEF PoliciesOf, ToSet
  <2>3. QED BY <2>1, <2>2
<1>5. CASE ~(game.nrDesired = 1 /\ added' # {})
  <2>1. Left' = JointPolicies
    BY <1>1, <1>4, <1>5, LeftIsPrimed
  <2>2. QED BY <1>1, <1>3, <2>1 DEF Solver!solverVars
<1>6. CASE game.nrDesired = 1 /\ added' # {}
  <2>1. phase' = "solved"
    BY <1>1, <1>6 DEF SearchInv
  <2>2. BestIsFound'
    BY <1>1, <1>2, <1>6, <2>1 DEF DoneInv
  <2>3. PICK b \in JointPolicies :
          /\ Found' = {Solution(b)}
          /\ \A p \in JointPolicies : GamePayoff[game][p] <= GamePayoff[game][b]
    <3>1. \A p : Solution(p)' = Solution(p)
      BY <1>1 DEF Solution
    <3>2. QED BY <1>1, <2>2, <3>1 DEF BestIsFound
  <2>4. Left' = {b}
    <3>1. QP!Elements(returned') = {}
      BY <1>1 DEF QP!Elements
    <3>2. QP!Elements(queue') = {Solution(b)} /\ Solution(b).policy = b
      BY <1>2, <2>3, <3>1, SolutionOfPolicy DEF Found
    <3>3. queue' \in Seq(Solutions)
      BY DEF TypeInv, QP!TypeInv, QP!TypeOK
    <3>4. PoliciesOf(queue') = {s.policy : s \in QP!Elements(queue')}
      BY <3>3, PoliciesAre
    <3>5. Left' = PoliciesOf(queue')
      BY <1>1, <1>4, <1>6, LeftIsPrimed
    <3>6. QED BY <3>2, <3>4, <3>5
  <2>5. Solver!NrToReturn = 1
    <3>1. [bg \in Games |-> NrCalls(bg)][game] = 1
      BY <1>2, <1>6, NrCallsIs
    <3>2. QED BY <1>2, <3>1 DEF Solver!NrToReturn
  <2>6. ASSUME NEW p \in JointPolicies PROVE Solver!MayDrop(p, {b})
    <3>1. {q \in {b} : GamePayoff[game][p] <= GamePayoff[game][q]} = {b}
      BY <2>3
    <3>2. NrNoWorse({b}, p) = 1
      BY <3>1, FS_Singleton DEF NrNoWorse
    <3>3. NrNoWorse({b}, p) >= Solver!NrToReturn
      BY <2>5, <3>2
    <3>4. QED BY <3>3, MayBeDropped
  <2>7. QED BY <1>1, <1>3, <2>1, <2>4, <2>6 DEF Solver!Drop
<1>7. QED BY <1>5, <1>6

LEMMA ReturnNextRefines ==
  ASSUME TypeInv, TypeInv', SearchInv, SearchInv', DoneInv, ReturnNext
  PROVE  Solver!Return
<1>1. /\ phase = "solved" /\ phase' = "idle" /\ calls' = calls /\ game' = game
      /\ CBGlowerBound' = CBGlowerBound
  BY DEF ReturnNext
<1>2. solved /\ game \in Games /\ calls \in Nat /\ calls >= 1 /\ calls <= NrCalls(game)
  BY <1>1 DEF SearchInv, TypeInv, DoneInv
<1>3. Returns' = Returns + 1 /\ Returns = calls - 1 /\ Returns \in Int
  BY <1>1, <1>2 DEF Returns
<1>4. Len(returned) \in Nat /\ Len(returned) <= Returns
  BY QueueIs DEF DoneInv
<1>5. \A p \in Left : /\ p \in JointPolicies /\ Len(returned) = Returns
                      /\ queue # << >> /\ GamePayoff[game][p] <= SolutionValue[Head(queue)]
  BY <1>1, LeftIsBelowHead
<1>6. CBGlowerBound \in Int /\ \A s \in Solutions : SolutionValue[s] \in Int
  BY GamesAssumption, QueueParameters DEF TypeInv, QP!QueueAssumption
<1>7. CASE queue # << >> /\ SolutionValue[Head(queue)] >= CBGlowerBound
  <2> DEFINE h == Head(queue)
             a == h.policy
  <2>1. answer' = a /\ Queue!PopNextSolution
    BY <1>7 DEF ReturnNext
  <2>2. /\ QP!Elements(queue) = QP!Elements(queue') \cup {h}
        /\ QP!Elements(returned') = QP!Elements(returned) \cup {h}
        /\ Len(returned') = Len(returned) + 1 /\ added' = added
    BY <2>1, PopMoves
  <2>3. /\ h \in QP!Elements(queue) /\ h \notin QP!Elements(returned)
        /\ \A s \in QP!Elements(queue) \cup QP!Elements(returned) :
             s \in Solutions /\ s.game = game /\ s = Solution(s.policy)
    <3>1. h \in QP!Elements(queue) /\ h \notin QP!Elements(returned)
      BY <1>7, QueueIs DEF SearchInv, QP!QueueInv
    <3>2. ASSUME NEW s \in QP!Elements(queue) \cup QP!Elements(returned)
          PROVE  s \in Solutions /\ s.game = game
      BY QueueIs DEF SearchInv, QP!QueueInv
    <3>3. QED BY <3>1, <3>2, PolicyOfSolution
  <2>4. h \notin QP!Elements(queue')
    <3>1. \A s \in QP!Elements(queue') \cap QP!Elements(returned') : FALSE
      BY DEF SearchInv, QP!QueueInv
    <3>2. QED BY <2>2, <3>1
  <2>5. a \in JointPolicies /\ SolutionValue[h] = GamePayoff[game][a]
    BY <1>2, <2>3, PolicyOfSolution, SolutionOfPolicy
  <2>6. ~(Len(returned) < Returns)
    <3>1. ~(SolutionValue[h] < CBGlowerBound)
      BY <1>6, <1>7, <2>3
    <3>2. QED BY <1>7, <3>1 DEF DoneInv, NothingAboveBound
  <2>7. ~(Len(returned') < Returns')
    BY <1>3, <1>4, <2>2, <2>6
  <2> HIDE DEF h
  <2>8. /\ PoliciesOf(queue) = {s.policy : s \in QP!Elements(queue)}
        /\ PoliciesOf(returned) = {s.policy : s \in QP!Elements(returned)}
        /\ PoliciesOf(queue') = {s.policy : s \in QP!Elements(queue')}
        /\ PoliciesOf(returned') = {s.policy : s \in QP!Elements(returned')}
    <3>1. queue' \in Seq(Solutions) /\ returned' \in Seq(Solutions)
      BY DEF TypeInv, QP!TypeInv, QP!TypeOK
    <3>2. QED BY <3>1, QueueIs, PoliciesAre
  <2>9. /\ PoliciesOf(queue') = PoliciesOf(queue) \ {a} /\ a \in PoliciesOf(queue)
        /\ PoliciesOf(returned') = PoliciesOf(returned) \cup {a} /\ a \notin PoliciesOf(returned)
    <3>1. \A s \in QP!Elements(queue) \cup QP!Elements(returned) : s.policy = a => s = h
      BY <2>3
    <3>2. a \notin PoliciesOf(returned)
      BY <2>3, <2>8, <3>1
    <3>3. a \notin PoliciesOf(queue')
      BY <2>2, <2>4, <2>8, <3>1
    <3>4. PoliciesOf(queue) = PoliciesOf(queue') \cup {a}
      BY <2>2, <2>8
    <3>5. PoliciesOf(returned') = PoliciesOf(returned) \cup {a}
      BY <2>2, <2>8
    <3>6. QED BY <3>2, <3>3, <3>4, <3>5
  <2>10. Left' = Left \ {a} /\ a \in Left
    <3>1. CASE game.nrDesired = 1 /\ added # {}
      <4>1. Left = PoliciesOf(queue) /\ Left' = PoliciesOf(queue')
        BY <1>1, <2>2, <2>6, <2>7, <3>1, LeftIs, LeftIsPrimed
      <4>2. QED BY <2>9, <4>1
    <3>2. CASE ~(game.nrDesired = 1 /\ added # {})
      <4>1. Left = JointPolicies \ PoliciesOf(returned) /\ Left' = JointPolicies \ PoliciesOf(returned')
        BY <1>1, <2>2, <2>6, <2>7, <3>2, LeftIs, LeftIsPrimed
      <4>2. QED BY <2>5, <2>9, <4>1
    <3>3. QED BY <3>1, <3>2
  <2>11. Left' \cup ({answer'} \cap Left) = Left /\ Left' \subseteq Left \ {answer'} /\ answer' \in Left
    BY <2>1, <2>10
  <2>12. \A p \in Left : GamePayoff[game][p] <= GamePayoff[game][answer']
    BY <1>5, <2>1, <2>5 DEF h
  <2>13. QED BY <1>1, <2>11, <2>12 DEF Solver!Return
<1>8. CASE ~(queue # << >> /\ SolutionValue[Head(queue)] >= CBGlowerBound)
  <2>1. answer' = NoPolicy /\ returned' = returned
    BY <1>8 DEF ReturnNext, queueVars
  <2>2. Left' = {}
    BY <1>3, <1>4, <2>1, LeftIsPrimed
  <2>3. NoPolicy \notin Left
    BY <1>5, GamesAssumption
  <2>4. Left' \cup ({answer'} \cap Left) = {}
    BY <2>1, <2>2, <2>3
  <2>5. ASSUME NEW p \in Left PROVE Solver!MayDrop(p, {})
    <3>1. queue # << >> /\ Head(queue) \in Solutions /\ GamePayoff[game][p] \in Int
      BY <1>2, <1>5, QueueIs, SolutionOfPolicy
    <3>2. GamePayoff[game][p] < CBGlowerBound
      BY <1>5, <1>6, <1>8, <3>1
    <3>3. QED BY <3>2, MayBeDropped
  <2>6. QED BY <1>1, <2>1, <2>2, <2>4, <2>5 DEF Solver!Return
<1>9. QED BY <1>7, <1>8

LEMMA NextRefines ==
  ASSUME TypeInv, TypeInv', SearchInv, SearchInv', DoneInv, DoneInv', [Next]_vars
  PROVE  [Solver!Next]_(Solver!solverVars)
<1>1. CASE UNCHANGED vars
  <2>1. /\ UNCHANGED <<game, phase, CBGlowerBound, calls, answer, queue, added, returned>>
    BY <1>1 DEF vars, queueVars
  <2>2. Returns' = Returns
    BY <2>1 DEF Returns
  <2>3. Left' = Left
    BY <2>1, <2>2, LeftIs, LeftIsPrimed
  <2>4. QED BY <2>1, <2>3 DEF Solver!solverVars
<1>2. QED BY <1>1, GetNextRefines, TryRefines, ReturnNextRefines DEF Next, Solver!Next

(* The solver keeps the safety part of the contract of an incremental      *)
(* solver: policies come by decreasing payoff, and only policies below the *)
(* caller's bound, or no better than as many others as can still be asked  *)
(* for, are lost.  As long as indices fit into an Index, and the upper     *)
(* bound at which the search for one solution stops is sound.              *)
THEOREM ImplementsIncrementalSolver ==
  IndicesFit /\ UpperBoundsAreSound => (Spec => Solver!SafeSpec)
<1> SUFFICES ASSUME IndicesFit, UpperBoundsAreSound PROVE Spec => Solver!SafeSpec
  OBVIOUS
<1> DEFINE I == TypeInv /\ SearchInv /\ DoneInv
<1>1. Init => I
  BY TypeInvInit, SearchInvInit, DoneInvInit
<1>2. I /\ [Next]_vars => I'
  BY TypeInvStep, SearchInvStep, DoneInvStep
<1>3. I /\ I' /\ [Next]_vars => [Solver!Next]_(Solver!solverVars)
  BY NextRefines
<1> HIDE DEF I
<1>4. QED BY <1>1, <1>2, <1>3, InitRefines, PTL DEF Spec, Solver!SafeSpec
===============================================================================
