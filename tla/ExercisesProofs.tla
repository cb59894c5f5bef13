--------------------------- MODULE ExercisesProofs ---------------------------
(***************************************************************************)
(* What the exercises of 001pun.c compute, for arrays, decks and inputs of *)
(* every size.                                                             *)
(***************************************************************************)
EXTENDS Exercises, SequenceTheorems, NaturalsInduction, WellFoundedInduction, TLAPS

LEMMA ArrayBounds ==
  /\ MaxLen \in Nat /\ MaxInt \in Nat \ {0}
  /\ MaxElement \in 0 .. MaxInt /\ MaxSide \in 0 .. MaxInt
BY ArrayAssumption

LEMMA ElementsAreInts == Elements \subseteq Ints
BY ArrayBounds DEF Elements, Ints

-----------------------------------------------------------------------------
(* The loops over arrays. *)

(* The arguments of the functions, which their loops leave alone, and the  *)
(* counter of identity.                                                    *)
Arguments ==
  /\ fn \in {"sum", "search", "findTwoLargest"} => a \in [0 .. len - 1 -> Elements]
  /\ fn = "findTwoLargest" => s \in Elements \union {0} /\ f \in Elements \union {0}
  /\ fn = "identity" => s \in Nat /\ f \in 0 .. s

AInv == ArrayTypeOK /\ Arguments

LEMMA ArrayInitOK == ArrayInit => AInv
<1> SUFFICES ASSUME ArrayInit PROVE AInv
  OBVIOUS
<1>1. a \in [0 .. len - 1 -> Int]
  BY DEF ArrayInit
<1>2. 0 \in Ints
  BY ArrayBounds DEF Ints
<1> QED
  BY <1>1, <1>2 DEF ArrayInit, AInv, ArrayTypeOK, Arguments

LEMMA ArrayCallOK == ArrayCall => AInv'
<1> SUFFICES ASSUME ArrayCall PROVE AInv'
  OBVIOUS
<1>1. 0 \in Ints /\ Elements \subseteq Int
  BY ArrayBounds DEF Ints, Elements
<1>2. ASSUME NEW n \in 0 .. MaxLen, NEW key \in Elements,
             a' \in Arrays(n),
             CallOn("sum", n, 0) \/ CallOn("search", n, key) \/ CallOn("findTwoLargest", n, 0)
      PROVE  AInv'
  <2>1. n \in Nat
    BY ArrayBounds
  <2>2. /\ len' = n /\ p' = 0 /\ f' = 0 /\ s' \in {0, key}
        /\ fn' \in {"sum", "search", "findTwoLargest"}
        /\ fn' = "findTwoLargest" => s' = 0
    BY <1>2 DEF CallOn
  <2>3. a' \in [0 .. len' - 1 -> Elements] /\ a' \in [0 .. len' - 1 -> Int]
    BY <1>1, <1>2, <2>2 DEF Arrays
  <2>4. key \in Ints
    BY ElementsAreInts
  <2>5. len' \in Nat /\ p' \in 0 .. len'
    BY <2>1, <2>2
  <2> QED
    BY <1>1, <2>2, <2>3, <2>4, <2>5 DEF AInv, ArrayTypeOK, Arguments
<1>3. ASSUME NEW n \in 0 .. MaxSide, NEW m \in 0 .. MaxSide,
             a' = Junk(n * m), CallOn("identity", n * m, m)
      PROVE  AInv'
  <2>1. n \in Nat /\ m \in Nat /\ m \in Ints
    BY ArrayBounds DEF Ints
  <2>2. ASSUME NEW x \in Nat, NEW y \in Nat PROVE x * y \in Nat
    BY SMT
  <2> DEFINE size == n * m
  <2>3. size \in Nat
    BY <2>1, <2>2
  <2> HIDE DEF size
  <2>4. len' = size /\ p' = 0 /\ f' = 0 /\ s' = m /\ fn' = "identity" /\ a' = Junk(size)
    BY <1>3 DEF CallOn, size
  <2>5. a' \in [0 .. len' - 1 -> Int] /\ p' \in 0 .. len'
    BY <2>3, <2>4 DEF Junk
  <2> QED
    BY <1>1, <2>1, <2>3, <2>4, <2>5 DEF AInv, ArrayTypeOK, Arguments
<1>4. 0 \in Elements
  BY ArrayBounds DEF Elements
<1> QED
  BY <1>2, <1>3, <1>4 DEF ArrayCall

LEMMA ArrayStepOK ==
  ASSUME AInv, ArrayNext
  PROVE  AInv'
<1>1. /\ ArrayTypeOK /\ Arguments /\ len \in Nat /\ p \in 0 .. len
      /\ a \in [0 .. len - 1 -> Int] /\ f \in Ints /\ s \in Ints
      /\ fn \in {"none", "sum", "search", "findTwoLargest", "identity"}
  BY DEF AInv, ArrayTypeOK
<1>2. Ints \subseteq Int /\ 1 \in Ints
  BY ArrayBounds DEF Ints
<1>3. p < len /\ p \in 0 .. len - 1 /\ fn' = fn /\ len' = len
  BY <1>1 DEF ArrayNext, SumStep, SearchStep, TwoLargestStep, IdentityStep, Loop, More, Advance
<1>4. p' \in 0 .. len
  BY <1>1, <1>3 DEF ArrayNext, SumStep, SearchStep, TwoLargestStep, IdentityStep, Advance
<1>5. CASE SumStep
  <2>1. f' \in Ints /\ a' = a /\ s' = s /\ fn = "sum"
    BY <1>5 DEF SumStep, Loop, IntSums
  <2> QED
    BY <1>1, <1>3, <1>4, <2>1 DEF AInv, ArrayTypeOK, Arguments
<1>6. CASE SearchStep
  <2>1. f' \in Ints /\ a' = a /\ s' = s /\ fn = "search"
    BY <1>1, <1>2, <1>6 DEF SearchStep, Loop
  <2> QED
    BY <1>1, <1>3, <1>4, <2>1 DEF AInv, ArrayTypeOK, Arguments
<1>7. CASE TwoLargestStep
  <2>1. /\ fn = "findTwoLargest" /\ a' = a /\ a \in [0 .. len - 1 -> Elements]
        /\ s \in Elements \union {0} /\ f \in Elements \union {0}
    BY <1>1, <1>7 DEF TwoLargestStep, Loop, Arguments
  <2>2. a[p] \in Elements
    BY <1>3, <2>1
  <2>3. f' \in Elements \union {0} /\ s' \in Elements \union {0}
    BY <1>7, <2>1, <2>2 DEF TwoLargestStep, Rise
  <2>4. Elements \union {0} \subseteq Ints
    BY ElementsAreInts, ArrayBounds DEF Ints
  <2> QED
    BY <1>1, <1>3, <1>4, <2>1, <2>3, <2>4 DEF AInv, ArrayTypeOK, Arguments
<1>8. CASE IdentityStep
  <2>1. fn = "identity" /\ s' = s /\ s \in Nat /\ f \in 0 .. s
    BY <1>1, <1>8 DEF IdentityStep, Loop, Arguments
  <2>2. f' \in 0 .. s
    BY <1>8, <2>1 DEF IdentityStep, Wrap
  <2>3. f' \in Ints
    BY <1>1, <2>1, <2>2, ArrayBounds DEF Ints
  <2>4. a' \in [0 .. len - 1 -> Int]
    <3>1. PICK x \in Int : a' = [a EXCEPT ![p] = x]
      <4>1. a' = [a EXCEPT ![p] = 1] \/ a' = [a EXCEPT ![p] = 0]
        BY <1>8 DEF IdentityStep
      <4> QED
        BY <4>1
    <3> QED
      BY <3>1, <1>1
  <2> QED
    BY <1>1, <1>3, <1>4, <2>1, <2>2, <2>3, <2>4 DEF AInv, ArrayTypeOK, Arguments
<1> QED
  BY <1>5, <1>6, <1>7, <1>8 DEF ArrayNext

(* What a step of the program is to the loops over arrays. *)
LEMMA StepOfArrays == [Next]_vars => ArrayCall \/ ArrayNext \/ UNCHANGED arrayVars
BY DEF Next, Call, Run, Array, Hand, Line, vars

LEMMA StepKeepsAInv == AInv /\ [Next]_vars => AInv'
<1>1. CASE UNCHANGED arrayVars
  BY <1>1 DEF arrayVars, AInv, ArrayTypeOK, Arguments
<1> QED
  BY <1>1, StepOfArrays, ArrayCallOK, ArrayStepOK

(* ArrayTypeOK of ArrayLoops, for arrays of every length: the loops stay   *)
(* inside the array.                                                       *)
THEOREM ArraysAreTyped == Spec => []ArrayTypeOK
<1>1. Init => AInv
  BY ArrayInitOK DEF Init
<1>2. AInv => ArrayTypeOK
  BY DEF AInv
<1> QED
  BY <1>1, <1>2, StepKeepsAInv, PTL DEF Spec

(* The two largest so far, as findTwoLargest keeps them. *)
LEMMA TwoLargestStepOK ==
  ASSUME AInv, TwoLargest, TwoLargestStep
  PROVE  TwoLargest'
<1>1. /\ fn = "findTwoLargest" /\ fn' = fn /\ a' = a /\ p' = p + 1 /\ len' = len
      /\ p \in 0 .. len - 1 /\ p \in Nat /\ len \in Nat
      /\ a \in [0 .. len - 1 -> Int] /\ f \in Int /\ s \in Int
  <2>1. Ints \subseteq Int
    BY ArrayBounds DEF Ints
  <2> QED
    BY <2>1 DEF AInv, ArrayTypeOK, TwoLargestStep, Loop, More, Advance
<1>2. /\ 0 <= s /\ s <= f
      /\ \A x \in 0 .. p - 1 : a[x] <= f
      /\ \A x, y \in 0 .. p - 1 : a[x] > s /\ a[y] > s => x = y
      /\ f # 0 => \E x \in 0 .. p - 1 : a[x] = f
      /\ s # 0 => \E x, y \in 0 .. p - 1 : x # y /\ a[x] = f /\ a[y] = s
  BY <1>1 DEF TwoLargest
<1>3. /\ 0 .. p' - 1 = (0 .. p - 1) \union {p} /\ p \notin 0 .. p - 1
      /\ \A x \in 0 .. p : a[x] \in Int
  BY <1>1
<1> DEFINE new == a[p]
<1>4. new \in Int
  BY <1>3, <1>1
<1>5. CASE new > s /\ new > f
  <2>1. f' = new /\ s' = f
    BY <1>5 DEF TwoLargestStep, Rise
  <2>2. \A x \in 0 .. p - 1 : a[x] <= f /\ a[x] < new /\ a[x] \in Int
    BY <1>1, <1>2, <1>3, <1>4, <1>5
  <2>3. 0 <= s' /\ s' <= f' /\ \A x \in 0 .. p' - 1 : a[x] <= f'
    BY <1>1, <1>2, <1>3, <1>4, <1>5, <2>1, <2>2
  <2>4. \A x \in 0 .. p' - 1 : a[x] > s' => x = p
    BY <1>1, <1>3, <2>1, <2>2
  <2>5. \E x \in 0 .. p' - 1 : a[x] = f'
    BY <1>3, <2>1
  <2>6. s' # 0 => \E x, y \in 0 .. p' - 1 : x # y /\ a[x] = f' /\ a[y] = s'
    BY <1>2, <1>3, <2>1
  <2> QED
    BY <1>1, <2>3, <2>4, <2>5, <2>6 DEF TwoLargest
<1>6. CASE new > s /\ ~(new > f)
  <2>1. f' = f /\ s' = new
    BY <1>6 DEF TwoLargestStep, Rise
  <2>2. 0 <= s' /\ s' <= f' /\ \A x \in 0 .. p' - 1 : a[x] <= f'
    BY <1>1, <1>2, <1>3, <1>4, <1>6, <2>1
  <2>3. \A x \in 0 .. p' - 1 : a[x] > s' => x \in 0 .. p - 1 /\ a[x] > s
    BY <1>1, <1>3, <1>4, <1>6, <2>1
  <2>4. \A x, y \in 0 .. p' - 1 : a[x] > s' /\ a[y] > s' => x = y
    BY <1>2, <2>3
  <2>5. f # 0
    BY <1>1, <1>2, <1>4, <1>6
  <2>6. PICK x \in 0 .. p - 1 : a[x] = f
    BY <1>2, <2>5
  <2>7. x \in 0 .. p' - 1 /\ p \in 0 .. p' - 1 /\ x # p /\ a[p] = s' /\ a[x] = f'
    BY <1>3, <2>1, <2>6
  <2> QED
    BY <1>1, <2>2, <2>4, <2>7 DEF TwoLargest
<1>7. CASE ~(new > s)
  <2>1. f' = f /\ s' = s
    BY <1>7 DEF TwoLargestStep
  <2>2. \A x \in 0 .. p' - 1 : a[x] <= f'
    BY <1>1, <1>2, <1>3, <1>4, <1>7, <2>1
  <2>3. \A x \in 0 .. p' - 1 : a[x] > s' => x \in 0 .. p - 1
    BY <1>1, <1>3, <1>4, <1>7, <2>1
  <2>4. \A x, y \in 0 .. p' - 1 : a[x] > s' /\ a[y] > s' => x = y
    BY <1>2, <2>1, <2>3
  <2>5. /\ f' # 0 => \E x \in 0 .. p' - 1 : a[x] = f'
        /\ s' # 0 => \E x, y \in 0 .. p' - 1 : x # y /\ a[x] = f' /\ a[y] = s'
    BY <1>2, <1>3, <2>1
  <2> QED
    BY <1>1, <1>2, <2>1, <2>2, <2>4, <2>5 DEF TwoLargest
<1> QED
  BY <1>5, <1>6, <1>7

LEMMA StepKeepsTwoLargest == AInv /\ TwoLargest /\ [Next]_vars => TwoLargest'
<1> SUFFICES ASSUME AInv, TwoLargest, [Next]_vars, fn' = "findTwoLargest" PROVE TwoLargest'
  BY DEF TwoLargest
<1>1. CASE ArrayCall
  <2>1. p' = 0 /\ f' = 0 /\ s' = 0
    BY <1>1 DEF ArrayCall, CallOn
  <2>2. 0 .. 0 - 1 = {}
    BY SMT
  <2> QED
    BY <2>1, <2>2 DEF TwoLargest
<1>2. CASE UNCHANGED arrayVars
  BY <1>2 DEF arrayVars, TwoLargest
<1>3. CASE ArrayNext
  <2>1. TwoLargestStep
    BY <1>3 DEF ArrayNext, SumStep, SearchStep, IdentityStep, Loop, Advance
  <2> QED
    BY <2>1, TwoLargestStepOK
<1> QED
  BY <1>1, <1>2, <1>3, StepOfArrays

(* TwoLargest of ArrayLoops, for arrays of every length. *)
THEOREM TwoLargestAreFound == Spec => []TwoLargest
<1>1. Init => AInv /\ TwoLargest
  BY ArrayInitOK DEF Init, ArrayInit, TwoLargest
<1> QED
  BY <1>1, StepKeepsAInv, StepKeepsTwoLargest, PTL DEF Spec

(* Division with remainder. *)
LEMMA Division ==
  ASSUME NEW x \in Nat, NEW d \in Nat \ {0}
  PROVE  x \div d \in Nat /\ x % d \in 0 .. d - 1 /\ x = (x \div d) * d + (x % d)
BY SMT

LEMMA ProductIsNat == ASSUME NEW x \in Nat, NEW y \in Nat PROVE x * y \in Nat
BY SMT

LEMMA SmallerQuotient ==
  ASSUME NEW q1 \in Nat, NEW q2 \in Nat, NEW d \in Nat, q1 < q2
  PROVE  q1 * d + d <= q2 * d
<1>1. PICK e \in Nat : q2 = q1 + 1 + e
  <2>1. q2 - q1 - 1 \in Nat
    BY SMT
  <2> QED
    BY <2>1, SMT
<1>2. q2 * d = q1 * d + d + e * d
  BY <1>1, SMT
<1> QED
  BY <1>2, ProductIsNat, SMT

LEMMA DivisionIsUnique ==
  ASSUME NEW x \in Nat, NEW d \in Nat \ {0}, NEW q \in Nat, NEW t \in 0 .. d - 1,
         x = q * d + t
  PROVE  x \div d = q /\ x % d = t
<1> DEFINE q2 == x \div d
           t2 == x % d
<1>1. q2 \in Nat /\ t2 \in 0 .. d - 1 /\ x = q2 * d + t2
  BY Division
<1> HIDE DEF q2, t2
<1>2. q * d \in Nat /\ q2 * d \in Nat
  BY <1>1, ProductIsNat
<1>3. CASE q < q2
  <2>1. q * d + d <= q2 * d
    BY <1>1, <1>3, SmallerQuotient
  <2> QED
    BY <1>1, <1>2, <2>1
<1>4. CASE q2 < q
  <2>1. q2 * d + d <= q * d
    BY <1>1, <1>4, SmallerQuotient
  <2> QED
    BY <1>1, <1>2, <2>1
<1>5. CASE q2 = q
  BY <1>1, <1>2, <1>5 DEF q2, t2
<1> QED
  BY <1>1, <1>3, <1>4, <1>5

(* The diagonal of a matrix with m columns is every (m + 1)st element, for *)
(* the first m + 1 rows.                                                   *)
LEMMA Diagonal ==
  ASSUME NEW m \in Nat \ {0}, NEW x \in Nat, x < (m + 1) * m
  PROVE  x % (m + 1) = 0 <=> x \div m = x % m
<1>1. ASSUME x % (m + 1) = 0 PROVE x \div m = x % m
  <2> DEFINE q == x \div (m + 1)
  <2>1. q \in Nat /\ x = q * (m + 1)
    <3>1. m + 1 \in Nat \ {0}
      OBVIOUS
    <3>2. q \in Nat /\ x = q * (m + 1) + (x % (m + 1))
      BY <3>1, Division
    <3> HIDE DEF q
    <3>3. q * (m + 1) \in Nat
      BY <3>1, <3>2, ProductIsNat
    <3> QED
      BY <3>2, <3>3, <1>1
  <2> HIDE DEF q
  <2>2. q < m
    <3>1. q > m => m * (m + 1) + (m + 1) <= q * (m + 1)
      BY <2>1, SmallerQuotient
    <3>2. m * (m + 1) = (m + 1) * m
      BY SMT
    <3>3. (m + 1) * m \in Nat /\ q * (m + 1) \in Nat
      BY <2>1, ProductIsNat
    <3>4. q # m
      BY <2>1, <3>2, <3>3
    <3> QED
      BY <2>1, <3>1, <3>2, <3>3, <3>4
  <2>3. x = q * m + q
    BY <2>1
  <2> QED
    BY <2>1, <2>2, <2>3, DivisionIsUnique
<1>2. ASSUME x \div m = x % m PROVE x % (m + 1) = 0
  <2> DEFINE q == x \div m
  <2>1. q \in Nat /\ x = q * m + q
    BY <1>2, Division
  <2> HIDE DEF q
  <2>2. x = q * (m + 1) + 0
    BY <2>1
  <2> QED
    BY <2>1, <2>2, DivisionIsUnique
<1> QED
  BY <1>1, <1>2

(* What identity has written: a one at every (m + 1)st element. *)
OnesSoFar ==
  fn = "identity" =>
    /\ f = p % (s + 1)
    /\ \A x \in 0 .. p - 1 : a[x] = IF x % (s + 1) = 0 THEN 1 ELSE 0

LEMMA IdentityStepOK ==
  ASSUME AInv, OnesSoFar, IdentityStep
  PROVE  OnesSoFar'
<1>1. /\ fn = "identity" /\ fn' = fn /\ s' = s /\ p' = p + 1 /\ p \in 0 .. len - 1
      /\ a \in [0 .. len - 1 -> Int] /\ len \in Nat /\ p \in Nat /\ s \in Nat
      /\ a' = [a EXCEPT ![p] = IF f = 0 THEN 1 ELSE 0] /\ f' = Wrap(f)
  BY DEF IdentityStep, Loop, More, Advance, AInv, ArrayTypeOK, Arguments
<1>2. f = p % (s + 1) /\ \A x \in 0 .. p - 1 : a[x] = IF x % (s + 1) = 0 THEN 1 ELSE 0
  BY <1>1 DEF OnesSoFar
<1>3. \A x \in 0 .. p : a'[x] = IF x % (s + 1) = 0 THEN 1 ELSE 0
  <2>1. a'[p] = IF p % (s + 1) = 0 THEN 1 ELSE 0
    <3>1. f = p % (s + 1)
      BY <1>2
    <3> QED
      BY <3>1, <1>1
  <2>2. \A x \in 0 .. p - 1 : a'[x] = a[x]
    BY <1>1
  <2>3. \A x \in 0 .. p : x = p \/ x \in 0 .. p - 1
    BY <1>1
  <2> QED
    BY <2>1, <2>2, <2>3, <1>2
<1>4. f' = (p + 1) % (s + 1)
  <2> DEFINE d == s + 1
             q == p \div d
  <2>1. d \in Nat \ {0} /\ d = s + 1
    BY <1>1
  <2> HIDE DEF d
  <2>2. q \in Nat /\ f \in 0 .. d - 1 /\ p = q * d + f
    BY <1>1, <1>2, <2>1, Division
  <2> HIDE DEF q
  <2>3. p + 1 = q * d + (f + 1) /\ q * d \in Nat
    BY <2>1, <2>2, ProductIsNat
  <2>4. CASE f = s
    <3>1. p + 1 = (q + 1) * d + 0
      BY <2>1, <2>2, <2>3, <2>4
    <3>2. (p + 1) % d = 0
      <4>1. p + 1 \in Nat /\ q + 1 \in Nat /\ 0 \in 0 .. d - 1
        BY <1>1, <2>1, <2>2
      <4> QED
        BY <4>1, <3>1, <2>1, DivisionIsUnique
    <3> QED
      BY <3>2, <1>1, <2>1, <2>4 DEF Wrap
  <2>5. CASE f # s
    <3>1. f + 1 \in 0 .. d - 1
      BY <2>1, <2>2, <2>5, <1>1
    <3>2. (p + 1) % d = f + 1
      <4>1. p + 1 \in Nat
        BY <1>1
      <4> QED
        BY <4>1, <3>1, <2>1, <2>2, <2>3, DivisionIsUnique
    <3> QED
      BY <3>2, <1>1, <2>1, <2>5 DEF Wrap
  <2> QED
    BY <2>4, <2>5
<1>5. 0 .. p' - 1 = 0 .. p
  BY <1>1
<1> QED
  BY <1>1, <1>3, <1>4, <1>5 DEF OnesSoFar

LEMMA StepKeepsOnes == AInv /\ OnesSoFar /\ [Next]_vars => OnesSoFar'
<1> SUFFICES ASSUME AInv, OnesSoFar, [Next]_vars, fn' = "identity" PROVE OnesSoFar'
  BY DEF OnesSoFar
<1>1. CASE ArrayCall
  <2>1. PICK m \in 0 .. MaxSide : s' = m /\ p' = 0 /\ f' = 0
    BY <1>1 DEF ArrayCall, CallOn
  <2>2. m \in Nat
    BY ArrayBounds
  <2>3. 0 .. 0 - 1 = {} /\ 0 % (m + 1) = 0
    BY <2>2
  <2> QED
    BY <2>1, <2>3 DEF OnesSoFar
<1>2. CASE UNCHANGED arrayVars
  BY <1>2 DEF arrayVars, OnesSoFar
<1>3. CASE ArrayNext
  <2>1. IdentityStep
    BY <1>3 DEF ArrayNext, SumStep, SearchStep, TwoLargestStep, Loop, Advance
  <2> QED
    BY <2>1, IdentityStepOK
<1> QED
  BY <1>1, <1>2, <1>3, StepOfArrays

(* IdentityWhenWide of ArrayLoops, for every number of rows and columns. *)
THEOREM IdentityIsDiagonal == Spec => []IdentityWhenWide
<1>1. Init => AInv /\ OnesSoFar
  BY ArrayInitOK DEF Init, ArrayInit, OnesSoFar
<1>2. AInv /\ OnesSoFar => IdentityWhenWide
  <2> SUFFICES ASSUME AInv, OnesSoFar, Returned("identity"), len <= (s + 1) * s,
                      NEW x \in 0 .. len - 1
               PROVE  a[x] = IF x \div s = x % s THEN 1 ELSE 0
    BY DEF IdentityWhenWide
  <2>1. fn = "identity" /\ p = len /\ s \in Nat /\ len \in Nat /\ x \in Nat
    BY DEF Returned, More, AInv, ArrayTypeOK, Arguments
  <2>2. a[x] = IF x % (s + 1) = 0 THEN 1 ELSE 0
    BY <2>1 DEF OnesSoFar
  <2>3. (s + 1) * s \in Nat
    BY <2>1, ProductIsNat
  <2>4. x < (s + 1) * s
    BY <2>1, <2>3
  <2>5. s # 0
    <3>1. s = 0 => (s + 1) * s = 0
      BY SMT
    <3> QED
      BY <3>1, <2>1, <2>4
  <2> QED
    BY <2>1, <2>2, <2>4, <2>5, Diagonal
<1> QED
  BY <1>1, <1>2, StepKeepsAInv, StepKeepsOnes, PTL DEF Spec

-----------------------------------------------------------------------------
(* The sums.  Exact is recursive: that there is such a function, and what  *)
(* it is at the next element, is proved by induction on the numbers for    *)
(* which the claim holds.                                                  *)

LEMMA SmallestNat ==
  ASSUME NEW S, S \subseteq Nat, S # {}
  PROVE  \E x \in S : \A y \in S : x <= y
<1>1. \E x \in S : \A y \in S : ~(<<y, x>> \in OpToRel(<, Nat))
  BY NatLessThanWellFounded, WFMin
<1>2. PICK x \in S : \A y \in S : ~(<<y, x>> \in OpToRel(<, Nat))
  BY <1>1
<1>3. ASSUME NEW y \in S PROVE x <= y
  <2>1. x \in Nat /\ y \in Nat
    OBVIOUS
  <2>2. y < x => <<y, x>> \in OpToRel(<, Nat)
    BY <2>1 DEF OpToRel
  <2>3. ~(y < x)
    BY <1>2, <2>2
  <2> QED
    BY <2>1, <2>3
<1> QED
  BY <1>3

LEMMA NatInductionOnSet ==
  ASSUME NEW G, 0 \in G, \A n \in Nat : n \in G => n + 1 \in G
  PROVE  \A n \in Nat : n \in G
<1>1. SUFFICES ASSUME Nat \ G # {} PROVE FALSE
  OBVIOUS
<1>2. PICK n \in Nat \ G : \A m \in Nat \ G : n <= m
  BY <1>1, SmallestNat
<1>3. n # 0 /\ n - 1 \in Nat /\ n - 1 \in G
  BY <1>2
<1> QED
  BY <1>2, <1>3

(* g holds the sums of the first 0 .. n elements of b, which need not be   *)
(* numbers for such a function to exist.                                   *)
Summing(g, n, b) == g = [k \in 0 .. n |-> IF k = 0 THEN 0 ELSE g[k - 1] + b[k - 1]]

LEMMA SummingExists == ASSUME NEW b PROVE \A n \in Nat : \E g : Summing(g, n, b)
<1> DEFINE G == {n \in Nat : \E g : Summing(g, n, b)}
<1>1. 0 \in G
  <2> DEFINE g == [k \in 0 .. 0 |-> 0]
  <2>1. 0 .. 0 = {0}
    OBVIOUS
  <2>2. g = [k \in 0 .. 0 |-> IF k = 0 THEN 0 ELSE g[k - 1] + b[k - 1]]
    BY <2>1
  <2> HIDE DEF g
  <2> QED
    BY <2>2 DEF Summing
<1>2. ASSUME NEW n \in Nat, n \in G PROVE n + 1 \in G
  <2>1. PICK g : Summing(g, n, b)
    BY <1>2
  <2> DEFINE h == [k \in 0 .. n + 1 |-> IF k = n + 1 THEN g[n] + b[n] ELSE g[k]]
  <2>2. ASSUME NEW k \in 0 .. n + 1
        PROVE  h[k] = IF k = 0 THEN 0 ELSE h[k - 1] + b[k - 1]
    <3>1. CASE k = n + 1
      <4>1. k # 0 /\ k - 1 = n /\ n \in 0 .. n + 1 /\ n # n + 1
        BY <3>1
      <4>2. h[k] = g[n] + b[n] /\ h[k - 1] = g[n]
        BY <3>1, <4>1
      <4> QED
        BY <4>1, <4>2
    <3>2. CASE k = 0
      <4>1. 0 \in 0 .. n /\ k # n + 1
        BY <3>2
      <4>2. g[0] = 0
        BY <2>1, <4>1 DEF Summing
      <4> QED
        BY <3>2, <4>1, <4>2
    <3>3. CASE k # n + 1 /\ k # 0
      <4>1. k \in 0 .. n /\ k - 1 \in 0 .. n + 1 /\ k - 1 # n + 1
        BY <3>3
      <4>2. g[k] = g[k - 1] + b[k - 1]
        BY <2>1, <3>3, <4>1 DEF Summing
      <4>3. h[k] = g[k] /\ h[k - 1] = g[k - 1]
        BY <3>3, <4>1
      <4> QED
        BY <3>3, <4>2, <4>3
    <3> QED
      BY <3>1, <3>2, <3>3
  <2>3. h = [k \in 0 .. n + 1 |-> h[k]]
    OBVIOUS
  <2> HIDE DEF h
  <2>4. Summing(h, n + 1, b)
    BY <2>2, <2>3 DEF Summing
  <2> QED
    BY <2>4
<1> HIDE DEF G
<1>3. \A n \in Nat : n \in G
  BY <1>1, <1>2, NatInductionOnSet
<1> QED
  BY <1>3 DEF G

LEMMA SummingsAgree ==
  ASSUME NEW b, NEW g, NEW h, NEW n \in Nat, NEW m \in Nat, n <= m,
         Summing(g, n, b), Summing(h, m, b)
  PROVE  \A k \in 0 .. n : g[k] = h[k]
<1> DEFINE G == {k \in Nat : k <= n => g[k] = h[k]}
<1>1. 0 \in G
  <2>1. 0 \in 0 .. n /\ 0 \in 0 .. m
    OBVIOUS
  <2> QED
    BY <2>1 DEF Summing
<1>2. ASSUME NEW k \in Nat, k \in G PROVE k + 1 \in G
  <2>1. SUFFICES ASSUME k + 1 <= n PROVE g[k + 1] = h[k + 1]
    OBVIOUS
  <2>2. k + 1 \in 0 .. n /\ k + 1 \in 0 .. m /\ k + 1 # 0 /\ (k + 1) - 1 = k
    BY <2>1
  <2>3. g[k] = h[k]
    BY <1>2, <2>1
  <2>4. g[k + 1] = g[k] + b[k] /\ h[k + 1] = h[k] + b[k]
    BY <2>2 DEF Summing
  <2> QED
    BY <2>3, <2>4
<1> HIDE DEF G
<1>3. \A k \in Nat : k \in G
  BY <1>1, <1>2, NatInductionOnSet
<1> QED
  BY <1>3 DEF G

LEMMA SumsExist ==
  ASSUME NEW b
  PROVE  \E g : g = [k \in Nat |-> IF k = 0 THEN 0 ELSE g[k - 1] + b[k - 1]]
<1> DEFINE Part(n) == CHOOSE g : Summing(g, n, b)
           g == [k \in Nat |-> Part(k)[k]]
<1>1. ASSUME NEW n \in Nat PROVE Summing(Part(n), n, b)
  <2>1. \E h : Summing(h, n, b)
    BY SummingExists
  <2> QED
    BY <2>1
<1> HIDE DEF Part
<1>2. ASSUME NEW k \in Nat PROVE g[k] = IF k = 0 THEN 0 ELSE g[k - 1] + b[k - 1]
  <2>1. CASE k = 0
    <3>1. 0 \in 0 .. 0 /\ Summing(Part(0), 0, b)
      BY <1>1
    <3>2. Part(0)[0] = 0
      BY <3>1 DEF Summing
    <3> QED
      BY <2>1, <3>2
  <2>2. CASE k # 0
    <3>1. k - 1 \in Nat /\ k - 1 <= k /\ k \in 0 .. k /\ k - 1 \in 0 .. k - 1
      BY <2>2
    <3>2. Summing(Part(k), k, b) /\ Summing(Part(k - 1), k - 1, b)
      BY <1>1, <3>1
    <3>3. Part(k)[k] = Part(k)[k - 1] + b[k - 1]
      BY <2>2, <3>1, <3>2 DEF Summing
    <3>4. Part(k - 1)[k - 1] = Part(k)[k - 1]
      BY <3>1, <3>2, SummingsAgree
    <3> QED
      BY <2>2, <3>1, <3>3, <3>4
  <2> QED
    BY <2>1, <2>2
<1>3. g = [k \in Nat |-> g[k]]
  OBVIOUS
<1> HIDE DEF g
<1>4. g = [k \in Nat |-> IF k = 0 THEN 0 ELSE g[k - 1] + b[k - 1]]
  BY <1>2, <1>3
<1> QED
  BY <1>4

LEMMA ExactAddsUp == Exact = [k \in Nat |-> IF k = 0 THEN 0 ELSE Exact[k - 1] + a[k - 1]]
<1>1. \E g : g = [k \in Nat |-> IF k = 0 THEN 0 ELSE g[k - 1] + a[k - 1]]
  BY SumsExist
<1> QED
  BY <1>1 DEF Exact

LEMMA ExactSteps == Exact[0] = 0 /\ \A k \in Nat : Exact[k + 1] = Exact[k] + a[k]
<1>1. ASSUME NEW k \in Nat PROVE Exact[k] = IF k = 0 THEN 0 ELSE Exact[k - 1] + a[k - 1]
  BY ExactAddsUp
<1>2. ASSUME NEW k \in Nat PROVE Exact[k + 1] = Exact[k] + a[k]
  <2>1. k + 1 \in Nat /\ k + 1 # 0 /\ (k + 1) - 1 = k
    OBVIOUS
  <2> QED
    BY <1>1, <2>1
<1>3. Exact[0] = 0
  BY <1>1
<1> QED
  BY <1>2, <1>3

(* A sum is the exact sum of what it has seen, as long as it fits. *)
SumSoFar == fn = "sum" /\ FitsUpTo(p) => f = Exact[p]

LEMMA StepKeepsSum == AInv /\ SumSoFar /\ [Next]_vars => SumSoFar'
<1> SUFFICES ASSUME AInv, SumSoFar, [Next]_vars PROVE SumSoFar'
  OBVIOUS
<1>1. CASE ArrayCall
  <2>1. f' = 0 /\ p' = 0
    BY <1>1 DEF ArrayCall, CallOn
  <2>2. \E g : g = [k \in Nat |-> IF k = 0 THEN 0 ELSE g[k - 1] + a'[k - 1]]
    BY SumsExist
  <2>3. (Exact')[0] = 0
    BY <2>2 DEF Exact
  <2> QED
    BY <2>1, <2>3 DEF SumSoFar
<1>2. CASE ArrayNext
  <2>1. SUFFICES ASSUME fn' = "sum", FitsUpTo(p)' PROVE f' = (Exact')[p']
    BY DEF SumSoFar
  <2>2. SumStep
    BY <1>2, <2>1 DEF ArrayNext, SumStep, SearchStep, TwoLargestStep, IdentityStep, Loop, Advance
  <2>3. fn = "sum" /\ f' \in IntSums(f, a[p]) /\ p' = p + 1 /\ a' = a
    BY <2>2 DEF SumStep, Loop, Advance
  <2>4. Exact' = Exact /\ p \in Nat
    BY <2>3 DEF Exact, AInv, ArrayTypeOK
  <2>5. \A k \in 0 .. p + 1 : Exact[k] \in Ints
    BY <2>1, <2>3, <2>4 DEF FitsUpTo
  <2>6. FitsUpTo(p)
    <3> SUFFICES ASSUME NEW k \in 0 .. p PROVE Exact[k] \in Ints
      BY DEF FitsUpTo
    <3>1. k \in 0 .. p + 1
      BY <2>4
    <3> QED
      BY <2>5, <3>1
  <2>7. f = Exact[p] /\ Exact[p + 1] = Exact[p] + a[p]
    BY <2>3, <2>4, <2>6, ExactSteps DEF SumSoFar
  <2>8. Exact[p + 1] \in Ints
    BY <2>4, <2>5
  <2>9. f' = Exact[p + 1]
    BY <2>3, <2>7, <2>8 DEF IntSums
  <2> QED
    BY <2>3, <2>4, <2>9
<1>3. CASE UNCHANGED arrayVars
  BY <1>3 DEF arrayVars, SumSoFar, FitsUpTo, Exact, Ints
<1> QED
  BY <1>1, <1>2, <1>3, StepOfArrays

LEMMA SumSoFarIsTheSum == AInv /\ SumSoFar => SumIsExact
<1> SUFFICES ASSUME AInv, SumSoFar, fn = "sum", ~More, FitsUpTo(len)
             PROVE  f = Exact[len]
  BY DEF SumIsExact, Returned
<1>1. p = len
  BY DEF AInv, ArrayTypeOK, More
<1> QED
  BY <1>1 DEF SumSoFar

(* sum1 to sum4 return the sum of every array of which no first elements   *)
(* have a sum that overflows an int.                                       *)
THEOREM SumsAreExact == Spec => []SumIsExact
<1>1. Init => AInv /\ SumSoFar
  BY ArrayInitOK DEF Init, ArrayInit, SumSoFar
<1>2. AInv /\ SumSoFar /\ [Next]_vars => (AInv /\ SumSoFar)'
  BY StepKeepsAInv, StepKeepsSum
<1>3. AInv /\ SumSoFar => SumIsExact
  BY SumSoFarIsTheSum
<1> QED
  BY <1>1, <1>2, <1>3, PTL DEF Spec

-----------------------------------------------------------------------------
(* dealRandomHand. *)

(* The cards in the hand are marked as dealt. *)
HandIsMarked ==
  /\ hand \in Seq(Cards) /\ i \in Nat
  /\ \A j \in DOMAIN hand : hand[j] \in alreadyDealt

LEMMA DrawKeeps ==
  ASSUME HandIsMarked, NoCardTwice, NEW card \in Cards, Draw(card)
  PROVE  HandIsMarked' /\ NoCardTwice'
<1>1. /\ Len(hand) \in Nat /\ DOMAIN hand = 1 .. Len(hand) /\ Len(hand) <= i /\ i \in Nat
      /\ hand \in Seq(Cards)
  BY LenProperties DEF HandIsMarked, NoCardTwice
<1>2. CASE card \in alreadyDealt
  <2>1. i' = i + 1 /\ alreadyDealt' = alreadyDealt /\ hand' = hand
    BY <1>2 DEF Draw, AfterRepeat
  <2> QED
    BY <1>1, <2>1 DEF HandIsMarked, NoCardTwice
<1>3. CASE card \notin alreadyDealt
  <2>1. i' = i + 1 /\ alreadyDealt' = alreadyDealt \union {card} /\ hand' = Append(hand, card)
    BY <1>3 DEF Draw, Marked
  <2>2. /\ hand' \in Seq(Cards) /\ Len(hand') = Len(hand) + 1
        /\ \A j \in 1 .. Len(hand) : hand'[j] = hand[j]
        /\ hand'[Len(hand) + 1] = card
    BY <1>1, <2>1, AppendProperties
  <2>3. DOMAIN hand' = (DOMAIN hand) \union {Len(hand) + 1}
    BY <1>1, <2>2, LenProperties
  <2>4. \A j \in DOMAIN hand : hand'[j] = hand[j] /\ hand[j] \in alreadyDealt /\ hand[j] # card
    BY <1>1, <1>3, <2>2 DEF HandIsMarked
  <2>5. HandIsMarked'
    BY <1>1, <2>1, <2>2, <2>3, <2>4 DEF HandIsMarked
  <2>6. \A j, k \in DOMAIN hand' : hand'[j] = hand'[k] => j = k
    BY <2>2, <2>3, <2>4 DEF NoCardTwice
  <2>7. Len(hand') <= i'
    BY <1>1, <2>1, <2>2
  <2> QED
    BY <2>5, <2>6, <2>7 DEF NoCardTwice
<1> QED
  BY <1>2, <1>3

LEMMA StepKeepsHand == HandIsMarked /\ NoCardTwice /\ [Next]_vars => HandIsMarked' /\ NoCardTwice'
<1> SUFFICES ASSUME HandIsMarked, NoCardTwice, [Next]_vars
             PROVE  HandIsMarked' /\ NoCardTwice'
  OBVIOUS
<1>1. UNCHANGED <<i, alreadyDealt, hand>> \/ \E card \in Cards : Draw(card)
  BY DEF Next, Call, Run, Array, Hand, Line, vars, handVars, RequestHandSize, HandNext
<1>2. CASE UNCHANGED <<i, alreadyDealt, hand>>
  BY <1>2 DEF HandIsMarked, NoCardTwice, Cards
<1> QED
  BY <1>1, <1>2, DrawKeeps

(* NoCardTwice of DealHand, for every deck and size of a hand. *)
THEOREM HandsAreOfDifferentCards == Spec => []NoCardTwice
<1>1. Init => HandIsMarked /\ NoCardTwice
  <2> SUFFICES ASSUME Init PROVE HandIsMarked /\ NoCardTwice
    OBVIOUS
  <2>1. hand = <<>> /\ i = 0
    BY DEF Init, HandInit
  <2>2. <<>> \in Seq(Cards) /\ Len(<<>>) = 0 /\ DOMAIN <<>> = {}
    BY EmptySeq
  <2> QED
    BY <2>1, <2>2 DEF HandIsMarked, NoCardTwice
<1> QED
  BY <1>1, StepKeepsHand, PTL DEF Spec

-----------------------------------------------------------------------------
(* readUntilNewline. *)

(* What the loops have seen: the first no newline, the second one, unless  *)
(* the input has ended.                                                    *)
LinesSeen ==
  /\ input \in Seq(Chars) /\ taken \in 0 .. Len(input)
  /\ reading \in {"none", "scanf", "getchar", "returned"}
  /\ reading = "none" => taken = 0
  /\ reading = "scanf" => Newlines(taken) = {}
  /\ reading = "getchar" => AtEof \/ \E j \in 1 .. taken : Newlines(taken) = {j}

LEMMA OneMore ==
  ASSUME input \in Seq(Chars), taken \in Nat
  PROVE  Newlines(taken + 1) =
           IF input[taken + 1] = "newline" THEN Newlines(taken) \union {taken + 1}
                                           ELSE Newlines(taken)
<1>1. 1 .. taken + 1 = (1 .. taken) \union {taken + 1}
  OBVIOUS
<1> QED
  BY <1>1 DEF Newlines

LEMMA CallOfLines == ASSUME LinesSeen, LineCall PROVE LinesSeen'
<1>1. taken = 0 /\ taken' = 0 /\ reading' = "scanf"
  BY DEF LineCall, LinesSeen
<1>2. input' \in Seq(Chars)
  <2>1. PICK n \in 0 .. MaxInput : input' \in [1 .. n -> Chars]
    BY DEF LineCall, Inputs
  <2>2. n \in Nat
    BY LinesAssumption
  <2> QED
    BY <2>1, <2>2, SeqDef
<1>3. Len(input') \in Nat
  BY <1>2, LenProperties
<1>4. Newlines(taken)' = {}
  <2>1. 1 .. 0 = {}
    BY SMT
  <2> QED
    BY <1>1, <2>1 DEF Newlines
<1> QED
  BY <1>1, <1>2, <1>3, <1>4 DEF LinesSeen

LEMMA StepOfLines ==
  ASSUME LinesSeen, LineNext
  PROVE  LinesSeen' /\ ReturnsBehindANewline'
<1>1. /\ input \in Seq(Chars) /\ taken \in 0 .. Len(input) /\ Len(input) \in Nat /\ taken \in Nat
      /\ input' = input
  BY LenProperties DEF LinesSeen, LineNext, Scanf, Getchar
<1>3. CASE AtEof
  <2>1. taken' = taken /\ AtEof' /\ Newlines(taken)' = Newlines(taken)
    BY <1>1, <1>3 DEF LineNext, Scanf, Getchar, AtEof, Newlines
  <2>2. reading' = "scanf" => reading = "scanf"
    BY DEF LineNext, Scanf, Getchar
  <2>3. reading' \in {"scanf", "getchar"}
    BY <1>3 DEF LineNext, Scanf, Getchar, GotNewline
  <2> QED
    BY <1>1, <2>1, <2>2, <2>3 DEF LinesSeen, ReturnsBehindANewline
<1>4. CASE ~AtEof
  <2>1. taken' = taken + 1 /\ taken' \in 0 .. Len(input')
    BY <1>1, <1>4 DEF LineNext, Scanf, Getchar, AtEof
  <2>2. Newlines(taken)' = Newlines(taken + 1)
    BY <1>1, <2>1 DEF Newlines
  <2>3. CASE Scanf
    <3>1. Newlines(taken) = {} /\ ch' = input[taken + 1]
      BY <2>3, <1>4 DEF Scanf, LinesSeen
    <3>2. CASE input[taken + 1] = "newline"
      <4>1. reading' = "getchar" /\ Newlines(taken)' = {taken'}
        BY <2>1, <2>2, <2>3, <3>1, <3>2, <1>1, OneMore DEF Scanf
      <4>2. taken' \in 1 .. taken'
        BY <1>1, <2>1
      <4> QED
        BY <1>1, <2>1, <4>1, <4>2 DEF LinesSeen, ReturnsBehindANewline
    <3>3. CASE input[taken + 1] # "newline"
      <4>1. reading' = "scanf" /\ Newlines(taken)' = {}
        BY <2>1, <2>2, <2>3, <3>1, <3>3, <1>1, OneMore DEF Scanf
      <4> QED
        BY <1>1, <2>1, <4>1 DEF LinesSeen, ReturnsBehindANewline
    <3> QED
      BY <3>2, <3>3
  <2>4. CASE Getchar
    <3>1. PICK j \in 1 .. taken : Newlines(taken) = {j}
      BY <2>4, <1>4 DEF Getchar, LinesSeen
    <3>2. j < taken' /\ j \in 1 .. taken'
      BY <1>1, <2>1, <3>1
    <3>3. CASE input[taken + 1] = "newline"
      <4>1. reading' = "returned" /\ Newlines(taken)' = {j, taken'}
        BY <2>1, <2>2, <2>4, <3>1, <3>3, <1>1, <1>4, OneMore DEF Getchar, GotNewline
      <4>2. ReturnsBehindANewline'
        BY <3>2, <4>1 DEF ReturnsBehindANewline
      <4> QED
        BY <1>1, <2>1, <4>1, <4>2 DEF LinesSeen
    <3>4. CASE input[taken + 1] # "newline"
      <4>1. reading' = "getchar" /\ Newlines(taken)' = {j}
        BY <2>1, <2>2, <2>4, <3>1, <3>4, <1>1, <1>4, OneMore DEF Getchar, GotNewline
      <4> QED
        BY <1>1, <2>1, <3>2, <4>1 DEF LinesSeen, ReturnsBehindANewline
    <3> QED
      BY <3>3, <3>4
  <2> QED
    BY <2>3, <2>4 DEF LineNext
<1> QED
  BY <1>3, <1>4

LEMMA StepKeepsLines ==
  LinesSeen /\ ReturnsBehindANewline /\ [Next]_vars => LinesSeen' /\ ReturnsBehindANewline'
<1> SUFFICES ASSUME LinesSeen, ReturnsBehindANewline, [Next]_vars
             PROVE  LinesSeen' /\ ReturnsBehindANewline'
  OBVIOUS
<1>1. LineCall \/ LineNext \/ UNCHANGED lineVars
  BY DEF Next, Call, Run, Array, Hand, Line, vars
<1>2. CASE LineCall
  BY <1>2, CallOfLines DEF LineCall, ReturnsBehindANewline
<1>3. CASE UNCHANGED lineVars
  BY <1>3 DEF lineVars, LinesSeen, ReturnsBehindANewline, Newlines, AtEof
<1> QED
  BY <1>1, <1>2, <1>3, StepOfLines

(* ReturnsBehindANewline of ReadLines, for inputs of every length. *)
THEOREM TwoLinesAreTaken == Spec => []ReturnsBehindANewline
<1>1. Init => LinesSeen /\ ReturnsBehindANewline
  <2> SUFFICES ASSUME Init PROVE LinesSeen /\ ReturnsBehindANewline
    OBVIOUS
  <2>1. reading = "none" /\ input = <<>> /\ taken = 0
    BY DEF Init, LineInit
  <2>2. <<>> \in Seq(Chars) /\ Len(<<>>) = 0
    BY EmptySeq
  <2> QED
    BY <2>1, <2>2 DEF LinesSeen, ReturnsBehindANewline
<1> QED
  BY <1>1, StepKeepsLines, PTL DEF Spec
=============================================================================
