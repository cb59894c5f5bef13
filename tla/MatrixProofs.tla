---------------------------- MODULE MatrixProofs ----------------------------
(***************************************************************************)
(* The row-major index is one to one, its writes stay in the array, and a  *)
(* Matrix implements a Grid, for every size whose product does not wrap.   *)
(***************************************************************************)
EXTENDS MatrixString, FiniteSetTheorems, TLAPS

LEMMA Bounds ==
  /\ \A d \in Dims : d \in Nat /\ d < SizeMod
  /\ SizeMod \in Nat \ {0} /\ 0 \in Values
BY MatrixAssumption

LEMMA ProductIsNat == ASSUME NEW a \in Nat, NEW b \in Nat PROVE a * b \in Nat
BY SMT

(* A factor that grows by one adds the other factor. *)
LEMMA Monotone ==
  ASSUME NEW a \in Nat, NEW b \in Nat, NEW n \in Nat, a < b
  PROVE  a * n + n <= b * n
<1>1. PICK d \in Nat : b = a + 1 + d
  <2>1. b - a - 1 \in Nat
    BY SMT
  <2> QED
    BY <2>1, SMT
<1>2. b * n = a * n + n + d * n
  BY <1>1, SMT
<1>3. d * n \in Nat
  BY <1>1, ProductIsNat
<1> QED
  BY <1>2, <1>3, ProductIsNat, SMT

LEMMA ModOfSmall ==
  ASSUME NEW n \in Nat, NEW m \in Nat, n < m
  PROVE  n % m = n
BY SMT

(* Row-major positions of a rows * cols matrix lie below rows * cols ... *)
LEMMA RowMajorInside ==
  ASSUME NEW nr \in Nat, NEW nc \in Nat, NEW y \in 0 .. nr - 1, NEW x \in 0 .. nc - 1
  PROVE  y * nc + x \in 0 .. nr * nc - 1
<1>1. y \in Nat /\ y < nr /\ x \in Nat /\ x < nc
  BY SMT
<1>2. y * nc + nc <= nr * nc
  BY <1>1, Monotone
<1>3. y * nc \in Nat /\ nr * nc \in Nat
  BY <1>1, ProductIsNat
<1> QED
  BY <1>1, <1>2, <1>3, SMT

(* ... and differ from each other. *)
LEMMA RowMajorOneToOne ==
  ASSUME NEW nr \in Nat, NEW nc \in Nat,
         NEW r1 \in 0 .. nr - 1, NEW c1 \in 0 .. nc - 1,
         NEW r2 \in 0 .. nr - 1, NEW c2 \in 0 .. nc - 1,
         r1 * nc + c1 = r2 * nc + c2
  PROVE  r1 = r2 /\ c1 = c2
<1>1. r1 \in Nat /\ r2 \in Nat /\ c1 \in Nat /\ c2 \in Nat /\ c1 < nc /\ c2 < nc
  BY SMT
<1>2. r1 * nc \in Nat /\ r2 * nc \in Nat
  BY <1>1, ProductIsNat
<1>3. CASE r1 < r2
  <2>1. r1 * nc + nc <= r2 * nc
    BY <1>1, <1>3, Monotone
  <2> QED
    BY <1>1, <1>2, <2>1, SMT
<1>4. CASE r2 < r1
  <2>1. r2 * nc + nc <= r1 * nc
    BY <1>1, <1>4, Monotone
  <2> QED
    BY <1>1, <1>2, <2>1, SMT
<1>5. CASE r1 = r2
  BY <1>1, <1>2, <1>5, SMT
<1> QED
  BY <1>1, <1>3, <1>4, <1>5, SMT
-----------------------------------------------------------------------------
LEMMA ElementsIsNat ==
  ASSUME NEW y \in Nat, NEW x \in Nat PROVE Elements(y, x) \in Nat
<1>1. y * x \in Nat
  BY ProductIsNat
<1> QED
  BY <1>1, Bounds, SMT DEF Elements

LEMMA EmptyArray == Empty \in [0 .. Elements(0, 0) - 1 -> Values]
<1>1. Elements(0, 0) = 0
  BY Bounds, SMT DEF Elements
<1>2. 0 .. Elements(0, 0) - 1 = {}
  BY <1>1, SMT
<1> QED
  BY <1>2 DEF Empty

(* The array of a new matrix is filled from the source, as far as it goes: *)
(* a product that wrapped makes it shorter, never longer.                  *)
LEMMA ArrayInSource ==
  ASSUME NEW y \in Nat, NEW x \in Nat PROVE Array(y, x) \subseteq 0 .. y * x - 1
<1>1. y * x \in Nat
  BY ProductIsNat
<1>2. (y * x) % SizeMod <= y * x
  BY <1>1, Bounds, SMT
<1>3. (y * x) % SizeMod \in Nat
  BY <1>1, Bounds, SMT
<1> QED
  BY <1>1, <1>2, <1>3, SMT DEF Array, Elements

(* Every state of a matrix is well typed, whatever wraps: its array has    *)
(* rows * cols modulo SizeMod elements from creation to Matrix_destroy.    *)
THEOREM TypeCorrect == Spec => []TypeOK
<1>1. Init => TypeOK
  <2> SUFFICES ASSUME Init PROVE TypeOK
    OBVIOUS
  <2>1. life = "none" /\ rows = 0 /\ cols = 0 /\ data = Empty /\ outside = FALSE
    BY DEF Init
  <2>2. data \in [0 .. Elements(rows, cols) - 1 -> Values]
    BY <2>1, EmptyArray, Zenon
  <2> QED
    BY <2>1, <2>2 DEF TypeOK
<1>2. TypeOK /\ [Next]_vars => TypeOK'
  <2> SUFFICES ASSUME TypeOK, [Next]_vars PROVE TypeOK'
    OBVIOUS
  <2>1. CASE NoMemory
    BY <2>1 DEF NoMemory, TypeOK
  <2>2. CASE Destroy
    BY <2>2, EmptyArray DEF Destroy, TypeOK
  <2>3. ASSUME NEW y \in Dims, NEW x \in Dims, Zeros(y, x) PROVE TypeOK'
    BY <2>3, Bounds DEF Zeros, TypeOK, Array
  <2>4. ASSUME NEW y \in Dims, NEW x \in Dims,
               NEW source \in [0 .. y * x - 1 -> Values], Copy(y, x, source)
        PROVE  TypeOK'
    <3>1. Array(y, x) \subseteq 0 .. y * x - 1
      BY Bounds, ArrayInSource
    <3>2. data' \in [Array(y, x) -> Values]
      BY <2>4, <3>1 DEF Copy
    <3> QED
      BY <2>4, <3>2, Bounds DEF Copy, TypeOK, Array
  <2>5. ASSUME NEW v \in Values, Fill(v) PROVE TypeOK'
    BY <2>5 DEF Fill, TypeOK
  <2>6. ASSUME NEW v \in Values, NEW p \in Positions, Set(p, v) PROVE TypeOK'
    BY <2>6 DEF Set, TypeOK
  <2>7. CASE UNCHANGED vars
    BY <2>7 DEF vars, TypeOK
  <2> QED
    BY <2>1, <2>2, <2>3, <2>4, <2>5, <2>6, <2>7 DEF Next
<1> QED
  BY <1>1, <1>2, PTL DEF Spec
-----------------------------------------------------------------------------
(* Where the product does not wrap, neither does the index, and the array  *)
(* has an element for every position.                                      *)
LEMMA IndexFits ==
  ASSUME NEW nr \in Nat, NEW nc \in Nat, nr * nc < SizeMod,
         NEW y \in 0 .. nr - 1, NEW x \in 0 .. nc - 1
  PROVE  /\ (y * nc + x) % SizeMod = y * nc + x
         /\ y * nc + x \in 0 .. Elements(nr, nc) - 1
<1>1. y * nc + x \in 0 .. nr * nc - 1
  BY RowMajorInside
<1>2. nr * nc \in Nat
  BY ProductIsNat
<1>3. Elements(nr, nc) = nr * nc
  BY <1>2, Bounds, ModOfSmall DEF Elements
<1>4. y * nc + x \in Nat /\ y * nc + x < SizeMod
  BY <1>1, <1>2, Bounds, SMT
<1>5. (y * nc + x) % SizeMod = y * nc + x
  BY <1>4, Bounds, ModOfSmall
<1> QED
  BY <1>1, <1>3, <1>5

LEMMA PositionFits ==
  ASSUME TypeOK, rows * cols < SizeMod, NEW p \in Positions
  PROVE  /\ IndexOf(p[1], p[2]) = p[1] * cols + p[2]
         /\ IndexOf(p[1], p[2]) \in DOMAIN data
<1>1. rows \in Nat /\ cols \in Nat /\ DOMAIN data = 0 .. Elements(rows, cols) - 1
  BY DEF TypeOK
<1>2. p[1] \in 0 .. rows - 1 /\ p[2] \in 0 .. cols - 1
  BY DEF Positions
<1>3. /\ (p[1] * cols + p[2]) % SizeMod = p[1] * cols + p[2]
      /\ p[1] * cols + p[2] \in 0 .. Elements(rows, cols) - 1
  BY <1>1, <1>2, IndexFits, Zenon
<1> QED
  BY <1>1, <1>3, Zenon DEF IndexOf

(* As long as rows * cols of the matrix at hand did not wrap, no function  *)
(* writes outside of its array, for every size of matrix and of size_t.    *)
THEOREM WritesStayInside == Spec => InsideUnlessWrapped
<1>1. TypeOK /\ [Next]_vars => [outside' = outside \/ Wrapped]_vars
  <2> SUFFICES ASSUME TypeOK, Next PROVE outside' = outside \/ Wrapped
    OBVIOUS
  <2>1. CASE NoMemory \/ Destroy
    BY <2>1 DEF NoMemory, Destroy
  <2>2. ASSUME NEW y \in Dims, NEW x \in Dims,
               \/ Zeros(y, x)
               \/ \E source \in [0 .. y * x - 1 -> Values] : Copy(y, x, source)
        PROVE  outside' = outside
    BY <2>2 DEF Zeros, Copy
  <2>3. ASSUME ~Wrapped PROVE rows * cols < SizeMod
    <3>1. rows * cols \in Nat
      BY ProductIsNat DEF TypeOK
    <3> QED
      BY <2>3, <3>1, Bounds, SMT DEF Wrapped
  <2>4. ASSUME ~Wrapped, NEW p \in Positions
        PROVE  IndexOf(p[1], p[2]) \in DOMAIN data
    BY <2>3, <2>4, PositionFits
  <2>5. ASSUME NEW v \in Values, Fill(v), ~Wrapped PROVE outside' = outside
    <3>1. {IndexOf(p[1], p[2]) : p \in Positions} \subseteq DOMAIN data
      BY <2>4, <2>5
    <3>2. outside \in BOOLEAN
      BY DEF TypeOK
    <3> QED
      BY <2>5, <3>1, <3>2, Zenon DEF Fill
  <2>6. ASSUME NEW v \in Values, NEW p \in Positions, Set(p, v), ~Wrapped
        PROVE  outside' = outside
    BY <2>4, <2>6 DEF Set
  <2> QED
    BY <2>1, <2>2, <2>5, <2>6 DEF Next
<1> QED
  BY <1>1, TypeCorrect, PTL DEF Spec, InsideUnlessWrapped
-----------------------------------------------------------------------------
(* The values of the matrix as Grid sees them. *)
GridNow == [p \in Positions |-> Get(p)]

LEMMA NoPositions == ASSUME rows = 0 PROVE GridNow = G!NoGrid
<1>1. Positions = {}
  <2>1. 0 .. rows - 1 = {}
    BY SMT
  <2> QED
    BY <2>1 DEF Positions
<1> QED
  BY <1>1 DEF GridNow, G!NoGrid

LEMMA NoPositionsNext == ASSUME rows' = 0 PROVE GridNow' = G!NoGrid
<1>1. Positions' = {}
  <2>1. 0 .. rows' - 1 = {}
    BY SMT
  <2> QED
    BY <2>1 DEF Positions
<1> QED
  BY <1>1 DEF GridNow, G!NoGrid

LEMMA GetOfNew ==
  ASSUME TypeOK' PROVE GridNow' \in [G!Positions(rows', cols') -> Values]
<1>1. ASSUME NEW p \in Positions' PROVE Get(p)' \in Values
  <2>1. CASE IndexOf(p[1], p[2])' \in DOMAIN data'
    BY <2>1 DEF TypeOK, Get
  <2>2. CASE IndexOf(p[1], p[2])' \notin DOMAIN data'
    BY <2>2, Bounds DEF Get
  <2> QED
    BY <2>1, <2>2
<1> QED
  BY <1>1 DEF GridNow, Positions, G!Positions

(* Writing one element changes the value of its own position only. *)
LEMMA SetIsOnePosition ==
  ASSUME TypeOK, rows * cols < SizeMod, NEW v \in Values, NEW p \in Positions, Set(p, v)
  PROVE  GridNow' = [GridNow EXCEPT ![p] = v]
<1>1. rows' = rows /\ cols' = cols /\ data' = [data EXCEPT ![IndexOf(p[1], p[2])] = v]
  BY PositionFits DEF Set
<1>2. Positions' = Positions
  BY <1>1 DEF Positions
<1>3. ASSUME NEW q \in Positions PROVE Get(q)' = IF q = p THEN v ELSE Get(q)
  <2>1. /\ IndexOf(q[1], q[2])' = IndexOf(q[1], q[2])
        /\ IndexOf(q[1], q[2]) \in DOMAIN data /\ DOMAIN data' = DOMAIN data
    BY <1>1, PositionFits DEF IndexOf
  <2>2. CASE q = p
    BY <1>1, <2>1, <2>2 DEF Get
  <2>3. CASE q # p
    <3>1. IndexOf(q[1], q[2]) # IndexOf(p[1], p[2])
      <4>1. rows \in Nat /\ cols \in Nat
        BY DEF TypeOK
      <4>2. PICK r1 \in 0 .. rows - 1, c1 \in 0 .. cols - 1 : q = <<r1, c1>>
        BY DEF Positions
      <4>3. PICK r2 \in 0 .. rows - 1, c2 \in 0 .. cols - 1 : p = <<r2, c2>>
        BY DEF Positions
      <4>4. r1 * cols + c1 # r2 * cols + c2
        <5>1. r1 # r2 \/ c1 # c2
          BY <2>3, <4>2, <4>3
        <5> QED
          BY <4>1, <5>1, RowMajorOneToOne
      <4> QED
        BY <4>2, <4>3, <4>4, PositionFits
    <3> QED
      BY <1>1, <2>1, <2>3, <3>1 DEF Get
  <2> QED
    BY <2>2, <2>3
<1> QED
  BY <1>2, <1>3 DEF GridNow

LEMMA FillIsEveryPosition ==
  ASSUME TypeOK, rows * cols < SizeMod, NEW v \in Values, Fill(v)
  PROVE  GridNow' = [p \in DOMAIN GridNow |-> v]
<1>1. /\ rows' = rows /\ cols' = cols
      /\ data' = [i \in DOMAIN data |->
                    IF i \in {IndexOf(p[1], p[2]) : p \in Positions} THEN v ELSE data[i]]
  BY DEF Fill
<1>2. Positions' = Positions
  BY <1>1 DEF Positions
<1>3. ASSUME NEW q \in Positions PROVE Get(q)' = v
  <2>1. /\ IndexOf(q[1], q[2])' = IndexOf(q[1], q[2])
        /\ IndexOf(q[1], q[2]) \in DOMAIN data
    BY <1>1, PositionFits DEF IndexOf
  <2> QED
    BY <1>1, <2>1 DEF Get
<1> QED
  BY <1>2, <1>3 DEF GridNow

(* A Matrix is a grid of independent values: creation, Set, Fill and       *)
(* Destroy have the effect Grid gives them, as long as rows * cols of the  *)
(* matrix at hand does not wrap.                                           *)
THEOREM MatrixIsGrid == Spec => ImplementsGrid
<1>1. Init => G!Init
  BY NoPositions DEF Init, G!Init, GridNow
<1>2. TypeOK /\ TypeOK' /\ [Next]_vars => [Wrapped \/ [G!Next]_(G!vars)]_vars
  <2> SUFFICES ASSUME TypeOK, TypeOK', Next, ~Wrapped
               PROVE  G!Next \/ UNCHANGED <<life, GridNow>>
    BY DEF G!vars, GridNow
  <2>1. CASE NoMemory
    <3>1. rows' = 0 /\ life = "none" /\ life' = "exited"
      BY <2>1 DEF NoMemory, TypeOK
    <3>2. G!NoMemory
      BY <3>1, NoPositionsNext DEF G!NoMemory, GridNow
    <3> QED
      BY <3>2 DEF G!Next
  <2>2. CASE Destroy
    <3>1. rows' = 0 /\ life = "live" /\ life' = "none"
      BY <2>2 DEF Destroy
    <3>2. G!Destroy
      BY <3>1, NoPositionsNext DEF G!Destroy, GridNow
    <3> QED
      BY <3>2 DEF G!Next
  <2>3. ASSUME NEW y \in Dims, NEW x \in Dims,
               \/ Zeros(y, x)
               \/ \E source \in [0 .. y * x - 1 -> Values] : Copy(y, x, source)
        PROVE  G!Next
    <3>1. life = "none" /\ life' = "live" /\ rows' = y /\ cols' = x
      BY <2>3 DEF Zeros, Copy
    <3>2. GridNow' \in [G!Positions(y, x) -> Values]
      BY <3>1, GetOfNew
    <3>3. G!Create
      BY <3>1, <3>2 DEF G!Create, GridNow
    <3> QED
      BY <3>3 DEF G!Next
  <2>4. rows * cols < SizeMod
    <3>1. rows * cols \in Nat
      BY ProductIsNat DEF TypeOK
    <3> QED
      BY <3>1, Bounds, SMT DEF Wrapped
  <2>5. ASSUME NEW v \in Values, Fill(v) PROVE G!Next
    <3>1. life = "live" /\ life' = life
      BY <2>5 DEF Fill
    <3>2. GridNow' = [p \in DOMAIN GridNow |-> v]
      BY <2>4, <2>5, <3>1, FillIsEveryPosition
    <3>3. G!Fill
      BY <3>1, <3>2 DEF G!Fill, GridNow
    <3> QED
      BY <3>3 DEF G!Next
  <2>6. ASSUME NEW v \in Values, NEW p \in Positions, Set(p, v) PROVE G!Next
    <3>1. life = "live" /\ life' = life
      BY <2>6 DEF Set
    <3>2. GridNow' = [GridNow EXCEPT ![p] = v]
      BY <2>4, <2>6, <3>1, SetIsOnePosition
    <3>3. p \in DOMAIN GridNow
      BY DEF GridNow
    <3>4. G!Set
      BY <3>1, <3>2, <3>3 DEF G!Set, GridNow
    <3> QED
      BY <3>4 DEF G!Next
  <2> QED
    BY <2>1, <2>2, <2>3, <2>5, <2>6 DEF Next
<1> QED
  BY <1>1, <1>2, TypeCorrect, PTL DEF Spec, ImplementsGrid

(* Where no two dimensions wrap, a Matrix is a Grid without exception. *)
THEOREM UnwrappedMatrixIsGrid == ASSUME NoWrap PROVE Spec => G!Spec
<1>1. TypeOK => ~Wrapped
  <2> SUFFICES ASSUME TypeOK, Wrapped PROVE FALSE
    OBVIOUS
  <2>1. CASE life = "live"
    <3>1. rows * cols < SizeMod
      BY <2>1 DEF TypeOK, NoWrap
    <3>2. rows * cols \in Nat
      BY ProductIsNat DEF TypeOK
    <3> QED
      BY <3>1, <3>2, Bounds, SMT DEF Wrapped
  <2>2. CASE life # "live"
    BY <2>2, Bounds, SMT DEF TypeOK, Wrapped
  <2> QED
    BY <2>1, <2>2
<1>2. ~Wrapped /\ [Wrapped \/ [G!Next]_(G!vars)]_vars => [G!Next]_(G!vars)
  BY DEF vars, G!vars, Positions, Get, IndexOf
<1> QED
  BY <1>1, <1>2, TypeCorrect, MatrixIsGrid, PTL DEF ImplementsGrid, G!Spec

-----------------------------------------------------------------------------
(* The program that prints its matrix: a Matrix for the rest of it. *)

(* Printing leaves the matrix alone, so that what holds of a Matrix holds  *)
(* of the program of MatrixString.                                         *)
THEOREM PrintingKeepsMatrix == ProgramSpec => Spec
<1>1. ProgramInit => Init
  BY DEF ProgramInit
<1>2. [ProgramNext]_program => [Next]_vars
  BY DEF ProgramNext, MatrixCalls, ToString, Element, RowEnd, Returned, FreeString, program,
         vars
<1> QED
  BY <1>1, <1>2, PTL DEF ProgramSpec, Spec

(* TypeOK, InsideUnlessWrapped and ImplementsGrid of Matrix, in the        *)
(* program that prints its matrix.                                         *)
THEOREM ProgramKeepsMatrix ==
  ProgramSpec => []TypeOK /\ InsideUnlessWrapped /\ ImplementsGrid
BY PrintingKeepsMatrix, TypeCorrect, WritesStayInside, MatrixIsGrid, PTL
-----------------------------------------------------------------------------
(* The text that Matrix_toString builds. *)

LEMMA MatrixTyped == ProgramSpec => []TypeOK
BY PrintingKeepsMatrix, TypeCorrect, PTL

LEMMA DigitsType == ASSUME NEW v PROVE Digits(v) \in Nat \ {0}
<1> DEFINE T == {k \in 1 .. MaxDigits - 1 : 10^k <= v \/ 10^k <= -v}
<1>1. IsFiniteSet(1 .. MaxDigits - 1)
  BY MatrixStringAssumption, FS_Interval
<1>2. T \in SUBSET (1 .. MaxDigits - 1)
  OBVIOUS
<1>3. IsFiniteSet(T)
  BY <1>1, <1>2, FS_Subset
<1>4. Cardinality(T) \in Nat
  BY <1>3, FS_CardinalityType
<1> QED
  BY <1>4 DEF Digits

LEMMA PrintedType ==
  ASSUME NEW v, NEW width \in Printed(v)
  PROVE  width \in Nat \ {0}
<1>1. Digits(v) \in Nat \ {0}
  BY DigitsType
<1> QED
  BY <1>1 DEF Printed, Whole

(* The allocator gives a block at least the size asked for. *)
LEMMA UsableIsEnough ==
  ASSUME NEW size \in Nat
  PROVE  S!Usable(size) \in Nat /\ S!Usable(size) >= size
<1>1. Grain \in Nat \ {0}
  BY MatrixStringAssumption
<1> DEFINE n == size + Grain - 1
           q == n \div Grain
<1>2. n \in Nat
  BY <1>1
<1>3. q \in Nat /\ n = q * Grain + (n % Grain) /\ n % Grain \in 0 .. Grain - 1
  BY <1>1, <1>2, SMT
<1>4. q * Grain \in Nat
  BY <1>1, <1>3, ProductIsNat
<1>5. q * Grain >= size
  BY <1>1, <1>3, <1>4
<1> QED
  BY <1>4, <1>5 DEF S!Usable

Chars == {"char", "last", "newline"}
Bytes == Chars \union {S!Zero, S!Junk}

IsBlock(b) ==
  /\ b = [size |-> b.size, bytes |-> b.bytes] /\ b.size \in Nat
  /\ b.bytes \in Seq(Bytes) /\ b.size <= Len(b.bytes)

(* A failed call leaves NULL, behind which the first byte is never written *)
(* again; otherwise the text is whole and within the size asked for.       *)
TextOK ==
  /\ text \in Seq(Chars) /\ len = Len(text) /\ {clobbered, failed} \subseteq BOOLEAN
  /\ IsBlock(dst)
  /\ failed => Len(text) > 0 /\ (Len(dst.bytes) > 0 => dst.bytes[1] = S!Junk)
  /\ ~failed => Len(text) <= dst.size /\ \A k \in 1 .. Len(text) : dst.bytes[k] = text[k]

(* The zero that every call writes one byte behind the size it asks for,   *)
(* and the last of these behind the newline.                               *)
ZeroBehind(n) == n <= Len(dst.bytes) /\ dst.bytes[n] = S!Zero
EndOK ==
  KeepsSlack /\ ~failed /\ ~clobbered =>
    /\ len > 0 => ZeroBehind(len + 2)
    /\ c = 0 /\ r > 0 /\ cols > 0 => ZeroBehind(len + 1)

PlaceOK ==
  /\ at \in {"outside", "printing", "returned", "smashed"}
  /\ r \in 0 .. rows /\ c \in 0 .. cols
  /\ r = rows => c = 0
  /\ c > 0 => len > 0
  /\ at = "outside" => r = 0 /\ c = 0 /\ len = 0 /\ text = <<>> /\ ~failed
  /\ at = "returned" => r = rows
  /\ at # "outside" => ~Wrapped

SInv == TextOK /\ EndOK /\ PlaceOK /\ ShortNumbersFit

LEMMA TextType ==
  ASSUME NEW width \in Nat \ {0}
  PROVE  S!Text(width) \in Seq(Chars) /\ Len(S!Text(width)) = width
BY DEF S!Text, Chars

(* What realloc carries over is a beginning of the block, which holds at   *)
(* least the size that was asked for.                                      *)
LEMMA KeptIsPrefix ==
  ASSUME NEW b, IsBlock(b)
  PROVE  /\ S!Kept(b) \in Seq(Bytes) /\ Len(S!Kept(b)) \in b.size .. Len(b.bytes)
         /\ KeepsSlack => Len(S!Kept(b)) = Len(b.bytes)
         /\ \A k \in 1 .. Len(S!Kept(b)) : S!Kept(b)[k] = b.bytes[k]
<1> DEFINE m == IF KeepsSlack THEN Len(b.bytes) ELSE b.size
<1>1. m \in Nat /\ m \in b.size .. Len(b.bytes) /\ b.bytes \in Seq(Bytes)
  BY DEF IsBlock
<1>2. S!Kept(b) = SubSeq(b.bytes, 1, m)
  BY DEF S!Kept
<1> HIDE DEF m
<1>3. /\ S!Kept(b) \in Seq(Bytes) /\ Len(S!Kept(b)) = m
      /\ \A k \in 1 .. m : S!Kept(b)[k] = b.bytes[k]
  BY <1>1, <1>2, SMT
<1> QED
  BY <1>1, <1>3 DEF m

(* The bytes after a call that had memory: the append behind the first len *)
(* bytes, the zero one further than its end, and what realloc kept.        *)
LEMMA BytesOfStrconcat ==
  ASSUME TextOK, NEW t \in Seq(Chars), S!Strconcat(len, t), dst' # S!NULL
  PROVE  LET size == len + Len(t) + 1
             keep == S!Kept(dst)
         IN  /\ IsBlock(dst') /\ dst'.size = size /\ Len(dst'.bytes) = S!Usable(size)
             /\ failed' = failed /\ clobbered' = (clobbered \/ S!Usable(size) = size)
             /\ \A k \in 1 .. S!Usable(size) :
                  dst'.bytes[k] = IF k - len \in 1 .. Len(t) THEN t[k - len]
                                  ELSE IF k = size + 1 THEN S!Zero
                                  ELSE IF k \in 1 .. Len(keep) THEN keep[k] ELSE S!Junk
<1> DEFINE size == len + Len(t) + 1
           keep == S!Kept(dst)
           u == S!Usable(size)
           old == [k \in 1 .. u |-> IF k \in DOMAIN keep THEN keep[k] ELSE S!Junk]
           bytes == [k \in 1 .. u |-> IF k - len \in DOMAIN t THEN t[k - len]
                                      ELSE IF k = len + Len(t) + 2 THEN S!Zero ELSE old[k]]
<1>1. len \in Nat /\ Len(t) \in Nat /\ DOMAIN t = 1 .. Len(t) /\ size \in Nat
  BY DEF TextOK
<1>2. u \in Nat /\ u >= size
  BY <1>1, UsableIsEnough
<1>3. keep \in Seq(Bytes) /\ DOMAIN keep = 1 .. Len(keep)
  BY KeptIsPrefix DEF TextOK
<1>4. S!Resized(dst, size) = [size |-> size, bytes |-> old]
  BY DEF S!Resized, S!Block
<1>5. S!Written(S!Resized(dst, size), len, t) = bytes
  <2> HIDE DEF old, u, size
  <2>1. /\ S!Resized(dst, size).bytes = old /\ DOMAIN old = 1 .. u
    BY <1>4 DEF old
  <2> QED
    BY <2>1, Zenon DEF S!Written, size
<1>6. /\ dst' = [size |-> size, bytes |-> bytes]
      /\ clobbered' = (clobbered \/ u = size) /\ failed' = failed
  BY <1>4, <1>5 DEF S!Strconcat
<1>7. \A k \in 1 .. u : old[k] \in Bytes
  BY <1>3 DEF Bytes
<1>8. \A k \in 1 .. u : bytes[k] \in Bytes
  <2> HIDE DEF old, u
  <2> QED
    BY <1>1, <1>7 DEF Bytes
<1> HIDE DEF u, keep, size
<1>9. bytes \in Seq(Bytes) /\ Len(bytes) = u
  BY <1>2, <1>8
<1>10. IsBlock(dst') /\ dst'.size = size /\ dst'.bytes = bytes
  BY <1>1, <1>2, <1>6, <1>9 DEF IsBlock
<1>11. \A k \in 1 .. u :
         bytes[k] = IF k - len \in 1 .. Len(t) THEN t[k - len]
                    ELSE IF k = size + 1 THEN S!Zero
                    ELSE IF k \in 1 .. Len(keep) THEN keep[k] ELSE S!Junk
  BY <1>1, <1>3 DEF size
<1> QED
  BY <1>6, <1>9, <1>10, <1>11 DEF u, keep, size

(* One append: the text stays whole unless a call fails, now or before; a  *)
(* zero is left behind; and one byte more moves the text up to the zero of *)
(* the call before.                                                        *)
LEMMA AppendKeepsText ==
  ASSUME TextOK, NEW t \in Seq(Chars), Len(t) > 0, Concat(t), len' = len + Len(t)
  PROVE  /\ TextOK'
         /\ ~failed' /\ ~clobbered' => ZeroBehind(len + 2)'
         /\ KeepsSlack /\ ~failed' /\ ~clobbered' /\ Len(t) = 1 /\ ZeroBehind(len + 2)
              => ZeroBehind(len + 1)'
         /\ failed => failed'
         /\ clobbered => clobbered'
<1>1. /\ len \in Nat /\ Len(t) \in Nat /\ text \in Seq(Chars) /\ len = Len(text)
      /\ {clobbered, failed} \subseteq BOOLEAN
  BY DEF TextOK
<1>2. /\ text' \in Seq(Chars) /\ len' = Len(text') /\ Len(text') > 0
      /\ \A k \in 1 .. Len(text') :
           text'[k] = IF k <= len THEN text[k] ELSE t[k - len]
  BY <1>1 DEF Concat
<1>3. CASE dst' = S!NULL
  <2>1. failed' = TRUE /\ clobbered' = clobbered
    <3>1. CASE MayFail /\ dst' = S!NULL /\ failed' = TRUE /\ UNCHANGED clobbered
      BY <3>1
    <3>2. CASE ~(MayFail /\ dst' = S!NULL /\ failed' = TRUE /\ UNCHANGED clobbered)
      <4>1. dst'.size = len + Len(t) + 1
        BY <3>2 DEF Concat, S!Strconcat, S!Resized, S!Block
      <4> QED
        BY <1>1, <1>3, <4>1 DEF S!NULL
    <3> QED
      BY <3>1, <3>2
  <2>2. dst'.bytes = <<>> /\ dst'.size = 0 /\ IsBlock(dst')
    BY <1>3 DEF S!NULL, IsBlock
  <2> QED
    BY <1>1, <1>2, <2>1, <2>2 DEF TextOK
<1>4. CASE dst' # S!NULL
  <2> DEFINE size == len + Len(t) + 1
             keep == S!Kept(dst)
             u == S!Usable(size)
  <2>1. /\ IsBlock(dst') /\ dst'.size = size /\ Len(dst'.bytes) = u
        /\ failed' = failed /\ clobbered' = (clobbered \/ u = size)
        /\ \A k \in 1 .. u :
             dst'.bytes[k] = IF k - len \in 1 .. Len(t) THEN t[k - len]
                             ELSE IF k = size + 1 THEN S!Zero
                             ELSE IF k \in 1 .. Len(keep) THEN keep[k] ELSE S!Junk
    BY <1>4, BytesOfStrconcat, Zenon DEF Concat
  <2>2. /\ Len(keep) \in dst.size .. Len(dst.bytes) /\ dst.size \in Nat /\ Len(dst.bytes) \in Nat
        /\ KeepsSlack => Len(keep) = Len(dst.bytes)
        /\ \A k \in 1 .. Len(keep) : keep[k] = dst.bytes[k]
    BY KeptIsPrefix DEF TextOK, IsBlock
  <2>3. size \in Nat /\ u \in Nat /\ u >= size
    <3>1. size \in Nat
      BY <1>1
    <3> QED
      BY <3>1, UsableIsEnough, Zenon
  <2> HIDE DEF keep, u
  <2>4. ASSUME failed PROVE Len(dst'.bytes) > 0 => dst'.bytes[1] = S!Junk
    <3>1. len > 0 /\ (Len(dst.bytes) > 0 => dst.bytes[1] = S!Junk)
      BY <1>1, <2>4 DEF TextOK
    <3>2. 1 - len \notin 1 .. Len(t) /\ 1 # size + 1 /\ 1 \in 1 .. u
      BY <1>1, <2>3, <3>1
    <3>3. dst'.bytes[1] = IF 1 \in 1 .. Len(keep) THEN keep[1] ELSE S!Junk
      BY <2>1, <3>2, Zenon
    <3>4. 1 \in 1 .. Len(keep) => keep[1] = S!Junk
      BY <2>2, <3>1
    <3> QED
      BY <3>3, <3>4
  <2>5. ASSUME ~failed
        PROVE  \A k \in 1 .. Len(text') : dst'.bytes[k] = text'[k]
    <3>1. len <= dst.size /\ \A k \in 1 .. len : dst.bytes[k] = text[k]
      BY <1>1, <2>5 DEF TextOK
    <3> SUFFICES ASSUME NEW k \in 1 .. Len(text') PROVE dst'.bytes[k] = text'[k]
      OBVIOUS
    <3>2. k \in Nat /\ 0 < k /\ k <= len + Len(t) /\ k \in 1 .. u /\ k # size + 1
      BY <1>1, <1>2, <2>3
    <3>3. CASE k <= len
      <4>1. k - len \notin 1 .. Len(t) /\ k \in 1 .. Len(keep) /\ k \in 1 .. len
        BY <1>1, <2>2, <3>1, <3>2, <3>3
      <4>2. dst'.bytes[k] = keep[k]
        BY <2>1, <3>2, <4>1, Zenon
      <4> QED
        BY <1>2, <2>2, <3>1, <3>3, <4>1, <4>2
    <3>4. CASE ~(k <= len)
      <4>1. k - len \in 1 .. Len(t)
        BY <1>1, <3>2, <3>4
      <4>2. dst'.bytes[k] = t[k - len]
        BY <2>1, <3>2, <4>1, Zenon
      <4> QED
        BY <1>2, <3>4, <4>2
    <3> QED
      BY <3>3, <3>4
  <2>6. TextOK'
    <3>1. Len(text') <= dst'.size
      BY <1>1, <1>2, <2>1
    <3> QED
      BY <1>1, <1>2, <2>1, <2>3, <2>4, <2>5, <3>1 DEF TextOK
  <2>7. ASSUME ~clobbered' PROVE u >= size + 1
    <3>1. u # size
      BY <2>1, <2>7
    <3> QED
      BY <2>3, <3>1
  <2>8. ~clobbered' => ZeroBehind(len + 2)'
    BY <1>1, <2>1, <2>3, <2>7 DEF ZeroBehind
  <2>9. ASSUME KeepsSlack, ~clobbered', Len(t) = 1, ZeroBehind(len + 2)
        PROVE  ZeroBehind(len + 1)'
    <3>1. len + 2 \in 1 .. Len(keep) /\ keep[len + 2] = S!Zero
      BY <1>1, <2>2, <2>9 DEF ZeroBehind
    <3>2. dst'.bytes[len + 2] = S!Zero /\ len + 2 <= u
      BY <1>1, <2>1, <2>3, <2>9, <3>1
    <3> QED
      BY <1>1, <2>1, <2>9, <3>2 DEF ZeroBehind
  <2> QED
    BY <2>1, <2>6, <2>8, <2>9
<1> QED
  BY <1>3, <1>4

(* How the program came to where it is, and what it has built. *)
LEMMA PrintingInv == ProgramSpec => []SInv
<1>1. ProgramInit => SInv
  <2> SUFFICES ASSUME ProgramInit PROVE SInv
    OBVIOUS
  <2>1. IsBlock(dst)
    BY DEF ProgramInit, IsBlock, S!NULL
  <2>2. text \in Seq(Chars) /\ Len(text) = 0
    BY DEF ProgramInit
  <2>3. /\ rows = 0 /\ cols = 0 /\ at = "outside" /\ r = 0 /\ c = 0 /\ len = 0
        /\ text = <<>> /\ clobbered = FALSE /\ failed = FALSE
    BY DEF ProgramInit, Init
  <2>4. TextOK
    <3>1. len = 0 /\ clobbered = FALSE /\ failed = FALSE
      BY <2>3
    <3>2. Len(text) <= dst.size /\ 1 .. Len(text) = {}
      BY <2>1, <2>2 DEF IsBlock
    <3> QED
      BY <2>1, <2>2, <3>1, <3>2 DEF TextOK
  <2>5. EndOK /\ PlaceOK /\ ShortNumbersFit
    BY <2>3 DEF EndOK, PlaceOK, ShortNumbersFit
  <2> QED
    BY <2>4, <2>5 DEF SInv
<1>2. TypeOK /\ TypeOK' /\ SInv /\ [ProgramNext]_program => SInv'
  <2> SUFFICES ASSUME TypeOK, TypeOK', SInv, [ProgramNext]_program PROVE SInv'
    OBVIOUS
  <2>0. rows \in Nat /\ cols \in Nat /\ TextOK /\ EndOK /\ PlaceOK /\ ShortNumbersFit
    BY DEF TypeOK, SInv
  <2>1. CASE MatrixCalls
    <3>1. at = "outside" /\ UNCHANGED <<at, r, c, len, dst, text, clobbered, failed>>
      BY <2>1 DEF MatrixCalls, string
    <3>2. TextOK'
      BY <2>0, <3>1 DEF TextOK
    <3>3. rows' \in Nat /\ cols' \in Nat
      BY DEF TypeOK
    <3>4. EndOK' /\ PlaceOK' /\ ShortNumbersFit'
      BY <2>0, <3>1, <3>3 DEF EndOK, PlaceOK, ShortNumbersFit
    <3> QED
      BY <3>2, <3>4 DEF SInv
  <2>2. CASE ToString
    <3>1. IsBlock(S!NULL) /\ IsBlock(S!EmptyString)
      <4>1. S!Usable(1) \in Nat /\ S!Usable(1) >= 1
        BY UsableIsEnough
      <4>2. S!EmptyString.size = 1 /\ S!EmptyString = [size |-> S!EmptyString.size, bytes |-> S!EmptyString.bytes]
            /\ S!EmptyString.bytes \in Seq(Bytes) /\ Len(S!EmptyString.bytes) = S!Usable(1)
        BY <4>1 DEF S!EmptyString, S!Block, Bytes
      <4> QED
        BY <4>1, <4>2 DEF IsBlock, S!NULL
    <3>2. IsBlock(dst')
      BY <2>2, <3>1 DEF ToString, S!NewStrings
    <3>3. TextOK'
      BY <2>0, <2>2, <3>2 DEF ToString, TextOK, PlaceOK, IsBlock
    <3> QED
      BY <2>0, <2>2, <3>3 DEF ToString, vars, SInv, EndOK, PlaceOK, ShortNumbersFit, Wrapped
  <2>3. CASE Element
    <3>1. PICK width \in Printed(Get(<<r, c>>)) :
            IF Fits(width)
              THEN Concat(S!Text(width)) /\ len' = len + width /\ c' = c + 1 /\ UNCHANGED at
              ELSE at' = "smashed" /\ UNCHANGED <<len, c, string>>
      BY <2>3 DEF Element
    <3>2. /\ at = "printing" /\ r < rows /\ c < cols /\ r' = r
          /\ UNCHANGED <<life, rows, cols, data, outside>>
      BY <2>3 DEF Element, vars
    <3>3. width \in Nat \ {0} /\ r \in Nat /\ c \in Nat
      BY <2>0, PrintedType DEF PlaceOK
    <3>4. CASE Fits(width)
      <4>1. Concat(S!Text(width)) /\ len' = len + width /\ c' = c + 1 /\ at' = at
        BY <3>1, <3>4
      <4>2. S!Text(width) \in Seq(Chars) /\ Len(S!Text(width)) = width
        BY <3>3, TextType
      <4>3. TextOK' /\ (~failed' /\ ~clobbered' => ZeroBehind(len + 2)')
        BY <2>0, <3>3, <4>1, <4>2, AppendKeepsText
      <4>4. EndOK'
        BY <3>3, <4>1, <4>3 DEF EndOK, ZeroBehind
      <4>5. PlaceOK' /\ ShortNumbersFit'
        BY <2>0, <3>2, <3>3, <4>1 DEF PlaceOK, ShortNumbersFit, TextOK, Wrapped
      <4> QED
        BY <4>3, <4>4, <4>5 DEF SInv
    <3>5. CASE ~Fits(width)
      <4>1. at' = "smashed" /\ UNCHANGED <<len, c, string>>
        BY <3>1, <3>5
      <4>2. TextOK' /\ EndOK' /\ PlaceOK'
        BY <2>0, <3>2, <4>1 DEF string, TextOK, EndOK, PlaceOK, ZeroBehind, Wrapped
      <4>3. IndexOf(r, c) \in DOMAIN data
        <5>1. rows * cols < SizeMod
          <6>1. rows * cols \in Nat /\ ~Wrapped
            BY <2>0, <3>2, ProductIsNat DEF PlaceOK
          <6> QED
            BY <6>1, Bounds DEF Wrapped
        <5>2. <<r, c>> \in Positions
          BY <2>0, <3>2, <3>3 DEF Positions
        <5>3. IndexOf(<<r, c>>[1], <<r, c>>[2]) \in DOMAIN data
          BY <5>1, <5>2, PositionFits, Zenon
        <5> QED
          BY <5>3
      <4> DEFINE v == data[IndexOf(r, c)]
      <4>4. v \in Int /\ width \in Printed(v)
        <5>1. Get(<<r, c>>) = v
          BY <4>3 DEF Get
        <5>2. v \in Values
          BY <4>3 DEF TypeOK
        <5> QED
          BY <5>1, <5>2, MatrixStringAssumption
      <4>5. Digits(v) > BufferSize - 6
        <5>1. Digits(v) \in Nat
          BY DigitsType
        <5>2. width + 1 > BufferSize
          BY <3>3, <3>5, MatrixStringAssumption DEF Fits
        <5>3. width <= Digits(v) + 5
          BY <4>4, <5>1 DEF Printed, Whole
        <5> QED
          BY <3>3, <5>1, <5>2, <5>3, MatrixStringAssumption
      <4>6. ShortNumbersFit'
        BY <3>2, <4>3, <4>5 DEF ShortNumbersFit
      <4> QED
        BY <4>2, <4>6 DEF SInv
    <3> QED
      BY <3>4, <3>5
  <2>4. CASE RowEnd
    <3>1. /\ at = "printing" /\ r < rows /\ c = cols /\ Concat(Newline)
          /\ len' = len + 1 /\ r' = r + 1 /\ c' = 0 /\ at' = at
          /\ UNCHANGED <<life, rows, cols, data, outside>>
      BY <2>4 DEF RowEnd, vars
    <3>2. Newline \in Seq(Chars) /\ Len(Newline) = 1
      BY DEF Newline, Chars
    <3>3. len \in Nat /\ r \in Nat
      BY <2>0 DEF TextOK, PlaceOK
    <3>4. /\ TextOK' /\ (~failed' /\ ~clobbered' => ZeroBehind(len + 2)')
          /\ KeepsSlack /\ ~failed' /\ ~clobbered' /\ ZeroBehind(len + 2) => ZeroBehind(len + 1)'
          /\ (failed => failed') /\ (clobbered => clobbered')
      <4>1. Len(Newline) > 0 /\ len' = len + Len(Newline)
        BY <3>1, <3>2
      <4> QED
        BY <2>0, <3>1, <3>2, <4>1, AppendKeepsText, Zenon
    <3>5. cols > 0 => len > 0
      BY <2>0, <3>1 DEF PlaceOK
    <3>6. EndOK'
      BY <2>0, <3>1, <3>4, <3>5 DEF EndOK, ZeroBehind
    <3>7. PlaceOK' /\ ShortNumbersFit'
      BY <2>0, <3>1, <3>3 DEF PlaceOK, ShortNumbersFit, Wrapped
    <3> QED
      BY <3>4, <3>6, <3>7 DEF SInv
  <2>5. CASE Returned
    BY <2>0, <2>5 DEF Returned, vars, string, SInv, TextOK, EndOK, PlaceOK, ShortNumbersFit,
                      ZeroBehind, Wrapped
  <2>6. CASE FreeString
    <3>1. IsBlock(dst') /\ text' \in Seq(Chars) /\ Len(text') = 0
      BY <2>6 DEF FreeString, IsBlock, S!NULL
    <3> QED
      <4>1. /\ at' = "outside" /\ r' = 0 /\ c' = 0 /\ len' = 0 /\ text' = <<>>
            /\ clobbered' = FALSE /\ failed' = FALSE /\ rows' = rows /\ cols' = cols
        BY <2>6 DEF FreeString, vars
      <4>2. TextOK'
        <5>1. len' = 0 /\ clobbered' = FALSE /\ failed' = FALSE
          BY <4>1
        <5>2. Len(text') <= dst'.size /\ 1 .. Len(text') = {}
          BY <3>1 DEF IsBlock
        <5> QED
          BY <3>1, <5>1, <5>2 DEF TextOK
      <4>3. EndOK' /\ PlaceOK' /\ ShortNumbersFit'
        BY <2>0, <4>1 DEF EndOK, PlaceOK, ShortNumbersFit
      <4> QED
        BY <4>2, <4>3 DEF SInv
  <2>7. CASE UNCHANGED program
    BY <2>0, <2>7 DEF program, vars, string, SInv, TextOK, EndOK, PlaceOK, ShortNumbersFit,
                      ZeroBehind, Wrapped
  <2> QED
    BY <2>1, <2>2, <2>3, <2>4, <2>5, <2>6, <2>7 DEF ProgramNext
<1> QED
  BY <1>1, <1>2, MatrixTyped, PTL DEF ProgramSpec

(* While Matrix_toString builds its text no byte of it is lost unless a    *)
(* realloc failed, and then the text is not whole any more, for matrices   *)
(* of every size and every allocator.                                      *)
THEOREM TextIsWholeUnlessFailed == ProgramSpec => []WholeUnlessFailed
<1>1. SInv => WholeUnlessFailed
  <2> SUFFICES ASSUME TextOK PROVE S!WholeUnlessFailed
    BY DEF SInv, WholeUnlessFailed
  <2>1. text \in Seq(Chars) /\ IsBlock(dst) /\ failed \in BOOLEAN
    BY DEF TextOK
  <2>2. CASE failed
    <3>1. ASSUME S!Whole PROVE FALSE
      <4>1. 1 \in DOMAIN text /\ Len(dst.bytes) > 0 /\ dst.bytes[1] = S!Junk
        BY <2>1, <2>2, <3>1 DEF TextOK, IsBlock, S!Whole
      <4>2. text[1] \in Chars /\ dst.bytes[1] = text[1]
        BY <2>1, <3>1, <4>1 DEF S!Whole
      <4> QED
        BY <4>1, <4>2 DEF Chars, S!Junk
    <3> QED
      BY <2>2, <3>1 DEF S!WholeUnlessFailed
  <2>3. CASE ~failed
    BY <2>1, <2>3 DEF TextOK, IsBlock, S!Whole, S!WholeUnlessFailed
  <2> QED
    BY <2>2, <2>3
<1> QED
  BY <1>1, PrintingInv, PTL

(* Where realloc moves the spare bytes of a block, the result of printing  *)
(* a matrix with elements is a proper string if no call failed or wrote    *)
(* behind its block: the zero is the one of the call before the last.      *)
THEOREM ResultIsEnded == ASSUME KeepsSlack PROVE ProgramSpec => []EndedByThePreviousCall
<1>1. SInv => EndedByThePreviousCall
  <2> SUFFICES ASSUME SInv, at = "returned", rows > 0, cols > 0, ~failed, ~clobbered
               PROVE  S!ReadsAs(dst, text)
    BY DEF EndedByThePreviousCall
  <2>1. c = 0 /\ r > 0
    BY DEF SInv, PlaceOK
  <2>2. ZeroBehind(len + 1)
    BY <2>1 DEF SInv, EndOK
  <2>3. /\ text \in Seq(Chars) /\ len = Len(text) /\ Len(dst.bytes) \in Nat
        /\ \A k \in 1 .. Len(text) : dst.bytes[k] = text[k]
    BY DEF SInv, TextOK, IsBlock
  <2> QED
    BY <2>2, <2>3 DEF ZeroBehind, S!ReadsAs
<1> QED
  BY <1>1, PrintingInv, PTL

(* A number is printed past the end of buffer only if it has more digits   *)
(* than buffer has bytes for.                                              *)
THEOREM ShortNumbersStayInside == ProgramSpec => []ShortNumbersFit
<1>1. SInv => ShortNumbersFit
  BY DEF SInv
<1> QED
  BY <1>1, PrintingInv, PTL
=============================================================================
