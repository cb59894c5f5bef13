---------------------------- MODULE IovecsProofs ----------------------------
(***************************************************************************)
(* What holds of the blocks files.c cuts a file into, for every size of    *)
(* file and block: they partition the file, their lengths add up to its    *)
(* size, and what a read leaves in them adds up to what it returned.       *)
(*                                                                         *)
(* The sums are folds of the community modules.  That a fold exists, and   *)
(* that it adds up in any order, is proved by induction; an induction is   *)
(* over a set of the numbers, or of the subsets, for which the claim       *)
(* holds, and rests on the least element of a set of numbers.              *)
(***************************************************************************)
EXTENDS Iovecs, FiniteSetsExt, FiniteSetTheorems, WellFoundedInduction,
        NaturalsInduction, TLAPS

(* Induction. *)

LEMMA SmallestNat ==
  ASSUME NEW S, S \subseteq Nat, S # {}
  PROVE  \E x \in S : \A y \in S : x <= y
<1>1. \E x \in S : \A y \in S : ~(<<y, x>> \in OpToRel(<, Nat))
  BY NatLessThanWellFounded, WFMin
<1>2. PICK x \in S : \A y \in S : ~(<<y, x>> \in OpToRel(<, Nat))
  BY <1>1
<1>3. ASSUME NEW y \in S PROVE x <= y
  <2>1. x \in Nat /\ y \in Nat
    OBVIOUS
  <2>2. y < x => <<y, x>> \in OpToRel(<, Nat)
    BY <2>1 DEF OpToRel
  <2>3. ~(y < x)
    BY <1>2, <2>2
  <2> QED
    BY <2>1, <2>3
<1> QED
  BY <1>3

LEMMA NatInductionOnSet ==
  ASSUME NEW G, 0 \in G, \A n \in Nat : n \in G => n + 1 \in G
  PROVE  \A n \in Nat : n \in G
<1>1. SUFFICES ASSUME Nat \ G # {} PROVE FALSE
  OBVIOUS
<1>2. PICK n \in Nat \ G : \A m \in Nat \ G : n <= m
  BY <1>1, SmallestNat
<1>3. n # 0 /\ n - 1 \in Nat /\ n - 1 \in G
  BY <1>2
<1> QED
  BY <1>2, <1>3

LEMMA SubsetInduction ==
  ASSUME NEW S, IsFiniteSet(S), NEW G,
         {} \in G,
         \A T \in SUBSET S : T # {} /\ (\A x \in T : T \ {x} \in G) => T \in G
  PROVE  \A T \in SUBSET S : T \in G
<1> DEFINE Sizes == {Cardinality(T) : T \in (SUBSET S) \ G}
<1>1. SUFFICES ASSUME (SUBSET S) \ G # {} PROVE FALSE
  OBVIOUS
<1>2. ASSUME NEW T \in SUBSET S PROVE IsFiniteSet(T) /\ Cardinality(T) \in Nat
  BY <1>2, FS_Subset, FS_CardinalityType
<1>3. Sizes \subseteq Nat /\ Sizes # {}
  BY <1>1, <1>2
<1>4. PICK n \in Sizes : \A m \in Sizes : n <= m
  BY <1>3, SmallestNat
<1>5. PICK T \in (SUBSET S) \ G : Cardinality(T) = n
  OBVIOUS
<1>6. ASSUME NEW x \in T PROVE T \ {x} \in G
  <2>1. Cardinality(T \ {x}) = Cardinality(T) - 1
    BY <1>2, FS_RemoveElement
  <2>2. T \ {x} \in SUBSET S /\ Cardinality(T) \in Nat
    BY <1>2
  <2>3. T \ {x} \notin G => n <= Cardinality(T \ {x})
    BY <1>4, <2>2
  <2> HIDE DEF Sizes
  <2> QED
    BY <1>5, <2>1, <2>2, <2>3
<1> QED
  BY <1>5, <1>6

-----------------------------------------------------------------------------
(* Sums. *)

Chosen(T) == CHOOSE x \in T : TRUE
IsFold(f, S, fold) ==
  fold = [T \in SUBSET S |-> IF T = {} THEN 0 ELSE f[Chosen(T)] + fold[T \ {Chosen(T)}]]

LEMMA SumIsAFold ==
  ASSUME NEW f, NEW S
  PROVE  SumFunctionOnSet(f, S) = (CHOOSE fold : IsFold(f, S, fold))[S]
BY DEF SumFunctionOnSet, FoldFunctionOnSet, MapThenFoldSet, IsFold, Chosen

LEMMA FoldStep ==
  ASSUME NEW f, NEW S, NEW fold, IsFold(f, S, fold), NEW T \in SUBSET S
  PROVE  fold[T] = IF T = {} THEN 0 ELSE f[Chosen(T)] + fold[T \ {Chosen(T)}]
BY DEF IsFold

LEMMA ChosenIsIn == ASSUME NEW T, T # {} PROVE Chosen(T) \in T
BY DEF Chosen

LEMMA FoldsAgree ==
  ASSUME NEW f, NEW S, IsFiniteSet(S), NEW U \in SUBSET S,
         NEW fold, IsFold(f, S, fold), NEW other, IsFold(f, U, other)
  PROVE  \A T \in SUBSET U : fold[T] = other[T]
<1> DEFINE G == {T \in SUBSET U : fold[T] = other[T]}
<1>1. IsFiniteSet(U)
  BY FS_Subset
<1>2. {} \in G
  BY FoldStep
<1>3. ASSUME NEW T \in SUBSET U, T # {}, \A x \in T : T \ {x} \in G
      PROVE  T \in G
  <2>1. Chosen(T) \in T
    BY <1>3, ChosenIsIn
  <2>2. fold[T \ {Chosen(T)}] = other[T \ {Chosen(T)}]
    BY <1>3, <2>1
  <2>3. T \in SUBSET S
    OBVIOUS
  <2>4. fold[T] = f[Chosen(T)] + fold[T \ {Chosen(T)}]
    BY <1>3, <2>3, FoldStep
  <2>5. other[T] = f[Chosen(T)] + other[T \ {Chosen(T)}]
    <3>1. other[T] = IF T = {} THEN 0 ELSE f[Chosen(T)] + other[T \ {Chosen(T)}]
      BY FoldStep
    <3> QED
      BY <3>1, <1>3
  <2> QED
    BY <2>2, <2>4, <2>5
<1> HIDE DEF G
<1>4. \A T \in SUBSET U : T \in G
  BY <1>1, <1>2, <1>3, SubsetInduction
<1> QED
  BY <1>4 DEF G

LEMMA FoldRestricts ==
  ASSUME NEW f, NEW S, NEW fold, IsFold(f, S, fold), NEW U \in SUBSET S
  PROVE  IsFold(f, U, [T \in SUBSET U |-> fold[T]])
<1> DEFINE rest == [T \in SUBSET U |-> fold[T]]
<1>1. ASSUME NEW T \in SUBSET U
      PROVE  rest[T] = IF T = {} THEN 0 ELSE f[Chosen(T)] + rest[T \ {Chosen(T)}]
  <2>1. T \in SUBSET S /\ T \ {Chosen(T)} \in SUBSET U
    OBVIOUS
  <2> QED
    BY <2>1, FoldStep
<1> HIDE DEF rest
<1>2. rest = [T \in SUBSET U |-> rest[T]]
  BY DEF rest
<1> QED
  BY <1>1, <1>2 DEF IsFold, rest

LEMMA FoldExists ==
  ASSUME NEW f, NEW S, IsFiniteSet(S)
  PROVE  \E fold : IsFold(f, S, fold)
<1> DEFINE G == {T \in SUBSET S : \E fold : IsFold(f, T, fold)}
<1>1. {} \in G
  <2> DEFINE zero == [T \in SUBSET {} |-> 0]
  <2>1. zero = [T \in SUBSET {} |-> IF T = {} THEN 0 ELSE f[Chosen(T)] + zero[T \ {Chosen(T)}]]
    OBVIOUS
  <2>2. IsFold(f, {}, zero)
    BY <2>1 DEF IsFold
  <2> QED
    BY <2>2
<1>2. ASSUME NEW T \in SUBSET S, T # {}, \A x \in T : T \ {x} \in G
      PROVE  T \in G
  <2> DEFINE part(U) == CHOOSE fold : IsFold(f, U, fold)
             val(U) == part(U)[U]
             whole == [U \in SUBSET T |->
                         IF U = {} THEN 0 ELSE f[Chosen(U)] + val(U \ {Chosen(U)})]
  <2>1. ASSUME NEW U \in SUBSET T, U # T PROVE IsFold(f, U, part(U))
    <3>1. PICK x \in T : x \notin U
      BY <2>1
    <3>2. PICK fold : IsFold(f, T \ {x}, fold)
      BY <1>2
    <3>3. IsFold(f, U, [V \in SUBSET U |-> fold[V]])
      BY <3>1, <3>2, FoldRestricts
    <3> QED
      BY <3>3
  <2>2. ASSUME NEW U \in SUBSET T, U # T
        PROVE  val(U) = IF U = {} THEN 0 ELSE f[Chosen(U)] + val(U \ {Chosen(U)})
    <3>1. CASE U = {}
      <4>1. IsFold(f, U, part(U))
        BY <2>1, <2>2
      <4> HIDE DEF part
      <4> QED
        BY <3>1, <4>1, FoldStep
    <3>2. CASE U # {}
      <4> DEFINE V == U \ {Chosen(U)}
      <4>1. Chosen(U) \in U
        BY <3>2, ChosenIsIn
      <4>2. V \in SUBSET T /\ V # T /\ V \in SUBSET U
        BY <2>2
      <4>3. IsFold(f, U, part(U)) /\ IsFold(f, V, part(V))
        BY <2>1, <2>2, <4>2
      <4>4. IsFiniteSet(U)
        BY FS_Subset
      <4> HIDE DEF part, V
      <4>5. part(U)[V] = part(V)[V]
        BY <4>2, <4>3, <4>4, FoldsAgree
      <4>6. part(U)[U] = f[Chosen(U)] + part(U)[V]
        BY <3>2, <4>3, FoldStep DEF V
      <4> QED
        BY <3>2, <4>5, <4>6 DEF V
    <3> QED
      BY <3>1, <3>2
  <2> HIDE DEF val
  <2>3. ASSUME NEW U \in SUBSET T, U # T PROVE val(U) = whole[U]
    <3>1. whole[U] = IF U = {} THEN 0 ELSE f[Chosen(U)] + val(U \ {Chosen(U)})
      OBVIOUS
    <3> QED
      BY <2>2, <2>3, <3>1
  <2>4. ASSUME NEW U \in SUBSET T, U # {} PROVE val(U \ {Chosen(U)}) = whole[U \ {Chosen(U)}]
    <3>1. Chosen(U) \in T
      BY <2>4, ChosenIsIn
    <3>2. U \ {Chosen(U)} \in SUBSET T /\ U \ {Chosen(U)} # T
      BY <3>1
    <3> QED
      BY <2>3, <3>2
  <2>5. whole = [U \in SUBSET T |->
                   IF U = {} THEN 0 ELSE f[Chosen(U)] + whole[U \ {Chosen(U)}]]
    BY <2>4
  <2> HIDE DEF whole
  <2> QED
    BY <2>5 DEF IsFold
<1> HIDE DEF G
<1>3. \A T \in SUBSET S : T \in G
  BY <1>1, <1>2, SubsetInduction
<1> QED
  BY <1>3 DEF G

LEMMA SumStep ==
  ASSUME NEW f, NEW S, IsFiniteSet(S)
  PROVE  SumFunctionOnSet(f, S) =
           IF S = {} THEN 0
           ELSE f[Chosen(S)] + SumFunctionOnSet(f, S \ {Chosen(S)})
<1> DEFINE fold(T) == CHOOSE it : IsFold(f, T, it)
           R == S \ {Chosen(S)}
<1>1. ASSUME NEW T \in SUBSET S PROVE IsFold(f, T, fold(T)) /\ SumFunctionOnSet(f, T) = fold(T)[T]
  BY <1>1, FS_Subset, FoldExists, SumIsAFold
<1> HIDE DEF fold
<1>2. R \in SUBSET S
  OBVIOUS
<1>3. fold(S)[R] = fold(R)[R]
  BY <1>1, <1>2, FoldsAgree
<1>4. IsFold(f, S, fold(S))
  BY <1>1
<1>5. fold(S)[S] = IF S = {} THEN 0 ELSE f[Chosen(S)] + fold(S)[R]
  BY <1>4, FoldStep
<1> QED
  BY <1>1, <1>2, <1>3, <1>5

LEMMA SumOfNothing == ASSUME NEW f PROVE SumFunctionOnSet(f, {}) = 0
BY SumStep, FS_EmptySet

LEMMA SumType ==
  ASSUME NEW f, NEW S, IsFiniteSet(S), \A x \in S : f[x] \in Int
  PROVE  SumFunctionOnSet(f, S) \in Int
<1> DEFINE G == {T \in SUBSET S : SumFunctionOnSet(f, T) \in Int}
<1>1. {} \in G
  BY SumOfNothing
<1>2. ASSUME NEW T \in SUBSET S, T # {}, \A x \in T : T \ {x} \in G PROVE T \in G
  <2>1. IsFiniteSet(T) /\ Chosen(T) \in T
    BY <1>2, FS_Subset, ChosenIsIn
  <2>2. SumFunctionOnSet(f, T \ {Chosen(T)}) \in Int /\ f[Chosen(T)] \in Int
    BY <1>2, <2>1
  <2> QED
    BY <1>2, <2>1, <2>2, SumStep
<1> HIDE DEF G
<1>3. \A T \in SUBSET S : T \in G
  BY <1>1, <1>2, SubsetInduction
<1> QED
  BY <1>3 DEF G

(* The order in which the fold takes the elements makes no difference. *)
LEMMA SumWithout ==
  ASSUME NEW f, NEW S, IsFiniteSet(S), \A x \in S : f[x] \in Int, NEW x \in S
  PROVE  SumFunctionOnSet(f, S) = f[x] + SumFunctionOnSet(f, S \ {x})
<1> DEFINE Total(T) == SumFunctionOnSet(f, T)
           G == {T \in SUBSET S : \A y \in T : Total(T) = f[y] + Total(T \ {y})}
<1>1. {} \in G
  OBVIOUS
<1>2. ASSUME NEW T \in SUBSET S, T # {}, \A y \in T : T \ {y} \in G PROVE T \in G
  <2>1. SUFFICES ASSUME NEW y \in T PROVE Total(T) = f[y] + Total(T \ {y})
    OBVIOUS
  <2> DEFINE c == Chosen(T)
  <2>2. IsFiniteSet(T) /\ c \in T
    BY FS_Subset, ChosenIsIn
  <2>3. Total(T) = f[c] + Total(T \ {c})
    BY <1>2, <2>2, SumStep
  <2>4. CASE y = c
    BY <2>3, <2>4
  <2>5. CASE y # c
    <3>1. Total(T \ {c}) = f[y] + Total((T \ {c}) \ {y})
      BY <1>2, <2>2, <2>5
    <3>2. Total(T \ {y}) = f[c] + Total((T \ {y}) \ {c})
      BY <1>2, <2>2, <2>5
    <3>3. (T \ {c}) \ {y} = (T \ {y}) \ {c}
      OBVIOUS
    <3>4. IsFiniteSet((T \ {c}) \ {y}) /\ (T \ {c}) \ {y} \in SUBSET S
      BY FS_Subset
    <3>5. Total((T \ {c}) \ {y}) \in Int
      BY <3>4, SumType
    <3>6. f[y] \in Int /\ f[c] \in Int
      BY <2>2
    <3> DEFINE rest == Total((T \ {c}) \ {y})
    <3>7. Total(T) = f[c] + (f[y] + rest)
      BY <2>3, <3>1
    <3>8. Total(T \ {y}) = f[c] + rest
      BY <3>2, <3>3
    <3>9. rest \in Int
      BY <3>5
    <3> HIDE DEF rest, Total, c
    <3>10. f[c] + (f[y] + rest) = f[y] + (f[c] + rest)
      BY <3>6, <3>9
    <3> QED
      BY <3>7, <3>8, <3>10
  <2> QED
    BY <2>4, <2>5
<1> HIDE DEF G
<1>3. \A T \in SUBSET S : T \in G
  BY <1>1, <1>2, SubsetInduction
<1> QED
  BY <1>3 DEF G

LEMMA SumOfEquals ==
  ASSUME NEW f, NEW g, NEW S, IsFiniteSet(S), \A x \in S : f[x] = g[x]
  PROVE  SumFunctionOnSet(f, S) = SumFunctionOnSet(g, S)
<1> DEFINE G == {T \in SUBSET S : SumFunctionOnSet(f, T) = SumFunctionOnSet(g, T)}
<1>1. {} \in G
  BY SumOfNothing
<1>2. ASSUME NEW T \in SUBSET S, T # {}, \A x \in T : T \ {x} \in G PROVE T \in G
  <2>1. IsFiniteSet(T) /\ Chosen(T) \in T
    BY <1>2, FS_Subset, ChosenIsIn
  <2>2. /\ SumFunctionOnSet(f, T \ {Chosen(T)}) = SumFunctionOnSet(g, T \ {Chosen(T)})
        /\ f[Chosen(T)] = g[Chosen(T)]
    BY <1>2, <2>1
  <2> QED
    BY <1>2, <2>1, <2>2, SumStep
<1> HIDE DEF G
<1>3. \A T \in SUBSET S : T \in G
  BY <1>1, <1>2, SubsetInduction
<1> QED
  BY <1>3 DEF G

(* Terms that are the steps of F add up to the way F has come. *)
Span(a, n) == a + 1 .. a + n
StepsOf(f, F, a, n) ==
  /\ \A i \in 0 .. n : F[i] \in Int
  /\ \A i \in 1 .. n : f[a + i] = F[i] - F[i - 1]

LEMMA SumOfSteps ==
  ASSUME NEW f, NEW F, NEW a \in Nat, NEW n \in Nat, StepsOf(f, F, a, n)
  PROVE  SumFunctionOnSet(f, Span(a, n)) = F[n] - F[0]
<1>0. /\ \A i \in 0 .. n : F[i] \in Int
      /\ \A i \in 1 .. n : f[a + i] = F[i] - F[i - 1]
  BY DEF StepsOf
<1> DEFINE G == {m \in Nat : m <= n => SumFunctionOnSet(f, a + 1 .. a + m) = F[m] - F[0]}
<1>1. 0 \in G
  <2>1. a + 1 .. a + 0 = {} /\ F[0] \in Int
    BY <1>0
  <2> QED
    BY <2>1, SumOfNothing
<1>2. ASSUME NEW m \in Nat, m \in G PROVE m + 1 \in G
  <2>1. SUFFICES ASSUME m + 1 <= n
                 PROVE SumFunctionOnSet(f, a + 1 .. a + (m + 1)) = F[m + 1] - F[0]
    OBVIOUS
  <2> DEFINE S == a + 1 .. a + (m + 1)
  <2>2. IsFiniteSet(S)
    BY FS_Interval
  <2>3. ASSUME NEW x \in S PROVE f[x] \in Int
    <3>1. x - a \in 1 .. n /\ a + (x - a) = x /\ (x - a) - 1 \in 0 .. n /\ x - a \in 0 .. n
      BY <2>1
    <3>2. F[x - a] \in Int /\ F[(x - a) - 1] \in Int
      BY <1>0, <3>1
    <3>3. f[x] = F[x - a] - F[(x - a) - 1]
      BY <1>0, <3>1
    <3> QED
      BY <3>2, <3>3
  <2>4. a + (m + 1) \in S /\ S \ {a + (m + 1)} = a + 1 .. a + m
    OBVIOUS
  <2>5. f[a + (m + 1)] = F[m + 1] - F[m]
    BY <1>0, <2>1
  <2>6. SumFunctionOnSet(f, a + 1 .. a + m) = F[m] - F[0]
    BY <1>2, <2>1
  <2> HIDE DEF S
  <2>7. SumFunctionOnSet(f, S) = f[a + (m + 1)] + SumFunctionOnSet(f, S \ {a + (m + 1)})
    BY <2>2, <2>3, <2>4, SumWithout
  <2>8. F[m] \in Int /\ F[m + 1] \in Int /\ F[0] \in Int
    BY <1>0, <2>1
  <2>9. SumFunctionOnSet(f, S) = (F[m + 1] - F[m]) + (F[m] - F[0])
    BY <2>4, <2>5, <2>6, <2>7
  <2>10. SumFunctionOnSet(f, S) = F[m + 1] - F[0]
    BY <2>8, <2>9
  <2> QED
    BY <2>10 DEF S
<1> HIDE DEF G
<1>3. n \in G
  BY <1>1, <1>2, NatInductionOnSet
<1> QED
  BY <1>3 DEF G, Span

-----------------------------------------------------------------------------
(* The arithmetic of submitToSq: its blocks cut the file without gap or    *)
(* overlap, and an error code of get_file_size makes one full block.       *)

(* The size_t values, and the error codes of get_file_size. *)
FileSizes == 0 .. SizeMod - 1
Sizes     == {-2, -1} \union FileSizes

LEMMA DivisionFacts ==
  ASSUME NEW n \in Nat
  PROVE  /\ n \div BlkSize \in Nat
         /\ (n \div BlkSize) * BlkSize <= n
         /\ n < (n \div BlkSize) * BlkSize + BlkSize
<1>1. BlkSize \in Nat /\ BlkSize > 0
  BY IovecsAssumption
<1> QED
  BY <1>1

(* A size that is not negative makes as many blocks as it takes to hold    *)
(* it, and none to spare.                                                  *)
LEMMA BlockCountOfFile ==
  ASSUME NEW n \in FileSizes
  PROVE  /\ BlockCount(n) \in Nat
         /\ n <= BlockCount(n) * BlkSize
         /\ BlockCount(n) > 0 => (BlockCount(n) - 1) * BlkSize < n
<1> DEFINE q == n \div BlkSize
<1>1. n \in Nat /\ BlkSize \in Nat /\ BlkSize > 0
  BY IovecsAssumption DEF FileSizes
<1>2. q \in Nat /\ q * BlkSize <= n /\ n < q * BlkSize + BlkSize
  BY <1>1, DivisionFacts
<1>3. Quotient(n) = q
  BY <1>1 DEF Quotient
<1>4. BlockCount(n) = IF n # q * BlkSize THEN q + 1 ELSE q
  BY <1>2, <1>3 DEF BlockCount
<1> HIDE DEF q
<1>5. CASE n = q * BlkSize
  <2>1. BlockCount(n) = q
    BY <1>4, <1>5
  <2>2. q > 0 => (q - 1) * BlkSize = q * BlkSize - BlkSize
    BY <1>1, <1>2
  <2> QED
    BY <1>1, <1>2, <1>5, <2>1, <2>2
<1>6. CASE n # q * BlkSize
  <2>1. BlockCount(n) = q + 1 /\ BlockCount(n) - 1 = q
    BY <1>2, <1>4, <1>6
  <2>2. (q + 1) * BlkSize = q * BlkSize + BlkSize
    BY <1>1, <1>2
  <2> QED
    BY <1>1, <1>2, <1>6, <2>1, <2>2
<1> QED
  BY <1>5, <1>6

(* An error code makes one block. *)
LEMMA BlockCountOfError ==
  ASSUME NEW n \in {-2, -1}
  PROVE  BlockCount(n) = 1
<1>1. (-n) \div BlkSize = 0
  BY IovecsAssumption
<1> QED
  BY <1>1, IovecsAssumption DEF BlockCount, Quotient

LEMMA BlockCountType ==
  ASSUME NEW n \in Sizes
  PROVE  BlockCount(n) \in Nat
BY BlockCountOfFile, BlockCountOfError DEF Sizes

LEMMA IovLenType ==
  ASSUME NEW n \in Sizes, NEW i \in Nat
  PROVE  IovLen(n, i) \in Nat /\ IovLen(n, i) <= BlkSize
<1>1. n \in Int /\ i * BlkSize \in Int /\ SizeMod \in Nat /\ SizeMod > 0
  BY IovecsAssumption DEF Sizes, FileSizes
<1>2. BytesLeft(n, i) \in Nat
  BY <1>1 DEF BytesLeft
<1> QED
  BY <1>2, IovecsAssumption DEF IovLen, Lesser

LEMMA IovLenOfFile ==
  ASSUME NEW n \in FileSizes, NEW i \in Blocks(n)
  PROVE  /\ i * BlkSize < n
         /\ IovLen(n, i) = Lesser(BlkSize, n - i * BlkSize)
<1>1. /\ n \in Nat /\ n < SizeMod /\ i \in Nat /\ BlkSize \in Nat /\ BlkSize > 0
      /\ SizeMod \in Nat
  BY IovecsAssumption, BlockCountOfFile DEF FileSizes, Blocks
<1>2. BlockCount(n) > 0 /\ i <= BlockCount(n) - 1 /\ BlockCount(n) - 1 \in Nat
  BY <1>1, BlockCountOfFile DEF Blocks
<1>3. i * BlkSize <= (BlockCount(n) - 1) * BlkSize
  BY <1>1, <1>2
<1>4. i * BlkSize \in Nat /\ i * BlkSize < n
  BY <1>1, <1>2, <1>3, BlockCountOfFile
<1>5. (n - i * BlkSize) % SizeMod = n - i * BlkSize
  BY <1>1, <1>4
<1> QED
  BY <1>4, <1>5 DEF IovLen, BytesLeft

(* Each byte of the file lies in one block that submitToSq allocates, and  *)
(* in no other.                                                            *)
THEOREM BlocksPartitionTheFile ==
  ASSUME NEW n \in FileSizes, NEW b \in 0 .. n - 1
  PROVE  /\ \E i \in Blocks(n) : i * BlkSize <= b /\ b < i * BlkSize + IovLen(n, i)
         /\ \A i, j \in Blocks(n) :
              /\ i * BlkSize <= b /\ b < i * BlkSize + IovLen(n, i)
              /\ j * BlkSize <= b /\ b < j * BlkSize + IovLen(n, j)
              => i = j
<1>1. /\ n \in Nat /\ b \in Nat /\ b < n
      /\ BlkSize \in Nat /\ BlkSize > 0 /\ BlockCount(n) \in Nat
  BY IovecsAssumption, BlockCountOfFile DEF FileSizes
<1>2. \E i \in Blocks(n) : i * BlkSize <= b /\ b < i * BlkSize + IovLen(n, i)
  <2> DEFINE i == b \div BlkSize
  <2>1. i \in Nat /\ i * BlkSize <= b /\ b < i * BlkSize + BlkSize
    BY <1>1, DivisionFacts
  <2> HIDE DEF i
  <2>2. i * BlkSize < BlockCount(n) * BlkSize
    BY <1>1, <2>1, BlockCountOfFile
  <2>3. i < BlockCount(n)
    BY <1>1, <2>1, <2>2
  <2>4. i \in Blocks(n)
    BY <1>1, <2>1, <2>3 DEF Blocks
  <2>5. b < i * BlkSize + IovLen(n, i)
    BY <1>1, <2>1, <2>4, IovLenOfFile DEF Lesser
  <2> QED
    BY <2>1, <2>4, <2>5
<1>3. ASSUME NEW i \in Blocks(n), NEW j \in Blocks(n),
             i * BlkSize <= b, b < i * BlkSize + IovLen(n, i),
             j * BlkSize <= b, b < j * BlkSize + IovLen(n, j)
      PROVE  i = j
  <2>1. i \in Nat /\ j \in Nat
    BY <1>1 DEF Blocks
  <2>2. b < i * BlkSize + BlkSize /\ b < j * BlkSize + BlkSize
    BY <1>1, <1>3, <2>1, IovLenType DEF Sizes
  <2>3. (i + 1) * BlkSize = i * BlkSize + BlkSize /\ (j + 1) * BlkSize = j * BlkSize + BlkSize
    BY <1>1, <2>1
  <2>4. i * BlkSize < (j + 1) * BlkSize /\ j * BlkSize < (i + 1) * BlkSize
    BY <1>1, <1>3, <2>1, <2>2, <2>3
  <2>5. i < j + 1 /\ j < i + 1
    BY <1>1, <2>1, <2>4
  <2> QED
    BY <2>1, <2>5
<1> QED
  BY <1>2, <1>3

(* The blocks of a file hold as many bytes as the file has; those of an    *)
(* error code hold BLKSIZE.                                                *)
THEOREM CapacityIsTheSize ==
  /\ \A n \in FileSizes : Capacity(n) = n
  /\ \A n \in {-2, -1} : Capacity(n) = BlkSize
<1>1. ASSUME NEW n \in FileSizes PROVE Capacity(n) = n
  <2>1. /\ n \in Nat /\ BlkSize \in Nat /\ BlkSize > 0 /\ BlockCount(n) \in Nat
        /\ n <= BlockCount(n) * BlkSize
    BY IovecsAssumption, BlockCountOfFile DEF FileSizes
  <2>2. CASE BlockCount(n) = 0
    BY <2>1, <2>2 DEF Capacity
  <2>3. CASE BlockCount(n) > 0
    <3> DEFINE i == BlockCount(n) - 1
    <3>1. i \in Nat /\ i \in Blocks(n) /\ BlockCount(n) = i + 1
      BY <2>1, <2>3 DEF Blocks
    <3>2. i * BlkSize < n /\ IovLen(n, i) = Lesser(BlkSize, n - i * BlkSize)
      BY <3>1, IovLenOfFile
    <3>3. Capacity(n) = i * BlkSize + IovLen(n, i)
      BY <2>1, <2>3 DEF Capacity
    <3> HIDE DEF i
    <3>4. n <= i * BlkSize + BlkSize
      BY <2>1, <3>1
    <3> QED
      BY <2>1, <3>1, <3>2, <3>3, <3>4 DEF Lesser
  <2> QED
    BY <2>1, <2>2, <2>3
<1>2. ASSUME NEW n \in {-2, -1} PROVE Capacity(n) = BlkSize
  <2>1. (n - 0 * BlkSize) % SizeMod = SizeMod + n
    BY IovecsAssumption
  <2>2. IovLen(n, 0) = BlkSize
    BY <2>1, IovecsAssumption DEF IovLen, BytesLeft, Lesser
  <2> QED
    BY <2>2, BlockCountOfError, IovecsAssumption DEF Capacity
<1> QED
  BY <1>1, <1>2

LEMMA LandedType ==
  ASSUME NEW n \in Sizes, NEW got \in Nat, NEW i \in Nat
  PROVE  Landed(n, got, i) \in Nat
<1>1. i * BlkSize \in Nat /\ IovLen(n, i) \in Nat
  BY IovLenType, IovecsAssumption
<1> QED
  BY <1>1 DEF Landed, Lesser

(* Every block but the last is full. *)
LEMMA FullBlock ==
  ASSUME NEW n \in Sizes, NEW i \in Nat, i + 1 < BlockCount(n)
  PROVE  IovLen(n, i) = BlkSize
<1>1. n \in FileSizes /\ BlockCount(n) \in Nat
  BY BlockCountOfError, BlockCountType DEF Sizes
<1>2. (BlockCount(n) - 1) * BlkSize < n /\ i \in Blocks(n) /\ n \in Nat
  BY <1>1, BlockCountOfFile DEF Blocks, FileSizes
<1>3. (i + 1) * BlkSize <= (BlockCount(n) - 1) * BlkSize
  BY <1>1, IovecsAssumption
<1>4. (i + 1) * BlkSize = i * BlkSize + BlkSize
  BY IovecsAssumption
<1>5. i * BlkSize \in Nat /\ (BlockCount(n) - 1) * BlkSize \in Int
  BY <1>1, IovecsAssumption
<1>6. BlkSize < n - i * BlkSize
  BY <1>2, <1>3, <1>4, <1>5, IovecsAssumption
<1> QED
  BY <1>1, <1>2, <1>6, IovLenOfFile DEF Lesser

(* The lengths of the blocks of a plan add up to what it holds. *)
THEOREM LengthsAddUp ==
  ASSUME NEW n \in Sizes, NEW a \in Nat, NEW f,
         \A i \in 1 .. BlockCount(n) : f[a + i] = IovLen(n, i - 1)
  PROVE  SumFunctionOnSet(f, Span(a, BlockCount(n))) = Capacity(n)
<1> DEFINE N == BlockCount(n)
           F == [i \in 0 .. N |-> IF i = N THEN Capacity(n) ELSE i * BlkSize]
<1>1. N \in Nat /\ BlkSize \in Nat
  BY BlockCountType, IovecsAssumption
<1>2. \A i \in Nat : IovLen(n, i) \in Nat
  BY IovLenType
<1>3. N = 0 => Capacity(n) = 0
  BY DEF Capacity
<1>4. N # 0 => Capacity(n) = (N - 1) * BlkSize + IovLen(n, N - 1)
  BY DEF Capacity
<1>5. Capacity(n) \in Nat
  BY <1>1, <1>2, <1>3, <1>4
<1>6. \A i \in 0 .. N : F[i] \in Int
  BY <1>1, <1>5
<1>7. F[0] = 0 /\ F[N] = Capacity(n)
  BY <1>1, <1>3
<1>8. ASSUME NEW i \in 1 .. N PROVE f[a + i] = F[i] - F[i - 1]
  <2>1. i - 1 \in Nat /\ i - 1 # N /\ F[i - 1] = (i - 1) * BlkSize
    BY <1>1
  <2>2. (i - 1) * BlkSize \in Nat /\ i * BlkSize = (i - 1) * BlkSize + BlkSize
    BY <1>1
  <2>3. CASE i = N
    <3>1. f[a + i] = IovLen(n, i - 1) /\ IovLen(n, i - 1) \in Nat
      BY <1>2, <2>1
    <3>2. F[i] = (i - 1) * BlkSize + IovLen(n, i - 1)
      BY <1>1, <1>4, <1>7, <2>3
    <3> HIDE DEF F
    <3> QED
      BY <2>1, <2>2, <3>1, <3>2
  <2>4. CASE i # N
    <3>1. IovLen(n, i - 1) = BlkSize
      BY <1>1, <2>1, <2>4, FullBlock
    <3>2. F[i] = i * BlkSize
      BY <2>4
    <3> QED
      BY <1>1, <2>1, <2>2, <3>1, <3>2
  <2> QED
    BY <2>3, <2>4
<1> HIDE DEF F, N
<1>9. StepsOf(f, F, a, N)
  BY <1>6, <1>8 DEF StepsOf
<1>10. SumFunctionOnSet(f, Span(a, N)) = F[N] - F[0]
  BY <1>1, <1>9, SumOfSteps
<1> QED
  BY <1>5, <1>7, <1>10 DEF N

(* The bytes of a read that fits the plan all land in its blocks, and add  *)
(* up to the result of the read.                                           *)
THEOREM LandedAddsUp ==
  ASSUME NEW n \in Sizes, NEW a \in Nat, NEW f, NEW got \in 0 .. Capacity(n),
         \A i \in 1 .. BlockCount(n) : f[a + i] = Landed(n, got, i - 1)
  PROVE  SumFunctionOnSet(f, Span(a, BlockCount(n))) = got
<1> DEFINE N == BlockCount(n)
           F == [i \in 0 .. N |-> IF i = N THEN got ELSE Lesser(i * BlkSize, got)]
<1>1. N \in Nat /\ BlkSize \in Nat /\ got \in Nat
  BY BlockCountType, IovecsAssumption
<1>2. \A i \in Nat : IovLen(n, i) \in Nat /\ i * BlkSize \in Nat
  BY IovLenType, IovecsAssumption
<1>3. N = 0 => Capacity(n) = 0
  BY DEF Capacity
<1>4. N # 0 => Capacity(n) = (N - 1) * BlkSize + IovLen(n, N - 1)
  BY DEF Capacity
<1>5. Capacity(n) \in Nat /\ got <= Capacity(n)
  BY <1>1, <1>2, <1>3, <1>4
<1>6. \A i \in 0 .. N : F[i] \in Int
  BY <1>1, <1>2 DEF Lesser
<1>7. F[0] = 0 /\ F[N] = got
  BY <1>1, <1>3, <1>5 DEF Lesser
<1>8. ASSUME NEW i \in 1 .. N PROVE f[a + i] = F[i] - F[i - 1]
  <2>1. i - 1 \in Nat /\ i - 1 # N /\ F[i - 1] = Lesser((i - 1) * BlkSize, got)
    BY <1>1
  <2>2. (i - 1) * BlkSize \in Nat /\ i * BlkSize = (i - 1) * BlkSize + BlkSize
    BY <1>1
  <2>3. f[a + i] = IF got <= (i - 1) * BlkSize THEN 0
                   ELSE Lesser(got - (i - 1) * BlkSize, IovLen(n, i - 1))
    BY DEF Landed
  <2>4. CASE i = N
    <3> DEFINE b == (i - 1) * BlkSize
               l == IovLen(n, i - 1)
    <3>1. Capacity(n) = b + l /\ l \in Nat /\ b \in Nat
      BY <1>1, <1>2, <1>4, <2>1, <2>2, <2>4
    <3>2. F[i] = got
      BY <1>7, <2>4
    <3> HIDE DEF F, b, l
    <3>3. got <= b + l
      BY <1>5, <3>1
    <3>4. F[i - 1] = Lesser(b, got) /\ f[a + i] = IF got <= b THEN 0 ELSE Lesser(got - b, l)
      BY <2>1, <2>3 DEF b, l
    <3> QED
      BY <1>1, <3>1, <3>2, <3>3, <3>4 DEF Lesser
  <2>5. CASE i # N
    <3>1. IovLen(n, i - 1) = BlkSize
      BY <1>1, <2>1, <2>5, FullBlock
    <3>2. F[i] = Lesser(i * BlkSize, got)
      BY <2>5
    <3> QED
      BY <1>1, <2>1, <2>2, <2>3, <3>1, <3>2 DEF Lesser
  <2> QED
    BY <2>4, <2>5
<1> HIDE DEF F, N
<1>9. StepsOf(f, F, a, N)
  BY <1>6, <1>8 DEF StepsOf
<1>10. SumFunctionOnSet(f, Span(a, N)) = F[N] - F[0]
  BY <1>1, <1>9, SumOfSteps
<1> QED
  BY <1>1, <1>7, <1>10 DEF N

(* A read that ends in front of block N lands in the blocks before it, all *)
(* of which are full.                                                      *)
THEOREM LandedBeforeABlock ==
  ASSUME NEW n \in Sizes, NEW a \in Nat, NEW f, NEW N \in Nat, N < BlockCount(n),
         NEW got \in 0 .. N * BlkSize, \A i \in 1 .. N : f[a + i] = Landed(n, got, i - 1)
  PROVE  SumFunctionOnSet(f, Span(a, N)) = got
<1> DEFINE F == [i \in 0 .. N |-> Lesser(i * BlkSize, got)]
<1>1. BlkSize \in Nat /\ got \in Nat /\ N * BlkSize \in Nat /\ got <= N * BlkSize
  <2>1. BlkSize \in Nat /\ N * BlkSize \in Nat
    BY IovecsAssumption
  <2> QED
    BY <2>1
<1>2. BlockCount(n) \in Nat
  BY BlockCountType
<1>3. \A i \in 0 .. N : i * BlkSize \in Nat /\ F[i] = Lesser(i * BlkSize, got)
  BY <1>1
<1>4. \A i \in 0 .. N : F[i] \in Int
  BY <1>1, <1>3 DEF Lesser
<1>5. F[0] = 0 /\ F[N] = got
  <2>1. 0 * BlkSize = 0 /\ 0 \in 0 .. N /\ N \in 0 .. N
    BY <1>1
  <2> HIDE DEF F
  <2> QED
    BY <1>1, <1>3, <2>1 DEF Lesser
<1>6. ASSUME NEW i \in 1 .. N PROVE f[a + i] = F[i] - F[i - 1]
  <2>1. i - 1 \in Nat /\ i - 1 \in 0 .. N /\ i \in 0 .. N /\ (i - 1) + 1 < BlockCount(n)
    BY <1>2
  <2>2. /\ F[i - 1] = Lesser((i - 1) * BlkSize, got) /\ F[i] = Lesser(i * BlkSize, got)
        /\ IovLen(n, i - 1) = BlkSize
    BY <1>3, <2>1, FullBlock
  <2>3. (i - 1) * BlkSize \in Nat /\ i * BlkSize = (i - 1) * BlkSize + BlkSize
    BY <1>1
  <2>4. f[a + i] = IF got <= (i - 1) * BlkSize THEN 0
                   ELSE Lesser(got - (i - 1) * BlkSize, IovLen(n, i - 1))
    BY DEF Landed
  <2> HIDE DEF F
  <2> QED
    BY <1>1, <2>2, <2>3, <2>4 DEF Lesser
<1> HIDE DEF F
<1>7. StepsOf(f, F, a, N)
  BY <1>4, <1>6 DEF StepsOf
<1>8. SumFunctionOnSet(f, Span(a, N)) = F[N] - F[0]
  BY <1>7, SumOfSteps
<1> QED
  BY <1>1, <1>5, <1>8
=============================================================================
