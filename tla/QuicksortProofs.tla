-------------------------- MODULE QuicksortProofs --------------------------
(***************************************************************************)
(* quicksort sorts, if it ends, for every array of every length: its scans *)
(* stay in their range, its partitions order what the two calls that       *)
(* follow will not compare any more, and no element is lost.               *)
(***************************************************************************)
EXTENDS Quicksort, SequenceTheorems, FiniteSetTheorems, WellFoundedInduction,
        NaturalsInduction, TLAPS

LEMMA Bounds == Length \in Nat /\ Values \subseteq Int
BY QuicksortAssumption

(* Min and Max of a set of consecutive numbers' subset. *)
LEMMA LeastNatural ==
  ASSUME NEW U \in SUBSET Nat, U # {}
  PROVE  \E u \in U : \A v \in U : u <= v
<1>1. PICK u \in U : \A v \in U : ~(<<v, u>> \in OpToRel(<, Nat))
  BY NatLessThanWellFounded, WFMin
<1>2. ASSUME NEW v \in U PROVE u <= v
  <2>1. u \in Nat /\ v \in Nat
    OBVIOUS
  <2>2. (v < u) => <<v, u>> \in OpToRel(<, Nat)
    BY <2>1 DEF OpToRel
  <2>3. ~(v < u)
    BY <1>1, <2>2, Zenon
  <2> QED
    BY <2>1, <2>3
<1> QED
  BY <1>2

LEMMA LeastOf ==
  ASSUME NEW lo \in Int, NEW hi \in Int, NEW T \in SUBSET (lo .. hi), T # {}
  PROVE  Min(T) \in T /\ \A x \in T : Min(T) <= x
<1> DEFINE U == {x - lo : x \in T}
<1>1. U \in SUBSET Nat /\ U # {}
  <2>1. \A x \in T : x - lo \in Nat
    OBVIOUS
  <2> QED
    BY <2>1
<1>2. PICK m \in T : \A v \in U : m - lo <= v
  BY <1>1, LeastNatural
<1>3. \A x \in T : x - lo \in U /\ x \in Int
  OBVIOUS
<1> HIDE DEF U
<1>4. \A x \in T : m <= x
  BY <1>2, <1>3
<1> QED
  BY <1>4 DEF Min

LEMMA GreatestOf ==
  ASSUME NEW lo \in Int, NEW hi \in Int, NEW T \in SUBSET (lo .. hi), T # {}
  PROVE  Max(T) \in T /\ \A x \in T : Max(T) >= x
<1> DEFINE U == {hi - x : x \in T}
<1>1. U \in SUBSET Nat /\ U # {}
  <2>1. \A x \in T : hi - x \in Nat
    OBVIOUS
  <2> QED
    BY <2>1
<1>2. PICK m \in T : \A v \in U : hi - m <= v
  BY <1>1, LeastNatural
<1>3. \A x \in T : hi - x \in U /\ x \in Int
  OBVIOUS
<1> HIDE DEF U
<1>4. \A x \in T : m >= x
  BY <1>2, <1>3
<1> QED
  BY <1>4 DEF Max

-----------------------------------------------------------------------------
(* The invariant. *)

(* The ranges on the stack lie in the array, one behind the other. *)
StackOK ==
  /\ \A c \in DOMAIN calls :
       0 <= calls[c].lo /\ calls[c].hi < Length /\ calls[c].lo <= calls[c].hi + 1
  /\ \A c, d \in DOMAIN calls : c < d => calls[c].hi < calls[d].lo

(* What the rounds of a loop have done: elements in front of i are at most *)
(* the pivot, and those behind j at least.                                 *)
LoopOK ==
  loop.on =>
    /\ calls # <<>>
    /\ Top.lo < loop.i /\ loop.i <= loop.j /\ loop.j <= Top.hi
    /\ loop.pivot = ar[Top.lo]
    /\ \A x \in Top.lo + 1 .. loop.i - 1 : ar[x] <= loop.pivot
    /\ \A x \in loop.j + 1 .. Top.hi : ar[x] >= loop.pivot

QInv == TypeOK /\ StackOK /\ LoopOK

LEMMA Stack ==
  ASSUME QInv, calls # <<>>
  PROVE  /\ calls \in Seq([lo : Int, hi : Int]) /\ Len(calls) \in Nat \ {0}
         /\ DOMAIN calls = 1 .. Len(calls) /\ Top = calls[1] /\ 1 \in DOMAIN calls
         /\ Top.lo \in Nat /\ Top.hi \in Int /\ Top.hi < Length /\ Top.lo <= Top.hi + 1
         /\ Tail(calls) \in Seq([lo : Int, hi : Int])
         /\ Len(Tail(calls)) = Len(calls) - 1
         /\ \A c \in 1 .. Len(calls) - 1 : Tail(calls)[c] = calls[c + 1]
<1>1. calls \in Seq([lo : Int, hi : Int])
  BY DEF QInv, TypeOK
<1>2. /\ Len(calls) \in Nat \ {0} /\ DOMAIN calls = 1 .. Len(calls)
  BY <1>1, EmptySeq, LenProperties
<1>3. Top = calls[1] /\ 1 \in DOMAIN calls /\ calls[1] \in [lo : Int, hi : Int]
  <2>1. 1 \in 1 .. Len(calls)
    BY <1>2
  <2>2. calls[1] \in [lo : Int, hi : Int]
    BY <1>1, <2>1, ElementOfSeq
  <2> QED
    BY <1>1, <1>2, <2>1, <2>2 DEF Top
<1>4. 0 <= Top.lo /\ Top.lo \in Int /\ Top.hi \in Int /\ Top.hi < Length /\ Top.lo <= Top.hi + 1
  BY <1>3 DEF QInv, StackOK
<1>5. /\ Tail(calls) \in Seq([lo : Int, hi : Int]) /\ Len(Tail(calls)) = Len(calls) - 1
      /\ \A c \in 1 .. Len(Tail(calls)) : Tail(calls)[c] = calls[c + 1]
  BY <1>1, HeadTailProperties
<1> QED
  BY <1>1, <1>2, <1>3, <1>4, <1>5

(* What a round finds. *)
LEMMA Scans ==
  ASSUME QInv, loop.on, NEW i, i = ScanUp, NEW j, j = ScanDown(i)
  PROVE  /\ i \in loop.i .. loop.j /\ j \in i - 1 .. loop.j
         /\ \A x \in Top.lo + 1 .. i - 1 : ar[x] <= loop.pivot
         /\ \A x \in j + 1 .. Top.hi : ar[x] >= loop.pivot
         /\ i < j => ar[i] >= loop.pivot /\ ar[j] <= loop.pivot
         /\ i = j => ar[j] <= loop.pivot
<1>1. /\ loop.i \in Int /\ loop.j \in Int /\ loop.pivot \in Int
      /\ calls # <<>> /\ Top.lo < loop.i /\ loop.i <= loop.j /\ loop.j <= Top.hi
      /\ \A x \in Top.lo + 1 .. loop.i - 1 : ar[x] <= loop.pivot
      /\ \A x \in loop.j + 1 .. Top.hi : ar[x] >= loop.pivot
  BY DEF QInv, TypeOK, LoopOK
<1>2. Top.lo \in Nat /\ Top.hi \in Int /\ Top.hi < Length
  BY <1>1, Stack
<1>3. \A x \in Top.lo .. Top.hi : ar[x] \in Int
  <2>1. \A x \in Top.lo .. Top.hi : x \in Index
    BY <1>2, Bounds DEF Index
  <2> QED
    BY <2>1, Bounds DEF QInv, TypeOK
<1> DEFINE Ups == {x \in loop.i .. loop.j : ar[x] >= loop.pivot \/ x = loop.j}
<1>4. Ups # {} /\ Ups \in SUBSET (loop.i .. loop.j)
  BY <1>1
<1>5. i \in Ups /\ \A x \in Ups : i <= x
  <2>1. i = Min(Ups)
    BY DEF ScanUp
  <2> HIDE DEF Ups
  <2> QED
    <3>1. \A T \in SUBSET (loop.i .. loop.j) :
            T # {} => Min(T) \in T /\ \A x \in T : Min(T) <= x
      <4>1. loop.i \in Int /\ loop.j \in Int
        BY <1>1
      <4> QED
        BY <4>1, LeastOf
    <3> QED
      BY <3>1, <2>1, <1>4, Zenon
<1>6. i \in loop.i .. loop.j /\ (ar[i] >= loop.pivot \/ i = loop.j)
  BY <1>5
<1>7. \A x \in loop.i .. i - 1 : ar[x] <= loop.pivot
  <2> TAKE x \in loop.i .. i - 1
  <2>1. x \in loop.i .. loop.j /\ x \in Top.lo .. Top.hi /\ x # loop.j /\ ~(i <= x)
    BY <1>1, <1>2, <1>6
  <2>2. ~(ar[x] >= loop.pivot)
    BY <2>1, <1>5
  <2> QED
    BY <2>1, <2>2, <1>1, <1>3
<1>8. \A x \in Top.lo + 1 .. i - 1 : ar[x] <= loop.pivot
  <2> TAKE x \in Top.lo + 1 .. i - 1
  <2>1. x \in Top.lo + 1 .. loop.i - 1 \/ x \in loop.i .. i - 1
    BY <1>1, <1>2, <1>6
  <2> QED
    BY <2>1, <1>1, <1>7
<1> DEFINE Downs == {x \in i - 1 .. loop.j : ar[x] <= loop.pivot \/ x = i - 1}
<1>9. i \in Int /\ i - 1 \in Int /\ i - 1 \in i - 1 .. loop.j
  BY <1>1, <1>6
<1>10. Downs # {} /\ Downs \in SUBSET (i - 1 .. loop.j)
  BY <1>9
<1>11. j \in Downs /\ \A x \in Downs : j >= x
  <2>1. j = Max(Downs)
    BY DEF ScanDown
  <2> HIDE DEF Downs
  <2> QED
    BY <2>1, <1>1, <1>9, <1>10, GreatestOf
<1>12. j \in i - 1 .. loop.j /\ (ar[j] <= loop.pivot \/ j = i - 1)
  BY <1>11
<1>13. \A x \in j + 1 .. loop.j : ar[x] >= loop.pivot
  <2> TAKE x \in j + 1 .. loop.j
  <2>1. x \in i - 1 .. loop.j /\ x \in Top.lo .. Top.hi /\ x # i - 1 /\ ~(j >= x)
    BY <1>1, <1>2, <1>6, <1>9, <1>12
  <2>2. ~(ar[x] <= loop.pivot)
    BY <2>1, <1>11
  <2> QED
    BY <2>1, <2>2, <1>1, <1>3
<1>14. \A x \in j + 1 .. Top.hi : ar[x] >= loop.pivot
  <2> TAKE x \in j + 1 .. Top.hi
  <2>1. x \in j + 1 .. loop.j \/ x \in loop.j + 1 .. Top.hi
    BY <1>1, <1>2, <1>9, <1>12
  <2> QED
    BY <2>1, <1>1, <1>13
<1> HIDE DEF Ups, Downs
<1>15. i < j => ar[i] >= loop.pivot /\ ar[j] <= loop.pivot
  BY <1>1, <1>6, <1>9, <1>12
<1>16. ASSUME i = j PROVE ar[j] <= loop.pivot
  <2>1. \A y \in Int : y # y - 1
    OBVIOUS
  <2> QED
    BY <2>1, <1>9, <1>12, <1>16, Zenon
<1> QED
  BY <1>6, <1>8, <1>12, <1>14, <1>15, <1>16

(* The stack after a partition. *)
LEMMA SidesOfStack ==
  ASSUME QInv, calls # <<>>, NEW j \in Int
  PROVE  LET new == Sides(j) \o Tail(calls)
         IN  /\ new \in Seq([lo : Int, hi : Int])
             /\ DOMAIN new = 1 .. Len(calls) + 1
             /\ new[1] = Call(Top.lo, j - 1) /\ new[2] = Call(j + 1, Top.hi)
             /\ \A c \in 3 .. Len(calls) + 1 : new[c] = calls[c - 1]
<1> DEFINE new == Sides(j) \o Tail(calls)
           Ranges == [lo : Int, hi : Int]
<1>1. /\ Len(calls) \in Nat \ {0} /\ Top.lo \in Int /\ Top.hi \in Int
      /\ Tail(calls) \in Seq(Ranges) /\ Len(Tail(calls)) = Len(calls) - 1
      /\ \A c \in 1 .. Len(calls) - 1 : Tail(calls)[c] = calls[c + 1]
  BY Stack
<1>2. Call(Top.lo, j - 1) \in Ranges /\ Call(j + 1, Top.hi) \in Ranges
  BY <1>1 DEF Call
<1>3. /\ Sides(j) \in Seq(Ranges) /\ Len(Sides(j)) = 2
      /\ Sides(j)[1] = Call(Top.lo, j - 1) /\ Sides(j)[2] = Call(j + 1, Top.hi)
  BY <1>2 DEF Sides
<1> HIDE DEF Ranges
<1>4. /\ new \in Seq(Ranges) /\ Len(new) = Len(Sides(j)) + Len(Tail(calls))
      /\ \A c \in 1 .. Len(Sides(j)) + Len(Tail(calls)) :
           new[c] = IF c <= Len(Sides(j)) THEN Sides(j)[c] ELSE Tail(calls)[c - Len(Sides(j))]
  BY <1>1, <1>3, ConcatProperties
<1> HIDE DEF new
<1>5. Len(new) = Len(calls) + 1 /\ DOMAIN new = 1 .. Len(new)
  BY <1>1, <1>3, <1>4, LenProperties
<1>6. \A c \in 1 .. Len(calls) + 1 :
        new[c] = IF c <= 2 THEN Sides(j)[c] ELSE Tail(calls)[c - 2]
  BY <1>1, <1>3, <1>4
<1>7. 1 \in 1 .. Len(calls) + 1 /\ 2 \in 1 .. Len(calls) + 1
  BY <1>1
<1>8. new[1] = Sides(j)[1] /\ new[2] = Sides(j)[2]
  BY <1>6, <1>7
<1>9. \A c \in 3 .. Len(calls) + 1 : new[c] = calls[c - 1]
  <2> TAKE c \in 3 .. Len(calls) + 1
  <2>1. /\ c \in 1 .. Len(calls) + 1 /\ ~(c <= 2)
        /\ c - 2 \in 1 .. Len(calls) - 1 /\ c - 2 + 1 = c - 1
    BY <1>1
  <2>2. new[c] = Tail(calls)[c - 2]
    BY <2>1, <1>6
  <2> QED
    BY <2>1, <2>2, <1>1
<1> QED
  BY <1>3, <1>4, <1>5, <1>8, <1>9 DEF new, Ranges

(* Indices of the innermost range are indices of the array. *)
LEMMA TopInIndex ==
  ASSUME QInv, calls # <<>>
  PROVE  \A x \in Top.lo .. Top.hi : x \in Index /\ ar[x] \in Int /\ x \in Int
<1>1. \A x \in Top.lo .. Top.hi : x \in Index /\ x \in Int
  BY Stack, Bounds DEF Index
<1> QED
  BY <1>1, Bounds DEF QInv, TypeOK

LEMMA SwapTyped ==
  ASSUME QInv, NEW i \in Index, NEW j \in Index
  PROVE  /\ Swapped(i, j) \in [Index -> Values]
         /\ \A x \in Index : Swapped(i, j)[x] =
              IF x = j THEN ar[i] ELSE IF x = i THEN ar[j] ELSE ar[x]
<1>1. ar \in [Index -> Values]
  BY DEF QInv, TypeOK
<1> QED
  BY <1>1 DEF Swapped

LEMMA InitQInv == Init => QInv
<1> SUFFICES ASSUME Init PROVE QInv
  OBVIOUS
<1>1. /\ ar \in [Index -> Values] /\ input \in [Index -> Values] /\ loop = Idle
      /\ calls = <<Call(0, Length - 1)>>
  BY DEF Init
<1>2. Call(0, Length - 1) \in [lo : Int, hi : Int]
  BY Bounds DEF Call
<1>3. /\ calls \in Seq([lo : Int, hi : Int]) /\ DOMAIN calls = {1}
      /\ calls[1].lo = 0 /\ calls[1].hi = Length - 1
  BY <1>1, <1>2 DEF Call
<1>4. TypeOK
  BY <1>1, <1>3 DEF TypeOK, Idle
<1>5. StackOK
  BY <1>3, Bounds DEF StackOK
<1>6. LoopOK
  BY <1>1 DEF LoopOK, Idle
<1> QED
  BY <1>4, <1>5, <1>6 DEF QInv

LEMMA ReturnKeeps == QInv /\ Return => QInv'
<1> SUFFICES ASSUME QInv, Return PROVE QInv'
  OBVIOUS
<1>1. calls # <<>> /\ calls' = Tail(calls) /\ UNCHANGED <<input, ar, loop>> /\ ~loop.on
  BY DEF Return
<1>2. /\ Len(calls) \in Nat /\ DOMAIN calls = 1 .. Len(calls)
      /\ calls' \in Seq([lo : Int, hi : Int]) /\ Len(calls') = Len(calls) - 1
      /\ \A c \in 1 .. Len(calls) - 1 : calls'[c] = calls[c + 1]
  BY <1>1, Stack
<1>3. DOMAIN calls' = 1 .. Len(calls) - 1
  BY <1>2, LenProperties
<1>4. \A c \in DOMAIN calls' : calls'[c] = calls[c + 1] /\ c + 1 \in DOMAIN calls
  BY <1>2, <1>3
<1>5. StackOK'
  <2>1. \A c \in DOMAIN calls' :
          0 <= calls'[c].lo /\ calls'[c].hi < Length /\ calls'[c].lo <= calls'[c].hi + 1
    BY <1>4 DEF QInv, StackOK
  <2>2. ASSUME NEW c \in DOMAIN calls', NEW d \in DOMAIN calls', c < d
        PROVE  calls'[c].hi < calls'[d].lo
    <3>1. c \in Int /\ d \in Int /\ c + 1 \in DOMAIN calls /\ d + 1 \in DOMAIN calls
      BY <1>2, <1>3
    <3>2. c + 1 < d + 1
      BY <2>2, <3>1
    <3> QED
      BY <3>1, <3>2, <1>4 DEF QInv, StackOK
  <2> QED
    BY <2>1, <2>2 DEF StackOK
<1>6. TypeOK'
  BY <1>1, <1>2 DEF QInv, TypeOK
<1>7. LoopOK'
  BY <1>1 DEF LoopOK
<1> QED
  BY <1>5, <1>6, <1>7 DEF QInv

LEMMA EnterKeeps == QInv /\ Enter => QInv'
<1> SUFFICES ASSUME QInv, Enter PROVE QInv'
  OBVIOUS
<1>1. /\ calls # <<>> /\ Top.lo < Top.hi /\ UNCHANGED <<input, ar, calls>>
      /\ loop' = [on |-> TRUE, pivot |-> ar[Top.lo], i |-> Top.lo + 1, j |-> Top.hi]
  BY DEF Enter
<1>2. Top.lo \in Nat /\ Top.hi \in Int /\ Top' = Top
  BY <1>1, Stack DEF Top
<1>3. ar[Top.lo] \in Int
  <2>1. Top.lo \in Top.lo .. Top.hi
    BY <1>1, <1>2
  <2> QED
    BY <2>1, <1>1, TopInIndex
<1>4. TypeOK'
  BY <1>1, <1>2, <1>3 DEF QInv, TypeOK
<1>5. StackOK'
  BY <1>1 DEF QInv, StackOK
<1>6. LoopOK'
  <2>1. /\ loop'.i = Top.lo + 1 /\ loop'.j = Top.hi /\ loop'.pivot = ar[Top.lo]
    BY <1>1
  <2>2. /\ Top.lo < Top.lo + 1 /\ Top.lo + 1 <= Top.hi /\ Top.hi <= Top.hi
        /\ Top.lo + 1 .. (Top.lo + 1) - 1 = {} /\ Top.hi + 1 .. Top.hi = {}
    BY <1>1, <1>2
  <2> QED
    BY <2>1, <2>2, <1>1, <1>2 DEF LoopOK
<1> QED
  BY <1>4, <1>5, <1>6 DEF QInv

LEMMA ExchangeKeeps == QInv /\ Exchange => QInv'
<1> SUFFICES ASSUME QInv, Exchange PROVE QInv'
  OBVIOUS
<1>1. PICK i, j : i = ScanUp /\ j = ScanDown(i)
  OBVIOUS
<1>2. /\ loop.on /\ i < j /\ ar' = Swapped(i, j) /\ loop' = [loop EXCEPT !.i = i, !.j = j]
      /\ UNCHANGED <<input, calls>>
  BY <1>1 DEF Exchange
<1>3. /\ i \in loop.i .. loop.j /\ j \in i - 1 .. loop.j
      /\ \A x \in Top.lo + 1 .. i - 1 : ar[x] <= loop.pivot
      /\ \A x \in j + 1 .. Top.hi : ar[x] >= loop.pivot
  BY <1>1, <1>2, Scans
<1>4. /\ loop.i \in Int /\ loop.j \in Int /\ calls # <<>> /\ loop.pivot = ar[Top.lo]
      /\ Top.lo < loop.i /\ loop.j <= Top.hi
      /\ loop \in [on : BOOLEAN, pivot : Int, i : Int, j : Int]
  BY <1>2 DEF QInv, LoopOK, TypeOK
<1>5. Top.lo \in Nat /\ Top.hi \in Int /\ Top' = Top
  BY <1>2, <1>4, Stack DEF Top
<1>6. /\ i \in Int /\ j \in Int /\ Top.lo < i /\ j <= Top.hi /\ i <= j
      /\ i \in Top.lo .. Top.hi /\ j \in Top.lo .. Top.hi /\ Top.lo \in Top.lo .. Top.hi
  BY <1>2, <1>3, <1>4, <1>5
<1>7. i \in Index /\ j \in Index /\ Top.lo \in Index
  BY <1>4, <1>6, TopInIndex
<1>8. /\ ar' \in [Index -> Values]
      /\ \A x \in Index : x # i /\ x # j => ar'[x] = ar[x]
  BY <1>2, <1>7, SwapTyped
<1>9. \A x \in Top.lo .. Top.hi : x < i \/ x > j => ar'[x] = ar[x]
  <2> TAKE x \in Top.lo .. Top.hi
  <2>1. x \in Index /\ x \in Int
    BY <1>4, TopInIndex
  <2> QED
    BY <2>1, <1>2, <1>6, <1>8
<1>10. TypeOK'
  BY <1>2, <1>4, <1>6, <1>8 DEF QInv, TypeOK
<1>11. StackOK'
  BY <1>2 DEF QInv, StackOK
<1>12. LoopOK'
  <2>1. loop'.i = i /\ loop'.j = j /\ loop'.pivot = loop.pivot
    BY <1>2, <1>4
  <2>2. ar'[Top.lo] = loop.pivot
    BY <1>4, <1>5, <1>6, <1>9
  <2>3. \A x \in Top.lo + 1 .. i - 1 : ar'[x] <= loop.pivot
    <3> TAKE x \in Top.lo + 1 .. i - 1
    <3>1. x \in Top.lo .. Top.hi /\ x < i
      BY <1>5, <1>6
    <3> QED
      BY <3>1, <1>3, <1>9
  <2>4. \A x \in j + 1 .. Top.hi : ar'[x] >= loop.pivot
    <3> TAKE x \in j + 1 .. Top.hi
    <3>1. x \in Top.lo .. Top.hi /\ x > j
      BY <1>5, <1>6
    <3> QED
      BY <3>1, <1>3, <1>9
  <2> QED
    BY <2>1, <2>2, <2>3, <2>4, <1>2, <1>4, <1>5, <1>6 DEF LoopOK
<1> QED
  BY <1>10, <1>11, <1>12 DEF QInv

(* What a partition leaves: the pivot at j, nothing greater in front of it *)
(* and nothing less behind it.                                             *)
LEMMA Partitioned ==
  ASSUME QInv, Split
  PROVE  \E j \in Top.lo .. Top.hi :
           /\ calls # <<>> /\ ar' = Swapped(Top.lo, j) /\ calls' = Sides(j) \o Tail(calls)
           /\ Top.lo \in Index /\ j \in Index
           /\ \A x \in Top.lo .. j : ar'[x] <= ar'[j]
           /\ \A x \in j .. Top.hi : ar'[j] <= ar'[x]
<1>1. PICK i, j : i = ScanUp /\ j = ScanDown(i)
  OBVIOUS
<1>2. /\ loop.on /\ i >= j /\ ar' = Swapped(Top.lo, j) /\ calls' = Sides(j) \o Tail(calls)
  BY <1>1 DEF Split
<1>3. /\ i \in loop.i .. loop.j /\ j \in i - 1 .. loop.j
      /\ \A x \in Top.lo + 1 .. i - 1 : ar[x] <= loop.pivot
      /\ \A x \in j + 1 .. Top.hi : ar[x] >= loop.pivot
      /\ i = j => ar[j] <= loop.pivot
  BY <1>1, <1>2, Scans
<1>4. /\ loop.i \in Int /\ loop.j \in Int /\ calls # <<>> /\ loop.pivot = ar[Top.lo]
      /\ Top.lo < loop.i /\ loop.j <= Top.hi
  BY <1>2 DEF QInv, LoopOK, TypeOK
<1>5. Top.lo \in Nat /\ Top.hi \in Int
  BY <1>4, Stack
<1>6. /\ i \in Int /\ j \in Int /\ Top.lo <= j /\ j <= Top.hi /\ (j = i \/ j = i - 1)
      /\ j \in Top.lo .. Top.hi /\ Top.lo \in Top.lo .. Top.hi
  BY <1>2, <1>3, <1>4, <1>5
<1>7. Top.lo \in Index /\ j \in Index
  BY <1>4, <1>6, TopInIndex
<1>8. \A x \in Index : ar'[x] = IF x = j THEN ar[Top.lo] ELSE IF x = Top.lo THEN ar[j] ELSE ar[x]
  BY <1>2, <1>7, SwapTyped
<1>9. \A x \in Top.lo .. Top.hi : x \in Index /\ x \in Int /\ ar[x] \in Int
  BY <1>4, TopInIndex
<1> DEFINE p == loop.pivot
<1>10. p = ar[Top.lo] /\ p \in Int
  BY <1>4, <1>6, <1>9
<1> HIDE DEF p
<1>11. \A x \in Top.lo + 1 .. j : ar[x] <= p
  <2> TAKE x \in Top.lo + 1 .. j
  <2>1. x \in Top.lo + 1 .. i - 1 \/ (x = j /\ i = j)
    BY <1>5, <1>6
  <2> QED
    BY <2>1, <1>3 DEF p
<1>12. \A x \in j + 1 .. Top.hi : p <= ar[x]
  <2> TAKE x \in j + 1 .. Top.hi
  <2>1. x \in Top.lo .. Top.hi /\ ar[x] >= p
    BY <1>3, <1>5, <1>6 DEF p
  <2> QED
    BY <2>1, <1>9, <1>10
<1>13. ar'[j] = p /\ p <= p
  BY <1>7, <1>8, <1>10
<1>14. \A x \in Top.lo .. j : ar'[x] <= p
  <2> TAKE x \in Top.lo .. j
  <2>1. x \in Index /\ x \in Int
    BY <1>5, <1>6, <1>9
  <2>2. CASE x = j
    BY <2>2, <1>13
  <2>3. CASE x # j /\ x = Top.lo
    <3>1. ar'[x] = ar[j] /\ j \in Top.lo + 1 .. j
      BY <2>1, <2>3, <1>5, <1>6, <1>8
    <3> QED
      BY <3>1, <1>11
  <2>4. CASE x # j /\ x # Top.lo
    <3>1. ar'[x] = ar[x] /\ x \in Top.lo + 1 .. j
      BY <2>1, <2>4, <1>5, <1>6, <1>8
    <3> QED
      BY <3>1, <1>11
  <2> QED
    BY <2>2, <2>3, <2>4
<1>15. \A x \in j .. Top.hi : p <= ar'[x]
  <2> TAKE x \in j .. Top.hi
  <2>1. x \in Index /\ x \in Int
    BY <1>5, <1>6, <1>9
  <2>2. CASE x = j
    BY <2>2, <1>13
  <2>3. CASE x # j
    <3>1. ar'[x] = ar[x] /\ x \in j + 1 .. Top.hi
      BY <2>1, <2>3, <1>5, <1>6, <1>8
    <3> QED
      BY <3>1, <1>12
  <2> QED
    BY <2>2, <2>3
<1>16. /\ \A x \in Top.lo .. j : ar'[x] <= ar'[j]
       /\ \A x \in j .. Top.hi : ar'[j] <= ar'[x]
  BY <1>13, <1>14, <1>15, Zenon
<1> QED
  BY <1>2, <1>4, <1>6, <1>7, <1>16, Zenon

LEMMA SplitKeeps == QInv /\ Split => QInv'
<1> SUFFICES ASSUME QInv, Split PROVE QInv'
  OBVIOUS
<1>1. PICK j \in Top.lo .. Top.hi :
        /\ calls # <<>> /\ ar' = Swapped(Top.lo, j) /\ calls' = Sides(j) \o Tail(calls)
        /\ Top.lo \in Index /\ j \in Index
  BY Partitioned
<1>2. /\ Top.lo \in Nat /\ Top.hi \in Int /\ Top.hi < Length
      /\ Len(calls) \in Nat \ {0} /\ DOMAIN calls = 1 .. Len(calls) /\ calls[1] = Top
  BY <1>1, Stack
<1>3. j \in Int /\ Top.lo <= j /\ j <= Top.hi
  BY <1>2
<1> DEFINE new == Sides(j) \o Tail(calls)
<1>4. /\ new \in Seq([lo : Int, hi : Int]) /\ DOMAIN new = 1 .. Len(calls) + 1
      /\ new[1] = Call(Top.lo, j - 1) /\ new[2] = Call(j + 1, Top.hi)
      /\ \A c \in 3 .. Len(calls) + 1 : new[c] = calls[c - 1]
  BY <1>1, <1>3, SidesOfStack
<1>41. calls' = new
  BY <1>1
<1> HIDE DEF new
<1>42. /\ calls' \in Seq([lo : Int, hi : Int]) /\ DOMAIN calls' = 1 .. Len(calls) + 1
       /\ calls'[1].lo = Top.lo /\ calls'[1].hi = j - 1
       /\ calls'[2].lo = j + 1 /\ calls'[2].hi = Top.hi
       /\ \A c \in 3 .. Len(calls) + 1 : calls'[c] = calls[c - 1]
  BY <1>4, <1>41 DEF Call
<1>43. calls \in Seq([lo : Int, hi : Int])
  BY <1>1, Stack
<1>5. \A c \in 3 .. Len(calls) + 1 :
        /\ calls'[c] = calls[c - 1] /\ c - 1 \in DOMAIN calls /\ Top.hi < calls'[c].lo
        /\ calls'[c].lo \in Int /\ c \in Int
  <2> TAKE c \in 3 .. Len(calls) + 1
  <2>1. /\ c \in Int /\ c - 1 \in 1 .. Len(calls) /\ 1 \in 1 .. Len(calls) /\ 1 < c - 1
    BY <1>2
  <2>2. calls'[c] = calls[c - 1]
    BY <1>42
  <2>3. calls[c - 1] \in [lo : Int, hi : Int]
    BY <2>1, <1>43, ElementOfSeq
  <2>4. calls[1].hi < calls[c - 1].lo
    BY <2>1, <1>2 DEF QInv, StackOK
  <2> QED
    BY <2>1, <2>2, <2>3, <2>4, <1>2
<1>6. StackOK'
  <2>1. ASSUME NEW c \in DOMAIN calls'
        PROVE  0 <= calls'[c].lo /\ calls'[c].hi < Length /\ calls'[c].lo <= calls'[c].hi + 1
    <3>1. c = 1 \/ c = 2 \/ c \in 3 .. Len(calls) + 1
      BY <1>42
    <3>2. CASE c = 1
      BY <3>2, <1>2, <1>3, <1>42, Bounds
    <3>3. CASE c = 2
      BY <3>3, <1>2, <1>3, <1>42
    <3>4. CASE c \in 3 .. Len(calls) + 1
      BY <3>4, <1>5 DEF QInv, StackOK
    <3> QED
      BY <3>1, <3>2, <3>3, <3>4
  <2>2. ASSUME NEW c \in DOMAIN calls', NEW d \in DOMAIN calls', c < d
        PROVE  calls'[c].hi < calls'[d].lo
    <3>0. c \in 1 .. Len(calls) + 1 /\ d \in 1 .. Len(calls) + 1
      BY <1>42
    <3>1. /\ c \in Int /\ d \in Int
          /\ c = 1 \/ c = 2 \/ c \in 3 .. Len(calls) + 1
          /\ d = 2 \/ d \in 3 .. Len(calls) + 1
      BY <2>2, <3>0, <1>2
    <3>2. CASE d = 2
      <4>1. c = 1
        BY <3>1, <3>2, <2>2
      <4> QED
        BY <4>1, <3>2, <1>3, <1>42
    <3>3. CASE d \in 3 .. Len(calls) + 1 /\ c \notin 3 .. Len(calls) + 1
      <4>1. (c = 1 \/ c = 2) /\ Top.hi < calls'[d].lo /\ calls'[d].lo \in Int
        BY <3>1, <3>3, <1>5
      <4>2. CASE c = 1
        <5>1. calls'[c].hi = j - 1
          BY <4>2, <1>42
        <5> QED
          BY <5>1, <4>1, <1>2, <1>3
      <4>3. CASE c = 2
        BY <4>1, <4>3, <1>2, <1>42
      <4> QED
        BY <4>1, <4>2, <4>3
    <3>4. CASE d \in 3 .. Len(calls) + 1 /\ c \in 3 .. Len(calls) + 1
      <4>1. /\ c - 1 < d - 1 /\ c - 1 \in DOMAIN calls /\ d - 1 \in DOMAIN calls
            /\ calls'[c] = calls[c - 1] /\ calls'[d] = calls[d - 1]
        BY <2>2, <3>1, <3>4, <1>5
      <4> QED
        BY <4>1 DEF QInv, StackOK
    <3> QED
      BY <3>1, <3>2, <3>3, <3>4
  <2> QED
    BY <2>1, <2>2 DEF StackOK
<1>7. TypeOK'
  <2>1. ar' \in [Index -> Values]
    BY <1>1, SwapTyped
  <2>2. loop' \in [on : BOOLEAN, pivot : Int, i : Int, j : Int]
    BY DEF Split, Idle
  <2>3. input' \in [Index -> Values]
    BY DEF Split, QInv, TypeOK
  <2> QED
    BY <2>1, <2>2, <2>3, <1>42 DEF TypeOK
<1>8. LoopOK'
  BY DEF Split, Idle, LoopOK
<1> QED
  BY <1>6, <1>7, <1>8 DEF QInv

LEMMA StepKeepsQInv == QInv /\ [Next]_vars => QInv'
<1>1. QInv /\ UNCHANGED vars => QInv'
  BY DEF vars, QInv, TypeOK, StackOK, LoopOK, Top
<1> QED
  BY <1>1, ReturnKeeps, EnterKeeps, ExchangeKeeps, SplitKeeps DEF Next, Done

(* ScansStayInside of Quicksort, for arrays of every length: no comparison *)
(* of quicksort0 is outside of its range.                                  *)
THEOREM ScansAreInside == Spec => []ScansStayInside
<1>1. QInv => ScansStayInside
  <2> SUFFICES ASSUME QInv, loop.on
               PROVE  /\ Top.lo < loop.i /\ loop.i <= loop.j /\ loop.j <= Top.hi
                      /\ {Top.lo, Top.hi} \subseteq Index
    BY DEF ScansStayInside
  <2>1. /\ calls # <<>> /\ Top.lo < loop.i /\ loop.i <= loop.j /\ loop.j <= Top.hi
        /\ loop.i \in Int /\ loop.j \in Int
    BY DEF QInv, LoopOK, TypeOK
  <2>2. Top.lo \in Nat /\ Top.hi \in Int
    BY <2>1, Stack
  <2>3. Top.lo \in Top.lo .. Top.hi /\ Top.hi \in Top.lo .. Top.hi
    BY <2>1, <2>2
  <2> QED
    BY <2>1, <2>3, TopInIndex
<1> QED
  BY <1>1, InitQInv, StepKeepsQInv, PTL DEF Spec
-----------------------------------------------------------------------------
(* Pairs of elements. *)

(* A pair with one element outside of the innermost range is in no call    *)
(* together: the ranges are apart.                                         *)
LEMMA ApartFromTop ==
  ASSUME QInv, calls # <<>>, NEW x \in Index, NEW y \in Index, x < y,
         ~(x \in Top.lo .. Top.hi /\ y \in Top.lo .. Top.hi),
         x \in Top.lo .. Top.hi \/ y \in Top.lo .. Top.hi
  PROVE  ~InOneCall(x, y)
<1>1. /\ Top.lo \in Int /\ Top.hi \in Int /\ Top = calls[1] /\ 1 \in DOMAIN calls
      /\ DOMAIN calls = 1 .. Len(calls) /\ calls \in Seq([lo : Int, hi : Int])
  BY Stack
<1>2. x \in Int /\ y \in Int
  BY DEF Index
<1>3. ASSUME NEW c \in DOMAIN calls, calls[c].lo <= x, y <= calls[c].hi
      PROVE  FALSE
  <2>1. CASE c = 1
    BY <2>1, <1>1, <1>2, <1>3
  <2>2. CASE c # 1
    <3>0. c \in 1 .. Len(calls) /\ Len(calls) \in Nat
      BY <1>1, Stack
    <3>1. c \in Int /\ 1 < c
      BY <3>0, <2>2
    <3>4. calls[c] \in [lo : Int, hi : Int]
      BY <3>0, <1>1, ElementOfSeq
    <3>2. Top.hi < calls[c].lo
      BY <3>1, <1>1 DEF QInv, StackOK
    <3>3. calls[c].lo \in Int
      BY <3>4
    <3> QED
      BY <3>2, <3>3, <1>1, <1>2, <1>3
  <2> QED
    BY <2>1, <2>2
<1> QED
  BY <1>3 DEF InOneCall

(* Swapping two elements of the innermost range leaves in order what was   *)
(* in order with an element outside of it.                                 *)
LEMMA SwapKeepsSettled ==
  ASSUME QInv, calls # <<>>, SettledPairsAreOrdered,
         NEW i \in Top.lo .. Top.hi, NEW j \in Top.lo .. Top.hi, ar' = Swapped(i, j),
         NEW x \in Index, NEW y \in Index, x < y, ~InOneCall(x, y),
         ~(x \in Top.lo .. Top.hi /\ y \in Top.lo .. Top.hi)
  PROVE  ar'[x] <= ar'[y]
<1>1. i \in Index /\ j \in Index /\ Top.lo \in Int /\ Top.hi \in Int
  BY TopInIndex, Stack
<1>2. \A z \in Index : ar'[z] = IF z = j THEN ar[i] ELSE IF z = i THEN ar[j] ELSE ar[z]
  BY <1>1, SwapTyped
<1>3. x \in Int /\ y \in Int
  BY DEF Index
<1>4. CASE x \notin Top.lo .. Top.hi /\ y \notin Top.lo .. Top.hi
  <2>1. ar'[x] = ar[x] /\ ar'[y] = ar[y]
    BY <1>2, <1>4
  <2> QED
    BY <2>1 DEF SettledPairsAreOrdered
<1>5. CASE x \in Top.lo .. Top.hi /\ y \notin Top.lo .. Top.hi
  <2>1. ar'[y] = ar[y]
    BY <1>2, <1>5
  <2>2. PICK z \in Top.lo .. Top.hi : ar'[x] = ar[z]
    BY <1>2, <1>5
  <2>3. z \in Index /\ z < y
    BY <1>1, <1>3, <1>5, TopInIndex
  <2>4. ~InOneCall(z, y)
    BY <2>3, <1>5, ApartFromTop
  <2> QED
    BY <2>1, <2>2, <2>3, <2>4 DEF SettledPairsAreOrdered
<1>6. CASE x \notin Top.lo .. Top.hi /\ y \in Top.lo .. Top.hi
  <2>1. ar'[x] = ar[x]
    BY <1>2, <1>6
  <2>2. PICK z \in Top.lo .. Top.hi : ar'[y] = ar[z]
    BY <1>2, <1>6
  <2>3. z \in Index /\ x < z
    BY <1>1, <1>3, <1>6, TopInIndex
  <2>4. ~InOneCall(x, z)
    BY <2>3, <1>6, ApartFromTop
  <2> QED
    BY <2>1, <2>2, <2>3, <2>4 DEF SettledPairsAreOrdered
<1> QED
  BY <1>4, <1>5, <1>6

LEMMA InitSettled == Init => SettledPairsAreOrdered
<1> SUFFICES ASSUME Init, NEW x \in Index, NEW y \in Index PROVE InOneCall(x, y)
  BY DEF SettledPairsAreOrdered
<1>1. DOMAIN calls = {1} /\ calls[1].lo = 0 /\ calls[1].hi = Length - 1
  BY DEF Init, Call
<1>2. 0 <= x /\ y <= Length - 1
  BY Bounds DEF Index
<1> QED
  BY <1>1, <1>2 DEF InOneCall

LEMMA ReturnKeepsSettled ==
  QInv /\ SettledPairsAreOrdered /\ Return => SettledPairsAreOrdered'
<1> SUFFICES ASSUME QInv, SettledPairsAreOrdered, Return,
                    NEW x \in Index, NEW y \in Index, x < y, ~InOneCall(x, y)'
             PROVE  ar'[x] <= ar'[y]
  BY DEF SettledPairsAreOrdered
<1>1. calls # <<>> /\ Top.lo >= Top.hi /\ calls' = Tail(calls) /\ ar' = ar
  BY DEF Return
<1>2. /\ Len(calls) \in Nat \ {0} /\ DOMAIN calls = 1 .. Len(calls) /\ Top = calls[1]
      /\ Top.lo \in Int /\ Top.hi \in Int
      /\ calls' \in Seq([lo : Int, hi : Int]) /\ Len(calls') = Len(calls) - 1
      /\ \A c \in 1 .. Len(calls) - 1 : calls'[c] = calls[c + 1]
  BY <1>1, Stack
<1>3. DOMAIN calls' = 1 .. Len(calls) - 1
  BY <1>2, LenProperties
<1>4. x \in Int /\ y \in Int
  BY DEF Index
<1>5. ASSUME NEW c \in DOMAIN calls, calls[c].lo <= x, y <= calls[c].hi
      PROVE  FALSE
  <2>1. CASE c = 1
    BY <2>1, <1>1, <1>2, <1>4, <1>5
  <2>2. CASE c # 1
    <3>1. c - 1 \in 1 .. Len(calls) - 1 /\ (c - 1) + 1 = c
      BY <2>2, <1>2
    <3>2. calls'[c - 1] = calls[c] /\ c - 1 \in DOMAIN calls'
      BY <3>1, <1>2, <1>3
    <3> QED
      BY <3>2, <1>5 DEF InOneCall
  <2> QED
    BY <2>1, <2>2
<1> QED
  BY <1>1, <1>5 DEF SettledPairsAreOrdered, InOneCall

LEMMA ExchangeKeepsSettled ==
  QInv /\ SettledPairsAreOrdered /\ Exchange => SettledPairsAreOrdered'
<1> SUFFICES ASSUME QInv, SettledPairsAreOrdered, Exchange,
                    NEW x \in Index, NEW y \in Index, x < y, ~InOneCall(x, y)'
             PROVE  ar'[x] <= ar'[y]
  BY DEF SettledPairsAreOrdered
<1>1. PICK i, j : i = ScanUp /\ j = ScanDown(i)
  OBVIOUS
<1>2. loop.on /\ i < j /\ ar' = Swapped(i, j) /\ calls' = calls
  BY <1>1 DEF Exchange
<1>3. i \in loop.i .. loop.j /\ j \in i - 1 .. loop.j
  BY <1>1, <1>2, Scans
<1>4. /\ loop.i \in Int /\ loop.j \in Int /\ calls # <<>>
      /\ Top.lo < loop.i /\ loop.j <= Top.hi
  BY <1>2 DEF QInv, LoopOK, TypeOK
<1>5. Top.lo \in Int /\ Top.hi \in Int /\ Top = calls[1] /\ 1 \in DOMAIN calls
  BY <1>4, Stack
<1>6. i \in Top.lo .. Top.hi /\ j \in Top.lo .. Top.hi
  BY <1>2, <1>3, <1>4, <1>5
<1>7. ~InOneCall(x, y)
  BY <1>2 DEF InOneCall
<1>8. ~(x \in Top.lo .. Top.hi /\ y \in Top.lo .. Top.hi)
  BY <1>5, <1>7 DEF InOneCall
<1> QED
  BY <1>2, <1>4, <1>6, <1>7, <1>8, SwapKeepsSettled

LEMMA SplitKeepsSettled ==
  QInv /\ SettledPairsAreOrdered /\ Split => SettledPairsAreOrdered'
<1> SUFFICES ASSUME QInv, SettledPairsAreOrdered, Split,
                    NEW x \in Index, NEW y \in Index, x < y, ~InOneCall(x, y)'
             PROVE  ar'[x] <= ar'[y]
  BY DEF SettledPairsAreOrdered
<1>1. PICK j \in Top.lo .. Top.hi :
        /\ calls # <<>> /\ ar' = Swapped(Top.lo, j) /\ calls' = Sides(j) \o Tail(calls)
        /\ \A z \in Top.lo .. j : ar'[z] <= ar'[j]
        /\ \A z \in j .. Top.hi : ar'[j] <= ar'[z]
        /\ Top.lo \in Index /\ j \in Index
  BY Partitioned
<1>2. /\ Top.lo \in Int /\ Top.hi \in Int /\ Len(calls) \in Nat \ {0}
      /\ DOMAIN calls = 1 .. Len(calls) /\ calls[1] = Top
  BY <1>1, Stack
<1>3. j \in Int /\ x \in Int /\ y \in Int /\ Top.lo \in Top.lo .. Top.hi
  BY <1>2 DEF Index
<1> DEFINE new == Sides(j) \o Tail(calls)
<1>4. /\ DOMAIN new = 1 .. Len(calls) + 1
      /\ new[1] = Call(Top.lo, j - 1) /\ new[2] = Call(j + 1, Top.hi)
      /\ \A c \in 3 .. Len(calls) + 1 : new[c] = calls[c - 1]
  BY <1>1, <1>3, SidesOfStack
<1>5. calls' = new
  BY <1>1
<1> HIDE DEF new
<1>6. /\ DOMAIN calls' = 1 .. Len(calls) + 1
      /\ calls'[1].lo = Top.lo /\ calls'[1].hi = j - 1
      /\ calls'[2].lo = j + 1 /\ calls'[2].hi = Top.hi
      /\ \A c \in 3 .. Len(calls) + 1 : calls'[c] = calls[c - 1]
  BY <1>4, <1>5 DEF Call
<1>7. 1 \in DOMAIN calls' /\ 2 \in DOMAIN calls'
  BY <1>2, <1>6
<1>8. CASE x \in Top.lo .. Top.hi /\ y \in Top.lo .. Top.hi
  <2>1. ~(y <= j - 1) /\ ~(j + 1 <= x)
    BY <1>2, <1>3, <1>6, <1>7, <1>8 DEF InOneCall
  <2>2. x \in Top.lo .. j /\ y \in j .. Top.hi
    BY <2>1, <1>2, <1>3, <1>8
  <2>3. ar'[x] <= ar'[j] /\ ar'[j] <= ar'[y]
    BY <2>2, <1>1
  <2>4. ar'[x] \in Int /\ ar'[y] \in Int /\ ar'[j] \in Int
    <3>1. ar' \in [Index -> Values]
      BY <1>1, SwapTyped
    <3> QED
      BY <3>1, <1>1, Bounds
  <2> QED
    BY <2>3, <2>4
<1>9. CASE ~(x \in Top.lo .. Top.hi /\ y \in Top.lo .. Top.hi)
  <2>1. ASSUME NEW c \in DOMAIN calls, calls[c].lo <= x, y <= calls[c].hi
        PROVE  FALSE
    <3>1. CASE c = 1
      BY <3>1, <2>1, <1>2, <1>3, <1>9
    <3>2. CASE c # 1
      <4>1. c + 1 \in 3 .. Len(calls) + 1 /\ (c + 1) - 1 = c
        BY <3>2, <1>2
      <4>2. calls'[c + 1] = calls[c] /\ c + 1 \in DOMAIN calls'
        BY <4>1, <1>2, <1>6
      <4> QED
        BY <4>2, <2>1 DEF InOneCall
    <3> QED
      BY <3>1, <3>2
  <2>2. ~InOneCall(x, y)
    BY <2>1 DEF InOneCall
  <2> QED
    BY <2>2, <1>1, <1>3, <1>9, SwapKeepsSettled
<1> QED
  BY <1>8, <1>9

(* SettledPairsAreOrdered of Quicksort, for arrays of every length: two    *)
(* elements that no pending call has in its range are in order.            *)
THEOREM SettledPairsStayOrdered == Spec => []SettledPairsAreOrdered
<1>1. QInv /\ SettledPairsAreOrdered /\ [Next]_vars => SettledPairsAreOrdered'
  <2>1. UNCHANGED vars /\ SettledPairsAreOrdered => SettledPairsAreOrdered'
    BY DEF vars, SettledPairsAreOrdered, InOneCall
  <2>2. Enter /\ SettledPairsAreOrdered => SettledPairsAreOrdered'
    BY DEF Enter, SettledPairsAreOrdered, InOneCall
  <2> QED
    BY <2>1, <2>2, ReturnKeepsSettled, ExchangeKeepsSettled, SplitKeepsSettled DEF Next, Done
<1> QED
  BY <1>1, InitQInv, InitSettled, StepKeepsQInv, PTL DEF Spec

(* When the first call has returned, the array is sorted. *)
Sorted == \A x, y \in Index : x < y => ar[x] <= ar[y]
THEOREM ArrayIsSorted == Spec => [](calls = <<>> => Sorted)
<1>1. SettledPairsAreOrdered /\ calls = <<>> => Sorted
  BY DEF SettledPairsAreOrdered, InOneCall, Sorted
<1> QED
  BY <1>1, SettledPairsStayOrdered, PTL

-----------------------------------------------------------------------------
(* No element is lost. *)
Places(a, v) == {x \in Index : a[x] = v}

LEMMA SwapKeepsPlaces ==
  ASSUME QInv, NEW i \in Index, NEW j \in Index, NEW v
  PROVE  Cardinality(Places(Swapped(i, j), v)) = Cardinality(Places(ar, v))
<1> DEFINE S == Places(ar, v)
           T == Places(Swapped(i, j), v)
           o == [x \in Index |-> IF x = i THEN j ELSE IF x = j THEN i ELSE x]
           f == [x \in S |-> o[x]]
<1>1. IsFiniteSet(S)
  <2>1. IsFiniteSet(Index)
    <3>1. 0 \in Int /\ Length - 1 \in Int
      BY Bounds
    <3> QED
      BY <3>1, FS_Interval DEF Index
  <2> QED
    BY <2>1, FS_Subset DEF Places
<1>2. \A x \in Index : Swapped(i, j)[x] = IF x = j THEN ar[i] ELSE IF x = i THEN ar[j] ELSE ar[x]
  BY SwapTyped
<1>3. \A x \in Index : o[x] \in Index /\ o[o[x]] = x /\ Swapped(i, j)[x] = ar[o[x]]
  BY <1>2
<1> HIDE DEF o
<1>4. \A x \in S : x \in Index /\ o[x] \in T
  BY <1>3 DEF Places
<1>5. \A x \in T : o[x] \in S /\ o[o[x]] = x
  BY <1>3 DEF Places
<1>6. \A x, y \in S : o[x] = o[y] => x = y
  <2>1. \A x \in S : o[o[x]] = x
    BY <1>3, <1>4
  <2> QED
    BY <2>1
<1> HIDE DEF S, T
<1>7. f \in [S -> T] /\ (\A x, y \in S : f[x] = f[y] => x = y) /\ (\A y \in T : \E x \in S : f[x] = y)
  BY <1>4, <1>5, <1>6
<1>8. ExistsBijection(S, T)
  BY <1>7 DEF ExistsBijection, Bijection, Injection, Surjection, IsInjective
<1> QED
  BY <1>1, <1>8, FS_Bijection DEF S, T

(* KeepsTheElements of Quicksort, for arrays of every length. *)
THEOREM NoElementIsLost == Spec => []KeepsTheElements
<1>1. QInv /\ KeepsTheElements /\ [Next]_vars => KeepsTheElements'
  <2> SUFFICES ASSUME QInv, KeepsTheElements, [Next]_vars, NEW v \in Values
               PROVE  Cardinality(Places(ar', v)) = Cardinality(Places(input', v))
    BY DEF KeepsTheElements, Places
  <2>1. Cardinality(Places(ar, v)) = Cardinality(Places(input, v))
    BY DEF KeepsTheElements, Places
  <2>2. input' = input
    BY DEF Next, vars, Return, Enter, Exchange, Split, Done
  <2>3. ar' = ar \/ \E i, j \in Index : ar' = Swapped(i, j)
    <3>1. CASE Exchange
      <4>1. PICK i, j : i = ScanUp /\ j = ScanDown(i)
        OBVIOUS
      <4>2. loop.on /\ i < j /\ ar' = Swapped(i, j)
        BY <3>1, <4>1 DEF Exchange
      <4>3. i \in loop.i .. loop.j /\ j \in i - 1 .. loop.j
        BY <4>1, <4>2, Scans
      <4>4. /\ loop.i \in Int /\ loop.j \in Int /\ calls # <<>>
            /\ Top.lo < loop.i /\ loop.j <= Top.hi
        BY <4>2 DEF QInv, LoopOK, TypeOK
      <4>5. Top.lo \in Int /\ Top.hi \in Int
        BY <4>4, Stack
      <4>6. i \in Top.lo .. Top.hi /\ j \in Top.lo .. Top.hi
        BY <4>2, <4>3, <4>4, <4>5
      <4>7. i \in Index /\ j \in Index
        BY <4>4, <4>6, TopInIndex
      <4> QED
        BY <4>2, <4>7
    <3>2. CASE Split
      BY <3>2, Partitioned
    <3>3. CASE Return \/ Enter \/ Done \/ UNCHANGED vars
      BY <3>3 DEF Return, Enter, Done, vars
    <3> QED
      BY <3>1, <3>2, <3>3 DEF Next
  <2>4. Cardinality(Places(ar', v)) = Cardinality(Places(ar, v))
    BY <2>3, SwapKeepsPlaces
  <2> QED
    BY <2>1, <2>2, <2>4
<1>2. Init => KeepsTheElements
  BY DEF Init, KeepsTheElements
<1> QED
  BY <1>1, <1>2, InitQInv, StepKeepsQInv, PTL DEF Spec
=============================================================================
