----------------------------- MODULE ArrayLoops -----------------------------
(***************************************************************************)
(* The loops over arrays of 001pun.c: sum1 to sum4, search, findTwoLargest *)
(* and identity.  One of them is called, and p is where its pointer is.    *)
(***************************************************************************)
EXTENDS Integers

CONSTANTS
  MaxElement,  \* an array holds -MaxElement .. MaxElement
  MaxLen,      \* bound on its length
  MaxSide,     \* bound on the rows and columns of identity
  MaxInt       \* int holds -MaxInt - 1 .. MaxInt

ASSUME ArrayAssumption ==
  /\ MaxLen \in Nat /\ MaxInt \in Nat \ {0}
  /\ MaxElement \in 0 .. MaxInt /\ MaxSide \in 0 .. MaxInt

Elements == -MaxElement .. MaxElement
Ints == -MaxInt - 1 .. MaxInt

VARIABLES
  fn,   \* which function runs, "none" before the call
  a,    \* the array, from 0
  len,  \* its length: n, and n * m in identity
  p,    \* the element that the loop looks at next
  f,    \* sum; whether search found the key; f of findTwoLargest; i of identity
  s     \* the key; s of findTwoLargest; m of identity

arrayVars == <<fn, a, len, p, f, s>>

ArrayInit == fn = "none" /\ a = [i \in {} |-> 0] /\ len = 0 /\ p = 0 /\ f = 0 /\ s = 0

Arrays(n) == [0 .. n - 1 -> Elements]
Junk(n) == [i \in 0 .. n - 1 |-> 2]  \* neither of what identity writes

CallOn(name, n, param) ==
  /\ fn' = name /\ len' = n /\ p' = 0 /\ f' = 0 /\ s' = param

ArrayCall ==
  /\ fn = "none"
  /\ \/ \E n \in 0 .. MaxLen : a' \in Arrays(n) /\ CallOn("sum", n, 0)
     \/ \E n \in 0 .. MaxLen, key \in Elements : a' \in Arrays(n) /\ CallOn("search", n, key)
     \/ \E n \in 0 .. MaxLen : a' \in Arrays(n) /\ CallOn("findTwoLargest", n, 0)
     \/ \E n, m \in 0 .. MaxSide : a' = Junk(n * m) /\ CallOn("identity", n * m, m)

OneLess == p < len - 1  \* mutant
More == p < len
Loop(name) == fn = name /\ More
Advance == p' = p + 1 /\ UNCHANGED <<fn, len>>

(* A sum that does not fit an int is undefined in C: it may come out as    *)
(* any int.                                                                *)
IntSums(x, y) == IF x + y \in Ints THEN {x + y} ELSE Ints

SumStep == Loop("sum") /\ f' \in IntSums(f, a[p]) /\ Advance /\ UNCHANGED <<a, s>>

SearchStep ==
  /\ Loop("search") /\ UNCHANGED <<fn, a, len, s>>
  /\ IF a[p] = s THEN f' = 1 /\ p' = len
                 ELSE p' = p + 1 /\ UNCHANGED f

NewLargest(x) == f' = x /\ s' = s  \* mutant
Rise(x) == IF x > f THEN f' = x /\ s' = f ELSE s' = x /\ f' = f

TwoLargestStep ==
  /\ Loop("findTwoLargest") /\ Advance /\ UNCHANGED a
  /\ IF a[p] > s THEN Rise(a[p]) ELSE UNCHANGED <<f, s>>

RowLength(i) == IF i = s - 1 THEN 0 ELSE i + 1  \* mutant
Wrap(i) == IF i = s THEN 0 ELSE i + 1

IdentityStep ==
  /\ Loop("identity") /\ Advance /\ UNCHANGED s
  /\ a' = [a EXCEPT ![p] = IF f = 0 THEN 1 ELSE 0]
  /\ f' = Wrap(f)

ArrayNext == SumStep \/ SearchStep \/ TwoLargestStep \/ IdentityStep

Returned(name) == fn = name /\ ~More
-----------------------------------------------------------------------------
(* Properties. *)

ArrayTypeOK ==
  /\ fn \in {"none", "sum", "search", "findTwoLargest", "identity"}
  /\ len \in Nat /\ p \in 0 .. len
  /\ a \in [0 .. len - 1 -> Int] /\ f \in Ints /\ s \in Ints

(* The four sums are exact unless a sum of the first elements overflowed:  *)
(* then C promises nothing, not even when the whole sum fits an int.       *)
Exact[k \in Nat] == IF k = 0 THEN 0 ELSE Exact[k - 1] + a[k - 1]
FitsUpTo(n) == \A k \in 0 .. n : Exact[k] \in Ints
SumIsExact == Returned("sum") /\ FitsUpTo(len) => f = Exact[len]

(* At every element, findTwoLargest holds the two largest of what it has   *)
(* seen and of two zeros: negative numbers do not count, and a number that *)
(* occurs twice counts twice.                                              *)
TwoLargest ==
  fn = "findTwoLargest" =>
    /\ 0 <= s /\ s <= f
    /\ \A i \in 0 .. p - 1 : a[i] <= f
    /\ \A i, j \in 0 .. p - 1 : a[i] > s /\ a[j] > s => i = j
    /\ f # 0 => \E i \in 0 .. p - 1 : a[i] = f
    /\ s # 0 => \E i, j \in 0 .. p - 1 : i # j /\ a[i] = f /\ a[j] = s

(* identity counts to m + 1 between two ones and never looks at the rows:  *)
(* the result has its ones on the diagonal and nowhere else as long as     *)
(* there are at most m + 1 rows.                                           *)
IdentityWhenWide ==
  Returned("identity") /\ len <= (s + 1) * s =>
    \A i \in 0 .. len - 1 : a[i] = IF i \div s = i % s THEN 1 ELSE 0
=============================================================================
