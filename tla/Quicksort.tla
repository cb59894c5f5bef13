----------------------------- MODULE Quicksort -----------------------------
(***************************************************************************)
(* quicksort of 001pun.c: the recursion as a stack of the ranges that are  *)
(* still to be sorted, the partitioning of the topmost range as one step   *)
(* per round of its loop.                                                  *)
(***************************************************************************)
EXTENDS Integers, Sequences, FiniteSetsExt

CONSTANTS
  Length,  \* len: how many elements the array has
  Values   \* the elements it may hold

ASSUME QuicksortAssumption == Length \in Nat /\ Values \subseteq Int

VARIABLES
  input,  \* the array as it was passed
  ar,     \* the array now
  calls,  \* the calls of quicksort0 not returned from, innermost first
  loop    \* the locals of the innermost call, once it has entered its loop

vars == <<input, ar, calls, loop>>

Index == 0 .. Length - 1
Call(lo, hi) == [lo |-> lo, hi |-> hi]
Top  == Head(calls)
Idle == [on |-> FALSE, pivot |-> 0, i |-> 0, j |-> 0]

Init ==
  /\ input \in [Index -> Values] /\ ar = input
  /\ calls = <<Call(0, Length - 1)>>
  /\ loop = Idle

Return ==
  /\ calls # <<>> /\ ~loop.on /\ Top.lo >= Top.hi
  /\ calls' = Tail(calls)
  /\ UNCHANGED <<input, ar, loop>>

(* Mutant: j starts one past the end. *)
EnterPastEnd ==
  /\ calls # <<>> /\ ~loop.on /\ Top.lo < Top.hi
  /\ loop' = [on |-> TRUE, pivot |-> ar[Top.lo], i |-> Top.lo + 1, j |-> Top.hi + 1]
  /\ UNCHANGED <<input, ar, calls>>

Enter ==
  /\ calls # <<>> /\ ~loop.on /\ Top.lo < Top.hi
  /\ loop' = [on |-> TRUE, pivot |-> ar[Top.lo], i |-> Top.lo + 1, j |-> Top.hi]
  /\ UNCHANGED <<input, ar, calls>>

(* Where the two scans of a round stop: i at an element that is not less   *)
(* than the pivot, or at j; j at one that is not greater, or just below i. *)
ScanUp == Min({x \in loop.i .. loop.j : ar[x] >= loop.pivot \/ x = loop.j})

(* Mutant: the second scan stops before i. *)
ScanDownToI(i) == Max({x \in i .. loop.j : ar[x] <= loop.pivot \/ x = i})
ScanDown(i) == Max({x \in i - 1 .. loop.j : ar[x] <= loop.pivot \/ x = i - 1})

(* Mutant: the element at i is lost. *)
Overwritten(i, j) == [ar EXCEPT ![i] = ar[j]]
Swapped(i, j) == [ar EXCEPT ![i] = ar[j], ![j] = ar[i]]

Exchange ==
  /\ loop.on
  /\ LET i == ScanUp
         j == ScanDown(i)
     IN  /\ i < j
         /\ ar' = Swapped(i, j)
         /\ loop' = [loop EXCEPT !.i = i, !.j = j]
  /\ UNCHANGED <<input, calls>>

(* The pivot goes to its place; the calls on both sides of it follow.  The *)
(* mutant keeps the pivot in the second one.                               *)
PivotStays(j) == <<Call(Top.lo, j - 1), Call(j, Top.hi)>>
Sides(j)      == <<Call(Top.lo, j - 1), Call(j + 1, Top.hi)>>

Split ==
  /\ loop.on
  /\ LET i == ScanUp
         j == ScanDown(i)
     IN  /\ i >= j
         /\ ar' = Swapped(Top.lo, j)
         /\ calls' = Sides(j) \o Tail(calls)
  /\ loop' = Idle
  /\ UNCHANGED input

Done == calls = <<>> /\ UNCHANGED vars

Next == Return \/ Enter \/ Exchange \/ Split \/ Done

Spec == Init /\ [][Next]_vars

(* The program is sequential: it takes its next step. *)
FairSpec == Spec /\ WF_vars(Next)
-----------------------------------------------------------------------------
(* Properties. *)

TypeOK ==
  /\ input \in [Index -> Values] /\ ar \in [Index -> Values]
  /\ calls \in Seq([lo : Int, hi : Int])
  /\ loop \in [on : BOOLEAN, pivot : Int, i : Int, j : Int]

(* Both scans test an element before they test its index (lines 248, 249), *)
(* yet never read outside the range of their call.                         *)
ScansStayInside ==
  loop.on => Top.lo < loop.i /\ loop.i <= loop.j /\ loop.j <= Top.hi
             /\ {Top.lo, Top.hi} \subseteq Index

(* Two elements that no pending call has in its range together are already *)
(* in order: what the recursion relies on, and what makes the array sorted *)
(* when no call is left.                                                   *)
InOneCall(x, y) == \E c \in DOMAIN calls : calls[c].lo <= x /\ y <= calls[c].hi
SettledPairsAreOrdered ==
  \A x, y \in Index : x < y /\ ~InOneCall(x, y) => ar[x] <= ar[y]

(* The array holds the elements it was passed, each as often. *)
KeepsTheElements ==
  \A v \in Values :
    Cardinality({x \in Index : ar[x] = v}) = Cardinality({x \in Index : input[x] = v})

(* quicksort ends, unless a round swaps two elements equal to the pivot:   *)
(* that changes nothing and repeats for ever.  It takes an element that    *)
(* occurs three times.                                                     *)
Spinning ==
  loop.on /\ loop.i < loop.j /\ ar[loop.i] = loop.pivot /\ ar[loop.j] = loop.pivot
ThreeEqual == \E v \in Values : Cardinality({x \in Index : input[x] = v}) >= 3
EndsOrSpins == <>(calls = <<>>) \/ (ThreeEqual /\ <>[]Spinning)
=============================================================================
