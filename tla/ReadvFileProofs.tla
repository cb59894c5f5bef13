-------------------------- MODULE ReadvFileProofs --------------------------
(***************************************************************************)
(* What a call of the readv reader leaves behind and what it has printed,  *)
(* for files of every length, every number of calls and every failure.     *)
(***************************************************************************)
EXTENDS ReadvFile, IovecsProofs

(* What the heap holds on the way: nothing until the blocks are allocated, *)
(* then blocks of this call only.                                          *)
HeapInv ==
  /\ pc \in {"open", "stat", "allocate", "readv", "print", "free", "returned", "killed"}
  /\ pc \in {"open", "stat", "allocate", "returned"} => heap = {}
  /\ pc \in {"readv", "print", "free"} => heap \subseteq Blocks(size)

FdInv == fds = served /\ fds \in Nat /\ fds <= FdLimit

(* Every return frees what was allocated, none closes the file, and no     *)
(* more calls are served than there are descriptors, for every limit.      *)
THEOREM ReturnsKeepDescriptors == Spec => []ReturnsHoldOnlyDescriptors
<1> DEFINE Inv == HeapInv /\ FdInv
<1>1. Init => Inv
  BY ReadvAssumption DEF Init, HeapInv, FdInv
<1>2. Inv /\ [Next]_vars => Inv'
  <2> SUFFICES ASSUME HeapInv, FdInv, [Next]_vars PROVE HeapInv' /\ FdInv'
    OBVIOUS
  <2>1. CASE Open
    BY <2>1, ReadvAssumption DEF Open, HeapInv, FdInv, descriptors
  <2>2. CASE Stat
    BY <2>2 DEF Stat, HeapInv, FdInv, descriptors
  <2>3. CASE Allocate
    BY <2>3 DEF Allocate, HeapInv, FdInv, descriptors
  <2>4. CASE Readv
    BY <2>4 DEF Readv, HeapInv, FdInv, descriptors
  <2>5. CASE PrintAll
    BY <2>5 DEF PrintAll, HeapInv, FdInv, descriptors
  <2>6. CASE Free
    BY <2>6 DEF Free, HeapInv, FdInv, descriptors
  <2>7. CASE CallAgain
    BY <2>7 DEF CallAgain, HeapInv, FdInv, descriptors
  <2>8. CASE FileChanges
    BY <2>8 DEF FileChanges, HeapInv, FdInv, descriptors
  <2>9. CASE Ended \/ UNCHANGED vars
    BY <2>9 DEF Ended, vars, HeapInv, FdInv
  <2> QED
    BY <2>1, <2>2, <2>3, <2>4, <2>5, <2>6, <2>7, <2>8, <2>9 DEF Next
<1>3. Inv => ReturnsHoldOnlyDescriptors
  BY DEF HeapInv, FdInv, ReturnsHoldOnlyDescriptors
<1> QED
  BY <1>1, <1>2, <1>3, PTL DEF Spec
-----------------------------------------------------------------------------
(* What has been printed. *)

(* A failed call has printed nothing, one that returned 0 has printed all  *)
(* the blocks of the size it saw, and only a NULL block or a file of more  *)
(* blocks than the stack holds make it fault.  What readv returned fits    *)
(* the blocks: that is what makes the bytes of the lines add up to it.     *)
PrintedBlocks ==
  /\ out = [i \in 1 .. BlockCount(size) |-> Line(i - 1)]
  /\ got \in 0 .. Capacity(size)
OutputOfResult ==
  /\ pc = "returned" /\ ret # 0 => out = <<>>
  /\ pc = "returned" /\ ret = 0 => /\ size \in FileSizes \ {0} /\ PrintedBlocks
                                   /\ (file.changes = 0 => size = file.len)
  /\ pc = "killed" => nulls # {} \/ BlockCount(size) > StackBlocks

OutInv ==
  /\ file = [len |-> file.len, changes |-> file.changes] /\ file.len \in 0 .. MaxSize
  /\ file.changes \in Nat
  /\ pc \in {"open", "stat", "allocate", "readv", "print"} => out = <<>>
  /\ pc \in {"open", "stat", "allocate", "print"} => ret = 0
  /\ pc \in {"allocate", "readv", "print", "free"} => size \in FileSizes \ {0}
  /\ pc \in {"allocate", "readv", "print", "free"} =>
       (file.changes = 0 => size = file.len)
  /\ pc = "print" /\ nulls = {} => got \in 0 .. Capacity(size)
  /\ pc = "free" => IF ret = 0 THEN PrintedBlocks ELSE out = <<>>

LEMMA LengthsAreSizes == \A n \in 0 .. MaxSize : n \in Nat /\ n \in FileSizes
BY ReadvAssumption, IovecsAssumption DEF FileSizes

(* The lines of a printed file add up to it. *)
LEMMA TotalsOfBlocks ==
  ASSUME size \in FileSizes, PrintedBlocks
  PROVE  Total("len") = size /\ Total("got") = got
<1> DEFINE n == BlockCount(size)
           lens == [i \in DOMAIN out |-> out[i].len]
           gots == [i \in DOMAIN out |-> out[i].got]
<1>1. size \in Sizes /\ n \in Nat
  BY BlockCountType DEF Sizes
<1>2. DOMAIN out = 1 .. n /\ \A i \in 1 .. n : out[i] = Line(i - 1)
  BY DEF PrintedBlocks
<1>3. /\ \A i \in 1 .. n : lens[0 + i] = IovLen(size, i - 1)
      /\ \A i \in 1 .. n : gots[0 + i] = Landed(size, got, i - 1)
  BY <1>1, <1>2 DEF Line
<1>4. Span(0, n) = DOMAIN out
  BY <1>1, <1>2 DEF Span
<1> HIDE DEF lens, gots
<1>5. SumFunctionOnSet(lens, Span(0, n)) = Capacity(size)
  BY <1>1, <1>3, LengthsAddUp
<1>6. SumFunctionOnSet(gots, Span(0, n)) = got
  BY <1>1, <1>3, LandedAddsUp DEF PrintedBlocks
<1>7. Capacity(size) = size
  BY CapacityIsTheSize
<1>8. DOMAIN lens = DOMAIN out /\ DOMAIN gots = DOMAIN out
  BY DEF lens, gots
<1>9. Total("len") = SumFunctionOnSet(lens, DOMAIN out)
  BY <1>8 DEF Total, SumFunction, lens
<1>10. Total("got") = SumFunctionOnSet(gots, DOMAIN out)
  BY <1>8 DEF Total, SumFunction, gots
<1> QED
  BY <1>4, <1>5, <1>6, <1>7, <1>9, <1>10

(* What a caller may conclude from the result: after an error nothing was  *)
(* printed, after 0 the whole of the size that was seen, with as many of   *)
(* its bytes from the file as readv said.                                  *)
THEOREM ResultTellsTheOutput == Spec => []OutputMatchesResult
<1> DEFINE Inv == OutInv /\ OutputOfResult
<1>1. Init => Inv
  <2> SUFFICES ASSUME Init PROVE Inv
    OBVIOUS
  <2>1. file \in [len : 0 .. MaxSize, changes : {0}] /\ MaxSize \in Nat
    BY ReadvAssumption DEF Init
  <2>2. file = [len |-> file.len, changes |-> file.changes] /\ file.len \in 0 .. MaxSize
        /\ file.changes \in Nat
    BY <2>1
  <2> QED
    BY <2>2 DEF Init, OutInv, OutputOfResult
<1>2. Inv /\ [Next]_vars => Inv'
  <2> SUFFICES ASSUME OutInv, OutputOfResult, [Next]_vars PROVE OutInv' /\ OutputOfResult'
    OBVIOUS
  <2>1. CASE Open
    BY <2>1 DEF Open, OutInv, OutputOfResult
  <2>2. CASE Stat
    <3>1. /\ pc = "stat" /\ file' = file /\ nulls' = nulls /\ out' = out
          /\ size' \in {file.len} \union {-1, -2}
      BY <2>2 DEF Stat
    <3>2. CASE size' <= 0
      <4>1. pc' = "returned" /\ ret' = -1
        BY <2>2, <3>2 DEF Stat
      <4> QED
        BY <3>1, <4>1 DEF OutInv, OutputOfResult
    <3>3. CASE ~(size' <= 0)
      <4>1. /\ pc' = IF BlockCount(size') > StackBlocks THEN "killed" ELSE "allocate"
            /\ ret' = ret
        BY <2>2, <3>3 DEF Stat
      <4>2. size' = file.len /\ size' \in FileSizes \ {0}
        BY <3>1, <3>3, LengthsAreSizes DEF OutInv
      <4>3. CASE BlockCount(size') > StackBlocks
        BY <3>1, <4>1, <4>2, <4>3 DEF OutInv, OutputOfResult
      <4>4. CASE ~(BlockCount(size') > StackBlocks)
        BY <3>1, <4>1, <4>2, <4>4 DEF OutInv, OutputOfResult
      <4> QED
        BY <4>3, <4>4
    <3> QED
      BY <3>2, <3>3
  <2>3. CASE Allocate
    BY <2>3 DEF Allocate, OutInv, OutputOfResult
  <2>4. CASE Readv
    <3>1. /\ pc = "readv" /\ UNCHANGED <<file, size, nulls, out>>
          /\ \/ pc' = "free" /\ ret' = 1
             \/ pc' = "print" /\ ret' = 0 /\ ~(got' < 0)
          /\ got' \in Results
      BY <2>4 DEF Readv
    <3>2. pc' = "print" /\ nulls = {} => got' \in 0 .. Capacity(size)
      <4>1. SUFFICES ASSUME pc' = "print", nulls = {} PROVE got' \in 0 .. Capacity(size)
        OBVIOUS
      <4>2. size \in FileSizes /\ size \in Nat /\ file.len \in Nat
        BY <3>1, LengthsAreSizes DEF OutInv, FileSizes
      <4>3. Capacity(size) = size
        BY <4>2, CapacityIsTheSize
      <4>4. Lesser(Room, file.len) \in Nat /\ Lesser(Room, file.len) <= Capacity(size)
        BY <4>1, <4>2, <4>3 DEF Room, Lesser
      <4>5. got' \in {-1} \union 0 .. Lesser(Room, file.len)
        BY <3>1, <4>4 DEF Results
      <4> QED
        BY <3>1, <4>1, <4>2, <4>3, <4>4, <4>5
    <3> QED
      BY <3>1, <3>2 DEF OutInv, OutputOfResult
  <2>5. CASE PrintAll
    <3>1. pc = "print" /\ UNCHANGED <<file, size, nulls, got, ret>>
      BY <2>5 DEF PrintAll
    <3>2. CASE nulls = {}
      <4>1. pc' = "free" /\ out' = [i \in 1 .. BlockCount(size) |-> Line(i - 1)]
        BY <2>5, <3>2 DEF PrintAll
      <4>2. PrintedBlocks'
        BY <3>1, <3>2, <4>1 DEF PrintedBlocks, Line, OutInv
      <4> QED
        BY <3>1, <4>1, <4>2 DEF OutInv, OutputOfResult
    <3>3. CASE nulls # {}
      <4>1. pc' = "killed"
        BY <2>5, <3>3 DEF PrintAll
      <4> QED
        BY <3>1, <3>3, <4>1 DEF OutInv, OutputOfResult
    <3> QED
      BY <3>2, <3>3
  <2>6. CASE Free
    <3>1. /\ pc = "free" /\ pc' = "returned" /\ UNCHANGED <<file, size, nulls, got, out, ret>>
      BY <2>6 DEF Free
    <3>2. PrintedBlocks' <=> PrintedBlocks
      BY <3>1 DEF PrintedBlocks, Line
    <3> QED
      BY <3>1, <3>2 DEF OutInv, OutputOfResult
  <2>7. CASE CallAgain
    BY <2>7 DEF CallAgain, OutInv, OutputOfResult
  <2>8. CASE FileChanges
    <3>1. /\ pc \notin {"returned", "killed"}
          /\ UNCHANGED <<pc, size, nulls, got, out, ret>>
      BY <2>8 DEF FileChanges
    <3>2. PICK len \in 0 .. MaxSize : file' = [len |-> len, changes |-> file.changes + 1]
      BY <2>8 DEF FileChanges
    <3>3. /\ file' = [len |-> file'.len, changes |-> file'.changes]
          /\ file'.len \in 0 .. MaxSize /\ file'.changes \in Nat \ {0}
      BY <3>2, ReadvAssumption DEF OutInv
    <3>4. PrintedBlocks' <=> PrintedBlocks
      BY <3>1 DEF PrintedBlocks, Line
    <3> QED
      BY <3>1, <3>3, <3>4 DEF OutInv, OutputOfResult
  <2>9. CASE Ended \/ UNCHANGED vars
    <3>1. UNCHANGED vars
      BY <2>9 DEF Ended
    <3>2. PrintedBlocks' <=> PrintedBlocks
      BY <3>1 DEF vars, PrintedBlocks, Line
    <3> QED
      BY <3>1, <3>2 DEF vars, OutInv, OutputOfResult
  <2> QED
    BY <2>1, <2>2, <2>3, <2>4, <2>5, <2>6, <2>7, <2>8, <2>9 DEF Next
<1>3. Inv => OutputMatchesResult
  <2>1. SUFFICES ASSUME OutputOfResult PROVE OutputMatchesResult
    OBVIOUS
  <2>2. pc = "returned" /\ ret = 0 => Total("len") = size /\ Total("got") = got /\ size > 0
    BY <2>1, TotalsOfBlocks DEF OutputOfResult, FileSizes
  <2> QED
    BY <2>1, <2>2 DEF OutputOfResult, OutputMatchesResult
<1> QED
  BY <1>1, <1>2, <1>3, PTL DEF Spec
=============================================================================
