----------------------------- MODULE ReadvFile -----------------------------
(***************************************************************************)
(* read_and_print_file_readv of files.c: a file is read with one readv     *)
(* into blocks of BlkSize bytes, printed and freed, call after call.       *)
(* Other processes may resize the file meanwhile.                          *)
(***************************************************************************)
EXTENDS Iovecs, Sequences, FiniteSetsExt

CONSTANTS
  Failures,     \* what may go wrong: "open", "stat", "malloc", "short", "io"
  MaxSize,      \* bound on the length of the file
  MaxChanges,   \* bound on how often it is resized
  IovMax,       \* readv takes at most that many vectors: 1024
  StackBlocks,  \* iovecs[block_cnt] of more elements overflows the stack
  FdLimit       \* descriptors the process may have

ASSUME ReadvAssumption ==
  /\ {MaxSize, MaxChanges, IovMax, StackBlocks, FdLimit} \subseteq Nat
  /\ MaxSize < SizeMod  \* a length is an off_t, which fits a size_t
  /\ Failures \subseteq {"open", "stat", "malloc", "short", "io"}

VARIABLES
  pc,     \* where the function is, or "returned", or "killed" by a fault
  file,   \* the length of the file and how often it was resized
  size,   \* filesize: what get_file_size returned
  nulls,  \* the blocks whose malloc returned NULL
  heap,   \* the blocks that are allocated
  got,    \* the result of readv
  out,    \* what was printed: one entry a block
  ret,    \* the value returned
  fds,    \* descriptors that are open
  served  \* history: how many calls opened the file

vars == <<pc, file, size, nulls, heap, got, out, ret, fds, served>>
descriptors == <<fds, served>>
May(failure) == failure \in Failures

Init ==
  /\ pc = "open"
  /\ file \in [len : 0 .. MaxSize, changes : {0}]
  /\ size = 0 /\ nulls = {} /\ heap = {} /\ got = 0 /\ out = <<>> /\ ret = 0
  /\ fds = 0 /\ served = 0

Open ==
  /\ pc = "open"
  /\ \/ (May("open") \/ fds = FdLimit) /\ pc' = "returned" /\ ret' = 1 /\ UNCHANGED descriptors
     \/ /\ fds < FdLimit /\ fds' = fds + 1 /\ served' = served + 1
        /\ pc' = "stat" /\ UNCHANGED ret
  /\ UNCHANGED <<file, size, nulls, heap, got, out>>

(* An empty file is turned away with the errors of get_file_size. *)
Stat ==
  /\ pc = "stat"
  /\ size' \in {file.len} \union (IF May("stat") THEN {-1, -2} ELSE {})
  /\ IF size' <= 0 THEN pc' = "returned" /\ ret' = -1
     ELSE /\ pc' = IF BlockCount(size') > StackBlocks THEN "killed" ELSE "allocate"
          /\ UNCHANGED ret
  /\ UNCHANGED <<file, nulls, heap, got, out, descriptors>>

Allocate ==
  /\ pc = "allocate" /\ pc' = "readv"
  /\ nulls' \in IF May("malloc") THEN SUBSET Blocks(size) ELSE {{}}
  /\ heap' = Blocks(size) \ nulls'
  /\ UNCHANGED <<file, size, got, out, ret, descriptors>>

(* The kernel fills the blocks up to the first NULL and fails if it can    *)
(* fill nothing because of it.                                             *)
Room == IF nulls = {} THEN Capacity(size) ELSE Min(nulls) * BlkSize
Results ==
  IF BlockCount(size) > IovMax \/ (0 \in nulls /\ file.len > 0) THEN {-1}
  ELSE LET most == Lesser(Room, file.len)
       IN  (IF May("short") THEN 0 .. most ELSE {most})
             \union (IF May("io") THEN {-1} ELSE {})

(* Mutants: a failed readv returns at once; its result is not looked at. *)
ReadvLeaves ==
  /\ pc = "readv"
  /\ got' \in Results
  /\ pc' = IF got' < 0 THEN "returned" ELSE "print"
  /\ ret' = IF got' < 0 THEN 1 ELSE 0
  /\ UNCHANGED <<file, size, nulls, heap, out, descriptors>>
ReadvUnchecked ==
  /\ pc = "readv" /\ pc' = "print"
  /\ got' \in Results
  /\ ret' = IF got' < 0 THEN 1 ELSE 0
  /\ UNCHANGED <<file, size, nulls, heap, out, descriptors>>

Readv ==
  /\ pc = "readv"
  /\ got' \in Results
  /\ pc' = IF got' < 0 THEN "free" ELSE "print"
  /\ ret' = IF got' < 0 THEN 1 ELSE 0
  /\ UNCHANGED <<file, size, nulls, heap, out, descriptors>>

(* Every block is printed whole, whatever readv returned; a NULL block is  *)
(* a fault.                                                                *)
Line(i) == [len |-> IovLen(size, i), got |-> Landed(size, got, i)]
PrintAll ==
  /\ pc = "print"
  /\ pc' = IF nulls = {} THEN "free" ELSE "killed"
  /\ out' = [i \in 1 .. (IF nulls = {} THEN BlockCount(size) ELSE Min(nulls)) |-> Line(i - 1)]
  /\ UNCHANGED <<file, size, nulls, heap, got, ret, descriptors>>

Free ==
  /\ pc = "free" /\ pc' = "returned"
  /\ heap' = heap \ Blocks(size)
  /\ UNCHANGED <<file, size, nulls, got, out, ret, descriptors>>

CallAgain ==
  /\ pc = "returned" /\ pc' = "open"
  /\ size' = 0 /\ nulls' = {} /\ got' = 0 /\ out' = <<>> /\ ret' = 0
  /\ UNCHANGED <<file, heap, descriptors>>

Ended == pc = "killed" /\ UNCHANGED vars

FileChanges ==
  /\ pc \notin {"returned", "killed"} /\ file.changes < MaxChanges
  /\ \E len \in 0 .. MaxSize \ {file.len} :
       file' = [len |-> len, changes |-> file.changes + 1]
  /\ UNCHANGED <<pc, size, nulls, heap, got, out, ret, descriptors>>

Next ==
  \/ Open \/ Stat \/ Allocate \/ Readv \/ PrintAll \/ Free
  \/ CallAgain \/ Ended \/ FileChanges

Spec == Init /\ [][Next]_vars
-----------------------------------------------------------------------------
(* Properties. *)

(* Every way to return frees every block, a failed readv included, and no  *)
(* way closes the file: each call that opened it took a descriptor for     *)
(* good, and the process is served as often as it may have descriptors.    *)
ReturnsHoldOnlyDescriptors ==
  pc = "returned" => heap = {} /\ fds = served /\ served <= FdLimit

(* A caller that gets an error can try again: nothing has been printed     *)
(* yet.  One that gets 0 has the whole of the size that was seen, which is *)
(* that of the file if nobody resized it, and as much of it comes from     *)
(* there as readv said.  One that gets neither had no memory, or a file of *)
(* more blocks than iovecs there is room for on the stack.                 *)
Total(field) == SumFunction([i \in DOMAIN out |-> out[i][field]])
OutputMatchesResult ==
  /\ pc = "returned" /\ ret # 0 => out = <<>>
  /\ pc = "returned" /\ ret = 0 =>
       /\ size > 0 /\ Total("len") = size /\ Total("got") = got
       /\ file.changes = 0 => size = file.len
  /\ pc = "killed" => nulls # {} \/ BlockCount(size) > StackBlocks
=============================================================================
