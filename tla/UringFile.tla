----------------------------- MODULE UringFile -----------------------------
(***************************************************************************)
(* The program of files.c: main opens a file, maps an io_uring, queues a   *)
(* vectored read of the whole file (submitToSq) and prints the completions *)
(* it finds in the completion queue (readFromCq).  The kernel's half of    *)
(* the ring, the file and malloc are external, modelled from how files.c   *)
(* uses them.                                                              *)
(*                                                                         *)
(* main queues one read (Submits = 1).  Larger values are a client of the  *)
(* same functions that queues several before it drains the ring.           *)
(***************************************************************************)
EXTENDS Iovecs, Sequences, FiniteSetsExt

CONSTANTS
  Submits,      \* how many times the program calls submitToSq
  Kinds,        \* what the file may be: a subset of {"reg", "blk", "other"}
  MaxSize,      \* the longest file, in bytes
  MaxChanges,   \* how often another process resizes the file
  Failures,     \* the failures of the environment that are considered
  RaceOutcomes  \* what the unsynchronised loads of readFromCq may do

ASSUME UringAssumption ==
  /\ Submits \in Nat \ {0}
  /\ Kinds \subseteq {"reg", "blk", "other"}
  /\ MaxSize \in Nat /\ MaxSize < SizeMod
  /\ MaxChanges \in Nat
  /\ Failures \subseteq {"open", "map", "malloc", "enter", "signal", "short", "io"}
  /\ RaceOutcomes \subseteq {"hoisted", "stale"}

Reqs      == 1 .. Submits
TwoSqEntries == 2  \* mutant
SqEntries == 1
CqEntries == 2 * SqEntries

VARIABLES
  pc,       \* where the main thread is
  file,     \* [kind, len, changes]: the file, resized by other processes
  fd, maps, \* whether open succeeded; which of the three mmaps did
  call,     \* how many calls of submitToSq were made
  plan,     \* per read: the size seen, the mallocs that returned NULL
  entered,  \* per read: what io_uring_enter returned
  heap,     \* the chunks that are allocated
  sq, cq,   \* the two rings; cq.old: what each slot held before;
            \* cq.synced: the tail when io_uring_enter last returned
  kernel,   \* reads taken from the SQ, still running, done but without room
  landed,   \* per read: how many bytes the kernel wrote to its buffers
  printed, out \* the reads written to stdout, and the blocks written

env     == <<file, fd, maps>>
request == <<call, plan, entered>>
output  == <<printed, out>>
vars    == <<pc, env, request, heap, sq, cq, kernel, landed, output>>
-----------------------------------------------------------------------------
(* One read owns the table of iovecs its SQE points at, the iovec_array    *)
(* its user_data points at, and one buffer per block.                      *)
Chunk(k, part, i) == [req |-> k, part |-> part, blk |-> i]
Table(k)          == Chunk(k, "iovecs", 0)
ArrayOf(k)        == Chunk(k, "iovec_array", 0)
Buffers(k, size)  == {Chunk(k, "buffer", i) : i \in Blocks(size)}
Parts(k, size)    == {Table(k), ArrayOf(k)} \union Buffers(k, size)

Cqe(k, res) == [user |-> k, res |-> res]   \* user_data 0: the zeroed ring

Init ==
  /\ pc = "open"
  /\ file \in [kind : Kinds, len : 0 .. MaxSize, changes : {0}]
  /\ fd = FALSE /\ maps = {}
  /\ call = 0
  /\ plan = [k \in Reqs |-> [size |-> 0, nulls |-> {}]]
  /\ entered = [k \in Reqs |-> "not yet"]
  /\ heap = {}
  /\ sq = [head |-> 0, tail |-> 0, sqes |-> [s \in 0 .. SqEntries - 1 |-> 0]]
  /\ LET empty == [s \in 0 .. CqEntries - 1 |-> Cqe(0, 0)]
     IN  cq = [head |-> 0, tail |-> 0, cqes |-> empty, old |-> empty, synced |-> 0]
  /\ kernel = [taken |-> {}, inflight |-> {}, overflow |-> {}]
  /\ landed = [k \in Reqs |-> 0]
  /\ printed = {} /\ out = <<>>
-----------------------------------------------------------------------------
(* main and prepare_io_uring. *)

(* An open that failed is reported, and main goes on with the bad fd. *)
Open ==
  /\ pc = "open" /\ pc' = "prepare"
  /\ fd' \in (IF "open" \in Failures THEN BOOLEAN ELSE {TRUE})
  /\ UNCHANGED <<file, maps, request, heap, sq, cq, kernel, landed, output>>

(* mmap reports failure as MAP_FAILED; print_err is given pointer == NULL. *)
MapResults == {"address"} \union (IF "map" \in Failures THEN {"MAP_FAILED"} ELSE {})
Rejected(pointer) == pointer = "NULL"

SetupFails ==
  /\ pc = "prepare" /\ "map" \in Failures
  /\ pc' = "exit 5"
  /\ UNCHANGED <<env, request, heap, sq, cq, kernel, landed, output>>

Prepare ==
  /\ pc = "prepare"
  /\ \E got \in [{"sq", "sqes", "cq"} -> MapResults] :
       /\ maps' = {m \in DOMAIN got : got[m] = "address"}
       /\ pc' = IF \E m \in DOMAIN got : Rejected(got[m]) THEN "exit 5" ELSE "submit"
  /\ UNCHANGED <<file, fd, request, heap, sq, cq, kernel, landed, output>>
-----------------------------------------------------------------------------
(* submitToSq. *)

(* What get_file_size may return: -1 for what is no file or block device. *)
SizesSeen ==
  CASE ~fd \/ file.kind = "other" -> {-1}
    [] fd /\ file.kind = "reg"    -> {file.len}
    [] fd /\ file.kind = "blk"    -> {file.len, -2}

Refusals(k, size) == IF "malloc" \in Failures THEN SUBSET Parts(k, size) ELSE {{}}

(* A NULL table or iovec_array is written through, and so is an SQ that is *)
(* not mapped; a NULL buffer is only stored in its iovec.                  *)
WriteFaults(k, size, nulls) ==
  \/ Table(k) \in nulls /\ BlockCount(size) > 0
  \/ ArrayOf(k) \in nulls
  \/ ~({"sq", "sqes"} \subseteq maps)

(* Mutant: the table is freed once its address is in the SQE. *)
SubmitFreesTable(k, size, nulls) ==
  /\ pc = "submit" /\ k = call + 1
  /\ ~WriteFaults(k, size, nulls)
  /\ call' = k
  /\ plan' = [plan EXCEPT ![k] = [size |-> size, nulls |-> nulls]]
  /\ heap' = heap \union (Parts(k, size) \ (nulls \union {Table(k)}))
  /\ sq' = [sq EXCEPT !.sqes[sq.tail % SqEntries] = k, !.tail = @ + 1]
  /\ pc' = "enter"
  /\ UNCHANGED <<env, entered, cq, kernel, landed, output>>

SubmitToSq(k, size, nulls) ==
  /\ pc = "submit" /\ k = call + 1
  /\ ~WriteFaults(k, size, nulls)
  /\ call' = k
  /\ plan' = [plan EXCEPT ![k] = [size |-> size, nulls |-> nulls]]
  /\ heap' = heap \union (Parts(k, size) \ nulls)
  /\ sq' = [sq EXCEPT !.sqes[sq.tail % SqEntries] = k, !.tail = @ + 1]
  /\ pc' = "enter"
  /\ UNCHANGED <<env, entered, cq, kernel, landed, output>>

SubmitCrash(k, size, nulls) ==
  /\ pc = "submit" /\ k = call + 1
  /\ WriteFaults(k, size, nulls)
  /\ pc' = "handler"
  /\ UNCHANGED <<env, request, heap, sq, cq, kernel, landed, output>>

(* io_uring_enter(ring, 1, 1, GETEVENTS) consumes the oldest entry ... *)
EnterTakes ==
  /\ pc = "enter" /\ sq.head # sq.tail
  /\ LET k == sq.sqes[sq.head % SqEntries]
     IN  kernel' = [kernel EXCEPT !.taken = @ \union {k}, !.inflight = @ \union {k}]
  /\ sq' = [sq EXCEPT !.head = @ + 1]
  /\ pc' = "wait"
  /\ UNCHANGED <<env, request, heap, cq, landed, output>>

(* ... and submitToSq returns, whatever the result; main then reads the CQ. *)
EnterReturns(result) ==
  /\ entered' = [entered EXCEPT ![call] = result]
  /\ cq' = [cq EXCEPT !.synced = cq.tail]
  /\ pc' = IF call < Submits THEN "submit" ELSE "poll"
  /\ UNCHANGED <<env, call, plan, heap, sq, kernel, landed, output>>

NoMinComplete == 0  \* mutant
MinComplete == 1
EnterFails == pc = "enter" /\ "enter" \in Failures /\ EnterReturns("failed")
WaitDone   == pc = "wait" /\ cq.tail - cq.head >= MinComplete /\ EnterReturns("done")
WaitCut    == pc = "wait" /\ "signal" \in Failures /\ EnterReturns("cut")
-----------------------------------------------------------------------------
(* The kernel and the other users of the file. *)

Running == pc \notin {"exit 0", "exit 5", "exit 139", "undefined"}

FileChanges(len) ==
  /\ Running /\ file.kind = "reg" /\ file.changes < MaxChanges /\ len # file.len
  /\ file' = [file EXCEPT !.len = len, !.changes = @ + 1]
  /\ UNCHANGED <<pc, fd, maps, request, heap, sq, cq, kernel, landed, output>>

NullBlocks(k) == {i \in Blocks(plan[k].size) : Chunk(k, "buffer", i) \in plan[k].nulls}
FirstNull(k)  == CHOOSE i \in NullBlocks(k) : \A j \in NullBlocks(k) : i <= j

(* The most a read can transfer: the copy stops at a NULL buffer. *)
Readable(k) ==
  LET room == IF NullBlocks(k) = {} THEN Capacity(plan[k].size)
                                    ELSE FirstNull(k) * BlkSize
  IN  IF file.kind = "other" THEN room ELSE Lesser(file.len, room)

(* The result of the read; -1 stands for every negative errno. *)
Results(k) ==
  IF ~fd \/ (0 \in NullBlocks(k) /\ ~(file.kind # "other" /\ file.len = 0)) THEN {-1}
  ELSE (IF "short" \in Failures \/ file.kind = "other" THEN 0 .. Readable(k)
                                                       ELSE {Readable(k)})
       \union (IF "io" \in Failures THEN {-1} ELSE {})

(* The end of a read: its CQE goes to the ring or, without room, to a      *)
(* backlog that only a later io_uring_enter could flush.                   *)
Complete(k, res) ==
  /\ Running /\ k \in kernel.inflight
  /\ landed' = [landed EXCEPT ![k] = IF res < 0 THEN 0 ELSE res]
  /\ LET slot == cq.tail % CqEntries IN
     IF kernel.overflow = {} /\ cq.tail - cq.head < CqEntries
       THEN /\ cq' = [cq EXCEPT !.tail = @ + 1, !.cqes[slot] = Cqe(k, res),
                                !.old[slot] = cq.cqes[slot]]
            /\ kernel' = [kernel EXCEPT !.inflight = @ \ {k}]
       ELSE /\ kernel' = [kernel EXCEPT !.inflight = @ \ {k}, !.overflow = @ \union {k}]
            /\ UNCHANGED cq
  /\ UNCHANGED <<pc, env, request, heap, sq, output>>
-----------------------------------------------------------------------------
(* readFromCq. *)

PollCrash ==
  /\ pc = "poll" /\ "cq" \notin maps /\ pc' = "handler"
  /\ UNCHANGED <<env, request, heap, sq, cq, kernel, landed, output>>

(* Mutant: the head is moved as soon as an entry is found. *)
PollAdvances ==
  /\ pc = "poll" /\ "cq" \in maps /\ cq.tail # cq.head /\ pc' = "check"
  /\ cq' = [cq EXCEPT !.head = @ + 1]
  /\ UNCHANGED <<env, request, heap, sq, kernel, landed, output>>

PollFinds ==
  /\ pc = "poll" /\ "cq" \in maps /\ cq.tail # cq.head /\ pc' = "check"
  /\ UNCHANGED <<env, request, heap, sq, cq, kernel, landed, output>>

PollSpins == pc = "poll" /\ "cq" \in maps /\ cq.tail = cq.head /\ UNCHANGED vars

(* *tail and *head are plain loads: a compiler may take them out of the    *)
(* empty loop, which then never ends.                                      *)
PollHoisted ==
  /\ pc = "poll" /\ "cq" \in maps /\ cq.tail = cq.head /\ "hoisted" \in RaceOutcomes
  /\ pc' = "stuck"
  /\ UNCHANGED <<env, request, heap, sq, cq, kernel, landed, output>>

(* What a load from the slot at the head may see.  read_barrier holds back *)
(* the compiler, not the processor: an entry posted after the last system  *)
(* call may still look as it did before.                                   *)
Visible ==
  LET slot == cq.head % CqEntries
  IN  {cq.cqes[slot]} \union
      (IF "stale" \in RaceOutcomes /\ cq.head >= cq.synced THEN {cq.old[slot]} ELSE {})

(* Mutant: an empty read ends the loop too. *)
ZeroResultStops(cqe) ==
  /\ pc = "check"
  /\ pc' = IF cqe.res <= 0 THEN "close" ELSE "print"
  /\ UNCHANGED <<env, request, heap, sq, cq, kernel, landed, output>>

CheckResult(cqe) ==
  /\ pc = "check"
  /\ pc' = IF cqe.res < 0 THEN "close" ELSE "print"
  /\ UNCHANGED <<env, request, heap, sq, cq, kernel, landed, output>>

(* Block i of read k goes to stdout whole: len bytes, of which got came    *)
(* from the file; the others are what malloc left in the buffer.           *)
Line(k, i) == [req |-> k, blk |-> i, len |-> IovLen(plan[k].size, i),
               got |-> Landed(plan[k].size, landed[k], i)]
AllButLast(k, n) == out' = out \o [i \in 1 .. n - 1 |-> Line(k, i - 1)]  \* mutant
PrintUpTo(k, n) == out' = out \o [i \in 1 .. n |-> Line(k, i - 1)]

(* Each block is printed and its buffer freed, then the iovec_array is. *)
OnlyBuffers(k) == Buffers(k, plan[k].size)  \* mutant
Released(k) == Buffers(k, plan[k].size) \union {ArrayOf(k)}

(* Mutant: a NULL buffer ends the loop over the blocks, and no more. *)
PrintUntilNull(cqe) ==
  /\ pc = "print" /\ pc' = "advance"
  /\ cqe.user # 0 /\ ArrayOf(cqe.user) \in heap
  /\ PrintUpTo(cqe.user, IF NullBlocks(cqe.user) = {} THEN BlockCount(plan[cqe.user].size)
                                                     ELSE FirstNull(cqe.user))
  /\ heap' = heap \ Released(cqe.user)
  /\ printed' = printed \union {cqe.user}
  /\ UNCHANGED <<env, request, sq, cq, kernel, landed>>

PrintBlocks(cqe) ==
  /\ pc = "print" /\ pc' = "advance"
  /\ cqe.user # 0 /\ ArrayOf(cqe.user) \in heap /\ NullBlocks(cqe.user) = {}
  /\ PrintUpTo(cqe.user, BlockCount(plan[cqe.user].size))
  /\ heap' = heap \ Released(cqe.user)
  /\ printed' = printed \union {cqe.user}
  /\ UNCHANGED <<env, request, sq, cq, kernel, landed>>

(* A NULL user_data is read through, and so is the first NULL buffer. *)
PrintCrash(cqe) ==
  /\ pc = "print" /\ pc' = "handler"
  /\ \/ cqe.user = 0 /\ UNCHANGED out
     \/ /\ cqe.user # 0 /\ ArrayOf(cqe.user) \in heap /\ NullBlocks(cqe.user) # {}
        /\ PrintUpTo(cqe.user, FirstNull(cqe.user))
  /\ UNCHANGED <<env, request, heap, sq, cq, kernel, landed, printed>>

(* An iovec_array that was freed already: anything may happen. *)
PrintFreed(cqe) ==
  /\ pc = "print" /\ pc' = "undefined"
  /\ cqe.user # 0 /\ ArrayOf(cqe.user) \notin heap
  /\ UNCHANGED <<env, request, heap, sq, cq, kernel, landed, output>>

(* Mutants: the head stays; it skips to the tail; a drained ring ends the loop. *)
AdvanceForgotten ==
  /\ pc = "advance" /\ pc' = "poll"
  /\ UNCHANGED <<env, request, heap, sq, cq, kernel, landed, output>>
AdvanceToTail ==
  /\ pc = "advance" /\ pc' = "poll"
  /\ cq' = [cq EXCEPT !.head = cq.tail]
  /\ UNCHANGED <<env, request, heap, sq, kernel, landed, output>>
AdvanceUntilEmpty ==
  /\ pc = "advance" /\ pc' = IF cq.head + 1 = cq.tail THEN "close" ELSE "poll"
  /\ cq' = [cq EXCEPT !.head = @ + 1]
  /\ UNCHANGED <<env, request, heap, sq, kernel, landed, output>>

Advance ==
  /\ pc = "advance" /\ pc' = "poll"
  /\ cq' = [cq EXCEPT !.head = @ + 1]
  /\ UNCHANGED <<env, request, heap, sq, kernel, landed, output>>
-----------------------------------------------------------------------------
(* main closes the file and returns 0; the signal handler exits with 139. *)
Finish ==
  /\ \/ pc = "close" /\ pc' = "exit 0"
     \/ pc = "handler" /\ pc' = "exit 139"
  /\ UNCHANGED <<env, request, heap, sq, cq, kernel, landed, output>>

Ended == (~Running \/ pc = "stuck") /\ UNCHANGED vars

Main ==
  \/ Open \/ SetupFails \/ Prepare
  \/ \E k \in Reqs, size \in SizesSeen : \E nulls \in Refusals(k, size) :
       SubmitToSq(k, size, nulls) \/ SubmitCrash(k, size, nulls)
  \/ EnterTakes \/ EnterFails \/ WaitDone
  \/ PollCrash \/ PollFinds
  \/ \E cqe \in Visible :
       CheckResult(cqe) \/ PrintBlocks(cqe) \/ PrintCrash(cqe) \/ PrintFreed(cqe)
  \/ Advance \/ Finish

Environment ==
  \/ WaitCut \/ PollHoisted
  \/ \E len \in 0 .. MaxSize : FileChanges(len)
  \/ \E k \in Reqs : \E res \in Results(k) : Complete(k, res)

Next == Main \/ PollSpins \/ Environment \/ Ended

Spec == Init /\ [][Next]_vars

(* The main thread is scheduled; the kernel finishes every read it has     *)
(* accepted from a file or a block device (a terminal or a pipe may keep a *)
(* reader waiting for ever).                                               *)
Fairness ==
  /\ WF_vars(Main)
  /\ \A k \in Reqs :
       WF_vars(file.kind # "other" /\ \E res \in Results(k) : Complete(k, res))

FairSpec == Spec /\ Fairness
-----------------------------------------------------------------------------
(* Properties. *)

MainSteps == {"open", "prepare", "submit", "enter", "wait", "poll", "stuck", "check",
              "print", "advance", "close", "handler", "undefined",
              "exit 0", "exit 5", "exit 139"}
Chunks == [req : Reqs, part : {"iovecs", "iovec_array", "buffer"}, blk : Nat]
Cqes   == [user : 0 .. Submits, res : {-1} \union Nat]

TypeOK ==
  /\ pc \in MainSteps
  /\ file \in [kind : Kinds, len : 0 .. MaxSize, changes : 0 .. MaxChanges]
  /\ fd \in BOOLEAN /\ maps \in SUBSET {"sq", "sqes", "cq"}
  /\ call \in 0 .. Submits
  /\ plan \in [Reqs -> [size : {-2, -1} \union 0 .. MaxSize, nulls : SUBSET Chunks]]
  /\ entered \in [Reqs -> {"not yet", "failed", "done", "cut"}]
  /\ heap \in SUBSET Chunks
  /\ sq \in [head : Nat, tail : Nat, sqes : [0 .. SqEntries - 1 -> 0 .. Submits]]
  /\ cq \in [head : Nat, tail : Nat, synced : Nat,
             cqes : [0 .. CqEntries - 1 -> Cqes], old : [0 .. CqEntries - 1 -> Cqes]]
  /\ kernel \in [taken : SUBSET Reqs, inflight : SUBSET Reqs, overflow : SUBSET Reqs]
  /\ landed \in [Reqs -> Nat]
  /\ printed \in SUBSET Reqs
  /\ out \in Seq([req : Reqs, blk : Nat, len : Nat, got : Nat])

(* A read runs in the kernel exactly when the io_uring_enter of its own    *)
(* submitToSq accepted it: a call that fails leaves its entry in the ring, *)
(* and no later call may submit that entry instead of its own.             *)
OnlyAcceptedReadsRun ==
  \A k \in Reqs :
    /\ entered[k] = "failed" => k \notin kernel.taken
    /\ entered[k] \in {"done", "cut"} => k \in kernel.taken

(* A read the kernel has accepted is in exactly one place: running, in the *)
(* backlog, at one position of the CQ, or printed with its slot released.  *)
(* No completion is lost or seen twice.                                    *)
SlotReleased(k) == k \in printed /\ ~(pc = "advance" /\ cq.cqes[cq.head % CqEntries].user = k)
EachReadIsInOnePlace ==
  \A k \in Reqs :
    LET positions == {p \in cq.head .. cq.tail - 1 : cq.cqes[p % CqEntries].user = k}
        places == (IF k \in kernel.inflight THEN 1 ELSE 0)
                + (IF k \in kernel.overflow THEN 1 ELSE 0)
                + Cardinality(positions)
                + (IF SlotReleased(k) THEN 1 ELSE 0)
    IN  places = IF k \in kernel.taken THEN 1 ELSE 0

(* The table and the buffers the kernel writes through, and all that       *)
(* readFromCq will read and free, stay allocated until the read is printed.*)
LentMemoryIsLive ==
  \A k \in Reqs : k \in kernel.taken \ printed =>
    Parts(k, plan[k].size) \ plan[k].nulls \subseteq heap

(* What is allocated: all of a read that was not printed, and of one that  *)
(* was the table of iovecs, which files.c never frees.                     *)
OnlyTheTableLeaks ==
  heap = UNION {IF k \in printed THEN {Table(k)} \ plan[k].nulls
                ELSE Parts(k, plan[k].size) \ plan[k].nulls : k \in 1 .. call}

(* stdout gets every block of a printed read once and in order, as many    *)
(* bytes as the size seen at submission; those that came from the file are *)
(* what the kernel read then, however the file has changed in between.     *)
LinesOf(k) == {i \in DOMAIN out : out[i].req = k}
Total(field, k) == SumFunctionOnSet([i \in DOMAIN out |-> out[i][field]], LinesOf(k))
OutputIsThePlan ==
  \A k \in printed :
    /\ \A i, j \in LinesOf(k) : i < j => out[i].blk < out[j].blk
    /\ Total("len", k) = Capacity(plan[k].size)
    /\ Total("got", k) = landed[k]

(* malloc's answer is not checked in submitToSq (files.c:190).  A read that *)
(* was refused a buffer never passes for printed: the kernel stops at the  *)
(* missing block and readFromCq faults at it, so that stdout has all that  *)
(* the kernel read by then, or nothing, and the program ends with 139.     *)
MissingBufferIsNoticed ==
  \A k \in Reqs : NullBlocks(k) # {} =>
    /\ k \notin printed
    /\ LinesOf(k) # {} => pc \in {"handler", "exit 139"} /\ Total("got", k) = landed[k]

(* The ring and its memory implement the service of ReadService: a read is *)
(* accepted when the kernel takes its entry, its answer waits in the CQ    *)
(* from the moment it is posted (a backlogged one is not answered yet) and *)
(* is taken when its blocks have been written.                             *)
ReadState(k) ==
  CASE k \in printed                                   -> "printed"
    [] k \in kernel.inflight \union kernel.overflow    -> "running"
    [] k \in kernel.taken \ (printed \union kernel.inflight
                              \union kernel.overflow)  -> "answered"
    [] k \notin kernel.taken /\ entered[k] = "failed"   -> "refused"
    [] k \notin kernel.taken /\ entered[k] # "failed"   -> "new"

Untaken ==
  LET first == cq.head + (IF pc = "advance" THEN 1 ELSE 0)
      entry(i) == cq.cqes[(first + i - 1) % CqEntries]
  IN  [i \in 1 .. cq.tail - first |->
         [read |-> entry(i).user, ok |-> entry(i).res >= 0]]

Serving == pc \notin {"close", "handler", "stuck", "undefined"} /\ Running

Service == INSTANCE ReadService WITH
  state <- [k \in Reqs |-> ReadState(k)], answers <- Untaken, up <- Serving

ImplementsReadService == Service!Spec

(* A file nobody resizes is printed whole, and nothing that is not from    *)
(* it: the lines add up to its size, and so do the bytes that were read,   *)
(* unless the read transferred less.  After a short read readFromCq still  *)
(* prints iov_len bytes of every block, not the cqe->res bytes that were   *)
(* read, and a stale load of cqe->res may let a failed read pass for one   *)
(* that succeeded.                                                         *)
StableFileIsPrintedWhole ==
  file.changes = 0 /\ fd /\ file.kind = "reg" =>
    \A k \in printed :
      /\ Total("len", k) = file.len
      /\ landed[k] = Readable(k) => Total("got", k) = file.len

(* main returns 0 only after a read that failed: the loop of readFromCq    *)
(* has no other way out.                                                   *)
ZeroExitMeansFailedRead ==
  pc \in {"close", "exit 0"} => cq.head < cq.tail /\ cq.cqes[cq.head % CqEntries].res < 0

(* The loads of readFromCq race with the kernel, yet in main, which queues *)
(* one read, they can go wrong only if a signal cut the wait of enter:     *)
(* otherwise the completion was posted before enter returned.              *)
RaceNeedsACutWait ==
  (Submits = 1 /\ entered[1] # "cut") =>
    /\ pc = "stuck" => kernel.inflight = {}
    /\ pc \in {"check", "print"} => Visible = {cq.cqes[cq.head % CqEntries]}
    /\ pc # "undefined"

(* "Couldn't map submission queue" (files.c:148) and its like: a map that  *)
(* failed is to end main with 5 before it reaches submitToSq.  The check   *)
(* looks for NULL, and mmap answers MAP_FAILED.                            *)
FailedMapStopsMain == pc = "submit" => maps = {"sq", "sqes", "cq"}

(* A completion is not overwritten before its read is printed.             *)
UnprintedCompletionStays ==
  [][\A s \in 0 .. CqEntries - 1 :
       LET k == cq.cqes[s].user
       IN  k # 0 /\ k \notin printed => cq'.cqes[s] = cq.cqes[s]]_vars

(* A read that was accepted is printed, unless main ends before it (an     *)
(* earlier read failed, or a fault) or its own completion found the CQ     *)
(* full: a backlog does not hold up the reads whose completions are in the *)
(* ring.                                                                   *)
AcceptedReadIsPrinted ==
  \A k \in Reqs :
    k \in kernel.taken /\ file.kind # "other"
      ~> k \in printed \/ ~Running \/ k \in kernel.overflow

(* main ends in a failure or never: with nothing left to read it spins.    *)
NeverEndsAfterSuccess ==
  file.kind # "other" ~>
    \/ [](pc \in {"exit 0", "exit 5", "exit 139"} /\ printed # Reqs)
    \/ [](pc = "poll" /\ cq.head = cq.tail /\ kernel.inflight = {})
=============================================================================
