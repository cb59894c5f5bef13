-------------------------- MODULE UringFileProofs --------------------------
(***************************************************************************)
(* Theorems about the program of files.c for every number of reads, file   *)
(* size, block size and set of failures: the types, which reads run and    *)
(* what is allocated; the completion ring, up to the refinement of         *)
(* ReadService; and what reaches stdout.                                   *)
(***************************************************************************)
EXTENDS UringFile, IovecsProofs, SequenceTheorems

LEMMA Bounds ==
  /\ Submits \in Nat /\ Submits > 0
  /\ MaxSize \in Nat /\ MaxSize < SizeMod
  /\ MaxChanges \in Nat
  /\ Kinds \subseteq {"reg", "blk", "other"}
BY UringAssumption

(* A ring of one SQ entry has two CQ slots. *)
LEMMA RingSizes == SqEntries = 1 /\ CqEntries = 2 /\ 0 .. SqEntries - 1 = {0}
                   /\ 0 .. CqEntries - 1 = {0, 1}
BY DEF SqEntries, CqEntries

LEMMA SlotZero == \A n \in Nat : n % SqEntries = 0 /\ n + 1 \in Nat
BY RingSizes

LEMMA ReqsAreNumbers == Reqs \subseteq 0 .. Submits /\ 0 \notin Reqs
BY Bounds DEF Reqs

-----------------------------------------------------------------------------
(* The types of what the steps compute.                                    *)

LEMMA PlanSizes ==
  /\ {-2, -1} \union 0 .. MaxSize \subseteq Sizes
  /\ TypeOK => SizesSeen \subseteq {-2, -1} \union 0 .. MaxSize
<1>1. {-2, -1} \union 0 .. MaxSize \subseteq Sizes
  BY Bounds, IovecsAssumption DEF Sizes, FileSizes
<1>2. ASSUME TypeOK PROVE SizesSeen \subseteq {-2, -1} \union 0 .. MaxSize
  <2>1. file.len \in 0 .. MaxSize /\ fd \in BOOLEAN
        /\ file.kind \in {"reg", "blk", "other"}
    BY <1>2, Bounds DEF TypeOK
  <2> QED
    BY <2>1 DEF SizesSeen
<1> QED
  BY <1>1, <1>2

LEMMA BlocksAreNaturals ==
  ASSUME NEW size \in Sizes
  PROVE  Blocks(size) \subseteq Nat /\ BlockCount(size) \in Nat
BY BlockCountType DEF Blocks

LEMMA PartsAreChunks ==
  ASSUME NEW k \in Reqs, NEW size \in Sizes
  PROVE  Parts(k, size) \subseteq Chunks
BY BlocksAreNaturals DEF Parts, Table, ArrayOf, Buffers, Chunk, Chunks

LEMMA PlanType ==
  ASSUME TypeOK, NEW k \in Reqs
  PROVE  plan[k].size \in Sizes /\ plan[k].nulls \subseteq Chunks
<1>1. plan[k] \in [size : {-2, -1} \union 0 .. MaxSize, nulls : SUBSET Chunks]
  BY DEF TypeOK
<1> QED
  BY <1>1, PlanSizes

LEMMA FirstNullType ==
  ASSUME TypeOK, NEW k \in Reqs, NullBlocks(k) # {}
  PROVE  FirstNull(k) \in NullBlocks(k) /\ FirstNull(k) \in Nat
<1>1. NullBlocks(k) \subseteq Nat
  BY PlanType, BlocksAreNaturals DEF NullBlocks
<1>2. \E i \in NullBlocks(k) : \A j \in NullBlocks(k) : i <= j
  BY <1>1, SmallestNat
<1>3. FirstNull(k) \in NullBlocks(k)
  BY <1>2 DEF FirstNull
<1> QED
  BY <1>1, <1>3

LEMMA CapacityType ==
  ASSUME NEW size \in Sizes
  PROVE  Capacity(size) \in Nat
BY CapacityIsTheSize, IovecsAssumption DEF Sizes, FileSizes

LEMMA ResultsType ==
  ASSUME TypeOK, NEW k \in Reqs, NEW res \in Results(k)
  PROVE  res \in {-1} \union Nat
<1>1. file.len \in Nat
  <2>1. file.len \in 0 .. MaxSize
    BY DEF TypeOK
  <2> QED
    BY <2>1
<1>2. FirstNull(k) * BlkSize \in Nat \/ NullBlocks(k) = {}
  BY FirstNullType, IovecsAssumption
<1>3. Capacity(plan[k].size) \in Nat
  BY PlanType, CapacityType
<1>4. Readable(k) \in Nat
  BY <1>1, <1>2, <1>3 DEF Readable, Lesser
<1> QED
  BY <1>4 DEF Results

LEMMA VisibleType ==
  ASSUME TypeOK, NEW cqe \in Visible
  PROVE  /\ cqe.user \in 0 .. Submits
         /\ cqe.res \in {-1} \union Nat
         /\ cqe.user # 0 => cqe.user \in Reqs
<1>1. cq.head \in Nat /\ cq.cqes \in [{0, 1} -> Cqes] /\ cq.old \in [{0, 1} -> Cqes]
  BY RingSizes DEF TypeOK
<1>2. cq.head % CqEntries \in {0, 1}
  BY <1>1, RingSizes
<1>3. cqe \in Cqes
  BY <1>1, <1>2 DEF Visible
<1> QED
  BY <1>3, Bounds DEF Cqes, Reqs

Lines == [req : Reqs, blk : Nat, len : Nat, got : Nat]

LEMMA PrintUpToType ==
  ASSUME TypeOK, NEW k \in Reqs, NEW n \in Nat, PrintUpTo(k, n)
  PROVE  out' \in Seq(Lines)
<1> DEFINE blocks == [i \in 1 .. n |-> Line(k, i - 1)]
<1>1. ASSUME NEW i \in 1 .. n PROVE Line(k, i - 1) \in Lines
  <2>1. i - 1 \in Nat
    OBVIOUS
  <2>2. landed[k] \in Nat /\ plan[k].size \in Sizes
    BY PlanType DEF TypeOK
  <2>3. IovLen(plan[k].size, i - 1) \in Nat
    BY <2>1, <2>2, IovLenType
  <2>4. Landed(plan[k].size, landed[k], i - 1) \in Nat
    BY <2>1, <2>2, LandedType
  <2> QED
    BY <2>1, <2>3, <2>4 DEF Line, Lines
<1>2. blocks \in Seq(Lines)
  <2>1. blocks \in [1 .. n -> Lines]
    BY <1>1
  <2> HIDE DEF blocks
  <2> QED
    BY <2>1, SeqDef
<1>3. out \in Seq(Lines)
  BY DEF TypeOK, Lines
<1>4. out \o blocks \in Seq(Lines)
  BY <1>2, <1>3, ConcatProperties
<1> QED
  BY <1>4 DEF PrintUpTo
-----------------------------------------------------------------------------
(* What makes the invariants inductive: the entry in the SQ is always that *)
(* of the call in progress, because the ring has room for one only.        *)
EntryIsOfThisCall ==
  /\ pc \in {"open", "prepare"} => call = 0
  /\ pc \in {"enter", "wait"} => call \in Reqs /\ entered[call] = "not yet"
  /\ pc = "enter" => sq.sqes[0] = call /\ call \notin kernel.taken
  /\ pc = "wait" => call \in kernel.taken
  /\ \A k \in Reqs : k > call => entered[k] = "not yet" /\ k \notin kernel.taken

Accepted == EntryIsOfThisCall /\ OnlyAcceptedReadsRun

Allocated == OnlyTheTableLeaks /\ printed \subseteq 1 .. call

IInv == TypeOK /\ Accepted /\ Allocated

-----------------------------------------------------------------------------
(* Type correctness.                                                       *)

LEMMA TypeInit == Init => TypeOK
<1> SUFFICES ASSUME Init PROVE TypeOK
  OBVIOUS
<1>1. pc \in MainSteps /\ fd \in BOOLEAN /\ maps \in SUBSET {"sq", "sqes", "cq"}
      /\ heap \in SUBSET Chunks /\ printed \in SUBSET Reqs
  BY DEF Init, MainSteps
<1>2. file \in [kind : Kinds, len : 0 .. MaxSize, changes : 0 .. MaxChanges]
  <2>1. file \in [kind : Kinds, len : 0 .. MaxSize, changes : {0}]
    BY DEF Init
  <2>2. 0 \in 0 .. MaxChanges
    BY Bounds
  <2> QED
    BY <2>1, <2>2
<1>3. call \in 0 .. Submits
  <2>1. call = 0
    BY DEF Init
  <2> QED
    BY <2>1, Bounds
<1>4. plan \in [Reqs -> [size : {-2, -1} \union 0 .. MaxSize, nulls : SUBSET Chunks]]
  <2>1. plan = [k \in Reqs |-> [size |-> 0, nulls |-> {}]]
    BY DEF Init
  <2>2. 0 \in 0 .. MaxSize
    BY Bounds
  <2> QED
    BY <2>1, <2>2
<1>5. entered \in [Reqs -> {"not yet", "failed", "done", "cut"}] /\ landed \in [Reqs -> Nat]
  BY DEF Init
<1>6. sq \in [head : Nat, tail : Nat, sqes : [0 .. SqEntries - 1 -> 0 .. Submits]]
  <2>1. sq = [head |-> 0, tail |-> 0, sqes |-> [s \in 0 .. SqEntries - 1 |-> 0]]
    BY DEF Init
  <2>2. 0 \in 0 .. Submits
    BY Bounds
  <2> QED
    BY <2>1, <2>2
<1>7. cq \in [head : Nat, tail : Nat, synced : Nat,
             cqes : [0 .. CqEntries - 1 -> Cqes], old : [0 .. CqEntries - 1 -> Cqes]]
  <2>1. Cqe(0, 0) \in Cqes
    BY Bounds DEF Cqe, Cqes
  <2> QED
    BY <2>1 DEF Init
<1>8. kernel \in [taken : SUBSET Reqs, inflight : SUBSET Reqs, overflow : SUBSET Reqs]
  BY DEF Init
<1>9. out \in Seq(Lines)
  BY EmptySeq DEF Init
<1> QED
  BY <1>1, <1>2, <1>3, <1>4, <1>5, <1>6, <1>7, <1>8, <1>9 DEF TypeOK, Lines

(* The steps of main and prepare_io_uring, and the ends of the program. *)
LEMMA TypeMain ==
  TypeOK /\ (Open \/ SetupFails \/ Prepare \/ Finish \/ Ended) => TypeOK'
<1> SUFFICES ASSUME TypeOK, Open \/ SetupFails \/ Prepare \/ Finish \/ Ended
             PROVE  TypeOK'
  OBVIOUS
<1> USE DEF TypeOK, MainSteps, env, request, output
<1>1. CASE Open
  BY <1>1 DEF Open
<1>2. CASE SetupFails
  BY <1>2 DEF SetupFails
<1>3. CASE Prepare
  BY <1>3 DEF Prepare
<1>4. CASE Finish
  BY <1>4 DEF Finish
<1>5. CASE Ended
  BY <1>5 DEF Ended, vars
<1> QED
  BY <1>1, <1>2, <1>3, <1>4, <1>5

LEMMA TypeSubmit ==
  ASSUME TypeOK, NEW k \in Reqs, NEW size \in SizesSeen, NEW nulls \in Refusals(k, size),
         SubmitToSq(k, size, nulls) \/ SubmitCrash(k, size, nulls)
  PROVE  TypeOK'
<1>1. size \in {-2, -1} \union 0 .. MaxSize /\ size \in Sizes
  BY PlanSizes
<1>2. Parts(k, size) \subseteq Chunks /\ nulls \subseteq Chunks
  BY <1>1, PartsAreChunks DEF Refusals
<1> USE DEF TypeOK, MainSteps, env, request, output
<1>3. CASE SubmitToSq(k, size, nulls)
  <2>1. call' \in 0 .. Submits /\ k \in 0 .. Submits
    <3>1. call' = k
      BY <1>3 DEF SubmitToSq
    <3>2. k \in 0 .. Submits
      BY ReqsAreNumbers
    <3> QED
      BY <3>1, <3>2
  <2>2. plan' \in [Reqs -> [size : {-2, -1} \union 0 .. MaxSize, nulls : SUBSET Chunks]]
    BY <1>1, <1>2, <1>3 DEF SubmitToSq
  <2>3. heap' \subseteq Chunks
    BY <1>2, <1>3 DEF SubmitToSq
  <2>4. sq' \in [head : Nat, tail : Nat, sqes : [0 .. SqEntries - 1 -> 0 .. Submits]]
    <3>1. sq.tail + 1 \in Nat
      BY SlotZero
    <3>2. sq' = [sq EXCEPT !.sqes[sq.tail % SqEntries] = k, !.tail = @ + 1]
      BY <1>3 DEF SubmitToSq
    <3> QED
      BY <2>1, <3>1, <3>2
  <2> QED
    BY <1>3, <2>1, <2>2, <2>3, <2>4 DEF SubmitToSq
<1>4. CASE SubmitCrash(k, size, nulls)
  BY <1>4 DEF SubmitCrash
<1> QED
  BY <1>3, <1>4

LEMMA TypeEnter ==
  /\ TypeOK /\ EntryIsOfThisCall
  /\ EnterTakes \/ EnterFails \/ WaitDone \/ WaitCut
  => TypeOK'
<1> SUFFICES ASSUME TypeOK, EntryIsOfThisCall,
                    EnterTakes \/ EnterFails \/ WaitDone \/ WaitCut
             PROVE  TypeOK'
  OBVIOUS
<1> USE DEF TypeOK, MainSteps, env, request, output
<1>1. CASE EnterTakes
  <2>1. sq.head % SqEntries = 0 /\ sq.sqes[0] = call /\ call \in Reqs
    <3>2. sq.head % SqEntries = 0
      BY SlotZero
    <3>3. sq.sqes[0] = call /\ call \in Reqs
      BY <1>1 DEF EnterTakes, EntryIsOfThisCall
    <3> QED
      BY <3>2, <3>3
  <2>2. kernel' = [kernel EXCEPT !.taken = @ \union {call}, !.inflight = @ \union {call}]
    BY <1>1, <2>1 DEF EnterTakes
  <2>3. kernel' \in [taken : SUBSET Reqs, inflight : SUBSET Reqs, overflow : SUBSET Reqs]
    BY <2>1, <2>2
  <2>4. sq' \in [head : Nat, tail : Nat, sqes : [0 .. SqEntries - 1 -> 0 .. Submits]]
    <3>1. sq' = [sq EXCEPT !.head = @ + 1] /\ sq.head + 1 \in Nat
      BY <1>1, SlotZero DEF EnterTakes
    <3> QED
      BY <3>1
  <2> QED
    BY <1>1, <2>3, <2>4 DEF EnterTakes
<1>2. ASSUME NEW result \in {"failed", "done", "cut"}, EnterReturns(result) PROVE TypeOK'
  BY <1>2 DEF EnterReturns
<1> QED
  BY <1>1, <1>2 DEF EnterFails, WaitDone, WaitCut

LEMMA TypePoll ==
  TypeOK /\ (PollCrash \/ PollFinds \/ PollSpins \/ PollHoisted \/ Advance) => TypeOK'
<1> SUFFICES ASSUME TypeOK, PollCrash \/ PollFinds \/ PollSpins \/ PollHoisted \/ Advance
             PROVE  TypeOK'
  OBVIOUS
<1> USE DEF TypeOK, MainSteps, env, request, output
<1>1. CASE PollCrash
  BY <1>1 DEF PollCrash
<1>2. CASE PollFinds
  BY <1>2 DEF PollFinds
<1>3. CASE PollSpins
  BY <1>3 DEF PollSpins, vars
<1>4. CASE PollHoisted
  BY <1>4 DEF PollHoisted
<1>5. CASE Advance
  <2>1. cq.head + 1 \in Nat
    BY SlotZero
  <2>2. cq' \in [head : Nat, tail : Nat, synced : Nat,
                cqes : [0 .. CqEntries - 1 -> Cqes], old : [0 .. CqEntries - 1 -> Cqes]]
    BY <1>5, <2>1 DEF Advance
  <2> QED
    BY <1>5, <2>2 DEF Advance
<1> QED
  BY <1>1, <1>2, <1>3, <1>4, <1>5

LEMMA TypePrint ==
  ASSUME TypeOK, NEW cqe \in Visible,
         CheckResult(cqe) \/ PrintBlocks(cqe) \/ PrintCrash(cqe) \/ PrintFreed(cqe)
  PROVE  TypeOK'
<1>1. cqe.user # 0 => cqe.user \in Reqs
  BY VisibleType
<1>2. CASE CheckResult(cqe)
  BY <1>2 DEF CheckResult, TypeOK, MainSteps, env, request, output
<1>3. CASE PrintBlocks(cqe)
  <2>1. cqe.user \in Reqs
    BY <1>1, <1>3 DEF PrintBlocks
  <2>2. BlockCount(plan[cqe.user].size) \in Nat
    BY <2>1, PlanType, BlocksAreNaturals
  <2>3. out' \in Seq(Lines)
    BY <1>3, <2>1, <2>2, PrintUpToType DEF PrintBlocks
  <2> QED
    BY <1>3, <2>1, <2>3 DEF PrintBlocks, TypeOK, MainSteps, Lines, env, request, output
<1>4. CASE PrintCrash(cqe)
  <2>1. out' \in Seq(Lines)
    <3>1. CASE cqe.user = 0 /\ UNCHANGED out
      BY <3>1 DEF TypeOK, Lines
    <3>2. CASE /\ cqe.user # 0 /\ NullBlocks(cqe.user) # {}
               /\ PrintUpTo(cqe.user, FirstNull(cqe.user))
      BY <1>1, <3>2, FirstNullType, PrintUpToType
    <3> QED
      BY <1>4, <3>1, <3>2 DEF PrintCrash
  <2> QED
    BY <1>4, <2>1 DEF PrintCrash, TypeOK, MainSteps, Lines, env, request, output
<1>5. CASE PrintFreed(cqe)
  BY <1>5 DEF PrintFreed, TypeOK, MainSteps, env, request, output
<1> QED
  BY <1>2, <1>3, <1>4, <1>5

LEMMA TypeFile ==
  ASSUME TypeOK, NEW len \in 0 .. MaxSize, FileChanges(len)
  PROVE  TypeOK'
<1>1. file' \in [kind : Kinds, len : 0 .. MaxSize, changes : 0 .. MaxChanges]
  <2>1. /\ file \in [kind : Kinds, len : 0 .. MaxSize, changes : 0 .. MaxChanges]
        /\ file' = [file EXCEPT !.len = len, !.changes = @ + 1]
        /\ file.changes < MaxChanges
    BY DEF FileChanges, TypeOK
  <2>2. file.changes + 1 \in 0 .. MaxChanges
    BY <2>1, Bounds
  <2> QED
    BY <2>1, <2>2
<1> QED
  BY <1>1 DEF FileChanges, TypeOK, MainSteps, request, output

(* A completion is posted to a slot, or joins the backlog. *)
Posts(k, res) ==
  /\ cq' = [cq EXCEPT !.tail = @ + 1, !.cqes[cq.tail % CqEntries] = Cqe(k, res),
                      !.old[cq.tail % CqEntries] = cq.cqes[cq.tail % CqEntries]]
  /\ kernel' = [kernel EXCEPT !.inflight = @ \ {k}]
Backlogs(k) ==
  /\ cq' = cq
  /\ kernel' = [kernel EXCEPT !.inflight = @ \ {k}, !.overflow = @ \union {k}]

LEMMA PostsOrBacklogs ==
  ASSUME NEW k, NEW res, Complete(k, res)
  PROVE  \/ Posts(k, res) /\ kernel.overflow = {} /\ cq.tail - cq.head < CqEntries
         \/ Backlogs(k)
BY Zenon DEF Complete, Posts, Backlogs

LEMMA TypeComplete ==
  ASSUME TypeOK, NEW k \in Reqs, NEW res \in Results(k), Complete(k, res)
  PROVE  TypeOK'
<1>1. res \in {-1} \union Nat
  BY ResultsType
<1>2. landed' \in [Reqs -> Nat]
  <2>1. (IF res < 0 THEN 0 ELSE res) \in Nat
    BY <1>1
  <2> QED
    BY <2>1 DEF Complete, TypeOK
<1>3. kernel' \in [taken : SUBSET Reqs, inflight : SUBSET Reqs, overflow : SUBSET Reqs]
  <2>1. kernel \in [taken : SUBSET Reqs, inflight : SUBSET Reqs, overflow : SUBSET Reqs]
    BY DEF TypeOK
  <2>2. CASE Posts(k, res)
    BY <2>1, <2>2 DEF Posts
  <2>3. CASE Backlogs(k)
    BY <2>1, <2>3 DEF Backlogs
  <2> QED
    BY <2>2, <2>3, PostsOrBacklogs
<1>4. cq' \in [head : Nat, tail : Nat, synced : Nat,
              cqes : [0 .. CqEntries - 1 -> Cqes], old : [0 .. CqEntries - 1 -> Cqes]]
  <2> DEFINE slot == cq.tail % CqEntries
  <2>1. cq \in [head : Nat, tail : Nat, synced : Nat,
               cqes : [0 .. CqEntries - 1 -> Cqes], old : [0 .. CqEntries - 1 -> Cqes]]
    BY DEF TypeOK
  <2>2. slot \in 0 .. CqEntries - 1 /\ cq.tail + 1 \in Nat
    <3>1. cq.tail \in Nat
      BY <2>1
    <3> QED
      BY <3>1, RingSizes
  <2>3. Cqe(k, res) \in Cqes /\ cq.cqes[slot] \in Cqes
    BY <1>1, <2>1, <2>2, ReqsAreNumbers DEF Cqe, Cqes
  <2>4. CASE Backlogs(k)
    BY <2>1, <2>4 DEF Backlogs
  <2>5. CASE Posts(k, res)
    <3>1. cq' = [cq EXCEPT !.tail = @ + 1, !.cqes[slot] = Cqe(k, res),
                          !.old[slot] = cq.cqes[slot]]
      BY <2>5 DEF Posts
    <3> HIDE DEF slot
    <3>2. cq'.tail = cq.tail + 1 /\ cq'.head = cq.head /\ cq'.synced = cq.synced
          /\ cq'.cqes = [cq.cqes EXCEPT ![slot] = Cqe(k, res)]
          /\ cq'.old = [cq.old EXCEPT ![slot] = cq.cqes[slot]]
      BY <2>1, <3>1
    <3>3. cq'.cqes \in [0 .. CqEntries - 1 -> Cqes] /\ cq'.old \in [0 .. CqEntries - 1 -> Cqes]
      BY <2>1, <2>2, <2>3, <3>2
    <3> QED
      BY <2>1, <2>2, <3>1, <3>2, <3>3
  <2> QED
    BY <2>4, <2>5, PostsOrBacklogs
<1> QED
  BY <1>2, <1>3, <1>4 DEF Complete, TypeOK, env, request, output

LEMMA TypeStep == TypeOK /\ EntryIsOfThisCall /\ [Next]_vars => TypeOK'
<1> SUFFICES ASSUME TypeOK, EntryIsOfThisCall, [Next]_vars PROVE TypeOK'
  OBVIOUS
<1>1. CASE Main
  BY <1>1, TypeMain, TypeSubmit, TypeEnter, TypePoll, TypePrint DEF Main
<1>2. CASE Environment
  BY <1>2, TypeEnter, TypePoll, TypeFile, TypeComplete DEF Environment
<1>3. CASE PollSpins \/ Ended
  BY <1>3, TypePoll, TypeMain
<1>4. CASE UNCHANGED vars
  BY <1>4 DEF vars, env, request, output, TypeOK
<1> QED
  BY <1>1, <1>2, <1>3, <1>4 DEF Next

-----------------------------------------------------------------------------
(* Which reads run.                                                        *)

(* Most steps neither touch the entry nor enter submitToSq. *)
NoSubmission ==
  /\ UNCHANGED <<call, entered, sq>> /\ kernel'.taken = kernel.taken
  /\ \/ pc' = pc \/ pc' \notin {"open", "prepare", "enter", "wait"}
     \/ pc = "open" /\ pc' = "prepare"

LEMMA AcceptedUntouched == Accepted /\ NoSubmission => Accepted'
BY DEF Accepted, NoSubmission, EntryIsOfThisCall, OnlyAcceptedReadsRun

LEMMA AcceptedStep == TypeOK /\ Accepted /\ [Next]_vars => Accepted'
<1> SUFFICES ASSUME TypeOK, Accepted, [Next]_vars PROVE Accepted'
  OBVIOUS
<1> USE DEF env, request, output
<1>1. Open \/ SetupFails \/ Prepare \/ Finish => NoSubmission
  BY DEF Open, SetupFails, Prepare, Finish, NoSubmission
<1>2. PollCrash \/ PollFinds \/ PollHoisted \/ Advance => NoSubmission
  BY DEF PollCrash, PollFinds, PollHoisted, Advance, NoSubmission
<1>3. PollSpins \/ Ended \/ UNCHANGED vars => NoSubmission
  BY DEF PollSpins, Ended, vars, NoSubmission
<1>4. ASSUME NEW k \in Reqs, NEW size, NEW nulls,
             SubmitToSq(k, size, nulls) \/ SubmitCrash(k, size, nulls)
      PROVE  Accepted'
  <2>1. CASE SubmitCrash(k, size, nulls)
    <3>1. NoSubmission
      BY <2>1 DEF SubmitCrash, NoSubmission
    <3> QED
      BY <3>1, AcceptedUntouched
  <2>2. CASE SubmitToSq(k, size, nulls)
    <3>1. k = call + 1 /\ call' = k /\ pc' = "enter" /\ UNCHANGED <<entered, kernel>>
      BY <2>2 DEF SubmitToSq
    <3>2. call \in Nat /\ k \in Nat /\ k > call
      <4>1. call \in 0 .. Submits
        BY DEF TypeOK
      <4> QED
        BY <3>1, <4>1
    <3>3. sq'.sqes[0] = k
      <4>1. sq' = [sq EXCEPT !.sqes[0] = k, !.tail = @ + 1]
        <5>1. sq.tail \in Nat
          BY DEF TypeOK
        <5> QED
          BY <2>2, <5>1, SlotZero DEF SubmitToSq
      <4>2. sq \in [head : Nat, tail : Nat, sqes : [{0} -> 0 .. Submits]]
        BY RingSizes DEF TypeOK
      <4> QED
        BY <4>1, <4>2
    <3>4. \A j \in Reqs : j > k => j > call
      BY <3>2 DEF Reqs
    <3> QED
      BY <3>1, <3>2, <3>3, <3>4 DEF Accepted, EntryIsOfThisCall, OnlyAcceptedReadsRun
  <2> QED
    BY <1>4, <2>1, <2>2
<1>5. CASE EnterTakes
  <2>1. sq.sqes[sq.head % SqEntries] = call /\ call \in Reqs
    <3>1. sq.head % SqEntries = 0
      BY SlotZero DEF TypeOK
    <3>2. sq.sqes[0] = call /\ call \in Reqs
      BY <1>5 DEF EnterTakes, Accepted, EntryIsOfThisCall
    <3> QED
      BY <3>1, <3>2
  <2>2. kernel'.taken = kernel.taken \union {call}
    BY <1>5, <2>1 DEF EnterTakes, TypeOK
  <2>3. pc = "enter" /\ pc' = "wait" /\ UNCHANGED <<call, entered>>
    BY <1>5 DEF EnterTakes
  <2>4. \A k \in Reqs : k > call => k # call
    BY DEF Reqs
  <2> QED
    BY <2>1, <2>2, <2>3, <2>4 DEF Accepted, EntryIsOfThisCall, OnlyAcceptedReadsRun
<1>6. ASSUME NEW result \in {"failed", "done", "cut"}, EnterReturns(result),
             IF result = "failed" THEN pc = "enter" ELSE pc = "wait"
      PROVE  Accepted'
  <2>1. call \in Reqs /\ entered' = [entered EXCEPT ![call] = result]
        /\ UNCHANGED <<call, kernel>> /\ pc' \in {"submit", "poll"}
    BY <1>6 DEF EnterReturns, Accepted, EntryIsOfThisCall
  <2>2. entered'[call] = result /\ \A k \in Reqs \ {call} : entered'[k] = entered[k]
    BY <2>1 DEF TypeOK
  <2>3. \A k \in Reqs : k > call => k # call
    BY DEF Reqs
  <2> QED
    BY <1>6, <2>1, <2>2, <2>3 DEF Accepted, EntryIsOfThisCall, OnlyAcceptedReadsRun
<1>7. CASE EnterFails \/ WaitDone \/ WaitCut
  BY <1>6, <1>7 DEF EnterFails, WaitDone, WaitCut
<1>8. \A cqe : CheckResult(cqe) \/ PrintBlocks(cqe) \/ PrintCrash(cqe) \/ PrintFreed(cqe)
                => NoSubmission
  BY DEF CheckResult, PrintBlocks, PrintCrash, PrintFreed, NoSubmission
<1>9. \A len : FileChanges(len) => NoSubmission
  BY DEF FileChanges, NoSubmission
<1>10. ASSUME NEW k \in Reqs, NEW res, Complete(k, res) PROVE NoSubmission
  <2>1. kernel'.taken = kernel.taken
    <3>1. kernel \in [taken : SUBSET Reqs, inflight : SUBSET Reqs, overflow : SUBSET Reqs]
      BY DEF TypeOK
    <3>2. CASE Posts(k, res)
      BY <3>1, <3>2 DEF Posts
    <3>3. CASE Backlogs(k)
      BY <3>1, <3>3 DEF Backlogs
    <3> QED
      BY <1>10, <3>2, <3>3, PostsOrBacklogs
  <2> QED
    BY <1>10, <2>1 DEF Complete, NoSubmission
<1> QED
  BY <1>1, <1>2, <1>3, <1>4, <1>5, <1>7, <1>8, <1>9, <1>10, AcceptedUntouched
  DEF Next, Main, Environment

-----------------------------------------------------------------------------
(* What is allocated.                                                      *)

HeldBy(k) == IF k \in printed THEN {Table(k)} \ plan[k].nulls
             ELSE Parts(k, plan[k].size) \ plan[k].nulls

LEMMA HeapIsHeld == OnlyTheTableLeaks <=> heap = UNION {HeldBy(k) : k \in 1 .. call}
BY Zenon DEF OnlyTheTableLeaks, HeldBy

(* A chunk belongs to one read. *)
LEMMA ChunkOwner ==
  /\ \A k, part, i : Chunk(k, part, i).req = k /\ Chunk(k, part, i).part = part
  /\ \A k, size : \A c \in Parts(k, size) : c.req = k
BY DEF Chunk, Parts, Table, ArrayOf, Buffers

NoAllocation == UNCHANGED <<heap, printed, plan, call>>

LEMMA LeaksUntouched == OnlyTheTableLeaks /\ NoAllocation => OnlyTheTableLeaks'
BY DEF OnlyTheTableLeaks, NoAllocation, Parts, Buffers, Blocks, BlockCount, Quotient,
       Table, ArrayOf, Chunk

LEMMA LeaksAtSubmit ==
  ASSUME TypeOK, OnlyTheTableLeaks, printed \subseteq 1 .. call,
         NEW k \in Reqs, NEW size, NEW nulls, SubmitToSq(k, size, nulls)
  PROVE  OnlyTheTableLeaks'
<1>1. k = call + 1 /\ call' = k /\ printed' = printed
      /\ heap' = heap \union (Parts(k, size) \ nulls)
      /\ plan' = [plan EXCEPT ![k] = [size |-> size, nulls |-> nulls]]
  BY DEF SubmitToSq, output
<1>2. call \in Nat
  <2>1. call \in 0 .. Submits
    BY DEF TypeOK
  <2> QED
    BY <2>1
<1>3. 1 .. call' = 1 .. call \union {k} /\ k \notin 1 .. call
  BY <1>1, <1>2
<1>4. plan'[k] = [size |-> size, nulls |-> nulls] /\ \A j \in Reqs \ {k} : plan'[j] = plan[j]
  BY <1>1 DEF TypeOK
<1>5. HeldBy(k)' = Parts(k, size) \ nulls
  <2>1. k \notin printed'
    BY <1>1, <1>3
  <2>2. plan'[k].size = size /\ plan'[k].nulls = nulls
    BY <1>4
  <2>3. HeldBy(k)' = Parts(k, plan'[k].size) \ plan'[k].nulls
    BY <2>1 DEF HeldBy, Parts, Buffers, Blocks, BlockCount, Quotient, Table, ArrayOf, Chunk
  <2> QED
    BY <2>2, <2>3
<1>6. \A j \in 1 .. call : HeldBy(j)' = HeldBy(j)
  <2>1. \A j \in 1 .. call : j \in Reqs \ {k}
    <3>1. k <= Submits
      BY Bounds DEF Reqs
    <3> QED
      BY <1>1, <1>2, <3>1, Bounds DEF Reqs
  <2>2. \A j \in 1 .. call : plan'[j] = plan[j]
    BY <1>4, <2>1
  <2> QED
    BY <1>1, <2>2 DEF HeldBy, Parts, Buffers, Blocks, BlockCount, Quotient, Table, ArrayOf, Chunk
<1>7. heap = UNION {HeldBy(j) : j \in 1 .. call}
  BY HeapIsHeld
<1>8. heap' = UNION {HeldBy(j)' : j \in 1 .. call'}
  BY <1>1, <1>3, <1>5, <1>6, <1>7
<1> QED
  BY <1>8 DEF OnlyTheTableLeaks, HeldBy

(* PrintBlocks needs an iovec_array that is allocated: its read is not     *)
(* printed yet.                                                            *)
LEMMA PrintedIsNew ==
  ASSUME OnlyTheTableLeaks, NEW cqe, PrintBlocks(cqe)
  PROVE  cqe.user \in 1 .. call /\ cqe.user \notin printed
<1> DEFINE k == cqe.user
<1>1. ArrayOf(k) \in heap /\ heap = UNION {HeldBy(j) : j \in 1 .. call}
  BY HeapIsHeld DEF PrintBlocks
<1> HIDE DEF k
<1>2. PICK j \in 1 .. call : ArrayOf(k) \in HeldBy(j)
  BY <1>1
<1>3. Table(j) \in Parts(j, plan[j].size)
  BY DEF Parts
<1>4. ArrayOf(k) \in Parts(j, plan[j].size)
  BY <1>2, <1>3 DEF HeldBy
<1>5. j = k
  BY <1>4, ChunkOwner DEF ArrayOf
<1>6. ArrayOf(k) # Table(k)
  BY DEF ArrayOf, Table, Chunk
<1> QED
  BY <1>2, <1>5, <1>6 DEF HeldBy, k

LEMMA LeaksAtPrint ==
  ASSUME TypeOK, OnlyTheTableLeaks, printed \subseteq 1 .. call,
         NEW cqe \in Visible, PrintBlocks(cqe)
  PROVE  OnlyTheTableLeaks' /\ printed' \subseteq 1 .. call'
<1> DEFINE k == cqe.user
<1>1. /\ ArrayOf(k) \in heap /\ heap' = heap \ Released(k)
      /\ printed' = printed \union {k} /\ plan' = plan /\ call' = call
  BY DEF PrintBlocks, request
<1>2. heap = UNION {HeldBy(j) : j \in 1 .. call}
  BY HeapIsHeld
<1> HIDE DEF k
<1>3. k \in 1 .. call /\ k \notin printed
  BY PrintedIsNew DEF k
<1>4. Parts(k, plan[k].size) \ Released(k) = {Table(k)}
  BY DEF Parts, Released, Buffers, Table, ArrayOf, Chunk
<1>5. HeldBy(k) \ Released(k) = {Table(k)} \ plan[k].nulls
  BY <1>3, <1>4 DEF HeldBy
<1>6. HeldBy(k)' = {Table(k)} \ plan[k].nulls
  BY <1>1 DEF HeldBy, Table, Chunk
<1>7. \A j \in 1 .. call : j # k => HeldBy(j)' = HeldBy(j) /\ HeldBy(j) \ Released(k) = HeldBy(j)
  <2> SUFFICES ASSUME NEW j \in 1 .. call, j # k
               PROVE  HeldBy(j)' = HeldBy(j) /\ HeldBy(j) \ Released(k) = HeldBy(j)
    OBVIOUS
  <2>1. HeldBy(j)' = HeldBy(j)
    BY <1>1 DEF HeldBy, Parts, Buffers, Blocks, BlockCount, Quotient, Table, ArrayOf, Chunk
  <2>2. \A c \in HeldBy(j) : c.req = j
    BY ChunkOwner DEF HeldBy, Parts
  <2>3. \A c \in Released(k) : c.req = k
    BY ChunkOwner DEF Released, Parts
  <2> QED
    BY <2>1, <2>2, <2>3
<1>8. heap' = UNION {HeldBy(j)' : j \in 1 .. call'}
  BY <1>1, <1>2, <1>3, <1>5, <1>6, <1>7
<1> QED
  BY <1>1, <1>3, <1>8 DEF OnlyTheTableLeaks, HeldBy

LEMMA AllocatedStep == TypeOK /\ Allocated /\ [Next]_vars => Allocated'
<1> SUFFICES ASSUME TypeOK, Allocated, [Next]_vars PROVE Allocated'
  OBVIOUS
<1>1. NoAllocation => Allocated'
  BY LeaksUntouched DEF NoAllocation, Allocated
<1> USE DEF env, request, output
<1>2. Open \/ SetupFails \/ Prepare \/ Finish => NoAllocation
  BY DEF Open, SetupFails, Prepare, Finish, NoAllocation
<1>3. PollCrash \/ PollFinds \/ PollHoisted \/ Advance => NoAllocation
  BY DEF PollCrash, PollFinds, PollHoisted, Advance, NoAllocation
<1>4. PollSpins \/ Ended \/ UNCHANGED vars => NoAllocation
  BY DEF PollSpins, Ended, vars, NoAllocation
<1>5. EnterTakes \/ EnterFails \/ WaitDone \/ WaitCut => NoAllocation
  BY DEF EnterTakes, EnterFails, WaitDone, WaitCut, EnterReturns, NoAllocation
<1>6. \A cqe : CheckResult(cqe) \/ PrintCrash(cqe) \/ PrintFreed(cqe) => NoAllocation
  BY DEF CheckResult, PrintCrash, PrintFreed, NoAllocation
<1>7. \A len : FileChanges(len) => NoAllocation
  BY DEF FileChanges, NoAllocation
<1>8. \A k, res : Complete(k, res) => NoAllocation
  BY DEF Complete, NoAllocation
<1>9. \A k, size, nulls : SubmitCrash(k, size, nulls) => NoAllocation
  BY DEF SubmitCrash, NoAllocation
<1>10. ASSUME NEW k \in Reqs, NEW size, NEW nulls, SubmitToSq(k, size, nulls)
       PROVE  Allocated'
  <2>1. OnlyTheTableLeaks'
    BY <1>10, LeaksAtSubmit DEF Allocated
  <2>2. call' = call + 1 /\ printed' = printed /\ call \in Int
    <3>1. call \in 0 .. Submits
      BY DEF TypeOK
    <3> QED
      BY <1>10, <3>1 DEF SubmitToSq
  <2> QED
    BY <2>1, <2>2 DEF Allocated
<1>11. ASSUME NEW cqe \in Visible, PrintBlocks(cqe) PROVE Allocated'
  BY <1>11, LeaksAtPrint DEF Allocated
<1> QED
  BY <1>1, <1>2, <1>3, <1>4, <1>5, <1>6, <1>7, <1>8, <1>9, <1>10, <1>11
  DEF Next, Main, Environment

-----------------------------------------------------------------------------

LEMMA IInvInit == Init => IInv
<1> SUFFICES ASSUME Init PROVE IInv
  OBVIOUS
<1>1. TypeOK
  BY TypeInit
<1>2. Accepted
  BY DEF Init, Accepted, EntryIsOfThisCall, OnlyAcceptedReadsRun
<1>3. Allocated
  <2>1. call = 0 /\ heap = {} /\ printed = {}
    BY DEF Init
  <2>2. 1 .. call = {}
    BY <2>1
  <2> QED
    BY <2>1, <2>2 DEF Allocated, OnlyTheTableLeaks
<1> QED
  BY <1>1, <1>2, <1>3 DEF IInv

LEMMA IInvStep == IInv /\ [Next]_vars => IInv'
BY TypeStep, AcceptedStep, AllocatedStep DEF IInv, Accepted

LEMMA IInvHolds == Spec => []IInv
BY IInvInit, IInvStep, PTL DEF Spec

(* Every state of the program is well typed: the entry io_uring_enter takes *)
(* is that of a read, the results are -1 or a count, and the sizes printed  *)
(* are sizes of blocks.                                                     *)
THEOREM TypeCorrect == Spec => []TypeOK
BY IInvHolds, PTL DEF IInv

(* However many reads are queued and whichever io_uring_enter fails, the   *)
(* kernel runs those and only those whose own call was accepted.           *)
THEOREM AcceptedReadsRun == Spec => []OnlyAcceptedReadsRun
<1>1. IInv => OnlyAcceptedReadsRun
  BY DEF IInv, Accepted
<1> QED
  BY <1>1, IInvHolds, PTL

(* submitToSq and readFromCq leak one table per read, and nothing else.    *)
THEOREM TableLeaks == Spec => []OnlyTheTableLeaks
<1>1. IInv => OnlyTheTableLeaks
  BY DEF IInv, Allocated
<1> QED
  BY <1>1, IInvHolds, PTL

LEMMA LentByIInv == IInv => LentMemoryIsLive
<1> SUFFICES ASSUME IInv, NEW k \in Reqs, k \in kernel.taken \ printed
             PROVE  Parts(k, plan[k].size) \ plan[k].nulls \subseteq heap
  BY DEF LentMemoryIsLive
<1>1. k \in 1 .. call
  <2>1. call \in 0 .. Submits
    BY DEF IInv, TypeOK
  <2>2. ~(k > call)
    BY DEF IInv, Accepted, EntryIsOfThisCall
  <2>3. k \in Nat /\ k >= 1
    BY DEF Reqs
  <2> QED
    BY <2>1, <2>2, <2>3
<1>2. HeldBy(k) = Parts(k, plan[k].size) \ plan[k].nulls
  BY DEF HeldBy
<1>3. heap = UNION {HeldBy(j) : j \in 1 .. call}
  BY HeapIsHeld DEF IInv, Allocated
<1> QED
  BY <1>1, <1>2, <1>3

(* No memory the kernel writes to, or readFromCq has yet to read and free, *)
(* is freed before its read is printed.                                    *)
THEOREM LentMemoryStays == Spec => []LentMemoryIsLive
BY LentByIInv, IInvHolds, PTL
-----------------------------------------------------------------------------
(* The completion ring.  Its two slots are either in the ring, from the    *)
(* head up to the tail, or free; a free one keeps a completion whose read  *)
(* has been printed, or is still zero.                                     *)

Slots    == {0, 1}
User(s)  == cq.cqes[s].user
HeadSlot == cq.head % CqEntries
TailSlot == cq.tail % CqEntries
InRing(s) == cq.tail - cq.head = 2 \/ (cq.tail - cq.head = 1 /\ s = HeadSlot)

Pending == kernel.inflight \union kernel.overflow

RingBounds ==
  /\ cq.tail - cq.head \in 0 .. 2
  /\ cq.synced <= cq.tail
  /\ pc \in {"check", "print", "advance", "close", "exit 0"} => cq.tail # cq.head

(* Where the reads are that the kernel has accepted. *)
Placed ==
  /\ kernel.inflight \intersect kernel.overflow = {}
  /\ Pending \union printed \subseteq kernel.taken
  /\ Pending \intersect printed = {}
  /\ \A k \in kernel.taken :
       k \in Pending \union printed \/ \E s \in Slots : InRing(s) /\ User(s) = k

(* What the slots hold. *)
SlotsHold ==
  /\ \A s \in Slots : InRing(s) =>
       /\ User(s) \in kernel.taken \ Pending
       /\ User(s) \in printed <=> pc = "advance" /\ s = HeadSlot
  /\ \A s \in Slots : ~InRing(s) => User(s) \in {0} \union printed
  /\ \A s \in Slots : cq.old[s].user \in {0} \union printed
  /\ InRing(0) /\ InRing(1) => User(0) # User(1)

RingInv == RingBounds /\ Placed /\ SlotsHold

LEMMA RingType ==
  ASSUME TypeOK
  PROVE  /\ cq.head \in Nat /\ cq.tail \in Nat /\ cq.synced \in Nat
         /\ cq.cqes \in [Slots -> Cqes] /\ cq.old \in [Slots -> Cqes]
         /\ HeadSlot \in Slots /\ TailSlot \in Slots
<1>1. /\ cq.head \in Nat /\ cq.tail \in Nat /\ cq.synced \in Nat
      /\ cq.cqes \in [Slots -> Cqes] /\ cq.old \in [Slots -> Cqes]
  BY RingSizes DEF TypeOK, Slots
<1>2. HeadSlot \in Slots /\ TailSlot \in Slots
  BY <1>1, RingSizes DEF HeadSlot, TailSlot, Slots
<1> QED
  BY <1>1, <1>2

LEMMA RingCounts ==
  ASSUME TypeOK, RingBounds
  PROVE  /\ cq.head \in Nat /\ cq.tail \in Nat /\ cq.synced \in Nat
         /\ cq.tail = cq.head \/ cq.tail = cq.head + 1 \/ cq.tail = cq.head + 2
         /\ cq.tail # cq.head => cq.head < cq.tail
         /\ cq.synced <= cq.tail
<1>1. cq.head \in Nat /\ cq.tail \in Nat /\ cq.synced \in Nat
  BY RingType
<1>2. cq.tail - cq.head \in 0 .. 2 /\ cq.synced <= cq.tail
  BY DEF RingBounds
<1> QED
  BY <1>1, <1>2

LEMMA KernelType ==
  ASSUME TypeOK
  PROVE  /\ kernel.taken \subseteq Reqs /\ kernel.inflight \subseteq Reqs
         /\ kernel.overflow \subseteq Reqs
         /\ kernel = [taken |-> kernel.taken, inflight |-> kernel.inflight,
                      overflow |-> kernel.overflow]
BY DEF TypeOK

(* A post takes a free slot, and this slot is in the ring from then on. *)
LEMMA PostTakesFreeSlot ==
  ASSUME TypeOK, RingBounds, NEW k, NEW res, Posts(k, res), cq.tail - cq.head < CqEntries
  PROVE  /\ ~InRing(TailSlot)
         /\ cq'.tail = cq.tail + 1 /\ cq'.head = cq.head /\ cq'.synced = cq.synced
         /\ HeadSlot' = HeadSlot
         /\ \A s \in Slots :
              /\ InRing(s)' <=> InRing(s) \/ s = TailSlot
              /\ cq'.cqes[s] = IF s = TailSlot THEN Cqe(k, res) ELSE cq.cqes[s]
              /\ cq'.old[s] = IF s = TailSlot THEN cq.cqes[s] ELSE cq.old[s]
<1> DEFINE h == cq.head
           t == cq.tail
<1>1. h \in Nat /\ t \in Nat /\ t - h \in {0, 1} /\ TailSlot \in Slots
  BY RingType, RingCounts, RingSizes
<1>2. /\ cq'.tail = t + 1 /\ cq'.head = h /\ cq'.synced = cq.synced
      /\ cq'.cqes = [cq.cqes EXCEPT ![TailSlot] = Cqe(k, res)]
      /\ cq'.old = [cq.old EXCEPT ![TailSlot] = cq.cqes[TailSlot]]
  BY DEF Posts, TailSlot, TypeOK
<1>3. HeadSlot = h % 2 /\ TailSlot = t % 2 /\ HeadSlot' = h % 2
  BY <1>2, RingSizes DEF HeadSlot, TailSlot
<1>4. t = h \/ t = h + 1
  BY <1>1
<1>5. (h % 2 = 0 /\ (h + 1) % 2 = 1) \/ (h % 2 = 1 /\ (h + 1) % 2 = 0)
  BY <1>1
<1>6. InRing(0)' /\ InRing(1)' <=> t = h + 1
  BY <1>1, <1>2, <1>3, <1>4, <1>5 DEF InRing
<1> QED
  BY <1>1, <1>2, <1>3, <1>4, <1>5, <1>6, RingType DEF InRing, Slots

(* Moving the head takes its slot out of the ring. *)
LEMMA AdvanceFreesSlot ==
  ASSUME TypeOK, RingBounds, Advance
  PROVE  /\ cq'.tail = cq.tail /\ cq'.head = cq.head + 1 /\ cq'.synced = cq.synced
         /\ cq'.cqes = cq.cqes /\ cq'.old = cq.old
         /\ InRing(HeadSlot)
         /\ \A s \in Slots : InRing(s)' <=> InRing(s) /\ s # HeadSlot
<1> DEFINE h == cq.head
           t == cq.tail
<1>1. h \in Nat /\ t \in Nat /\ HeadSlot \in Slots
  BY RingType
<1>2. cq'.tail = t /\ cq'.head = h + 1 /\ cq'.synced = cq.synced
      /\ cq'.cqes = cq.cqes /\ cq'.old = cq.old
  BY DEF Advance, TypeOK
<1>3. HeadSlot = h % 2 /\ HeadSlot' = (h + 1) % 2
  BY <1>2, RingSizes DEF HeadSlot
<1>4. t = h + 1 \/ t = h + 2
  BY <1>1 DEF Advance, RingBounds
<1>5. (h % 2 = 0 /\ (h + 1) % 2 = 1) \/ (h % 2 = 1 /\ (h + 1) % 2 = 0)
  BY <1>1
<1> QED
  BY <1>1, <1>2, <1>3, <1>4, <1>5 DEF InRing, Slots

LEMMA HeadIsInRing ==
  ASSUME TypeOK, RingBounds, cq.tail # cq.head
  PROVE  InRing(HeadSlot) /\ HeadSlot \in Slots
<1>1. HeadSlot \in Slots
  BY RingType
<1>2. cq.tail - cq.head = 1 \/ cq.tail - cq.head = 2
  BY RingCounts
<1> QED
  BY <1>1, <1>2 DEF InRing

(* Most steps leave the ring alone. *)
NoRingStep ==
  /\ UNCHANGED <<cq, kernel, printed>>
  /\ pc' = "advance" <=> pc = "advance"
  /\ pc' \in {"check", "print", "close", "exit 0"} => cq.tail # cq.head

LEMMA RingUntouched == RingInv /\ NoRingStep => RingInv'
<1> SUFFICES ASSUME RingInv, NoRingStep PROVE RingInv'
  OBVIOUS
<1>1. RingBounds'
  BY DEF RingInv, RingBounds, NoRingStep
<1>2. /\ UNCHANGED <<Pending, HeadSlot>>
      /\ \A s \in Slots : InRing(s)' = InRing(s) /\ User(s)' = User(s)
  BY DEF NoRingStep, InRing, User, HeadSlot, Pending
<1>3. Placed'
  BY <1>2 DEF RingInv, Placed, NoRingStep
<1>4. SlotsHold'
  BY <1>2 DEF RingInv, SlotsHold, NoRingStep, Slots
<1> QED
  BY <1>1, <1>3, <1>4 DEF RingInv

LEMMA RingAtReturn ==
  ASSUME TypeOK, RingInv, NEW result, EnterReturns(result), pc \in {"enter", "wait"}
  PROVE  RingInv'
<1>1. cq'.tail = cq.tail /\ cq'.head = cq.head /\ cq'.synced = cq.tail
      /\ cq'.cqes = cq.cqes /\ cq'.old = cq.old /\ UNCHANGED <<kernel, printed>>
      /\ pc' \in {"submit", "poll"} /\ cq.tail \in Nat
  BY RingType DEF EnterReturns, output, TypeOK
<1>2. RingBounds'
  <2>1. cq.tail <= cq.tail
    BY <1>1
  <2> QED
    BY <1>1, <2>1 DEF RingInv, RingBounds
<1>3. /\ UNCHANGED <<Pending, HeadSlot>>
      /\ \A s \in Slots : InRing(s)' = InRing(s) /\ User(s)' = User(s)
  BY <1>1 DEF InRing, User, HeadSlot, Pending
<1>4. Placed'
  BY <1>1, <1>3 DEF RingInv, Placed
<1>5. SlotsHold'
  BY <1>1, <1>3 DEF RingInv, SlotsHold, Slots
<1> QED
  BY <1>2, <1>4, <1>5 DEF RingInv

LEMMA RingAtEnter ==
  ASSUME TypeOK, RingInv, Accepted, EnterTakes
  PROVE  RingInv'
<1>1. call \in Reqs /\ call \notin kernel.taken
      /\ kernel' = [kernel EXCEPT !.taken = @ \union {call}, !.inflight = @ \union {call}]
  <2>1. sq.head % SqEntries = 0
    BY SlotZero DEF TypeOK
  <2> QED
    BY <2>1 DEF EnterTakes, Accepted, EntryIsOfThisCall
<1>2. kernel'.taken = kernel.taken \union {call} /\ kernel'.inflight = kernel.inflight \union {call}
      /\ kernel'.overflow = kernel.overflow
  BY <1>1, KernelType
<1>3. UNCHANGED <<cq, printed>> /\ pc' = "wait" /\ pc = "enter"
  BY DEF EnterTakes, output
<1>4. RingBounds'
  BY <1>3 DEF RingInv, RingBounds
<1>5. /\ Pending' = Pending \union {call} /\ UNCHANGED HeadSlot
      /\ \A s \in Slots : InRing(s)' = InRing(s) /\ User(s)' = User(s)
  BY <1>2, <1>3 DEF InRing, User, HeadSlot, Pending
<1>6. Placed'
  BY <1>1, <1>2, <1>3, <1>5 DEF RingInv, Placed, Pending
<1>7. SlotsHold'
  BY <1>1, <1>2, <1>3, <1>5 DEF RingInv, SlotsHold, Slots
<1> QED
  BY <1>4, <1>6, <1>7 DEF RingInv

LEMMA RingAtComplete ==
  ASSUME TypeOK, RingInv, NEW k \in Reqs, NEW res, Complete(k, res)
  PROVE  RingInv'
<1>1. k \in kernel.inflight /\ UNCHANGED <<printed, pc>>
  BY DEF Complete, output
<1>2. CASE Backlogs(k)
  <2>1. cq' = cq /\ kernel'.taken = kernel.taken /\ kernel'.inflight = kernel.inflight \ {k}
        /\ kernel'.overflow = kernel.overflow \union {k}
    BY <1>2, KernelType DEF Backlogs
  <2>2. /\ UNCHANGED <<Pending, HeadSlot>>
        /\ \A s \in Slots : InRing(s)' = InRing(s) /\ User(s)' = User(s)
    BY <1>1, <2>1 DEF InRing, User, HeadSlot, Pending
  <2>3. RingBounds'
    BY <1>1, <2>1 DEF RingInv, RingBounds
  <2>4. Placed'
    BY <1>1, <2>1, <2>2 DEF RingInv, Placed
  <2>5. SlotsHold'
    BY <1>1, <2>1, <2>2 DEF RingInv, SlotsHold, Slots
  <2> QED
    BY <2>3, <2>4, <2>5 DEF RingInv
<1>3. CASE Posts(k, res) /\ cq.tail - cq.head < CqEntries
  <2>1. kernel'.taken = kernel.taken /\ kernel'.inflight = kernel.inflight \ {k}
        /\ kernel'.overflow = kernel.overflow
    BY <1>3, KernelType DEF Posts
  <2>2. Pending' = Pending \ {k} /\ k \in Pending /\ k \notin printed /\ k \in kernel.taken
        /\ k \notin Pending'
    BY <1>1, <2>1 DEF Pending, RingInv, Placed
  <2>3. RingBounds
    BY DEF RingInv
  <2>4. /\ ~InRing(TailSlot) /\ HeadSlot' = HeadSlot
        /\ cq'.tail = cq.tail + 1 /\ cq'.head = cq.head /\ cq'.synced = cq.synced
        /\ \A s \in Slots :
             /\ InRing(s)' <=> InRing(s) \/ s = TailSlot
             /\ User(s)' = IF s = TailSlot THEN k ELSE User(s)
             /\ cq'.old[s] = IF s = TailSlot THEN cq.cqes[s] ELSE cq.old[s]
    <3>1. /\ ~InRing(TailSlot) /\ HeadSlot' = HeadSlot
          /\ cq'.tail = cq.tail + 1 /\ cq'.head = cq.head /\ cq'.synced = cq.synced
          /\ \A s \in Slots :
               /\ InRing(s)' <=> InRing(s) \/ s = TailSlot
               /\ cq'.cqes[s] = IF s = TailSlot THEN Cqe(k, res) ELSE cq.cqes[s]
               /\ cq'.old[s] = IF s = TailSlot THEN cq.cqes[s] ELSE cq.old[s]
      BY <1>3, <2>3, PostTakesFreeSlot
    <3>2. Cqe(k, res).user = k
      BY DEF Cqe
    <3> QED
      BY <3>1, <3>2 DEF User
  <2>5. TailSlot \in Slots /\ cq.tail \in Nat /\ cq.head \in Nat /\ cq.synced \in Nat
    BY RingType
  <2>6. RingBounds'
    <3>1. cq.tail = cq.head \/ cq.tail = cq.head + 1
      BY <1>3, <2>3, RingCounts, RingSizes
    <3>2. cq'.tail - cq'.head \in 0 .. 2 /\ cq'.tail # cq'.head /\ cq'.synced <= cq'.tail
      BY <2>3, <2>4, <3>1, RingCounts
    <3> QED
      BY <3>2 DEF RingBounds
  <2>7. Placed'
    <3>1. \A j \in kernel.taken :
            j \in Pending' \union printed \/ \E s \in Slots : InRing(s)' /\ User(s)' = j
      <4> SUFFICES ASSUME NEW j \in kernel.taken, j \notin Pending' \union printed
                   PROVE  \E s \in Slots : InRing(s)' /\ User(s)' = j
        OBVIOUS
      <4>1. CASE j = k
        BY <2>4, <2>5, <4>1
      <4>2. CASE j # k
        <5>1. PICK s \in Slots : InRing(s) /\ User(s) = j
          BY <2>2, <4>2 DEF RingInv, Placed
        <5> QED
          BY <2>4, <5>1
      <4> QED
        BY <4>1, <4>2
    <3> QED
      BY <1>1, <2>1, <2>2, <3>1 DEF RingInv, Placed, Pending
  <2>8. SlotsHold'
    <3>1. \A s \in Slots : User(s)' # k => s # TailSlot
      BY <2>4
    <3>2. pc = "advance" => HeadSlot # TailSlot
      BY <2>3, <2>4, HeadIsInRing DEF RingBounds
    <3>3. ASSUME NEW s \in Slots, InRing(s)'
          PROVE  /\ User(s)' \in kernel'.taken \ Pending'
                 /\ User(s)' \in printed' <=> pc' = "advance" /\ s = HeadSlot'
      BY <1>1, <2>1, <2>2, <2>4, <3>2, <3>3 DEF RingInv, SlotsHold
    <3>4. ASSUME NEW s \in Slots
          PROVE  /\ ~InRing(s)' => User(s)' \in {0} \union printed'
                 /\ cq'.old[s].user \in {0} \union printed'
      BY <1>1, <2>4 DEF RingInv, SlotsHold, User
    <3>5. InRing(0)' /\ InRing(1)' => User(0)' # User(1)'
      <4>1. \A s \in Slots : InRing(s) => User(s) # k
        BY <2>2 DEF RingInv, SlotsHold
      <4> QED
        BY <2>4, <2>5, <4>1 DEF RingInv, SlotsHold, Slots
    <3> QED
      BY <3>3, <3>4, <3>5 DEF SlotsHold
  <2> QED
    BY <2>6, <2>7, <2>8 DEF RingInv
<1> QED
  BY <1>2, <1>3, PostsOrBacklogs

(* What is printed is what is in the slot at the head: what a stale load   *)
(* sees is of a read that was printed before, or of none.                  *)
LEMMA HeadIsPrinted ==
  ASSUME TypeOK, Allocated, RingInv, NEW cqe \in Visible, PrintBlocks(cqe)
  PROVE  cqe = cq.cqes[HeadSlot]
<1>1. cqe.user # 0 /\ cqe.user \notin printed
  BY PrintedIsNew DEF PrintBlocks, Allocated
<1>2. HeadSlot \in Slots
  BY RingType
<1> QED
  BY <1>1, <1>2 DEF Visible, HeadSlot, RingInv, SlotsHold

LEMMA RingAtPrint ==
  ASSUME TypeOK, Allocated, RingInv, NEW cqe \in Visible, PrintBlocks(cqe)
  PROVE  RingInv'
<1> DEFINE k == cqe.user
<1>1. /\ k = User(HeadSlot) /\ k \notin printed /\ printed' = printed \union {k}
      /\ UNCHANGED <<cq, kernel>> /\ pc = "print" /\ pc' = "advance"
  BY HeadIsPrinted, PrintedIsNew DEF PrintBlocks, User, Allocated
<1> HIDE DEF k
<1>2. cq.tail # cq.head /\ HeadSlot \in Slots /\ InRing(HeadSlot)
  BY <1>1, HeadIsInRing DEF RingInv, RingBounds
<1>3. k \in kernel.taken \ Pending
  BY <1>1, <1>2 DEF RingInv, SlotsHold
<1>4. /\ UNCHANGED <<Pending, HeadSlot>>
      /\ \A s \in Slots : InRing(s)' = InRing(s) /\ User(s)' = User(s)
  BY <1>1 DEF InRing, User, HeadSlot, Pending
<1>5. RingBounds'
  BY <1>1, <1>2 DEF RingInv, RingBounds
<1>6. Placed'
  BY <1>1, <1>3, <1>4 DEF RingInv, Placed
<1>7. \A s \in Slots : InRing(s) /\ s # HeadSlot => User(s) # k
  BY <1>1, <1>2 DEF RingInv, SlotsHold, Slots
<1>8. SlotsHold'
  BY <1>1, <1>2, <1>4, <1>7 DEF RingInv, SlotsHold, Slots
<1> QED
  BY <1>5, <1>6, <1>8 DEF RingInv

LEMMA RingAtAdvance ==
  ASSUME TypeOK, RingInv, Advance
  PROVE  RingInv'
<1>1. UNCHANGED <<kernel, printed, Pending>> /\ pc = "advance" /\ pc' = "poll"
  BY DEF Advance, output, Pending
<1>2. RingBounds /\ cq.head \in Nat /\ cq.tail \in Nat /\ HeadSlot \in Slots
  BY RingType DEF RingInv
<1>3. /\ cq'.tail = cq.tail /\ cq'.head = cq.head + 1 /\ cq'.synced = cq.synced
      /\ cq'.old = cq.old
      /\ InRing(HeadSlot)
      /\ \A s \in Slots : /\ InRing(s)' <=> InRing(s) /\ s # HeadSlot
                          /\ User(s)' = User(s)
  BY <1>2, AdvanceFreesSlot DEF User
<1>4. User(HeadSlot) \in printed
  BY <1>1, <1>2, <1>3 DEF RingInv, SlotsHold
<1>5. RingBounds'
  BY <1>1, <1>2, <1>3 DEF RingBounds
<1>6. Placed'
  BY <1>1, <1>3, <1>4 DEF RingInv, Placed
<1>7. SlotsHold'
  BY <1>1, <1>3, <1>4 DEF RingInv, SlotsHold, Slots
<1> QED
  BY <1>5, <1>6, <1>7 DEF RingInv

LEMMA RingStep == IInv /\ RingInv /\ [Next]_vars => RingInv'
<1> SUFFICES ASSUME IInv, RingInv, [Next]_vars PROVE RingInv'
  OBVIOUS
<1> USE DEF env, request, output
<1>1. TypeOK /\ Accepted /\ Allocated
  BY DEF IInv
<1>2. Open \/ SetupFails \/ Prepare \/ PollCrash \/ PollFinds \/ PollHoisted => NoRingStep
  BY DEF Open, SetupFails, Prepare, PollCrash, PollFinds, PollHoisted, NoRingStep
<1>3. PollSpins \/ Ended \/ UNCHANGED vars \/ Finish => NoRingStep
  BY DEF PollSpins, Ended, vars, Finish, NoRingStep, RingInv, RingBounds
<1>4. \A k, size, nulls : SubmitToSq(k, size, nulls) \/ SubmitCrash(k, size, nulls) => NoRingStep
  BY DEF SubmitToSq, SubmitCrash, NoRingStep
<1>5. \A cqe : CheckResult(cqe) \/ PrintCrash(cqe) \/ PrintFreed(cqe) => NoRingStep
  BY DEF CheckResult, PrintCrash, PrintFreed, NoRingStep, RingInv, RingBounds
<1>6. \A len : FileChanges(len) => NoRingStep
  BY DEF FileChanges, NoRingStep, RingInv, RingBounds
<1>7. EnterTakes => RingInv'
  BY <1>1, RingAtEnter
<1>8. EnterFails \/ WaitDone \/ WaitCut => RingInv'
  BY <1>1, RingAtReturn DEF EnterFails, WaitDone, WaitCut
<1>9. \A k \in Reqs : \A res : Complete(k, res) => RingInv'
  BY <1>1, RingAtComplete
<1>10. \A cqe \in Visible : PrintBlocks(cqe) => RingInv'
  BY <1>1, RingAtPrint
<1>11. Advance => RingInv'
  BY <1>1, RingAtAdvance
<1> QED
  BY <1>2, <1>3, <1>4, <1>5, <1>6, <1>7, <1>8, <1>9, <1>10, <1>11, RingUntouched
  DEF Next, Main, Environment

LEMMA RingInit == Init => RingInv
<1> SUFFICES ASSUME Init PROVE RingInv
  OBVIOUS
<1>1. /\ cq.head = 0 /\ cq.tail = 0 /\ cq.synced = 0 /\ pc = "open"
      /\ \A s \in Slots : cq.cqes[s].user = 0 /\ cq.old[s].user = 0
      /\ kernel = [taken |-> {}, inflight |-> {}, overflow |-> {}] /\ printed = {}
  BY RingSizes DEF Init, Cqe, Slots
<1> QED
  BY <1>1 DEF RingInv, RingBounds, Placed, SlotsHold, Pending, InRing, User

LEMMA RingHolds == Spec => [](IInv /\ RingInv)
<1>1. Init => IInv /\ RingInv
  BY IInvInit, RingInit
<1>2. IInv /\ RingInv /\ [Next]_vars => (IInv /\ RingInv)'
  BY IInvStep, RingStep
<1> QED
  BY <1>1, <1>2, PTL DEF Spec

(* The positions of the CQ at which a read is, counted by slots. *)
LEMMA PositionsOfRead ==
  ASSUME TypeOK, RingInv, NEW k \in Reqs
  PROVE  LET positions == {p \in cq.head .. cq.tail - 1 : cq.cqes[p % CqEntries].user = k}
         IN  Cardinality(positions) = IF \E s \in Slots : InRing(s) /\ User(s) = k THEN 1 ELSE 0
<1> DEFINE positions == {p \in cq.head .. cq.tail - 1 : cq.cqes[p % CqEntries].user = k}
           h == cq.head
<1>1. RingBounds
  BY DEF RingInv
<1>2. /\ h \in Nat /\ HeadSlot \in Slots /\ HeadSlot = h % CqEntries
      /\ (h + 1) % CqEntries = 1 - HeadSlot
      /\ cq.tail = h \/ cq.tail = h + 1 \/ cq.tail = h + 2
  <2>1. h \in Nat /\ (cq.tail = h \/ cq.tail = h + 1 \/ cq.tail = h + 2)
    BY <1>1, RingCounts
  <2>2. HeadSlot \in Slots /\ HeadSlot = h % CqEntries
    BY RingType DEF HeadSlot
  <2>3. (h + 1) % CqEntries = 1 - HeadSlot
    BY <2>1, <2>2, RingSizes
  <2> QED
    BY <2>1, <2>2, <2>3
<1>3. CASE cq.tail = h
  <2>1. positions = {} /\ \A s \in Slots : ~InRing(s)
    BY <1>2, <1>3 DEF InRing
  <2> QED
    BY <2>1, FS_EmptySet
<1>4. CASE cq.tail = h + 1
  <2>1. h .. cq.tail - 1 = {h} /\ \A s \in Slots : InRing(s) <=> s = HeadSlot
    BY <1>2, <1>4 DEF InRing
  <2>2. positions = IF User(HeadSlot) = k THEN {h} ELSE {}
    BY <1>2, <2>1 DEF User
  <2> QED
    BY <1>2, <2>1, <2>2, FS_EmptySet, FS_Singleton
<1>5. CASE cq.tail = h + 2
  <2>1. h .. cq.tail - 1 = {h, h + 1} /\ \A s \in Slots : InRing(s)
    BY <1>2, <1>5 DEF InRing
  <2>2. User(HeadSlot) # User(1 - HeadSlot) /\ 1 - HeadSlot \in Slots
    BY <1>2, <2>1 DEF RingInv, SlotsHold, Slots
  <2>3. positions = {p \in {h, h + 1} : User(p % CqEntries) = k}
    BY <2>1 DEF User
  <2>4. CASE User(HeadSlot) = k
    <3>1. positions = {h}
      BY <1>2, <2>2, <2>3, <2>4
    <3> QED
      BY <1>2, <2>1, <2>4, <3>1, FS_Singleton
  <2>5. CASE User(1 - HeadSlot) = k
    <3>1. positions = {h + 1}
      BY <1>2, <2>2, <2>3, <2>5
    <3> QED
      BY <1>2, <2>1, <2>2, <2>5, <3>1, FS_Singleton
  <2>6. CASE User(HeadSlot) # k /\ User(1 - HeadSlot) # k
    <3>1. positions = {}
      BY <1>2, <2>3, <2>6
    <3>2. \A s \in Slots : s = HeadSlot \/ s = 1 - HeadSlot
      BY <1>2 DEF Slots
    <3> QED
      BY <2>6, <3>1, <3>2, FS_EmptySet
  <2> QED
    BY <2>4, <2>5, <2>6
<1> QED
  BY <1>2, <1>3, <1>4, <1>5

(* No completion is lost, seen twice or in two places, however many reads  *)
(* share the two slots of the CQ.                                          *)
THEOREM ReadsAreInOnePlace == Spec => []EachReadIsInOnePlace
<1>1. IInv /\ RingInv => EachReadIsInOnePlace
  <2> SUFFICES ASSUME TypeOK, RingInv PROVE EachReadIsInOnePlace
    BY DEF IInv
  <2> SUFFICES ASSUME NEW k \in Reqs
               PROVE  LET positions == {p \in cq.head .. cq.tail - 1 :
                                           cq.cqes[p % CqEntries].user = k}
                          places == (IF k \in kernel.inflight THEN 1 ELSE 0)
                                  + (IF k \in kernel.overflow THEN 1 ELSE 0)
                                  + Cardinality(positions)
                                  + (IF SlotReleased(k) THEN 1 ELSE 0)
                      IN  places = IF k \in kernel.taken THEN 1 ELSE 0
    BY DEF EachReadIsInOnePlace
  <2> DEFINE positions == {p \in cq.head .. cq.tail - 1 : cq.cqes[p % CqEntries].user = k}
             inCq == \E s \in Slots : InRing(s) /\ User(s) = k
  <2>1. Cardinality(positions) = IF inCq THEN 1 ELSE 0
    BY PositionsOfRead
  <2>2. SlotReleased(k) <=> k \in printed /\ ~(pc = "advance" /\ User(HeadSlot) = k)
    BY DEF SlotReleased, User, HeadSlot
  <2>3. pc = "advance" => InRing(HeadSlot) /\ HeadSlot \in Slots
    BY HeadIsInRing DEF RingInv, RingBounds
  <2>4. inCq => k \in kernel.taken \ Pending /\ ~SlotReleased(k)
    <3>1. \A s \in Slots : InRing(s) /\ User(s) = k =>
             k \in kernel.taken \ Pending /\ (k \in printed <=> pc = "advance" /\ s = HeadSlot)
      BY DEF RingInv, SlotsHold
    <3> QED
      BY <2>2, <3>1
  <2>5. k \in printed /\ ~inCq => SlotReleased(k)
    BY <2>2, <2>3
  <2>6. /\ ~(k \in kernel.inflight /\ k \in kernel.overflow)
        /\ k \in Pending \/ SlotReleased(k) => k \in kernel.taken
        /\ ~(k \in Pending /\ SlotReleased(k))
        /\ k \in kernel.taken => k \in Pending \/ k \in printed \/ inCq
    BY <2>2 DEF RingInv, Placed
  <2> HIDE DEF positions, inCq
  <2>7. (IF k \in kernel.inflight THEN 1 ELSE 0) + (IF k \in kernel.overflow THEN 1 ELSE 0)
          + Cardinality(positions) + (IF SlotReleased(k) THEN 1 ELSE 0)
        = IF k \in kernel.taken THEN 1 ELSE 0
    BY <2>1, <2>4, <2>5, <2>6 DEF Pending
  <2> QED
    BY <2>7 DEF positions
<1> QED
  BY <1>1, RingHolds, PTL

(* A completion stays in its slot until its read has been printed.         *)
THEOREM CompletionsStay == Spec => UnprintedCompletionStays
<1> DEFINE stays == \A s \in 0 .. CqEntries - 1 :
                      LET k == cq.cqes[s].user
                      IN  k # 0 /\ k \notin printed => cq'.cqes[s] = cq.cqes[s]
<1>1. IInv /\ RingInv /\ [Next]_vars => [stays]_vars
  <2> SUFFICES ASSUME TypeOK, RingInv, Next, NEW s \in Slots,
                      User(s) # 0, User(s) \notin printed
               PROVE  cq'.cqes[s] = cq.cqes[s]
    BY RingSizes DEF IInv, User, Slots
  <2> USE DEF env, request, output
  <2>1. Open \/ SetupFails \/ Prepare \/ PollCrash \/ PollFinds \/ PollHoisted \/ PollSpins
          \/ Ended \/ Finish \/ EnterTakes => cq' = cq
    BY DEF Open, SetupFails, Prepare, PollCrash, PollFinds, PollHoisted, PollSpins, Ended, vars,
           Finish, EnterTakes
  <2>2. \A k, size, nulls : SubmitToSq(k, size, nulls) \/ SubmitCrash(k, size, nulls) => cq' = cq
    BY DEF SubmitToSq, SubmitCrash
  <2>3. \A cqe : CheckResult(cqe) \/ PrintBlocks(cqe) \/ PrintCrash(cqe) \/ PrintFreed(cqe)
                   => cq' = cq
    BY DEF CheckResult, PrintBlocks, PrintCrash, PrintFreed
  <2>4. \A len : FileChanges(len) => cq' = cq
    BY DEF FileChanges
  <2>5. EnterFails \/ WaitDone \/ WaitCut \/ Advance => cq'.cqes = cq.cqes
    BY DEF EnterFails, WaitDone, WaitCut, EnterReturns, Advance, TypeOK
  <2>6. ASSUME NEW k \in Reqs, NEW res, Complete(k, res)
        PROVE  cq'.cqes[s] = cq.cqes[s]
    <3>1. InRing(s)
      BY DEF RingInv, SlotsHold
    <3>2. RingBounds
      BY DEF RingInv
    <3>3. CASE Backlogs(k)
      BY <3>3 DEF Backlogs
    <3>4. CASE Posts(k, res) /\ cq.tail - cq.head < CqEntries
      BY <3>1, <3>2, <3>4, PostTakesFreeSlot
    <3> QED
      BY <2>6, <3>3, <3>4, PostsOrBacklogs
  <2> QED
    BY <2>1, <2>2, <2>3, <2>4, <2>5, <2>6 DEF Next, Main, Environment
<1> QED
  BY <1>1, RingHolds, PTL DEF Spec, UnprintedCompletionStays
-----------------------------------------------------------------------------
(* What readFromCq loads.                                                  *)

Late == {"poll", "stuck", "check", "print", "advance", "close", "exit 0", "undefined"}

(* readFromCq runs when every call of submitToSq has returned. *)
SubmissionDone ==
  /\ pc \in Late => call = Submits
  /\ \A k \in 1 .. call : entered[k] = "not yet" => k = call /\ pc \in {"enter", "wait"}

(* With one read, a call that was not cut leaves nothing to be posted. *)
SingleRead ==
  Submits = 1 /\ entered[1] \in {"done", "failed"} =>
    kernel.inflight = {} /\ cq.synced = cq.tail

ArraysAreWritten == \A k \in 1 .. call : ArrayOf(k) \notin plan[k].nulls

CallInv == SubmissionDone /\ SingleRead /\ ArraysAreWritten

SameCall ==
  /\ UNCHANGED <<call, entered, plan, kernel>>
  /\ cq'.tail = cq.tail /\ cq'.synced = cq.synced
  /\ pc' \in Late => pc \in Late
  /\ pc \in {"enter", "wait"} => pc' \in {"enter", "wait"}

LEMMA CallsUntouched == CallInv /\ SameCall => CallInv'
BY DEF CallInv, SubmissionDone, SingleRead, ArraysAreWritten, SameCall, ArrayOf, Chunk

LEMMA CallType ==
  /\ TypeOK => call \in Nat /\ call <= Submits
  /\ \A k : k \in Reqs <=> k \in Nat /\ 1 <= k /\ k <= Submits
  /\ \A k \in Reqs : k \in 1 .. k
<1>1. TypeOK => call \in 0 .. Submits
  BY DEF TypeOK
<1> QED
  BY <1>1, Bounds DEF Reqs

LEMMA CallAtSubmit ==
  ASSUME TypeOK, CallInv, NEW k \in Reqs, NEW size, NEW nulls, SubmitToSq(k, size, nulls)
  PROVE  CallInv'
<1>1. /\ k = call + 1 /\ call' = k /\ pc = "submit" /\ pc' = "enter"
      /\ plan' = [plan EXCEPT ![k] = [size |-> size, nulls |-> nulls]]
      /\ ArrayOf(k) \notin nulls
      /\ UNCHANGED <<entered, kernel, cq>>
  BY DEF SubmitToSq, WriteFaults
<1>2. /\ call \in Nat
      /\ plan \in [Reqs -> [size : {-2, -1} \union 0 .. MaxSize, nulls : SUBSET Chunks]]
  BY CallType DEF TypeOK
<1>3. 1 .. call' = 1 .. call \union {k} /\ k \notin 1 .. call
  BY <1>1, <1>2
<1>4. \A j \in 1 .. call : j \in Reqs
  <2>1. k <= Submits
    BY Bounds DEF Reqs
  <2> QED
    BY <1>1, <1>2, <2>1, Bounds DEF Reqs
<1>5. SubmissionDone'
  BY <1>1, <1>3 DEF CallInv, SubmissionDone, Late
<1>6. SingleRead'
  BY <1>1 DEF CallInv, SingleRead
<1>7. ArraysAreWritten'
  <2>1. plan'[k].nulls = nulls /\ \A j \in 1 .. call : plan'[j] = plan[j]
    BY <1>1, <1>2, <1>3, <1>4
  <2> QED
    BY <1>1, <1>3, <2>1 DEF CallInv, ArraysAreWritten, ArrayOf, Chunk
<1> QED
  BY <1>5, <1>6, <1>7 DEF CallInv

LEMMA CallAtTake ==
  ASSUME TypeOK, Accepted, CallInv, EnterTakes
  PROVE  CallInv'
<1>1. /\ UNCHANGED <<call, entered, plan, cq>> /\ pc = "enter" /\ pc' = "wait"
      /\ call \in Reqs /\ entered[call] = "not yet"
  BY DEF EnterTakes, Accepted, EntryIsOfThisCall, request
<1>2. SubmissionDone'
  BY <1>1 DEF CallInv, SubmissionDone, Late
<1>3. SingleRead'
  <2>1. Submits = 1 => call = 1
    <3>1. call \in Nat /\ 1 <= call /\ call <= Submits
      BY <1>1, CallType
    <3> QED
      BY <3>1
  <2> QED
    BY <1>1, <2>1 DEF SingleRead
<1>4. ArraysAreWritten'
  BY <1>1 DEF CallInv, ArraysAreWritten, ArrayOf, Chunk
<1> QED
  BY <1>2, <1>3, <1>4 DEF CallInv

LEMMA CallAtReturn ==
  ASSUME TypeOK, Accepted, RingInv, CallInv,
         EnterFails \/ WaitDone \/ WaitCut
  PROVE  CallInv'
<1>1. PICK result \in {"failed", "done", "cut"} :
        /\ EnterReturns(result)
        /\ result = "failed" => pc = "enter"
        /\ result = "done" => cq.tail # cq.head
        /\ pc \in {"enter", "wait"}
  <2>1. WaitDone => cq.tail # cq.head
    BY RingCounts, SMT DEF WaitDone, MinComplete, RingInv
  <2> QED
    BY <2>1 DEF EnterFails, WaitDone, WaitCut
<1>2. /\ UNCHANGED <<call, plan, kernel>> /\ cq'.tail = cq.tail /\ cq'.synced = cq.tail
      /\ entered' = [entered EXCEPT ![call] = result]
      /\ pc' = IF call < Submits THEN "submit" ELSE "poll"
  BY <1>1, RingType DEF EnterReturns, TypeOK
<1>3. call \in Reqs /\ call \in 1 .. call
  <2>1. call \in Reqs
    BY <1>1 DEF Accepted, EntryIsOfThisCall
  <2> QED
    BY <2>1, CallType
<1>4. entered'[call] = result /\ \A k \in Reqs \ {call} : entered'[k] = entered[k]
  BY <1>2, <1>3 DEF TypeOK
<1>5. SubmissionDone'
  <2>1. pc' \in Late => call' = Submits
    BY <1>2, <1>3, Bounds DEF Late, Reqs
  <2>2. \A k \in 1 .. call : k \in Reqs
    BY <1>3, Bounds DEF Reqs
  <2>3. \A k \in 1 .. call : entered'[k] # "not yet"
    BY <1>1, <1>4, <2>2 DEF CallInv, SubmissionDone
  <2> QED
    BY <1>2, <2>1, <2>3 DEF SubmissionDone
<1>6. SingleRead'
  <2> SUFFICES ASSUME Submits = 1, result \in {"done", "failed"} PROVE kernel.inflight = {}
    BY <1>2, <1>3, <1>4 DEF SingleRead, Reqs
  <2>1. call = 1 /\ Reqs = {1} /\ kernel.inflight \subseteq Reqs
    BY <1>3, KernelType DEF Reqs
  <2>2. CASE result = "failed"
    BY <1>1, <2>1, <2>2 DEF Accepted, EntryIsOfThisCall, RingInv, Placed, Pending
  <2>3. CASE result = "done"
    <3>1. InRing(HeadSlot) /\ HeadSlot \in Slots
      BY <1>1, <2>3, HeadIsInRing DEF RingInv
    <3>2. User(HeadSlot) \in kernel.taken \ Pending
      BY <3>1 DEF RingInv, SlotsHold
    <3> QED
      BY <2>1, <3>2, KernelType DEF Pending
  <2> QED
    BY <2>2, <2>3
<1>7. ArraysAreWritten'
  BY <1>2 DEF CallInv, ArraysAreWritten, ArrayOf, Chunk
<1> QED
  BY <1>5, <1>6, <1>7 DEF CallInv

LEMMA CallAtComplete ==
  ASSUME TypeOK, CallInv, NEW k \in Reqs, NEW res, Complete(k, res)
  PROVE  CallInv'
<1>1. k \in kernel.inflight /\ UNCHANGED <<call, entered, plan, pc>>
  BY DEF Complete, request
<1> QED
  BY <1>1 DEF CallInv, SubmissionDone, SingleRead, ArraysAreWritten, ArrayOf, Chunk

LEMMA CallStep == IInv /\ RingInv /\ CallInv /\ [Next]_vars => CallInv'
<1> SUFFICES ASSUME IInv, RingInv, CallInv, [Next]_vars PROVE CallInv'
  OBVIOUS
<1>1. TypeOK /\ Accepted
  BY DEF IInv
<1> USE DEF env, request, output
<1>2. Open \/ SetupFails \/ Prepare \/ PollCrash \/ PollFinds \/ PollHoisted => SameCall
  BY DEF Open, SetupFails, Prepare, PollCrash, PollFinds, PollHoisted, SameCall, Late
<1>3. PollSpins \/ Ended \/ UNCHANGED vars \/ Finish => SameCall
  BY DEF PollSpins, Ended, vars, Finish, SameCall, Late
<1>4. \A k, size, nulls : SubmitCrash(k, size, nulls) => SameCall
  BY DEF SubmitCrash, SameCall, Late
<1>5. \A cqe : CheckResult(cqe) \/ PrintBlocks(cqe) \/ PrintCrash(cqe) \/ PrintFreed(cqe)
                 => SameCall
  BY DEF CheckResult, PrintBlocks, PrintCrash, PrintFreed, SameCall, Late
<1>6. \A len : FileChanges(len) => SameCall
  BY DEF FileChanges, SameCall
<1>7. Advance => SameCall
  BY <1>1, RingType DEF Advance, SameCall, Late, TypeOK
<1>8. EnterTakes => CallInv'
  BY <1>1, CallAtTake
<1>9. EnterFails \/ WaitDone \/ WaitCut => CallInv'
  BY <1>1, CallAtReturn
<1>10. \A k \in Reqs : \A res : Complete(k, res) => CallInv'
  BY <1>1, CallAtComplete
<1>11. \A k \in Reqs : \A size, nulls : SubmitToSq(k, size, nulls) => CallInv'
  BY <1>1, CallAtSubmit
<1> QED
  BY <1>2, <1>3, <1>4, <1>5, <1>6, <1>7, <1>8, <1>9, <1>10, <1>11, CallsUntouched
  DEF Next, Main, Environment

LEMMA CallInit == Init => CallInv
<1> SUFFICES ASSUME Init PROVE CallInv
  OBVIOUS
<1>1. call = 0 /\ pc = "open" /\ \A k \in Reqs : entered[k] = "not yet"
  BY DEF Init
<1>2. 1 .. call = {}
  <2>1. call = 0
    BY <1>1
  <2> QED
    BY <2>1
<1>3. 1 \in Reqs
  BY Bounds DEF Reqs
<1> QED
  BY <1>1, <1>2, <1>3 DEF CallInv, SubmissionDone, SingleRead, ArraysAreWritten, Late
-----------------------------------------------------------------------------
(* What the racy loads can do, and what makes them harmless: a processor   *)
(* that does not load ahead, or one read that was not cut.                 *)

NoStale == "stale" \notin RaceOutcomes
Exact   == NoStale \/ (Submits = 1 /\ entered[1] # "cut")

HeadResult == cq.cqes[HeadSlot].res

LoadInv ==
  /\ pc = "undefined" => ~Exact
  /\ NoStale /\ pc = "print" => HeadResult >= 0
  /\ (NoStale \/ Submits = 1) /\ pc \in {"close", "exit 0"} => HeadResult < 0

ZeroedSlots ==
  Submits = 1 => \A s \in Slots :
    /\ cq.old[s] = Cqe(0, 0)
    /\ cq.cqes[s].user = 0 => cq.cqes[s] = Cqe(0, 0)

(* Behind a wait that was not cut, a load sees what is in the slot. *)
LEMMA ExactLoads ==
  ASSUME TypeOK, RingInv, CallInv, Exact, pc \in {"check", "print"}
  PROVE  Visible = {cq.cqes[HeadSlot]}
<1>1. CASE NoStale
  BY <1>1 DEF Visible, HeadSlot, NoStale
<1>2. CASE Submits = 1 /\ entered[1] # "cut"
  <2>1. 1 \in Reqs /\ 1 \in 1 .. call
    <3>1. call = 1
      BY <1>2 DEF CallInv, SubmissionDone, Late
    <3> QED
      BY <1>2, <3>1, Bounds DEF Reqs
  <2>2. entered[1] \in {"done", "failed"}
    BY <1>2, <2>1 DEF CallInv, SubmissionDone, TypeOK
  <2>3. cq.synced = cq.tail /\ cq.tail # cq.head
    BY <1>2, <2>2 DEF CallInv, SingleRead, RingInv, RingBounds
  <2>4. ~(cq.head >= cq.synced)
    BY <2>3, RingCounts DEF RingInv
  <2> QED
    BY <2>4 DEF Visible, HeadSlot
<1> QED
  BY <1>1, <1>2 DEF Exact

(* A completion that waits in the ring has its iovec_array. *)
LEMMA WaitingArrayIsLive ==
  ASSUME IInv, RingInv, CallInv, pc \in {"check", "print"}
  PROVE  /\ User(HeadSlot) \in kernel.taken \ printed
         /\ User(HeadSlot) \in Reqs
         /\ ArrayOf(User(HeadSlot)) \in heap
<1> DEFINE k == User(HeadSlot)
<1>1. TypeOK /\ InRing(HeadSlot) /\ HeadSlot \in Slots
  BY HeadIsInRing DEF IInv, RingInv, RingBounds
<1>2. k \in kernel.taken \ printed /\ k \in Reqs
  BY <1>1, KernelType DEF RingInv, SlotsHold
<1> HIDE DEF k
<1>3. k \in 1 .. call
  <2>1. ~(k > call)
    BY <1>2 DEF IInv, Accepted, EntryIsOfThisCall
  <2> QED
    BY <1>1, <1>2, <2>1, CallType
<1>4. ArrayOf(k) \in Parts(k, plan[k].size) \ plan[k].nulls
  BY <1>3 DEF CallInv, ArraysAreWritten, Parts
<1>5. ArrayOf(k) \in heap
  BY <1>2, <1>4, LentByIInv DEF LentMemoryIsLive
<1> QED
  BY <1>2, <1>5 DEF k

(* Most steps neither reach a load nor change the slot at the head. *)
SameLoads ==
  /\ UNCHANGED entered /\ cq'.head = cq.head /\ cq'.cqes[HeadSlot] = cq.cqes[HeadSlot]
  /\ \/ pc' = pc \/ pc' \notin {"undefined", "print", "close", "exit 0"}
     \/ pc = "close" /\ pc' = "exit 0"

LEMMA LoadsUntouched == LoadInv /\ SameLoads => LoadInv'
BY DEF LoadInv, SameLoads, HeadResult, HeadSlot, Exact

LEMMA LoadAtCheck ==
  ASSUME IInv, RingInv, CallInv, ZeroedSlots, LoadInv, NEW cqe \in Visible, CheckResult(cqe)
  PROVE  LoadInv'
<1>1. /\ UNCHANGED <<cq, entered>> /\ pc = "check"
      /\ pc' = IF cqe.res < 0 THEN "close" ELSE "print"
  BY DEF CheckResult, request
<1>2. TypeOK /\ HeadResult' = HeadResult /\ HeadSlot \in Slots
  BY <1>1, RingType DEF IInv, HeadResult, HeadSlot
<1>3. cqe.res \in Int
  BY <1>2, VisibleType
<1>4. NoStale => cqe.res = HeadResult
  BY <1>1, <1>2, ExactLoads DEF Exact, HeadResult
<1>5. Submits = 1 /\ pc' = "close" => cqe.res = HeadResult
  <2>1. cqe = cq.cqes[HeadSlot] \/ cqe = cq.old[HeadSlot]
    BY DEF Visible, HeadSlot
  <2>2. Submits = 1 /\ cqe = cq.old[HeadSlot] => cqe.res = 0
    BY <1>2 DEF ZeroedSlots, Cqe
  <2> QED
    BY <1>1, <2>1, <2>2 DEF HeadResult
<1> QED
  BY <1>1, <1>2, <1>3, <1>4, <1>5 DEF LoadInv

LEMMA LoadAtPrint ==
  ASSUME IInv, RingInv, CallInv, LoadInv, NEW cqe \in Visible, PrintFreed(cqe)
  PROVE  LoadInv'
<1>1. /\ UNCHANGED <<cq, entered>> /\ pc = "print" /\ pc' = "undefined"
      /\ ArrayOf(cqe.user) \notin heap
  BY DEF PrintFreed, request
<1>2. ~Exact
  <2>1. Exact => cqe = cq.cqes[HeadSlot]
    BY <1>1, ExactLoads DEF IInv
  <2>2. ArrayOf(User(HeadSlot)) \in heap
    BY <1>1, WaitingArrayIsLive
  <2> QED
    BY <1>1, <2>1, <2>2 DEF User
<1> QED
  BY <1>1, <1>2 DEF LoadInv, Exact

LEMMA LoadStep ==
  IInv /\ RingInv /\ CallInv /\ ZeroedSlots /\ LoadInv /\ [Next]_vars => LoadInv'
<1> SUFFICES ASSUME IInv, RingInv, CallInv, ZeroedSlots, LoadInv, [Next]_vars PROVE LoadInv'
  OBVIOUS
<1> USE DEF env, request, output
<1>1. TypeOK /\ Accepted /\ RingBounds
  BY DEF IInv, RingInv
<1>2. Open \/ SetupFails \/ Prepare \/ PollCrash \/ PollFinds \/ PollHoisted => SameLoads
  BY DEF Open, SetupFails, Prepare, PollCrash, PollFinds, PollHoisted, SameLoads
<1>3. PollSpins \/ Ended \/ UNCHANGED vars \/ Finish \/ EnterTakes => SameLoads
  BY DEF PollSpins, Ended, vars, Finish, EnterTakes, SameLoads
<1>4. \A k, size, nulls : SubmitToSq(k, size, nulls) \/ SubmitCrash(k, size, nulls) => SameLoads
  BY DEF SubmitToSq, SubmitCrash, SameLoads
<1>5. \A cqe : PrintBlocks(cqe) \/ PrintCrash(cqe) => SameLoads
  BY DEF PrintBlocks, PrintCrash, SameLoads
<1>6. \A len : FileChanges(len) => SameLoads
  BY DEF FileChanges, SameLoads
<1>7. Advance \/ EnterFails \/ WaitDone \/ WaitCut => LoadInv'
  BY DEF Advance, EnterFails, WaitDone, WaitCut, EnterReturns, LoadInv
<1>8. ASSUME NEW k \in Reqs, NEW res, Complete(k, res) PROVE LoadInv'
  <2>1. UNCHANGED <<pc, entered>>
    BY <1>8 DEF Complete
  <2>2. CASE Backlogs(k)
    BY <2>1, <2>2 DEF Backlogs, LoadInv, HeadResult, HeadSlot, Exact
  <2>3. CASE Posts(k, res) /\ cq.tail - cq.head < CqEntries
    <3>1. pc \in {"print", "close", "exit 0"} => HeadSlot # TailSlot /\ HeadSlot \in Slots
      BY <1>1, <2>3, HeadIsInRing, PostTakesFreeSlot DEF RingBounds
    <3>2. pc \in {"print", "close", "exit 0"} => HeadResult' = HeadResult
      BY <1>1, <2>3, <3>1, PostTakesFreeSlot DEF HeadResult
    <3> QED
      BY <2>1, <3>2 DEF LoadInv, Exact
  <2> QED
    BY <1>8, <2>2, <2>3, PostsOrBacklogs
<1>9. \A cqe \in Visible : CheckResult(cqe) \/ PrintFreed(cqe) => LoadInv'
  BY LoadAtCheck, LoadAtPrint
<1> QED
  BY <1>2, <1>3, <1>4, <1>5, <1>6, <1>7, <1>8, <1>9, LoadsUntouched DEF Next, Main, Environment

LEMMA ZeroedStep == IInv /\ RingInv /\ ZeroedSlots /\ [Next]_vars => ZeroedSlots'
<1> SUFFICES ASSUME TypeOK, RingInv, ZeroedSlots, [Next]_vars, Submits = 1
             PROVE  ZeroedSlots'
  BY DEF IInv, ZeroedSlots
<1> USE DEF env, request, output
<1>1. cq'.cqes = cq.cqes /\ cq'.old = cq.old => ZeroedSlots'
  BY DEF ZeroedSlots
<1>2. Open \/ SetupFails \/ Prepare \/ PollCrash \/ PollFinds \/ PollHoisted \/ PollSpins
        \/ Ended \/ Finish \/ EnterTakes \/ UNCHANGED vars => cq' = cq
  BY DEF Open, SetupFails, Prepare, PollCrash, PollFinds, PollHoisted, PollSpins, Ended, vars,
         Finish, EnterTakes
<1>3. \A k, size, nulls : SubmitToSq(k, size, nulls) \/ SubmitCrash(k, size, nulls) => cq' = cq
  BY DEF SubmitToSq, SubmitCrash
<1>4. \A cqe : CheckResult(cqe) \/ PrintBlocks(cqe) \/ PrintCrash(cqe) \/ PrintFreed(cqe)
                 => cq' = cq
  BY DEF CheckResult, PrintBlocks, PrintCrash, PrintFreed
<1>5. \A len : FileChanges(len) => cq' = cq
  BY DEF FileChanges
<1>6. EnterFails \/ WaitDone \/ WaitCut \/ Advance => cq'.cqes = cq.cqes /\ cq'.old = cq.old
  BY DEF EnterFails, WaitDone, WaitCut, EnterReturns, Advance, TypeOK
<1>7. ASSUME NEW k \in Reqs, NEW res, Complete(k, res) PROVE ZeroedSlots'
  <2>1. CASE Backlogs(k)
    BY <1>1, <2>1 DEF Backlogs
  <2>2. CASE Posts(k, res) /\ cq.tail - cq.head < CqEntries
    <3>1. User(TailSlot) = 0
      <4>1. k \in Pending /\ Reqs = {1} /\ TailSlot \in Slots
        BY <1>7, RingType DEF Complete, Pending, Reqs
      <4>2. printed = {}
        BY <4>1, KernelType DEF RingInv, Placed, TypeOK
      <4>3. ~InRing(TailSlot)
        BY <2>2, PostTakesFreeSlot DEF RingInv
      <4> QED
        BY <4>1, <4>2, <4>3 DEF RingInv, SlotsHold
    <3>2. Cqe(k, res).user # 0
      BY ReqsAreNumbers DEF Cqe
    <3>3. \A s \in Slots :
            /\ cq'.cqes[s] = IF s = TailSlot THEN Cqe(k, res) ELSE cq.cqes[s]
            /\ cq'.old[s] = IF s = TailSlot THEN cq.cqes[s] ELSE cq.old[s]
      BY <2>2, PostTakesFreeSlot DEF RingInv
    <3> QED
      BY <3>1, <3>2, <3>3 DEF ZeroedSlots, User
  <2> QED
    BY <1>7, <2>1, <2>2, PostsOrBacklogs
<1> QED
  BY <1>1, <1>2, <1>3, <1>4, <1>5, <1>6, <1>7 DEF Next, Main, Environment

RInv == IInv /\ RingInv /\ CallInv /\ ZeroedSlots /\ LoadInv

LEMMA RInvInit == Init => RInv
<1> SUFFICES ASSUME Init PROVE RInv
  OBVIOUS
<1>1. LoadInv /\ ZeroedSlots
  BY RingSizes DEF Init, LoadInv, ZeroedSlots, Slots
<1> QED
  BY <1>1, IInvInit, RingInit, CallInit DEF RInv

LEMMA RInvHolds == Spec => []RInv
<1>1. RInv /\ [Next]_vars => RInv'
  BY IInvStep, RingStep, CallStep, ZeroedStep, LoadStep DEF RInv
<1> QED
  BY <1>1, RInvInit, PTL DEF Spec

(* In main, which queues one read, the racy loads of readFromCq are        *)
(* harmless unless a signal cut the wait.                                  *)
THEOREM RacesNeedACutWait == Spec => []RaceNeedsACutWait
<1>1. RInv => RaceNeedsACutWait
  <2> SUFFICES ASSUME RInv, Submits = 1, entered[1] # "cut"
               PROVE  /\ pc = "stuck" => kernel.inflight = {}
                      /\ pc \in {"check", "print"} =>
                           Visible = {cq.cqes[cq.head % CqEntries]}
                      /\ pc # "undefined"
    BY DEF RaceNeedsACutWait
  <2>1. Exact
    BY DEF Exact
  <2>2. pc # "undefined"
    BY <2>1 DEF RInv, LoadInv
  <2>3. pc \in {"check", "print"} => Visible = {cq.cqes[cq.head % CqEntries]}
    BY <2>1, ExactLoads DEF RInv, IInv, HeadSlot
  <2>4. pc = "stuck" => kernel.inflight = {}
    <3> SUFFICES ASSUME pc = "stuck" PROVE kernel.inflight = {}
      OBVIOUS
    <3>1. call = 1
      BY DEF RInv, CallInv, SubmissionDone, Late
    <3>2. 1 \in Reqs /\ 1 \in 1 .. call
      BY <3>1, Bounds DEF Reqs
    <3>3. entered[1] \in {"done", "failed"}
      BY <3>2 DEF RInv, CallInv, SubmissionDone, IInv, TypeOK
    <3> QED
      BY <3>3 DEF RInv, CallInv, SingleRead
  <2> QED
    BY <2>2, <2>3, <2>4
<1> QED
  BY <1>1, RInvHolds, PTL

(* main returns 0 only when the completion at the head is of a read that   *)
(* failed.  With several reads and a processor that loads ahead it may be  *)
(* an older completion that is taken for it.                               *)
THEOREM ZeroExitIsAFailedRead ==
  ASSUME Submits = 1 \/ "stale" \notin RaceOutcomes
  PROVE  Spec => []ZeroExitMeansFailedRead
<1>1. RInv => ZeroExitMeansFailedRead
  <2> SUFFICES ASSUME RInv, pc \in {"close", "exit 0"}
               PROVE  cq.head < cq.tail /\ cq.cqes[cq.head % CqEntries].res < 0
    BY DEF ZeroExitMeansFailedRead
  <2>1. HeadResult < 0
    BY DEF RInv, LoadInv, NoStale
  <2>2. cq.head < cq.tail
    <3>1. cq.tail # cq.head /\ RingBounds /\ TypeOK
      BY DEF RInv, RingInv, RingBounds, IInv
    <3> QED
      BY <3>1, RingCounts
  <2> QED
    BY <2>1, <2>2 DEF HeadResult, HeadSlot
<1> QED
  BY <1>1, RInvHolds, PTL

(* However many reads are queued, fail or are cut, readFromCq uses no      *)
(* iovec_array that it has freed, if loads are not taken ahead.            *)
THEOREM NothingIsUsedAfterFree ==
  ASSUME "stale" \notin RaceOutcomes
  PROVE  Spec => [](pc # "undefined")
<1>1. RInv => pc # "undefined"
  BY DEF RInv, LoadInv, Exact, NoStale
<1> QED
  BY <1>1, RInvHolds, PTL
-----------------------------------------------------------------------------
(* The refinement of ReadService.                                          *)

StatesNow == [k \in Reqs |-> ReadState(k)]

Entries     == [read : Reqs, ok : BOOLEAN]
AnswerAt(p) == [read |-> cq.cqes[p % CqEntries].user, ok |-> cq.cqes[p % CqEntries].res >= 0]
First       == cq.head + (IF pc = "advance" THEN 1 ELSE 0)

LEMMA UntakenByPosition ==
  Untaken = [i \in 1 .. cq.tail - First |-> AnswerAt(First + i - 1)]
BY DEF Untaken, First, AnswerAt

LEMMA PositionInRing ==
  ASSUME TypeOK, RingBounds, NEW p \in cq.head .. cq.tail - 1
  PROVE  p % CqEntries \in Slots /\ InRing(p % CqEntries)
<1>1. /\ cq.head \in Nat
      /\ cq.tail = cq.head \/ cq.tail = cq.head + 1 \/ cq.tail = cq.head + 2
  BY RingCounts
<1>2. p \in Nat /\ p % CqEntries \in Slots
  BY <1>1, RingSizes DEF Slots
<1>3. cq.tail - cq.head = 2 \/ (cq.tail - cq.head = 1 /\ p = cq.head)
  BY <1>1, <1>2
<1> QED
  BY <1>2, <1>3 DEF InRing, HeadSlot

UntakenOK ==
  /\ Untaken \in Seq(Entries)
  /\ First \in cq.head .. cq.tail /\ First \in Nat
  /\ Len(Untaken) = cq.tail - First /\ Len(Untaken) \in Nat
  /\ \A i \in 1 .. Len(Untaken), p \in Nat : p = First + i - 1 => Untaken[i] = AnswerAt(p)

LEMMA UntakenType == TypeOK /\ RingInv => UntakenOK
<1> SUFFICES ASSUME TypeOK, RingInv PROVE UntakenOK
  OBVIOUS
<1> DEFINE n == cq.tail - First
<1>1. /\ cq.head \in Nat /\ cq.tail \in Nat
      /\ cq.tail = cq.head \/ cq.tail = cq.head + 1 \/ cq.tail = cq.head + 2
  BY RingCounts DEF RingInv
<1>2. First = cq.head \/ (First = cq.head + 1 /\ cq.tail # cq.head)
  <2>1. CASE pc = "advance"
    BY <1>1, <2>1 DEF First, RingInv, RingBounds
  <2>2. CASE pc # "advance"
    BY <1>1, <2>2 DEF First
  <2> QED
    BY <2>1, <2>2
<1>3. First \in cq.head .. cq.tail /\ First \in Nat /\ n \in Nat
  BY <1>1, <1>2
<1>4. ASSUME NEW i \in 1 .. n PROVE AnswerAt(First + i - 1) \in Entries
  <2>1. First + i - 1 \in cq.head .. cq.tail - 1
    BY <1>1, <1>3
  <2>2. User((First + i - 1) % CqEntries) \in Reqs
    BY <2>1, PositionInRing, KernelType DEF RingInv, SlotsHold
  <2> QED
    BY <2>2 DEF AnswerAt, Entries, User
<1>5. Untaken = [i \in 1 .. n |-> AnswerAt(First + i - 1)]
  BY UntakenByPosition
<1> HIDE DEF n
<1>6. Untaken \in [1 .. n -> Entries]
  BY <1>4, <1>5
<1>7. Untaken \in Seq(Entries) /\ Len(Untaken) = n
  BY <1>3, <1>6, SeqDef, LenProperties
<1> QED
  BY <1>3, <1>5, <1>7 DEF n, UntakenOK

LEMMA UntakenAtPost ==
  ASSUME TypeOK, TypeOK', RingInv, RingInv', NEW k \in Reqs, NEW res, Posts(k, res),
         cq.tail - cq.head < CqEntries, pc' = pc
  PROVE  Untaken' = Append(Untaken, [read |-> k, ok |-> res >= 0])
<1> DEFINE new == [read |-> k, ok |-> res >= 0]
           n == Len(Untaken)
<1>1. /\ ~InRing(TailSlot) /\ TailSlot \in Slots /\ cq.head \in Nat /\ cq.tail \in Nat
      /\ cq'.tail = cq.tail + 1 /\ cq'.head = cq.head
      /\ \A s \in Slots : cq'.cqes[s] = IF s = TailSlot THEN Cqe(k, res) ELSE cq.cqes[s]
  BY PostTakesFreeSlot, RingType DEF RingInv
<1>2. First' = First
  BY <1>1 DEF First
<1>3. UntakenOK /\ UntakenOK'
  BY UntakenType, PTL
<1>4. /\ Untaken \in Seq(Entries) /\ Untaken' \in Seq(Entries) /\ n \in Nat
      /\ First \in Nat /\ cq.head <= First /\ n = cq.tail - First /\ Len(Untaken') = n + 1
  BY <1>1, <1>2, <1>3 DEF UntakenOK
<1>5. ASSUME NEW i \in 1 .. n PROVE Untaken'[i] = Untaken[i]
  <2>1. PICK p \in cq.head .. cq.tail - 1 : p = First + i - 1
    BY <1>1, <1>4
  <2>2. p \in Nat /\ p % CqEntries \in Slots /\ p % CqEntries # TailSlot
    BY <1>1, <2>1, PositionInRing DEF RingInv
  <2>3. AnswerAt(p)' = AnswerAt(p)
    BY <1>1, <2>2 DEF AnswerAt
  <2>4. Untaken[i] = AnswerAt(p) /\ Untaken'[i] = AnswerAt(p)'
    <3>1. i \in 1 .. Len(Untaken')
      BY <1>4
    <3> QED
      BY <1>2, <1>3, <2>1, <2>2, <3>1 DEF UntakenOK
  <2> QED
    BY <2>3, <2>4
<1>6. Untaken'[n + 1] = new /\ new \in Entries
  <2>1. n + 1 \in 1 .. Len(Untaken') /\ cq.tail = First + (n + 1) - 1
    BY <1>1, <1>4
  <2>2. Untaken'[n + 1] = new
    <3>1. \A i \in 1 .. Len(Untaken'), p \in Nat :
            p = First + i - 1 => Untaken'[i] = [read |-> cq'.cqes[p % CqEntries].user,
                                                ok |-> cq'.cqes[p % CqEntries].res >= 0]
      BY <1>2, <1>3 DEF UntakenOK, AnswerAt
    <3>2. Untaken'[n + 1] = [read |-> cq'.cqes[cq.tail % CqEntries].user,
                             ok |-> cq'.cqes[cq.tail % CqEntries].res >= 0]
      BY <1>1, <2>1, <3>1
    <3>3. cq'.cqes[cq.tail % CqEntries] = Cqe(k, res)
      BY <1>1 DEF TailSlot
    <3> QED
      BY <3>2, <3>3 DEF Cqe
  <2>3. new \in Entries
    BY DEF Entries
  <2> QED
    BY <2>2, <2>3
<1> HIDE DEF new
<1>7. /\ Append(Untaken, new) \in Seq(Entries) /\ Len(Append(Untaken, new)) = n + 1
      /\ \A i \in 1 .. n : Append(Untaken, new)[i] = Untaken[i]
      /\ Append(Untaken, new)[n + 1] = new
  BY <1>4, <1>6, AppendProperties
<1>8. \A i \in 1 .. Len(Untaken') : Untaken'[i] = Append(Untaken, new)[i]
  <2>1. ASSUME NEW i \in 1 .. Len(Untaken') PROVE i \in 1 .. n \/ i = n + 1
    BY <1>4
  <2> QED
    BY <1>5, <1>6, <1>7, <2>1
<1>9. Untaken' = Append(Untaken, new)
  BY <1>4, <1>7, <1>8, SeqEqual
<1> QED
  BY <1>9 DEF new

LEMMA UntakenAtPrint ==
  ASSUME TypeOK, TypeOK', RingInv, RingInv', cq' = cq, pc = "print", pc' = "advance"
  PROVE  /\ Untaken # <<>> /\ Head(Untaken) = AnswerAt(cq.head)
         /\ Untaken' = Tail(Untaken)
<1>1. /\ First = cq.head /\ First' = cq.head + 1 /\ cq.tail # cq.head
      /\ cq.head \in Nat /\ cq.tail \in Nat
  BY RingType DEF First, RingInv, RingBounds
<1>2. UntakenOK /\ UntakenOK'
  BY UntakenType, PTL
<1>3. /\ Untaken \in Seq(Entries) /\ Untaken' \in Seq(Entries)
      /\ Len(Untaken) = cq.tail - cq.head /\ Len(Untaken) \in Nat \ {0}
      /\ Len(Untaken') = Len(Untaken) - 1
  BY <1>1, <1>2 DEF UntakenOK
<1>4. Untaken # <<>> /\ Head(Untaken) = Untaken[1]
  BY <1>3, EmptySeq, HeadTailProperties
<1>5. Head(Untaken) = AnswerAt(cq.head)
  <2>1. 1 \in 1 .. Len(Untaken) /\ cq.head = First + 1 - 1
    BY <1>1, <1>3
  <2> QED
    BY <1>1, <1>2, <1>4, <2>1 DEF UntakenOK
<1>6. /\ Tail(Untaken) \in Seq(Entries) /\ Len(Tail(Untaken)) = Len(Untaken) - 1
      /\ \A i \in 1 .. Len(Untaken) - 1 : Tail(Untaken)[i] = Untaken[i + 1]
  BY <1>3, <1>4, HeadTailProperties
<1>7. ASSUME NEW i \in 1 .. Len(Untaken') PROVE Untaken'[i] = Tail(Untaken)[i]
  <2>1. PICK p \in Nat : p = cq.head + i
    BY <1>1, <1>3
  <2>2. i \in 1 .. Len(Untaken) - 1 /\ i + 1 \in 1 .. Len(Untaken) /\ i \in Nat
    BY <1>3
  <2>3. p = cq.head + (i + 1) - 1 /\ p = cq.head + 1 + i - 1
    BY <1>1, <2>1, <2>2
  <2>4. Untaken[i + 1] = AnswerAt(p)
    BY <1>1, <1>2, <2>2, <2>3 DEF UntakenOK
  <2>5. Untaken'[i] = AnswerAt(p)
    BY <1>1, <1>2, <2>2, <2>3 DEF UntakenOK, AnswerAt
  <2> QED
    BY <1>6, <2>2, <2>4, <2>5
<1>8. Untaken' = Tail(Untaken)
  BY <1>3, <1>6, <1>7, SeqEqual
<1> QED
  BY <1>4, <1>5, <1>8

(* ReadState, by the disjoint places of Placed. *)
StatesByPlace ==
  StatesNow = [k \in Reqs |-> IF k \in printed THEN "printed"
                              ELSE IF k \in Pending THEN "running"
                              ELSE IF k \in kernel.taken THEN "answered"
                              ELSE IF entered[k] = "failed" THEN "refused" ELSE "new"]

LEMMA PlacesOfReads == TypeOK /\ RingInv => StatesByPlace
<1> SUFFICES ASSUME TypeOK, RingInv, NEW k \in Reqs
             PROVE  ReadState(k) = IF k \in printed THEN "printed"
                                   ELSE IF k \in Pending THEN "running"
                                   ELSE IF k \in kernel.taken THEN "answered"
                                   ELSE IF entered[k] = "failed" THEN "refused" ELSE "new"
  BY DEF StatesByPlace, StatesNow
<1>1. Pending \union printed \subseteq kernel.taken /\ Pending \intersect printed = {}
  BY DEF RingInv, Placed
<1>2. CASE k \in printed
  BY <1>1, <1>2 DEF ReadState, Pending
<1>3. CASE k \in Pending
  BY <1>1, <1>3 DEF ReadState, Pending
<1>4. CASE k \in kernel.taken \ (Pending \union printed)
  BY <1>1, <1>4 DEF ReadState, Pending
<1>5. CASE k \notin kernel.taken
  BY <1>1, <1>5 DEF ReadState, Pending
<1> QED
  BY <1>2, <1>3, <1>4, <1>5

LEMMA PlacesBothWays == RInv /\ RInv' => StatesByPlace /\ StatesByPlace'
<1>1. RInv => StatesByPlace
  BY PlacesOfReads DEF RInv, IInv
<1> QED
  BY <1>1, PTL

(* The steps that the service does not see, or sees stop.                  *)
Unseen ==
  /\ UNCHANGED <<printed, kernel, entered>>
  /\ cq'.head = cq.head /\ cq'.tail = cq.tail /\ cq'.cqes = cq.cqes
  /\ pc' = "advance" <=> pc = "advance"
  /\ Serving' => Serving

LEMMA UnseenStops == Unseen => Service!Stop \/ UNCHANGED Service!vars
<1> SUFFICES ASSUME Unseen PROVE Service!Stop \/ UNCHANGED Service!vars
  OBVIOUS
<1>1. UNCHANGED <<StatesNow, Untaken>>
  BY DEF Unseen, StatesNow, ReadState, Untaken
<1>2. Serving \in BOOLEAN /\ Serving' \in BOOLEAN /\ (Serving' => Serving)
  BY DEF Unseen, Serving, Running
<1> QED
  BY <1>1, <1>2 DEF Service!Stop, Service!vars, StatesNow

LEMMA ServiceUnseen ==
  ASSUME RInv
  PROVE  /\ Open \/ SetupFails \/ Prepare \/ PollCrash \/ PollFinds \/ PollHoisted \/ PollSpins
               \/ Ended \/ Finish \/ UNCHANGED vars => Unseen
         /\ \A k, size, nulls : SubmitToSq(k, size, nulls) \/ SubmitCrash(k, size, nulls) => Unseen
         /\ \A cqe : CheckResult(cqe) \/ PrintCrash(cqe) \/ PrintFreed(cqe) => Unseen
         /\ \A len : FileChanges(len) => Unseen
<1> USE DEF env, request, output, Unseen, Serving, Running
<1>1. Open \/ SetupFails \/ Prepare \/ PollCrash \/ PollFinds \/ PollHoisted => Unseen
  BY DEF Open, SetupFails, Prepare, PollCrash, PollFinds, PollHoisted
<1>2. PollSpins \/ Ended \/ Finish \/ UNCHANGED vars => Unseen
  BY DEF PollSpins, Ended, Finish, vars
<1>3. \A k, size, nulls : SubmitToSq(k, size, nulls) \/ SubmitCrash(k, size, nulls) => Unseen
  BY DEF SubmitToSq, SubmitCrash
<1>4. \A cqe : CheckResult(cqe) \/ PrintCrash(cqe) \/ PrintFreed(cqe) => Unseen
  BY DEF CheckResult, PrintCrash, PrintFreed
<1>5. \A len : FileChanges(len) => Unseen
  BY DEF FileChanges
<1> QED
  BY <1>1, <1>2, <1>3, <1>4, <1>5

(* A read whose call has returned is accepted or refused. *)
LEMMA ReturnedReads ==
  ASSUME RInv, NEW j \in 1 .. call, j # call \/ pc \notin {"enter", "wait"}
  PROVE  j \in Reqs /\ StatesNow[j] # "new"
<1>1. TypeOK /\ Accepted /\ CallInv /\ RingInv
  BY DEF RInv, IInv
<1>2. j \in Reqs
  <2>1. call \in Nat /\ call <= Submits
    BY <1>1, CallType
  <2> QED
    BY <2>1, Bounds DEF Reqs
<1>3. entered[j] \in {"failed", "done", "cut"}
  BY <1>1, <1>2 DEF CallInv, SubmissionDone, TypeOK
<1>4. entered[j] = "failed" \/ j \in kernel.taken
  BY <1>1, <1>2, <1>3 DEF Accepted, OnlyAcceptedReadsRun
<1> QED
  BY <1>1, <1>2, <1>4, PlacesOfReads DEF StatesByPlace

LEMMA CallIsNext ==
  ASSUME RInv, pc = "enter"
  PROVE  /\ call \in Reqs /\ call \notin kernel.taken \union Pending \union printed
         /\ entered[call] = "not yet"
         /\ StatesNow[call] = "new" /\ \A j \in 1 .. call - 1 : StatesNow[j] # "new"
<1>1. TypeOK /\ Accepted /\ RingInv
  BY DEF RInv, IInv
<1>2. call \in Reqs /\ call \notin kernel.taken /\ entered[call] = "not yet"
  BY <1>1 DEF Accepted, EntryIsOfThisCall
<1>3. call \notin Pending \union printed
  BY <1>1, <1>2 DEF RingInv, Placed
<1>4. StatesNow[call] = "new"
  BY <1>1, <1>2, <1>3, PlacesOfReads DEF StatesByPlace
<1>5. ASSUME NEW j \in 1 .. call - 1 PROVE StatesNow[j] # "new"
  <2>1. call \in Nat
    BY <1>1, CallType
  <2>2. j \in 1 .. call /\ j # call
    BY <2>1
  <2> QED
    BY <2>2, ReturnedReads
<1> QED
  BY <1>2, <1>3, <1>4, <1>5

(* io_uring_enter takes the entry of its call, which is the next in order. *)
LEMMA ServiceAtTake ==
  ASSUME RInv, RInv', EnterTakes
  PROVE  call \in Reqs /\ Service!Accept(call)
<1>1. TypeOK /\ Accepted
  BY DEF RInv, IInv
<1>2. /\ pc = "enter" /\ pc' = "wait"
      /\ kernel' = [kernel EXCEPT !.taken = @ \union {call}, !.inflight = @ \union {call}]
      /\ UNCHANGED <<cq, printed, entered>>
  <2>1. sq.head % SqEntries = 0
    BY <1>1, SlotZero DEF TypeOK
  <2> QED
    BY <1>1, <2>1 DEF EnterTakes, Accepted, EntryIsOfThisCall, output, request
<1>3. kernel'.taken = kernel.taken \union {call} /\ Pending' = Pending \union {call}
  BY <1>1, <1>2, KernelType DEF Pending
<1>4. StatesNow' = [StatesNow EXCEPT ![call] = "running"]
  BY <1>2, <1>3, CallIsNext, PlacesBothWays DEF StatesByPlace
<1>5. UNCHANGED Untaken /\ Serving /\ Serving'
  BY <1>2 DEF Untaken, Serving, Running
<1> QED
  BY <1>2, <1>4, <1>5, CallIsNext DEF Service!Accept, Service!InOrder, StatesNow

(* What io_uring_enter leaves to the next call when it returns. *)
LEMMA ReturnKeepsAnswers ==
  ASSUME TypeOK, NEW result, EnterReturns(result), pc \in {"enter", "wait"}
  PROVE  /\ UNCHANGED <<kernel, printed, Untaken>> /\ Serving /\ Serving'
         /\ entered' = [entered EXCEPT ![call] = result]
<1>1. /\ cq'.head = cq.head /\ cq'.tail = cq.tail /\ cq'.cqes = cq.cqes
      /\ UNCHANGED <<kernel, printed>> /\ pc' \in {"submit", "poll"}
      /\ entered' = [entered EXCEPT ![call] = result]
  BY DEF EnterReturns, TypeOK, output
<1>2. UNCHANGED Untaken
  BY <1>1 DEF Untaken
<1> QED
  BY <1>1, <1>2 DEF Serving, Running

LEMMA ServiceAtRefusal ==
  ASSUME RInv, RInv', EnterFails
  PROVE  call \in Reqs /\ Service!Refuse(call)
<1>1. TypeOK /\ pc = "enter" /\ EnterReturns("failed")
  BY DEF RInv, IInv, EnterFails
<1>2. /\ UNCHANGED <<kernel, printed, Untaken>> /\ Serving /\ Serving'
      /\ entered' = [entered EXCEPT ![call] = "failed"]
  BY <1>1, ReturnKeepsAnswers
<1>3. UNCHANGED Pending /\ \A k \in Reqs : entered'[k] = IF k = call THEN "failed" ELSE entered[k]
  BY <1>1, <1>2 DEF Pending, TypeOK
<1>4. StatesNow' = [StatesNow EXCEPT ![call] = "refused"]
  <2>1. UNCHANGED <<kernel, printed>>
    BY <1>2
  <2>2. call \in Reqs /\ call \notin kernel.taken \union Pending \union printed
    BY <1>1, CallIsNext
  <2> QED
    BY <1>3, <2>1, <2>2, PlacesBothWays DEF StatesByPlace
<1> QED
  BY <1>1, <1>2, <1>4, CallIsNext DEF Service!Refuse, Service!InOrder, StatesNow

LEMMA ServiceAtReturn ==
  ASSUME RInv, RInv', WaitDone \/ WaitCut
  PROVE  UNCHANGED Service!vars
<1>1. PICK result \in {"done", "cut"} : pc = "wait" /\ EnterReturns(result)
  BY DEF WaitDone, WaitCut
<1>2. TypeOK /\ call \in kernel.taken
  BY <1>1 DEF RInv, IInv, Accepted, EntryIsOfThisCall
<1>3. /\ UNCHANGED <<kernel, printed, Untaken>> /\ Serving /\ Serving'
      /\ entered' = [entered EXCEPT ![call] = result]
  BY <1>1, <1>2, ReturnKeepsAnswers
<1>4. UNCHANGED Pending /\ \A k \in Reqs \ kernel.taken : entered'[k] = entered[k]
  BY <1>2, <1>3 DEF Pending, TypeOK
<1>5. UNCHANGED StatesNow
  BY <1>3, <1>4, PlacesBothWays DEF StatesByPlace
<1> QED
  BY <1>3, <1>5 DEF Service!vars, StatesNow

(* A completion that finds room is an answer; in the backlog it is not yet. *)
LEMMA ServiceAtCompletion ==
  ASSUME RInv, RInv', NEW k \in Reqs, NEW res, Complete(k, res)
  PROVE  (\E ok \in BOOLEAN : Service!Answer(k, ok)) \/ UNCHANGED Service!vars
<1>1. TypeOK /\ TypeOK' /\ RingInv /\ RingInv'
  BY DEF RInv, IInv
<1>2. k \in kernel.inflight /\ UNCHANGED <<pc, printed, entered>> /\ Serving' = Serving
  BY DEF Complete, output, request, Serving, Running
<1>3. CASE Backlogs(k)
  <2>1. cq' = cq /\ kernel'.taken = kernel.taken /\ UNCHANGED Pending
    BY <1>1, <1>2, <1>3, KernelType DEF Backlogs, Pending
  <2>2. UNCHANGED <<StatesNow, Untaken>>
    BY <1>2, <2>1, PlacesBothWays DEF StatesByPlace, Untaken
  <2> QED
    BY <1>2, <2>2 DEF Service!vars, StatesNow
<1>4. CASE Posts(k, res) /\ cq.tail - cq.head < CqEntries
  <2>1. kernel'.taken = kernel.taken /\ Pending' = Pending \ {k}
    BY <1>1, <1>2, <1>4, KernelType DEF Posts, Pending, RingInv, Placed
  <2>2. k \in Pending /\ k \notin printed /\ k \in kernel.taken
    BY <1>1, <1>2 DEF Pending, RingInv, Placed
  <2>3. StatesNow[k] = "running" /\ StatesNow' = [StatesNow EXCEPT ![k] = "answered"]
    BY <1>2, <2>1, <2>2, PlacesBothWays DEF StatesByPlace
  <2>4. Untaken' = Append(Untaken, [read |-> k, ok |-> res >= 0])
    BY <1>1, <1>2, <1>4, UntakenAtPost
  <2> DEFINE ok == res >= 0
  <2>5. Service!Answer(k, ok)
    BY <1>2, <2>3, <2>4 DEF Service!Answer, StatesNow
  <2>6. ok \in BOOLEAN
    OBVIOUS
  <2> HIDE DEF ok
  <2> QED
    BY <2>5, <2>6
<1> QED
  BY <1>3, <1>4, PostsOrBacklogs

(* Printing takes the oldest answer, which is good if loads are exact.     *)
LEMMA ServiceAtPrint ==
  ASSUME RInv, RInv', NoStale, NEW cqe \in Visible, PrintBlocks(cqe)
  PROVE  Service!PrintOldest
<1>1. /\ TypeOK /\ TypeOK' /\ RingInv /\ RingInv' /\ CallInv /\ LoadInv /\ Allocated
  BY DEF RInv, IInv
<1>2. /\ pc = "print" /\ pc' = "advance" /\ UNCHANGED <<cq, kernel, entered>>
      /\ printed' = printed \union {User(HeadSlot)}
  BY <1>1, HeadIsPrinted DEF PrintBlocks, User, request
<1>3. Untaken # <<>> /\ Head(Untaken) = AnswerAt(cq.head) /\ Untaken' = Tail(Untaken)
  BY <1>1, <1>2, UntakenAtPrint
<1>4. Head(Untaken).read = User(HeadSlot) /\ Head(Untaken).ok
  <2>1. HeadResult >= 0
    BY <1>1, <1>2 DEF LoadInv
  <2>2. Head(Untaken) = [read |-> User(HeadSlot), ok |-> HeadResult >= 0]
    BY <1>3 DEF AnswerAt, User, HeadSlot, HeadResult
  <2>3. (HeadResult >= 0) = TRUE
    BY <2>1
  <2>4. Head(Untaken) = [read |-> User(HeadSlot), ok |-> TRUE]
    BY <2>2, <2>3
  <2> QED
    BY <2>4
<1>5. User(HeadSlot) \in Reqs
  BY <1>2, WaitingArrayIsLive DEF RInv
<1>6. StatesNow' = [StatesNow EXCEPT ![User(HeadSlot)] = "printed"]
  BY <1>2, <1>5, PlacesBothWays DEF StatesByPlace, Pending
<1>7. \A k \in Reqs : StatesNow[k] # "new"
  <2>1. call = Submits
    BY <1>1, <1>2 DEF CallInv, SubmissionDone, Late
  <2> QED
    BY <1>2, <2>1, ReturnedReads DEF Reqs
<1>8. Serving /\ Serving'
  BY <1>2 DEF Serving, Running
<1> QED
  BY <1>3, <1>4, <1>6, <1>7, <1>8 DEF Service!PrintOldest, Service!Reads, StatesNow, Reqs

LEMMA ServiceAtAdvance ==
  ASSUME RInv, RInv', Advance
  PROVE  UNCHANGED Service!vars
<1>1. /\ pc = "advance" /\ pc' = "poll" /\ UNCHANGED <<kernel, printed, entered>>
      /\ cq'.head = cq.head + 1 /\ cq'.tail = cq.tail /\ cq'.cqes = cq.cqes
      /\ cq.head \in Nat
  BY RingType DEF Advance, TypeOK, output, request, RInv, IInv
<1>2. First' = First
  BY <1>1 DEF First
<1>3. UNCHANGED Untaken
  <2>1. Untaken' = [i \in 1 .. cq.tail - First |-> AnswerAt(First + i - 1)]
    BY <1>1, <1>2 DEF Untaken, First, AnswerAt
  <2> QED
    BY <2>1, UntakenByPosition
<1>4. UNCHANGED StatesNow /\ Serving /\ Serving'
  BY <1>1 DEF StatesNow, ReadState, Serving, Running
<1> QED
  BY <1>3, <1>4 DEF Service!vars, StatesNow

(* The ring and its memory implement ReadService, for every number of      *)
(* reads and whatever fails, if loads are not taken ahead.                 *)
THEOREM RingIsReadService ==
  ASSUME "stale" \notin RaceOutcomes
  PROVE  Spec => ImplementsReadService
<1>1. Init => Service!Init
  <2> SUFFICES ASSUME Init PROVE Service!Init
    OBVIOUS
  <2>1. StatesNow = [k \in Reqs |-> "new"] /\ Untaken = <<>> /\ Serving
    <3>1. RInv
      BY RInvInit
    <3>2. StatesNow = [k \in Reqs |-> "new"]
      BY <3>1, PlacesOfReads DEF Init, StatesByPlace, Pending, RInv, IInv
    <3>3. Untaken \in Seq(Entries) /\ Len(Untaken) = 0
      <4>1. UntakenOK
        BY <3>1, UntakenType DEF RInv, IInv
      <4>2. cq.tail = 0 /\ cq.head = 0 /\ First = 0 + 0
        BY DEF Init, First
      <4> QED
        BY <4>1, <4>2 DEF UntakenOK
    <3>4. Serving
      BY DEF Init, Serving, Running
    <3> QED
      BY <3>2, <3>3, <3>4, EmptySeq
  <2> QED
    BY <2>1 DEF Service!Init, Service!Reads, StatesNow, Reqs
<1>2. RInv /\ RInv' /\ [Next]_vars => [Service!Next]_(Service!vars)
  <2> SUFFICES ASSUME RInv, RInv', [Next]_vars PROVE Service!Next \/ UNCHANGED Service!vars
    BY Zenon
  <2>1. NoStale /\ Service!Reads = Reqs
    BY DEF NoStale, Service!Reads, Reqs
  <2>2. Unseen => Service!Next \/ UNCHANGED Service!vars
    BY UnseenStops DEF Service!Next
  <2>3. EnterTakes \/ EnterFails => Service!Next
    BY <2>1, ServiceAtTake, ServiceAtRefusal DEF Service!Next
  <2>4. WaitDone \/ WaitCut \/ Advance => UNCHANGED Service!vars
    BY ServiceAtReturn, ServiceAtAdvance
  <2>5. \A k \in Reqs : \A res : Complete(k, res) => Service!Next \/ UNCHANGED Service!vars
    BY <2>1, ServiceAtCompletion DEF Service!Next
  <2>6. \A cqe \in Visible : PrintBlocks(cqe) => Service!Next
    BY <2>1, ServiceAtPrint DEF Service!Next
  <2>7. PollSpins \/ Ended \/ UNCHANGED vars => Service!Next \/ UNCHANGED Service!vars
    BY <2>2, ServiceUnseen
  <2>8. Main => Service!Next \/ UNCHANGED Service!vars
    BY <2>2, <2>3, <2>4, <2>6, ServiceUnseen DEF Main
  <2>9. Environment => Service!Next \/ UNCHANGED Service!vars
    BY <2>2, <2>4, <2>5, ServiceUnseen DEF Environment
  <2> QED
    BY <2>7, <2>8, <2>9 DEF Next
<1> QED
  BY <1>1, <1>2, RInvHolds, PTL DEF Spec, ImplementsReadService, Service!Spec

LEMMA SlotIsPosition ==
  ASSUME TypeOK, RingBounds, NEW s \in Slots, InRing(s)
  PROVE  \E p \in cq.head .. cq.tail - 1 : p % CqEntries = s /\ (p = cq.head <=> s = HeadSlot)
<1>1. cq.head \in Nat /\ cq.tail \in Nat
  BY RingType
<1>2. CASE s = HeadSlot
  <2>1. cq.head < cq.tail
    BY <1>1, <1>2 DEF InRing
  <2> QED
    BY <1>1, <1>2, <2>1 DEF HeadSlot
<1>3. CASE s # HeadSlot
  <2>1. cq.tail = cq.head + 2
    BY <1>1, <1>3 DEF InRing
  <2>2. (cq.head + 1) % CqEntries = s
    BY <1>1, <1>3, RingSizes DEF HeadSlot, Slots
  <2> QED
    BY <1>1, <1>3, <2>1, <2>2
<1> QED
  BY <1>2, <1>3

(* Nothing is printed twice and no answer is dropped, whatever is lost or  *)
(* raced: each read that the kernel has answered and main has not printed  *)
(* has one place in the line of answers, and no other read has any.        *)
THEOREM AnswersAreUnique == Spec => [](Service!TypeOK /\ Service!OneAnswerEach)
<1>1. RInv => Service!TypeOK /\ Service!OneAnswerEach
  <2> SUFFICES ASSUME TypeOK, RingInv PROVE Service!TypeOK /\ Service!OneAnswerEach
    BY DEF RInv, IInv
  <2>1. /\ cq.head \in Nat /\ cq.tail \in Nat
        /\ cq.tail = cq.head \/ cq.tail = cq.head + 1 \/ cq.tail = cq.head + 2
    BY RingCounts DEF RingInv
  <2>2. UntakenOK /\ StatesByPlace /\ Service!Reads = Reqs
    BY UntakenType, PlacesOfReads DEF Service!Reads, Reqs
  <2>3. First = cq.head \/ (First = cq.head + 1 /\ pc = "advance")
    BY <2>1 DEF First
  <2>4. ASSUME NEW i \in DOMAIN Untaken
        PROVE  /\ i \in Nat /\ First + i - 1 \in First .. cq.tail - 1
               /\ First + i - 1 \in cq.head .. cq.tail - 1
               /\ Untaken[i].read = User((First + i - 1) % CqEntries)
    <3>1. i \in 1 .. Len(Untaken)
      BY <2>2, <2>4, LenProperties DEF UntakenOK
    <3>2. i \in Nat /\ First + i - 1 \in First .. cq.tail - 1
          /\ First + i - 1 \in cq.head .. cq.tail - 1
      BY <2>1, <2>2, <3>1 DEF UntakenOK
    <3>3. Untaken[i] = AnswerAt(First + i - 1)
      BY <2>1, <2>2, <3>1, <3>2 DEF UntakenOK
    <3> QED
      BY <3>2, <3>3 DEF AnswerAt, User
  <2>5. ASSUME NEW k \in Reqs, NEW i \in DOMAIN Untaken, Untaken[i].read = k
        PROVE  StatesNow[k] = "answered"
    <3>1. PICK p \in cq.head .. cq.tail - 1 :
            p \in First .. cq.tail - 1 /\ User(p % CqEntries) = k
      BY <2>4, <2>5
    <3>2. p % CqEntries \in Slots /\ InRing(p % CqEntries)
      BY PositionInRing DEF RingInv
    <3>3. ~(pc = "advance" /\ p % CqEntries = HeadSlot)
      <4>1. ASSUME pc = "advance" PROVE p % CqEntries # HeadSlot
        <5>1. p = cq.head + 1
          BY <2>1, <3>1, <4>1 DEF First
        <5> QED
          BY <2>1, <5>1, RingSizes DEF HeadSlot
      <4> QED
        BY <4>1
    <3>4. k \in kernel.taken \ Pending /\ k \notin printed
      BY <3>1, <3>2, <3>3 DEF RingInv, SlotsHold
    <3> QED
      BY <2>2, <3>4 DEF StatesByPlace
  <2>6. ASSUME NEW k \in Reqs, StatesNow[k] = "answered"
        PROVE  \E i \in DOMAIN Untaken : Untaken[i].read = k
    <3>1. k \in kernel.taken /\ k \notin Pending \union printed
      BY <2>2, <2>6 DEF StatesByPlace
    <3>2. PICK s \in Slots : InRing(s) /\ User(s) = k
      BY <3>1 DEF RingInv, Placed
    <3>3. ~(pc = "advance" /\ s = HeadSlot)
      BY <3>1, <3>2 DEF RingInv, SlotsHold
    <3>4. PICK p \in cq.head .. cq.tail - 1 : p % CqEntries = s /\ (p = cq.head <=> s = HeadSlot)
      BY <3>2, SlotIsPosition DEF RingInv
    <3>5. p \in First .. cq.tail - 1 /\ p \in Nat
      BY <2>1, <2>3, <3>3, <3>4
    <3> DEFINE i == p - First + 1
    <3>6. i \in 1 .. Len(Untaken) /\ p = First + i - 1
      BY <2>1, <2>2, <3>5 DEF UntakenOK
    <3> HIDE DEF i
    <3>7. i \in DOMAIN Untaken /\ Untaken[i].read = k
      BY <2>2, <2>4, <3>2, <3>4, <3>6, LenProperties DEF UntakenOK
    <3> QED
      BY <3>7
  <2>7. ASSUME NEW i \in DOMAIN Untaken, NEW j \in DOMAIN Untaken,
               Untaken[i].read = Untaken[j].read
        PROVE  i = j
    <3> DEFINE p == First + i - 1
               q == First + j - 1
    <3>1. /\ i \in Nat /\ j \in Nat /\ First \in Nat
          /\ p \in cq.head .. cq.tail - 1 /\ q \in cq.head .. cq.tail - 1
          /\ User(p % CqEntries) = User(q % CqEntries)
      BY <2>2, <2>4, <2>7 DEF UntakenOK
    <3>2. p % CqEntries \in Slots /\ InRing(p % CqEntries)
          /\ q % CqEntries \in Slots /\ InRing(q % CqEntries)
      BY <3>1, PositionInRing DEF RingInv
    <3> HIDE DEF p, q
    <3>3. p % CqEntries = q % CqEntries
      BY <3>1, <3>2 DEF RingInv, SlotsHold, Slots
    <3>4. p = q
      BY <2>1, <3>1, <3>3, RingSizes
    <3> QED
      BY <3>1, <3>4 DEF p, q
  <2>8. Service!TypeOK
    <3>1. Untaken \in Seq([read : Service!Reads, ok : BOOLEAN])
      BY <2>2 DEF UntakenOK, Entries
    <3>2. StatesNow \in [Service!Reads -> Service!States]
      BY <2>2 DEF StatesByPlace, Service!States
    <3>3. Serving \in BOOLEAN
      BY DEF Serving, Running
    <3> QED
      BY <3>1, <3>2, <3>3 DEF Service!TypeOK, StatesNow
  <2>9. Service!OneAnswerEach
    <3>1. \A k \in Reqs : StatesNow[k] = "answered"
                            <=> \E i \in DOMAIN Untaken : Untaken[i].read = k
      BY <2>5, <2>6
    <3> QED
      BY <2>2, <2>7, <3>1 DEF Service!OneAnswerEach, StatesNow
  <2> QED
    BY <2>8, <2>9
<1> QED
  BY <1>1, RInvHolds, PTL

-----------------------------------------------------------------------------
(* What is printed.                                                        *)

(* Every line is of a read that was printed, unless a fault cut its blocks *)
(* short, and the lines of a printed read are its blocks in a row.         *)
WrittenAt(k, a) ==
  /\ LinesOf(k) = Span(a, BlockCount(plan[k].size))
  /\ \A i \in 1 .. BlockCount(plan[k].size) : out[a + i] = Line(k, i - 1)
Written ==
  /\ pc \notin {"handler", "exit 139"} => \A i \in DOMAIN out : out[i].req \in printed
  /\ \A k \in printed : NullBlocks(k) = {} /\ \E a \in 0 .. Len(out) : WrittenAt(k, a)

(* A read leaves in its buffers no more than they hold, and nothing before *)
(* it is taken.                                                            *)
LandsInPlan ==
  \A k \in Reqs :
    /\ landed[k] \in 0 .. Capacity(plan[k].size)
    /\ k \notin kernel.taken => landed[k] = 0

Stable == file.changes = 0 /\ fd /\ file.kind = "reg"
PlansAreTheFile == Stable => \A k \in 1 .. call : plan[k].size = file.len

OutInv == Written /\ LandsInPlan /\ PlansAreTheFile

SameOutput ==
  /\ UNCHANGED <<out, printed, plan, landed>>
  /\ pc \in {"handler", "exit 139"} => pc' \in {"handler", "exit 139"}

LEMMA WrittenUntouched == Written /\ SameOutput => Written'
<1> SUFFICES ASSUME Written, SameOutput PROVE Written'
  OBVIOUS
<1>1. \A k \in printed : NullBlocks(k)' = NullBlocks(k)
  BY DEF SameOutput, NullBlocks, Chunk
<1>2. \A k, a : WrittenAt(k, a)' <=> WrittenAt(k, a)
  BY DEF SameOutput, WrittenAt, LinesOf, Line
<1> QED
  BY <1>1, <1>2 DEF Written, SameOutput

(* Submitting a read or completing one changes nothing of those printed. *)
LEMMA WrittenIfPlanned ==
  ASSUME Written, UNCHANGED <<pc, out, printed>> \/ (pc = "submit" /\ pc' = "enter" /\ UNCHANGED <<out, printed>>),
         \A k \in printed : plan'[k] = plan[k] /\ landed'[k] = landed[k]
  PROVE  Written'
<1>1. ASSUME NEW k \in printed PROVE NullBlocks(k)' = NullBlocks(k)
  BY DEF NullBlocks, Chunk
<1>2. ASSUME NEW k \in printed, NEW a PROVE WrittenAt(k, a)' <=> WrittenAt(k, a)
  BY DEF WrittenAt, LinesOf, Line
<1> QED
  BY <1>1, <1>2 DEF Written

LEMMA WrittenAtSubmit ==
  ASSUME TypeOK, Allocated, Written, NEW k \in Reqs, NEW size, NEW nulls,
         SubmitToSq(k, size, nulls)
  PROVE  Written'
<1>1. \A j \in printed : j \in Reqs /\ j <= call
  <2>1. printed \subseteq 1 .. call /\ call \in 0 .. Submits
    BY DEF Allocated, TypeOK
  <2> QED
    BY <2>1, Bounds DEF Reqs
<1>2. k = call + 1 /\ call \in Nat
  BY CallType DEF SubmitToSq
<1>3. \A j \in printed : plan'[j] = plan[j]
  <2>1. \A j \in printed : j \in Reqs /\ j # k
    BY <1>1, <1>2, Bounds DEF Reqs
  <2> QED
    BY <2>1 DEF SubmitToSq, TypeOK
<1>4. pc = "submit" /\ pc' = "enter" /\ UNCHANGED <<out, printed, landed>>
  BY DEF SubmitToSq, output
<1> QED
  BY <1>3, <1>4, WrittenIfPlanned

LEMMA WrittenAtComplete ==
  ASSUME TypeOK, RingInv, Written, NEW k \in Reqs, NEW res, Complete(k, res)
  PROVE  Written'
<1>1. k \notin printed /\ printed \subseteq Reqs
  BY DEF Complete, RingInv, Placed, Pending, TypeOK
<1>2. UNCHANGED <<pc, out, printed, plan>>
  BY DEF Complete, request, output
<1>3. \A j \in printed : landed'[j] = landed[j]
  BY <1>1 DEF Complete, TypeOK
<1> QED
  BY <1>2, <1>3, WrittenIfPlanned

(* Lines put behind those that are there change none of them. *)
LEMMA PrintedBehind ==
  ASSUME TypeOK, NEW k \in Reqs, NEW n \in Nat, PrintUpTo(k, n)
  PROVE  /\ Len(out) \in Nat /\ DOMAIN out = 1 .. Len(out)
         /\ Len(out') = Len(out) + n /\ DOMAIN out' = 1 .. Len(out')
         /\ \A i \in 1 .. Len(out) : out'[i] = out[i]
         /\ \A i \in 1 .. n : out'[Len(out) + i] = Line(k, i - 1)
<1> DEFINE new == [i \in 1 .. n |-> Line(k, i - 1)]
           range == {Line(k, i - 1) : i \in 1 .. n}
<1>1. out' = out \o new /\ out \in Seq(Lines)
  BY DEF PrintUpTo, TypeOK, Lines
<1>2. new \in [1 .. n -> range] /\ \A i \in 1 .. n : new[i] = Line(k, i - 1)
  OBVIOUS
<1> HIDE DEF new, range
<1>3. new \in Seq(range)
  BY <1>2, SeqDef
<1>4. Len(new) = n
  BY <1>2, <1>3, LenProperties
<1>5. out \in Seq(Lines \union range) /\ new \in Seq(Lines \union range)
  BY <1>1, <1>3
<1>6. /\ Len(out') = Len(out) + Len(new) /\ out' \in Seq(Lines \union range)
      /\ \A i \in 1 .. Len(out) + Len(new) :
           out'[i] = IF i <= Len(out) THEN out[i] ELSE new[i - Len(out)]
  BY <1>1, <1>5, ConcatProperties
<1>7. Len(out) \in Nat /\ DOMAIN out = 1 .. Len(out) /\ DOMAIN out' = 1 .. Len(out')
  BY <1>1, <1>6, LenProperties
<1>8. ASSUME NEW i \in 1 .. n PROVE out'[Len(out) + i] = Line(k, i - 1)
  <2>1. Len(out) + i \in 1 .. Len(out) + n /\ ~(Len(out) + i <= Len(out))
        /\ (Len(out) + i) - Len(out) = i
    BY <1>7
  <2>2. out'[Len(out) + i] = new[i]
    BY <1>4, <1>6, <2>1
  <2> QED
    BY <1>2, <2>2
<1>9. ASSUME NEW i \in 1 .. Len(out) PROVE out'[i] = out[i]
  <2>1. i \in 1 .. Len(out) + n /\ i <= Len(out)
    BY <1>7
  <2> QED
    BY <1>4, <1>6, <2>1
<1> QED
  BY <1>4, <1>6, <1>7, <1>8, <1>9

LEMMA LinesStay ==
  ASSUME TypeOK, NEW k \in Reqs, NEW n \in Nat, PrintUpTo(k, n), UNCHANGED <<plan, landed>>
  PROVE  /\ \A i \in DOMAIN out' \ DOMAIN out : out'[i].req = k
         /\ \A j \in Reqs \ {k}, b \in 0 .. Len(out) :
              WrittenAt(j, b) => b \in 0 .. Len(out') /\ WrittenAt(j, b)'
<1> DEFINE a == Len(out)
<1>1. /\ a \in Nat /\ DOMAIN out = 1 .. a /\ DOMAIN out' = 1 .. a + n /\ Len(out') = a + n
      /\ \A i \in 1 .. a : out'[i] = out[i]
      /\ \A i \in 1 .. n : out'[a + i] = Line(k, i - 1)
  BY PrintedBehind
<1> HIDE DEF a
<1>2. \A j, i : Line(j, i)' = Line(j, i) /\ Line(j, i).req = j
  BY DEF Line
<1>3. ASSUME NEW i \in DOMAIN out' \ DOMAIN out PROVE out'[i].req = k
  <2>1. i - a \in 1 .. n /\ a + (i - a) = i
    BY <1>1
  <2>2. out'[a + (i - a)] = Line(k, (i - a) - 1)
    BY <1>1, <2>1
  <2> QED
    BY <1>2, <2>1, <2>2
<1>4. ASSUME NEW j \in Reqs \ {k}, NEW b \in 0 .. a, WrittenAt(j, b)
      PROVE  b \in 0 .. Len(out') /\ WrittenAt(j, b)'
  <2> DEFINE m == BlockCount(plan[j].size)
  <2>1. m \in Nat /\ BlockCount(plan'[j].size) = m
    BY PlanType, BlocksAreNaturals
  <2> HIDE DEF m
  <2>2. LinesOf(j) = Span(b, m) /\ \A i \in 1 .. m : out[b + i] = Line(j, i - 1)
    BY <1>4 DEF WrittenAt, m
  <2>3. LinesOf(j)' = LinesOf(j)
    <3>1. \A i \in DOMAIN out : i \in DOMAIN out' /\ out'[i] = out[i]
      BY <1>1
    <3>2. \A i \in DOMAIN out' : i \notin DOMAIN out => out'[i].req # j
      BY <1>3
    <3> QED
      BY <3>1, <3>2 DEF LinesOf
  <2>4. ASSUME NEW i \in 1 .. m PROVE out'[b + i] = Line(j, i - 1)'
    <3>1. b + i \in LinesOf(j)
      BY <1>1, <2>1, <2>2 DEF Span
    <3>2. out'[b + i] = out[b + i]
      BY <1>1, <3>1 DEF LinesOf
    <3> QED
      BY <1>2, <2>2, <3>2
  <2>5. b \in 0 .. Len(out')
    BY <1>1
  <2> QED
    BY <2>1, <2>2, <2>3, <2>4, <2>5 DEF WrittenAt
<1> QED
  BY <1>3, <1>4 DEF a

LEMMA WrittenAtPrint ==
  ASSUME TypeOK, Allocated, Written, NEW cqe \in Visible, PrintBlocks(cqe)
  PROVE  Written'
<1> DEFINE k == cqe.user
           n == BlockCount(plan[k].size)
<1>1. /\ pc = "print" /\ NullBlocks(k) = {} /\ PrintUpTo(k, n)
      /\ printed' = printed \union {k} /\ UNCHANGED <<plan, landed>>
  BY DEF PrintBlocks, request
<1>2. k \in Reqs /\ k \notin printed /\ printed \subseteq Reqs
  BY VisibleType, PrintedIsNew DEF PrintBlocks, Allocated, TypeOK
<1>3. n \in Nat
  BY <1>2, PlanType, BlocksAreNaturals
<1>4. BlockCount(plan'[k].size) = n
  BY <1>1
<1> HIDE DEF k, n
<1>0. PICK a \in Nat : a = Len(out)
  BY <1>1, <1>2, <1>3, PrintedBehind
<1>5. /\ a \in Nat /\ DOMAIN out = 1 .. a /\ DOMAIN out' = 1 .. a + n /\ Len(out') = a + n
      /\ \A i \in 1 .. a : out'[i] = out[i]
      /\ \A i \in 1 .. n : out'[a + i] = Line(k, i - 1)
  BY <1>0, <1>1, <1>2, <1>3, PrintedBehind
<1>6. /\ \A i \in DOMAIN out' \ DOMAIN out : out'[i].req = k
      /\ \A j \in Reqs \ {k}, b \in 0 .. a :
           WrittenAt(j, b) => b \in 0 .. Len(out') /\ WrittenAt(j, b)'
  BY <1>0, <1>1, <1>2, <1>3, LinesStay
<1>7. \A i \in DOMAIN out : out[i].req \in printed
  BY <1>1 DEF Written
<1>8. \A j : NullBlocks(j)' = NullBlocks(j)
  BY <1>1 DEF NullBlocks, Chunk
<1>9. WrittenAt(k, a)'
  <2>1. \A i \in 1 .. a : out'[i].req # k
    BY <1>2, <1>5, <1>7
  <2>2. \A i \in 1 .. a + n : i \notin 1 .. a => out'[i].req = k
    BY <1>5, <1>6
  <2>3. LinesOf(k)' = {i \in 1 .. a + n : i \notin 1 .. a}
    BY <1>5, <2>1, <2>2 DEF LinesOf
  <2>4. LinesOf(k)' = Span(a, n)
    BY <1>3, <1>5, <2>3 DEF Span
  <2>5. \A i \in 1 .. n : out'[a + i] = Line(k, i - 1)'
    BY <1>1, <1>5 DEF Line
  <2> QED
    BY <1>4, <2>4, <2>5 DEF WrittenAt
<1>10. \A i \in DOMAIN out' : out'[i].req \in printed'
  BY <1>1, <1>5, <1>6, <1>7
<1>11. ASSUME NEW j \in printed'
       PROVE  NullBlocks(j)' = {} /\ \E b \in 0 .. Len(out') : WrittenAt(j, b)'
  <2>1. CASE j = k
    <3>1. a \in 0 .. Len(out')
      BY <1>3, <1>5
    <3> QED
      BY <1>1, <1>8, <1>9, <2>1, <3>1
  <2>2. CASE j # k
    <3>1. j \in printed /\ j \in Reqs \ {k}
      BY <1>1, <1>2, <1>11, <2>2
    <3> QED
      BY <1>0, <1>6, <1>8, <3>1 DEF Written
  <2> QED
    BY <2>1, <2>2
<1> QED
  BY <1>10, <1>11 DEF Written

(* A fault on a NULL buffer leaves lines of its read that stay unfinished. *)
LEMMA WrittenAtCrash ==
  ASSUME TypeOK, Allocated, Written, NEW cqe \in Visible, PrintCrash(cqe)
  PROVE  Written'
<1> DEFINE k == cqe.user
           n == FirstNull(k)
<1>1. /\ pc' = "handler" /\ UNCHANGED <<plan, landed, printed>>
      /\ UNCHANGED out \/ (k # 0 /\ NullBlocks(k) # {} /\ PrintUpTo(k, n))
  BY DEF PrintCrash, request
<1>2. \A j : NullBlocks(j)' = NullBlocks(j)
  BY <1>1 DEF NullBlocks, Chunk
<1>3. CASE UNCHANGED out
  BY <1>1, <1>3, WrittenUntouched DEF SameOutput
<1>4. CASE k # 0 /\ NullBlocks(k) # {} /\ PrintUpTo(k, n)
  <2>1. k \in Reqs /\ k \notin printed /\ printed \subseteq Reqs
    BY <1>4, VisibleType DEF Written, TypeOK
  <2>2. n \in Nat
    BY <1>4, <2>1, FirstNullType
  <2> HIDE DEF k, n
  <2>3. \A j \in Reqs \ {k}, b \in 0 .. Len(out) :
          WrittenAt(j, b) => b \in 0 .. Len(out') /\ WrittenAt(j, b)'
    BY <1>1, <1>4, <2>1, <2>2, LinesStay
  <2> QED
    BY <1>1, <1>2, <2>1, <2>3 DEF Written
<1> QED
  BY <1>1, <1>3, <1>4

LEMMA WrittenStep == IInv /\ RingInv /\ Written /\ [Next]_vars => Written'
<1> SUFFICES ASSUME TypeOK, Allocated, RingInv, Written, [Next]_vars PROVE Written'
  BY DEF IInv
<1> USE DEF env, request, output
<1>1. Open \/ SetupFails \/ Prepare \/ PollCrash \/ PollFinds \/ PollHoisted \/ EnterTakes
        => SameOutput
  BY DEF Open, SetupFails, Prepare, PollCrash, PollFinds, PollHoisted, EnterTakes, SameOutput
<1>2. PollSpins \/ Ended \/ UNCHANGED vars \/ Finish \/ Advance => SameOutput
  BY DEF PollSpins, Ended, vars, Finish, Advance, SameOutput
<1>3. EnterFails \/ WaitDone \/ WaitCut => SameOutput
  BY DEF EnterFails, WaitDone, WaitCut, EnterReturns, SameOutput
<1>4. \A k, size, nulls : SubmitCrash(k, size, nulls) => SameOutput
  BY DEF SubmitCrash, SameOutput
<1>5. \A cqe : CheckResult(cqe) \/ PrintFreed(cqe) => SameOutput
  BY DEF CheckResult, PrintFreed, SameOutput
<1>6. \A len : FileChanges(len) => SameOutput
  BY DEF FileChanges, SameOutput
<1>7. \A k \in Reqs : \A size, nulls : SubmitToSq(k, size, nulls) => Written'
  BY WrittenAtSubmit
<1>8. \A k \in Reqs : \A res : Complete(k, res) => Written'
  BY WrittenAtComplete
<1>9. \A cqe \in Visible : PrintBlocks(cqe) \/ PrintCrash(cqe) => Written'
  BY WrittenAtPrint, WrittenAtCrash
<1> QED
  BY <1>1, <1>2, <1>3, <1>4, <1>5, <1>6, <1>7, <1>8, <1>9, WrittenUntouched
  DEF Next, Main, Environment

-----------------------------------------------------------------------------
(* The NULL buffers cut off what a read can transfer, not more. *)
LEMMA ReadableFits ==
  ASSUME TypeOK, NEW k \in Reqs
  PROVE  /\ Readable(k) \in Nat /\ Readable(k) <= Capacity(plan[k].size)
         /\ file.kind # "other" /\ NullBlocks(k) = {} =>
              Readable(k) = Lesser(file.len, Capacity(plan[k].size))
<1> DEFINE size == plan[k].size
           room == IF NullBlocks(k) = {} THEN Capacity(size) ELSE FirstNull(k) * BlkSize
<1>1. size \in Sizes /\ file.len \in Nat
  <2>1. file.len \in 0 .. MaxSize
    BY DEF TypeOK
  <2> QED
    BY <2>1, PlanType
<1> HIDE DEF size
<1>2. Capacity(size) \in Nat /\ BlockCount(size) \in Nat
  BY <1>1, CapacityType, BlockCountType
<1>3. room \in Nat /\ room <= Capacity(size)
  <2>1. CASE NullBlocks(k) = {}
    BY <1>2, <2>1
  <2>2. CASE NullBlocks(k) # {}
    <3> DEFINE i == FirstNull(k)
               n == BlockCount(size)
    <3>1. i \in Nat /\ i \in 0 .. n - 1
      BY <2>2, FirstNullType DEF NullBlocks, Blocks, size
    <3> HIDE DEF i, n
    <3>2. n \in Nat /\ n # 0 /\ n - 1 \in Nat /\ i <= n - 1
      BY <1>2, <3>1 DEF n
    <3>3. i * BlkSize <= (n - 1) * BlkSize /\ i * BlkSize \in Nat /\ (n - 1) * BlkSize \in Nat
      BY <3>1, <3>2, IovecsAssumption
    <3>4. Capacity(size) = (n - 1) * BlkSize + IovLen(size, n - 1)
      BY <3>2 DEF Capacity, n
    <3>5. IovLen(size, n - 1) \in Nat
      BY <1>1, <3>2, IovLenType
    <3> QED
      BY <2>2, <3>3, <3>4, <3>5 DEF i
  <2> QED
    BY <2>1, <2>2
<1>4. Readable(k) = IF file.kind = "other" THEN room ELSE Lesser(file.len, room)
  BY DEF Readable, size
<1>5. NullBlocks(k) = {} => room = Capacity(size)
  OBVIOUS
<1> HIDE DEF room
<1> QED
  BY <1>1, <1>2, <1>3, <1>4, <1>5 DEF Lesser, size

SameLandings == UNCHANGED <<plan, landed>> /\ kernel'.taken = kernel.taken

LEMMA LandsUntouched == LandsInPlan /\ SameLandings => LandsInPlan'
BY DEF LandsInPlan, SameLandings

LEMMA LandsStep == IInv /\ RingInv /\ LandsInPlan /\ [Next]_vars => LandsInPlan'
<1> SUFFICES ASSUME TypeOK, Accepted, RingInv, LandsInPlan, [Next]_vars PROVE LandsInPlan'
  BY DEF IInv
<1> USE DEF env, request, output
<1>1. Open \/ SetupFails \/ Prepare \/ PollCrash \/ PollFinds \/ PollHoisted => SameLandings
  BY DEF Open, SetupFails, Prepare, PollCrash, PollFinds, PollHoisted, SameLandings
<1>2. PollSpins \/ Ended \/ UNCHANGED vars \/ Finish \/ Advance => SameLandings
  BY DEF PollSpins, Ended, vars, Finish, Advance, SameLandings
<1>3. EnterFails \/ WaitDone \/ WaitCut => SameLandings
  BY DEF EnterFails, WaitDone, WaitCut, EnterReturns, SameLandings
<1>4. \A k, size, nulls : SubmitCrash(k, size, nulls) => SameLandings
  BY DEF SubmitCrash, SameLandings
<1>5. \A cqe : CheckResult(cqe) \/ PrintBlocks(cqe) \/ PrintCrash(cqe) \/ PrintFreed(cqe)
                 => SameLandings
  BY DEF CheckResult, PrintBlocks, PrintCrash, PrintFreed, SameLandings
<1>6. \A len : FileChanges(len) => SameLandings
  BY DEF FileChanges, SameLandings
<1>7. EnterTakes => LandsInPlan'
  BY KernelType DEF EnterTakes, LandsInPlan
<1>8. ASSUME NEW k \in Reqs, NEW size \in SizesSeen, NEW nulls, SubmitToSq(k, size, nulls)
      PROVE  LandsInPlan'
  <2>1. k \notin kernel.taken
    <3>1. k = call + 1 /\ k > call
      BY <1>8, CallType DEF SubmitToSq
    <3> QED
      BY <3>1 DEF Accepted, EntryIsOfThisCall
  <2>2. landed[k] = 0 /\ landed' = landed /\ kernel' = kernel
    BY <1>8, <2>1 DEF SubmitToSq, LandsInPlan
  <2>3. Capacity(size) \in Nat
    BY PlanSizes, CapacityType
  <2>4. plan'[k].size = size /\ \A j \in Reqs : j # k => plan'[j] = plan[j]
    BY <1>8 DEF SubmitToSq, TypeOK
  <2> QED
    BY <2>2, <2>3, <2>4 DEF LandsInPlan
<1>9. ASSUME NEW k \in Reqs, NEW res \in Results(k), Complete(k, res) PROVE LandsInPlan'
  <2> DEFINE n == IF res < 0 THEN 0 ELSE res
  <2>1. n \in 0 .. Capacity(plan[k].size)
    <3>1. Readable(k) \in Nat /\ Readable(k) <= Capacity(plan[k].size)
      BY ReadableFits
    <3>2. Capacity(plan[k].size) \in Nat
      BY PlanType, CapacityType
    <3>3. res \in {-1} \union 0 .. Readable(k)
      BY <3>1 DEF Results
    <3> QED
      BY <3>1, <3>2, <3>3
  <2>2. landed' = [landed EXCEPT ![k] = n] /\ plan' = plan
    BY <1>9 DEF Complete
  <2>3. k \in kernel.taken /\ kernel'.taken = kernel.taken
    <3>1. k \in kernel.taken
      BY <1>9 DEF Complete, RingInv, Placed, Pending
    <3> QED
      BY <1>9, <3>1, PostsOrBacklogs, KernelType DEF Posts, Backlogs
  <2> HIDE DEF n
  <2> QED
    BY <2>1, <2>2, <2>3 DEF LandsInPlan, TypeOK
<1> QED
  BY <1>1, <1>2, <1>3, <1>4, <1>5, <1>6, <1>7, <1>8, <1>9, LandsUntouched
  DEF Next, Main, Environment

(* The size a read was planned for is that of the file, for as long as     *)
(* nobody resizes it.                                                      *)
SamePlans == UNCHANGED <<file, fd, call, plan>>

LEMMA PlansUntouched == PlansAreTheFile /\ SamePlans => PlansAreTheFile'
BY DEF PlansAreTheFile, Stable, SamePlans

LEMMA PlansStep == IInv /\ PlansAreTheFile /\ [Next]_vars => PlansAreTheFile'
<1> SUFFICES ASSUME TypeOK, Accepted, PlansAreTheFile, [Next]_vars PROVE PlansAreTheFile'
  BY DEF IInv
<1> USE DEF env, request, output
<1>1. SetupFails \/ Prepare \/ PollCrash \/ PollFinds \/ PollHoisted \/ EnterTakes => SamePlans
  BY DEF SetupFails, Prepare, PollCrash, PollFinds, PollHoisted, EnterTakes, SamePlans
<1>2. PollSpins \/ Ended \/ UNCHANGED vars \/ Finish \/ Advance => SamePlans
  BY DEF PollSpins, Ended, vars, Finish, Advance, SamePlans
<1>3. EnterFails \/ WaitDone \/ WaitCut => SamePlans
  BY DEF EnterFails, WaitDone, WaitCut, EnterReturns, SamePlans
<1>4. \A k, size, nulls : SubmitCrash(k, size, nulls) => SamePlans
  BY DEF SubmitCrash, SamePlans
<1>5. \A cqe : CheckResult(cqe) \/ PrintBlocks(cqe) \/ PrintCrash(cqe) \/ PrintFreed(cqe)
                 => SamePlans
  BY DEF CheckResult, PrintBlocks, PrintCrash, PrintFreed, SamePlans
<1>6. \A k, res : Complete(k, res) => SamePlans
  BY DEF Complete, SamePlans
<1>7. CASE Open
  <2>1. call = 0 /\ call' = 0
    BY <1>7 DEF Open, Accepted, EntryIsOfThisCall
  <2> QED
    BY <2>1 DEF PlansAreTheFile
<1>8. ASSUME NEW len, FileChanges(len) PROVE PlansAreTheFile'
  <2>1. file \in [kind : Kinds, len : 0 .. MaxSize, changes : 0 .. MaxChanges]
    BY DEF TypeOK
  <2>2. file'.changes # 0
    BY <1>8, <2>1, Bounds DEF FileChanges
  <2> QED
    BY <2>2 DEF PlansAreTheFile, Stable
<1>9. ASSUME NEW k \in Reqs, NEW size \in SizesSeen, NEW nulls, SubmitToSq(k, size, nulls)
      PROVE  PlansAreTheFile'
  <2>1. k = call + 1 /\ call' = k /\ UNCHANGED <<file, fd>> /\ call \in Nat
    BY <1>9, CallType DEF SubmitToSq
  <2>2. Stable => size = file.len
    BY DEF SizesSeen, Stable
  <2>3. plan'[k].size = size /\ \A j \in Reqs : j # k => plan'[j] = plan[j]
    BY <1>9 DEF SubmitToSq, TypeOK
  <2>4. \A j \in 1 .. call' : j \in Reqs /\ (j # k => j \in 1 .. call)
    BY <2>1, Bounds DEF Reqs
  <2> QED
    BY <2>1, <2>2, <2>3, <2>4 DEF PlansAreTheFile, Stable
<1> QED
  BY <1>1, <1>2, <1>3, <1>4, <1>5, <1>6, <1>7, <1>8, <1>9, PlansUntouched
  DEF Next, Main, Environment

LEMMA OutInvInit == Init => OutInv
<1> SUFFICES ASSUME Init PROVE OutInv
  OBVIOUS
<1>1. Written
  <2>1. out = << >> /\ printed = {}
    BY DEF Init
  <2> QED
    BY <2>1 DEF Written
<1>4. PlansAreTheFile
  <2>1. call = 0
    BY DEF Init
  <2> QED
    BY <2>1 DEF PlansAreTheFile
<1>2. Capacity(0) = 0
  BY CapacityIsTheSize, IovecsAssumption DEF FileSizes
<1>3. LandsInPlan
  <2>1. \A k \in Reqs : landed[k] = 0 /\ plan[k].size = 0
    BY DEF Init
  <2> QED
    BY <1>2, <2>1 DEF LandsInPlan
<1> QED
  BY <1>1, <1>3, <1>4 DEF OutInv

LEMMA OutInvHolds == Spec => [](RInv /\ OutInv)
<1>1. RInv /\ OutInv /\ [Next]_vars => OutInv'
  BY WrittenStep, LandsStep, PlansStep DEF OutInv, RInv
<1>2. RInv /\ [Next]_vars => RInv'
  BY IInvStep, RingStep, CallStep, ZeroedStep, LoadStep DEF RInv
<1> QED
  BY <1>1, <1>2, OutInvInit, RInvInit, PTL DEF Spec

(* The lines of a printed read add up to its plan. *)
LEMMA TotalsOfRead ==
  ASSUME TypeOK, OutInv, NEW k \in printed
  PROVE  /\ k \in Reqs /\ NullBlocks(k) = {}
         /\ Total("len", k) = Capacity(plan[k].size)
         /\ Total("got", k) = landed[k]
         /\ \A i, j \in LinesOf(k) : i < j => out[i].blk < out[j].blk
<1> DEFINE size == plan[k].size
           n == BlockCount(size)
           lens == [i \in DOMAIN out |-> out[i].len]
           gots == [i \in DOMAIN out |-> out[i].got]
<1>1. k \in Reqs /\ size \in Sizes /\ n \in Nat /\ landed[k] \in 0 .. Capacity(size)
  BY PlanType, BlocksAreNaturals DEF TypeOK, OutInv, LandsInPlan
<1>2. PICK a \in 0 .. Len(out) : WrittenAt(k, a)
  BY DEF OutInv, Written
<1>3. LinesOf(k) = Span(a, n) /\ \A i \in 1 .. n : out[a + i] = Line(k, i - 1)
  BY <1>2 DEF WrittenAt
<1>4. a \in Nat
  <2>1. Len(out) \in Nat
    BY LenProperties DEF TypeOK
  <2> QED
    BY <2>1
<1>5. \A i \in 1 .. n : a + i \in DOMAIN out
  <2> HIDE DEF n
  <2>1. \A i \in 1 .. n : a + i \in Span(a, n)
    BY <1>1, <1>4 DEF Span
  <2> QED
    BY <1>3, <2>1 DEF LinesOf
<1>6. /\ \A i \in 1 .. n : lens[a + i] = IovLen(size, i - 1)
      /\ \A i \in 1 .. n : gots[a + i] = Landed(size, landed[k], i - 1)
  <2>1. \A i \in 1 .. n : lens[a + i] = out[a + i].len /\ gots[a + i] = out[a + i].got
    BY <1>5
  <2> HIDE DEF lens, gots, n
  <2>2. \A i : /\ Line(k, i - 1).len = IovLen(size, i - 1)
               /\ Line(k, i - 1).got = Landed(size, landed[k], i - 1)
    BY DEF Line
  <2> QED
    BY <1>3, <2>1, <2>2
<1> HIDE DEF lens, gots
<1>7. SumFunctionOnSet(lens, Span(a, n)) = Capacity(size)
  BY <1>1, <1>4, <1>6, LengthsAddUp
<1>8. SumFunctionOnSet(gots, Span(a, n)) = landed[k]
  BY <1>1, <1>4, <1>6, LandedAddsUp
<1>9. Total("len", k) = SumFunctionOnSet(lens, LinesOf(k))
  BY DEF Total, lens
<1>10. Total("got", k) = SumFunctionOnSet(gots, LinesOf(k))
  BY DEF Total, gots
<1>11. ASSUME NEW i \in LinesOf(k), NEW j \in LinesOf(k), i < j PROVE out[i].blk < out[j].blk
  <2>1. \A l \in LinesOf(k) : l \in Nat /\ out[l].blk = (l - a) - 1
    <3>1. SUFFICES ASSUME NEW l \in LinesOf(k) PROVE l \in Nat /\ out[l].blk = (l - a) - 1
      OBVIOUS
    <3>2. l - a \in 1 .. n /\ a + (l - a) = l /\ l \in Nat
      BY <1>1, <1>3, <1>4 DEF Span
    <3>3. out[a + (l - a)] = Line(k, (l - a) - 1)
      BY <1>3, <3>2
    <3> QED
      BY <3>2, <3>3 DEF Line
  <2> QED
    BY <1>4, <1>11, <2>1
<1>12. NullBlocks(k) = {}
  BY DEF OutInv, Written
<1> QED
  BY <1>1, <1>3, <1>7, <1>8, <1>9, <1>10, <1>11, <1>12

(* Every printed read has each of its blocks in stdout once and in order,  *)
(* as many bytes as the size seen at submission makes, and of them from    *)
(* the file what the kernel read.                                          *)
THEOREM BlocksArePrintedOnce == Spec => []OutputIsThePlan
<1>1. RInv /\ OutInv => OutputIsThePlan
  BY TotalsOfRead DEF OutputIsThePlan, RInv, IInv
<1> QED
  BY <1>1, OutInvHolds, PTL

LEMMA PrintedWhole == RInv /\ OutInv => StableFileIsPrintedWhole
<1> SUFFICES ASSUME RInv, OutInv, Stable, NEW k \in printed
             PROVE  /\ Total("len", k) = file.len
                    /\ landed[k] = Readable(k) => Total("got", k) = file.len
  BY DEF StableFileIsPrintedWhole, Stable
<1>1. TypeOK /\ Allocated
  BY DEF RInv, IInv
<1>2. plan[k].size = file.len
  BY <1>1 DEF OutInv, PlansAreTheFile, Allocated
<1>3. file.len \in FileSizes /\ file.len \in Nat
  <2>1. file.len \in 0 .. MaxSize
    BY <1>1 DEF TypeOK
  <2> QED
    BY <2>1, Bounds, IovecsAssumption DEF FileSizes
<1>4. Capacity(plan[k].size) = file.len
  BY <1>2, <1>3, CapacityIsTheSize
<1>5. Readable(k) = file.len
  BY <1>1, <1>3, <1>4, ReadableFits, TotalsOfRead DEF Stable, Lesser
<1> QED
  BY <1>1, <1>4, <1>5, TotalsOfRead

(* The lines of a file nobody resizes add up to its size, and a read that  *)
(* transferred all there was to read is printed byte for byte.             *)
THEOREM StableFilesArePrintedWhole == Spec => []StableFileIsPrintedWhole
BY PrintedWhole, OutInvHolds, PTL

-----------------------------------------------------------------------------
(* A read that was refused a buffer.                                       *)

(* It leaves nothing behind the first buffer that is missing, and its      *)
(* lines, if it has any, are the blocks in front of it.                    *)
Refused(k) == NullBlocks(k) # {}
TornAt(k, a) ==
  /\ LinesOf(k) = Span(a, FirstNull(k))
  /\ \A i \in 1 .. FirstNull(k) : out[a + i] = Line(k, i - 1)
Torn(k) == k \notin kernel.inflight /\ \E a \in 0 .. Len(out) : TornAt(k, a)
CutShort ==
  \A k \in Reqs : Refused(k) =>
    /\ landed[k] <= FirstNull(k) * BlkSize
    /\ LinesOf(k) = {} \/ Torn(k)

(* Before the fault, only reads that were printed have lines. *)
LEMMA NoLinesYet ==
  ASSUME Written, pc \notin {"handler", "exit 139"}, NEW k, k \notin printed
  PROVE  LinesOf(k) = {}
BY DEF Written, LinesOf

LEMMA RefusedIsNotPrinted == ASSUME Written, NEW k, Refused(k) PROVE k \notin printed
BY DEF Written, Refused

SameRead(k) ==
  plan'[k] = plan[k] /\ landed'[k] = landed[k] /\ (k \in kernel'.inflight => k \in kernel.inflight)

(* The lines of a read are what they were as long as it and the output are.*)
LEMMA CutStays ==
  ASSUME CutShort, NEW k \in Reqs, SameRead(k), UNCHANGED out, Refused(k)'
  PROVE  landed'[k] <= FirstNull(k)' * BlkSize /\ (LinesOf(k)' = {} \/ Torn(k)')
<1>1. NullBlocks(k)' = NullBlocks(k)
  BY DEF NullBlocks, Chunk, SameRead
<1>2. FirstNull(k)' = FirstNull(k) /\ Refused(k)
  BY <1>1 DEF FirstNull, Refused
<1>3. LinesOf(k)' = LinesOf(k)
  BY DEF LinesOf
<1>4. ASSUME NEW a, TornAt(k, a) PROVE TornAt(k, a)'
  BY <1>2, <1>3, <1>4 DEF TornAt, Line, SameRead
<1>5. landed[k] <= FirstNull(k) * BlkSize /\ (LinesOf(k) = {} \/ Torn(k))
  BY <1>2 DEF CutShort
<1>6. Torn(k) => Torn(k)'
  BY <1>4 DEF Torn, SameRead
<1> QED
  BY <1>2, <1>3, <1>5, <1>6 DEF SameRead

LEMMA CutAtSubmit ==
  ASSUME IInv, IInv', Written, LandsInPlan, CutShort, NEW k \in Reqs, NEW size, NEW nulls,
         SubmitToSq(k, size, nulls)
  PROVE  CutShort'
<1>1. TypeOK /\ TypeOK' /\ Accepted /\ Allocated
  BY DEF IInv
<1>2. /\ k = call + 1 /\ k > call /\ call \in Nat /\ pc = "submit"
      /\ UNCHANGED <<out, printed, landed, kernel>>
  BY <1>1, CallType DEF SubmitToSq, output
<1>3. k \notin kernel.taken /\ k \notin printed
  <2>1. k \notin kernel.taken
    BY <1>1, <1>2 DEF Accepted, EntryIsOfThisCall
  <2>2. printed \subseteq 1 .. call
    BY <1>1 DEF Allocated
  <2> QED
    BY <1>2, <2>1, <2>2
<1>4. landed'[k] = 0 /\ LinesOf(k)' = {}
  <2>1. landed[k] = 0
    BY <1>3 DEF LandsInPlan
  <2>2. LinesOf(k) = {}
    BY <1>2, <1>3, NoLinesYet
  <2> QED
    BY <1>2, <2>1, <2>2 DEF LinesOf
<1>5. \A j \in Reqs : j # k => SameRead(j)
  BY <1>1, <1>2 DEF SubmitToSq, TypeOK, SameRead
<1>6. Refused(k)' => 0 <= FirstNull(k)' * BlkSize
  <2>1. SUFFICES ASSUME Refused(k)' PROVE 0 <= FirstNull(k)' * BlkSize
    OBVIOUS
  <2>2. (TypeOK /\ k \in Reqs /\ NullBlocks(k) # {} => FirstNull(k) \in Nat)'
    BY FirstNullType, PTL
  <2>3. FirstNull(k)' \in Nat
    BY <1>1, <2>1, <2>2 DEF Refused
  <2> QED
    BY <2>3, IovecsAssumption
<1>7. ASSUME NEW j \in Reqs, Refused(j)'
      PROVE  landed'[j] <= FirstNull(j)' * BlkSize /\ (LinesOf(j)' = {} \/ Torn(j)')
  <2>1. CASE j = k
    BY <1>4, <1>6, <1>7, <2>1
  <2>2. CASE j # k
    BY <1>2, <1>5, <1>7, <2>2, CutStays
  <2> QED
    BY <2>1, <2>2
<1> QED
  BY <1>7 DEF CutShort

(* A refused read transfers at most the blocks before the missing buffer.  *)
LEMMA CutAtComplete ==
  ASSUME TypeOK, RingInv, CutShort, NEW k \in Reqs, NEW res \in Results(k), Complete(k, res)
  PROVE  CutShort'
<1>1. /\ k \in kernel.inflight /\ UNCHANGED <<out, plan, file>>
      /\ landed' = [landed EXCEPT ![k] = IF res < 0 THEN 0 ELSE res]
  BY DEF Complete, request, output, env
<1>2. kernel'.inflight \subseteq kernel.inflight
  BY PostsOrBacklogs, KernelType DEF Posts, Backlogs
<1>3. \A j \in Reqs : j # k => SameRead(j)
  BY <1>1, <1>2 DEF TypeOK, SameRead
<1>4. NullBlocks(k)' = NullBlocks(k) /\ LinesOf(k)' = LinesOf(k)
  BY <1>1 DEF NullBlocks, Chunk, LinesOf
<1>5. FirstNull(k)' = FirstNull(k)
  BY <1>4 DEF FirstNull
<1>6. ASSUME Refused(k) PROVE landed'[k] <= FirstNull(k) * BlkSize
  <2>1. FirstNull(k) \in Nat /\ FirstNull(k) * BlkSize \in Nat
    BY <1>6, FirstNullType, IovecsAssumption DEF Refused
  <2>2. Readable(k) \in Nat /\ Readable(k) <= FirstNull(k) * BlkSize
    <3> DEFINE room == FirstNull(k) * BlkSize
    <3>1. Readable(k) = IF file.kind = "other" THEN room ELSE Lesser(file.len, room)
      BY <1>6 DEF Readable, Refused
    <3>2. file.len \in Nat /\ room \in Nat
      <4>1. file.len \in 0 .. MaxSize
        BY DEF TypeOK
      <4> QED
        BY <2>1, <4>1
    <3> HIDE DEF room
    <3>3. Readable(k) \in Nat /\ Readable(k) <= room
      BY <3>1, <3>2 DEF Lesser
    <3> QED
      BY <3>3 DEF room
  <2>3. res \in {-1} \union 0 .. Readable(k)
    BY <2>2 DEF Results
  <2>4. landed'[k] = IF res < 0 THEN 0 ELSE res
    BY <1>1 DEF TypeOK
  <2> QED
    BY <2>1, <2>2, <2>3, <2>4
<1>7. Refused(k) => LinesOf(k) = {}
  BY <1>1 DEF CutShort, Torn
<1>8. ASSUME NEW j \in Reqs, Refused(j)'
      PROVE  landed'[j] <= FirstNull(j)' * BlkSize /\ (LinesOf(j)' = {} \/ Torn(j)')
  <2>1. CASE j = k
    BY <1>4, <1>5, <1>6, <1>7, <1>8, <2>1 DEF Refused
  <2>2. CASE j # k
    BY <1>1, <1>3, <1>8, <2>2, CutStays
  <2> QED
    BY <2>1, <2>2
<1> QED
  BY <1>8 DEF CutShort

(* Lines that are put behind the others are of the read that is printed. *)
LEMMA OtherLinesStay ==
  ASSUME TypeOK, NEW k \in Reqs, NEW n \in Nat, PrintUpTo(k, n), UNCHANGED <<plan, landed>>,
         NEW j \in Reqs, j # k, LinesOf(j) = {}
  PROVE  LinesOf(j)' = {}
<1>1. /\ Len(out) \in Nat /\ DOMAIN out = 1 .. Len(out) /\ \A i \in 1 .. Len(out) : out'[i] = out[i]
  BY PrintedBehind
<1>2. \A i \in DOMAIN out' \ DOMAIN out : out'[i].req = k
  BY LinesStay
<1>3. \A i \in DOMAIN out : out[i].req # j
  BY DEF LinesOf
<1> QED
  BY <1>1, <1>2, <1>3 DEF LinesOf

LEMMA CutAtPrint ==
  ASSUME TypeOK, Allocated, Written, CutShort, NEW cqe \in Visible, PrintBlocks(cqe)
  PROVE  CutShort'
<1> DEFINE k == cqe.user
           n == BlockCount(plan[k].size)
<1>1. /\ pc = "print" /\ NullBlocks(k) = {} /\ PrintUpTo(k, n) /\ UNCHANGED <<plan, landed>>
  BY DEF PrintBlocks, request
<1>2. k \in Reqs
  BY VisibleType DEF PrintBlocks
<1>3. n \in Nat
  BY <1>2, PlanType, BlocksAreNaturals
<1> HIDE DEF k, n
<1>4. ASSUME NEW j \in Reqs, Refused(j)'
      PROVE  landed'[j] <= FirstNull(j)' * BlkSize /\ LinesOf(j)' = {}
  <2>1. NullBlocks(j)' = NullBlocks(j)
    BY <1>1 DEF NullBlocks, Chunk
  <2>2. Refused(j) /\ FirstNull(j)' = FirstNull(j) /\ j # k
    BY <1>1, <1>4, <2>1 DEF Refused, FirstNull
  <2>3. LinesOf(j) = {}
    BY <1>1, <2>2, NoLinesYet, RefusedIsNotPrinted
  <2>4. LinesOf(j)' = {}
    BY <1>1, <1>2, <1>3, <2>2, <2>3, OtherLinesStay
  <2> QED
    BY <1>1, <2>2, <2>4 DEF CutShort
<1> QED
  BY <1>4 DEF CutShort

(* The fault: the read is the one whose completion is at the head. *)
LEMMA CutAtCrash ==
  ASSUME TypeOK, RingInv, Written, CutShort, NEW cqe \in Visible, PrintCrash(cqe)
  PROVE  CutShort'
<1> DEFINE k == cqe.user
<1>1. /\ pc = "print" /\ UNCHANGED <<plan, landed, kernel, printed>>
      /\ UNCHANGED out \/ (k # 0 /\ NullBlocks(k) # {} /\ PrintUpTo(k, FirstNull(k)))
  BY DEF PrintCrash, request
<1>2. \A j : SameRead(j)
  BY <1>1 DEF SameRead
<1>3. CASE UNCHANGED out
  BY <1>2, <1>3, CutStays DEF CutShort
<1>4. CASE k # 0 /\ NullBlocks(k) # {} /\ PrintUpTo(k, FirstNull(k))
  <2>1. k \in Reqs /\ k \notin printed
    BY <1>4, VisibleType DEF Written
  <2>2. k \notin kernel.inflight
    <3>1. HeadSlot \in Slots
      BY RingType
    <3>2. cqe = cq.cqes[HeadSlot]
      BY <1>4, <2>1, <3>1 DEF Visible, HeadSlot, RingInv, SlotsHold
    <3>3. InRing(HeadSlot)
      BY <1>1, HeadIsInRing DEF RingInv, RingBounds
    <3> QED
      BY <3>1, <3>2, <3>3 DEF RingInv, SlotsHold, User, Pending
  <2>3. PICK n \in Nat : n = FirstNull(k)
    BY <1>4, <2>1, FirstNullType
  <2> HIDE DEF k
  <2>4. PrintUpTo(k, n)
    BY <1>4, <2>3
  <2>5. PICK a \in Nat : a = Len(out)
    BY <2>1, <2>4, PrintedBehind
  <2>6. /\ DOMAIN out = 1 .. a /\ DOMAIN out' = 1 .. a + n /\ Len(out') = a + n
        /\ \A i \in 1 .. a : out'[i] = out[i]
        /\ \A i \in 1 .. n : out'[a + i] = Line(k, i - 1)
    BY <2>1, <2>4, <2>5, PrintedBehind
  <2>7. \A i \in DOMAIN out' \ DOMAIN out : out'[i].req = k
    BY <1>1, <2>1, <2>4, LinesStay
  <2>8. \A j : NullBlocks(j)' = NullBlocks(j) /\ FirstNull(j)' = FirstNull(j)
    <3>1. \A j : NullBlocks(j)' = NullBlocks(j)
      BY <1>1 DEF NullBlocks, Chunk
    <3> QED
      BY <3>1 DEF FirstNull
  <2>9. TornAt(k, a)'
    <3>1. \A i \in 1 .. a : out'[i].req # k
      <4>1. LinesOf(k) = {}
        BY <1>1, <2>1, NoLinesYet
      <4> QED
        BY <2>6, <4>1 DEF LinesOf
    <3>2. LinesOf(k)' = {i \in 1 .. a + n : i \notin 1 .. a}
      BY <2>6, <2>7, <3>1 DEF LinesOf
    <3>3. LinesOf(k)' = Span(a, n)
      BY <3>2 DEF Span
    <3>4. \A i \in 1 .. n : out'[a + i] = Line(k, i - 1)'
      BY <1>1, <2>6 DEF Line
    <3> QED
      BY <2>3, <2>8, <3>3, <3>4 DEF TornAt
  <2>10. Torn(k)'
    <3>1. a \in 0 .. Len(out')
      BY <2>6
    <3> QED
      BY <1>1, <2>2, <2>9, <3>1 DEF Torn
  <2>11. ASSUME NEW j \in Reqs, Refused(j)'
         PROVE  landed'[j] <= FirstNull(j)' * BlkSize /\ (LinesOf(j)' = {} \/ Torn(j)')
    <3>1. Refused(j) /\ landed'[j] <= FirstNull(j)' * BlkSize
      BY <1>1, <2>8, <2>11 DEF Refused, CutShort
    <3>2. ASSUME j # k PROVE LinesOf(j)' = {}
      <4>1. LinesOf(j) = {}
        BY <1>1, <3>1, NoLinesYet, RefusedIsNotPrinted
      <4> QED
        BY <1>1, <2>1, <2>4, <3>2, <4>1, OtherLinesStay
    <3> QED
      BY <2>10, <3>1, <3>2
  <2> QED
    BY <2>11 DEF CutShort
<1> QED
  BY <1>1, <1>3, <1>4

LEMMA CutStep == IInv /\ IInv' /\ RingInv /\ OutInv /\ CutShort /\ [Next]_vars => CutShort'
<1> SUFFICES ASSUME IInv, IInv', RingInv, OutInv, CutShort, [Next]_vars PROVE CutShort'
  OBVIOUS
<1> USE DEF env, request, output
<1>0. TypeOK /\ Allocated /\ Written /\ LandsInPlan
  BY DEF IInv, OutInv
<1> DEFINE Same == UNCHANGED <<out, plan, landed>> /\ kernel'.inflight = kernel.inflight
<1>1. Same => CutShort'
  <2> SUFFICES ASSUME Same PROVE CutShort'
    OBVIOUS
  <2>1. \A k : SameRead(k)
    BY DEF SameRead
  <2> QED
    BY <2>1, CutStays DEF CutShort
<1>2. Open \/ SetupFails \/ Prepare \/ PollCrash \/ PollFinds \/ PollHoisted => Same
  BY DEF Open, SetupFails, Prepare, PollCrash, PollFinds, PollHoisted
<1>3. PollSpins \/ Ended \/ UNCHANGED vars \/ Finish \/ Advance => Same
  BY DEF PollSpins, Ended, vars, Finish, Advance
<1>4. EnterFails \/ WaitDone \/ WaitCut => Same
  BY DEF EnterFails, WaitDone, WaitCut, EnterReturns
<1>5. \A k, size, nulls : SubmitCrash(k, size, nulls) => Same
  BY DEF SubmitCrash
<1>6. \A cqe : CheckResult(cqe) \/ PrintFreed(cqe) => Same
  BY DEF CheckResult, PrintFreed
<1>7. \A len : FileChanges(len) => Same
  BY DEF FileChanges
<1>8. ASSUME EnterTakes PROVE CutShort'
  <2>1. UNCHANGED <<out, plan, landed>> /\ pc = "enter"
    BY <1>8 DEF EnterTakes
  <2>2. ASSUME NEW k \in Reqs, Refused(k)'
        PROVE  landed'[k] <= FirstNull(k)' * BlkSize /\ LinesOf(k)' = {}
    <3>1. NullBlocks(k)' = NullBlocks(k)
      BY <2>1 DEF NullBlocks, Chunk
    <3>2. Refused(k) /\ FirstNull(k)' = FirstNull(k)
      BY <2>2, <3>1 DEF Refused, FirstNull
    <3>3. LinesOf(k) = {} /\ LinesOf(k)' = LinesOf(k)
      BY <1>0, <2>1, <3>2, NoLinesYet, RefusedIsNotPrinted DEF LinesOf
    <3> QED
      BY <2>1, <3>2, <3>3 DEF CutShort
  <2> QED
    BY <2>2 DEF CutShort
<1>9. \A k \in Reqs : \A size, nulls : SubmitToSq(k, size, nulls) => CutShort'
  BY <1>0, CutAtSubmit
<1>10. \A k \in Reqs : \A res \in Results(k) : Complete(k, res) => CutShort'
  BY <1>0, CutAtComplete
<1>11. \A cqe \in Visible : PrintBlocks(cqe) \/ PrintCrash(cqe) => CutShort'
  BY <1>0, CutAtPrint, CutAtCrash
<1> HIDE DEF Same
<1> QED
  BY <1>1, <1>2, <1>3, <1>4, <1>5, <1>6, <1>7, <1>8, <1>9, <1>10, <1>11
  DEF Next, Main, Environment

(* What the kernel read adds up in the lines of a read that was cut short. *)
LEMMA TornAddsUp ==
  ASSUME TypeOK, CutShort, NEW k \in Reqs, Refused(k), LinesOf(k) # {}
  PROVE  Total("got", k) = landed[k]
<1> DEFINE size == plan[k].size
           gots == [i \in DOMAIN out |-> out[i].got]
<1>0. PICK n \in Nat : n = FirstNull(k)
  BY FirstNullType DEF Refused
<1>1. /\ size \in Sizes /\ landed[k] \in Nat /\ landed[k] <= n * BlkSize
      /\ BlockCount(size) \in Nat /\ n < BlockCount(size)
  <2>1. n \in Blocks(size)
    BY <1>0, FirstNullType DEF Refused, NullBlocks
  <2>2. size \in Sizes /\ BlockCount(size) \in Nat
    BY PlanType, BlocksAreNaturals, BlockCountType
  <2>3. landed[k] \in Nat
    BY DEF TypeOK
  <2>4. landed[k] <= n * BlkSize
    BY <1>0 DEF CutShort
  <2> HIDE DEF size
  <2>5. n < BlockCount(size)
    BY <2>1, <2>2 DEF Blocks
  <2> QED
    BY <2>2, <2>3, <2>4, <2>5
<1>2. PICK a \in 0 .. Len(out) : TornAt(k, a)
  BY DEF CutShort, Torn
<1>3. LinesOf(k) = Span(a, n) /\ \A i \in 1 .. n : out[a + i] = Line(k, i - 1)
  BY <1>0, <1>2 DEF TornAt
<1>4. a \in Nat
  <2>1. Len(out) \in Nat
    BY LenProperties DEF TypeOK
  <2> QED
    BY <2>1
<1>5. \A i \in 1 .. n : a + i \in DOMAIN out
  <2>1. \A i \in 1 .. n : a + i \in Span(a, n)
    BY <1>4 DEF Span
  <2> QED
    BY <1>3, <2>1 DEF LinesOf
<1>6. \A i \in 1 .. n : gots[a + i] = Landed(size, landed[k], i - 1)
  <2>1. \A i \in 1 .. n : gots[a + i] = out[a + i].got
    BY <1>5
  <2> HIDE DEF gots
  <2>2. \A i : Line(k, i - 1).got = Landed(size, landed[k], i - 1)
    BY DEF Line
  <2> QED
    BY <1>3, <2>1, <2>2
<1> HIDE DEF gots, size
<1>7. landed[k] \in 0 .. n * BlkSize
  BY <1>1, IovecsAssumption
<1>8. SumFunctionOnSet(gots, Span(a, n)) = landed[k]
  BY <1>1, <1>4, <1>6, <1>7, LandedBeforeABlock
<1>9. Total("got", k) = SumFunctionOnSet(gots, LinesOf(k))
  BY DEF Total, gots
<1> QED
  BY <1>3, <1>8, <1>9

(* A read that malloc refused a buffer is never taken for printed: its     *)
(* lines hold what the kernel read, and the fault ends the program.        *)
THEOREM NoReadIsPrintedInPart == Spec => []MissingBufferIsNoticed
<1>1. Init => CutShort
  <2> SUFFICES ASSUME Init, NEW k \in Reqs PROVE ~Refused(k)
    BY DEF CutShort
  <2>1. plan[k].nulls = {}
    BY DEF Init
  <2> QED
    BY <2>1 DEF Refused, NullBlocks
<1>2. RInv /\ RInv' /\ OutInv /\ CutShort /\ [Next]_vars => CutShort'
  BY CutStep DEF RInv
<1>3. RInv /\ OutInv /\ CutShort => MissingBufferIsNoticed
  <2> SUFFICES ASSUME RInv, OutInv, CutShort, NEW k \in Reqs, NullBlocks(k) # {}
               PROVE  /\ k \notin printed
                      /\ LinesOf(k) # {} =>
                           /\ pc \in {"handler", "exit 139"} /\ Total("got", k) = landed[k]
    BY DEF MissingBufferIsNoticed
  <2>1. TypeOK /\ Written /\ Refused(k)
    BY DEF RInv, IInv, OutInv, Refused
  <2>2. k \notin printed
    BY <2>1, RefusedIsNotPrinted
  <2> QED
    BY <2>1, <2>2, NoLinesYet, TornAddsUp
<1> QED
  BY <1>1, <1>2, <1>3, OutInvHolds, PTL DEF Spec

-----------------------------------------------------------------------------
(* What keeps a stable file from being printed byte for byte: a short read *)
(* or a stale load, and nothing else.                                      *)

FullSlots == \A s \in Slots : InRing(s) /\ cq.cqes[s].res >= 0 =>
               landed[User(s)] = Readable(User(s))
FullReads ==
  /\ FullSlots
  /\ Exact /\ pc = "print" => HeadResult >= 0
  /\ Exact => \A k \in printed : landed[k] = Readable(k)
FullInv == "short" \notin Failures /\ Stable => FullReads

SameReads ==
  /\ UNCHANGED <<file, fd, plan, landed, printed>>
  /\ cq'.head = cq.head /\ cq'.tail = cq.tail /\ cq'.cqes = cq.cqes
  /\ Exact' => Exact
  /\ pc' = "print" => pc = "print"

LEMMA ReadableStays ==
  ASSUME NEW k, UNCHANGED file, UNCHANGED fd, plan'[k] = plan[k]
  PROVE  Readable(k)' = Readable(k)
<1>1. NullBlocks(k)' = NullBlocks(k)
  BY DEF NullBlocks, Chunk
<1>2. FirstNull(k)' = FirstNull(k)
  BY <1>1 DEF FirstNull
<1> QED
  BY <1>1, <1>2 DEF Readable

LEMMA FullUntouched == FullInv /\ SameReads => FullInv'
<1> SUFFICES ASSUME FullInv, SameReads PROVE FullInv'
  OBVIOUS
<1>1. Stable' => Stable
  BY DEF Stable, SameReads
<1>2. \A k : Readable(k)' = Readable(k)
  BY ReadableStays DEF SameReads
<1>3. FullSlots => FullSlots'
  BY <1>2 DEF FullSlots, SameReads, InRing, HeadSlot, User
<1>4. HeadResult' = HeadResult
  BY DEF SameReads, HeadResult, HeadSlot
<1> QED
  BY <1>1, <1>2, <1>3, <1>4 DEF FullInv, FullReads, SameReads

(* Before the first submission nothing is printed, and no completion waits. *)
LEMMA NothingYet ==
  ASSUME TypeOK, RingInv, Accepted, pc = "open"
  PROVE  printed = {} /\ \A s \in Slots : ~InRing(s)
<1>1. call = 0
  BY DEF Accepted, EntryIsOfThisCall
<1>2. kernel.taken = {}
  <2>1. \A k \in Reqs : k > call
    BY <1>1, CallType
  <2>2. \A k \in Reqs : k \notin kernel.taken
    BY <2>1 DEF Accepted, EntryIsOfThisCall
  <2> QED
    BY <2>2, KernelType
<1> QED
  BY <1>2 DEF RingInv, Placed, SlotsHold

LEMMA FullAtSubmit ==
  ASSUME TypeOK, Accepted, RingInv, FullInv, NEW k \in Reqs, NEW size, NEW nulls,
         SubmitToSq(k, size, nulls)
  PROVE  FullInv'
<1>1. k \notin kernel.taken
  <2>1. k = call + 1 /\ k > call
    BY CallType DEF SubmitToSq
  <2> QED
    BY <2>1 DEF Accepted, EntryIsOfThisCall
<1>2. /\ UNCHANGED <<file, fd, cq, landed, printed, entered>> /\ pc' # "print"
      /\ \A j \in Reqs : j # k => plan'[j] = plan[j]
  BY DEF SubmitToSq, env, output, TypeOK
<1>3. \A j \in kernel.taken : Readable(j)' = Readable(j)
  BY <1>1, <1>2, ReadableStays, KernelType
<1>4. \A s \in Slots : InRing(s) => User(s) \in kernel.taken
  BY DEF RingInv, SlotsHold
<1>5. FullSlots => FullSlots'
  BY <1>2, <1>3, <1>4 DEF FullSlots, InRing, HeadSlot, User
<1>6. printed \subseteq kernel.taken
  BY DEF RingInv, Placed
<1> QED
  BY <1>2, <1>3, <1>5, <1>6 DEF FullInv, FullReads, Stable, Exact, NoStale

LEMMA FullAtReturn ==
  ASSUME TypeOK, Accepted, FullInv, EnterFails \/ WaitDone \/ WaitCut
  PROVE  FullInv'
<1>1. PICK result : EnterReturns(result) /\ pc \in {"enter", "wait"}
  BY DEF EnterFails, WaitDone, WaitCut
<1>2. call \in Reqs /\ entered[call] = "not yet"
  BY <1>1 DEF Accepted, EntryIsOfThisCall
<1>3. Exact' => Exact
  <2>1. entered'[1] # "cut" => entered[1] # "cut"
    <3>1. entered' = [entered EXCEPT ![call] = result]
      BY <1>1 DEF EnterReturns
    <3>2. entered \in [Reqs -> {"not yet", "failed", "done", "cut"}]
      BY DEF TypeOK
    <3>3. 1 \in Reqs
      BY Bounds DEF Reqs
    <3>4. entered'[1] = IF call = 1 THEN result ELSE entered[1]
      BY <1>2, <3>1, <3>2, <3>3
    <3> QED
      BY <1>2, <3>4
  <2> QED
    BY <2>1 DEF Exact, NoStale
<1>4. SameReads
  BY <1>1, <1>3 DEF EnterReturns, SameReads, env, output
<1> QED
  BY <1>4, FullUntouched

LEMMA FullAtComplete ==
  ASSUME TypeOK, RingInv, FullInv, NEW k \in Reqs, NEW res \in Results(k), Complete(k, res)
  PROVE  FullInv'
<1>1. k \in Pending /\ k \in kernel.taken /\ k \notin printed
  BY DEF Complete, RingInv, Placed, Pending
<1>2. UNCHANGED <<pc, file, fd, plan, printed, entered>>
  BY DEF Complete, env, request, output
<1>3. \A j : Readable(j)' = Readable(j)
  BY <1>2, ReadableStays
<1>4. landed' = [landed EXCEPT ![k] = IF res < 0 THEN 0 ELSE res]
  BY DEF Complete
<1>5. \A j \in Reqs : j # k => landed'[j] = landed[j]
  BY <1>4 DEF TypeOK
<1>6. \A s \in Slots : InRing(s) => User(s) # k /\ User(s) \in Reqs
  BY <1>1, KernelType DEF RingInv, SlotsHold
<1>7. "short" \notin Failures /\ Stable => res \in {-1, Readable(k)}
  BY DEF Results, Stable
<1>8. CASE Backlogs(k)
  <2>1. cq' = cq
    BY <1>8 DEF Backlogs
  <2>2. FullSlots => FullSlots'
    BY <1>3, <1>5, <1>6, <2>1 DEF FullSlots, InRing, HeadSlot, User
  <2>3. \A j \in printed : landed'[j] = landed[j]
    BY <1>1, <1>5 DEF TypeOK
  <2> QED
    BY <1>2, <1>3, <2>1, <2>2, <2>3
    DEF FullInv, FullReads, Stable, Exact, NoStale, HeadResult, HeadSlot
<1>9. CASE Posts(k, res) /\ cq.tail - cq.head < CqEntries
  <2>1. /\ ~InRing(TailSlot) /\ HeadSlot' = HeadSlot
        /\ \A s \in Slots :
             /\ InRing(s)' <=> InRing(s) \/ s = TailSlot
             /\ cq'.cqes[s] = IF s = TailSlot THEN Cqe(k, res) ELSE cq.cqes[s]
    BY <1>9, PostTakesFreeSlot DEF RingInv
  <2>2. pc = "print" => InRing(HeadSlot) /\ HeadSlot \in Slots
    BY HeadIsInRing DEF RingInv, RingBounds
  <2>3. pc = "print" => HeadResult' = HeadResult
    BY <2>1, <2>2 DEF HeadResult
  <2>4. "short" \notin Failures /\ Stable /\ FullSlots => FullSlots'
    <3>1. SUFFICES ASSUME "short" \notin Failures, Stable, FullSlots,
                          NEW s \in Slots, InRing(s)', cq'.cqes[s].res >= 0,
                          NEW u, u = cq'.cqes[s].user
                   PROVE  landed'[u] = Readable(u)'
      BY DEF FullSlots, User
    <3>2. CASE s = TailSlot
      <4>1. cq'.cqes[s].user = k /\ cq'.cqes[s].res = res
        BY <2>1, <3>2 DEF Cqe
      <4>2. res >= 0 /\ Readable(k) \in Nat /\ landed \in [Reqs -> Nat]
        BY <3>1, <4>1, ReadableFits DEF TypeOK
      <4>3. res = Readable(k)
        BY <1>7, <3>1, <4>2
      <4>4. landed'[k] = res
        BY <1>4, <4>2, <4>3
      <4> QED
        BY <1>3, <3>1, <4>1, <4>3, <4>4 DEF User
    <3>3. CASE s # TailSlot
      <4>1. cq'.cqes[s] = cq.cqes[s] /\ InRing(s)
        BY <2>1, <3>1, <3>3
      <4>2. landed[User(s)] = Readable(User(s)) /\ landed'[User(s)] = landed[User(s)]
        BY <1>5, <1>6, <3>1, <4>1 DEF FullSlots
      <4> QED
        BY <1>3, <3>1, <4>1, <4>2 DEF User
    <3> QED
      BY <3>2, <3>3
  <2>5. \A j \in printed : landed'[j] = landed[j]
    BY <1>1, <1>5 DEF TypeOK
  <2> QED
    BY <1>2, <1>3, <2>3, <2>4, <2>5 DEF FullInv, FullReads, Stable, Exact, NoStale
<1> QED
  BY <1>8, <1>9, PostsOrBacklogs

LEMMA FullAtCheck ==
  ASSUME TypeOK, RingInv, CallInv, FullInv, NEW cqe \in Visible, CheckResult(cqe)
  PROVE  FullInv'
<1>1. /\ UNCHANGED <<file, fd, plan, landed, printed, entered, cq>> /\ pc = "check"
      /\ pc' = IF cqe.res < 0 THEN "close" ELSE "print"
  BY DEF CheckResult, env, request, output
<1>2. Exact => cqe = cq.cqes[HeadSlot]
  BY <1>1, ExactLoads
<1>3. Exact /\ pc' = "print" => HeadResult' >= 0
  BY <1>1, <1>2, VisibleType DEF HeadResult, HeadSlot
<1>4. \A j : Readable(j)' = Readable(j)
  BY <1>1, ReadableStays
<1>5. FullSlots => FullSlots'
  BY <1>1, <1>4 DEF FullSlots, InRing, HeadSlot, User
<1> QED
  BY <1>1, <1>3, <1>4, <1>5 DEF FullInv, FullReads, Stable, Exact, NoStale

LEMMA FullAtPrint ==
  ASSUME TypeOK, Allocated, RingInv, FullInv, NEW cqe \in Visible, PrintBlocks(cqe)
  PROVE  FullInv'
<1>1. /\ UNCHANGED <<file, fd, plan, landed, entered, cq>> /\ pc = "print" /\ pc' = "advance"
      /\ printed' = printed \union {cqe.user}
  BY DEF PrintBlocks, env, request
<1>2. cqe.user = User(HeadSlot) /\ InRing(HeadSlot) /\ HeadSlot \in Slots
  BY <1>1, HeadIsPrinted, HeadIsInRing DEF User, RingInv, RingBounds
<1>3. \A j : Readable(j)' = Readable(j)
  BY <1>1, ReadableStays
<1>4. FullSlots => FullSlots'
  BY <1>1, <1>3 DEF FullSlots, InRing, HeadSlot, User
<1>5. FullReads /\ Exact => landed[cqe.user] = Readable(cqe.user)
  BY <1>1, <1>2 DEF FullReads, FullSlots, HeadResult
<1> QED
  BY <1>1, <1>3, <1>4, <1>5 DEF FullInv, FullReads, Stable, Exact, NoStale

LEMMA FullAtAdvance ==
  ASSUME TypeOK, RingInv, FullInv, Advance
  PROVE  FullInv'
<1>1. UNCHANGED <<file, fd, plan, landed, entered, printed>> /\ pc' = "poll"
  BY DEF Advance, env, request, output
<1>2. cq'.cqes = cq.cqes /\ \A s \in Slots : InRing(s)' => InRing(s)
  BY AdvanceFreesSlot DEF RingInv
<1>3. \A j : Readable(j)' = Readable(j)
  BY <1>1, ReadableStays
<1>4. FullSlots => FullSlots'
  BY <1>1, <1>2, <1>3 DEF FullSlots, User
<1> QED
  BY <1>1, <1>3, <1>4 DEF FullInv, FullReads, Stable, Exact, NoStale

LEMMA FullStep == RInv /\ FullInv /\ [Next]_vars => FullInv'
<1> SUFFICES ASSUME RInv, FullInv, [Next]_vars PROVE FullInv'
  OBVIOUS
<1> USE DEF env, request, output
<1>1. TypeOK /\ Accepted /\ Allocated /\ RingInv /\ CallInv
  BY DEF RInv, IInv
<1>2. SetupFails \/ Prepare \/ PollCrash \/ PollFinds \/ PollHoisted \/ EnterTakes => SameReads
  BY DEF SetupFails, Prepare, PollCrash, PollFinds, PollHoisted, EnterTakes, SameReads, Exact
<1>3. PollSpins \/ Ended \/ UNCHANGED vars \/ Finish => SameReads
  BY DEF PollSpins, Ended, vars, Finish, SameReads, Exact
<1>4. \A k, size, nulls : SubmitCrash(k, size, nulls) => SameReads
  BY DEF SubmitCrash, SameReads, Exact
<1>5. \A cqe : PrintCrash(cqe) \/ PrintFreed(cqe) => SameReads
  BY DEF PrintCrash, PrintFreed, SameReads, Exact
<1>6. CASE Open
  <2>1. printed = {} /\ \A s \in Slots : ~InRing(s)
    BY <1>1, <1>6, NothingYet DEF Open
  <2>2. UNCHANGED <<cq, printed>> /\ pc' = "prepare"
    BY <1>6 DEF Open
  <2>3. \A s \in Slots : ~InRing(s)'
    BY <2>1, <2>2 DEF InRing, HeadSlot
  <2> QED
    BY <2>1, <2>2, <2>3 DEF FullInv, FullReads, FullSlots
<1>7. ASSUME NEW len, FileChanges(len) PROVE FullInv'
  <2>1. file \in [kind : Kinds, len : 0 .. MaxSize, changes : 0 .. MaxChanges]
    BY <1>1 DEF TypeOK
  <2>2. file'.changes # 0
    BY <1>7, <2>1, Bounds DEF FileChanges
  <2> QED
    BY <2>2 DEF FullInv, Stable
<1>8. \A k \in Reqs : \A size, nulls : SubmitToSq(k, size, nulls) => FullInv'
  BY <1>1, FullAtSubmit
<1>9. EnterFails \/ WaitDone \/ WaitCut => FullInv'
  BY <1>1, FullAtReturn
<1>10. \A k \in Reqs : \A res \in Results(k) : Complete(k, res) => FullInv'
  BY <1>1, FullAtComplete
<1>11. \A cqe \in Visible : CheckResult(cqe) \/ PrintBlocks(cqe) => FullInv'
  BY <1>1, FullAtCheck, FullAtPrint
<1>12. Advance => FullInv'
  BY <1>1, FullAtAdvance
<1> QED
  BY <1>2, <1>3, <1>4, <1>5, <1>6, <1>7, <1>8, <1>9, <1>10, <1>11, <1>12, FullUntouched
  DEF Next, Main, Environment

(* Without short reads, a program that queues one read prints every byte   *)
(* of a file nobody resizes, unless a signal cut the wait, and one that    *)
(* queues several does so on a processor that does not load ahead.         *)
THEOREM OnlyShortReadsFallShort ==
  ASSUME "short" \notin Failures
  PROVE  Spec => [](Stable /\ Exact =>
                      \A k \in printed :
                        Total("len", k) = file.len /\ Total("got", k) = file.len)
<1> DEFINE P == Stable /\ Exact =>
                  \A k \in printed : Total("len", k) = file.len /\ Total("got", k) = file.len
<1>1. Init => FullInv
  <2> SUFFICES ASSUME Init PROVE FullInv
    OBVIOUS
  <2>1. printed = {} /\ pc = "open" /\ cq.head = 0 /\ cq.tail = 0
    BY DEF Init
  <2>2. \A s \in Slots : ~InRing(s)
    BY <2>1 DEF InRing
  <2> QED
    BY <2>1, <2>2 DEF FullInv, FullReads, FullSlots
<1>2. RInv /\ FullInv /\ [Next]_vars => FullInv'
  BY FullStep
<1>3. RInv /\ OutInv /\ FullInv => P
  <2> SUFFICES ASSUME RInv, OutInv, FullInv, Stable, Exact, NEW k \in printed
               PROVE  Total("len", k) = file.len /\ Total("got", k) = file.len
    OBVIOUS
  <2>1. StableFileIsPrintedWhole
    BY PrintedWhole
  <2>2. landed[k] = Readable(k)
    BY DEF FullInv, FullReads
  <2> QED
    BY <2>1, <2>2 DEF StableFileIsPrintedWhole, Stable
<1> QED
  BY <1>1, <1>2, <1>3, OutInvHolds, PTL DEF Spec
=============================================================================
