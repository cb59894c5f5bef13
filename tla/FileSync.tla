------------------------------ MODULE FileSync ------------------------------
(***************************************************************************)
(* writesync_hi, writeasync_lo, readsync_lo and readasync_lo of files.c,   *)
(* called by processes of their own on the one file they all name.  The    *)
(* file is a sequence of pieces, each marked with its writer; what was     *)
(* there before belongs to Others.                                         *)
(*                                                                         *)
(* The kernel appends under the lock of the inode: a write is one step.  A *)
(* reader that sees only part of one is a read that returns less.          *)
(***************************************************************************)
EXTENDS Integers, Sequences, SequencesExt

CONSTANTS
  HiWriters, LoWriters,  \* processes that call writesync_hi, writeasync_lo
  Readers,               \* and readsync_lo or readasync_lo
  Others,                \* who wrote what was there before
  Pieces,                \* the names and newlines a call writes; 20 in C
  BufferSize,            \* pieces that fit the buffer of a reader
  Faults                 \* which of "open", "write", "read", "short", "kill" happen

Processes == HiWriters \union LoWriters \union Readers

ASSUME FileSyncAssumption ==
  /\ Pieces \in Nat \ {0} /\ BufferSize \in Nat \ {0}
  /\ HiWriters \intersect LoWriters = {}
  /\ (HiWriters \union LoWriters) \intersect Readers = {}
  /\ Others \notin Processes

VARIABLES
  exists, file,  \* somefile.txt
  pc, code,      \* where a process is, and what it returned
  buffer,        \* the FILE of a writesync_hi: what is not in the file yet
  out,           \* what a reader printed
  seen,          \* history: the length of the file when a reader opened it
  broken         \* history: "lost" after an error, "cut" after a short write

vars == <<exists, file, pc, code, buffer, out, seen, broken>>

Running == -1
Text(w) == [k \in 1 .. Pieces |-> <<w, k>>]
Faulty(f) == f \in Faults

Init ==
  /\ exists \in BOOLEAN
  /\ file \in IF exists THEN {<<>>, Text(Others)} ELSE {<<>>}
  /\ pc = [p \in Processes |-> "call"] /\ code = [p \in Processes |-> Running]
  /\ buffer = [w \in HiWriters |-> <<>>]
  /\ out = [r \in Readers |-> <<>>] /\ seen = [r \in Readers |-> 0]
  /\ broken = [p \in Processes |-> "no"]

At(p, here) == pc[p] = here
Goto(p, there) == pc' = [pc EXCEPT ![p] = there] /\ UNCHANGED code
Return(p, value) == pc' = [pc EXCEPT ![p] = "done"] /\ code' = [code EXCEPT ![p] = value]
Breaks(p, how) == broken' = [broken EXCEPT ![p] = how]

OpenFails(p, value) ==
  /\ At(p, "call") /\ Return(p, value)
  /\ UNCHANGED <<exists, file, buffer, out, seen, broken>>

-----------------------------------------------------------------------------
(* writesync_hi: its 130 bytes are assumed to fit the buffer of stdio and  *)
(* stay there until fclose writes it.  fclose goes on after a short write  *)
(* and gives up after an error, which nobody looks at.                     *)

HiTruncates(w) ==  \* mutant
  /\ At(w, "call") /\ Goto(w, "fill")
  /\ exists' = TRUE /\ file' = <<>>
  /\ UNCHANGED <<buffer, out, seen, broken>>

HiOpen(w) ==
  /\ At(w, "call") /\ Goto(w, "fill")
  /\ exists' = TRUE
  /\ UNCHANGED <<file, buffer, out, seen, broken>>

NextPiece(w) == Text(w)[Len(buffer[w]) + 1]

Fwrite(w) ==
  /\ At(w, "fill")
  /\ buffer' = [buffer EXCEPT ![w] = Append(@, NextPiece(w))]
  /\ Goto(w, IF Len(buffer[w]) + 1 < Pieces THEN "fill" ELSE "fclose")
  /\ UNCHANGED <<exists, file, out, seen, broken>>

WholeBufferAgain(w, n) == buffer[w]  \* mutant
Unwritten(w, n) == SubSeq(buffer[w], n + 1, Len(buffer[w]))

Flush(w) ==
  /\ At(w, "fclose") /\ buffer[w] # <<>>
  /\ \E n \in 1 .. Len(buffer[w]) :
       /\ n < Len(buffer[w]) => Faulty("short")
       /\ file' = file \o SubSeq(buffer[w], 1, n)
       /\ buffer' = [buffer EXCEPT ![w] = IF n = Len(@) THEN <<>> ELSE Unwritten(w, n)]
       /\ IF n < Len(buffer[w]) THEN Breaks(w, "cut") ELSE UNCHANGED broken
  /\ UNCHANGED <<exists, pc, code, out, seen>>

FlushFails(w) ==
  /\ At(w, "fclose") /\ buffer[w] # <<>> /\ Faulty("write")
  /\ buffer' = [buffer EXCEPT ![w] = <<>>] /\ Breaks(w, "lost")
  /\ UNCHANGED <<exists, file, pc, code, out, seen>>

HiReturn(w) ==
  /\ At(w, "fclose") /\ buffer[w] = <<>> /\ Return(w, 0)
  /\ UNCHANGED <<exists, file, buffer, out, seen, broken>>

WriteSyncHi(w) ==
  \/ Faulty("open") /\ OpenFails(w, 1)
  \/ HiOpen(w) \/ Fwrite(w) \/ Flush(w) \/ FlushFails(w) \/ HiReturn(w)

-----------------------------------------------------------------------------
(* writeasync_lo: O_APPEND | O_NONBLOCK neither creates the file nor opens *)
(* it for writing.  Every write fails, and nobody looks at that either.    *)

LoOpen(w) ==
  /\ At(w, "call") /\ exists /\ Goto(w, "write")
  /\ UNCHANGED <<exists, file, buffer, out, seen, broken>>

LoLands(w) == <<>>

LoWrites(w) ==
  /\ At(w, "write") /\ Return(w, 0)
  /\ file' = file \o LoLands(w)
  /\ UNCHANGED <<exists, buffer, out, seen, broken>>

WriteAsyncLo(w) ==
  \/ (Faulty("open") \/ ~exists) /\ OpenFails(w, 1)
  \/ LoOpen(w) \/ LoWrites(w)

-----------------------------------------------------------------------------
(* readsync_lo, and readasync_lo with the same body: O_NONBLOCK makes no   *)
(* difference to a regular file.  The loop ends at the end of the file,    *)
(* and at an error.                                                        *)

ReaderOpen(r) ==
  /\ At(r, "call") /\ exists /\ Goto(r, "read")
  /\ seen' = [seen EXCEPT ![r] = Len(file)]
  /\ UNCHANGED <<exists, file, buffer, out, broken>>

Available(r) == Len(file) - Len(out[r])

Read(r) ==
  /\ At(r, "read")
  /\ \E n \in 1 .. BufferSize :
       /\ n <= Available(r)
       /\ n < BufferSize /\ n < Available(r) => Faulty("short")
       /\ out' = [out EXCEPT ![r] = @ \o SubSeq(file, Len(@) + 1, Len(@) + n)]
  /\ UNCHANGED <<exists, file, pc, code, buffer, seen, broken>>

StopsEarly(r) == Available(r) < BufferSize  \* mutant
NeverStops(r) == FALSE                      \* mutant
AtEnd(r) == Available(r) = 0

ReadEnds(r) ==
  /\ At(r, "read") /\ AtEnd(r) /\ Return(r, 0)
  /\ UNCHANGED <<exists, file, buffer, out, seen, broken>>

ReadFails(r) ==
  /\ At(r, "read") /\ Faulty("read") /\ Return(r, 0) /\ Breaks(r, "lost")
  /\ UNCHANGED <<exists, file, buffer, out, seen>>

Reading(r) ==
  \/ (Faulty("open") \/ ~exists) /\ OpenFails(r, 2)
  \/ ReaderOpen(r) \/ Read(r) \/ ReadEnds(r) \/ ReadFails(r)
ReadSyncLo(r)  == Reading(r)
ReadAsyncLo(r) == Reading(r)

-----------------------------------------------------------------------------
(* A process that is killed takes the buffer of its FILE with it. *)
Kill(p) ==
  /\ Faulty("kill") /\ pc[p] \notin {"call", "done", "killed"} /\ Goto(p, "killed")
  /\ UNCHANGED <<exists, file, buffer, out, seen, broken>>

AllEnded == (\A p \in Processes : pc[p] \in {"done", "killed"}) /\ UNCHANGED vars

Next ==
  \/ \E w \in HiWriters : WriteSyncHi(w)
  \/ \E w \in LoWriters : WriteAsyncLo(w)
  \/ \E r \in Readers : ReadSyncLo(r) \/ ReadAsyncLo(r)
  \/ \E p \in Processes : Kill(p)
  \/ AllEnded

Spec == Init /\ [][Next]_vars

(* The processes are scheduled, and system calls return; no failure is     *)
(* counted on to end a call.                                               *)
Missing(p, value) == ~exists /\ OpenFails(p, value)
Fairness ==
  /\ \A w \in HiWriters : WF_vars(HiOpen(w) \/ Fwrite(w) \/ Flush(w) \/ HiReturn(w))
  /\ \A w \in LoWriters : WF_vars(Missing(w, 1) \/ LoOpen(w) \/ LoWrites(w))
  /\ \A r \in Readers : WF_vars(Missing(r, 2) \/ ReaderOpen(r) \/ Read(r) \/ ReadEnds(r))

FairSpec == Spec /\ Fairness
-----------------------------------------------------------------------------
(* Properties. *)

AllPieces == {<<w, k>> : w \in HiWriters \union {Others}, k \in 1 .. Pieces}

TypeOK ==
  /\ exists \in BOOLEAN
  /\ file \in Seq(AllPieces)
  /\ ~exists => file = <<>>
  /\ pc \in [Processes -> {"call", "fill", "fclose", "write", "read", "done", "killed"}]
  /\ code \in [Processes -> {Running, 0, 1, 2}]
  /\ buffer \in [HiWriters -> Seq(AllPieces)] /\ out \in [Readers -> Seq(AllPieces)]
  /\ seen \in [Readers -> Nat] /\ broken \in [Processes -> {"no", "cut", "lost"}]

(* The pieces of w, in their order: SelectSeq as a recursive function. *)
Of(w) ==
  LET kept[n \in 0 .. Len(file)] ==
        IF n = 0 THEN <<>>
        ELSE IF file[n][1] = w THEN Append(kept[n - 1], file[n]) ELSE kept[n - 1]
  IN  kept[Len(file)]

(* What a process left in the file is the beginning of its text, in order  *)
(* and once, however the writes of the others fall between its own and     *)
(* wherever it was killed; writeasync_lo leaves nothing.                   *)
TextsInOrder ==
  /\ \A w \in HiWriters : IsPrefix(Of(w), Text(w))
  /\ \A w \in LoWriters : Of(w) = <<>>

(* A writesync_hi that returned 0 has all its lines in the file unless a   *)
(* write failed, and nobody else's between them unless a write was short;  *)
(* its return value tells neither.                                         *)
ReturnedTextIsWhole ==
  \A w \in HiWriters : code[w] = 0 =>
    /\ broken[w] # "lost" => Of(w) = Text(w)
    /\ broken[w] = "no" =>
         \E i \in 0 .. Len(file) - Pieces : SubSeq(file, i + 1, i + Pieces) = Text(w)

(* Whatever the writers do meanwhile, a reader prints the file from its    *)
(* beginning, with nothing left out or repeated.                           *)
ReadersPrintThePrefix == \A r \in Readers : IsPrefix(out[r], file)

(* A reader that returned 0 printed all that was there when it opened the  *)
(* file, short reads or not, unless a read failed: that looks the same to  *)
(* its caller.                                                             *)
NothingMissed ==
  \A r \in Readers : code[r] = 0 /\ broken[r] = "no" => Len(out[r]) >= seen[r]

(* Every call returns or is killed: the writers do not keep the readers    *)
(* busy for ever.                                                          *)
CallsEnd == \A p \in Processes : <>(pc[p] \in {"done", "killed"})
=============================================================================
