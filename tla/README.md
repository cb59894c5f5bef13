# A verification of c-pet

c-pet is a collection of small C programs.  Most of it is sequential exercise
code; the exception is `files.c`, which drives an `io_uring` by hand through
two shared-memory rings.  This directory models it in TLA+, checks the models
with TLC and proves most of its invariants with TLAPS.

## The system

| component | state | operations | where |
|---|---|---|---|
| io_uring reader | the submission ring (SQ), the completion ring (CQ), one table of iovecs, one `iovec_array` and the block buffers per read, stdout | `main`, `prepare_io_uring`, `submitToSq`, `readFromCq`, `get_file_size`, `output_buf` | `files.c` |
| readv reader | iovecs on the stack, block buffers | `read_and_print_file_readv` (not called) | `files.c` |
| file experiments | one file, a stdio or a 1023-byte buffer | `writesync_hi`, `writeasync_lo`, `readsync_lo`, `readasync_lo` (not called) | `files.c` |
| strings | a growing heap string | `strconcat` | `src/util/strings.c` |
| matrix, vector | dimensions and a heap array of doubles | `Matrix_*`, `Vector_*` | `src/la` |
| exercises | arrays and scalars | quicksort, sums, search, the two largest, card hands, `readUntilNewline`, `printBinary` | `src/001pun.c` |
| asserts, test runner, signals, log | none of their own | `assertEquals*`, `RUN_TEST`, `handle_signal` | `src/util` |
| Point, hello, allocator stub, build | none | prints, an unfinished stub, Make and Docker files | `src`, `Makefile` |

`main` calls `prepare_io_uring`, `submitToSq` and `readFromCq` in that order.
`submitToSq` hands the kernel an SQE whose `addr` points at the table of iovecs
and whose `user_data` points at the `iovec_array`; the kernel writes the file
into the buffers and posts a CQE with the same `user_data`; `readFromCq` follows
it, writes the buffers to stdout and frees them.  The program and the kernel
share the rings and this memory.  The file experiments all name one file, so
that programs that call them are concurrent writers and readers of it.
A fault in any program ends in the signal handler, which exits with 139.
`Matrix_toString` calls `strconcat`; the tests call the libraries through
`RUN_TEST`, which stops at the first assertion that aborts.

Hard behaviours: the interleaving of the program with the kernel and with other
users of the file; the plain loads with which it polls the ring; calls that fail
after they changed the ring; a wait cut by a signal; a read that is short or
fails; two CQ slots for any number of reads; a size that is stale, an error
code or a multiple of the block size; results of `malloc` and `mmap` that
nobody checks.  In the sequential parts: a string whose end is marked one byte
too far, an allocation size that wraps, a partitioning that repeats itself for
ever, scans that test an element before its index, a buffer of 20 bytes for a
number of any length, a counter that is right for square matrices only, a loop
that never looks for the end of the input.  In the experiments: writers that are
killed, or whose flush is cut or fails, while readers follow the file.  In the
tests: a handler that may fault or hang itself, behind a pipe that still holds
the name of the test.  `PROJECT.json` lists them with the properties that cover them.

What makes each part correct: the reader neither loses nor repeats an entry, a
completion or a buffer, and prints what was read; the readv reader frees what it
allocates on every path and prints only when it returns 0; `strconcat` keeps the
text and ends it; a `Matrix` keeps one value per position; quicksort orders the
array, keeps its elements and ends; a hand has no card twice; a reader of the
shared file prints a prefix of it and misses nothing unless a read fails; a
failed assertion reaches the exit code and the output names its test.

## Modules

| module | what it models |
|---|---|
| `Iovecs` | how a size is cut into blocks: `block_cnt`, `bytesLeft`, `iov_len`, and where the bytes of a vectored read land |
| `UringFile` | the program of `files.c` and the kernel's half of the rings |
| `ReadService` | what `submitToSq` and `readFromCq` promise together, without rings or memory; `UringFile!ImplementsReadService` is the refinement |
| `ReadvFile` | `read_and_print_file_readv`, call after call, with other processes that resize the file |
| `FileSync` | `writesync_hi`, `writeasync_lo`, `readsync_lo`, `readasync_lo` as processes on one file |
| `StrConcat` | `strconcat` on the bytes of its block, and a caller like `strings_test.c` |
| `Grid` | what a matrix promises: a value of its own at every position; `Matrix!ImplementsGrid` is the refinement |
| `Matrix` | creation, `Matrix_get`, `_set`, `_fill`, `_destroy` on the row-major array |
| `MatrixString` | a program that prints its `Matrix`: `Matrix_toString`, composed of `Matrix` and an instance of `StrConcat` |
| `Quicksort` | `quicksort0` with its recursion as a stack of ranges, one step per round of its loop |
| `ArrayLoops` | `sum1` to `sum4`, `search`, `findTwoLargest`, `identity` |
| `DealHand` | `dealRandomHand` and `requestHandSize` |
| `ReadLines` | `readUntilNewline` |
| `Exercises` | the last three as one program that calls one of them |
| `TestRunner` | `make test`: the test programs, `RUN_TEST`, the assertions, the log, the signal handler |
| `IovecsProofs`, `UringFileProofs`, `ReadvFileProofs`, `MatrixProofs`, `QuicksortProofs`, `FileSyncProofs`, `ExercisesProofs`, `TestRunnerProofs` | theorems about the module they are named for; `UringFileProofs` has the refinement of `ReadService`, `MatrixProofs` the theorems about `MatrixString`; `UringFileProofs` and `ReadvFileProofs` build on `IovecsProofs`, which also has the lemmas about sums |

### UringFile

`pc` is the main thread's place: `open` and `prepare` in `main`, `submit`,
`enter` and `wait` in `submitToSq` (before and inside `io_uring_enter`), `poll`,
`check`, `print` and `advance` in `readFromCq`, then the ways to end: `close`,
`handler`, and the exits.  `stuck` is a poll loop whose loads were hoisted out
of it, `undefined` the use of an `iovec_array` that was freed.

`sq` and `cq` are the rings, with counters that only grow and slots taken
modulo the size, as in the code.  `sq.sqes` holds the number of the read an SQE
is for; a CQE is that number (its `user_data`; 0 is the zeroed ring) and a
result.  `heap` holds the chunks each read allocated; `plan` what `submitToSq`
saw of the file and which `malloc`s returned NULL.  `landed` is how many bytes
the kernel wrote; `out` the blocks written to stdout, each with its length and
with how many of its bytes came from the file.

One action is one stretch of code between two points where the kernel may
interfere.  `SubmitToSq` is everything up to the write barrier: the stores
before `io_uring_enter` are not seen by the kernel, which looks at the SQ only
inside that call.  `PrintBlocks` is the whole print-and-free loop: the kernel has
finished with these buffers.  The unsynchronised loads of `readFromCq` are
separate steps.

External parts, modelled from how `files.c` uses them: `io_uring_enter` (takes
one entry, then waits for a completion; fails before it takes anything, or is
cut by a signal after), the posting of completions (to a backlog when the CQ is
full), `readv` (stops at a NULL buffer, may be short, may fail), `mmap`,
`malloc`, other processes that resize the file.

The loads race with the kernel, so their outcomes are a choice:
`"hoisted"` is a compiler that keeps head and tail in registers in the empty
loop (`read_barrier` is outside of it), `"stale"` a processor that loads an entry
before the tail that announces it (`read_barrier` holds back only the compiler).
An entry that was in the ring when `io_uring_enter` returned cannot be stale.

`main` queues one read: `Submits = 1`.  A larger value is a client of the same
functions that queues several before it drains the ring, which is what
`submitToSq`, its `read_barrier` and its use of `ring_mask` are written for; it
brings out what a single read cannot: the reuse of the one SQ entry after a
failed call, the reuse of CQ slots, and a full CQ.

### The sequential modules

`StrConcat` keeps the bytes the allocator gives a block, which may be more than
were asked for (`Usable`), and marks those nobody wrote as `Junk`: reading one
may give anything, so a string is read only up to bytes that were written.
`realloc` carries over the bytes within the old size, with `KeepsSlack` those
beyond it as well (glibc does, the C standard does not promise it).

`Matrix` takes the product `rows * cols` modulo `SizeMod` as the code computes
it before `calloc` looks at anything, and records in `outside` that an element
outside of the array was written.  Callers name positions within the matrix.

`Quicksort` keeps the calls that have not returned as a stack of ranges; a round
of the loop, two scans and an exchange or the split, is one step.  `swap` also
prints ten elements of the array, however many it has; that is left out.

`ReadvFile` takes 1024 (`IOV_MAX`) and the size of the stack as constants: more
vectors than the first fail, more than the second are a fault when the array on
the stack is first used.  A call may follow another: what the function leaves
behind is the descriptor it opened.

`MatrixString` extends `Matrix`: its `ProgramSpec` interleaves the operations of a
matrix with calls of `Matrix_toString`, one step per `strconcat`.  A matrix whose
size wrapped is not printed.  A number is its digits before the point; its text
may be longer than `buffer`, which ends the program as `smashed`.

`ArrayLoops`, `DealHand` and `ReadLines` have one step per round of a loop.  `int`
ends at `MaxInt`; a sum beyond it is undefined in C, and comes out as any `int`.
What `rand` returns, what `scanf` leaves alone and what a variable held before are
choices.

### FileSync

Each process makes one call.  The file is a sequence of pieces (a name or a
newline), marked with their writer and their place in its text.  A `writesync_hi`
keeps its pieces in `buffer`, the `FILE` of stdio, until `fclose`: its 130 bytes are
assumed to fit there, which is an assumption and not a result.  `Flush` is one
`write` of it, all or a part, `FlushFails` one that fails, after which stdio drops
the rest.  `writeasync_lo` passes `O_APPEND | O_NONBLOCK`, which is an open for
reading: its writes land nothing.  `Read` is one `read` into the buffer of a
reader.  `Kill` stops a process between any two steps, and its buffer is gone.
The variables `seen` and `broken` are history, for the properties only.

### TestRunner

`make test` runs a program only if the one before it exited with 0.  A program
logs the name of each test, runs its assertions, and exits with 0.  An assertion
that fails logs and raises `SIGABRT`; the message about two strings overflows its
array and may raise `SIGSEGV` instead; the code under test may fault with either.
The handler exits with 139, may fault itself (the same signal again kills the
process, the other enters its handler), or waits for ever for a lock that the
interrupted code holds.  The tests of `matrix_test`, the last program, make a
`Matrix` before their first assertion; if it is refused its memory, the program
exits with 113 at once (`CouldNotAllocate`).  `pending` are the lines in the buffer of stdout when it
is a pipe, which `exit` flushes and a kill does not.

## Runs

| run | instance | what it shows |
|---|---|---|
| `main_read` | one read, every failure, both races, files of up to 7 bytes in blocks of 3, one resize | the program as it is: `RaceNeedsACutWait` (the racy loads go wrong only if a signal cut the wait), `ZeroExitMeansFailedRead`, `OutputIsThePlan`, `StableFileIsPrintedWhole`; `MissingBufferIsNoticed`: nobody looks at what `malloc` returns, but a read without one of its buffers never passes for printed |
| `several_reads` | three reads, failed and cut calls, I/O errors, both races | no entry, completion or chunk is lost or used twice: `OnlyAcceptedReadsRun`, `EachReadIsInOnePlace`, `LentMemoryIsLive`, `OnlyTheTableLeaks`, `UnprintedCompletionStays` |
| `progress` | three reads, failed opens, maps, calls and reads, fairness | `ImplementsReadService`, `AcceptedReadIsPrinted`, `NeverEndsAfterSuccess` |
| `readv_file` | calls one after another, files of up to 10 bytes, two resizes, at most 2 vectors, 3 on the stack, 2 descriptors | `ReturnsHoldOnlyDescriptors`: every path out frees what it allocated and closes nothing, so that no more calls are served than there are descriptors; `OutputMatchesResult`: a call prints exactly when it returns 0, and then the size it saw, with as many bytes of the file as `readv` returned |
| `file_sync` | two `writesync_hi`, one `writeasync_lo`, a reader, texts of 2 pieces, a buffer of 3, every failure, kills, fairness | `TextsInOrder`, `ReturnedTextIsWhole`, `ReadersPrintThePrefix`, `NothingMissed`, `CallsEnd` |
| `matrix` | shapes up to 3 by 3, the values 0 and 100, a `size_t` of 0 .. 7, a buffer of 7 bytes, failing allocations | `ImplementsGrid` and `InsideUnlessWrapped`, with 3 by 3 the shape that wraps; `WholeUnlessFailed`: no character is lost unless a `realloc` failed, and then for good; `EndedByThePreviousCall`: why the result is a string nevertheless; `ShortNumbersFit` |
| `quicksort` | every array of five elements of 1 .. 5, fairness | `ScansStayInside`, `SettledPairsAreOrdered` (sorted, when no call is left), `KeepsTheElements`, `EndsOrSpins`: it ends, or spins in a loop, which takes three equal elements |
| `exercises` | arrays of up to 4 elements of -2 .. 2, an `int` of -6 .. 5, sides up to 4, a deck of 2 by 2 cards, inputs of up to 5 characters, fairness | `SumIsExact`, `TwoLargest`, `IdentityWhenWide`, `NoCardTwice`, `ReturnsBehindANewline`; `CallReturns`: every call ends, `readUntilNewline` at least if its input holds two newlines |
| `test_runner` | two programs of two tests of two assertions, fairness | `ExitCodeIsTrue`: 0 only if nothing but a NaN went wrong, a failure only if an assertion failed, something faulted or a `Matrix` was refused its memory; `FailedTestIsNamed`, `NothingRunsAfterAFailure`, `EndsOrHangs` |
| `concat_test`, `concat_doc` | texts of 5 and 6 bytes | violations: `ReadsBack`, with lengths as the tests and as the header have them |
| `failed_map` | one read, `mmap` may fail | a violation: `FailedMapStopsMain` |

Bounds.  `BlkSize = 3` is the smallest block for which the error codes -1 and -2
are no multiples of it, as they are none of 4096; sizes run from empty over less
than a block, a full block and a block and a remainder to two blocks and a
remainder.  `SizeMod = 16` stands for 2^64: large enough that only a negative size
wraps.  Three reads on a CQ of two slots fill it, overflow it and reuse a slot.
One resize is enough to put the size seen and the size read apart in both
directions.

`RaceOutcomes` is empty in `progress`: with `"stale"` and an I/O error a failed read may
be printed as if it had succeeded, which `ReadService` does not allow, and a
hoisted load ends all progress.  `several_reads` shows what survives even that.

Arrays of five elements over five values contain every pattern of order and
equality of five elements; the loop that never ends needs three.  A `Grain` of 4
makes blocks with and without a spare byte.  `MaxDigits` bounds the digits of an
element before its point, as the range of `double` does.  The text of 100 has 4 or 7 bytes
with its tab, so that one fits a buffer of 7 and one does not.  Sums of four
elements reach the ends of an `int` of -6 .. 5 and leave it; four sides include matrices with
`m + 2` rows, where `identity` is wrong.  A text of two pieces can be cut in the
middle, and two writers can fall between each other; a buffer of three pieces is
filled more than once by what two writers and the file before them leave.  Two
programs, tests and assertions have a first, a last and one behind a failure.

Fairness.  In `progress`: the main thread, which runs alone, is scheduled
(`WF(Main)`), and the kernel completes each read it accepted from a regular file
or block device.  Nothing is assumed of a terminal or a pipe, of a signal, or
of the spinning poll: `PollSpins` is not part of `Main`.  In `file_sync`: every process
is scheduled and its system calls return, but no failure and no kill is counted
on to end a call.  `quicksort`, `exercises` and `test_runner` are sequential programs
that take their next step; in `test_runner` which one is open, so that `EndsOrHangs`
holds however often the handler faults.

## Findings

`prepare_io_uring` compares the result of each `mmap` with NULL and has a message
and a return code for each, but `mmap` reports failure as `MAP_FAILED`.  A failed
map goes unnoticed and the program faults in `submitToSq` or `readFromCq` instead
of returning 5 (run `failed_map`).

`strconcat` writes the terminating zero one byte past its allocation and leaves the
byte behind the text as `realloc` gave it, so that the assertions of
`strings_test.c` hold only by luck (`concat_test`).  The test of `Matrix_toString`
is luckier: its last append is one character long, and the zero that the append
before it wrote too far is the byte that ends the string (`matrix`).

`strings.h` says that both lengths count the terminating zero; a caller that
follows it gets a string that ends where it ended before (`concat_doc`).

Not a disagreement with anything the code says, but visible in the properties:
`readFromCq` prints whole blocks after a short read, so bytes that `malloc` left in
the buffer reach stdout; it never frees the table of iovecs; and it has no way
out after success, so that `main` returns 0 only when a read failed.
`read_and_print_file_readv` never closes the file.  `writesync_hi` and
`writeasync_lo` return 0 whether or not anything was written, the latter never
having written anything.  `identity` is wrong from `m + 2` rows on, `readUntilNewline`
spins at the end of its input, and `assertEqualsDouble` lets NaN pass.

## Proofs

TLC checks the instances above; the following hold for every value of the
constants that the named assumptions allow: every number of reads, processes,
programs or cards, every length of an array, every block size above 2, every file
size below `SizeMod`, and every choice of failures and races.

* `IovecsProofs!BlocksPartitionTheFile`: every byte of a file is in exactly one
  block.  `CapacityIsTheSize`: the blocks hold exactly the file, or one block for
  an error code.  The argument goes through `BlockCountOfFile`: the count is the
  least number of blocks that hold the size.
* `IovecsProofs!LengthsAddUp`: the lengths of the blocks add up to the size.
  `LandedAddsUp`: what a read leaves in the blocks adds up to what it returned.
  The sums are folds of the community modules, which choose the order in which they
  add.  `FoldExists` and `FoldsAgree` show that there is one fold and that a part of it
  is a fold, `SumWithout` that the order does not matter, and `SumOfSteps` that the sum
  of the differences of a sequence of bounds is the last bound.
* `UringFileProofs!BlocksArePrintedOnce`, `StableFilesArePrintedWhole`, and
  `OnlyShortReadsFallShort`: what reaches stdout.  The inductive invariant `OutInv`,
  on top of `RInv` below, says that the lines of a read that was printed are its blocks
  in order, each with as much as landed in it (`Written`), that no more lands than
  the plan has room for (`LandsInPlan`), and that the plan is the file as long as
  nobody resizes it (`PlansAreTheFile`).  With the two sums above the lines
  of a read add up to the file.  The first two hold with every race and
  failure.  `OnlyShortReadsFallShort` assumes that no read is short; `FullInv` carries
  from the kernel to `readFromCq` that what landed is all there was to read, which a
  load that is stale can break: it needs no such load, or `Submits = 1` and a wait that
  was not cut.
* `UringFileProofs!TypeCorrect`, `AcceptedReadsRun`, `TableLeaks`, `LentMemoryStays`.
  They share one inductive invariant, `IInv`.  `OnlyAcceptedReadsRun` is not
  inductive: whether the entry the kernel takes is that of the call in progress
  depends on the ring.  `EntryIsOfThisCall` says so (the ring has one entry, so the
  newest overwrites what a failed call left), and the type of `kernel.taken`
  needs it too.  `OnlyTheTableLeaks` needs that only submitted reads are printed;
  that a read is not printed twice follows from its `iovec_array` being allocated.
* `UringFileProofs!NoReadIsPrintedInPart`: a read that was refused a buffer is not
  printed, and if it has lines they are all that the kernel read.  `CutShort`, on top
  of `OutInv`, says that no more of such a read lands than the blocks in front of
  the first missing one hold, and that its lines, if any, are those blocks; that the
  lines then add up to what landed is `IovecsProofs!LandedBeforeABlock`.
* `UringFileProofs!ReadsAreInOnePlace`, `CompletionsStay`, `RacesNeedACutWait`,
  `ZeroExitIsAFailedRead`, `NothingIsUsedAfterFree`, and `RingIsReadService`: a
  behaviour of the program and the kernel is one of `ReadService`.  The inductive
  invariant `RInv` adds to `IInv`: the CQ between head and tail holds entries of
  accepted reads, each in one slot, and none that the kernel or the backlog has
  (`RingInv`); where the main thread is in its calls, what it has submitted and
  which arrays it wrote (`CallInv`); what a slot holds that was not used yet
  (`ZeroedSlots`); and that the entry it has loaded is the one at the head unless a
  load was stale (`LoadInv`).  The first three theorems hold with every race.  The last
  three need that no load is stale, `ZeroExitIsAFailedRead` only with several reads:
  a stale load of a slot that was used before finds an older entry, whose read
  may have failed, or whose `iovec_array` is freed.
* `UringFileProofs!AnswersAreUnique`: seen as `ReadService` sees them, the completions
  in the ring are one each for the reads that were answered and not printed.  It
  follows from `RInv` with every race.
* `ReadvFileProofs!ReturnsKeepDescriptors` and `ResultTellsTheOutput`; the second needs,
  besides its invariant, that the lengths of the blocks and what landed in them add
  up, from `IovecsProofs`.
* `MatrixProofs!TypeCorrect`, `WritesStayInside`: no write leaves the array unless
  `rows * cols` wrapped, for every `size_t`.  `MatrixIsGrid`: a `Matrix` implements
  `Grid` as long as it did not wrap, `UnwrappedMatrixIsGrid`: without exception if
  no two dimensions do.  They rest on `RowMajorInside` and `RowMajorOneToOne`, which
  follow from the monotony of multiplication.  `PrintingKeepsMatrix` shows that the
  program of `MatrixString` implements `Matrix`, and `ProgramKeepsMatrix` carries
  the three properties over to it.  `TextIsWholeUnlessFailed`, `ResultIsEnded` and
  `ShortNumbersStayInside` are about the text.  Their invariant `SInv` says that the
  text is whole and within the size asked for, or that the first byte was lost and
  is never written again (`TextOK`), and where the zero of the last call is
  (`EndOK`); `ResultIsEnded` assumes `KeepsSlack`, without which the zero is not
  moved along.
* `QuicksortProofs!ScansAreInside`, `SettledPairsStayOrdered`, `NoElementIsLost`, and
  `ArrayIsSorted` as their point.  The inductive invariant `QInv` says that the
  ranges on the stack lie in the array one behind the other (`StackOK`), and that
  the rounds of a loop leave in front of i what is at most the pivot and behind j
  what is at least the pivot (`LoopOK`).  A swap inside the innermost range cannot
  disturb a pair with an element outside of it, since the ranges are apart; a
  partition orders the pairs it separates (`Partitioned`).  That the elements are
  kept is a bijection between the places of a value before and after a swap.
* `FileSyncProofs!TypeCorrect`, `PrefixIsPrinted`, `NothingIsMissed`.  `WInv` adds to the types how much of its text a writer has in
  its buffer at each place; that a printed prefix stays one needs only that the file
  grows at its end; `NothingMissed` needs that what a reader saw is still there
  (`Seeing`).
* `FileSyncProofs!TextsAreInOrder` and `ReturnedTextsAreWhole`, for any number of
  writers, however they interleave, fail and are killed.  Neither is inductive: they
  say nothing of what is still in a buffer.  `WriterOK` does: what a writer has in the
  file and what it has in its buffer are together the beginning of its text, and the
  whole text from `fclose` on unless a write failed; unless one was short, the text is
  still in the buffer or is in the file in one piece.  What the file holds of one
  writer is a selection; `KeptOfOwn` and `KeptOfOthers` say what it is of a longer file.
* `ExercisesProofs!ArraysAreTyped`, `TwoLargestAreFound`, `IdentityIsDiagonal`,
  `SumsAreExact`, `HandsAreOfDifferentCards`, `TwoLinesAreTaken`: invariants of the
  loops.  That of `identity` (`OnesSoFar`) is that the counter is the index modulo
  `m + 1`, from which the diagonal follows by nonlinear arithmetic in its lemmas.  That
  of the sums (`SumSoFar`) is that the variable holds the sum so far if the sums up
  to there fit an `int`.
* `TestRunnerProofs!TypeCorrect`, `ExitCodeTellsTheTruth`, `OutputNamesTheFailedTest`,
  `FailureEndsTheRun`.  `WrongOnlyNow`: while tests
  run nothing but a NaN has gone wrong, and afterwards only the test at hand has;
  `NamedInOrder`: the lines shown and pending, taken together, name the tests up to
  the one that runs, in order.

Induction.  The induction theorems of the library take an operator as a parameter,
which the provers cannot instantiate.  Where a proof needs induction, it is over the
set of the numbers, or of the subsets of a finite set, for which the claim holds
(`NatInductionOnSet`, `SubsetInduction`); both follow from the least element of a set
of numbers, which is `WFMin` of the library.  What a recursive definition computes is
proved in two steps: that a function with its equation exists (`FoldExists`,
`SumsExist`, `KeptExists`), and then what it is.  For this `Of` of `FileSync` is
written as a recursive function and not with `SelectSeq`, of which the provers know
nothing.

Left to TLC: liveness (`AcceptedReadIsPrinted`, `NeverEndsAfterSuccess`, `EndsOrSpins`,
`CallReturns`, `EndsOrHangs`, `CallsEnd`).  Every invariant of a passing run, and
its refinements, are stated by a theorem.  The type invariants of `Matrix`, `FileSync`,
`TestRunner` and `ArrayLoops` and that of `ReadService` are theorems and not in the
runs.

## Not modelled

`Vector`: `dot` and `norm2` sum floating-point products over one index and keep no
state; what could be wrong with them is rounding.  `Point`, the C++ hello program
and the allocator stub have no behaviour to state a property about; build and
container files are covered as far as `make test` goes (`TestRunner`).  Of the
exercises: `storeZeros` and `findMiddle` (one assignment, one element), `printBinary`,
`charNum` and the printing of types (formatting), `main` (prints).  `swap` prints ten
elements of the array it is given, however many it has; the printing, and with
it this hazard, is left out of `Quicksort`.

The headers under `src/headers` are copies of the interface of Linux and of
liburing, 5485 of the 6538 lines that count as implementation; most are not
included by anything, and what `files.c` uses of them is modelled as external.

Within `files.c`: text of messages, what the readers print between two buffers,
the values in SQE fields that no property tells apart, the memory left by a
program that has ended, and the 32-bit wrap of the ring counters.

## Plan

Done: all modules above with their runs, and the theorems above.  What remains is
within the modules: from the safety invariants of `Quicksort` and `FileSync`, the
measures that decrease at each step, as action properties, so that of their liveness
only the fairness is left to TLC.
