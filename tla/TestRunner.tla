----------------------------- MODULE TestRunner -----------------------------
(***************************************************************************)
(* "make test": the test programs one after another, their tests with the  *)
(* assertions of util/asserts.c, RUN_TEST, the log, and what the handler   *)
(* of util/signals.c makes of a failed assertion or of a fault.            *)
(***************************************************************************)
EXTENDS Integers, Sequences

CONSTANTS
  NumPrograms,  \* strings_test, vector_test, matrix_test
  NumTests,     \* RUN_TESTs in the main of each
  NumChecks     \* assertions in each test

ASSUME RunnerAssumption ==
  NumPrograms \in Nat \ {0} /\ NumTests \in Nat \ {0} /\ NumChecks \in Nat \ {0}

VARIABLES
  program, test, check,  \* what runs
  pc,        \* "main", "test", "handler", "hung", "exited", "ended"
  blocked,   \* the signals whose handler runs: another one of them kills
  locked,    \* one of them came inside malloc or stdio
  buffered,  \* stdout is a pipe or a file: lines wait for exit
  pending, shown,  \* lines in the buffer, and those that left the process
  status,    \* how the last program ended; 0, 113, 139 or Killed
  wrong      \* history: the tests that went wrong, and how

vars == <<program, test, check, pc, blocked, locked, buffered, pending, shown, status, wrong>>

position == <<program, test, check>>
output == <<pending, shown>>
handling == <<blocked, locked>>

Killed == -1

Info(t)  == [level |-> "INFO", test |-> t]
Error(t) == [level |-> "ERROR", test |-> t]
Here == <<program, test>>

Init ==
  /\ program = 1 /\ test = 1 /\ check = 1 /\ pc = "main"
  /\ blocked = {} /\ locked = FALSE
  /\ buffered \in BOOLEAN /\ pending = <<>> /\ shown = <<>>
  /\ status = 0 /\ wrong = {}

Log(lines) ==
  IF buffered THEN pending' = pending \o lines /\ UNCHANGED shown
              ELSE shown' = shown \o lines /\ UNCHANGED pending

Raise(sig) == sig \notin blocked /\ pc' = "handler" /\ blocked' = blocked \union {sig}

-----------------------------------------------------------------------------
(* The main of a test program. *)

Exit(value) ==
  /\ pc' = "exited" /\ status' = value
  /\ shown' = shown \o pending /\ pending' = <<>>

NameAfterwards(t) ==  \* mutant
  IF t[2] = 1 THEN <<>> ELSE <<Info(<<t[1], t[2] - 1>>)>>
NameOf(t) == <<Info(t)>>

MoreTests == test <= NumTests
MainResult == 0

RunTest ==
  /\ pc = "main" /\ MoreTests
  /\ Log(NameOf(Here)) /\ pc' = "test"
  /\ UNCHANGED <<position, handling, buffered, status, wrong>>

MainReturns ==
  /\ pc = "main" /\ ~MoreTests
  /\ Exit(MainResult)
  /\ UNCHANGED <<position, handling, buffered, wrong>>

-----------------------------------------------------------------------------
(* A test. *)

Passes ==
  /\ IF check < NumChecks THEN check' = check + 1 /\ UNCHANGED <<test, pc>>
                          ELSE check' = 1 /\ test' = test + 1 /\ pc' = "main"
  /\ UNCHANGED <<program, handling, buffered, output, status>>

Holds == pc = "test" /\ Passes /\ UNCHANGED wrong

(* fabs(expected - actual) > absError is false when a number is NaN. *)
NotANumber == pc = "test" /\ Passes /\ wrong' = wrong \union {<<Here, "NaN">>}

Wrong(how) == wrong' = wrong \union {<<Here, how>>}

(* assert(false) after two lines that say so.  The message about strings   *)
(* is longer than the array it is printed into: what that overwrites is    *)
(* anything, a fault at worst.                                             *)
Lines(overflow) == IF overflow THEN <<Error(Here)>> ELSE <<Error(Here), Error(Here)>>

AssertEquals(overflow) ==
  /\ pc = "test" /\ Log(Lines(overflow)) /\ Wrong("differs")
  /\ IF overflow THEN Raise("SIGSEGV") ELSE Raise("SIGABRT")
  /\ UNCHANGED <<position, locked, buffered, status>>

AssertEqualsDouble == AssertEquals(FALSE)
AssertEqualsString == \E overflow \in BOOLEAN : AssertEquals(overflow)

(* The code under test faults, in malloc or stdio perhaps, which found the *)
(* heap damaged and hold a lock.                                           *)
Faults(sig) ==
  /\ pc = "test" /\ Wrong("fault") /\ Raise(sig)
  /\ locked' \in BOOLEAN
  /\ UNCHANGED <<position, buffered, output, status>>

(* The tests of matrix_test, the last program, make a Matrix before their  *)
(* first assertion: without memory for it, the program ends at once.       *)
CouldNotAllocateError == 113

CouldNotAllocate ==
  /\ pc = "test" /\ program = NumPrograms /\ check = 1
  /\ Exit(CouldNotAllocateError) /\ Wrong("no memory")
  /\ UNCHANGED <<position, handling, buffered>>

-----------------------------------------------------------------------------
(* signal_handler_log_stacktrace: fprintf and backtrace may themselves     *)
(* fault on what is damaged, or wait for the lock the process holds.       *)

ExitSuccess == 0  \* mutant
ExitCode == 139

HandlerReturns ==  \* mutant
  /\ pc = "handler" /\ pc' = "test" /\ blocked' = {}
  /\ UNCHANGED <<position, locked, buffered, output, status, wrong>>

HandlerExits ==
  /\ pc = "handler" /\ Exit(ExitCode)
  /\ UNCHANGED <<position, handling, buffered, wrong>>

HandlerFaults(sig) ==
  /\ pc = "handler" /\ Raise(sig) /\ locked' \in {locked, TRUE}
  /\ UNCHANGED <<position, buffered, output, status, wrong>>

(* A signal that is blocked while its handler runs kills the process. *)
HandlerKilled ==
  /\ pc = "handler" /\ pc' = "exited" /\ status' = Killed /\ pending' = <<>>
  /\ UNCHANGED <<position, handling, buffered, shown, wrong>>

HandlerHangs ==
  /\ pc = "handler" /\ locked /\ pc' = "hung"
  /\ UNCHANGED <<position, handling, buffered, output, status, wrong>>

-----------------------------------------------------------------------------
(* make runs the next program unless one failed. *)

NextProgram ==
  /\ pc = "exited" /\ status = 0 /\ program < NumPrograms
  /\ program' = program + 1 /\ test' = 1 /\ check' = 1 /\ pc' = "main"
  /\ UNCHANGED <<handling, buffered, output, status, wrong>>

MakeEnds ==
  /\ pc = "exited" /\ (status # 0 \/ program = NumPrograms)
  /\ pc' = "ended"
  /\ UNCHANGED <<position, handling, buffered, output, status, wrong>>

Stopped == pc \in {"ended", "hung"} /\ UNCHANGED vars

Signals == {"SIGSEGV", "SIGABRT"}

Main == RunTest \/ MainReturns
Test ==
  \/ Holds \/ NotANumber \/ AssertEqualsDouble \/ AssertEqualsString
  \/ CouldNotAllocate \/ \E sig \in Signals : Faults(sig)
Handler ==
  \/ HandlerExits \/ HandlerKilled \/ HandlerHangs
  \/ \E sig \in Signals : HandlerFaults(sig)
Make == NextProgram \/ MakeEnds

Next == Main \/ Test \/ Handler \/ Make \/ Stopped

Spec == Init /\ [][Next]_vars

(* The programs run, and make waits for them. *)
FairSpec == Spec /\ WF_vars(Main \/ Test \/ Handler \/ Make)
-----------------------------------------------------------------------------
(* Properties. *)

AllLines == {Info(<<p, t>>) : p \in 1 .. NumPrograms, t \in 1 .. NumTests}
              \union {Error(<<p, t>>) : p \in 1 .. NumPrograms, t \in 1 .. NumTests}

TypeOK ==
  /\ program \in 1 .. NumPrograms /\ test \in 1 .. NumTests + 1 /\ check \in 1 .. NumChecks
  /\ pc \in {"main", "test", "handler", "hung", "exited", "ended"}
  /\ blocked \subseteq Signals
  /\ locked \in BOOLEAN /\ buffered \in BOOLEAN
  /\ pending \in Seq(AllLines) /\ shown \in Seq(AllLines)
  /\ buffered \/ pending = <<>>
  /\ status \in {0, 113, 139, Killed}

(* make test succeeds exactly if no assertion failed, nothing faulted and  *)
(* no Matrix was refused its memory, whatever happened to the handler or   *)
(* to the message on the way; only a comparison with NaN goes by unnoticed.*)
Finished == pc = "ended"
ExitCodeIsTrue == Finished => (status = 0 <=> \A w \in wrong : w[2] = "NaN")

(* The last line that names a test names the one that went wrong, behind a *)
(* pipe as well, because the handler exits and exit flushes.  Only a       *)
(* process that a second signal killed in its handler loses its lines.     *)
Named == {k \in DOMAIN shown : shown[k].level = "INFO"}
FailedTestIsNamed ==
  Finished /\ status # 0 /\ (status = Killed => ~buffered) =>
    \E k \in Named :
      /\ \A j \in Named : j <= k
      /\ \E w \in wrong : w[1] = shown[k].test /\ w[2] # "NaN"

(* The tests make has printed are those before the failure, in order, none *)
(* twice; a failure stops the tests and programs behind it.                *)
Before(t, u) == t[1] < u[1] \/ (t[1] = u[1] /\ t[2] < u[2])
NothingRunsAfterAFailure ==
  /\ \A j, k \in Named : j < k => Before(shown[j].test, shown[k].test)
  /\ \A w \in wrong, k \in Named : w[2] # "NaN" => ~Before(w[1], shown[k].test)

(* make test ends or hangs in a handler, and hangs only when a signal came *)
(* inside malloc or stdio: no fault repeats itself for ever.               *)
EndsOrHangs == <>(Finished \/ (pc = "hung" /\ locked))
=============================================================================
