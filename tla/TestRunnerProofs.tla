-------------------------- MODULE TestRunnerProofs --------------------------
(***************************************************************************)
(* What the result and the output of make test are worth, for any number   *)
(* of programs, tests and assertions.                                      *)
(***************************************************************************)
EXTENDS TestRunner, SequenceTheorems, TLAPS

LEMMA Bounds ==
  NumPrograms \in Nat \ {0} /\ NumTests \in Nat \ {0} /\ NumChecks \in Nat \ {0}
BY RunnerAssumption

Tests == (1 .. NumPrograms) \X (1 .. NumTests)

LEMMA LinesOfTests ==
  /\ \A t \in Tests : Info(t) \in AllLines /\ Error(t) \in AllLines
  /\ \A l \in AllLines : /\ l.test \in Tests /\ l.level \in {"INFO", "ERROR"}
                         /\ l = Info(l.test) \/ l = Error(l.test)
BY DEF AllLines, Tests, Info, Error

-----------------------------------------------------------------------------
(* Lines of output. *)

InfoAt(q) == {k \in DOMAIN q : q[k].level = "INFO"}
Ordered(q) == \A j, k \in InfoAt(q) : j < k => Before(q[j].test, q[k].test)
Below(q, t) == \A k \in InfoAt(q) : Before(q[k].test, t)
UpTo(q, t) == \A k \in InfoAt(q) : q[k].test = t \/ Before(q[k].test, t)
LastIs(q, t) == \E k \in InfoAt(q) : q[k].test = t /\ \A j \in InfoAt(q) : j <= k

LEMMA Positions ==
  ASSUME NEW q \in Seq(AllLines), NEW e \in Seq(AllLines)
  PROVE  /\ q \o e \in Seq(AllLines)
         /\ InfoAt(q) \subseteq InfoAt(q \o e)
         /\ \A k \in InfoAt(q) : (q \o e)[k] = q[k] /\ k \in 1 .. Len(q)
         /\ \A k \in InfoAt(q \o e) : k \in InfoAt(q) \/ k - Len(q) \in InfoAt(e)
         /\ \A k \in InfoAt(e) : k \in 1 .. Len(e) /\ k + Len(q) \in InfoAt(q \o e)
                                 /\ (q \o e)[k + Len(q)] = e[k]
<1> DEFINE u == q \o e
<1>1. /\ u \in Seq(AllLines) /\ Len(u) = Len(q) + Len(e)
      /\ \A k \in 1 .. Len(q) + Len(e) : u[k] = IF k <= Len(q) THEN q[k] ELSE e[k - Len(q)]
  BY ConcatProperties
<1> HIDE DEF u
<1>2. /\ Len(q) \in Nat /\ DOMAIN q = 1 .. Len(q)
      /\ Len(e) \in Nat /\ DOMAIN e = 1 .. Len(e)
      /\ DOMAIN u = 1 .. Len(q) + Len(e)
  BY <1>1, LenProperties
<1>3. \A k \in 1 .. Len(q) : k \in 1 .. Len(q) + Len(e) /\ u[k] = q[k]
  BY <1>1, <1>2
<1>4. \A k \in 1 .. Len(e) : k + Len(q) \in 1 .. Len(q) + Len(e) /\ u[k + Len(q)] = e[k]
  <2> TAKE k \in 1 .. Len(e)
  <2>1. /\ k + Len(q) \in 1 .. Len(q) + Len(e)
        /\ ~(k + Len(q) <= Len(q)) /\ k + Len(q) - Len(q) = k
    BY <1>2
  <2> QED
    BY <2>1, <1>1
<1>5. \A k \in 1 .. Len(q) + Len(e) :
        k \in 1 .. Len(q) \/ (k - Len(q) \in 1 .. Len(e) /\ u[k] = e[k - Len(q)])
  BY <1>1, <1>2
<1>6. /\ InfoAt(q) \subseteq InfoAt(u)
      /\ \A k \in InfoAt(q) : u[k] = q[k] /\ k \in 1 .. Len(q)
  BY <1>2, <1>3 DEF InfoAt
<1>7. \A k \in InfoAt(u) : k \in InfoAt(q) \/ k - Len(q) \in InfoAt(e)
  BY <1>2, <1>3, <1>5 DEF InfoAt
<1>8. \A k \in InfoAt(e) : /\ k \in 1 .. Len(e) /\ k + Len(q) \in InfoAt(u)
                           /\ u[k + Len(q)] = e[k]
  BY <1>2, <1>4 DEF InfoAt
<1> QED
  BY <1>1, <1>6, <1>7, <1>8 DEF u

(* A line that names the next test. *)
LEMMA NameAppended ==
  ASSUME NEW q \in Seq(AllLines), NEW t \in Tests, Ordered(q), Below(q, t)
  PROVE  LET u == q \o <<Info(t)>> IN Ordered(u) /\ UpTo(u, t) /\ LastIs(u, t)
<1> DEFINE e == <<Info(t)>>
           u == q \o e
<1>1. /\ e \in Seq(AllLines) /\ Len(e) = 1 /\ e[1] = Info(t) /\ DOMAIN e = {1}
  BY LinesOfTests
<1>2. InfoAt(e) = {1}
  BY <1>1 DEF InfoAt, Info
<1> HIDE DEF e
<1>3. Len(q) \in Nat
  BY LenProperties
<1>4. /\ InfoAt(q) \subseteq InfoAt(u)
      /\ \A k \in InfoAt(q) : u[k] = q[k] /\ k \in 1 .. Len(q)
      /\ \A k \in InfoAt(u) : k \in InfoAt(q) \/ k - Len(q) \in InfoAt(e)
      /\ \A k \in InfoAt(e) : k + Len(q) \in InfoAt(u) /\ u[k + Len(q)] = e[k]
      /\ DOMAIN u \subseteq Nat
  <2>1. u \in Seq(AllLines)
    BY <1>1, ConcatProperties
  <2>2. DOMAIN u \subseteq Nat
    <3> HIDE DEF u
    <3> QED
      BY <2>1, LenProperties
  <2> QED
    BY <1>1, <2>2, Positions
<1> HIDE DEF u
<1>5. /\ 1 + Len(q) \in InfoAt(u) /\ u[1 + Len(q)].test = t
      /\ \A k \in InfoAt(u) : k \in InfoAt(q) \/ k = 1 + Len(q)
  <2>1. 1 + Len(q) \in InfoAt(u) /\ u[1 + Len(q)] = Info(t)
    BY <1>1, <1>2, <1>4
  <2>2. \A k \in InfoAt(u) : k \in InfoAt(q) \/ k - Len(q) = 1
    BY <1>2, <1>4
  <2>3. \A k \in InfoAt(u) : k \in Nat
    BY <1>4 DEF InfoAt
  <2>4. u[1 + Len(q)].test = t
    BY <2>1 DEF Info
  <2>5. \A k \in InfoAt(u) : k \in InfoAt(q) \/ k = 1 + Len(q)
    BY <2>2, <2>3, <1>3
  <2> QED
    BY <2>1, <2>4, <2>5
<1>6. \A k \in InfoAt(q) : k < 1 + Len(q) /\ k \in Nat
  BY <1>3, <1>4
<1>7. UpTo(u, t)
  BY <1>4, <1>5 DEF UpTo, Below
<1>8. LastIs(u, t)
  BY <1>3, <1>5, <1>6 DEF LastIs
<1>9. Ordered(u)
  <2> SUFFICES ASSUME NEW j \in InfoAt(u), NEW k \in InfoAt(u), j < k
               PROVE  Before(u[j].test, u[k].test)
    BY DEF Ordered
  <2>1. j \in InfoAt(q)
    BY <1>3, <1>5, <1>6
  <2> QED
    BY <2>1, <1>4, <1>5 DEF Ordered, Below
<1> QED
  BY <1>7, <1>8, <1>9 DEF u, e

(* Lines that name no test. *)
LEMMA ErrorsAppended ==
  ASSUME NEW q \in Seq(AllLines), NEW e \in Seq(AllLines), InfoAt(e) = {}, NEW t
  PROVE  /\ Ordered(q) => Ordered(q \o e)
         /\ UpTo(q, t) => UpTo(q \o e, t)
         /\ LastIs(q, t) => LastIs(q \o e, t)
<1> DEFINE u == q \o e
<1>1. InfoAt(u) = InfoAt(q) /\ \A k \in InfoAt(q) : u[k] = q[k]
  <2>1. /\ InfoAt(q) \subseteq InfoAt(u) /\ \A k \in InfoAt(q) : u[k] = q[k]
        /\ \A k \in InfoAt(u) : k \in InfoAt(q) \/ k - Len(q) \in InfoAt(e)
    BY Positions
  <2> HIDE DEF u
  <2> QED
    BY <2>1
<1> HIDE DEF u
<1>2. /\ Ordered(q) => Ordered(u)
      /\ UpTo(q, t) => UpTo(u, t)
      /\ LastIs(q, t) => LastIs(u, t)
  BY <1>1 DEF Ordered, UpTo, LastIs
<1> QED
  BY <1>2 DEF u

(* Lines that are lost. *)
LEMMA EndLost ==
  ASSUME NEW q \in Seq(AllLines), NEW e \in Seq(AllLines), NEW t
  PROVE  /\ Ordered(q \o e) => Ordered(q)
         /\ UpTo(q \o e, t) => UpTo(q, t)
<1> DEFINE u == q \o e
<1>1. InfoAt(q) \subseteq InfoAt(u) /\ \A k \in InfoAt(q) : u[k] = q[k]
  BY Positions
<1> HIDE DEF u
<1>2. (Ordered(u) => Ordered(q)) /\ (UpTo(u, t) => UpTo(q, t))
  BY <1>1 DEF Ordered, UpTo
<1> QED
  BY <1>2 DEF u

-----------------------------------------------------------------------------
(* Type correctness. *)

Running == pc \in {"main", "test"}
Dying == pc \in {"handler", "hung"}
Gone == pc \in {"exited", "ended"}

(* TypeOK and what the program counter means. *)
TInv ==
  /\ TypeOK
  /\ pc = "test" => test <= NumTests
  /\ Running \/ (Gone /\ status = 0) => blocked = {}
  /\ Running \/ Dying => status = 0
  /\ Dying => test <= NumTests
  /\ Gone => pending = <<>>
  /\ Gone /\ status # 0 => test <= NumTests

LEMMA HereIsATest == ASSUME TInv, test <= NumTests PROVE Here \in Tests
BY Bounds DEF TInv, TypeOK, Here, Tests

LEMMA LogIsTyped ==
  ASSUME TInv, NEW lines \in Seq(AllLines), Log(lines), UNCHANGED buffered
  PROVE  /\ pending' \in Seq(AllLines) /\ shown' \in Seq(AllLines)
         /\ buffered \/ pending' = <<>>
         /\ shown' \o pending' = (shown \o pending) \o lines
<1>1. /\ pending \in Seq(AllLines) /\ shown \in Seq(AllLines)
      /\ buffered \/ pending = <<>>
  BY DEF TInv, TypeOK
<1>2. CASE buffered
  <2>1. pending' = pending \o lines /\ shown' = shown
    BY <1>2 DEF Log
  <2> QED
    BY <2>1, <1>1, <1>2, ConcatProperties, ConcatAssociative
<1>3. CASE ~buffered
  <2>1. shown' = shown \o lines /\ pending' = <<>> /\ pending = <<>>
    BY <1>1, <1>3 DEF Log
  <2>2. shown \o <<>> = shown /\ shown \o lines \in Seq(AllLines) /\ (shown \o lines) \o <<>> = shown \o lines
    BY <1>1, ConcatProperties, ConcatEmptySeq
  <2> QED
    BY <2>1, <2>2, <1>1
<1> QED
  BY <1>2, <1>3

LEMMA ExitIsTyped ==
  ASSUME TInv, NEW value, Exit(value)
  PROVE  /\ pending' = <<>> /\ pending' \in Seq(AllLines) /\ shown' \in Seq(AllLines)
         /\ shown' \o pending' = shown \o pending
<1>1. /\ pending \in Seq(AllLines) /\ shown \in Seq(AllLines)
  BY DEF TInv, TypeOK
<1>2. shown' = shown \o pending /\ pending' = <<>>
  BY DEF Exit
<1>3. /\ shown \o pending \in Seq(AllLines) /\ <<>> \in Seq(AllLines)
  BY <1>1, ConcatProperties, EmptySeq
<1> QED
  BY <1>2, <1>3, ConcatEmptySeq

LEMMA RunTestTyped == TInv /\ RunTest => TInv'
<1> SUFFICES ASSUME TInv, RunTest PROVE TInv'
  OBVIOUS
<1>1. pc = "main" /\ test <= NumTests
  BY DEF RunTest, MoreTests
<1>2. NameOf(Here) \in Seq(AllLines)
  BY <1>1, HereIsATest, LinesOfTests DEF NameOf
<1>3. /\ pending' \in Seq(AllLines) /\ shown' \in Seq(AllLines)
      /\ buffered \/ pending' = <<>>
  BY <1>2, LogIsTyped DEF RunTest
<1> QED
  BY <1>1, <1>3 DEF RunTest, TInv, TypeOK, Running, Dying, Gone, position, handling

LEMMA MainReturnsTyped == TInv /\ MainReturns => TInv'
<1> SUFFICES ASSUME TInv, MainReturns PROVE TInv'
  OBVIOUS
<1>1. pending' = <<>> /\ pending' \in Seq(AllLines) /\ shown' \in Seq(AllLines)
  BY ExitIsTyped DEF MainReturns
<1> QED
  BY <1>1
  DEF MainReturns, Exit, MainResult, TInv, TypeOK, Running, Dying, Gone, position, handling

LEMMA PassesTyped == TInv /\ pc = "test" /\ Passes => TInv'
<1> SUFFICES ASSUME TInv, pc = "test", Passes PROVE TInv'
  OBVIOUS
<1>1. check' \in 1 .. NumChecks /\ test' \in 1 .. NumTests + 1
  BY Bounds DEF Passes, TInv, TypeOK
<1>2. pc' = "main" \/ (pc' = "test" /\ test' = test)
  BY DEF Passes
<1> QED
  BY <1>1, <1>2 DEF Passes, TInv, TypeOK, Running, Dying, Gone, handling, output

(* The signals: the process was in a test, or in a handler already. *)
LEMMA RaiseTyped ==
  ASSUME TInv, pc \in {"test", "handler"}, NEW sig \in Signals, Raise(sig),
         UNCHANGED <<position, buffered, status>>, locked' \in BOOLEAN,
         pending' \in Seq(AllLines), shown' \in Seq(AllLines), buffered \/ pending' = <<>>
  PROVE  TInv'
<1>1. test <= NumTests /\ status = 0
  BY DEF TInv, Running, Dying
<1> QED
  BY <1>1 DEF Raise, TInv, TypeOK, Running, Dying, Gone, position

LEMMA ErrorLines ==
  ASSUME TInv, pc = "test", NEW overflow \in BOOLEAN
  PROVE  Lines(overflow) \in Seq(AllLines) /\ InfoAt(Lines(overflow)) = {}
<1>1. Here \in Tests
  BY HereIsATest DEF TInv
<1> DEFINE l == Error(Here)
<1>2. l \in AllLines /\ l.level # "INFO"
  BY <1>1, LinesOfTests DEF Error
<1> HIDE DEF l
<1>3. <<l>> \in Seq(AllLines) /\ <<l, l>> \in Seq(AllLines)
  BY <1>2
<1>4. InfoAt(<<l>>) = {} /\ InfoAt(<<l, l>>) = {}
  BY <1>2 DEF InfoAt
<1> QED
  BY <1>3, <1>4 DEF Lines, l

LEMMA TestTyped == TInv /\ Test => TInv'
<1> SUFFICES ASSUME TInv, Test PROVE TInv'
  OBVIOUS
<1>1. CASE Holds \/ NotANumber
  BY <1>1, PassesTyped DEF Holds, NotANumber
<1>2. ASSUME NEW overflow \in BOOLEAN, AssertEquals(overflow) PROVE TInv'
  <2>1. pc = "test"
    BY <1>2 DEF AssertEquals
  <2>2. /\ pending' \in Seq(AllLines) /\ shown' \in Seq(AllLines)
        /\ buffered \/ pending' = <<>>
    BY <1>2, <2>1, ErrorLines, LogIsTyped DEF AssertEquals
  <2>3. \E sig \in Signals : Raise(sig)
    BY <1>2 DEF AssertEquals, Signals
  <2>4. locked' \in BOOLEAN
    BY <1>2 DEF AssertEquals, TInv, TypeOK
  <2> QED
    BY <1>2, <2>1, <2>2, <2>3, <2>4, RaiseTyped DEF AssertEquals
<1>3. ASSUME NEW sig \in Signals, Faults(sig) PROVE TInv'
  <2>1. /\ pending' \in Seq(AllLines) /\ shown' \in Seq(AllLines)
        /\ buffered \/ pending' = <<>>
    BY <1>3 DEF Faults, output, TInv, TypeOK
  <2> QED
    BY <1>3, <2>1, RaiseTyped DEF Faults
<1>4. CASE CouldNotAllocate
  <2>1. pending' = <<>> /\ pending' \in Seq(AllLines) /\ shown' \in Seq(AllLines)
    BY <1>4, ExitIsTyped DEF CouldNotAllocate
  <2> QED
    BY <1>4, <2>1
    DEF CouldNotAllocate, Exit, CouldNotAllocateError, TInv, TypeOK, Running, Dying, Gone,
        position, handling
<1> QED
  BY <1>1, <1>2, <1>3, <1>4 DEF Test, AssertEqualsDouble, AssertEqualsString

LEMMA HandlerTyped == TInv /\ Handler => TInv'
<1> SUFFICES ASSUME TInv, Handler PROVE TInv'
  OBVIOUS
<1>1. CASE HandlerExits
  <2>1. pending' = <<>> /\ pending' \in Seq(AllLines) /\ shown' \in Seq(AllLines)
    BY <1>1, ExitIsTyped DEF HandlerExits
  <2> QED
    BY <1>1, <2>1
    DEF HandlerExits, Exit, ExitCode, TInv, TypeOK, Running, Dying, Gone, position, handling
<1>2. CASE HandlerKilled
  <2>1. <<>> \in Seq(AllLines)
    BY EmptySeq
  <2> QED
    BY <1>2, <2>1
    DEF HandlerKilled, TInv, TypeOK, Running, Dying, Gone, position, handling, Killed
<1>3. CASE HandlerHangs
  BY <1>3 DEF HandlerHangs, TInv, TypeOK, Running, Dying, Gone, position, handling, output
<1>4. ASSUME NEW sig \in Signals, HandlerFaults(sig) PROVE TInv'
  <2>1. /\ pending' \in Seq(AllLines) /\ shown' \in Seq(AllLines)
        /\ buffered \/ pending' = <<>>
    BY <1>4 DEF HandlerFaults, output, TInv, TypeOK
  <2>2. locked' \in BOOLEAN
    BY <1>4 DEF HandlerFaults, TInv, TypeOK
  <2> QED
    BY <1>4, <2>1, <2>2, RaiseTyped DEF HandlerFaults
<1> QED
  BY <1>1, <1>2, <1>3, <1>4 DEF Handler

LEMMA MakeTyped == TInv /\ (Make \/ UNCHANGED vars) => TInv'
<1> SUFFICES ASSUME TInv, Make \/ UNCHANGED vars PROVE TInv'
  OBVIOUS
<1>1. CASE UNCHANGED vars
  BY <1>1 DEF vars, TInv, TypeOK, Running, Dying, Gone, AllLines
<1>2. CASE MakeEnds
  BY <1>2 DEF MakeEnds, TInv, TypeOK, Running, Dying, Gone, position, handling, output, AllLines
<1>3. CASE NextProgram
  <2>1. program' \in 1 .. NumPrograms /\ 1 \in 1 .. NumTests + 1 /\ 1 \in 1 .. NumChecks
    BY <1>3, Bounds DEF NextProgram, TInv, TypeOK
  <2> QED
    BY <1>3, <2>1
    DEF NextProgram, TInv, TypeOK, Running, Dying, Gone, handling, output, AllLines
<1> QED
  BY <1>1, <1>2, <1>3 DEF Make

LEMMA StepKeepsTInv == TInv /\ [Next]_vars => TInv'
BY RunTestTyped, MainReturnsTyped, TestTyped, HandlerTyped, MakeTyped
DEF Next, Main, Stopped

LEMMA InitTInv == Init => TInv
<1> SUFFICES ASSUME Init PROVE TInv
  OBVIOUS
<1>1. <<>> \in Seq(AllLines)
  BY EmptySeq
<1>2. 1 \in 1 .. NumPrograms /\ 1 \in 1 .. NumTests + 1 /\ 1 \in 1 .. NumChecks
  BY Bounds
<1>3. /\ program = 1 /\ test = 1 /\ check = 1 /\ pc = "main" /\ blocked = {}
      /\ locked = FALSE /\ buffered \in BOOLEAN /\ pending = <<>> /\ shown = <<>> /\ status = 0
  BY DEF Init
<1>4. TypeOK
  BY <1>1, <1>2, <1>3 DEF TypeOK
<1> QED
  BY <1>3, <1>4 DEF TInv, Running, Dying, Gone

(* TypeOK of TestRunner, for any number of programs, tests and assertions. *)
THEOREM TypeCorrect == Spec => []TypeOK
<1>1. TInv => TypeOK
  BY DEF TInv
<1> QED
  BY InitTInv, StepKeepsTInv, <1>1, PTL DEF Spec

-----------------------------------------------------------------------------
(* The result of make test. *)

(* What has gone wrong while the process is alive, and when it is not. *)
WrongOnlyNow ==
  /\ Running \/ (Gone /\ status = 0) => \A w \in wrong : w[2] = "NaN"
  /\ Dying \/ (Gone /\ status # 0) =>
       /\ \E w \in wrong : w[2] # "NaN"
       /\ \A w \in wrong : w[2] # "NaN" => w[1] = Here

LEMMA StepKeepsWrong == TInv /\ WrongOnlyNow /\ [Next]_vars => WrongOnlyNow'
<1> SUFFICES ASSUME TInv, WrongOnlyNow, [Next]_vars PROVE WrongOnlyNow'
  OBVIOUS
<1>1. CASE Main \/ Holds \/ NotANumber
  <2>1. Running /\ (Running' \/ (Gone' /\ status' = 0))
    BY <1>1
    DEF Main, RunTest, MainReturns, Exit, MainResult, Holds, NotANumber, Passes, Running, Gone
  <2>2. ~Dying' /\ ~(Gone' /\ status' # 0)
    BY <1>1, <2>1 DEF TInv, Running, Gone, Dying, Main, RunTest, MainReturns, Exit, MainResult
  <2>3. wrong' = wrong \/ wrong' = wrong \union {<<Here, "NaN">>}
    BY <1>1 DEF Main, RunTest, MainReturns, Holds, NotANumber
  <2>4. \A w \in wrong' : w[2] = "NaN"
    BY <2>1, <2>3 DEF WrongOnlyNow
  <2> QED
    BY <2>2, <2>4 DEF WrongOnlyNow
<1>2. ASSUME NEW how \in {"differs", "fault", "no memory"}, Running,
             wrong' = wrong \union {<<Here, how>>},
             pc' = "handler" \/ (pc' = "exited" /\ status' # 0), UNCHANGED <<program, test>>
      PROVE  WrongOnlyNow'
  <2>1. \A w \in wrong : w[2] = "NaN"
    BY <1>2 DEF WrongOnlyNow
  <2>2. Here' = Here /\ <<Here, how>>[1] = Here /\ <<Here, how>>[2] # "NaN"
    BY <1>2 DEF Here
  <2>3. ~Running' /\ ~(Gone' /\ status' = 0)
    BY <1>2 DEF Running, Gone
  <2> QED
    BY <1>2, <2>1, <2>2, <2>3 DEF WrongOnlyNow
<1>3. CASE Handler
  <2>1. /\ Dying /\ wrong' = wrong /\ UNCHANGED <<program, test>>
        /\ Dying' \/ (Gone' /\ status' # 0)
    <3>1. CASE HandlerExits
      BY <3>1 DEF HandlerExits, Exit, ExitCode, Dying, Gone, position
    <3>2. CASE HandlerKilled
      BY <3>2 DEF HandlerKilled, Killed, Dying, Gone, position
    <3>3. CASE HandlerHangs
      BY <3>3 DEF HandlerHangs, Dying, position
    <3>4. CASE \E sig \in Signals : HandlerFaults(sig)
      BY <3>4 DEF HandlerFaults, Raise, Dying, position
    <3> QED
      BY <1>3, <3>1, <3>2, <3>3, <3>4 DEF Handler
  <2>2. Here' = Here /\ ~Running' /\ ~(Gone' /\ status' = 0)
    BY <2>1 DEF Here, Running, Dying, Gone
  <2> QED
    BY <2>1, <2>2 DEF WrongOnlyNow
<1>4. CASE Make \/ UNCHANGED vars
  <2>1. CASE NextProgram
    BY <2>1 DEF NextProgram, WrongOnlyNow, Running, Dying, Gone
  <2>2. CASE MakeEnds \/ UNCHANGED vars
    <3>1. /\ Running' = Running /\ Dying' = Dying /\ Gone' = Gone /\ status' = status
          /\ wrong' = wrong /\ Here' = Here
      BY <2>2 DEF MakeEnds, vars, Running, Dying, Gone, Here, position
    <3> QED
      BY <3>1 DEF WrongOnlyNow
  <2> QED
    BY <1>4, <2>1, <2>2 DEF Make
<1>5. CASE \E overflow \in BOOLEAN : AssertEquals(overflow)
  <2>1. /\ Running /\ wrong' = wrong \union {<<Here, "differs">>}
        /\ pc' = "handler" /\ UNCHANGED <<program, test>>
    BY <1>5 DEF AssertEquals, Wrong, Raise, Running, position
  <2> QED
    BY <2>1, <1>2
<1>6. CASE \E sig \in Signals : Faults(sig)
  <2>1. /\ Running /\ wrong' = wrong \union {<<Here, "fault">>}
        /\ pc' = "handler" /\ UNCHANGED <<program, test>>
    BY <1>6 DEF Faults, Wrong, Raise, Running, position
  <2> QED
    BY <2>1, <1>2
<1>7. CASE CouldNotAllocate
  <2>1. Running /\ wrong' = wrong \union {<<Here, "no memory">>}
    BY <1>7 DEF CouldNotAllocate, Wrong, Running
  <2>2. pc' = "exited" /\ status' = 113
    BY <1>7 DEF CouldNotAllocate, CouldNotAllocateError, Exit
  <2>3. UNCHANGED <<program, test>>
    BY <1>7 DEF CouldNotAllocate, position
  <2>4. status' # 0
    BY <2>2
  <2> QED
    BY <2>1, <2>2, <2>3, <2>4, <1>2
<1> QED
  BY <1>1, <1>3, <1>4, <1>5, <1>6, <1>7
  DEF Next, Test, AssertEqualsDouble, AssertEqualsString, Stopped

LEMMA InitWrong == Init => WrongOnlyNow
BY DEF Init, WrongOnlyNow, Running, Dying, Gone

(* ExitCodeIsTrue of TestRunner: make test fails exactly if an assertion   *)
(* failed, something faulted or a Matrix was refused its memory, for any   *)
(* number of programs, tests and assertions.                               *)
THEOREM ExitCodeTellsTheTruth == Spec => []ExitCodeIsTrue
<1>1. WrongOnlyNow => ExitCodeIsTrue
  BY DEF WrongOnlyNow, ExitCodeIsTrue, Finished, Gone
<1> QED
  BY <1>1, InitTInv, StepKeepsTInv, InitWrong, StepKeepsWrong, PTL DEF Spec

-----------------------------------------------------------------------------
(* The output of make test. *)

(* All lines written, where the processes that are not killed lose none. *)
Printed == shown \o pending

(* The tests are named in order, and the last one named is the one that    *)
(* runs, or went wrong.                                                    *)
NamedInOrder ==
  /\ Ordered(Printed)
  /\ pc = "main" => Below(Printed, Here)
  /\ pc = "test" \/ Dying => UpTo(Printed, Here) /\ LastIs(Printed, Here)
  /\ Gone /\ status = 0 => Below(Printed, <<program + 1, 1>>)
  /\ Gone /\ status # 0 =>
       /\ UpTo(Printed, Here)
       /\ (status = Killed => ~buffered) => LastIs(Printed, Here)

LEMMA PrintedIsTyped ==
  ASSUME TInv
  PROVE  /\ Printed \in Seq(AllLines) /\ shown \in Seq(AllLines) /\ pending \in Seq(AllLines)
         /\ \A k \in InfoAt(Printed) : Printed[k].test \in Tests
         /\ program \in Nat /\ test \in Nat
<1>1. shown \in Seq(AllLines) /\ pending \in Seq(AllLines) /\ program \in Nat /\ test \in Nat
  BY Bounds DEF TInv, TypeOK
<1>2. Printed \in Seq(AllLines)
  BY <1>1, ConcatProperties DEF Printed
<1>3. \A k \in DOMAIN Printed : Printed[k] \in AllLines
  BY <1>2, LenProperties, ElementOfSeq
<1>4. \A k \in InfoAt(Printed) : Printed[k].test \in Tests
  BY <1>3, LinesOfTests DEF InfoAt
<1> QED
  BY <1>1, <1>2, <1>4

LEMMA ComesBefore ==
  ASSUME NEW t \in Tests, NEW n \in Nat, NEW j \in Nat
  PROVE  /\ (t = <<n, j>> \/ Before(t, <<n, j>>)) => Before(t, <<n, j + 1>>)
         /\ Before(t, <<n, j>>) => Before(t, <<n + 1, 1>>)
<1>1. t[1] \in Nat /\ t[2] \in Nat
  BY Bounds DEF Tests
<1> QED
  BY <1>1 DEF Before

LEMMA MainKeepsOrder == TInv /\ NamedInOrder /\ Main => NamedInOrder'
<1> SUFFICES ASSUME TInv, NamedInOrder, Main PROVE NamedInOrder'
  OBVIOUS
<1>1. /\ Printed \in Seq(AllLines) /\ program \in Nat /\ test \in Nat
      /\ Ordered(Printed) /\ Below(Printed, Here)
      /\ \A k \in InfoAt(Printed) : Printed[k].test \in Tests
  BY PrintedIsTyped DEF NamedInOrder, Main, RunTest, MainReturns
<1>2. CASE RunTest
  <2>1. Here \in Tests
    BY <1>2, HereIsATest DEF RunTest, MoreTests
  <2>2. NameOf(Here) = <<Info(Here)>> /\ <<Info(Here)>> \in Seq(AllLines)
    BY <2>1, LinesOfTests DEF NameOf
  <2>3. Printed' = Printed \o <<Info(Here)>>
    BY <1>2, <2>2, LogIsTyped DEF RunTest, Printed
  <2>4. /\ Ordered(Printed \o <<Info(Here)>>) /\ UpTo(Printed \o <<Info(Here)>>, Here)
        /\ LastIs(Printed \o <<Info(Here)>>, Here)
    BY <1>1, <2>1, NameAppended
  <2>5. pc' = "test" /\ Here' = Here
    BY <1>2 DEF RunTest, Here, position
  <2>6. Ordered(Printed') /\ UpTo(Printed', Here') /\ LastIs(Printed', Here')
    BY <2>3, <2>4, <2>5
  <2> QED
    BY <2>5, <2>6 DEF NamedInOrder, Dying, Gone
<1>3. CASE MainReturns
  <2>1. Printed' = Printed /\ pc' = "exited" /\ status' = 0 /\ program' = program
    BY <1>3, ExitIsTyped DEF MainReturns, Printed, Exit, MainResult, position
  <2>2. Below(Printed, <<program + 1, 1>>)
    BY <1>1, ComesBefore DEF Below, Here
  <2>3. Ordered(Printed') /\ Below(Printed', <<program' + 1, 1>>)
    BY <1>1, <2>1, <2>2
  <2> QED
    BY <2>1, <2>3 DEF NamedInOrder, Dying, Gone
<1> QED
  BY <1>2, <1>3 DEF Main

LEMMA TestKeepsOrder == TInv /\ NamedInOrder /\ Test => NamedInOrder'
<1> SUFFICES ASSUME TInv, NamedInOrder, Test PROVE NamedInOrder'
  OBVIOUS
<1>1. /\ Printed \in Seq(AllLines) /\ program \in Nat /\ test \in Nat
      /\ Ordered(Printed) /\ UpTo(Printed, Here) /\ LastIs(Printed, Here)
      /\ \A k \in InfoAt(Printed) : Printed[k].test \in Tests
      /\ pc = "test"
  BY PrintedIsTyped
  DEF NamedInOrder, Test, Holds, NotANumber, AssertEqualsDouble, AssertEqualsString,
      AssertEquals, CouldNotAllocate, Faults
<1>2. CASE Holds \/ NotANumber
  <2>1. /\ Printed' = Printed /\ program' = program
        /\ (pc' = "test" /\ test' = test) \/ (pc' = "main" /\ test' = test + 1)
    BY <1>1, <1>2 DEF Holds, NotANumber, Passes, Printed, output
  <2>2. CASE pc' = "test" /\ test' = test
    <3>1. Here' = Here
      BY <2>1, <2>2 DEF Here
    <3>2. Ordered(Printed') /\ UpTo(Printed', Here') /\ LastIs(Printed', Here')
      BY <1>1, <2>1, <3>1
    <3> QED
      BY <2>2, <3>2 DEF NamedInOrder, Dying, Gone
  <2>3. CASE pc' = "main" /\ test' = test + 1
    <3>1. Here' = <<program, test + 1>>
      BY <2>1, <2>3 DEF Here
    <3>2. Below(Printed, <<program, test + 1>>)
      BY <1>1, ComesBefore DEF UpTo, Below, Here
    <3>3. Ordered(Printed') /\ Below(Printed', Here')
      BY <1>1, <2>1, <3>1, <3>2
    <3> QED
      BY <2>3, <3>3 DEF NamedInOrder, Dying, Gone
  <2> QED
    BY <2>1, <2>2, <2>3
<1>3. ASSUME NEW lines \in Seq(AllLines), InfoAt(lines) = {}, Printed' = Printed \o lines,
             pc' = "handler", UNCHANGED <<program, test>>
      PROVE  NamedInOrder'
  <2>1. Here' = Here
    BY <1>3 DEF Here
  <2>2. /\ Ordered(Printed \o lines) /\ UpTo(Printed \o lines, Here)
        /\ LastIs(Printed \o lines, Here)
    BY <1>1, <1>3, ErrorsAppended
  <2>3. Ordered(Printed') /\ UpTo(Printed', Here') /\ LastIs(Printed', Here')
    BY <1>3, <2>1, <2>2
  <2> QED
    BY <1>3, <2>3 DEF NamedInOrder, Gone
<1>4. CASE \E overflow \in BOOLEAN : AssertEquals(overflow)
  <2>1. PICK overflow \in BOOLEAN : AssertEquals(overflow)
    BY <1>4
  <2>2. Lines(overflow) \in Seq(AllLines) /\ InfoAt(Lines(overflow)) = {}
    BY <1>1, ErrorLines
  <2>3. Printed' = Printed \o Lines(overflow)
    BY <2>1, <2>2, LogIsTyped DEF AssertEquals, Printed
  <2>4. pc' = "handler" /\ UNCHANGED <<program, test>>
    BY <2>1 DEF AssertEquals, Raise, position
  <2> QED
    BY <2>2, <2>3, <2>4, <1>3
<1>5. CASE \E sig \in Signals : Faults(sig)
  <2>1. /\ Printed' = Printed /\ pc' = "handler" /\ UNCHANGED <<program, test>>
    BY <1>5 DEF Faults, Raise, position, output, Printed
  <2>2. <<>> \in Seq(AllLines) /\ Printed \o <<>> = Printed
    BY <1>1, EmptySeq, ConcatEmptySeq
  <2>3. InfoAt(<<>>) = {}
    BY DEF InfoAt
  <2> QED
    BY <2>1, <2>2, <2>3, <1>3
<1>6. CASE CouldNotAllocate
  <2>1. /\ Printed' = Printed /\ pc' = "exited" /\ status' = 113 /\ Here' = Here
    BY <1>6, ExitIsTyped
    DEF CouldNotAllocate, Exit, CouldNotAllocateError, Printed, position, Here
  <2>2. Ordered(Printed') /\ UpTo(Printed', Here') /\ LastIs(Printed', Here')
    BY <1>1, <2>1
  <2> QED
    BY <2>1, <2>2 DEF NamedInOrder, Dying, Gone
<1> QED
  BY <1>2, <1>4, <1>5, <1>6 DEF Test, AssertEqualsDouble, AssertEqualsString

LEMMA HandlerKeepsOrder == TInv /\ NamedInOrder /\ Handler => NamedInOrder'
<1> SUFFICES ASSUME TInv, NamedInOrder, Handler PROVE NamedInOrder'
  OBVIOUS
<1>1. /\ shown \in Seq(AllLines) /\ pending \in Seq(AllLines)
      /\ Ordered(Printed) /\ UpTo(Printed, Here) /\ LastIs(Printed, Here)
      /\ pc = "handler" /\ (buffered \/ pending = <<>>)
  BY PrintedIsTyped
  DEF NamedInOrder, Handler, HandlerExits, HandlerKilled, HandlerHangs, HandlerFaults, Dying,
      TInv, TypeOK
<1>2. Here' = Here
  BY DEF Handler, HandlerExits, HandlerKilled, HandlerHangs, HandlerFaults, position, Here
<1>3. CASE HandlerHangs \/ \E sig \in Signals : HandlerFaults(sig)
  <2>1. Printed' = Printed /\ pc' \in {"handler", "hung"}
    BY <1>3 DEF HandlerHangs, HandlerFaults, Raise, output, Printed
  <2>2. Ordered(Printed') /\ UpTo(Printed', Here') /\ LastIs(Printed', Here')
    BY <1>1, <1>2, <2>1
  <2> QED
    BY <2>1, <2>2 DEF NamedInOrder, Dying, Gone
<1>4. CASE HandlerExits
  <2>1. Printed' = Printed /\ pc' = "exited" /\ status' = 139
    BY <1>4, ExitIsTyped DEF HandlerExits, Exit, ExitCode, Printed
  <2>2. Ordered(Printed') /\ UpTo(Printed', Here') /\ LastIs(Printed', Here')
    BY <1>1, <1>2, <2>1
  <2> QED
    BY <2>1, <2>2 DEF NamedInOrder, Dying, Gone
<1>5. CASE HandlerKilled
  <2>1. /\ shown' = shown /\ pending' = <<>> /\ pc' = "exited" /\ status' = Killed
        /\ buffered' = buffered
    BY <1>5 DEF HandlerKilled
  <2>2. Printed' = shown
    BY <1>1, <2>1, ConcatEmptySeq DEF Printed
  <2>3. Ordered(shown) /\ UpTo(shown, Here)
    BY <1>1, EndLost DEF Printed
  <2>4. ~buffered => LastIs(shown, Here)
    BY <1>1, ConcatEmptySeq DEF Printed
  <2>5. Ordered(Printed') /\ UpTo(Printed', Here') /\ (~buffered' => LastIs(Printed', Here'))
    BY <1>2, <2>1, <2>2, <2>3, <2>4
  <2> QED
    BY <2>1, <2>5 DEF NamedInOrder, Dying, Gone, Killed
<1> QED
  BY <1>3, <1>4, <1>5 DEF Handler

LEMMA MakeKeepsOrder == TInv /\ NamedInOrder /\ (Make \/ UNCHANGED vars) => NamedInOrder'
<1> SUFFICES ASSUME TInv, NamedInOrder, Make \/ UNCHANGED vars PROVE NamedInOrder'
  OBVIOUS
<1>1. Printed' = Printed
  BY DEF Make, NextProgram, MakeEnds, vars, output, Printed
<1>2. CASE NextProgram
  <2>1. pc' = "main" /\ Here' = <<program + 1, 1>> /\ Gone /\ status = 0
    BY <1>2 DEF NextProgram, Here, Gone
  <2>2. Ordered(Printed') /\ Below(Printed', Here')
    BY <1>1, <2>1 DEF NamedInOrder
  <2> QED
    BY <2>1, <2>2 DEF NamedInOrder, Dying, Gone
<1>3. CASE MakeEnds
  <2>1. /\ Gone /\ pc' = "ended" /\ status' = status /\ program' = program /\ buffered' = buffered
        /\ Here' = Here
    BY <1>3 DEF MakeEnds, Here, Gone, position
  <2>2. Ordered(Printed')
    BY <1>1 DEF NamedInOrder
  <2>3. status' = 0 => Below(Printed', <<program' + 1, 1>>)
    BY <1>1, <2>1 DEF NamedInOrder
  <2>4. status' # 0 => /\ UpTo(Printed', Here')
                       /\ (status' = Killed => ~buffered') => LastIs(Printed', Here')
    BY <1>1, <2>1 DEF NamedInOrder
  <2> QED
    BY <2>1, <2>2, <2>3, <2>4 DEF NamedInOrder, Dying, Gone
<1>4. CASE UNCHANGED vars
  <2>1. /\ pc' = pc /\ status' = status /\ program' = program /\ buffered' = buffered
        /\ Here' = Here /\ Dying' = Dying /\ Gone' = Gone
    BY <1>4 DEF vars, Here, Dying, Gone
  <2> QED
    BY <1>1, <2>1 DEF NamedInOrder
<1> QED
  BY <1>2, <1>3, <1>4 DEF Make

LEMMA StepKeepsOrder == TInv /\ NamedInOrder /\ [Next]_vars => NamedInOrder'
BY MainKeepsOrder, TestKeepsOrder, HandlerKeepsOrder, MakeKeepsOrder DEF Next, Stopped

LEMMA InitOrder == Init => NamedInOrder
<1> SUFFICES ASSUME Init PROVE NamedInOrder
  OBVIOUS
<1>1. Printed = <<>> /\ pc = "main"
  BY EmptySeq, ConcatEmptySeq DEF Init, Printed
<1>2. InfoAt(<<>>) = {}
  BY DEF InfoAt
<1> QED
  BY <1>1, <1>2 DEF NamedInOrder, Ordered, Below, Dying, Gone

LEMMA OutputInv ==
  ASSUME TInv, WrongOnlyNow, NamedInOrder
  PROVE  FailedTestIsNamed /\ NothingRunsAfterAFailure
<1>1. /\ shown \in Seq(AllLines) /\ pending \in Seq(AllLines) /\ Ordered(Printed)
      /\ \A k \in InfoAt(Printed) : Printed[k].test \in Tests
  BY PrintedIsTyped DEF NamedInOrder
<1>2. Named = InfoAt(shown)
  BY DEF Named, InfoAt
<1>3. FailedTestIsNamed
  <2> SUFFICES ASSUME Finished, status # 0, status = Killed => ~buffered
               PROVE  \E k \in Named :
                        /\ \A j \in Named : j <= k
                        /\ \E w \in wrong : w[1] = shown[k].test /\ w[2] # "NaN"
    BY DEF FailedTestIsNamed
  <2>1. Gone /\ Printed = shown
    BY <1>1, ConcatEmptySeq DEF Finished, Gone, TInv, Printed
  <2>2. PICK k \in InfoAt(shown) : shown[k].test = Here /\ \A j \in InfoAt(shown) : j <= k
    BY <2>1 DEF NamedInOrder, LastIs
  <2>3. PICK w \in wrong : w[2] # "NaN" /\ w[1] = Here
    BY <2>1 DEF WrongOnlyNow
  <2> QED
    BY <1>2, <2>2, <2>3
<1>4. \A j, k \in Named : j < k => Before(shown[j].test, shown[k].test)
  BY <1>1, <1>2, EndLost DEF Printed, Ordered
<1>5. ASSUME NEW w \in wrong, NEW k \in Named, w[2] # "NaN"
      PROVE  ~Before(w[1], shown[k].test)
  <2>1. Dying \/ (Gone /\ status # 0)
    BY <1>5 DEF WrongOnlyNow, TInv, TypeOK, Running, Dying, Gone
  <2>2. w[1] = Here /\ UpTo(Printed, Here)
    BY <1>5, <2>1 DEF WrongOnlyNow, NamedInOrder
  <2>3. UpTo(shown, Here)
    BY <1>1, <2>2, EndLost DEF Printed
  <2>4. shown[k].test = Here \/ Before(shown[k].test, Here)
    BY <1>2, <2>3 DEF UpTo
  <2>5. /\ shown[k].test[1] \in Nat /\ shown[k].test[2] \in Nat
        /\ program \in Nat /\ test \in Nat
    <3>1. shown[k] \in AllLines
      BY <1>1, <1>2, LenProperties, ElementOfSeq DEF InfoAt
    <3> QED
      BY <3>1, LinesOfTests, PrintedIsTyped, Bounds DEF Tests
  <2> QED
    BY <2>2, <2>4, <2>5 DEF Before, Here
<1> QED
  BY <1>3, <1>4, <1>5 DEF NothingRunsAfterAFailure

(* FailedTestIsNamed of TestRunner: the last test that the output names is *)
(* the one that went wrong, unless a process was killed with its buffer.   *)
THEOREM OutputNamesTheFailedTest == Spec => []FailedTestIsNamed
BY InitTInv, StepKeepsTInv, InitWrong, StepKeepsWrong, InitOrder, StepKeepsOrder, OutputInv,
   PTL DEF Spec

(* NothingRunsAfterAFailure of TestRunner, for any number of programs.     *)
THEOREM FailureEndsTheRun == Spec => []NothingRunsAfterAFailure
BY InitTInv, StepKeepsTInv, InitWrong, StepKeepsWrong, InitOrder, StepKeepsOrder, OutputInv,
   PTL DEF Spec
=============================================================================
