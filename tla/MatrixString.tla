---------------------------- MODULE MatrixString ----------------------------
(***************************************************************************)
(* A program that creates, changes and destroys a Matrix and prints it     *)
(* with Matrix_toString of la/matrix.c: the loops over rows and columns    *)
(* that build a text with strconcat.                                       *)
(*                                                                         *)
(* An element is known by its whole part as it is printed; whether it is   *)
(* printed with two decimals, and whether 0.10 has a sign, is left open.   *)
(***************************************************************************)
EXTENDS Matrix, Sequences, FiniteSets

CONSTANTS
  Grain, KeepsSlack, MayFail,  \* the allocator, see StrConcat
  BufferSize,                  \* of buffer, in which sprintf ends a text with a zero; 20 in C
  MaxDigits                    \* bound on the digits of a number before its point

ASSUME MatrixStringAssumption ==
  /\ Grain \in Nat \ {0} /\ {KeepsSlack, MayFail} \subseteq BOOLEAN
  /\ BufferSize \in Nat /\ MaxDigits \in Nat
  /\ \A v \in Values : v \in Int /\ -(10^MaxDigits) < v /\ v < 10^MaxDigits

VARIABLES
  at,       \* "outside", "printing", "returned", "smashed" behind the end of buffer
  r, c,     \* the loop counters
  len,      \* what toString believes to be the length of the result
  dst, text, clobbered, failed  \* result and its history, see StrConcat

string == <<dst, text, clobbered, failed>>
program == <<vars, at, r, c, len, string>>

S == INSTANCE StrConcat WITH CountsZero <- FALSE, Widths <- {}, MaxText <- 0

ProgramInit ==
  /\ Init /\ at = "outside" /\ r = 0 /\ c = 0 /\ len = 0
  /\ dst = S!NULL /\ text = <<>> /\ clobbered = FALSE /\ failed = FALSE

MatrixCalls == at = "outside" /\ Next /\ UNCHANGED <<at, r, c, len, string>>

(* Elements of a matrix that wrapped lie outside of its array: what they   *)
(* are is undefined, and printing them is left out.                        *)
ToString ==
  /\ at = "outside" /\ life = "live" /\ ~Wrapped /\ at' = "printing"
  /\ dst' \in S!NewStrings
  /\ UNCHANGED <<vars, r, c, len, text, clobbered, failed>>

Digits(v) == 1 + Cardinality({k \in 1 .. MaxDigits - 1 : 10^k <= v \/ 10^k <= -v})

(* "%ld\t" and "%.2f\t". *)
Whole(v) == IF v < 0 THEN Digits(v) + 2 ELSE Digits(v) + 1
Printed(v) == {Whole(v), Whole(v) + 3} \union (IF v = 0 THEN {Whole(v) + 4} ELSE {})

BufferOneShorter(width) == width + 1 < BufferSize  \* mutant
Fits(width) == width + 1 <= BufferSize

Concat(t) ==
  /\ S!Strconcat(len, t)
  /\ text' = text \o t

Element ==
  /\ at = "printing" /\ r < rows /\ c < cols
  /\ \E width \in Printed(Get(<<r, c>>)) :
       IF Fits(width)
         THEN Concat(S!Text(width)) /\ len' = len + width /\ c' = c + 1 /\ UNCHANGED at
         ELSE at' = "smashed" /\ UNCHANGED <<len, c, string>>
  /\ UNCHANGED <<vars, r>>

Newline == <<"newline">>

(* Mutant: the length is not advanced past a newline. *)
ForgetsNewline ==
  /\ at = "printing" /\ r < rows /\ c = cols
  /\ Concat(Newline)
  /\ r' = r + 1 /\ c' = 0
  /\ UNCHANGED <<vars, at, len>>

RowEnd ==
  /\ at = "printing" /\ r < rows /\ c = cols
  /\ Concat(Newline) /\ len' = len + 1
  /\ r' = r + 1 /\ c' = 0
  /\ UNCHANGED <<vars, at>>

Returned ==
  /\ at = "printing" /\ r = rows /\ at' = "returned"
  /\ UNCHANGED <<vars, r, c, len, string>>

(* The caller is done with the string. *)
FreeString ==
  /\ at = "returned" /\ at' = "outside" /\ r' = 0 /\ c' = 0 /\ len' = 0
  /\ dst' = S!NULL /\ text' = <<>> /\ clobbered' = FALSE /\ failed' = FALSE
  /\ UNCHANGED vars

ProgramNext == MatrixCalls \/ ToString \/ Element \/ RowEnd \/ Returned \/ FreeString

ProgramSpec == ProgramInit /\ [][ProgramNext]_program
-----------------------------------------------------------------------------
(* Properties. *)

(* The result of a matrix with elements is a proper string although        *)
(* strconcat does not end it: the zero that the call before the last one   *)
(* wrote too far is the byte behind the newline.  That takes an allocator  *)
(* that gives a spare byte to every block and moves it along.              *)
EndedByThePreviousCall ==
  at = "returned" /\ rows > 0 /\ cols > 0 /\ ~failed /\ ~clobbered => S!ReadsAs(dst, text)

(* Across rows and elements no byte of the text is lost unless a realloc   *)
(* failed; after that it is never whole again, though a later call may     *)
(* well return a string.                                                   *)
WholeUnlessFailed == at \in {"printing", "returned"} => S!WholeUnlessFailed

(* sprintf stays inside buffer while every number has at least six digits  *)
(* less than buffer has bytes: a sign, a point, two decimals, a tab and    *)
(* the zero are the others.                                                *)
ShortNumbersFit ==
  at = "smashed" => \E i \in DOMAIN data : Digits(data[i]) > BufferSize - 6
=============================================================================
