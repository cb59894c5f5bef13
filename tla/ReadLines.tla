----------------------------- MODULE ReadLines ------------------------------
(***************************************************************************)
(* readUntilNewline of 001pun.c: a loop with scanf and then one with       *)
(* getchar, on an input that ends.                                         *)
(***************************************************************************)
EXTENDS Integers, Sequences

CONSTANT MaxInput  \* bound on the length of the input

ASSUME LinesAssumption == MaxInput \in Nat

VARIABLES
  reading,  \* "none" before the call, "scanf" or "getchar" in a loop, "returned"
  input,    \* what there is to read
  taken,    \* how much of it was read
  ch        \* the variable, uninitialised at first

lineVars == <<reading, input, taken, ch>>

Chars == {"char", "newline"}
Inputs == UNION {[1 .. n -> Chars] : n \in 0 .. MaxInput}

LineInit == reading = "none" /\ input = <<>> /\ taken = 0 /\ ch = "char"

LineCall ==
  /\ reading = "none" /\ reading' = "scanf"
  /\ input' \in Inputs /\ ch' \in Chars
  /\ UNCHANGED taken

AtEof == taken = Len(input)

(* At the end of the input scanf leaves the variable alone. *)
Scanf ==
  /\ reading = "scanf" /\ UNCHANGED input
  /\ IF AtEof THEN UNCHANGED <<taken, ch>>
              ELSE taken' = taken + 1 /\ ch' = input[taken + 1]
  /\ reading' = IF ch' = "newline" THEN "getchar" ELSE "scanf"

AlsoEof == AtEof \/ input[taken + 1] = "newline"  \* mutant
GotNewline == ~AtEof /\ input[taken + 1] = "newline"

Getchar ==
  /\ reading = "getchar" /\ UNCHANGED <<input, ch>>
  /\ IF AtEof THEN UNCHANGED taken ELSE taken' = taken + 1
  /\ reading' = IF GotNewline THEN "returned" ELSE "getchar"

LineNext == Scanf \/ Getchar
-----------------------------------------------------------------------------
(* Properties. *)

Newlines(n) == {k \in 1 .. n : input[k] = "newline"}

(* The function takes two lines, not one, and returns right behind them.   *)
(* At the end of the input it spins, also when a newline that happened to  *)
(* be in the variable had ended the first loop.                            *)
ReturnsBehindANewline ==
  reading = "returned" =>
    \E k \in Newlines(taken) :
      /\ k = taken
      /\ \E j \in Newlines(taken) : j < k /\ Newlines(taken) = {j, k}
=============================================================================
