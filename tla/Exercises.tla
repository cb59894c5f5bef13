----------------------------- MODULE Exercises ------------------------------
(***************************************************************************)
(* The exercises of 001pun.c as one program that calls one of them.        *)
(***************************************************************************)
EXTENDS ArrayLoops, DealHand, ReadLines

vars == <<arrayVars, handVars, lineVars>>

Init == ArrayInit /\ HandInit /\ LineInit

NoneCalled == fn = "none" /\ dealing = "none" /\ reading = "none"

Array(A) == A /\ UNCHANGED <<handVars, lineVars>>
Hand(A)  == A /\ UNCHANGED <<arrayVars, lineVars>>
Line(A)  == A /\ UNCHANGED <<arrayVars, handVars>>

Call == NoneCalled /\ (Array(ArrayCall) \/ Hand(RequestHandSize) \/ Line(LineCall))
Run  == Array(ArrayNext) \/ Hand(HandNext) \/ Line(LineNext)

Next == Call \/ Run

Spec == Init /\ [][Next]_vars

(* The process runs. *)
FairSpec == Spec /\ WF_vars(Run)

(* Every exercise returns: dealing also when more cards are asked for than *)
(* there are, because a draw that repeats a card counts.  The exception is *)
(* readUntilNewline on an input of fewer than two lines.                   *)
CallReturns ==
  ~NoneCalled ~>
    \/ fn # "none" /\ ~More
    \/ dealing # "none" /\ i >= handSize
    \/ reading = "returned"
    \/ reading # "none" /\ \A j, k \in Newlines(Len(input)) : j = k
=============================================================================
