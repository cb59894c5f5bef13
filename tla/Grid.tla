-------------------------------- MODULE Grid --------------------------------
(***************************************************************************)
(* What a Matrix of la/matrix.h promises: a value of its own at every row  *)
(* and column, from creation to Matrix_destroy.                            *)
(***************************************************************************)
EXTENDS Integers

CONSTANTS
  Dims,   \* how many rows and columns a matrix may have
  Values  \* the numbers it holds

VARIABLES
  life,  \* "none", "live", or "exited" when there was no memory
  grid   \* the values by position

vars == <<life, grid>>

Positions(rows, cols) == (0 .. rows - 1) \X (0 .. cols - 1)
NoGrid == [p \in {} |-> 0]

Init == life = "none" /\ grid = NoGrid

Create ==
  /\ life = "none" /\ life' = "live"
  /\ \E rows, cols \in Dims : grid' \in [Positions(rows, cols) -> Values]
NoMemory == life = "none" /\ life' = "exited" /\ grid' = NoGrid

Set ==
  /\ life = "live"
  /\ \E p \in DOMAIN grid, v \in Values : grid' = [grid EXCEPT ![p] = v]
  /\ UNCHANGED life
Fill ==
  /\ life = "live"
  /\ \E v \in Values : grid' = [p \in DOMAIN grid |-> v]
  /\ UNCHANGED life

Destroy == life = "live" /\ life' = "none" /\ grid' = NoGrid

Next == Create \/ NoMemory \/ Set \/ Fill \/ Destroy

Spec == Init /\ [][Next]_vars
=============================================================================
