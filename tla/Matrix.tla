------------------------------- MODULE Matrix -------------------------------
(***************************************************************************)
(* Matrix of la/matrix.c: one heap array of doubles, row after row, and    *)
(* the functions that create, read, write and destroy it.  Callers keep    *)
(* rows and columns within the matrix; its functions do not look.          *)
(***************************************************************************)
EXTENDS Integers

CONSTANTS
  Dims,    \* how many rows and columns a matrix may have
  Values,  \* the numbers it holds; 0 is one of them
  SizeMod  \* size_t holds 0 .. SizeMod - 1

ASSUME MatrixAssumption ==
  /\ Dims \subseteq Nat /\ 0 \in Values
  /\ SizeMod \in Nat \ {0} /\ \A d \in Dims : d < SizeMod

VARIABLES
  life,        \* "none", "live", or "exited" when there was no memory
  rows, cols,  \* the fields of the matrix
  data,        \* the array it points at
  outside      \* an element outside of the array was written

vars == <<life, rows, cols, data, outside>>

(* rows * cols wraps before calloc sees it. *)
Elements(r, c) == (r * c) % SizeMod
Array(r, c)    == 0 .. Elements(r, c) - 1

StrideOfRows(r, c) == (r * rows + c) % SizeMod  \* mutant
IndexOf(r, c) == (r * cols + c) % SizeMod

Positions == (0 .. rows - 1) \X (0 .. cols - 1)

Empty == [i \in {} |-> 0]
Init == life = "none" /\ rows = 0 /\ cols = 0 /\ data = Empty /\ outside = FALSE

NoMemory ==
  /\ life = "none" /\ life' = "exited"
  /\ UNCHANGED <<rows, cols, data, outside>>

Zeros(r, c) ==
  /\ life = "none" /\ life' = "live"
  /\ rows' = r /\ cols' = c
  /\ data' = [i \in Array(r, c) |-> 0]
  /\ UNCHANGED outside

Copy(r, c, source) ==
  /\ life = "none" /\ life' = "live"
  /\ rows' = r /\ cols' = c
  /\ data' = [i \in Array(r, c) |-> source[i]]
  /\ UNCHANGED outside

Set(p, v) ==
  /\ life = "live"
  /\ IF IndexOf(p[1], p[2]) \in DOMAIN data
       THEN data' = [data EXCEPT ![IndexOf(p[1], p[2])] = v] /\ UNCHANGED outside
       ELSE outside' = TRUE /\ UNCHANGED data
  /\ UNCHANGED <<life, rows, cols>>

Fill(v) ==
  LET filled == {IndexOf(p[1], p[2]) : p \in Positions} IN
  /\ life = "live"
  /\ data' = [i \in DOMAIN data |-> IF i \in filled THEN v ELSE data[i]]
  /\ outside' = (outside \/ ~(filled \subseteq DOMAIN data))
  /\ UNCHANGED <<life, rows, cols>>

Destroy ==
  /\ life = "live" /\ life' = "none"
  /\ rows' = 0 /\ cols' = 0 /\ data' = Empty
  /\ UNCHANGED outside

Next ==
  \/ NoMemory \/ Destroy
  \/ \E r, c \in Dims :
       \/ Zeros(r, c)
       \/ \E source \in [0 .. r * c - 1 -> Values] : Copy(r, c, source)
  \/ \E v \in Values : Fill(v) \/ \E p \in Positions : Set(p, v)

Spec == Init /\ [][Next]_vars
-----------------------------------------------------------------------------
(* Properties. *)

(* Matrix_get. *)
Get(p) == LET i == IndexOf(p[1], p[2]) IN IF i \in DOMAIN data THEN data[i] ELSE 0

TypeOK ==
  /\ life \in {"none", "live", "exited"} /\ outside \in BOOLEAN
  /\ rows \in Nat /\ cols \in Nat
  /\ life = "live" => rows \in Dims /\ cols \in Dims
  /\ life # "live" => rows = 0 /\ cols = 0
  /\ data \in [0 .. Elements(rows, cols) - 1 -> Values]

(* No two dimensions have a product that size_t cannot hold. *)
NoWrap == \A r, c \in Dims : r * c < SizeMod

(* Functions that are told rows and columns within the matrix stay within  *)
(* the array, unless rows * cols wrapped when it was allocated.            *)
Wrapped == rows * cols >= SizeMod
InsideUnlessWrapped == [][outside' = outside \/ Wrapped]_vars

(* The row-major array implements a grid: no two positions share an        *)
(* element, every position has one, and Fill reaches them all.  A matrix   *)
(* that wrapped may do anything until it is destroyed.                     *)
G == INSTANCE Grid WITH grid <- [p \in Positions |-> Get(p)]
ImplementsGrid == G!Init /\ [][Wrapped \/ [G!Next]_(G!vars)]_vars
=============================================================================
