------------------------------- MODULE Iovecs -------------------------------
(***************************************************************************)
(* How files.c cuts a file into blocks: the number of iovecs it allocates  *)
(* for a given size, the length of each, and where the bytes of a vectored *)
(* read land in them.  Shared by the io_uring reader and by the readv      *)
(* reader of the same file.                                                *)
(***************************************************************************)
EXTENDS Integers

CONSTANTS
  BlkSize,  \* BLKSIZE: 4096 in files.c
  SizeMod   \* size_t holds 0 .. SizeMod - 1: 2^64 in the C build

ASSUME IovecsAssumption ==
  /\ BlkSize \in Nat /\ BlkSize > 2  \* so that -1 and -2 are no multiples of it
  /\ SizeMod \in Nat
  /\ SizeMod >= BlkSize + 2

Lesser(a, b) == IF a < b THEN a ELSE b

(* C's division of an off_t truncates towards zero. *)
Quotient(size) ==
  IF size >= 0 THEN size \div BlkSize ELSE -((-size) \div BlkSize)

(* One block per BLKSIZE bytes and one more for a remainder.  An error code *)
(* of get_file_size (-1, -2) has a remainder too: it makes one block.       *)
NoBlockForTheRest(size) == Quotient(size)  \* mutant
BlockCount(size) ==
  Quotient(size) + (IF size # Quotient(size) * BlkSize THEN 1 ELSE 0)

Blocks(size) == 0 .. BlockCount(size) - 1

(* bytesLeft is a size_t: a negative size wraps to the top of the range. *)
BytesLeftSigned(size, i) == size - i * BlkSize  \* mutant
BytesLeft(size, i) == (size - i * BlkSize) % SizeMod

IovLen(size, i) == Lesser(BlkSize, BytesLeft(size, i))

(* The bytes all the blocks of a plan hold together. *)
Capacity(size) ==
  LET n == BlockCount(size)
  IN  IF n = 0 THEN 0 ELSE (n - 1) * BlkSize + IovLen(size, n - 1)

(* The kernel fills the vectors in order, each before the next: of n bytes *)
(* read, block i receives those from offset i * BlkSize on.                *)
Landed(size, n, i) ==
  IF n <= i * BlkSize THEN 0 ELSE Lesser(n - i * BlkSize, IovLen(size, i))
=============================================================================
