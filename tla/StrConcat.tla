----------------------------- MODULE StrConcat -----------------------------
(***************************************************************************)
(* strconcat of util/strings.c: a heap string that grows by realloc, and a *)
(* caller that appends one text after another as util/strings_test.c does. *)
(*                                                                         *)
(* A block has the size that was asked for and the bytes the allocator     *)
(* gives it, which are at least as many.  Bytes nobody wrote are Junk.     *)
(***************************************************************************)
EXTENDS Integers, Sequences

CONSTANTS
  Grain,      \* the allocator rounds sizes up to multiples of Grain
  KeepsSlack, \* realloc moves the bytes beyond the old size as well
  MayFail,    \* the allocator may return NULL
  CountsZero, \* the lengths the caller passes count the terminating zero
  Widths,     \* the lengths of the texts it appends
  MaxText     \* bound on the length of the whole text

VARIABLES
  dst,       \* the caller's string
  text,      \* what it has appended so far
  clobbered, \* a byte outside of the block was written
  failed     \* a realloc returned NULL

vars == <<dst, text, clobbered, failed>>

Zero == "zero"
Junk == "junk"
NULL == [size |-> 0, bytes |-> <<>>]

Usable(size) == ((size + Grain - 1) \div Grain) * Grain

(* A new block begins with the given bytes; the others are junk. *)
Block(size, bytes) ==
  [size  |-> size,
   bytes |-> [k \in 1 .. Usable(size) |-> IF k \in DOMAIN bytes THEN bytes[k] ELSE Junk]]

EmptyString == Block(1, <<Zero>>)

(* What realloc carries over. *)
Kept(b) == SubSeq(b.bytes, 1, IF KeepsSlack THEN Len(b.bytes) ELSE b.size)
Resized(b, size) == Block(size, Kept(b))

(* The append is written behind the first dstLen bytes, and the zero not   *)
(* behind the append but one further: outside of the size asked for.       *)
AppendsOneLater(b, dstLen, append) ==  \* mutant
  [k \in DOMAIN b.bytes |->
     IF k - dstLen - 1 \in DOMAIN append THEN append[k - dstLen - 1]
     ELSE IF k = dstLen + Len(append) + 2 THEN Zero ELSE b.bytes[k]]
Written(b, dstLen, append) ==
  [k \in DOMAIN b.bytes |->
     IF k - dstLen \in DOMAIN append THEN append[k - dstLen]
     ELSE IF k = dstLen + Len(append) + 2 THEN Zero ELSE b.bytes[k]]

Strconcat(dstLen, append) ==
  \/ MayFail /\ dst' = NULL /\ failed' = TRUE /\ UNCHANGED clobbered
  \/ LET size == dstLen + Len(append) + 1
         new  == Resized(dst, size)
     IN  /\ dst' = [new EXCEPT !.bytes = Written(new, dstLen, append)]
         /\ clobbered' = (clobbered \/ Usable(size) = size)
         /\ UNCHANGED failed

(* A text of a given length, the last byte of which tells where it ends. *)
Text(width) == [k \in 1 .. width |-> IF k = width THEN "last" ELSE "char"]

NewStrings == {EmptyString} \union (IF MayFail THEN {NULL} ELSE {})
Init == dst \in NewStrings /\ text = <<>> /\ clobbered = FALSE /\ failed = FALSE

AppendText(t) ==
  /\ Len(text) + Len(t) <= MaxText
  /\ IF CountsZero THEN Strconcat(Len(text) + 1, t \o <<Zero>>)
                   ELSE Strconcat(Len(text), t)
  /\ text' = text \o t

Next == \E w \in Widths : AppendText(Text(w))

Spec == Init /\ [][Next]_vars
-----------------------------------------------------------------------------
(* Properties. *)

(* The string C code reads from the block: up to the first zero, provided  *)
(* that no byte before it is junk and that there is a zero at all.         *)
ReadsAs(b, s) ==
  /\ Len(s) < Len(b.bytes) /\ b.bytes[Len(s) + 1] = Zero
  /\ \A k \in DOMAIN s : b.bytes[k] = s[k]

(* util/strings_test.c (lines 11, 13, 15) asserts after every strconcat    *)
(* that the result reads as everything appended so far; the callers that   *)
(* util/strings.h (lines 16, 17) describes, whose lengths count the zero,  *)
(* expect the same.  Neither get it.                                       *)
ReadsBack == failed \/ ReadsAs(dst, text)

(* The bytes of the text are all there, in order, exactly as long as no    *)
(* realloc failed: appends neither lose nor move them, and after a failure *)
(* no later call brings them back, though it may well return a string.     *)
Whole == Len(text) <= Len(dst.bytes) /\ \A k \in DOMAIN text : dst.bytes[k] = text[k]
WholeUnlessFailed == Whole <=> ~failed
=============================================================================
