--------------------------- MODULE FileSyncProofs ---------------------------
(***************************************************************************)
(* What the readers and writers of somefile.txt promise, for any number of *)
(* them and every length of their texts and buffers.                       *)
(***************************************************************************)
EXTENDS FileSync, SequenceTheorems, NaturalsInduction, WellFoundedInduction, TLAPS

LEMMA Bounds ==
  /\ Pieces \in Nat \ {0} /\ BufferSize \in Nat \ {0}
  /\ HiWriters \intersect LoWriters = {}
  /\ (HiWriters \union LoWriters) \intersect Readers = {}
  /\ Others \notin Processes
BY FileSyncAssumption

LEMMA TextIsASeq ==
  ASSUME NEW w \in HiWriters \union {Others}
  PROVE  /\ Text(w) \in Seq(AllPieces) /\ Len(Text(w)) = Pieces
         /\ \A k \in 1 .. Pieces : Text(w)[k] = <<w, k>>
<1>1. Pieces \in Nat
  BY Bounds
<1>2. \A k \in 1 .. Pieces : <<w, k>> \in AllPieces
  BY DEF AllPieces
<1> QED
  BY <1>1, <1>2 DEF Text

(* A part of a sequence of pieces. *)
LEMMA Part ==
  ASSUME NEW s \in Seq(AllPieces), NEW m \in Nat \ {0}, NEW n \in 0 .. Len(s)
  PROVE  /\ SubSeq(s, m, n) \in Seq(AllPieces)
         /\ Len(SubSeq(s, m, n)) = IF m <= n THEN n - m + 1 ELSE 0
         /\ \A k \in 1 .. n - m + 1 : SubSeq(s, m, n)[k] = s[m + k - 1]
<1>1. \A k \in m .. n : s[k] \in AllPieces
  <2> TAKE k \in m .. n
  <2>1. k \in 1 .. Len(s)
    OBVIOUS
  <2> QED
    BY <2>1, ElementOfSeq
<1>2. m \in Int /\ n \in Int
  BY SMT
<1> QED
  BY <1>1, <1>2, SubSeqProperties

-----------------------------------------------------------------------------
(* Type correctness. *)

LEMMA InitTypeOK == Init => TypeOK
<1> SUFFICES ASSUME Init PROVE TypeOK
  OBVIOUS
<1>1. <<>> \in Seq(AllPieces)
  BY EmptySeq
<1>2. Text(Others) \in Seq(AllPieces)
  BY TextIsASeq
<1>3. exists \in BOOLEAN /\ file \in Seq(AllPieces) /\ (~exists => file = <<>>)
  BY <1>1, <1>2 DEF Init
<1>4. /\ pc \in [Processes -> {"call", "fill", "fclose", "write", "read", "done", "killed"}]
      /\ code \in [Processes -> {Running, 0, 1, 2}]
      /\ broken \in [Processes -> {"no", "cut", "lost"}]
  BY DEF Init
<1>5. /\ buffer \in [HiWriters -> Seq(AllPieces)] /\ out \in [Readers -> Seq(AllPieces)]
      /\ seen \in [Readers -> Nat]
  BY <1>1 DEF Init
<1> QED
  BY <1>3, <1>4, <1>5 DEF TypeOK

Places == {"call", "fill", "fclose", "write", "read", "done", "killed"}
Codes == {Running, 0, 1, 2}

(* What a step does to the places and return values of the processes. *)
LEMMA MovesAreTyped ==
  ASSUME TypeOK, NEW p \in Processes, NEW value \in {0, 1, 2},
         NEW there \in {"fill", "fclose", "write", "read", "killed"},
         Goto(p, there) \/ Return(p, value)
  PROVE  pc' \in [Processes -> Places] /\ code' \in [Processes -> Codes]
<1>1. pc \in [Processes -> Places] /\ code \in [Processes -> Codes]
  BY DEF TypeOK, Places, Codes
<1>2. value \in Codes /\ there \in Places /\ "done" \in Places
  BY DEF Codes, Places
<1>3. CASE Goto(p, there)
  BY <1>1, <1>2, <1>3 DEF Goto
<1>4. CASE Return(p, value)
  BY <1>1, <1>2, <1>4 DEF Return
<1> QED
  BY <1>3, <1>4

LEMMA ProcessTypes ==
  /\ \A w \in HiWriters : w \in Processes /\ w \notin LoWriters /\ w \notin Readers
  /\ \A w \in LoWriters : w \in Processes /\ w \notin HiWriters /\ w \notin Readers
  /\ \A r \in Readers : r \in Processes /\ r \notin HiWriters /\ r \notin LoWriters
BY Bounds DEF Processes

(* TypeOK but for what MovesAreTyped is about. *)
DataOK ==
  /\ exists \in BOOLEAN /\ (~exists => file = <<>>)
  /\ file \in Seq(AllPieces)
  /\ buffer \in [HiWriters -> Seq(AllPieces)] /\ out \in [Readers -> Seq(AllPieces)]
  /\ seen \in [Readers -> Nat] /\ broken \in [Processes -> {"no", "cut", "lost"}]

LEMMA TypeOKParts ==
  TypeOK <=> DataOK /\ pc \in [Processes -> Places] /\ code \in [Processes -> Codes]
BY DEF TypeOK, DataOK, Places, Codes

(* The buffer of a writer holds pieces of its own, and in the loop some    *)
(* are still to come.  A file that is opened exists.                       *)
Filling ==
  \A w \in HiWriters :
    /\ pc[w] = "call" => buffer[w] = <<>>
    /\ pc[w] = "fill" => Len(buffer[w]) < Pieces
    /\ pc[w] \in {"fill", "fclose"} => exists
    /\ \A i \in 1 .. Len(buffer[w]) : buffer[w][i][1] = w
LEMMA PieceIsOwn ==
  ASSUME NEW w \in HiWriters, TypeOK, Filling, pc[w] = "fill"
  PROVE  /\ NextPiece(w) \in AllPieces /\ NextPiece(w)[1] = w
         /\ Len(buffer[w]) \in 0 .. Pieces - 1
<1>1. Len(buffer[w]) \in Nat /\ Len(buffer[w]) < Pieces
  BY LenProperties DEF TypeOK, Filling
<1>2. Pieces \in Nat
  BY Bounds
<1>3. Len(buffer[w]) + 1 \in 1 .. Pieces
  BY <1>1, <1>2
<1>4. NextPiece(w) = <<w, Len(buffer[w]) + 1>>
  BY <1>3, TextIsASeq DEF NextPiece
<1> QED
  BY <1>1, <1>2, <1>3, <1>4 DEF AllPieces

(* Invariants of the writers. *)
WInv == TypeOK /\ Filling

LEMMA InitWInv == Init => WInv
<1> SUFFICES ASSUME Init PROVE TypeOK /\ Filling
  BY DEF WInv
<1>1. \A w \in HiWriters : pc[w] = "call" /\ buffer[w] = <<>>
  BY ProcessTypes DEF Init
<1>2. Len(<<>>) = 0
  BY EmptySeq
<1> QED
  BY <1>1, <1>2, InitTypeOK DEF Filling

(* TypeOK of the next state, in the two parts. *)
LEMMA TypedAgain ==
  ASSUME DataOK', pc' \in [Processes -> Places], code' \in [Processes -> Codes]
  PROVE  TypeOK'
BY DEF TypeOK, DataOK, Places, Codes

(* A process moves and the data stays. *)
LEMMA MovingKeeps ==
  ASSUME WInv, NEW p \in Processes, NEW value \in {0, 1, 2},
         NEW there \in {"write", "read", "killed"},
         Goto(p, there) \/ Return(p, value),
         UNCHANGED <<exists, file, buffer, out, seen>>,
         broken' = broken \/ Breaks(p, "lost")
  PROVE  WInv'
<1>1. TypeOK /\ Filling /\ DataOK
  BY TypeOKParts DEF WInv
<1>2. DataOK'
  BY <1>1 DEF DataOK, Breaks
<1>3. pc' \in [Processes -> Places] /\ code' \in [Processes -> Codes]
  BY <1>1, MovesAreTyped
<1>4. \A w \in HiWriters : pc'[w] = pc[w] \/ pc'[w] \in {"write", "read", "killed", "done"}
  BY <1>1, ProcessTypes DEF TypeOK, Goto, Return
<1>5. Filling'
  BY <1>1, <1>4 DEF Filling
<1> QED
  BY <1>2, <1>3, <1>5, TypedAgain DEF WInv

LEMMA OpenKeeps ==
  ASSUME WInv, NEW w \in HiWriters, HiOpen(w)
  PROVE  WInv'
<1>1. TypeOK /\ Filling /\ DataOK /\ w \in Processes /\ Pieces \in Nat \ {0}
  BY TypeOKParts, ProcessTypes, Bounds DEF WInv
<1>2. DataOK'
  BY <1>1 DEF DataOK, HiOpen
<1>3. Goto(w, "fill")
  BY DEF HiOpen
<1>4. pc' \in [Processes -> Places] /\ code' \in [Processes -> Codes]
  BY <1>1, <1>3, MovesAreTyped
<1>5. buffer[w] = <<>> /\ Len(<<>>) = 0
  BY <1>1, EmptySeq DEF HiOpen, At, Filling
<1>6. /\ pc'[w] = "fill" /\ \A v \in HiWriters : v # w => pc'[v] = pc[v]
  BY <1>1, <1>3, ProcessTypes DEF TypeOK, Goto
<1>7. buffer' = buffer /\ exists' = TRUE
  BY DEF HiOpen
<1>8. Filling'
  BY <1>1, <1>5, <1>6, <1>7 DEF Filling
<1> QED
  BY <1>2, <1>4, <1>8, TypedAgain DEF WInv

LEMMA FwriteKeeps ==
  ASSUME WInv, NEW w \in HiWriters, Fwrite(w)
  PROVE  WInv'
<1> DEFINE more == Append(buffer[w], NextPiece(w))
<1>1. /\ TypeOK /\ Filling /\ DataOK /\ w \in Processes /\ Pieces \in Nat \ {0}
      /\ pc[w] = "fill" /\ buffer[w] \in Seq(AllPieces)
  BY TypeOKParts, ProcessTypes, Bounds DEF WInv, Fwrite, At, DataOK
<1>2. /\ NextPiece(w) \in AllPieces /\ NextPiece(w)[1] = w
      /\ Len(buffer[w]) \in 0 .. Pieces - 1
  BY <1>1, PieceIsOwn
<1>3. /\ more \in Seq(AllPieces) /\ Len(more) = Len(buffer[w]) + 1
      /\ \A i \in 1 .. Len(buffer[w]) : more[i] = buffer[w][i]
      /\ more[Len(buffer[w]) + 1] = NextPiece(w)
  BY <1>1, <1>2, AppendProperties
<1>4. \A i \in 1 .. Len(more) : more[i][1] = w
  <2> TAKE i \in 1 .. Len(more)
  <2>1. CASE i = Len(buffer[w]) + 1
    BY <2>1, <1>2, <1>3
  <2>2. CASE i # Len(buffer[w]) + 1
    <3>1. i \in 1 .. Len(buffer[w])
      BY <2>2, <1>2, <1>3
    <3> QED
      BY <3>1, <1>1, <1>3 DEF Filling
  <2> QED
    BY <2>1, <2>2
<1> HIDE DEF more
<1>5. /\ buffer' = [buffer EXCEPT ![w] = more]
      /\ UNCHANGED <<exists, file, out, seen, broken>>
  BY DEF Fwrite, more
<1>6. /\ DataOK' /\ buffer'[w] = more
      /\ \A v \in HiWriters : v # w => buffer'[v] = buffer[v]
  BY <1>1, <1>3, <1>5 DEF DataOK
<1>7. /\ Goto(w, "fill") \/ Goto(w, "fclose")
      /\ Goto(w, "fill") => Len(buffer[w]) + 1 < Pieces \/ pc'[w] # "fill"
  BY <1>1 DEF Fwrite, Goto, TypeOK
<1>8. pc' \in [Processes -> Places] /\ code' \in [Processes -> Codes]
  BY <1>1, <1>7, MovesAreTyped
<1>9. /\ pc'[w] \in {"fill", "fclose"} /\ (pc'[w] = "fill" => Len(more) < Pieces)
      /\ \A v \in HiWriters : v # w => pc'[v] = pc[v]
  BY <1>1, <1>3, <1>7, ProcessTypes DEF TypeOK, Goto
<1>10. Filling'
  <2> SUFFICES ASSUME NEW v \in HiWriters
               PROVE  /\ pc'[v] = "call" => buffer'[v] = <<>>
                      /\ pc'[v] = "fill" => Len(buffer'[v]) < Pieces
                      /\ pc'[v] \in {"fill", "fclose"} => exists'
                      /\ \A i \in 1 .. Len(buffer'[v]) : buffer'[v][i][1] = v
    BY DEF Filling
  <2>1. CASE v = w
    BY <2>1, <1>1, <1>4, <1>5, <1>6, <1>9 DEF Filling
  <2>2. CASE v # w
    BY <2>2, <1>1, <1>5, <1>6, <1>9 DEF Filling
  <2> QED
    BY <2>1, <2>2
<1> QED
  BY <1>6, <1>8, <1>10, TypedAgain DEF WInv

(* What Flush adds to the file and what it leaves in the buffer. *)
Flushed(w, added, left) ==
  /\ file' = file \o added
  /\ \A i \in 1 .. Len(added) : added[i][1] = w
  /\ buffer' = [buffer EXCEPT ![w] = left]
  /\ \A i \in 1 .. Len(left) : left[i][1] = w
  /\ added \o left = buffer[w]
  /\ left = <<>> \/ Breaks(w, "cut")
  /\ Breaks(w, "cut") \/ UNCHANGED broken

LEMMA FlushAdds ==
  ASSUME WInv, NEW w \in HiWriters, Flush(w)
  PROVE  \E added, left \in Seq(AllPieces) : Flushed(w, added, left)
<1>1. /\ TypeOK /\ Filling /\ buffer \in [HiWriters -> Seq(AllPieces)]
      /\ buffer[w] \in Seq(AllPieces) /\ Len(buffer[w]) \in Nat
  BY LenProperties DEF WInv, TypeOK
<1>2. PICK n \in 1 .. Len(buffer[w]) :
        /\ file' = file \o SubSeq(buffer[w], 1, n)
        /\ buffer' = [buffer EXCEPT ![w] = IF n = Len(@) THEN <<>> ELSE Unwritten(w, n)]
        /\ IF n < Len(buffer[w]) THEN Breaks(w, "cut") ELSE UNCHANGED broken
  BY DEF Flush
<1> DEFINE added == SubSeq(buffer[w], 1, n)
           rest == SubSeq(buffer[w], n + 1, Len(buffer[w]))
           left == IF n = Len(buffer[w]) THEN <<>> ELSE rest
<1>3. n \in 0 .. Len(buffer[w]) /\ n + 1 \in Nat \ {0} /\ n \in Nat
  BY <1>1
<1>4. /\ added \in Seq(AllPieces) /\ Len(added) = n
      /\ \A i \in 1 .. n : added[i] = buffer[w][i]
  <2>1. /\ added \in Seq(AllPieces)
        /\ Len(added) = IF 1 <= n THEN n - 1 + 1 ELSE 0
        /\ \A i \in 1 .. n - 1 + 1 : added[i] = buffer[w][1 + i - 1]
    BY <1>1, <1>3, Part
  <2> HIDE DEF added
  <2> QED
    BY <2>1, <1>3
<1>5. /\ rest \in Seq(AllPieces) /\ Len(rest) \in 0 .. Len(buffer[w]) - n
      /\ \A i \in 1 .. Len(buffer[w]) - n : rest[i] = buffer[w][n + i]
  <2>1. Len(buffer[w]) \in 0 .. Len(buffer[w])
    BY <1>1
  <2>2. /\ rest \in Seq(AllPieces)
        /\ Len(rest) = IF n + 1 <= Len(buffer[w]) THEN Len(buffer[w]) - (n + 1) + 1 ELSE 0
        /\ \A i \in 1 .. Len(buffer[w]) - (n + 1) + 1 : rest[i] = buffer[w][(n + 1) + i - 1]
    BY <1>1, <1>3, <2>1, Part
  <2> HIDE DEF rest
  <2> QED
    BY <2>2, <1>1, <1>2
<1>6. \A i \in 1 .. Len(buffer[w]) : buffer[w][i][1] = w
  BY <1>1 DEF Filling
<1>7. \A i \in 1 .. Len(added) : added[i][1] = w
  <2> HIDE DEF added
  <2> TAKE i \in 1 .. Len(added)
  <2>1. i \in 1 .. n /\ i \in 1 .. Len(buffer[w])
    BY <1>1, <1>2, <1>4
  <2> QED
    BY <2>1, <1>4, <1>6
<1>8. \A i \in 1 .. Len(rest) : rest[i][1] = w
  <2> HIDE DEF rest
  <2> TAKE i \in 1 .. Len(rest)
  <2>1. n + i \in 1 .. Len(buffer[w]) /\ i \in 1 .. Len(buffer[w]) - n
    BY <1>1, <1>2, <1>5
  <2> QED
    BY <2>1, <1>5, <1>6
<1>9. left \in Seq(AllPieces) /\ \A i \in 1 .. Len(left) : left[i][1] = w
  <2> HIDE DEF rest
  <2>1. <<>> \in Seq(AllPieces) /\ Len(<<>>) = 0
    BY EmptySeq
  <2> QED
    BY <2>1, <1>5, <1>8
<1>10. file' = file \o added /\ buffer' = [buffer EXCEPT ![w] = left]
  BY <1>1, <1>2 DEF Unwritten
<1>11. added \o left = buffer[w]
  <2>1. CASE n = Len(buffer[w])
    <3>1. added = buffer[w] /\ left = <<>>
      BY <2>1, <1>1, SubSeqFull
    <3> HIDE DEF added, left
    <3> QED
      BY <3>1, <1>1, ConcatEmptySeq
  <2>2. CASE n # Len(buffer[w])
    <3>1. 1 \in 1 .. Len(buffer[w]) + 1 /\ n \in 1 - 1 .. Len(buffer[w])
          /\ Len(buffer[w]) \in n .. Len(buffer[w])
      BY <1>1, <1>2
    <3>2. added \o rest = SubSeq(buffer[w], 1, Len(buffer[w]))
      BY <3>1, <1>1, ConcatAdjacentSubSeq
    <3>3. SubSeq(buffer[w], 1, Len(buffer[w])) = buffer[w]
      BY <1>1, SubSeqFull
    <3> QED
      BY <2>2, <3>2, <3>3
  <2> QED
    BY <2>1, <2>2
<1>12. /\ left = <<>> \/ Breaks(w, "cut")
       /\ Breaks(w, "cut") \/ UNCHANGED broken
  BY <1>1, <1>2
<1> HIDE DEF added, left
<1> QED
  BY <1>4, <1>7, <1>9, <1>10, <1>11, <1>12 DEF Flushed

LEMMA FlushKeeps ==
  ASSUME WInv, NEW w \in HiWriters, Flush(w) \/ FlushFails(w)
  PROVE  WInv'
<1>1. /\ TypeOK /\ Filling /\ DataOK /\ w \in Processes /\ exists = TRUE
      /\ pc[w] = "fclose" /\ UNCHANGED <<exists, pc, code, out, seen>>
  BY TypeOKParts, ProcessTypes DEF WInv, Flush, FlushFails, At, Filling, DataOK
<1>2. PICK left \in Seq(AllPieces) :
        /\ buffer' = [buffer EXCEPT ![w] = left] /\ \A i \in 1 .. Len(left) : left[i][1] = w
        /\ file' \in Seq(AllPieces)
  <2>1. CASE Flush(w)
    <3>1. PICK added \in Seq(AllPieces), left \in Seq(AllPieces) : Flushed(w, added, left)
      BY <2>1, FlushAdds
    <3>2. file \o added \in Seq(AllPieces)
      BY <1>1, ConcatProperties DEF DataOK
    <3> QED
      BY <3>1, <3>2 DEF Flushed
  <2>2. CASE FlushFails(w)
    <3>1. <<>> \in Seq(AllPieces) /\ Len(<<>>) = 0
      BY EmptySeq
    <3>2. buffer' = [buffer EXCEPT ![w] = <<>>] /\ file' \in Seq(AllPieces)
      BY <2>2, <1>1 DEF FlushFails, DataOK
    <3>3. \A i \in 1 .. Len(<<>>) : <<>>[i][1] = w
      BY <3>1
    <3> WITNESS <<>> \in Seq(AllPieces)
    <3> QED
      BY <3>2, <3>3
  <2> QED
    BY <2>1, <2>2
<1>3. /\ DataOK' /\ buffer'[w] = left
      /\ \A v \in HiWriters : v # w => buffer'[v] = buffer[v]
  <2>1. broken' \in [Processes -> {"no", "cut", "lost"}]
    <3>1. broken' = broken \/ Breaks(w, "cut") \/ Breaks(w, "lost")
      BY DEF Flush, FlushFails
    <3> QED
      BY <3>1, <1>1 DEF Breaks, DataOK
  <2> QED
    BY <2>1, <1>1, <1>2 DEF DataOK
<1>4. Filling'
  <2> SUFFICES ASSUME NEW v \in HiWriters
               PROVE  /\ pc'[v] = "call" => buffer'[v] = <<>>
                      /\ pc'[v] = "fill" => Len(buffer'[v]) < Pieces
                      /\ pc'[v] \in {"fill", "fclose"} => exists'
                      /\ \A i \in 1 .. Len(buffer'[v]) : buffer'[v][i][1] = v
    BY DEF Filling
  <2>1. CASE v = w
    BY <2>1, <1>1, <1>2, <1>3
  <2>2. CASE v # w
    BY <2>2, <1>1, <1>2, <1>3 DEF Filling
  <2> QED
    BY <2>1, <2>2
<1>5. pc' \in [Processes -> Places] /\ code' \in [Processes -> Codes]
  BY <1>1, TypeOKParts
<1> QED
  BY <1>3, <1>4, <1>5, TypedAgain DEF WInv

(* The steps of a reader that print. *)
LEMMA ReadPrints ==
  ASSUME TypeOK, NEW r \in Readers, Read(r)
  PROVE  \E n \in 1 .. BufferSize :
           /\ Len(out[r]) + n <= Len(file)
           /\ SubSeq(file, Len(out[r]) + 1, Len(out[r]) + n) \in Seq(AllPieces)
           /\ out' = [out EXCEPT ![r] = @ \o SubSeq(file, Len(@) + 1, Len(@) + n)]
<1>1. PICK n \in 1 .. BufferSize :
        /\ n <= Available(r)
        /\ out' = [out EXCEPT ![r] = @ \o SubSeq(file, Len(@) + 1, Len(@) + n)]
  BY DEF Read
<1>2. /\ out[r] \in Seq(AllPieces) /\ file \in Seq(AllPieces)
      /\ Len(out[r]) \in Nat /\ Len(file) \in Nat /\ n \in Nat
  BY LenProperties DEF TypeOK
<1>3. /\ Len(out[r]) + n <= Len(file)
      /\ Len(out[r]) + 1 \in Nat \ {0} /\ Len(out[r]) + n \in 0 .. Len(file)
  BY <1>1, <1>2 DEF Available
<1>4. SubSeq(file, Len(out[r]) + 1, Len(out[r]) + n) \in Seq(AllPieces)
  BY <1>2, <1>3, Part
<1> QED
  BY <1>1, <1>3, <1>4

LEMMA ReadingKeeps ==
  ASSUME WInv, NEW r \in Readers, Reading(r)
  PROVE  WInv'
<1>1. TypeOK /\ Filling /\ DataOK /\ r \in Processes
  BY TypeOKParts, ProcessTypes DEF WInv
<1>2. CASE OpenFails(r, 2) \/ ReadEnds(r) \/ ReadFails(r)
  <2>1. /\ Return(r, 2) \/ Return(r, 0)
        /\ UNCHANGED <<exists, file, buffer, out, seen>>
        /\ broken' = broken \/ Breaks(r, "lost")
    BY <1>2 DEF OpenFails, ReadEnds, ReadFails
  <2> QED
    BY <2>1, <1>1, MovingKeeps
<1>3. CASE ReaderOpen(r)
  <2>1. DataOK'
    <3>1. Len(file) \in Nat
      BY <1>1, LenProperties DEF DataOK
    <3> QED
      BY <3>1, <1>1, <1>3 DEF ReaderOpen, DataOK
  <2>2. Goto(r, "read")
    BY <1>3 DEF ReaderOpen
  <2>3. pc' \in [Processes -> Places] /\ code' \in [Processes -> Codes]
    BY <1>1, <2>2, MovesAreTyped
  <2>4. \A w \in HiWriters : pc'[w] = pc[w]
    BY <1>1, <2>2, ProcessTypes DEF TypeOK, Goto
  <2>5. Filling'
    BY <1>1, <1>3, <2>4 DEF Filling, ReaderOpen
  <2> QED
    BY <2>1, <2>3, <2>5, TypedAgain DEF WInv
<1>4. CASE Read(r)
  <2>1. PICK n \in 1 .. BufferSize :
          /\ SubSeq(file, Len(out[r]) + 1, Len(out[r]) + n) \in Seq(AllPieces)
          /\ out' = [out EXCEPT ![r] = @ \o SubSeq(file, Len(@) + 1, Len(@) + n)]
    BY <1>1, <1>4, ReadPrints
  <2>2. out[r] \o SubSeq(file, Len(out[r]) + 1, Len(out[r]) + n) \in Seq(AllPieces)
    BY <1>1, <2>1, ConcatProperties DEF DataOK
  <2>3. UNCHANGED <<exists, file, pc, code, buffer, seen, broken>>
    BY <1>4 DEF Read
  <2>4. DataOK' /\ Filling'
    BY <1>1, <2>1, <2>2, <2>3 DEF DataOK, Filling
  <2>5. pc' \in [Processes -> Places] /\ code' \in [Processes -> Codes]
    BY <1>1, <2>3, TypeOKParts
  <2> QED
    BY <2>4, <2>5, TypedAgain DEF WInv
<1> QED
  BY <1>2, <1>3, <1>4 DEF Reading

LEMMA StepKeepsWInv ==
  ASSUME WInv, [Next]_vars
  PROVE  WInv'
<1>1. ASSUME NEW w \in HiWriters, WriteSyncHi(w) PROVE WInv'
  <2>1. CASE OpenFails(w, 1) \/ HiReturn(w)
    <3>1. /\ Return(w, 1) \/ Return(w, 0)
          /\ UNCHANGED <<exists, file, buffer, out, seen, broken>>
      BY <2>1 DEF OpenFails, HiReturn
    <3> QED
      BY <3>1, ProcessTypes, MovingKeeps
  <2> QED
    BY <1>1, <2>1, OpenKeeps, FwriteKeeps, FlushKeeps DEF WriteSyncHi
<1>2. ASSUME NEW w \in LoWriters, WriteAsyncLo(w) PROVE WInv'
  <2>1. file \in Seq(AllPieces)
    BY DEF WInv, TypeOK
  <2>2. file \o <<>> = file
    BY <2>1, ConcatEmptySeq
  <2>3. /\ Return(w, 1) \/ Return(w, 0) \/ Goto(w, "write")
        /\ UNCHANGED <<exists, file, buffer, out, seen, broken>>
    BY <1>2, <2>2 DEF WriteAsyncLo, OpenFails, LoOpen, LoWrites, LoLands
  <2> QED
    BY <2>3, ProcessTypes, MovingKeeps
<1>3. ASSUME NEW p \in Processes, Kill(p) PROVE WInv'
  <2>1. Goto(p, "killed") /\ UNCHANGED <<exists, file, buffer, out, seen, broken>>
    BY <1>3 DEF Kill
  <2> QED
    BY <2>1, MovingKeeps
<1>4. CASE UNCHANGED vars
  BY <1>4 DEF vars, WInv, TypeOK, Filling, AllPieces
<1> QED
  BY <1>1, <1>2, <1>3, <1>4, ReadingKeeps
  DEF Next, ReadSyncLo, ReadAsyncLo, AllEnded

(* TypeOK of FileSync, for any number of processes, every length of the    *)
(* texts and every set of failures.                                        *)
THEOREM TypeCorrect == Spec => []TypeOK
<1>1. WInv => TypeOK
  BY DEF WInv
<1> QED
  BY InitWInv, StepKeepsWInv, <1>1, PTL DEF Spec

-----------------------------------------------------------------------------
(* The file only grows, at its end. *)

LEMMA FileGrows ==
  ASSUME WInv, [Next]_vars
  PROVE  \E added \in Seq(AllPieces) : file' = file \o added
<1>1. TypeOK /\ file \in Seq(AllPieces)
  BY DEF WInv, TypeOK
<1>2. <<>> \in Seq(AllPieces) /\ file \o <<>> = file /\ Len(<<>>) = 0
  BY <1>1, ConcatEmptySeq, EmptySeq
<1>3. CASE file' = file
  <2> WITNESS <<>> \in Seq(AllPieces)
  <2> QED
    BY <1>2, <1>3
<1>4. CASE \E w \in HiWriters : Flush(w)
  <2>1. PICK w \in HiWriters : Flush(w)
    BY <1>4
  <2>2. PICK added \in Seq(AllPieces), left \in Seq(AllPieces) : Flushed(w, added, left)
    BY <2>1, FlushAdds
  <2> WITNESS added \in Seq(AllPieces)
  <2> QED
    BY <2>2 DEF Flushed
<1>5. file' = file \/ \E w \in HiWriters : Flush(w)
  BY <1>2
  DEF Next, vars, WriteSyncHi, OpenFails, HiOpen, Fwrite, FlushFails, HiReturn,
      WriteAsyncLo, LoOpen, LoWrites, LoLands, ReadSyncLo, ReadAsyncLo, Reading,
      ReaderOpen, Read, ReadEnds, ReadFails, Kill, AllEnded
<1> QED
  BY <1>3, <1>4, <1>5

(* No writer of Init has a piece in the file. *)
LEMMA InitHasNoPiece ==
  ASSUME Init, NEW w \in HiWriters, NEW k \in DOMAIN file
  PROVE  file[k][1] # w
<1> SUFFICES ASSUME file[k][1] = w PROVE FALSE
  OBVIOUS
<1>1. w # Others
  BY Bounds DEF Processes
<1>2. CASE file = <<>>
  <2>1. DOMAIN <<>> = {}
    BY SMT
  <2> QED
    BY <1>2, <2>1
<1>3. CASE file = Text(Others)
  <2>1. DOMAIN file = 1 .. Pieces /\ file[k] = <<Others, k>>
    BY <1>3 DEF Text
  <2> QED
    BY <1>1, <2>1
<1> QED
  BY <1>2, <1>3 DEF Init

-----------------------------------------------------------------------------
(* The readers. *)

LEMMA PrefixByElements ==
  ASSUME NEW s \in Seq(AllPieces), NEW t \in Seq(AllPieces)
  PROVE  IsPrefix(s, t) <=>
           Len(s) <= Len(t) /\ \A i \in 1 .. Len(s) : s[i] = t[i]
<1>1. Len(s) \in Nat /\ Len(t) \in Nat
  BY LenProperties
<1>2. SubSeq(s, 1, Len(s)) = s
  BY SubSeqFull
<1>3. ASSUME Len(s) <= Len(t)
      PROVE  /\ SubSeq(t, 1, Len(s)) \in Seq(AllPieces)
             /\ Len(SubSeq(t, 1, Len(s))) = Len(s)
             /\ \A i \in 1 .. Len(s) : SubSeq(t, 1, Len(s))[i] = t[i]
  <2> DEFINE u == SubSeq(t, 1, Len(s))
  <2>1. Len(s) \in 0 .. Len(t) /\ 1 \in Nat \ {0}
    BY <1>1, <1>3
  <2>2. /\ u \in Seq(AllPieces) /\ Len(u) = IF 1 <= Len(s) THEN Len(s) - 1 + 1 ELSE 0
        /\ \A i \in 1 .. Len(s) - 1 + 1 : u[i] = t[1 + i - 1]
    BY <2>1, Part
  <2> HIDE DEF u
  <2>3. u \in Seq(AllPieces) /\ Len(u) = Len(s) /\ \A i \in 1 .. Len(s) : u[i] = t[i]
    BY <2>2, <1>1
  <2> QED
    BY <2>3 DEF u
<1>4. ASSUME Len(s) <= Len(t), \A i \in 1 .. Len(s) : s[i] = t[i]
      PROVE  s = SubSeq(t, 1, Len(s))
  BY <1>3, <1>4, SeqEqual
<1> QED
  BY <1>2, <1>3, <1>4 DEF IsPrefix

LEMMA PrefixOfMore ==
  ASSUME NEW s \in Seq(AllPieces), NEW t \in Seq(AllPieces), NEW u \in Seq(AllPieces),
         IsPrefix(s, t)
  PROVE  IsPrefix(s, t \o u)
<1>1. /\ t \o u \in Seq(AllPieces) /\ Len(t \o u) = Len(t) + Len(u)
      /\ \A i \in 1 .. Len(t) + Len(u) : (t \o u)[i] = IF i <= Len(t) THEN t[i] ELSE u[i - Len(t)]
  BY ConcatProperties
<1>2. Len(s) \in Nat /\ Len(t) \in Nat /\ Len(u) \in Nat
  BY LenProperties
<1>3. Len(s) <= Len(t) /\ \A i \in 1 .. Len(s) : s[i] = t[i]
  BY PrefixByElements
<1> DEFINE v == t \o u
<1> HIDE DEF v
<1>4. \A i \in 1 .. Len(s) : v[i] = s[i]
  BY <1>1, <1>2, <1>3 DEF v
<1>5. Len(s) <= Len(v) /\ v \in Seq(AllPieces)
  BY <1>1, <1>2, <1>3 DEF v
<1>6. IsPrefix(s, v)
  BY <1>4, <1>5, PrefixByElements
<1> QED
  BY <1>6 DEF v

LEMMA PrefixReadsOn ==
  ASSUME NEW s \in Seq(AllPieces), NEW t \in Seq(AllPieces), NEW n \in Nat \ {0},
         IsPrefix(s, t), Len(s) + n <= Len(t)
  PROVE  /\ IsPrefix(s \o SubSeq(t, Len(s) + 1, Len(s) + n), t)
         /\ Len(s \o SubSeq(t, Len(s) + 1, Len(s) + n)) >= Len(s)
<1>1. Len(s) \in Nat /\ Len(t) \in Nat
  BY LenProperties
<1>2. Len(s) + 1 \in Nat \ {0} /\ Len(s) + n \in 0 .. Len(t)
  BY <1>1
<1> DEFINE u == SubSeq(t, Len(s) + 1, Len(s) + n)
           v == s \o u
<1>3. /\ u \in Seq(AllPieces)
      /\ Len(u) = IF Len(s) + 1 <= Len(s) + n THEN (Len(s) + n) - (Len(s) + 1) + 1 ELSE 0
      /\ \A i \in 1 .. (Len(s) + n) - (Len(s) + 1) + 1 : u[i] = t[(Len(s) + 1) + i - 1]
  BY <1>2, Part
<1> HIDE DEF u
<1>4. Len(u) = n /\ \A i \in 1 .. n : u[i] = t[Len(s) + i]
  BY <1>1, <1>3
<1>5. /\ v \in Seq(AllPieces) /\ Len(v) = Len(s) + n
      /\ \A i \in 1 .. Len(s) + n : v[i] = IF i <= Len(s) THEN s[i] ELSE u[i - Len(s)]
  <2>1. u \in Seq(AllPieces) /\ Len(u) = n
    BY <1>3, <1>4
  <2>2. /\ s \o u \in Seq(AllPieces) /\ Len(s \o u) = Len(s) + Len(u)
        /\ \A i \in 1 .. Len(s) + Len(u) :
             (s \o u)[i] = IF i <= Len(s) THEN s[i] ELSE u[i - Len(s)]
    BY <2>1, ConcatProperties
  <2> QED
    BY <2>1, <2>2
<1> HIDE DEF v
<1>6. \A i \in 1 .. Len(s) : s[i] = t[i]
  BY PrefixByElements
<1>7. \A i \in 1 .. Len(v) : v[i] = t[i]
  <2> TAKE i \in 1 .. Len(v)
  <2>1. CASE i <= Len(s)
    BY <2>1, <1>1, <1>5, <1>6
  <2>2. CASE ~(i <= Len(s))
    <3>1. i - Len(s) \in 1 .. n /\ Len(s) + (i - Len(s)) = i
      BY <2>2, <1>1, <1>5
    <3> QED
      BY <3>1, <2>2, <1>1, <1>4, <1>5
  <2> QED
    BY <2>1, <2>2
<1>8. IsPrefix(v, t) /\ Len(v) >= Len(s)
  BY <1>1, <1>5, <1>7, PrefixByElements
<1> QED
  BY <1>8 DEF u, v

(* What a step means to a reader. *)
LEMMA StepOfAReader ==
  ASSUME TypeOK, [Next]_vars, NEW r \in Readers
  PROVE  \/ out'[r] = out[r]
         \/ /\ file' = file
            /\ \E n \in 1 .. BufferSize :
                 /\ Len(out[r]) + n <= Len(file)
                 /\ out'[r] = out[r] \o SubSeq(file, Len(out[r]) + 1, Len(out[r]) + n)
<1>1. out' = out \/ \E q \in Readers : Read(q)
  BY DEF Next, vars, WriteSyncHi, OpenFails, HiOpen, Fwrite, Flush, FlushFails, HiReturn,
      WriteAsyncLo, LoOpen, LoWrites, ReadSyncLo, ReadAsyncLo, Reading, ReaderOpen,
      ReadEnds, ReadFails, Kill, AllEnded
<1>2. ASSUME NEW q \in Readers, Read(q)
      PROVE  \/ out'[r] = out[r]
             \/ /\ file' = file
                /\ \E n \in 1 .. BufferSize :
                     /\ Len(out[r]) + n <= Len(file)
                     /\ out'[r] = out[r] \o SubSeq(file, Len(out[r]) + 1, Len(out[r]) + n)
  <2>1. PICK n \in 1 .. BufferSize :
          /\ Len(out[q]) + n <= Len(file)
          /\ out' = [out EXCEPT ![q] = @ \o SubSeq(file, Len(@) + 1, Len(@) + n)]
    BY <1>2, ReadPrints
  <2>2. file' = file /\ out \in [Readers -> Seq(AllPieces)]
    BY <1>2 DEF Read, TypeOK
  <2> QED
    BY <2>1, <2>2
<1> QED
  BY <1>1, <1>2

LEMMA StepKeepsPrefix ==
  ASSUME WInv, ReadersPrintThePrefix, [Next]_vars
  PROVE  ReadersPrintThePrefix' /\ \A r \in Readers : Len(out'[r]) >= Len(out[r])
<1>1. TypeOK /\ file \in Seq(AllPieces)
  BY DEF WInv, TypeOK
<1> SUFFICES ASSUME NEW r \in Readers
             PROVE  IsPrefix(out'[r], file') /\ Len(out'[r]) >= Len(out[r])
  BY DEF ReadersPrintThePrefix
<1>2. out[r] \in Seq(AllPieces) /\ Len(out[r]) \in Nat /\ IsPrefix(out[r], file)
  BY <1>1, LenProperties DEF TypeOK, ReadersPrintThePrefix
<1>3. CASE out'[r] = out[r]
  <2>1. PICK added \in Seq(AllPieces) : file' = file \o added
    BY FileGrows
  <2>2. IsPrefix(out[r], file \o added)
    BY <2>1, <1>1, <1>2, PrefixOfMore
  <2> QED
    BY <2>1, <2>2, <1>2, <1>3
<1>4. CASE /\ file' = file
           /\ \E n \in 1 .. BufferSize :
                /\ Len(out[r]) + n <= Len(file)
                /\ out'[r] = out[r] \o SubSeq(file, Len(out[r]) + 1, Len(out[r]) + n)
  <2>1. PICK n \in 1 .. BufferSize :
          /\ Len(out[r]) + n <= Len(file)
          /\ out'[r] = out[r] \o SubSeq(file, Len(out[r]) + 1, Len(out[r]) + n)
    BY <1>4
  <2>2. n \in Nat \ {0}
    BY Bounds
  <2> QED
    BY <2>1, <2>2, <1>1, <1>2, <1>4, PrefixReadsOn
<1> QED
  BY <1>1, <1>3, <1>4, StepOfAReader

LEMMA InitPrefix == Init => ReadersPrintThePrefix
<1> SUFFICES ASSUME Init, NEW r \in Readers PROVE IsPrefix(out[r], file)
  BY DEF ReadersPrintThePrefix
<1>1. file \in Seq(AllPieces) /\ Len(file) \in Nat
  BY InitTypeOK, LenProperties DEF TypeOK
<1>2. out[r] = <<>> /\ <<>> \in Seq(AllPieces) /\ Len(<<>>) = 0
  BY EmptySeq DEF Init
<1>3. IsPrefix(<<>>, file)
  <2>1. Len(<<>>) <= Len(file) /\ \A i \in 1 .. Len(<<>>) : <<>>[i] = file[i]
    BY <1>1, <1>2
  <2>2. ASSUME NEW s \in Seq(AllPieces), Len(s) <= Len(file),
               \A i \in 1 .. Len(s) : s[i] = file[i]
        PROVE  IsPrefix(s, file)
    BY <1>1, <2>2, PrefixByElements
  <2> QED
    BY <2>1, <2>2, <1>2, Zenon
<1> QED
  BY <1>2, <1>3

(* ReadersPrintThePrefix of FileSync, for any number of readers and        *)
(* writers and every size of a buffer.                                     *)
THEOREM PrefixIsPrinted == Spec => []ReadersPrintThePrefix
BY InitWInv, StepKeepsWInv, InitPrefix, StepKeepsPrefix, PTL DEF Spec

(* What a reader saw is still in the file, and until it returns 0 it has   *)
(* no code.                                                                *)
Seeing ==
  \A r \in Readers : /\ seen[r] <= Len(file)
                     /\ pc[r] \in {"call", "read"} => code[r] = Running

RInv == WInv /\ ReadersPrintThePrefix /\ Seeing

LEMMA StepKeepsSeeing ==
  ASSUME RInv, [Next]_vars
  PROVE  Seeing'
<1>1. /\ WInv /\ TypeOK /\ Seeing /\ file \in Seq(AllPieces) /\ Len(file) \in Nat
      /\ seen \in [Readers -> Nat]
  BY LenProperties DEF RInv, WInv, TypeOK
<1>2. Len(file') >= Len(file)
  <2>1. PICK added \in Seq(AllPieces) : file' = file \o added
    BY <1>1, FileGrows
  <2>2. Len(file') = Len(file) + Len(added) /\ Len(added) \in Nat
    BY <2>1, <1>1, ConcatProperties, LenProperties
  <2> QED
    BY <2>2, <1>1
<1>3. seen' = seen \/ \E r \in Readers : seen' = [seen EXCEPT ![r] = Len(file)]
  BY DEF Next, vars, WriteSyncHi, OpenFails, HiOpen, Fwrite, Flush, FlushFails, HiReturn,
      WriteAsyncLo, LoOpen, LoWrites, ReadSyncLo, ReadAsyncLo, Reading, ReaderOpen,
      Read, ReadEnds, ReadFails, Kill, AllEnded
<1>4. \A r \in Readers : seen'[r] <= Len(file)
  BY <1>1, <1>3 DEF Seeing
<1>5. \A r \in Readers : seen'[r] \in Nat
  BY <1>1, <1>3
<1>6. Len(file') \in Nat
  <2>1. WInv'
    BY <1>1, StepKeepsWInv
  <2> QED
    BY <2>1, LenProperties DEF WInv, TypeOK
<1>7. \A r \in Readers : seen'[r] <= Len(file')
  BY <1>1, <1>2, <1>4, <1>5, <1>6
<1>8. ASSUME NEW r \in Readers, pc'[r] \in {"call", "read"}
      PROVE  code'[r] = Running
  <2>1. \/ UNCHANGED <<pc, code>>
        \/ \E p \in Processes, value \in {0, 1, 2} : Return(p, value)
        \/ \E p \in HiWriters \union LoWriters, there \in {"fill", "fclose", "write"} : Goto(p, there)
        \/ \E p \in Processes : Goto(p, "killed")
        \/ \E p \in Readers : At(p, "call") /\ Goto(p, "read")
    BY ProcessTypes
    DEF Next, vars, WriteSyncHi, OpenFails, HiOpen, Fwrite, Flush, FlushFails, HiReturn,
        WriteAsyncLo, LoOpen, LoWrites, ReadSyncLo, ReadAsyncLo, Reading, ReaderOpen,
        Read, ReadEnds, ReadFails, Kill, AllEnded
  <2>2. r \in Processes /\ pc \in [Processes -> Places] /\ code \in [Processes -> Codes]
    BY <1>1, ProcessTypes, TypeOKParts
  <2>3. CASE \E p \in Processes, value \in {0, 1, 2} : Return(p, value)
    BY <2>2, <2>3, <1>1, <1>8 DEF Return, Seeing
  <2>4. CASE \/ \E p \in HiWriters \union LoWriters, there \in {"fill", "fclose", "write"} : Goto(p, there)
             \/ \E p \in Processes : Goto(p, "killed")
    BY <2>2, <2>4, <1>1, <1>8, ProcessTypes DEF Goto, Seeing
  <2>5. CASE \E p \in Readers : At(p, "call") /\ Goto(p, "read")
    BY <2>2, <2>5, <1>1, <1>8 DEF Goto, At, Seeing
  <2>6. CASE UNCHANGED <<pc, code>>
    BY <2>6, <1>1, <1>8 DEF Seeing
  <2> QED
    BY <2>1, <2>3, <2>4, <2>5, <2>6
<1> QED
  BY <1>7, <1>8 DEF Seeing

LEMMA StepKeepsNothingMissed ==
  ASSUME RInv, NothingMissed, [Next]_vars
  PROVE  NothingMissed'
<1>1. /\ WInv /\ TypeOK /\ Seeing /\ ReadersPrintThePrefix
      /\ seen \in [Readers -> Nat] /\ out \in [Readers -> Seq(AllPieces)]
      /\ file \in Seq(AllPieces) /\ Len(file) \in Nat
  BY LenProperties DEF RInv, WInv, TypeOK
<1> SUFFICES ASSUME NEW r \in Readers, code'[r] = 0, broken'[r] = "no"
             PROVE  Len(out'[r]) >= seen'[r]
  BY DEF NothingMissed
<1>2. /\ r \in Processes /\ pc \in [Processes -> Places] /\ code \in [Processes -> Codes]
      /\ broken \in [Processes -> {"no", "cut", "lost"}]
  BY <1>1, ProcessTypes, TypeOKParts DEF TypeOK
<1>3. Len(out'[r]) >= Len(out[r]) /\ Len(out[r]) \in Nat /\ Len(out'[r]) \in Nat
  <2>1. WInv'
    BY <1>1, StepKeepsWInv
  <2>2. out'[r] \in Seq(AllPieces) /\ out[r] \in Seq(AllPieces)
    BY <2>1, <1>1 DEF WInv, TypeOK
  <2> QED
    BY <2>2, <1>1, StepKeepsPrefix, LenProperties
<1>4. broken[r] = "no"
  <2>1. broken' = broken \/ \E p \in Processes : Breaks(p, "cut") \/ Breaks(p, "lost")
    BY ProcessTypes
    DEF Next, vars, WriteSyncHi, OpenFails, HiOpen, Fwrite, Flush, FlushFails, HiReturn,
        WriteAsyncLo, LoOpen, LoWrites, ReadSyncLo, ReadAsyncLo, Reading, ReaderOpen,
        Read, ReadEnds, ReadFails, Kill, AllEnded
  <2> QED
    BY <2>1, <1>2 DEF Breaks
<1>5. CASE code[r] = 0
  <2>1. seen'[r] = seen[r]
    <3>1. seen' = seen \/ \E q \in Readers : At(q, "call") /\ seen' = [seen EXCEPT ![q] = Len(file)]
      BY DEF Next, vars, WriteSyncHi, OpenFails, HiOpen, Fwrite, Flush, FlushFails, HiReturn,
          WriteAsyncLo, LoOpen, LoWrites, ReadSyncLo, ReadAsyncLo, Reading, ReaderOpen,
          Read, ReadEnds, ReadFails, Kill, AllEnded
    <3>2. ~At(r, "call")
      BY <1>1, <1>5 DEF Seeing, At, Running
    <3> QED
      BY <3>1, <3>2, <1>1
  <2>2. Len(out[r]) >= seen[r] /\ seen[r] \in Nat
    BY <1>1, <1>4, <1>5 DEF NothingMissed
  <2> QED
    BY <2>1, <2>2, <1>3
<1>6. CASE code[r] # 0
  <2>1. ReadEnds(r)
    <3>1. \/ code' = code
          \/ \E p \in HiWriters \union LoWriters, value \in {0, 1, 2} : Return(p, value)
          \/ \E p \in Readers : Return(p, 2) \/ ReadEnds(p) \/ ReadFails(p)
      BY DEF Next, vars, WriteSyncHi, OpenFails, HiOpen, Fwrite, Flush, FlushFails, HiReturn,
          WriteAsyncLo, LoOpen, LoWrites, ReadSyncLo, ReadAsyncLo, Reading, ReaderOpen,
          Read, Kill, AllEnded, Goto
    <3>2. CASE \E p \in HiWriters \union LoWriters, value \in {0, 1, 2} : Return(p, value)
      BY <3>2, <1>2, <1>6, ProcessTypes DEF Return
    <3>3. CASE \E p \in Readers : Return(p, 2)
      BY <3>3, <1>2, <1>6 DEF Return
    <3>4. CASE \E p \in Readers : ReadFails(p)
      BY <3>4, <1>2, <1>6 DEF Return, ReadFails, Breaks
    <3>5. CASE \E p \in Readers : ReadEnds(p)
      BY <3>5, <1>2, <1>6 DEF Return, ReadEnds
    <3> QED
      BY <3>1, <3>2, <3>3, <3>4, <3>5, <1>6
  <2>2. Len(file) - Len(out[r]) = 0 /\ out' = out /\ seen' = seen
    BY <2>1 DEF ReadEnds, AtEnd, Available
  <2>3. seen[r] <= Len(file) /\ seen[r] \in Nat
    BY <1>1 DEF Seeing
  <2> QED
    BY <2>2, <2>3, <1>1, <1>3
<1> QED
  BY <1>5, <1>6

(* NothingMissed of FileSync, for any number of readers and writers and    *)
(* every size of a buffer.                                                 *)
THEOREM NothingIsMissed == Spec => []NothingMissed
<1>1. Init => RInv /\ NothingMissed
  <2>1. Init => Seeing
    <3> SUFFICES ASSUME Init PROVE Seeing
      OBVIOUS
    <3>1. Len(file) \in Nat
      BY InitTypeOK, LenProperties DEF TypeOK
    <3> QED
      BY <3>1, ProcessTypes DEF Init, Seeing
  <2>2. Init => NothingMissed
    BY ProcessTypes DEF Init, NothingMissed, Running
  <2> QED
    BY <2>1, <2>2, InitWInv, InitPrefix DEF RInv
<1>2. RInv /\ [Next]_vars => RInv'
  BY StepKeepsWInv, StepKeepsPrefix, StepKeepsSeeing DEF RInv
<1> QED
  BY <1>1, <1>2, StepKeepsNothingMissed, PTL DEF Spec

-----------------------------------------------------------------------------
(* The pieces of one writer in the file. *)

LEMMA SmallestNat ==
  ASSUME NEW S, S \subseteq Nat, S # {}
  PROVE  \E x \in S : \A y \in S : x <= y
<1>1. \E x \in S : \A y \in S : ~(<<y, x>> \in OpToRel(<, Nat))
  BY NatLessThanWellFounded, WFMin
<1>2. PICK x \in S : \A y \in S : ~(<<y, x>> \in OpToRel(<, Nat))
  BY <1>1
<1>3. ASSUME NEW y \in S PROVE x <= y
  <2>1. x \in Nat /\ y \in Nat
    OBVIOUS
  <2>2. y < x => <<y, x>> \in OpToRel(<, Nat)
    BY <2>1 DEF OpToRel
  <2>3. ~(y < x)
    BY <1>2, <2>2
  <2> QED
    BY <2>1, <2>3
<1> QED
  BY <1>3

LEMMA NatInductionOnSet ==
  ASSUME NEW G, 0 \in G, \A n \in Nat : n \in G => n + 1 \in G
  PROVE  \A n \in Nat : n \in G
<1>1. SUFFICES ASSUME Nat \ G # {} PROVE FALSE
  OBVIOUS
<1>2. PICK n \in Nat \ G : \A m \in Nat \ G : n <= m
  BY <1>1, SmallestNat
<1>3. n # 0 /\ n - 1 \in Nat /\ n - 1 \in G
  BY <1>2
<1> QED
  BY <1>2, <1>3

(* The recursive function of Of, on any sequence.  That there is one, and  *)
(* what it is of a longer sequence, is proved by induction.                *)
KeptBy(g, n, w, s) ==
  g = [k \in 0 .. n |->
         IF k = 0 THEN <<>>
         ELSE IF s[k][1] = w THEN Append(g[k - 1], s[k]) ELSE g[k - 1]]
Kept(w, s) == CHOOSE g : KeptBy(g, Len(s), w, s)

LEMMA KeptExists == ASSUME NEW w, NEW s PROVE \A n \in Nat : \E g : KeptBy(g, n, w, s)
<1> DEFINE G == {n \in Nat : \E g : KeptBy(g, n, w, s)}
<1>1. 0 \in G
  <2> DEFINE g == [k \in 0 .. 0 |-> <<>>]
  <2>1. 0 .. 0 = {0}
    OBVIOUS
  <2>2. g = [k \in 0 .. 0 |->
               IF k = 0 THEN <<>>
               ELSE IF s[k][1] = w THEN Append(g[k - 1], s[k]) ELSE g[k - 1]]
    BY <2>1
  <2> HIDE DEF g
  <2> QED
    BY <2>2 DEF KeptBy
<1>2. ASSUME NEW n \in Nat, n \in G PROVE n + 1 \in G
  <2>1. PICK g : KeptBy(g, n, w, s)
    BY <1>2
  <2> DEFINE last == IF s[n + 1][1] = w THEN Append(g[n], s[n + 1]) ELSE g[n]
             h == [k \in 0 .. n + 1 |-> IF k = n + 1 THEN last ELSE g[k]]
  <2>2. ASSUME NEW k \in 0 .. n + 1
        PROVE  h[k] = IF k = 0 THEN <<>>
                      ELSE IF s[k][1] = w THEN Append(h[k - 1], s[k]) ELSE h[k - 1]
    <3>1. CASE k = n + 1
      <4>1. k # 0 /\ k - 1 = n /\ n \in 0 .. n + 1 /\ n # n + 1
        BY <3>1
      <4>2. h[k] = last /\ h[k - 1] = g[n]
        BY <3>1, <4>1
      <4> QED
        BY <3>1, <4>1, <4>2
    <3> HIDE DEF last
    <3>2. CASE k = 0
      <4>1. 0 \in 0 .. n /\ k # n + 1
        BY <3>2
      <4>2. g[0] = <<>>
        BY <2>1, <4>1 DEF KeptBy
      <4> QED
        BY <3>2, <4>1, <4>2
    <3>3. CASE k # n + 1 /\ k # 0
      <4>1. k \in 0 .. n /\ k - 1 \in 0 .. n + 1 /\ k - 1 # n + 1
        BY <3>3
      <4>2. g[k] = IF s[k][1] = w THEN Append(g[k - 1], s[k]) ELSE g[k - 1]
        BY <2>1, <3>3, <4>1 DEF KeptBy
      <4>3. h[k] = g[k] /\ h[k - 1] = g[k - 1]
        BY <3>3, <4>1
      <4> QED
        BY <3>3, <4>2, <4>3
    <3> QED
      BY <3>1, <3>2, <3>3
  <2>3. h = [k \in 0 .. n + 1 |-> h[k]]
    OBVIOUS
  <2> HIDE DEF h
  <2>4. KeptBy(h, n + 1, w, s)
    BY <2>2, <2>3 DEF KeptBy
  <2> QED
    BY <2>4
<1> HIDE DEF G
<1>3. \A n \in Nat : n \in G
  BY <1>1, <1>2, NatInductionOnSet
<1> QED
  BY <1>3 DEF G

LEMMA KeptSteps ==
  ASSUME NEW w, NEW s \in Seq(AllPieces)
  PROVE  /\ Kept(w, s)[0] = <<>>
         /\ \A k \in 1 .. Len(s) :
              Kept(w, s)[k] = IF s[k][1] = w THEN Append(Kept(w, s)[k - 1], s[k])
                              ELSE Kept(w, s)[k - 1]
<1>1. Len(s) \in Nat
  BY LenProperties
<1>2. KeptBy(Kept(w, s), Len(s), w, s)
  <2>1. \E g : KeptBy(g, Len(s), w, s)
    BY <1>1, KeptExists
  <2> QED
    BY <2>1 DEF Kept
<1> DEFINE g == Kept(w, s)
<1> HIDE DEF g
<1>3. KeptBy(g, Len(s), w, s)
  BY <1>2 DEF g
<1>4. g[0] = <<>>
  BY <1>1, <1>3 DEF KeptBy
<1>5. ASSUME NEW k \in 1 .. Len(s)
      PROVE  g[k] = IF s[k][1] = w THEN Append(g[k - 1], s[k]) ELSE g[k - 1]
  <2>1. k \in 0 .. Len(s) /\ k # 0
    BY <1>1
  <2> QED
    BY <1>3, <2>1 DEF KeptBy
<1> QED
  BY <1>4, <1>5 DEF g

LEMMA OfIsKept ==
  ASSUME NEW w
  PROVE  Of(w) = Kept(w, file)[Len(file)] /\ Of(w)' = Kept(w, file')[Len(file')]
BY DEF Of, Kept, KeptBy

LEMMA KeptType ==
  ASSUME NEW w, NEW s \in Seq(AllPieces)
  PROVE  \A k \in 0 .. Len(s) : Kept(w, s)[k] \in Seq(AllPieces)
<1> DEFINE G == {k \in Nat : k <= Len(s) => Kept(w, s)[k] \in Seq(AllPieces)}
<1>1. Len(s) \in Nat
  BY LenProperties
<1>2. 0 \in G
  <2>1. <<>> \in Seq(AllPieces) /\ Kept(w, s)[0] = <<>>
    BY KeptSteps, EmptySeq
  <2> QED
    BY <2>1
<1>3. ASSUME NEW k \in Nat, k \in G PROVE k + 1 \in G
  <2>1. SUFFICES ASSUME k + 1 <= Len(s) PROVE Kept(w, s)[k + 1] \in Seq(AllPieces)
    OBVIOUS
  <2>2. k + 1 \in 1 .. Len(s) /\ (k + 1) - 1 = k /\ k <= Len(s)
    BY <1>1, <2>1
  <2>3. Kept(w, s)[k] \in Seq(AllPieces) /\ s[k + 1] \in AllPieces
    BY <1>3, <2>2, ElementOfSeq
  <2>4. Append(Kept(w, s)[k], s[k + 1]) \in Seq(AllPieces)
    BY <2>3, AppendProperties
  <2>5. Kept(w, s)[k + 1] = IF s[k + 1][1] = w THEN Append(Kept(w, s)[k], s[k + 1])
                            ELSE Kept(w, s)[k]
    BY <2>2, KeptSteps
  <2> QED
    BY <2>3, <2>4, <2>5
<1> HIDE DEF G
<1>4. \A k \in Nat : k \in G
  BY <1>2, <1>3, NatInductionOnSet
<1> QED
  BY <1>1, <1>4 DEF G

(* What is kept of the beginning of a sequence does not depend on the rest. *)
LEMMA KeptOfLonger ==
  ASSUME NEW w, NEW s \in Seq(AllPieces), NEW u \in Seq(AllPieces)
  PROVE  Kept(w, s \o u)[Len(s)] = Kept(w, s)[Len(s)]
<1> DEFINE t == s \o u
           G == {k \in Nat : k <= Len(s) => Kept(w, t)[k] = Kept(w, s)[k]}
<1>1. /\ t \in Seq(AllPieces) /\ Len(t) = Len(s) + Len(u)
      /\ Len(s) \in Nat /\ Len(u) \in Nat
      /\ \A i \in 1 .. Len(s) + Len(u) : t[i] = IF i <= Len(s) THEN s[i] ELSE u[i - Len(s)]
  BY ConcatProperties, LenProperties
<1> HIDE DEF t
<1>2. 0 \in G
  BY <1>1, KeptSteps
<1>3. ASSUME NEW k \in Nat, k \in G PROVE k + 1 \in G
  <2>1. SUFFICES ASSUME k + 1 <= Len(s) PROVE Kept(w, t)[k + 1] = Kept(w, s)[k + 1]
    OBVIOUS
  <2>2. k + 1 \in 1 .. Len(s) /\ k + 1 \in 1 .. Len(t) /\ (k + 1) - 1 = k /\ k <= Len(s)
    BY <1>1, <2>1
  <2>3. Kept(w, t)[k] = Kept(w, s)[k] /\ t[k + 1] = s[k + 1]
    BY <1>1, <1>3, <2>1, <2>2
  <2>4. Kept(w, s)[k + 1] = IF s[k + 1][1] = w THEN Append(Kept(w, s)[k], s[k + 1])
                            ELSE Kept(w, s)[k]
    BY <2>2, KeptSteps
  <2>5. Kept(w, t)[k + 1] = IF t[k + 1][1] = w THEN Append(Kept(w, t)[k], t[k + 1])
                            ELSE Kept(w, t)[k]
    BY <1>1, <2>2, KeptSteps
  <2> QED
    BY <2>3, <2>4, <2>5
<1> HIDE DEF G
<1>4. \A k \in Nat : k \in G
  BY <1>2, <1>3, NatInductionOnSet
<1>5. Kept(w, t)[Len(s)] = Kept(w, s)[Len(s)]
  BY <1>1, <1>4 DEF G
<1> QED
  BY <1>5 DEF t

LEMMA AppendToConcat ==
  ASSUME NEW x \in Seq(AllPieces), NEW v \in Seq(AllPieces), NEW e \in AllPieces
  PROVE  Append(x \o v, e) = x \o (v \o <<e>>)
<1>1. <<e>> \in Seq(AllPieces) /\ x \o v \in Seq(AllPieces)
  BY ConcatProperties
<1>2. Append(x \o v, e) = (x \o v) \o <<e>>
  BY <1>1, AppendIsConcat
<1> DEFINE l == <<e>>
<1> HIDE DEF l
<1>3. l \in Seq(AllPieces)
  BY <1>1 DEF l
<1>4. (x \o v) \o l = x \o (v \o l)
  BY <1>3, ConcatAssociative
<1> QED
  BY <1>2, <1>4 DEF l

LEMMA KeptOfOwn ==
  ASSUME NEW w, NEW s \in Seq(AllPieces), NEW u \in Seq(AllPieces),
         \A i \in 1 .. Len(u) : u[i][1] = w
  PROVE  Kept(w, s \o u)[Len(s \o u)] = Kept(w, s)[Len(s)] \o u
<1> DEFINE t == s \o u
           x == Kept(w, s)[Len(s)]
           G == {k \in Nat : k <= Len(u) => Kept(w, t)[Len(s) + k] = x \o SubSeq(u, 1, k)}
<1>1. /\ t \in Seq(AllPieces) /\ Len(t) = Len(s) + Len(u)
      /\ Len(s) \in Nat /\ Len(u) \in Nat
      /\ \A i \in 1 .. Len(s) + Len(u) : t[i] = IF i <= Len(s) THEN s[i] ELSE u[i - Len(s)]
  BY ConcatProperties, LenProperties
<1>2. Kept(w, t)[Len(s)] = x
  BY KeptOfLonger
<1>3. x \in Seq(AllPieces)
  <2>1. Len(s) \in 0 .. Len(s)
    BY <1>1
  <2> QED
    BY <2>1, KeptType
<1> HIDE DEF t, x
<1>4. 0 \in G
  <2>1. SubSeq(u, 1, 0) = <<>>
    BY SubSeqEmpty
  <2>2. x \o <<>> = x /\ Len(s) + 0 = Len(s)
    BY <1>1, <1>3, ConcatEmptySeq
  <2> QED
    BY <1>2, <2>1, <2>2
<1>5. ASSUME NEW k \in Nat, k \in G PROVE k + 1 \in G
  <2>1. SUFFICES ASSUME k + 1 <= Len(u)
                 PROVE  Kept(w, t)[Len(s) + (k + 1)] = x \o SubSeq(u, 1, k + 1)
    OBVIOUS
  <2> DEFINE j == Len(s) + (k + 1)
             v == SubSeq(u, 1, k)
  <2>2. /\ j \in 1 .. Len(t) /\ j - 1 = Len(s) + k /\ ~(j <= Len(s)) /\ j - Len(s) = k + 1
        /\ k + 1 \in 1 .. Len(u) /\ k <= Len(u) /\ j \in 1 .. Len(s) + Len(u)
    BY <1>1, <2>1
  <2>3. Kept(w, t)[Len(s) + k] = x \o v
    BY <1>5, <2>2
  <2>4. t[j] = u[k + 1] /\ u[k + 1][1] = w /\ u[k + 1] \in AllPieces
    BY <1>1, <2>2, ElementOfSeq
  <2>5. Kept(w, t)[j] = Append(x \o v, u[k + 1])
    <3> HIDE DEF j
    <3>1. Kept(w, t)[j] = IF t[j][1] = w THEN Append(Kept(w, t)[j - 1], t[j])
                          ELSE Kept(w, t)[j - 1]
      BY <1>1, <2>2, KeptSteps
    <3> QED
      BY <2>2, <2>3, <2>4, <3>1
  <2>6. v \in Seq(AllPieces)
    <3>1. k \in 0 .. Len(u)
      BY <2>2
    <3> QED
      BY <3>1, Part
  <2>7. SubSeq(u, 1, k + 1) = v \o <<u[k + 1]>>
    <3>1. 1 \in 1 .. Len(u) /\ k + 1 \in 1 .. Len(u) /\ (k + 1) - 1 = k
      BY <2>2, <1>1
    <3> QED
      BY <3>1, SubSeqRecursiveSecond
  <2> HIDE DEF v
  <2>8. Append(x \o v, u[k + 1]) = x \o (v \o <<u[k + 1]>>)
    BY <1>3, <2>4, <2>6, AppendToConcat
  <2> QED
    BY <2>5, <2>7, <2>8
<1> HIDE DEF G
<1>6. \A k \in Nat : k \in G
  BY <1>4, <1>5, NatInductionOnSet
<1>7. Kept(w, t)[Len(s) + Len(u)] = x \o SubSeq(u, 1, Len(u))
  BY <1>1, <1>6 DEF G
<1>8. SubSeq(u, 1, Len(u)) = u
  BY SubSeqFull
<1> QED
  BY <1>1, <1>7, <1>8 DEF t, x

LEMMA KeptOfOthers ==
  ASSUME NEW w, NEW s \in Seq(AllPieces), NEW u \in Seq(AllPieces),
         \A i \in 1 .. Len(u) : u[i][1] # w
  PROVE  Kept(w, s \o u)[Len(s \o u)] = Kept(w, s)[Len(s)]
<1> DEFINE t == s \o u
           x == Kept(w, s)[Len(s)]
           G == {k \in Nat : k <= Len(u) => Kept(w, t)[Len(s) + k] = x}
<1>1. /\ t \in Seq(AllPieces) /\ Len(t) = Len(s) + Len(u)
      /\ Len(s) \in Nat /\ Len(u) \in Nat
      /\ \A i \in 1 .. Len(s) + Len(u) : t[i] = IF i <= Len(s) THEN s[i] ELSE u[i - Len(s)]
  BY ConcatProperties, LenProperties
<1>2. Kept(w, t)[Len(s)] = x
  BY KeptOfLonger
<1> HIDE DEF t, x
<1>3. 0 \in G
  <2>1. Len(s) + 0 = Len(s)
    BY <1>1
  <2> QED
    BY <1>2, <2>1
<1>4. ASSUME NEW k \in Nat, k \in G PROVE k + 1 \in G
  <2>1. SUFFICES ASSUME k + 1 <= Len(u) PROVE Kept(w, t)[Len(s) + (k + 1)] = x
    OBVIOUS
  <2> DEFINE j == Len(s) + (k + 1)
  <2>2. /\ j \in 1 .. Len(t) /\ j - 1 = Len(s) + k /\ ~(j <= Len(s)) /\ j - Len(s) = k + 1
        /\ k + 1 \in 1 .. Len(u) /\ k <= Len(u) /\ j \in 1 .. Len(s) + Len(u)
    BY <1>1, <2>1
  <2>3. Kept(w, t)[Len(s) + k] = x
    BY <1>4, <2>2
  <2>4. t[j] = u[k + 1] /\ u[k + 1][1] # w
    BY <1>1, <2>2
  <2> HIDE DEF j
  <2>5. Kept(w, t)[j] = IF t[j][1] = w THEN Append(Kept(w, t)[j - 1], t[j])
                        ELSE Kept(w, t)[j - 1]
    BY <1>1, <2>2, KeptSteps
  <2>6. Kept(w, t)[j] = x
    BY <2>2, <2>3, <2>4, <2>5
  <2> QED
    BY <2>6 DEF j
<1> HIDE DEF G
<1>5. \A k \in Nat : k \in G
  BY <1>3, <1>4, NatInductionOnSet
<1>6. Kept(w, t)[Len(s) + Len(u)] = x
  BY <1>1, <1>5 DEF G
<1> QED
  BY <1>1, <1>6 DEF t, x

LEMMA OfGrows ==
  ASSUME TypeOK, NEW w, NEW added \in Seq(AllPieces), file' = file \o added
  PROVE  /\ (\A i \in 1 .. Len(added) : added[i][1] = w) => Of(w)' = Of(w) \o added
         /\ (\A i \in 1 .. Len(added) : added[i][1] # w) => Of(w)' = Of(w)
<1>1. file \in Seq(AllPieces)
  BY DEF TypeOK
<1> DEFINE old == Kept(w, file)[Len(file)]
           new == Kept(w, file')[Len(file')]
<1>2. (\A i \in 1 .. Len(added) : added[i][1] = w) => new = old \o added
  BY <1>1, KeptOfOwn
<1>3. (\A i \in 1 .. Len(added) : added[i][1] # w) => new = old
  BY <1>1, KeptOfOthers
<1>4. Of(w) = old /\ Of(w)' = new
  BY OfIsKept
<1> HIDE DEF old, new
<1> QED
  BY <1>2, <1>3, <1>4

LEMMA OfType == ASSUME TypeOK, NEW w PROVE Of(w) \in Seq(AllPieces)
<1>1. file \in Seq(AllPieces) /\ Len(file) \in 0 .. Len(file)
  BY LenProperties DEF TypeOK
<1>2. Kept(w, file)[Len(file)] \in Seq(AllPieces)
  BY <1>1, KeptType
<1> QED
  BY <1>2, OfIsKept

LEMMA NothingOf ==
  ASSUME TypeOK, NEW w, \A i \in 1 .. Len(file) : file[i][1] # w
  PROVE  Of(w) = <<>>
<1>1. file \in Seq(AllPieces) /\ <<>> \in Seq(AllPieces) /\ Len(<<>>) = 0
  BY EmptySeq DEF TypeOK
<1>2. <<>> \o file = file
  BY <1>1, ConcatEmptySeq
<1>3. Kept(w, <<>> \o file)[Len(<<>> \o file)] = Kept(w, <<>>)[Len(<<>>)]
  BY <1>1, KeptOfOthers
<1>4. Kept(w, <<>>)[0] = <<>>
  BY <1>1, KeptSteps
<1> QED
  BY <1>1, <1>2, <1>3, <1>4, OfIsKept

-----------------------------------------------------------------------------
(* The texts of the writers. *)

LEMMA PrefixOfLess ==
  ASSUME NEW s \in Seq(AllPieces), NEW u \in Seq(AllPieces), NEW t \in Seq(AllPieces),
         IsPrefix(s \o u, t)
  PROVE  IsPrefix(s, t)
<1> DEFINE v == s \o u
<1>1. /\ v \in Seq(AllPieces) /\ Len(v) = Len(s) + Len(u)
      /\ \A i \in 1 .. Len(s) + Len(u) : v[i] = IF i <= Len(s) THEN s[i] ELSE u[i - Len(s)]
      /\ Len(s) \in Nat /\ Len(u) \in Nat /\ Len(t) \in Nat
  BY ConcatProperties, LenProperties
<1>2. IsPrefix(v, t)
  OBVIOUS
<1> HIDE DEF v
<1>3. Len(v) <= Len(t) /\ \A i \in 1 .. Len(v) : v[i] = t[i]
  BY <1>1, <1>2, PrefixByElements
<1>4. \A i \in 1 .. Len(s) : s[i] = t[i]
  BY <1>1, <1>3
<1>5. Len(s) <= Len(t)
  BY <1>1, <1>3
<1> QED
  BY <1>4, <1>5, PrefixByElements

(* What writesync_hi has in the file and in its buffer is together the     *)
(* beginning of its text, all of it from fclose on unless a write fails;   *)
(* and unless a write is short, the text is still in the buffer or is in   *)
(* the file in one piece.                                                  *)
InOnePiece(w) == \E i \in 0 .. Len(file) - Pieces : SubSeq(file, i + 1, i + Pieces) = Text(w)

WriterOK(w) ==
  /\ pc[w] \in {"call", "fill"} => Of(w) = <<>>
  /\ IsPrefix(Of(w) \o buffer[w], Text(w))
  /\ broken[w] = "lost" => buffer[w] = <<>> /\ pc[w] \notin {"call", "fill"}
  /\ pc[w] = "fclose" /\ broken[w] # "lost" => Of(w) \o buffer[w] = Text(w)
  /\ code[w] = 0 => /\ pc[w] = "done" /\ buffer[w] = <<>>
                    /\ broken[w] # "lost" => Of(w) = Text(w)
  /\ broken[w] = "no" /\ (pc[w] = "fclose" \/ code[w] = 0) =>
       buffer[w] = Text(w) \/ (buffer[w] = <<>> /\ InOnePiece(w))

LEMMA InitWriterOK == ASSUME Init, NEW w \in HiWriters PROVE WriterOK(w)
<1>1. TypeOK /\ w \in Processes
  BY InitTypeOK, ProcessTypes
<1>2. \A i \in 1 .. Len(file) : file[i][1] # w
  <2> TAKE i \in 1 .. Len(file)
  <2>1. i \in DOMAIN file
    BY <1>1, LenProperties DEF TypeOK
  <2> QED
    BY <2>1, InitHasNoPiece
<1>3. Of(w) = <<>>
  BY <1>1, <1>2, NothingOf
<1>4. /\ buffer[w] = <<>> /\ pc[w] = "call" /\ broken[w] = "no"
      /\ code[w] = Running /\ Running # 0
  BY <1>1 DEF Init, Running
<1>5. <<>> \in Seq(AllPieces) /\ Len(<<>>) = 0 /\ <<>> \o <<>> = <<>>
  BY EmptySeq, ConcatEmptySeq
<1>6. Text(w) \in Seq(AllPieces) /\ Len(Text(w)) \in Nat
  BY TextIsASeq, LenProperties
<1>7. IsPrefix(<<>>, Text(w))
  <2>1. PICK e \in Seq(AllPieces) : e = <<>> /\ Len(e) = 0
    BY <1>5
  <2>2. Len(e) <= Len(Text(w)) /\ \A i \in 1 .. Len(e) : e[i] = Text(w)[i]
    BY <1>6, <2>1
  <2>3. IsPrefix(e, Text(w))
    BY <1>6, <2>2, PrefixByElements
  <2> QED
    BY <2>1, <2>3
<1> QED
  BY <1>3, <1>4, <1>5, <1>7 DEF WriterOK

(* A step is one of the writer, or leaves it and its pieces alone. *)
Untouched(w) ==
  pc'[w] = pc[w] /\ code'[w] = code[w] /\ buffer'[w] = buffer[w] /\ broken'[w] = broken[w]

LEMMA OthersMove ==
  ASSUME TypeOK, NEW w \in HiWriters, NEW p \in Processes, p # w, NEW there, NEW value,
         Goto(p, there) \/ Return(p, value) \/ UNCHANGED <<pc, code>>
  PROVE  pc'[w] = pc[w] /\ code'[w] = code[w]
BY ProcessTypes DEF TypeOK, Goto, Return

LEMMA StepOfAWriter ==
  ASSUME WInv, [Next]_vars, NEW w \in HiWriters
  PROVE  \/ /\ Untouched(w)
            /\ \E added \in Seq(AllPieces) :
                 file' = file \o added /\ \A i \in 1 .. Len(added) : added[i][1] # w
         \/ WriteSyncHi(w)
         \/ Kill(w)
<1>1. TypeOK /\ w \in Processes
  BY ProcessTypes DEF WInv
<1>2. file \o <<>> = file /\ <<>> \in Seq(AllPieces) /\ Len(<<>>) = 0
  BY <1>1, ConcatEmptySeq, EmptySeq DEF TypeOK
<1>3. file' = file => \E added \in Seq(AllPieces) :
        file' = file \o added /\ \A i \in 1 .. Len(added) : added[i][1] # w
  <2> SUFFICES ASSUME file' = file
               PROVE  file' = file \o <<>> /\ \A i \in 1 .. Len(<<>>) : <<>>[i][1] # w
    BY <1>2
  <2> QED
    BY <1>2
<1>4. ASSUME NEW v \in HiWriters, v # w, WriteSyncHi(v)
      PROVE  /\ Untouched(w)
             /\ \E added \in Seq(AllPieces) :
                  file' = file \o added /\ \A i \in 1 .. Len(added) : added[i][1] # w
  <2>1. v \in Processes
    BY ProcessTypes
  <2>2. \/ \E there : Goto(v, there)
        \/ \E value : Return(v, value)
        \/ UNCHANGED <<pc, code>>
    BY <1>4 DEF WriteSyncHi, OpenFails, HiOpen, Fwrite, Flush, FlushFails, HiReturn
  <2>3. pc'[w] = pc[w] /\ code'[w] = code[w]
    BY <1>1, <1>4, <2>1, <2>2, OthersMove
  <2>4. broken'[w] = broken[w]
    <3>1. broken' = broken \/ \E how : Breaks(v, how)
      BY <1>4 DEF WriteSyncHi, OpenFails, HiOpen, Fwrite, Flush, FlushFails, HiReturn
    <3> QED
      BY <3>1, <1>1, <1>4 DEF Breaks, TypeOK
  <2>5. buffer'[w] = buffer[w]
    <3>1. buffer' = buffer \/ \E b : buffer' = [buffer EXCEPT ![v] = b]
      BY <1>4 DEF WriteSyncHi, OpenFails, HiOpen, Fwrite, Flush, FlushFails, HiReturn
    <3> QED
      BY <3>1, <1>1, <1>4 DEF TypeOK
  <2>6. \E added \in Seq(AllPieces) :
          file' = file \o added /\ \A i \in 1 .. Len(added) : added[i][1] # w
    <3>1. CASE Flush(v)
      <4>1. PICK added \in Seq(AllPieces), left \in Seq(AllPieces) : Flushed(v, added, left)
        BY <3>1, FlushAdds
      <4> QED
        BY <4>1, <1>4 DEF Flushed
    <3>2. CASE ~Flush(v)
      <4>1. file' = file
        BY <1>4, <3>2 DEF WriteSyncHi, OpenFails, HiOpen, Fwrite, FlushFails, HiReturn
      <4> QED
        BY <4>1, <1>3
    <3> QED
      BY <3>1, <3>2
  <2> QED
    BY <2>3, <2>4, <2>5, <2>6 DEF Untouched
<1>5. ASSUME NEW p \in Processes, p # w,
             \/ p \in LoWriters /\ WriteAsyncLo(p)
             \/ p \in Readers /\ Reading(p)
             \/ Kill(p)
      PROVE  Untouched(w) /\ file' = file
  <2>1. \/ \E there : Goto(p, there)
        \/ \E value : Return(p, value)
        \/ UNCHANGED <<pc, code>>
    BY <1>5 DEF WriteAsyncLo, OpenFails, LoOpen, LoWrites, Reading, ReaderOpen, Read,
                ReadEnds, ReadFails, Kill
  <2>2. pc'[w] = pc[w] /\ code'[w] = code[w]
    BY <1>1, <1>5, <2>1, OthersMove
  <2>3. /\ broken' = broken \/ \E how : Breaks(p, how)
        /\ buffer' = buffer /\ file' = file
    BY <1>2, <1>5 DEF WriteAsyncLo, OpenFails, LoOpen, LoWrites, LoLands, Reading,
                      ReaderOpen, Read, ReadEnds, ReadFails, Kill
  <2>4. broken'[w] = broken[w]
    BY <1>1, <1>5, <2>3 DEF Breaks, TypeOK
  <2> QED
    BY <2>2, <2>3, <2>4 DEF Untouched
<1>6. CASE UNCHANGED vars
  BY <1>3, <1>6 DEF vars, Untouched
<1> QED
  BY <1>3, <1>4, <1>5, <1>6, ProcessTypes DEF Next, ReadSyncLo, ReadAsyncLo, AllEnded

LEMMA StaysInOnePiece ==
  ASSUME TypeOK, NEW w, InOnePiece(w), NEW added \in Seq(AllPieces), file' = file \o added
  PROVE  InOnePiece(w)'
<1>1. PICK i \in 0 .. Len(file) - Pieces : SubSeq(file, i + 1, i + Pieces) = Text(w)
  BY DEF InOnePiece
<1>2. /\ file \in Seq(AllPieces) /\ Len(file) \in Nat /\ Len(added) \in Nat
      /\ Len(file') = Len(file) + Len(added) /\ Pieces \in Nat \ {0}
  BY Bounds, ConcatProperties, LenProperties DEF TypeOK
<1>3. i + 1 \in 1 .. Len(file) /\ i + Pieces \in 1 .. Len(file)
  BY <1>2
<1>4. SubSeq(file', i + 1, i + Pieces) = SubSeq(file, i + 1, i + Pieces)
  BY <1>2, <1>3, SubSeqOfConcat1
<1>5. i \in 0 .. Len(file') - Pieces
  BY <1>2
<1> QED
  BY <1>1, <1>4, <1>5 DEF InOnePiece, Text

LEMMA LandsInOnePiece ==
  ASSUME TypeOK, NEW w \in HiWriters, file' = file \o Text(w)
  PROVE  InOnePiece(w)'
<1>1. /\ file \in Seq(AllPieces) /\ Len(file) \in Nat /\ Pieces \in Nat \ {0}
      /\ Text(w) \in Seq(AllPieces) /\ Len(Text(w)) = Pieces
  BY Bounds, LenProperties, TextIsASeq DEF TypeOK
<1>2. Len(file') = Len(file) + Pieces
  BY <1>1, ConcatProperties
<1> DEFINE m == Len(file) + 1
           n == Len(file) + Pieces
<1>3. /\ m \in Len(file) + 1 .. Len(file) + Len(Text(w))
      /\ n \in Len(file) + 1 .. Len(file) + Len(Text(w))
      /\ m - Len(file) = 1 /\ n - Len(file) = Len(Text(w))
  BY <1>1
<1> HIDE DEF m, n
<1>4. SubSeq(file', m, n) = SubSeq(Text(w), 1, Len(Text(w)))
  BY <1>1, <1>3, SubSeqOfConcat2
<1>5. SubSeq(file', m, n) = Text(w)
  BY <1>1, <1>4, SubSeqFull
<1>6. Len(file) \in 0 .. Len(file') - Pieces
  BY <1>1, <1>2
<1> QED
  BY <1>5, <1>6 DEF InOnePiece, Text, m, n

LEMMA UntouchedKeeps ==
  ASSUME WInv, NEW w \in HiWriters, WriterOK(w), Untouched(w),
         NEW added \in Seq(AllPieces), file' = file \o added,
         \A i \in 1 .. Len(added) : added[i][1] # w
  PROVE  WriterOK(w)'
<1>1. Of(w)' = Of(w)
  BY OfGrows DEF WInv
<1>2. InOnePiece(w) => InOnePiece(w)'
  BY StaysInOnePiece DEF WInv
<1>3. Text(w)' = Text(w)
  BY DEF Text
<1> QED
  BY <1>1, <1>2, <1>3 DEF WriterOK, Untouched

(* The steps of a writer that leave the file alone. *)
LEMMA NothingWritten == ASSUME file' = file, NEW w PROVE Of(w)' = Of(w)
BY DEF Of

LEMMA FwriteKeepsText ==
  ASSUME WInv, NEW w \in HiWriters, WriterOK(w), Fwrite(w)
  PROVE  WriterOK(w)'
<1> DEFINE more == Append(buffer[w], NextPiece(w))
           n == Len(buffer[w])
<1>1. /\ TypeOK /\ Filling /\ pc[w] = "fill" /\ w \in Processes /\ Pieces \in Nat \ {0}
      /\ buffer \in [HiWriters -> Seq(AllPieces)] /\ buffer[w] \in Seq(AllPieces)
      /\ pc \in [Processes -> Places]
  BY ProcessTypes, Bounds, TypeOKParts DEF WInv, Fwrite, At, DataOK
<1>2. NextPiece(w) \in AllPieces /\ n \in 0 .. Pieces - 1
  BY <1>1, PieceIsOwn
<1>3. /\ more \in Seq(AllPieces) /\ Len(more) = n + 1
      /\ \A i \in 1 .. n : more[i] = buffer[w][i]
      /\ more[n + 1] = NextPiece(w)
  BY <1>1, <1>2, AppendProperties
<1>4. /\ buffer'[w] = more /\ UNCHANGED <<file, code, broken>>
      /\ pc'[w] = IF n + 1 < Pieces THEN "fill" ELSE "fclose"
  BY <1>1 DEF Fwrite, Goto
<1>5. /\ Text(w) \in Seq(AllPieces) /\ Len(Text(w)) = Pieces
  BY TextIsASeq
<1>6. NextPiece(w) = Text(w)[n + 1]
  BY DEF NextPiece
<1>7. Of(w) = <<>> /\ Of(w)' = <<>>
  BY <1>1, <1>4, NothingWritten DEF WriterOK
<1> HIDE DEF more, n
<1>8. <<>> \o buffer[w] = buffer[w] /\ <<>> \o more = more
  BY <1>1, <1>3, ConcatEmptySeq
<1>9. IsPrefix(buffer[w], Text(w))
  BY <1>7, <1>8 DEF WriterOK
<1>10. \A i \in 1 .. n : buffer[w][i] = Text(w)[i]
  BY <1>1, <1>5, <1>9, PrefixByElements DEF n
<1>11. \A i \in 1 .. Len(more) : more[i] = Text(w)[i]
  <2> TAKE i \in 1 .. Len(more)
  <2>1. CASE i = n + 1
    BY <2>1, <1>3, <1>6
  <2>2. CASE i # n + 1
    <3>1. i \in 1 .. n
      BY <2>2, <1>2, <1>3
    <3> QED
      BY <3>1, <1>3, <1>10
  <2> QED
    BY <2>1, <2>2
<1>12. Len(more) <= Len(Text(w))
  BY <1>1, <1>2, <1>3, <1>5
<1>13. IsPrefix(more, Text(w))
  BY <1>3, <1>5, <1>11, <1>12, PrefixByElements
<1>14. pc'[w] = "fclose" => more = Text(w)
  <2> SUFFICES ASSUME pc'[w] = "fclose" PROVE more = Text(w)
    OBVIOUS
  <2>1. Len(more) = Len(Text(w))
    BY <1>1, <1>2, <1>3, <1>4, <1>5
  <2> QED
    BY <2>1, <1>3, <1>5, <1>11, SeqEqual
<1>15. code'[w] # 0
  BY <1>1, <1>4 DEF WriterOK
<1>16. Text(w)' = Text(w)
  BY DEF Text
<1>17. broken'[w] # "lost" /\ pc'[w] # "call" /\ (code'[w] = 0) = FALSE
  BY <1>1, <1>4, <1>15 DEF WriterOK
<1>18. Of(w)' \o buffer'[w] = more
  BY <1>4, <1>7, <1>8
<1> QED
  BY <1>4, <1>7, <1>13, <1>14, <1>16, <1>17, <1>18 DEF WriterOK

LEMMA FlushKeepsText ==
  ASSUME WInv, NEW w \in HiWriters, WriterOK(w), Flush(w)
  PROVE  WriterOK(w)'
<1>1. /\ TypeOK /\ pc[w] = "fclose" /\ w \in Processes /\ buffer[w] # <<>>
      /\ buffer \in [HiWriters -> Seq(AllPieces)] /\ buffer[w] \in Seq(AllPieces)
      /\ broken \in [Processes -> {"no", "cut", "lost"}]
      /\ UNCHANGED <<pc, code>>
  BY ProcessTypes DEF WInv, Flush, At, TypeOK
<1>2. PICK added \in Seq(AllPieces), left \in Seq(AllPieces) : Flushed(w, added, left)
  BY FlushAdds
<1>3. buffer'[w] = left /\ Of(w)' = Of(w) \o added /\ Of(w) \in Seq(AllPieces)
  BY <1>1, <1>2, OfGrows, OfType DEF Flushed
<1>4. (Of(w) \o added) \o left = Of(w) \o (added \o left)
  BY <1>3, ConcatAssociative
<1>5. Of(w)' \o buffer'[w] = Of(w) \o buffer[w]
  BY <1>2, <1>3, <1>4 DEF Flushed
<1>6. broken[w] # "lost" /\ broken'[w] # "lost" /\ code'[w] # 0
  BY <1>1, <1>2 DEF WriterOK, Breaks, Flushed
<1>7. Of(w) \o buffer[w] = Text(w)
  BY <1>1, <1>6 DEF WriterOK
<1>8. IsPrefix(Text(w), Text(w))
  BY <1>1, <1>7 DEF WriterOK
<1>9. ASSUME broken'[w] = "no" PROVE buffer'[w] = <<>> /\ InOnePiece(w)'
  <2>1. left = <<>> /\ broken[w] = "no"
    BY <1>1, <1>2, <1>9 DEF Breaks, Flushed
  <2>2. buffer[w] = Text(w)
    BY <1>1, <2>1 DEF WriterOK
  <2>3. added \o <<>> = added
    BY ConcatEmptySeq
  <2>4. file' = file \o Text(w)
    BY <1>2, <2>1, <2>2, <2>3 DEF Flushed
  <2> QED
    BY <1>1, <1>3, <2>1, <2>4, LandsInOnePiece
<1>10. Text(w)' = Text(w)
  BY DEF Text
<1>11. pc'[w] = "fclose"
  BY <1>1
<1> QED
  BY <1>5, <1>6, <1>7, <1>8, <1>9, <1>10, <1>11 DEF WriterOK

(* The steps of a writer that leave the file alone. *)
LEMMA QuietStepKeepsText ==
  ASSUME WInv, NEW w \in HiWriters, WriterOK(w),
         \/ OpenFails(w, 1)
         \/ HiOpen(w)
         \/ FlushFails(w)
         \/ HiReturn(w)
         \/ Kill(w)
  PROVE  WriterOK(w)'
<1>1. /\ TypeOK /\ w \in Processes
      /\ pc \in [Processes -> Places] /\ code \in [Processes -> Codes]
      /\ buffer \in [HiWriters -> Seq(AllPieces)] /\ buffer[w] \in Seq(AllPieces)
      /\ broken \in [Processes -> {"no", "cut", "lost"}]
  BY ProcessTypes, TypeOKParts DEF WInv, TypeOK
<1>2. file' = file
  BY DEF OpenFails, HiOpen, FlushFails, HiReturn, Kill
<1>3. Of(w)' = Of(w) /\ (InOnePiece(w) => InOnePiece(w)') /\ Text(w)' = Text(w)
  BY <1>2, NothingWritten DEF InOnePiece, Text
<1>4. CASE OpenFails(w, 1)
  <2>1. /\ pc[w] = "call" /\ pc'[w] = "done" /\ code'[w] = 1
        /\ UNCHANGED <<buffer, broken>>
    BY <1>1, <1>4 DEF OpenFails, At, Return
  <2> QED
    BY <1>3, <2>1 DEF WriterOK
<1>5. CASE HiOpen(w)
  <2>1. /\ pc[w] = "call" /\ pc'[w] = "fill" /\ code' = code
        /\ UNCHANGED <<buffer, broken>>
    BY <1>1, <1>5 DEF HiOpen, At, Goto
  <2> QED
    BY <1>3, <2>1 DEF WriterOK
<1>6. CASE FlushFails(w)
  <2>1. /\ pc[w] = "fclose" /\ pc' = pc /\ code' = code
        /\ buffer'[w] = <<>> /\ broken'[w] = "lost"
    BY <1>1, <1>6 DEF FlushFails, At, Breaks
  <2>2. Of(w) \in Seq(AllPieces) /\ Text(w) \in Seq(AllPieces)
    BY <1>1, OfType, TextIsASeq
  <2>3. IsPrefix(Of(w), Text(w))
    BY <1>1, <2>2, PrefixOfLess DEF WriterOK
  <2>4. Of(w) \o <<>> = Of(w)
    BY <2>2, ConcatEmptySeq
  <2>5. code'[w] # 0
    BY <2>1 DEF WriterOK
  <2> QED
    BY <1>3, <2>1, <2>3, <2>4, <2>5 DEF WriterOK
<1>7. CASE HiReturn(w)
  <2>1. /\ pc[w] = "fclose" /\ pc'[w] = "done" /\ code'[w] = 0
        /\ buffer[w] = <<>> /\ UNCHANGED <<buffer, broken>>
    BY <1>1, <1>7 DEF HiReturn, At, Return
  <2>2. Of(w) \in Seq(AllPieces)
    BY <1>1, OfType
  <2>3. Of(w) \o <<>> = Of(w)
    BY <2>2, ConcatEmptySeq
  <2> QED
    BY <1>3, <2>1, <2>3 DEF WriterOK
<1>8. CASE Kill(w)
  <2>1. /\ pc[w] # "done" /\ pc'[w] = "killed" /\ code' = code
        /\ UNCHANGED <<buffer, broken>>
    BY <1>1, <1>8 DEF Kill, Goto
  <2>2. code'[w] # 0
    BY <2>1 DEF WriterOK
  <2> QED
    BY <1>3, <2>1, <2>2 DEF WriterOK
<1> QED
  BY <1>4, <1>5, <1>6, <1>7, <1>8

WritersOK == \A w \in HiWriters : WriterOK(w)

LEMMA StepKeepsWritersOK == WInv /\ WritersOK /\ [Next]_vars => WritersOK'
<1> SUFFICES ASSUME WInv, WritersOK, [Next]_vars, NEW w \in HiWriters PROVE WriterOK(w)'
  BY DEF WritersOK
<1>1. WriterOK(w)
  BY DEF WritersOK
<1>2. CASE Untouched(w) /\ \E added \in Seq(AllPieces) :
             file' = file \o added /\ \A i \in 1 .. Len(added) : added[i][1] # w
  BY <1>1, <1>2, UntouchedKeeps
<1>3. CASE WriteSyncHi(w) \/ Kill(w)
  BY <1>1, <1>3, QuietStepKeepsText, FwriteKeepsText, FlushKeepsText DEF WriteSyncHi
<1> QED
  BY <1>2, <1>3, StepOfAWriter

LEMMA WritersOKMeans == WInv /\ WritersOK => TextsInOrder /\ ReturnedTextIsWhole
<1> SUFFICES ASSUME WInv, WritersOK PROVE TextsInOrder /\ ReturnedTextIsWhole
  OBVIOUS
<1>1. TypeOK /\ \A w \in HiWriters : WriterOK(w)
  BY DEF WInv, WritersOK
<1>2. ASSUME NEW w \in HiWriters PROVE IsPrefix(Of(w), Text(w))
  <2>1. /\ Of(w) \in Seq(AllPieces) /\ Text(w) \in Seq(AllPieces)
        /\ buffer[w] \in Seq(AllPieces)
    BY <1>1, OfType, TextIsASeq DEF TypeOK
  <2> QED
    BY <1>1, <2>1, PrefixOfLess DEF WriterOK
<1>3. ASSUME NEW w \in LoWriters PROVE Of(w) = <<>>
  <2>1. w # Others /\ w \notin HiWriters
    BY Bounds DEF Processes
  <2>2. \A i \in 1 .. Len(file) : file[i][1] # w
    <3> TAKE i \in 1 .. Len(file)
    <3>1. file[i] \in AllPieces
      BY <1>1, ElementOfSeq DEF TypeOK
    <3> QED
      BY <2>1, <3>1 DEF AllPieces
  <2> QED
    BY <1>1, <2>2, NothingOf
<1>4. ASSUME NEW w \in HiWriters, code[w] = 0
      PROVE  /\ broken[w] # "lost" => Of(w) = Text(w)
             /\ broken[w] = "no" => InOnePiece(w)
  <2>1. Text(w) # <<>>
    <3>1. Len(Text(w)) # Len(<<>>)
      BY TextIsASeq, EmptySeq, Bounds
    <3> QED
      BY <3>1
  <2> QED
    BY <1>1, <1>4, <2>1 DEF WriterOK
<1> QED
  BY <1>2, <1>3, <1>4 DEF TextsInOrder, ReturnedTextIsWhole, InOnePiece

LEMMA WritersAreOK == Spec => [](TextsInOrder /\ ReturnedTextIsWhole)
<1>1. Init => WInv /\ WritersOK
  BY InitWInv, InitWriterOK DEF WritersOK
<1>2. WInv /\ WritersOK /\ [Next]_vars => (WInv /\ WritersOK)'
  BY StepKeepsWInv, StepKeepsWritersOK
<1> QED
  BY <1>1, <1>2, WritersOKMeans, PTL DEF Spec

(* TextsInOrder of FileSync: what the writers leave in the file is the     *)
(* beginning of their texts, for any number of writers that interleave,    *)
(* fail and are killed, and every length of the texts.                     *)
THEOREM TextsAreInOrder == Spec => []TextsInOrder
BY WritersAreOK, PTL

(* ReturnedTextIsWhole of FileSync: what a writesync_hi that returned 0    *)
(* has in the file.                                                        *)
THEOREM ReturnedTextsAreWhole == Spec => []ReturnedTextIsWhole
BY WritersAreOK, PTL
=============================================================================
