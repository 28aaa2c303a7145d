------------------------------- MODULE WnMsg --------------------------------
(***************************************************************************)
(* The reader and the writer of src/wn_msg.c.                              *)
(*                                                                         *)
(* A message is a sequence of bytes.  A reader is its position and its     *)
(* sticky error; the four wn_Read_ functions differ only in how many bytes *)
(* they take and in what they make of them.  Positions are word32 in the   *)
(* code: a record is at most 2^14 + 256 bytes and a length that is read is *)
(* below 2^24, so their sums do not wrap and are plain numbers here.       *)
(*                                                                         *)
(* Of the writer only the lengths matter: it is the number of bytes        *)
(* written, the capacity and the sticky error.                             *)
(***************************************************************************)
EXTENDS Integers, Sequences

Byte == 0 .. 255
Word16 == 0 .. 65535
Reader == [pos : Nat, err : BOOLEAN]

ReaderInit == [pos |-> 0, err |-> FALSE]

Fits(buf, r, n) == ~r.err /\ r.pos + n <= Len(buf)

(* Mutant: a read that runs short moves the position all the same. *)
SkipAnyway(buf, r, n) == [pos |-> r.pos + n, err |-> ~Fits(buf, r, n)]

(* The next n bytes are taken, or the error is latched. *)
Skip(buf, r, n) == IF Fits(buf, r, n) THEN [r EXCEPT !.pos = @ + n]
                   ELSE [r EXCEPT !.err = TRUE]

(* What wn_Read_Bytes points to; the empty sequence stands for NULL too. *)
ReadBytes(buf, r, n) ==
    IF Fits(buf, r, n) THEN SubSeq(buf, r.pos + 1, r.pos + n) ELSE <<>>

(* wn_Read_U8, _U16, _U24: the next n bytes as a number, 0 when they are short. *)
ReadU(buf, r, n) ==
    IF ~Fits(buf, r, n) THEN 0
    ELSE LET b(k) == buf[r.pos + k] IN
         CASE n = 1 -> b(1)
           [] n = 2 -> 256 * b(1) + b(2)
           [] n = 3 -> 65536 * b(1) + 256 * b(2) + b(3)

-----------------------------------------------------------------------------
WriterInit(cap) == [len |-> 0, cap |-> cap, err |-> FALSE]

(* Mutant: the error is not sticky. *)
WriteNotSticky(w, n) ==
    IF w.len + n <= w.cap THEN [w EXCEPT !.len = @ + n, !.err = FALSE]
    ELSE [w EXCEPT !.err = TRUE]

(* Mutant: what is checked is the room there is, not the room it takes. *)
WriteLateCheck(w, n) ==
    IF ~w.err /\ w.len <= w.cap THEN [w EXCEPT !.len = @ + n]
    ELSE [w EXCEPT !.err = TRUE]

(* wn_Write_U8, _U16, _U24, _Bytes and wn_Write_LenStart of n bytes, and several
   of them in a row.  The code may have written the first of a row when the
   next does not fit; err keeps anyone from reading len after that. *)
Write(w, n) ==
    IF ~w.err /\ w.len + n <= w.cap THEN [w EXCEPT !.len = @ + n]
    ELSE [w EXCEPT !.err = TRUE]

(* wn_Write_LenEnd: the number put into the n bytes before offset. *)
LenEnd(w, offset, n) == (w.len - offset) % (256 ^ n)

-----------------------------------------------------------------------------
(* The encoding of a number, for messages and for the reference grammars. *)
U16(v) == <<v \div 256, v % 256>>
U24(v) == <<v \div 65536, (v \div 256) % 256, v % 256>>
=============================================================================
