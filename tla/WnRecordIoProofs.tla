-------------------------- MODULE WnRecordIoProofs --------------------------
(***************************************************************************)
(* Theorems about WnRecordIo, for every buffer, every sequence of records  *)
(* and every way the transport cuts their bytes: no call writes behind a   *)
(* buffer, records come out whole and in order, the binder is computed     *)
(* over the right part of the hello, what is sent is sent whole, and every *)
(* length in it is that of its content.                                    *)
(***************************************************************************)
EXTENDS WnRecordIo, WnLemmas

-----------------------------------------------------------------------------
(***************************************************************************)
(* A record and the stream of records as bytes.                            *)
(***************************************************************************)
Number == Nat
Record == [type : Byte, body : Seq(Byte)]

Wires(q) == FlattenSeq([k \in DOMAIN q |-> Wire(q[k])])

LEMMA BytesAreNumbers == Seq(Byte) \subseteq Seq(Number)
<1> SUFFICES ASSUME NEW s \in Seq(Byte) PROVE s \in Seq(Number)
  OBVIOUS
<1>1. \A k \in 1 .. Len(s) : s[k] \in Byte
  BY ElementOfSeq
<1>2. \A x \in Byte : x \in Number
  BY DEF Byte, Number
<1>3. Len(s) \in Int /\ 1 \in Int /\ \A k \in 1 .. Len(s) : s[k] \in Number
  BY <1>1, <1>2, LenProperties
<1>4. SubSeq(s, 1, Len(s)) \in Seq(Number)
  BY <1>3, SubSeqProperties
<1> QED BY <1>4, SubSeqFull

LEMMA Halves ==
    ASSUME NEW n \in Nat
    PROVE  /\ n \div 256 \in Nat /\ n % 256 \in Nat
           /\ 256 * (n \div 256) + (n % 256) = n
<1>1. n \div 256 \in Nat
  BY SMT
<1>2. n % 256 \in Nat
  BY SMT
<1>3. 256 * (n \div 256) + (n % 256) = n
  BY SMT
<1> QED BY <1>1, <1>2, <1>3

LEMMA ConcatAt ==
    ASSUME NEW S, NEW a \in Seq(S), NEW b \in Seq(S)
    PROVE  /\ a \o b \in Seq(S) /\ Len(a \o b) = Len(a) + Len(b)
           /\ \A k \in 1 .. Len(a) : (a \o b)[k] = a[k]
           /\ \A k \in 1 .. Len(b) : (a \o b)[Len(a) + k] = b[k]
<1>1. /\ a \o b \in Seq(S) /\ Len(a \o b) = Len(a) + Len(b)
      /\ Len(a) \in Nat /\ Len(b) \in Nat
  BY ConcatProperties, LenProperties
<1>2. \A k \in 1 .. Len(a) : (a \o b)[k] = a[k]
  BY <1>1, ConcatProperties
<1>3. ASSUME NEW k \in 1 .. Len(b)
      PROVE  (a \o b)[Len(a) + k] = b[k]
  <2>1. Len(a) + k \in 1 .. Len(a) + Len(b) /\ ~(Len(a) + k <= Len(a))
        /\ (Len(a) + k) - Len(a) = k
    BY <1>1
  <2> QED BY <2>1, ConcatProperties
<1> QED BY <1>1, <1>2, <1>3

ThreeSeqs(S, a, b, c) == a \in Seq(S) /\ b \in Seq(S) /\ c \in Seq(S)

LEMMA Regroup ==
    ASSUME NEW S, NEW a, NEW b, NEW c, ThreeSeqs(S, a, b, c)
    PROVE  (a \o b) \o c = a \o (b \o c)
<1>1. a \in Seq(S) /\ b \in Seq(S) /\ c \in Seq(S)
  BY DEF ThreeSeqs
<1> QED BY <1>1, ConcatAssociative

(* A header tells the type and the length of what follows it. *)
LEMMA WireParts ==
    ASSUME NEW x \in Record
    PROVE  /\ Wire(x) \in Seq(Number) /\ Len(Wire(x)) = HeaderSz + Len(x.body)
           /\ Len(x.body) \in Nat
           /\ Wire(x)[1] = x.type /\ Frag(Wire(x)) = Len(x.body) /\ Body(Wire(x)) = x.body
<1>1. x.type \in Number /\ x.body \in Seq(Number) /\ Len(x.body) \in Nat
  <2>1. x.type \in Byte /\ x.body \in Seq(Byte)
    BY DEF Record
  <2>2. \A y \in Byte : y \in Number
    BY DEF Byte, Number
  <2> QED BY <2>1, <2>2, BytesAreNumbers, LenProperties
<1>2. PICK n \in Nat : n = Len(x.body)
  BY <1>1
<1>4. PICK a \in Number, b \in Number : a = n \div 256 /\ b = n % 256 /\ 256 * a + b = n
  BY Halves DEF Number
<1>5. U16(n) = <<a, b>>
  BY <1>4 DEF U16
<1>6. PICK c \in Number : c = x.type
  BY <1>1
<1>7. PICK h \in Seq(Number) : /\ h = <<c, 3, 3>> \o <<a, b>> /\ Len(h) = 5
                              /\ h[1] = c /\ h[4] = a /\ h[5] = b
  <2>1. 3 \in Number
    BY DEF Number
  <2>2. PICK e \in Seq(Number) : e = <<c, 3, 3>> /\ Len(e) = 3 /\ e[1] = c
    <3>1. <<c, 3, 3>> \in Seq(Number)
      BY <2>1
    <3>2. Len(<<c, 3, 3>>) = 3 /\ <<c, 3, 3>>[1] = c
      OBVIOUS
    <3> QED BY <3>1, <3>2
  <2>3. PICK f \in Seq(Number) : f = <<a, b>> /\ Len(f) = 2 /\ f[1] = a /\ f[2] = b
    <3>1. <<a, b>> \in Seq(Number)
      OBVIOUS
    <3>2. Len(<<a, b>>) = 2 /\ <<a, b>>[1] = a /\ <<a, b>>[2] = b
      OBVIOUS
    <3> QED BY <3>1, <3>2
  <2>4. 1 \in 1 .. Len(e) /\ 1 \in 1 .. Len(f) /\ 2 \in 1 .. Len(f)
    BY <2>2, <2>3
  <2>5. /\ e \o f \in Seq(Number) /\ Len(e \o f) = Len(e) + Len(f)
        /\ (e \o f)[1] = e[1] /\ (e \o f)[Len(e) + 1] = f[1] /\ (e \o f)[Len(e) + 2] = f[2]
    BY <2>4, ConcatAt
  <2>6. 3 + 1 = 4 /\ 3 + 2 = 5
    OBVIOUS
  <2>7. Len(e \o f) = 5 /\ (e \o f)[1] = c /\ (e \o f)[4] = a /\ (e \o f)[5] = b
    BY <2>2, <2>3, <2>5, <2>6
  <2> QED BY <2>2, <2>3, <2>5, <2>7
<1>8. PICK d \in Seq(Number) : d = x.body /\ Len(d) = n
  BY <1>1, <1>2
<1>9. Wire(x) = h \o d
  BY <1>2, <1>5, <1>6, <1>7, <1>8 DEF Wire
<1>10. PICK q \in Seq(Number) : /\ q = h \o d /\ Len(q) = 5 + n
         /\ q[1] = c /\ q[4] = a /\ q[5] = b /\ \A k \in 1 .. n : q[5 + k] = d[k]
  <2>1. 1 \in 1 .. Len(h) /\ 4 \in 1 .. Len(h) /\ 5 \in 1 .. Len(h)
    BY <1>7
  <2>2. /\ h \o d \in Seq(Number) /\ Len(h \o d) = Len(h) + Len(d)
        /\ \A k \in 1 .. Len(h) : (h \o d)[k] = h[k]
        /\ \A k \in 1 .. Len(d) : (h \o d)[Len(h) + k] = d[k]
    BY ConcatAt
  <2>3. (h \o d)[1] = c /\ (h \o d)[4] = a /\ (h \o d)[5] = b
    BY <1>7, <2>1, <2>2
  <2>4. /\ h \o d \in Seq(Number) /\ Len(h \o d) = 5 + n
        /\ \A k \in 1 .. n : (h \o d)[5 + k] = d[k]
    BY <1>7, <1>8, <2>2
  <2> QED BY <2>3, <2>4
<1>11. Frag(q) = n
  BY <1>4, <1>10 DEF Frag
<1>12. Body(q) = d
  <2>1. 5 \in 0 .. Len(q) /\ 5 + n \in 5 .. Len(q) /\ (5 + n) - 5 = n /\ 5 + 1 = 6
    BY SMTT(60), <1>10
  <2>2. /\ SubSeq(q, 5 + 1, 5 + n) \in Seq(Number) /\ Len(SubSeq(q, 5 + 1, 5 + n)) = (5 + n) - 5
        /\ \A k \in 1 .. (5 + n) - 5 : SubSeq(q, 5 + 1, 5 + n)[k] = q[5 + k]
    BY <2>1, SubSeqPiece
  <2>3. PICK s \in Seq(Number) : s = SubSeq(q, 5 + 1, 5 + n) /\ Len(s) = n
                                /\ \A k \in 1 .. n : s[k] = q[5 + k]
    BY <2>1, <2>2
  <2>4. \A k \in 1 .. n : s[k] = d[k]
    BY <1>10, <2>3
  <2>5. s = d
    BY <1>8, <2>3, <2>4, SeqEqual
  <2> QED BY <1>10, <2>3, <2>5 DEF Body, HeaderSz
<1> QED BY <1>2, <1>6, <1>8, <1>9, <1>10, <1>11, <1>12 DEF HeaderSz

LEMMA WireMap ==
    \E f : /\ MapsTo(f, Record, Number)
           /\ \A x \in Record : f[x] = Wire(x)
           /\ \A q \in Seq(Record) : Wires(q) = FlatMap(f, q)
<1> DEFINE f == [x \in Record |-> Wire(x)]
<1>1. MapsTo(f, Record, Number)
  BY WireParts DEF MapsTo
<1>2. \A x \in Record : f[x] = Wire(x)
  OBVIOUS
<1> HIDE DEF f
<1>3. ASSUME NEW q \in Seq(Record)
      PROVE  Wires(q) = FlatMap(f, q)
  <2>1. \A k \in DOMAIN q : q[k] \in Record
    BY ElementOfSeq, LenProperties
  <2>2. [k \in DOMAIN q |-> f[q[k]]] = [k \in DOMAIN q |-> Wire(q[k])]
    BY <1>2, <2>1
  <2> QED BY <2>2 DEF Wires, FlatMap
<1> QED BY <1>1, <1>2, <1>3

LEMMA KeptMap ==
    \E f : /\ MapsTo(f, Record, Record)
           /\ \A x \in Record : f[x] = IF WellFormed(x) THEN <<x>> ELSE <<>>
           /\ \A q \in Seq(Record) : Kept(q) = FlatMap(f, q)
<1> DEFINE f == [x \in Record |-> IF WellFormed(x) THEN <<x>> ELSE <<>>]
<1>1. MapsTo(f, Record, Record)
  <2>1. ASSUME NEW x \in Record
        PROVE  (IF WellFormed(x) THEN <<x>> ELSE <<>>) \in Seq(Record)
    <3>1. <<x>> \in Seq(Record) /\ <<>> \in Seq(Record)
      OBVIOUS
    <3> QED BY <3>1
  <2> QED BY <2>1 DEF MapsTo
<1>2. \A x \in Record : f[x] = IF WellFormed(x) THEN <<x>> ELSE <<>>
  OBVIOUS
<1> HIDE DEF f
<1>3. ASSUME NEW q \in Seq(Record)
      PROVE  Kept(q) = FlatMap(f, q)
  <2>1. \A k \in DOMAIN q : q[k] \in Record
    BY ElementOfSeq, LenProperties
  <2>2. [k \in DOMAIN q |-> f[q[k]]]
          = [k \in DOMAIN q |-> IF WellFormed(q[k]) THEN <<q[k]>> ELSE <<>>]
    BY <1>2, <2>1
  <2> QED BY <2>2 DEF Kept, FlatMap
<1> QED BY <1>1, <1>2, <1>3

(* Two sequences that both follow p at the front of s agree as far as both go. *)
SamePlace(S, p, x, t, y) ==
    /\ p \in Seq(S) /\ x \in Seq(S) /\ t \in Seq(S) /\ y \in Seq(S)
    /\ Len(y) <= Len(x)
    /\ SubSeq(p \o (x \o t), 1, Len(p) + Len(y)) = p \o y

LEMMA SamePart ==
    ASSUME NEW S, NEW p, NEW x, NEW t, NEW y, SamePlace(S, p, x, t, y)
    PROVE  \A k \in 1 .. Len(y) : y[k] = x[k]
<1>1. /\ p \in Seq(S) /\ x \in Seq(S) /\ t \in Seq(S) /\ y \in Seq(S)
      /\ Len(y) <= Len(x)
      /\ SubSeq(p \o (x \o t), 1, Len(p) + Len(y)) = p \o y
      /\ Len(p) \in Nat /\ Len(x) \in Nat /\ Len(y) \in Nat /\ Len(t) \in Nat
  BY LenProperties DEF SamePlace
<1> SUFFICES ASSUME NEW k \in 1 .. Len(y) PROVE y[k] = x[k]
  OBVIOUS
<1>2. PICK z \in Seq(S) : z = x \o t
  BY <1>1, ConcatProperties
<1>3. Len(z) = Len(x) + Len(t) /\ z[k] = x[k]
  BY <1>1, <1>2, ConcatProperties
<1>4. PICK s \in Seq(S) : s = p \o z
  BY <1>1, ConcatProperties
<1>5. Len(s) = Len(p) + Len(z) /\ s[Len(p) + k] = z[k]
  <2>1. Len(p) + k \in 1 .. Len(p) + Len(z) /\ ~(Len(p) + k <= Len(p))
        /\ (Len(p) + k) - Len(p) = k
    BY <1>1, <1>3
  <2> QED BY <1>1, <1>4, <2>1, ConcatProperties
<1>6. (p \o y)[Len(p) + k] = y[k]
  <2>1. Len(p) + k \in 1 .. Len(p) + Len(y) /\ ~(Len(p) + k <= Len(p))
        /\ (Len(p) + k) - Len(p) = k
    BY <1>1
  <2> QED BY <1>1, <2>1, ConcatProperties
<1>7. SubSeq(s, 1, Len(p) + Len(y))[Len(p) + k] = s[Len(p) + k]
  <2>1. Len(p) + Len(y) \in 0 .. Len(s) /\ Len(p) + k \in 1 .. Len(p) + Len(y)
    BY <1>1, <1>3, <1>5
  <2> QED BY <2>1, SubSeqFromOne
<1> QED BY <1>1, <1>2, <1>3, <1>4, <1>5, <1>6, <1>7


-----------------------------------------------------------------------------
(***************************************************************************)
(* The reader of records stands, in the stream, behind some number of      *)
(* whole records and the bytes it has of the next one.                     *)
(***************************************************************************)
Lead(n) == SubSeq(records, 1, n)

Reading(n) ==
    /\ n \in Nat /\ n <= Len(records)
    /\ got = Kept(Lead(n))
    /\ SubSeq(stream, 1, pos) = Wires(Lead(n)) \o rec
    /\ \/ need = HeaderSz
       \/ /\ n < Len(records) /\ HeaderSz < need
          /\ need = HeaderSz + Len(records[n + 1].body)

Admitted == \A k \in DOMAIN records : LengthOk(Len(records[k].body))

InStep == (fails = 0 /\ Admitted) => \E n \in Nat : Reading(n)

RecvShape ==
    /\ records \in Seq(Record)
    /\ rec \in Seq(Number) /\ pos \in Nat /\ pos <= Len(stream)
    /\ need \in Nat /\ HeaderSz <= need /\ need <= Cap /\ Len(rec) <= need
    /\ fails \in Nat

RecvInv == RecvShape /\ InStep

LEMMA StreamType == records \in Seq(Record) =>
                       stream = Wires(records) /\ stream \in Seq(Number)
<1> SUFFICES ASSUME records \in Seq(Record)
             PROVE  stream = Wires(records) /\ stream \in Seq(Number)
  OBVIOUS
<1>1. PICK f : MapsTo(f, Record, Number) /\ \A q \in Seq(Record) : Wires(q) = FlatMap(f, q)
  BY WireMap
<1>2. PICK n \in Nat : n = Len(records)
  BY LenProperties
<1>3. FlatMap(f, SubSeq(records, 1, n)) \in Seq(Number)
  <2>1. SplitsAt(f, Record, Number, records, n)
    BY <1>1, <1>2 DEF SplitsAt
  <2> QED BY <2>1, FlatMapSplit DEF Splits
<1>4. SubSeq(records, 1, n) = records
  BY <1>2, SubSeqFull
<1> QED BY <1>1, <1>3, <1>4 DEF stream, Wires

(* What follows the first n records in the stream, and what of it is kept. *)
Following(n) ==
    /\ records[n + 1] \in Record
    /\ Wires(Lead(n)) \in Seq(Number) /\ Kept(Lead(n)) \in Seq(Record)
    /\ \E t \in Seq(Number) : stream = Wires(Lead(n)) \o (Wire(records[n + 1]) \o t)
    /\ Wires(Lead(n + 1)) = Wires(Lead(n)) \o Wire(records[n + 1])
    /\ Kept(Lead(n + 1)) = Kept(Lead(n))
                             \o (IF WellFormed(records[n + 1]) THEN <<records[n + 1]>> ELSE <<>>)

LEMMA NextFollows ==
    ASSUME records \in Seq(Record), NEW n \in Nat, n < Len(records)
    PROVE  Following(n)
<1>1. PICK f : /\ MapsTo(f, Record, Number) /\ \A x \in Record : f[x] = Wire(x)
               /\ \A q \in Seq(Record) : Wires(q) = FlatMap(f, q)
  BY WireMap
<1>2. PICK g : /\ MapsTo(g, Record, Record)
               /\ \A x \in Record : g[x] = IF WellFormed(x) THEN <<x>> ELSE <<>>
               /\ \A q \in Seq(Record) : Kept(q) = FlatMap(g, q)
  BY KeptMap
<1>3. Len(records) \in Nat /\ n \in 0 .. Len(records) /\ n + 1 \in 0 .. Len(records)
  BY LenProperties
<1>4. Lead(n) \in Seq(Record) /\ Lead(n + 1) \in Seq(Record)
  BY <1>3, SubSeqFromOne DEF Lead
<1>5. MapsNext(f, Record, Number, records, n) /\ MapsNext(g, Record, Record, records, n)
  <2>1. MapsAt(f, Record, Number, records, n) /\ MapsAt(g, Record, Record, records, n)
    BY <1>1, <1>2 DEF MapsAt
  <2> QED BY <2>1, FlatMapNext
<1>6. PICK x \in Record : x = records[n + 1]
  BY <1>5 DEF MapsNext
<1>7. /\ Wires(Lead(n)) \in Seq(Number)
      /\ Wires(Lead(n + 1)) = Wires(Lead(n)) \o Wire(x)
  BY <1>1, <1>4, <1>5, <1>6 DEF MapsNext, Lead
<1>8. /\ Kept(Lead(n)) \in Seq(Record)
      /\ Kept(Lead(n + 1)) = Kept(Lead(n)) \o g[x]
  BY <1>2, <1>4, <1>5, <1>6 DEF MapsNext, Lead
<1>9. PICK m \in Nat : m = n + 1 /\ m <= Len(records)
  BY <1>3
<1>10. \E t \in Seq(Number) : FlatMap(f, records) = FlatMap(f, SubSeq(records, 1, m)) \o t
  <2>1. PICK q \in Seq(Record) : q = records /\ m <= Len(q)
    BY <1>9
  <2>2. MapsTo(f, Record, Number)
    BY <1>1
  <2>3. Splits(f, Number, q, m)
    <3>1. SplitsAt(f, Record, Number, q, m)
      BY <2>1, <2>2 DEF SplitsAt
    <3> QED BY <3>1, FlatMapSplit
  <2> QED BY <2>1, <2>3 DEF Splits
<1>11. PICK t \in Seq(Number) : stream = Wires(Lead(n + 1)) \o t
  <2>1. PICK t \in Seq(Number) : FlatMap(f, records) = FlatMap(f, SubSeq(records, 1, m)) \o t
    BY <1>10
  <2>2. stream = FlatMap(f, records) /\ Wires(Lead(n + 1)) = FlatMap(f, SubSeq(records, 1, m))
    BY <1>1, <1>4, <1>9, StreamType DEF Lead
  <2> QED BY <2>1, <2>2
<1>12. PICK a \in Seq(Number), b \in Seq(Number) : a = Wires(Lead(n)) /\ b = Wire(x)
  BY <1>7, WireParts
<1>13. (a \o b) \o t = a \o (b \o t)
  BY SMTT(60), ConcatAssociative
<1>14. stream = Wires(Lead(n)) \o (Wire(x) \o t)
  BY <1>7, <1>11, <1>12, <1>13
<1>15. g[x] = IF WellFormed(x) THEN <<x>> ELSE <<>>
  BY <1>2
<1>16. Kept(Lead(n + 1)) = Kept(Lead(n)) \o (IF WellFormed(x) THEN <<x>> ELSE <<>>)
  BY <1>8, <1>15
<1>17. \E u \in Seq(Number) : stream = Wires(Lead(n)) \o (Wire(x) \o u)
  BY <1>14
<1> QED BY <1>6, <1>7, <1>8, <1>16, <1>17 DEF Following

-----------------------------------------------------------------------------
(* Init: nothing has been read, and nothing is kept of nothing. *)
LEMMA RecvInit == Init => RecvInv
<1> SUFFICES ASSUME Init PROVE RecvInv
  OBVIOUS
<1>1. records \in Seq(Record)
  BY RecordIoAssumption DEF Init, HelloInit, Record
<1>2. /\ pos = 0 /\ rec = <<>> /\ need = HeaderSz /\ got = <<>> /\ fails = 0
  BY DEF Init
<1>3. Len(records) \in Nat
  BY <1>1, LenProperties
<1>4. RecvShape
  <2>1. <<>> \in Seq(Number) /\ Len(<<>>) = 0
    OBVIOUS
  <2>2. stream \in Seq(Number) /\ Len(stream) \in Nat
    BY <1>1, StreamType, LenProperties
  <2>3. 5 \in Nat /\ 5 <= Cap /\ Cap \in Nat
    BY RecordIoAssumption
  <2> QED BY <1>1, <1>2, <2>1, <2>2, <2>3 DEF RecvShape, HeaderSz
<1>5. Reading(0)
  <2>1. Lead(0) = <<>>
    BY <1>1 DEF Lead
  <2>2. Kept(<<>>) = <<>>
    <3>1. PICK g : \A q \in Seq(Record) : Kept(q) = FlatMap(g, q)
      BY KeptMap
    <3>2. <<>> \in Seq(Record)
      OBVIOUS
    <3> QED BY <3>1, <3>2, FlatMapEmpty
  <2>3. Wires(<<>>) = <<>>
    <3>1. PICK g : \A q \in Seq(Record) : Wires(q) = FlatMap(g, q)
      BY WireMap
    <3>2. <<>> \in Seq(Record)
      OBVIOUS
    <3> QED BY <3>1, <3>2, FlatMapEmpty
  <2>4. SubSeq(stream, 1, pos) = <<>> /\ <<>> \o <<>> = <<>>
    <3>1. stream \in Seq(Number)
      BY <1>1, StreamType
    <3>2. SubSeq(stream, 1, 0) = <<>>
      BY <3>1
    <3>3. <<>> \o <<>> = <<>>
      BY <3>1, ConcatEmptySeq
    <3> QED BY <1>2, <3>2, <3>3
  <2>5. got = Kept(Lead(0))
    BY <1>2, <2>1, <2>2
  <2>6. SubSeq(stream, 1, pos) = Wires(Lead(0)) \o rec
    BY <1>2, <2>1, <2>3, <2>4
  <2>7. 0 \in Nat /\ 0 <= Len(records)
    BY <1>3
  <2> QED BY <1>2, <2>5, <2>6, <2>7, Zenon DEF Reading
<1> QED BY <1>4, <1>5 DEF RecvInv, InStep

LEMMA RecvStutter == RecvInv /\ UNCHANGED recvVars => RecvInv'
<1> SUFFICES ASSUME RecvInv, UNCHANGED recvVars PROVE RecvInv'
  OBVIOUS
<1>1. /\ records' = records /\ pos' = pos /\ rec' = rec /\ need' = need
      /\ got' = got /\ fails' = fails
  BY DEF recvVars
<1>2. stream' = stream
  BY <1>1 DEF stream
<1>3. RecvShape'
  BY <1>1, <1>2 DEF RecvInv, RecvShape
<1>4. InStep'
  BY <1>1, <1>2 DEF RecvInv, InStep, Admitted, Reading, Lead
<1> QED BY <1>3, <1>4 DEF RecvInv

(* A transport that has failed may leave the reader anywhere. *)
LEMMA RecvFailsStep == RecvInv /\ RecvFails => RecvInv'
<1> SUFFICES ASSUME RecvInv, RecvFails PROVE RecvInv'
  OBVIOUS
<1>1. /\ records' = records /\ pos' = pos /\ rec' = <<>> /\ need' = HeaderSz
      /\ fails' = fails + 1
  BY DEF RecvFails, Return
<1>2. stream' = stream
  BY <1>1 DEF stream
<1>3. <<>> \in Seq(Number) /\ Len(<<>>) = 0
  OBVIOUS
<1>4. 5 \in Nat /\ 5 <= Cap
  BY RecordIoAssumption
<1>5. fails + 1 \in Nat /\ fails + 1 # 0
  BY DEF RecvInv, RecvShape
<1>6. RecvShape'
  BY <1>1, <1>2, <1>3, <1>4, <1>5 DEF RecvInv, RecvShape, HeaderSz
<1>7. InStep'
  BY <1>1, <1>5 DEF InStep
<1> QED BY <1>6, <1>7 DEF RecvInv

(* What has been taken from the stream grows by what the transport hands out. *)
Handed(k) == SubSeq(stream, pos + 1, pos + k)

LEMMA HandedOver ==
    ASSUME RecvShape, NEW k \in Nat, pos + k <= Len(stream)
    PROVE  /\ Handed(k) \in Seq(Number) /\ Len(Handed(k)) = k
           /\ rec \o Handed(k) \in Seq(Number) /\ Len(rec \o Handed(k)) = Len(rec) + k
           /\ Len(rec) \in Nat /\ Len(stream) \in Nat
           /\ SubSeq(stream, 1, pos + k) = SubSeq(stream, 1, pos) \o Handed(k)
<1>1. PICK s \in Seq(Number) : s = stream
  BY StreamType DEF RecvShape
<1>2. Len(s) \in Nat /\ rec \in Seq(Number) /\ Len(rec) \in Nat
  BY <1>1, LenProperties DEF RecvShape
<1>3. PICK m \in Nat, n \in Nat : /\ m = pos /\ n = pos + k
                               /\ m \in 0 .. Len(s) /\ n \in m .. Len(s)
  BY <1>1, <1>2 DEF RecvShape
<1>4. n - m = k /\ pos \in Nat
  BY <1>3 DEF RecvShape
<1>5. SubSeq(s, m + 1, n) \in Seq(Number) /\ Len(SubSeq(s, m + 1, n)) = n - m
  BY <1>3, SubSeqPiece
<1>6. SubSeq(s, 1, m) \o SubSeq(s, m + 1, n) = SubSeq(s, 1, n)
  BY <1>3, SubSeqConcat
<1>7. PICK h \in Seq(Number) : h = Handed(k) /\ Len(h) = k
  BY <1>1, <1>3, <1>4, <1>5 DEF Handed
<1>8. rec \o h \in Seq(Number) /\ Len(rec \o h) = Len(rec) + k
  <2>1. PICK a \in Seq(Number) : a = rec
    BY <1>2
  <2>2. a \o h \in Seq(Number) /\ Len(a \o h) = Len(a) + Len(h)
    BY ConcatProperties
  <2> QED BY <1>7, <2>1, <2>2
<1>9. SubSeq(stream, 1, pos + k) = SubSeq(stream, 1, pos) \o Handed(k)
  BY <1>1, <1>3, <1>6 DEF Handed
<1> QED BY <1>1, <1>2, <1>7, <1>8, <1>9

(* While more bytes are handed out than make up the first n records, there is
   a record behind them; and what the reader has of it agrees with it. *)
Taken(n, k) ==
    /\ Following(n) /\ n < Len(records) /\ records[n + 1] \in Record
    /\ SubSeq(stream, 1, pos + k) = Wires(Lead(n)) \o (rec \o Handed(k))
    /\ Len(rec) + k <= Len(Wire(records[n + 1])) =>
          \A m \in 1 .. Len(rec) + k : (rec \o Handed(k))[m] = Wire(records[n + 1])[m]

LEMMA TakenFrom ==
    ASSUME RecvShape, NEW n \in Nat, Reading(n), NEW k \in Nat, k # 0, pos + k <= Len(stream)
    PROVE  Taken(n, k)
<1>1. n <= Len(records) /\ SubSeq(stream, 1, pos) = Wires(Lead(n)) \o rec
      /\ records \in Seq(Record) /\ pos \in Nat /\ rec \in Seq(Number)
  BY DEF Reading, RecvShape
<1>2. PICK s \in Seq(Number) : s = stream /\ Len(s) \in Nat
  BY <1>1, StreamType, LenProperties
<1>3. PICK e \in Seq(Number) : e = Handed(k) /\ Len(e) = k
  BY HandedOver
<1>4. PICK c \in Seq(Number) : c = rec /\ Len(c) \in Nat
  BY <1>1, LenProperties
<1>5. PICK p \in Seq(Number) : p = Wires(Lead(n)) /\ Len(p) \in Nat
  <2>1. CASE n = Len(records)
    <3>1. Lead(n) = records
      BY <1>1, <2>1, SubSeqFull DEF Lead
    <3> QED BY <1>1, <3>1, StreamType, LenProperties
  <2>2. CASE n < Len(records)
    <3>1. Wires(Lead(n)) \in Seq(Number)
      BY <1>1, <2>2, NextFollows DEF Following
    <3> QED BY <3>1, LenProperties
  <2>3. Len(records) \in Nat
    BY <1>1, LenProperties
  <2> QED BY <1>1, <2>1, <2>2, <2>3
<1>6. PICK r2 \in Seq(Number) : r2 = c \o e /\ Len(r2) = Len(c) + k
  <2>1. c \o e \in Seq(Number) /\ Len(c \o e) = Len(c) + Len(e)
    BY ConcatProperties
  <2> QED BY <1>3, <2>1
<1>7. SubSeq(s, 1, pos + k) = p \o r2
  <2>1. (p \o c) \o e = p \o (c \o e)
    <3>1. ThreeSeqs(Number, p, c, e)
      BY DEF ThreeSeqs
    <3> QED BY <3>1, Regroup
  <2>2. SubSeq(stream, 1, pos + k) = SubSeq(stream, 1, pos) \o Handed(k)
    BY HandedOver
  <2> QED BY <1>1, <1>2, <1>3, <1>4, <1>5, <1>6, <2>1, <2>2
<1>8. pos + k = Len(p) + Len(r2)
  <2>1. PICK b \in 0 .. Len(s) : b = pos + k
    BY <1>1, <1>2
  <2>2. Len(SubSeq(s, 1, b)) = b
    BY SubSeqFromOne
  <2>3. Len(p \o r2) = Len(p) + Len(r2)
    BY ConcatProperties
  <2> QED BY <1>7, <2>1, <2>2, <2>3
<1>9. n < Len(records)
  <2> SUFFICES ASSUME n = Len(records) PROVE FALSE
    <3>1. Len(records) \in Nat
      BY <1>1, LenProperties
    <3> QED BY <1>1, <3>1
  <2>1. Lead(n) = records
    BY <1>1, SubSeqFull DEF Lead
  <2>2. p = s
    BY <1>1, <1>2, <1>5, <2>1, StreamType
  <2>3. Len(s) + Len(r2) <= Len(s)
    BY <1>2, <1>8, <2>2
  <2>4. Len(r2) \in Nat /\ Len(r2) # 0
    BY <1>4, <1>6
  <2> QED BY <1>2, <2>3, <2>4
<1>10. Following(n)
  BY <1>1, <1>9, NextFollows
<1>11. PICK x \in Record : x = records[n + 1]
  BY <1>10 DEF Following
<1>12. PICK t \in Seq(Number) : s = p \o (Wire(x) \o t)
  BY <1>2, <1>5, <1>10, <1>11 DEF Following
<1>13. ASSUME Len(c) + k <= Len(Wire(x))
       PROVE  \A m \in 1 .. Len(c) + k : r2[m] = Wire(x)[m]
  <2>1. Wire(x) \in Seq(Number)
    BY WireParts
  <2>2. SamePlace(Number, p, Wire(x), t, r2)
    BY <1>6, <1>7, <1>8, <1>12, <1>13, <2>1 DEF SamePlace
  <2>3. \A m \in 1 .. Len(r2) : r2[m] = Wire(x)[m]
    BY <2>2, SamePart
  <2> QED BY <1>6, <2>3
<1>14. SubSeq(stream, 1, pos + k) = Wires(Lead(n)) \o (rec \o Handed(k))
  BY <1>2, <1>3, <1>4, <1>5, <1>6, <1>7
<1>15. Len(rec) + k <= Len(Wire(records[n + 1])) =>
          \A m \in 1 .. Len(rec) + k : (rec \o Handed(k))[m] = Wire(records[n + 1])[m]
  BY <1>3, <1>4, <1>6, <1>11, <1>13
<1> QED BY <1>9, <1>10, <1>11, <1>14, <1>15 DEF Taken

(* What the step makes of the bytes it has been handed *)
LEMMA RecvCases ==
    ASSUME NEW k, RecvSome(k), NEW r2, r2 = rec \o Handed(k)
    PROVE  /\ Len(rec) + k <= need /\ pos + k <= Len(stream)
           /\ pos' = pos + k /\ records' = records /\ fails' = fails
           /\ \/ Len(rec) + k # need /\ rec' = r2 /\ need' = need /\ got' = got
              \/ /\ Len(rec) + k = need /\ need = HeaderSz /\ got' = got
                 /\ LengthOk(Frag(r2)) /\ rec' = r2 /\ need' = Whole(r2)
              \/ /\ Len(rec) + k = need /\ need = HeaderSz /\ got' = got
                 /\ ~LengthOk(Frag(r2)) /\ rec' = <<>> /\ need' = HeaderSz
              \/ /\ Len(rec) + k = need /\ need # HeaderSz /\ got' = got
                 /\ r2[1] = ChangeCipher /\ Body(r2) # <<1>>
                 /\ rec' = <<>> /\ need' = HeaderSz
              \/ /\ Len(rec) + k = need /\ need # HeaderSz
                 /\ ~(r2[1] = ChangeCipher /\ Body(r2) # <<1>>)
                 /\ rec' = <<>> /\ need' = HeaderSz
                 /\ got' = Append(got, [type |-> r2[1], body |-> Body(r2)])
<1>1. /\ Len(rec) + k <= need /\ pos + k <= Len(stream)
      /\ pos' = pos + k /\ records' = records /\ fails' = fails
  BY DEF RecvSome
<1>2. IF Len(rec) + k # need THEN rec' = r2 /\ need' = need /\ got' = got
      ELSE IF need = HeaderSz
      THEN /\ IF LengthOk(Frag(r2)) THEN rec' = r2 /\ need' = Whole(r2)
              ELSE rec' = <<>> /\ need' = HeaderSz
           /\ got' = got
      ELSE IF r2[1] = ChangeCipher /\ Body(r2) # <<1>>
      THEN rec' = <<>> /\ need' = HeaderSz /\ got' = got
      ELSE /\ rec' = <<>> /\ need' = HeaderSz
           /\ got' = Append(got, [type |-> r2[1], body |-> Body(r2)])
  BY Zenon DEF RecvSome, Complete, Return, Handed
<1> QED BY <1>1, <1>2

LEMMA RecvShapeStep ==
    ASSUME RecvShape, NEW k \in 1 .. Cap, RecvSome(k)
    PROVE  RecvShape' /\ stream' = stream
<1>1. PICK r2 : r2 = rec \o Handed(k)
  OBVIOUS
<1>0. /\ Len(rec) + k <= need /\ pos + k <= Len(stream)
      /\ pos' = pos + k /\ records' = records /\ fails' = fails
  BY <1>1, RecvCases
<1>2. /\ Len(rec) + k <= need /\ pos + k <= Len(stream)
      /\ pos' = pos + k /\ records' = records /\ fails' = fails
      /\ \/ rec' = r2 /\ need' = need
         \/ /\ Len(rec) + k = HeaderSz /\ need = HeaderSz /\ LengthOk(Frag(r2))
            /\ rec' = r2 /\ need' = Whole(r2)
         \/ rec' = <<>> /\ need' = HeaderSz
  <2>1. \/ rec' = r2 /\ need' = need
        \/ /\ Len(rec) + k = need /\ need = HeaderSz /\ LengthOk(Frag(r2))
           /\ rec' = r2 /\ need' = Whole(r2)
        \/ rec' = <<>> /\ need' = HeaderSz
    <3>1. IF Len(rec) + k # need THEN rec' = r2 /\ need' = need
          ELSE IF need = HeaderSz
          THEN IF LengthOk(Frag(r2)) THEN rec' = r2 /\ need' = Whole(r2)
               ELSE rec' = <<>> /\ need' = HeaderSz
          ELSE rec' = <<>> /\ need' = HeaderSz
      BY <1>1, Zenon DEF RecvSome, Complete, Return, Handed
    <3> QED BY <3>1
  <2> QED BY <1>0, <2>1
<1>3. k \in Nat /\ Cap \in Nat /\ 5 <= Cap
  BY RecordIoAssumption
<1>4. r2 \in Seq(Number) /\ Len(r2) = Len(rec) + k
  BY <1>1, <1>2, <1>3, HandedOver
<1>5. stream' = stream
  BY <1>2 DEF stream
<1>6. records' \in Seq(Record) /\ pos' \in Nat /\ pos' <= Len(stream) /\ fails' \in Nat
  BY <1>2, <1>3 DEF RecvShape
<1>7. /\ rec' \in Seq(Number) /\ need' \in Nat /\ HeaderSz <= need' /\ need' <= Cap
      /\ Len(rec') <= need'
  <2>1. CASE rec' = r2 /\ need' = need
    BY <1>2, <1>4, <2>1 DEF RecvShape
  <2>2. CASE /\ Len(rec) + k = HeaderSz /\ need = HeaderSz /\ LengthOk(Frag(r2))
             /\ rec' = r2 /\ need' = Whole(r2)
    <3>1. 4 \in 1 .. Len(r2) /\ 5 \in 1 .. Len(r2) /\ Len(r2) = 5
      BY <1>4, <2>2 DEF HeaderSz
    <3>2. r2[4] \in Number /\ r2[5] \in Number
      BY <1>4, <3>1, ElementOfSeq
    <3>3. PICK v \in Nat : v = Frag(r2)
      BY <3>2 DEF Number, Frag
    <3>4. v + 5 <= Cap
      BY <2>2, <3>3 DEF LengthOk, HeaderSz
    <3>5. need' = 5 + v
      BY <2>2, <3>3 DEF Whole, HeaderSz
    <3> QED BY <1>3, <1>4, <2>2, <3>1, <3>3, <3>4, <3>5 DEF HeaderSz
  <2>3. CASE rec' = <<>> /\ need' = HeaderSz
    <3>1. <<>> \in Seq(Number) /\ Len(<<>>) = 0
      OBVIOUS
    <3> QED BY <1>3, <2>3, <3>1 DEF HeaderSz
  <2> QED BY <1>2, <2>1, <2>2, <2>3
<1> QED BY <1>5, <1>6, <1>7 DEF RecvShape

(* While the transport has not failed, a length read is a record's length, *)
(* and what is complete is the next record.                                *)
LEMMA RecvInStepStep ==
    ASSUME RecvInv, NEW k \in 1 .. Cap, RecvSome(k)
    PROVE  InStep'
<1> SUFFICES ASSUME fails' = 0, Admitted' PROVE \E n \in Nat : Reading(n)'
  BY DEF InStep
<1>1. PICK r2 : r2 = rec \o Handed(k)
  OBVIOUS
<1>2. /\ Len(rec) + k <= need /\ pos + k <= Len(stream)
      /\ pos' = pos + k /\ records' = records /\ fails' = fails
  BY <1>1, RecvCases
<1>3. k \in Nat /\ k # 0 /\ Len(rec) \in Nat /\ need \in Nat
      /\ r2 \in Seq(Number) /\ Len(r2) = Len(rec) + k
  <2>1. k \in Nat /\ k # 0
    BY RecordIoAssumption
  <2> QED BY <1>1, <1>2, <2>1, HandedOver DEF RecvInv, RecvShape
<1>4. stream' = stream /\ RecvShape
  BY RecvShapeStep DEF RecvInv
<1>5. PICK n \in Nat : Reading(n)
  BY <1>2 DEF RecvInv, InStep, Admitted
<1>6. /\ n <= Len(records) /\ got = Kept(Lead(n))
      /\ need = HeaderSz \/ need = HeaderSz + Len(records[n + 1].body)
  BY <1>5 DEF Reading
<1>7. Taken(n, k)
  BY <1>2, <1>3, <1>4, <1>5, TakenFrom
<1>8. PICK x \in Record : x = records[n + 1]
  BY <1>7 DEF Taken
<1>9. /\ Following(n) /\ n < Len(records)
      /\ SubSeq(stream, 1, pos + k) = Wires(Lead(n)) \o r2
      /\ Len(r2) <= Len(Wire(x)) => \A m \in 1 .. Len(r2) : r2[m] = Wire(x)[m]
  BY <1>1, <1>3, <1>7, <1>8 DEF Taken
<1>10. /\ Wire(x) \in Seq(Number) /\ Len(Wire(x)) = HeaderSz + Len(x.body)
       /\ Len(x.body) \in Nat
       /\ Wire(x)[1] = x.type /\ Frag(Wire(x)) = Len(x.body) /\ Body(Wire(x)) = x.body
  BY WireParts
<1>11. LengthOk(Len(x.body))
  <2>1. n + 1 \in DOMAIN records
    <3>1. DOMAIN records = 1 .. Len(records) /\ Len(records) \in Nat
      BY <1>4, LenProperties DEF RecvShape
    <3> QED BY <1>9, <3>1
  <2> QED BY <1>2, <1>8, <2>1 DEF Admitted
<1>12. Lead(n)' = Lead(n) /\ Lead(n + 1)' = Lead(n + 1)
  BY <1>2 DEF Lead
<1>13. CASE Len(rec) + k # need /\ rec' = r2 /\ need' = need /\ got' = got
  <2>1. Reading(n)'
    BY <1>2, <1>4, <1>5, <1>9, <1>12, <1>13 DEF Reading
  <2> QED BY <2>1
<1>14. ASSUME Len(rec) + k = need, need = HeaderSz
       PROVE  Frag(r2) = Len(x.body)
  <2>1. Len(r2) <= Len(Wire(x)) /\ 4 \in 1 .. Len(r2) /\ 5 \in 1 .. Len(r2)
    BY <1>3, <1>10, <1>14 DEF HeaderSz
  <2>2. r2[4] = Wire(x)[4] /\ r2[5] = Wire(x)[5]
    BY <1>9, <2>1
  <2> QED BY <1>10, <2>2 DEF Frag
<1>15. CASE /\ Len(rec) + k = need /\ need = HeaderSz /\ got' = got
            /\ LengthOk(Frag(r2)) /\ rec' = r2 /\ need' = Whole(r2)
  <2>1. need' = HeaderSz + Len(x.body) /\ HeaderSz < need'
    <3>1. need' = HeaderSz + Len(x.body) /\ Len(x.body) # 0
      BY <1>11, <1>14, <1>15 DEF Whole, LengthOk
    <3> QED BY <1>10, <3>1 DEF HeaderSz
  <2>2. Reading(n)'
    BY <1>2, <1>4, <1>6, <1>8, <1>9, <1>12, <1>15, <2>1 DEF Reading
  <2> QED BY <2>2
<1>16. CASE /\ Len(rec) + k = need /\ need = HeaderSz /\ got' = got
            /\ ~LengthOk(Frag(r2)) /\ rec' = <<>> /\ need' = HeaderSz
  BY <1>11, <1>14, <1>16
<1>17. ASSUME Len(rec) + k = need, need # HeaderSz
       PROVE  r2 = Wire(x)
  <2>1. Len(r2) = Len(Wire(x))
    BY <1>3, <1>6, <1>8, <1>10, <1>17
  <2>2. \A m \in 1 .. Len(r2) : r2[m] = Wire(x)[m]
    BY <1>3, <1>9, <2>1
  <2> QED BY <1>3, <1>10, <2>1, <2>2, SeqEqual
<1>18. ASSUME Len(rec) + k = need, need # HeaderSz, rec' = <<>>, need' = HeaderSz,
              got' = Kept(Lead(n + 1))
       PROVE  \E m \in Nat : Reading(m)'
  <2>1. SubSeq(stream, 1, pos + k) = Wires(Lead(n + 1)) \o <<>>
    <3>1. SubSeq(stream, 1, pos + k) = Wires(Lead(n + 1)) /\ Wires(Lead(n)) \in Seq(Number)
      BY <1>8, <1>9, <1>17, <1>18 DEF Following
    <3>2. PICK a \in Seq(Number), b \in Seq(Number) : a = Wires(Lead(n)) /\ b = Wire(x)
      BY <1>10, <3>1
    <3>3. a \o b \in Seq(Number)
      BY ConcatProperties
    <3>4. (a \o b) \o <<>> = a \o b
      BY <3>3, ConcatEmptySeq
    <3> QED BY <1>8, <1>9, <3>1, <3>2, <3>4 DEF Following
  <2>2. n + 1 \in Nat /\ n + 1 <= Len(records)
    <3>1. Len(records) \in Nat
      BY <1>4, LenProperties DEF RecvShape
    <3> QED BY <1>9, <3>1
  <2>3. PICK m \in Nat : m = n + 1
    BY <2>2
  <2>4. Reading(m)'
    BY <1>2, <1>4, <1>12, <1>18, <2>1, <2>2, <2>3 DEF Reading
  <2> QED BY <2>4
<1>19. CASE /\ Len(rec) + k = need /\ need # HeaderSz /\ got' = got
            /\ r2[1] = ChangeCipher /\ Body(r2) # <<1>>
            /\ rec' = <<>> /\ need' = HeaderSz
  <2>1. ~WellFormed(x)
    BY <1>10, <1>17, <1>19 DEF WellFormed
  <2>2. Kept(Lead(n + 1)) = Kept(Lead(n)) \o <<>> /\ Kept(Lead(n)) \in Seq(Record)
    BY <1>8, <1>9, <2>1 DEF Following
  <2>3. Kept(Lead(n)) \o <<>> = Kept(Lead(n))
    BY <2>2, ConcatEmptySeq
  <2> QED BY <1>6, <1>18, <1>19, <2>2, <2>3
<1>20. CASE /\ Len(rec) + k = need /\ need # HeaderSz
            /\ ~(r2[1] = ChangeCipher /\ Body(r2) # <<1>>)
            /\ rec' = <<>> /\ need' = HeaderSz
            /\ got' = Append(got, [type |-> r2[1], body |-> Body(r2)])
  <2>1. r2 = Wire(x)
    BY <1>17, <1>20
  <2>2. WellFormed(x)
    BY <1>10, <1>11, <1>20, <2>1 DEF WellFormed
  <2>3. Kept(Lead(n + 1)) = Kept(Lead(n)) \o <<x>> /\ Kept(Lead(n)) \in Seq(Record)
    BY <1>8, <1>9, <2>2 DEF Following
  <2>4. x = [type |-> x.type, body |-> x.body]
    BY DEF Record
  <2>5. got' = Append(got, x)
    BY <1>10, <1>20, <2>1, <2>4
  <2>6. PICK g \in Seq(Record) : g = got
    BY <1>6, <2>3
  <2>7. Append(g, x) = g \o <<x>>
    BY AppendIsConcat
  <2> QED BY <1>6, <1>18, <1>20, <2>3, <2>5, <2>6, <2>7
<1> QED BY <1>1, <1>13, <1>15, <1>16, <1>19, <1>20, RecvCases

LEMMA RecvNext == RecvInv /\ [Next]_vars => RecvInv'
<1> SUFFICES ASSUME RecvInv, [Next]_vars PROVE RecvInv'
  OBVIOUS
<1>1. CASE HelloNext /\ UNCHANGED recvVars
  BY <1>1, RecvStutter
<1>2. CASE Recv
  <2>1. PICK k \in 1 .. Cap : RecvSome(k)
    BY <1>2 DEF Recv
  <2>2. RecvShape'
    BY <2>1, RecvShapeStep DEF RecvInv
  <2>3. InStep'
    BY <2>1, RecvInStepStep
  <2> QED BY <2>2, <2>3 DEF RecvInv
<1>3. CASE RecvFails
  BY <1>3, RecvFailsStep
<1>4. CASE UNCHANGED vars
  BY <1>4, RecvStutter DEF vars
<1> QED BY <1>1, <1>2, <1>3, <1>4 DEF Next

LEMMA RecvInvariant == Spec => []RecvInv
<1>1. Init => RecvInv
  BY RecvInit
<1>2. RecvInv /\ [Next]_vars => RecvInv'
  BY RecvNext
<1> QED BY <1>1, <1>2, PTL DEF Spec

(* What is kept of the first records is how what is kept of all begins. *)
LEMMA InStepIsFramed == RecvInv => Framed
<1> SUFFICES ASSUME RecvInv, fails = 0, Admitted PROVE IsPrefix(got, Kept(records))
  BY DEF Framed, Admitted
<1>1. PICK n \in Nat : Reading(n)
  BY DEF RecvInv, InStep
<1>2. n <= Len(records) /\ got = Kept(Lead(n)) /\ records \in Seq(Record)
  BY <1>1 DEF Reading, RecvInv, RecvShape
<1>3. PICK f : MapsTo(f, Record, Record) /\ \A q \in Seq(Record) : Kept(q) = FlatMap(f, q)
  BY KeptMap
<1>4. Splits(f, Record, records, n)
  <2>1. SplitsAt(f, Record, Record, records, n)
    BY <1>2, <1>3 DEF SplitsAt
  <2> QED BY <2>1, FlatMapSplit
<1>5. PICK m \in 0 .. Len(records) : m = n
  <2>1. Len(records) \in Nat
    BY <1>2, LenProperties
  <2> QED BY <1>2, <2>1
<1>6. SubSeq(records, 1, n) \in Seq(Record)
  BY <1>2, <1>5, SubSeqFromOne
<1>7. PICK t \in Seq(Record) : Kept(records) = got \o t
  BY <1>2, <1>3, <1>4, <1>6 DEF Splits, Lead
<1>8. PICK g \in Seq(Record) : g = got
  BY <1>2, <1>3, <1>4, <1>6 DEF Splits, Lead
<1>9. g \o t \in Seq(Record) /\ Len(g \o t) = Len(g) + Len(t)
      /\ \A k \in 1 .. Len(g) : (g \o t)[k] = g[k]
  BY ConcatAt
<1>10. PICK b \in Seq(Record) : b = g \o t
  BY <1>9
<1>11. Len(g) \in Nat /\ Len(t) \in Nat /\ Len(b) = Len(g) + Len(t)
  BY <1>9, <1>10, LenProperties
<1>12. Len(g) \in 0 .. Len(b)
  BY <1>11
<1>13. /\ SubSeq(b, 1, Len(g)) \in Seq(Record) /\ Len(SubSeq(b, 1, Len(g))) = Len(g)
       /\ \A k \in 1 .. Len(g) : SubSeq(b, 1, Len(g))[k] = b[k]
  BY <1>12, SubSeqFromOne
<1>14. SubSeq(b, 1, Len(g)) = g
  BY <1>9, <1>10, <1>13, SeqEqual
<1>15. SubSeq(g, 1, Len(g)) = g
  BY SubSeqFull
<1>16. Len(g) <= Len(b) /\ SubSeq(g, 1, Len(g)) = SubSeq(b, 1, Len(g))
  BY <1>11, <1>14, <1>15
<1> QED BY <1>7, <1>8, <1>10, <1>16 DEF IsPrefix

(* Until a call has failed with E_CRYPTO, wn_RecvRecord has returned the
   peer's records, whole and in order, whatever the pieces io_recv_exact got
   them in: the state it keeps over a partial read is the place in the stream. *)
THEOREM RecordsAreFramed == Spec => []Framed
<1>1. RecvInv => Framed
  BY InStepIsFramed
<1> QED BY <1>1, RecvInvariant, PTL

-----------------------------------------------------------------------------
(***************************************************************************)
(* The builders: what their scripts are made of.                           *)
(***************************************************************************)
Names == {"none", "hs", "sid", "suites", "comp", "exts", "sni", "names", "name", "versions",
          "versionList", "groups", "groupList", "algs", "algList", "keyShare", "shares",
          "share", "modes", "modeList", "psk", "ids", "id", "binders", "binder"}
Marks == {"truncOff", "binderOff"}
Op == {c \in [op : {"put", "start", "pre", "end", "note"}, n : Nat, name : Names \cup Marks,
              val : Nat] : /\ c.op = "start" => c.n \in {2, 3}
                           /\ c.op \in {"end", "note"} => c.n = 0}
Ops == Seq(Op)

LEMMA OpTypes ==
    /\ \A n \in Nat : Put(n) \in Op
    /\ \A nm \in Names : Start(nm, 2) \in Op /\ Start(nm, 3) \in Op
    /\ \A nm \in Names : \A v \in Nat : Pre(nm, 1, v) \in Op /\ Pre(nm, 2, v) \in Op
    /\ \A nm \in Names : End(nm) \in Op
    /\ \A nm \in Marks : Note(nm) \in Op
<1>1. \A n \in Nat : Put(n) \in Op
  BY DEF Put, Op, Names
<1>2. \A nm \in Names : Start(nm, 2) \in Op /\ Start(nm, 3) \in Op
  BY DEF Start, Op
<1>3. \A nm \in Names : \A v \in Nat : Pre(nm, 1, v) \in Op /\ Pre(nm, 2, v) \in Op
  BY DEF Pre, Op
<1>4. \A nm \in Names : End(nm) \in Op
  BY DEF End, Op
<1>5. \A nm \in Marks : Note(nm) \in Op
  BY DEF Note, Op
<1> QED BY <1>1, <1>2, <1>3, <1>4, <1>5

LEMMA HeadOps == \A s \in Nat : HelloHead(s) \in Ops
<1> SUFFICES ASSUME NEW s \in Nat PROVE HelloHead(s) \in Ops
  OBVIOUS
<1>1. /\ Put(1) \in Op /\ Put(2) \in Op /\ Put(32) \in Op /\ Put(s) \in Op
      /\ Start("hs", 3) \in Op /\ Start("exts", 2) \in Op
      /\ Pre("sid", 1, s) \in Op /\ Pre("suites", 2, 2) \in Op /\ Pre("comp", 1, 1) \in Op
      /\ End("sid") \in Op /\ End("suites") \in Op /\ End("comp") \in Op
  <2>1. {"hs", "exts", "sid", "suites", "comp"} \subseteq Names
    BY DEF Names
  <2> QED BY <2>1, OpTypes
<1> QED BY <1>1 DEF HelloHead, Ops

LEMMA ExtOps ==
    ASSUME NEW nm \in Names, NEW len \in Nat, NEW c \in Ops
    PROVE  Ext(nm, len, c) \in Ops
<1>1. Put(2) \in Op /\ Pre(nm, 2, len) \in Op /\ End(nm) \in Op
  BY OpTypes
<1>2. <<Put(2), Pre(nm, 2, len)>> \in Ops /\ <<End(nm)>> \in Ops
  BY <1>1 DEF Ops
<1>3. <<Put(2), Pre(nm, 2, len)>> \o c \in Ops
  BY <1>2, ConcatProperties DEF Ops
<1> QED BY <1>2, <1>3, ConcatProperties DEF Ext, Ops

LEMMA FixedOps == Versions \in Ops /\ Groups \in Ops
<1>1. {"versions", "versionList", "groups", "groupList"} \subseteq Names
  BY DEF Names
<1>2. /\ Put(2) \in Op /\ Pre("versionList", 1, 2) \in Op /\ End("versionList") \in Op
      /\ Pre("groupList", 2, 2) \in Op /\ End("groupList") \in Op
  BY <1>1, OpTypes
<1>3. /\ <<Pre("versionList", 1, 2), Put(2), End("versionList")>> \in Ops
      /\ <<Pre("groupList", 2, 2), Put(2), End("groupList")>> \in Ops
  BY <1>2 DEF Ops
<1> QED BY <1>1, <1>3, ExtOps DEF Versions, Groups

LEMMA KeyShareOps == \A n \in Nat : KeyShareExt(n) \in Ops
<1> SUFFICES ASSUME NEW n \in Nat PROVE KeyShareExt(n) \in Ops
  OBVIOUS
<1>1. {"keyShare", "shares", "share"} \subseteq Names /\ 4 + n \in Nat /\ 6 + n \in Nat
  BY DEF Names
<1>2. /\ Pre("shares", 2, 4 + n) \in Op /\ Put(2) \in Op /\ Pre("share", 2, n) \in Op
      /\ Put(n) \in Op /\ End("share") \in Op /\ End("shares") \in Op
  BY <1>1, OpTypes
<1>3. <<Pre("shares", 2, 4 + n), Put(2), Pre("share", 2, n), Put(n), End("share"),
        End("shares")>> \in Ops
  BY <1>2 DEF Ops
<1> QED BY <1>1, <1>3, ExtOps DEF KeyShareExt

LEMMA ServerNameOps == \A n \in Nat : ServerNameExt(n) \in Ops
<1> SUFFICES ASSUME NEW n \in Nat PROVE ServerNameExt(n) \in Ops
  OBVIOUS
<1>1. {"sni", "names", "name"} \subseteq Names /\ 3 + n \in Nat /\ 5 + n \in Nat
  BY DEF Names
<1>2. /\ Pre("names", 2, 3 + n) \in Op /\ Put(1) \in Op /\ Pre("name", 2, n) \in Op
      /\ Put(n) \in Op /\ End("name") \in Op /\ End("names") \in Op
  BY <1>1, OpTypes
<1>3. <<Pre("names", 2, 3 + n), Put(1), Pre("name", 2, n), Put(n), End("name"),
        End("names")>> \in Ops
  BY <1>2 DEF Ops
<1>4. <<>> \in Ops
  BY DEF Ops
<1> QED BY <1>1, <1>3, <1>4, ExtOps DEF ServerNameExt

(* The pre_shared_key extension is the last, and the end of the message.   *)
PskEnd(n) == PskExt(n) \o <<End("exts"), End("hs")>>

LEMMA PskEndOps ==
    ASSUME NEW n \in Nat
    PROVE  /\ PskExt(n) \in Seq(Op) /\ PskEnd(n) \in Ops /\ Len(PskEnd(n)) = 18
           /\ PskEnd(n)[9] = Note("truncOff")
           /\ PskEnd(n)[10] = Pre("binders", 2, 33)
           /\ PskEnd(n)[11] = Pre("binder", 1, 32)
           /\ PskEnd(n)[12] = Note("binderOff")
           /\ PskEnd(n)[13] = Put(32)
           /\ \A k \in 14 .. 18 : PskEnd(n)[k].op = "end"
<1>1. {"psk", "ids", "id", "binders", "binder", "exts", "hs"} \subseteq Names
      /\ {"truncOff", "binderOff"} \subseteq Marks /\ n % 65536 \in Nat
  <2>1. n % 65536 \in Nat
    BY SMT
  <2> QED BY <2>1 DEF Names, Marks
<1>2. /\ Put(2) \in Op /\ Put(4) \in Op /\ Put(32) \in Op /\ Put(n) \in Op
      /\ Start("psk", 2) \in Op /\ Start("ids", 2) \in Op
      /\ Pre("id", 2, n % 65536) \in Op /\ Pre("binders", 2, 33) \in Op
      /\ Pre("binder", 1, 32) \in Op /\ Note("truncOff") \in Op /\ Note("binderOff") \in Op
      /\ End("id") \in Op /\ End("ids") \in Op /\ End("binder") \in Op
      /\ End("binders") \in Op /\ End("psk") \in Op /\ End("exts") \in Op /\ End("hs") \in Op
  BY <1>1, OpTypes, SMT
<1>3. PskExt(n) \in Seq(Op)
  BY <1>2, SMT DEF PskExt
<1>4. PICK b \in Seq(Op) : b = <<End("exts"), End("hs")>>
  <2>1. <<End("exts"), End("hs")>> \in Seq(Op)
    BY <1>2
  <2> QED BY <2>1
<1>5. Len(b) = 2 /\ b[1] = End("exts") /\ b[2] = End("hs")
  BY <1>4
<1>6. PICK a \in Seq(Op) : a = PskExt(n)
  BY <1>3
<1>7. /\ Len(a) = 16 /\ a[9] = Note("truncOff") /\ a[10] = Pre("binders", 2, 33)
      /\ a[11] = Pre("binder", 1, 32) /\ a[12] = Note("binderOff") /\ a[13] = Put(32)
      /\ a[14] = End("binder") /\ a[15] = End("binders") /\ a[16] = End("psk")
  BY <1>6, SMT DEF PskExt
<1>8. /\ a \o b \in Seq(Op) /\ Len(a \o b) = 18
      /\ \A k \in 1 .. 16 : (a \o b)[k] = a[k]
      /\ \A k \in 1 .. 2 : (a \o b)[16 + k] = b[k]
  <2>1. /\ a \o b \in Seq(Op) /\ Len(a \o b) = Len(a) + Len(b)
        /\ \A k \in 1 .. Len(a) : (a \o b)[k] = a[k]
        /\ \A k \in 1 .. Len(b) : (a \o b)[Len(a) + k] = b[k]
    BY ConcatAt
  <2>2. Len(a) = 16 /\ Len(b) = 2 /\ 16 + 2 = 18
    BY <1>5, <1>7
  <2> QED BY <2>1, <2>2
<1>9. PICK q \in Seq(Op) : q = a \o b
  BY <1>8
<1>10. /\ q[9] = Note("truncOff") /\ q[10] = Pre("binders", 2, 33)
       /\ q[11] = Pre("binder", 1, 32) /\ q[12] = Note("binderOff") /\ q[13] = Put(32)
       /\ q[14] = End("binder") /\ q[15] = End("binders") /\ q[16] = End("psk")
  <2>1. {9, 10, 11, 12, 13, 14, 15, 16} \subseteq 1 .. 16
    OBVIOUS
  <2>2. \A k \in {9, 10, 11, 12, 13, 14, 15, 16} : q[k] = a[k]
    BY <1>8, <1>9, <2>1
  <2> QED BY <1>7, <2>2
<1>11. q[17] = End("exts") /\ q[18] = End("hs")
  <2>1. 1 \in 1 .. 2 /\ 2 \in 1 .. 2 /\ 16 + 1 = 17 /\ 16 + 2 = 18
    OBVIOUS
  <2> QED BY <1>5, <1>8, <1>9, <2>1
<1>12. \A k \in 14 .. 18 : q[k].op = "end"
  <2>1. \A k \in 14 .. 18 : k = 14 \/ k = 15 \/ k = 16 \/ k = 17 \/ k = 18
    OBVIOUS
  <2> QED BY SMTT(60), <1>10, <1>11, <2>1 DEF End
<1> QED BY <1>3, <1>4, <1>6, <1>8, <1>9, <1>10, <1>12 DEF PskEnd, Ops

LEMMA JobTypes ==
    ASSUME job \in Jobs
    PROVE  /\ job.path \in {"cert", "psk"}
           /\ job.cap \in Nat /\ job.nameLen \in Nat /\ job.sidLen \in Nat
           /\ job.pubLen \in Nat /\ job.nAlgs \in Nat
BY JobsAssumption

LEMMA CertScriptOps == job \in Jobs => CertScript(job) \in Ops
<1> SUFFICES ASSUME job \in Jobs PROVE CertScript(job) \in Ops
  OBVIOUS
<1>1. PICK a \in Ops, b \in Ops, c \in Ops, d \in Ops :
         /\ a = HelloHead(job.sidLen) /\ b = ServerNameExt(job.nameLen)
         /\ c = Versions /\ d = Groups
  BY JobTypes, HeadOps, ServerNameOps, FixedOps
<1>2. PICK e \in Ops : e = KeyShareExt(job.pubLen)
  BY JobTypes, KeyShareOps
<1>3. {"algs", "algList", "exts", "hs"} \subseteq Names
  BY DEF Names
<1>4. PICK m \in Nat : m = 2 * job.nAlgs
  BY JobTypes
<1>5. /\ Put(2) \in Op /\ Start("algs", 2) \in Op /\ Start("algList", 2) \in Op
      /\ Put(m) \in Op /\ End("algList") \in Op /\ End("algs") \in Op
      /\ End("exts") \in Op /\ End("hs") \in Op
  BY <1>3, OpTypes
<1>6. PICK g \in Ops : g = <<Put(2), Start("algs", 2), Start("algList", 2), Put(m),
                             End("algList"), End("algs")>>
  <2>1. <<Put(2), Start("algs", 2), Start("algList", 2), Put(m), End("algList"),
          End("algs")>> \in Ops
    BY <1>5 DEF Ops
  <2> QED BY <2>1
<1>7. PICK h \in Ops : h = <<End("exts"), End("hs")>>
  <2>1. <<End("exts"), End("hs")>> \in Ops
    BY <1>5 DEF Ops
  <2> QED BY <2>1
<1>8. \A x \in Ops : \A y \in Ops : x \o y \in Ops
  BY ConcatProperties DEF Ops
<1>9. a \o b \o c \o d \o g \o e \o h \in Ops
  BY <1>8
<1>10. CertScript(job) = a \o b \o c \o d \o g \o e \o h
  BY <1>1, <1>2, <1>4, <1>6, <1>7 DEF CertScript
<1> QED BY <1>9, <1>10

LEMMA PskScriptOps ==
    job \in Jobs => \E f \in Ops : PskScript(job) = f \o PskEnd(job.nameLen)
<1> SUFFICES ASSUME job \in Jobs
             PROVE  \E f \in Ops : PskScript(job) = f \o PskEnd(job.nameLen)
  OBVIOUS
<1>1. PICK a \in Ops, b \in Ops, c \in Ops, d \in Ops :
         /\ a = HelloHead(32) /\ b = Versions /\ c = Groups /\ d = KeyShareExt(job.pubLen)
  <2>1. 32 \in Nat
    OBVIOUS
  <2> QED BY <2>1, JobTypes, HeadOps, KeyShareOps, FixedOps
<1>2. {"algs", "algList", "modes", "modeList"} \subseteq Names
  BY DEF Names
<1>3. PICK m \in Nat, v \in Nat, u \in Nat :
         /\ m = 2 * job.nAlgs
         /\ v = IF job.nAlgs = 3 THEN 8 ELSE 6
         /\ u = IF job.nAlgs = 3 THEN 6 ELSE 4
  BY JobTypes
<1>4. /\ Pre("algList", 2, u) \in Op /\ Put(m) \in Op /\ End("algList") \in Op
      /\ Pre("modeList", 1, 1) \in Op /\ Put(1) \in Op /\ End("modeList") \in Op
  BY <1>2, OpTypes
<1>5. PICK e \in Ops : e = Ext("algs", v, <<Pre("algList", 2, u), Put(m), End("algList")>>)
  <2>1. <<Pre("algList", 2, u), Put(m), End("algList")>> \in Ops
    BY <1>4 DEF Ops
  <2> QED BY <1>2, <2>1, ExtOps
<1>6. PICK g \in Ops : g = Ext("modes", 2, <<Pre("modeList", 1, 1), Put(1), End("modeList")>>)
  <2>1. <<Pre("modeList", 1, 1), Put(1), End("modeList")>> \in Ops
    BY <1>4 DEF Ops
  <2>2. 2 \in Nat
    OBVIOUS
  <2> QED BY <1>2, <2>1, <2>2, ExtOps
<1>7. \A x \in Ops : \A y \in Ops : x \o y \in Ops
  BY ConcatProperties DEF Ops
<1>8. PICK f \in Ops : f = a \o b \o c \o e \o d \o g
  BY <1>7
<1>9. PICK n \in Nat : n = job.nameLen
  BY JobTypes
<1>10. PICK h \in Seq(Op) : h = <<End("exts"), End("hs")>>
  <2>1. End("exts") \in Op /\ End("hs") \in Op
    BY OpTypes DEF Names
  <2>2. <<End("exts"), End("hs")>> \in Seq(Op)
    BY <2>1
  <2> QED BY <2>2
<1>11. PICK p \in Seq(Op) : p = PskExt(n)
  BY PskEndOps
<1>12. PskScript(job) = f \o p \o h
  BY <1>1, <1>3, <1>5, <1>6, <1>8, <1>9, <1>10, <1>11 DEF PskScript
<1>13. (f \o p) \o h = f \o (p \o h)
  <2>1. ThreeSeqs(Op, f, p, h)
    BY DEF ThreeSeqs, Ops
  <2> QED BY <2>1, Regroup
<1>14. PskEnd(n) = p \o h
  BY <1>10, <1>11 DEF PskEnd
<1> QED BY <1>9, <1>12, <1>13, <1>14

(* The last calls of the PSK builder, counted from its end *)
PskTail ==
    /\ 18 <= Len(Script)
    /\ Script[Len(Script) - 9] = Note("truncOff")
    /\ Script[Len(Script) - 8] = Pre("binders", 2, 33)
    /\ Script[Len(Script) - 7] = Pre("binder", 1, 32)
    /\ Script[Len(Script) - 6] = Note("binderOff")
    /\ Script[Len(Script) - 5] = Put(32)
    /\ \A k \in Len(Script) - 4 .. Len(Script) : Script[k].op = "end"

LEMMA ScriptTypes ==
    ASSUME job \in Jobs
    PROVE  Script \in Ops /\ (job.path = "psk" => PskTail)
<1>1. CASE job.path # "psk"
  BY <1>1, CertScriptOps DEF Script
<1>2. CASE job.path = "psk"
  <2>1. PICK n \in Nat : n = job.nameLen
    BY JobTypes
  <2>2. PICK f \in Seq(Op) : Script = f \o PskEnd(n)
    BY <1>2, <2>1, PskScriptOps DEF Script, Ops
  <2>3. PICK q \in Seq(Op) :
           /\ q = PskEnd(n) /\ Len(q) = 18 /\ q[9] = Note("truncOff")
           /\ q[10] = Pre("binders", 2, 33) /\ q[11] = Pre("binder", 1, 32)
           /\ q[12] = Note("binderOff") /\ q[13] = Put(32)
           /\ \A k \in 14 .. 18 : q[k].op = "end"
    BY PskEndOps DEF Ops
  <2>4. /\ f \o q \in Seq(Op) /\ Len(f \o q) = Len(f) + Len(q)
        /\ \A k \in 1 .. Len(q) : (f \o q)[Len(f) + k] = q[k]
    BY ConcatAt
  <2>5. PICK s \in Seq(Op) : s = f \o q
    BY <2>4
  <2>6. PICK l \in Nat : l = Len(f)
    BY LenProperties
  <2>7. Len(s) = l + 18 /\ \A k \in 1 .. 18 : s[l + k] = q[k]
    BY <2>3, <2>4, <2>5, <2>6
  <2>8. /\ s[l + 9] = Note("truncOff") /\ s[l + 10] = Pre("binders", 2, 33)
        /\ s[l + 11] = Pre("binder", 1, 32) /\ s[l + 12] = Note("binderOff")
        /\ s[l + 13] = Put(32)
    <3>1. {9, 10, 11, 12, 13} \subseteq 1 .. 18
      OBVIOUS
    <3>2. \A k \in {9, 10, 11, 12, 13} : s[l + k] = q[k]
      BY <2>7, <3>1
    <3> QED BY <2>3, <3>2
  <2>9. ASSUME NEW k \in Len(s) - 4 .. Len(s)
        PROVE  s[k].op = "end"
    <3>1. k \in (l + 18) - 4 .. l + 18
      BY <2>7
    <3>2. PICK m \in 14 .. 18 : m = k - l /\ l + m = k /\ m \in 1 .. 18
      BY <3>1
    <3>3. s[l + m] = q[m] /\ q[m].op = "end"
      BY <2>3, <2>7, <3>2
    <3> QED BY <3>2, <3>3
  <2>10. /\ Len(s) - 9 = l + 9 /\ Len(s) - 8 = l + 10 /\ Len(s) - 7 = l + 11
         /\ Len(s) - 6 = l + 12 /\ Len(s) - 5 = l + 13 /\ 18 <= Len(s)
    BY <2>7
  <2>11. Script = s
    BY <2>2, <2>3, <2>5
  <2> QED BY <2>8, <2>9, <2>10, <2>11 DEF PskTail, Ops
<1> QED BY <1>1, <1>2

-----------------------------------------------------------------------------
(***************************************************************************)
(* A builder at work.                                                      *)
(***************************************************************************)
Writer == [len : Nat, cap : Nat, err : BOOLEAN]

BuildShape ==
    /\ job \in Jobs /\ pc \in {"check", "build", "send", "recv", "done"}
    /\ i \in Nat /\ i <= Len(Script)
    /\ w \in Writer /\ w.cap = job.cap /\ w.len <= w.cap
    /\ trunc \in [truncOff : Nat, binderOff : Nat]

Sent(x) == x.hdr = 5 /\ x.body = x.announced

(* Nothing is sent before the script is through, nor after an error. *)
SendInv ==
    /\ pc \in {"check", "build"} => wire = <<>>
    /\ w.err => wire = <<>>
    /\ pc \in {"send", "recv"} => ~w.err /\ i = Len(Script)
    /\ pc = "send" => wire = <<>> \/ \E a : wire = <<a>> /\ Sent(a)
    /\ pc = "recv" => \E a, b : wire = <<a, b>> /\ Sent(a) /\ Sent(b)

(* How many of its calls a builder has left, and what it has written since
   the boundary it noted. *)
Left == Len(Script) - i
SinceBoundary == IF Left = 9 THEN 0 ELSE IF Left = 8 THEN 2 ELSE IF Left >= 6 THEN 3 ELSE 35

BinderInv ==
    (job.path = "psk" /\ ~w.err) =>
        /\ Left <= 9 => w.len = trunc.truncOff + SinceBoundary
        /\ Left <= 6 => trunc.binderOff = trunc.truncOff + 3

LEMMA WriteKeepsRoom ==
    ASSUME NEW v \in Writer, v.len <= v.cap, NEW n \in Nat
    PROVE  /\ Write(v, n) \in Writer /\ Write(v, n).cap = v.cap
           /\ Write(v, n).len <= Write(v, n).cap
           /\ v.err => Write(v, n).err
           /\ ~Write(v, n).err => Write(v, n).len = v.len + n
<1>1. PICK len \in Nat, cap \in Nat, err \in BOOLEAN :
         v = [len |-> len, cap |-> cap, err |-> err] /\ len <= cap
  <2>1. v = [len |-> v.len, cap |-> v.cap, err |-> v.err]
        /\ v.len \in Nat /\ v.cap \in Nat /\ v.err \in BOOLEAN
    BY DEF Writer
  <2> QED BY <2>1
<1>2. CASE ~err /\ len + n <= cap
  <2>1. Write(v, n) = [len |-> len + n, cap |-> cap, err |-> err]
    BY <1>1, <1>2 DEF Write
  <2>2. len + n \in Nat
    OBVIOUS
  <2> QED BY <1>1, <1>2, <2>1, <2>2 DEF Writer
<1>3. CASE ~(~err /\ len + n <= cap)
  <2>1. Write(v, n) = [len |-> len, cap |-> cap, err |-> TRUE]
    BY <1>1, <1>3 DEF Write
  <2>2. [len |-> len, cap |-> cap, err |-> TRUE] \in Writer
    BY DEF Writer
  <2>3. Write(v, n).err /\ Write(v, n).len = len /\ Write(v, n).cap = cap
    BY <2>1
  <2> QED BY <1>1, <2>1, <2>2, <2>3
<1> QED BY <1>2, <1>3

(* A call of the writer: what any of them does, and each kind. *)
LEMMA CallCases ==
    ASSUME PutBytes \/ LenStart \/ LenBefore \/ Closing \/ NoteOffset
    PROVE  /\ pc = "build" /\ pc' = pc /\ i < Len(Script) /\ i' = i + 1
           /\ job' = job /\ wire' = wire /\ Script' = Script
           /\ \/ /\ Call.op \in {"put", "start", "pre"}
                 /\ w' = Write(w, Call.n) /\ trunc' = trunc
              \/ Call.op = "end" /\ w' = w /\ trunc' = trunc
              \/ /\ Call.op = "note" /\ w' = w
                 /\ trunc' = [trunc EXCEPT ![Call.name] = w.len]
<1>1. \E op \in {"put", "start", "pre", "end", "note"} : Step(op) /\ Call.op = op
  BY DEF PutBytes, LenStart, LenBefore, Closing, NoteOffset, Step, Call
<1>2. /\ pc = "build" /\ pc' = pc /\ i < Len(Script) /\ i' = i + 1
      /\ job' = job /\ wire' = wire
  BY <1>1 DEF Step
<1>3. Script' = Script
  BY <1>2 DEF Script
<1>4. \/ /\ Call.op \in {"put", "start", "pre"}
         /\ w' = Write(w, Call.n) /\ trunc' = trunc
      \/ Call.op = "end" /\ w' = w /\ trunc' = trunc
      \/ /\ Call.op = "note" /\ w' = w
         /\ trunc' = [trunc EXCEPT ![Call.name] = w.len]
  BY Zenon DEF PutBytes, LenStart, LenBefore, Closing, NoteOffset, Step, Call
<1> QED BY <1>2, <1>3, <1>4

AnyCall == PutBytes \/ LenStart \/ LenBefore \/ Closing \/ NoteOffset

LEMMA CallShape ==
    ASSUME BuildShape, AnyCall
    PROVE  BuildShape' /\ Call \in Op /\ (w.err => w'.err)
<1>1. /\ pc = "build" /\ pc' = pc /\ i < Len(Script) /\ i' = i + 1
      /\ job' = job /\ wire' = wire /\ Script' = Script
  BY CallCases DEF AnyCall
<1>2. Script \in Seq(Op) /\ Len(Script) \in Nat /\ i \in Nat
  BY ScriptTypes, LenProperties DEF BuildShape, Ops
<1>3. Call \in Op
  <2>1. i + 1 \in 1 .. Len(Script)
    BY <1>1, <1>2
  <2> QED BY <1>2, <2>1, ElementOfSeq DEF Call
<1>4. Call.n \in Nat
  BY <1>3 DEF Op
<1>5. w' = Write(w, Call.n) \/ w' = w
  BY CallCases DEF AnyCall
<1>6. w' \in Writer /\ w'.cap = job.cap /\ w'.len <= w'.cap /\ (w.err => w'.err)
  <2>1. PICK v \in Writer : v = w /\ v.cap = job.cap /\ v.len <= v.cap
    BY DEF BuildShape
  <2>2. PICK n \in Nat : n = Call.n
    BY <1>4
  <2>3. /\ Write(v, n) \in Writer /\ Write(v, n).cap = v.cap
        /\ Write(v, n).len <= Write(v, n).cap /\ (v.err => Write(v, n).err)
    BY <2>1, WriteKeepsRoom
  <2> QED BY <1>5, <2>1, <2>2, <2>3
<1>7. trunc' = trunc \/ trunc' = [trunc EXCEPT ![Call.name] = w.len]
  BY CallCases DEF AnyCall
<1>8. trunc' \in [truncOff : Nat, binderOff : Nat]
  BY <1>7 DEF BuildShape, Writer
<1>9. i' \in Nat /\ i' <= Len(Script')
  BY <1>1, <1>2
<1> QED BY <1>1, <1>3, <1>6, <1>8, <1>9 DEF BuildShape

(* Each of the last calls moves the end of what is written, or notes it. *)
LEMMA CallBinder ==
    ASSUME BuildShape, BinderInv, AnyCall
    PROVE  BinderInv'
<1> SUFFICES ASSUME job'.path = "psk", ~w'.err
             PROVE  /\ Left' <= 9 => w'.len = trunc'.truncOff + SinceBoundary'
                    /\ Left' <= 6 => trunc'.binderOff = trunc'.truncOff + 3
  BY DEF BinderInv
<1>1. /\ i < Len(Script) /\ i' = i + 1 /\ job' = job /\ Script' = Script
      /\ \/ Call.op \in {"put", "start", "pre"} /\ w' = Write(w, Call.n) /\ trunc' = trunc
         \/ Call.op = "end" /\ w' = w /\ trunc' = trunc
         \/ /\ Call.op = "note" /\ w' = w
            /\ trunc' = [trunc EXCEPT ![Call.name] = w.len]
  BY CallCases DEF AnyCall
<1>2. PskTail /\ ~w.err
  BY <1>1, CallShape, ScriptTypes DEF BuildShape
<1>3. PICK l \in Nat, m \in Nat : l = Len(Script) /\ m = i /\ m < l
  BY <1>1, ScriptTypes, LenProperties DEF BuildShape, Ops
<1>4. PICK left \in Nat : /\ left = l - m /\ left >= 1 /\ m + 1 = (l + 1) - left
                         /\ Left = left /\ Left' = left - 1
  <2>1. Left = l - m /\ Left' = l - (m + 1)
    BY <1>1, <1>3 DEF Left
  <2>2. PICK left \in Nat : left = l - m
    <3>1. m < l
      BY <1>3
    <3>2. l - m \in Nat
      BY <3>1
    <3> QED BY <3>2
  <2>3. left >= 1 /\ m + 1 = (l + 1) - left /\ l - (m + 1) = left - 1
    BY <1>3, <2>2
  <2> QED BY <2>1, <2>2, <2>3
<1>5. PICK t \in Nat, b \in Nat, n \in Nat :
         /\ trunc = [truncOff |-> t, binderOff |-> b] /\ n = w.len
  BY DEF BuildShape, Writer
<1>6. /\ left <= 9 => n = t + (IF left = 9 THEN 0 ELSE IF left = 8 THEN 2
                              ELSE IF left >= 6 THEN 3 ELSE 35)
      /\ left <= 6 => b = t + 3
  BY <1>1, <1>2, <1>4, <1>5 DEF BinderInv, SinceBoundary
<1>7. Call = Script[m + 1]
  BY <1>3 DEF Call
<1>8. ASSUME NEW k \in Nat, w' = Write(w, k)
      PROVE  w'.len = n + k
  <2>1. PICK v \in Writer : v = w /\ v.len <= v.cap
    BY DEF BuildShape
  <2>2. ~Write(v, k).err => Write(v, k).len = v.len + k
    BY <2>1, WriteKeepsRoom
  <2> QED BY <1>5, <1>8, <2>1, <2>2
<1>9. CASE left > 10
  <2>1. ~(Left' <= 9) /\ ~(Left' <= 6)
    BY <1>4, <1>9
  <2> QED BY <2>1
<1>10. CASE left = 10
  <2>1. Call = Note("truncOff")
    BY <1>2, <1>3, <1>4, <1>7, <1>10 DEF PskTail
  <2>2. w' = w /\ trunc' = [truncOff |-> n, binderOff |-> b]
    <3>1. Call.op = "note" /\ Call.name = "truncOff"
      BY <2>1 DEF Note
    <3>2. w' = w /\ trunc' = [trunc EXCEPT !["truncOff"] = w.len]
      BY <1>1, <3>1
    <3> QED BY <1>5, <3>2
  <2>3. Left' = 9 /\ SinceBoundary' = 0
    BY <1>4, <1>10 DEF SinceBoundary
  <2> QED BY <1>5, <2>2, <2>3
<1>11. CASE left = 9
  <2>1. Call = Pre("binders", 2, 33)
    BY SMTT(60), <1>2, <1>3, <1>4, <1>7, <1>11 DEF PskTail
  <2>2. w' = Write(w, 2) /\ trunc' = trunc
    BY <1>1, <2>1 DEF Pre
  <2>3. Left' = 8 /\ SinceBoundary' = 2
    BY <1>4, <1>11 DEF SinceBoundary
  <2>4. w'.len = n + 2
    BY <1>8, <2>2
  <2> QED BY <1>5, <1>6, <1>11, <2>2, <2>3, <2>4
<1>12. CASE left = 8
  <2>1. Call = Pre("binder", 1, 32)
    BY SMTT(60), <1>2, <1>3, <1>4, <1>7, <1>12 DEF PskTail
  <2>2. w' = Write(w, 1) /\ trunc' = trunc
    BY <1>1, <2>1 DEF Pre
  <2>3. Left' = 7 /\ SinceBoundary' = 3
    BY <1>4, <1>12 DEF SinceBoundary
  <2>4. w'.len = n + 1
    BY <1>8, <2>2
  <2> QED BY <1>5, <1>6, <1>12, <2>2, <2>3, <2>4
<1>13. CASE left = 7
  <2>1. Call = Note("binderOff")
    BY <1>2, <1>3, <1>4, <1>7, <1>13 DEF PskTail
  <2>2. w' = w /\ trunc' = [truncOff |-> t, binderOff |-> n]
    <3>1. Call.op = "note" /\ Call.name = "binderOff"
      BY <2>1 DEF Note
    <3>2. w' = w /\ trunc' = [trunc EXCEPT !["binderOff"] = w.len]
      BY <1>1, <3>1
    <3> QED BY <1>5, <3>2
  <2>3. Left' = 6 /\ SinceBoundary' = 3
    BY <1>4, <1>13 DEF SinceBoundary
  <2> QED BY <1>5, <1>6, <1>13, <2>2, <2>3
<1>14. CASE left = 6
  <2>1. Call = Put(32)
    BY <1>2, <1>3, <1>4, <1>7, <1>14 DEF PskTail
  <2>2. w' = Write(w, 32) /\ trunc' = trunc
    BY <1>1, <2>1 DEF Put
  <2>3. Left' = 5 /\ SinceBoundary' = 35
    BY <1>4, <1>14 DEF SinceBoundary
  <2>4. w'.len = n + 32
    BY <1>8, <2>2
  <2> QED BY <1>5, <1>6, <1>14, <2>2, <2>3, <2>4
<1>15. CASE left <= 5
  <2>1. m + 1 \in l - 4 .. l
    BY <1>3, <1>4, <1>15
  <2>2. Call.op = "end"
    BY <1>2, <1>3, <1>7, <2>1 DEF PskTail
  <2>3. w' = w /\ trunc' = trunc
    BY <1>1, <2>2
  <2>4. SinceBoundary' = 35
    BY <1>4, <1>15 DEF SinceBoundary
  <2> QED BY <1>5, <1>6, <1>15, <2>3, <2>4
<1> QED BY <1>4, <1>9, <1>10, <1>11, <1>12, <1>13, <1>14, <1>15

(* What the 16 bits of a record's length hold *)
Low16(n) == n % 65536

(* The transport takes both parts of a record whole, or the call fails. *)
LEMMA SendCases ==
    ASSUME Send
    PROVE  /\ pc = "send" /\ job' = job /\ i' = i /\ w' = w /\ trunc' = trunc
           /\ pc' \in {"send", "recv", "done"}
           /\ pc' = "send" => wire = <<>>
           /\ pc' = "recv" => wire # <<>>
           /\ \E x : /\ wire' = Append(wire, x)
                     /\ x.announced = Low16(IF wire = <<>> THEN w.len ELSE 1)
                     /\ pc' # "done" => x.hdr = 5 /\ x.body = IF wire = <<>> THEN w.len ELSE 1
<1>1. /\ pc = "send" /\ job' = job /\ i' = i /\ w' = w /\ trunc' = trunc
      /\ pc' = IF ret' # "SUCCESS" THEN "done" ELSE IF wire = <<>> THEN "send" ELSE "recv"
      /\ SendRecord(IF wire = <<>> THEN w.len ELSE 1)
  BY DEF Send
<1>2. PICK len : len = (IF wire = <<>> THEN w.len ELSE 1)
  BY Zenon
<1>3. PICK hdr \in {0, 5}, body \in {0, len} :
         /\ wire' = Append(wire, [announced |-> Low16(len), hdr |-> hdr, body |-> body])
         /\ ret' = IF hdr = 5 /\ body = len THEN ret ELSE "E_CRYPTO"
  BY <1>1, <1>2 DEF SendRecord, Low16
<1>4. pc' # "done" => hdr = 5 /\ body = len
  BY <1>1, <1>3
<1>5. PICK x : x = [announced |-> Low16(len), hdr |-> hdr, body |-> body]
  OBVIOUS
<1>6. wire' = Append(wire, x) /\ x.announced = Low16(len) /\ x.hdr = hdr /\ x.body = body
  BY <1>3, <1>5
<1>7. \E y : /\ wire' = Append(wire, y) /\ y.announced = Low16(len)
             /\ pc' # "done" => y.hdr = 5 /\ y.body = len
  BY <1>4, <1>6
<1> QED BY <1>1, <1>2, <1>7

Fits16 == \A j \in Jobs : j.cap < 65536

LEMMA SmallLength == \A n \in Nat : n < 65536 => n % 65536 = n
BY SMT

LEMMA SendStep ==
    ASSUME Fits16, BuildShape, SendInv, Send
    PROVE  SendInv'
<1>1. /\ pc = "send" /\ i' = i /\ job' = job /\ w' = w
      /\ pc' \in {"send", "recv", "done"}
      /\ pc' = "send" => wire = <<>>
      /\ pc' = "recv" => wire # <<>>
  BY SendCases
<1>2. PICK len \in Nat : len = IF wire = <<>> THEN w.len ELSE 1
  BY DEF BuildShape, Writer
<1>3. Low16(len) = len
  <2>1. PICK c \in Nat : c = job.cap /\ c < 65536
    BY JobTypes, Fits16 DEF BuildShape, Fits16
  <2>2. w.len < 65536 /\ 1 < 65536
    BY <2>1, SMT DEF BuildShape, Writer
  <2>3. len < 65536
    BY <1>2, <2>2
  <2> QED BY <2>3, SmallLength DEF Low16
<1>4. PICK x : /\ wire' = Append(wire, x)
               /\ pc' # "done" => x.hdr = 5 /\ x.announced = len /\ x.body = len
  <2>1. PICK x : /\ wire' = Append(wire, x)
                 /\ x.announced = Low16(IF wire = <<>> THEN w.len ELSE 1)
                 /\ pc' # "done" => x.hdr = 5 /\ x.body = IF wire = <<>> THEN w.len ELSE 1
    BY SendCases
  <2> QED BY <1>2, <1>3, <2>1
<1>5. pc' # "done" => Sent(x)
  BY <1>4 DEF Sent
<1>6. ~w.err /\ i = Len(Script) /\ Script' = Script
  BY <1>1 DEF SendInv, Script
<1>7. ASSUME pc' = "send"
      PROVE  \E a : wire' = <<a>> /\ Sent(a)
  <2>1. wire = <<>>
    BY <1>1, <1>7
  <2>2. Append(<<>>, x) = <<x>>
    <3>1. x \in {x}
      OBVIOUS
    <3> QED BY <3>1, FirstSeqs
  <2> QED BY <1>4, <1>5, <1>7, <2>1, <2>2
<1>8. ASSUME pc' = "recv"
      PROVE  \E a, b : wire' = <<a, b>> /\ Sent(a) /\ Sent(b)
  <2>1. PICK a : wire = <<a>> /\ Sent(a)
    BY <1>1, <1>8 DEF SendInv
  <2>2. Append(<<a>>, x) = <<a, x>>
    <3>1. a \in {a, x} /\ x \in {a, x}
      OBVIOUS
    <3>2. <<a>> \in Seq({a, x})
      BY <3>1
    <3>3. <<a>> \o <<x>> = <<a, x>> /\ Append(<<a>>, x) = <<a>> \o <<x>>
      BY <3>1, <3>2, FirstSeqs, AppendIsConcat
    <3> QED BY <3>3
  <2> QED BY <1>4, <1>5, <1>8, <2>1, <2>2
<1> QED BY <1>1, <1>6, <1>7, <1>8 DEF SendInv

LEMMA ShapeInit == Init => BuildShape /\ BinderInv /\ SendInv
<1> SUFFICES ASSUME Init PROVE BuildShape /\ BinderInv /\ SendInv
  OBVIOUS
<1>1. /\ job \in Jobs /\ pc = "check" /\ i = 0 /\ wire = <<>>
      /\ w = [len |-> 0, cap |-> job.cap, err |-> FALSE]
      /\ trunc = [truncOff |-> 0, binderOff |-> 0]
  BY DEF Init, HelloInit, WriterInit
<1>2. PICK l \in Nat : l = Len(Script)
  BY <1>1, ScriptTypes, LenProperties DEF Ops
<1>3. PICK c \in Nat : c = job.cap
  BY <1>1, JobTypes
<1>4. w \in Writer /\ w.cap = job.cap /\ w.len <= w.cap /\ w.err = FALSE
  BY <1>1, <1>3 DEF Writer
<1>5. BuildShape
  <2>1. i \in Nat /\ i <= Len(Script)
    BY <1>1, <1>2
  <2>2. trunc \in [truncOff : Nat, binderOff : Nat]
    BY <1>1
  <2> QED BY <1>1, <1>4, <2>1, <2>2 DEF BuildShape
<1>6. BinderInv
  <2> SUFFICES ASSUME job.path = "psk" PROVE ~(Left <= 9) /\ ~(Left <= 6)
    BY DEF BinderInv
  <2>1. 18 <= l
    BY <1>1, <1>2, ScriptTypes DEF PskTail
  <2>2. Left = l
    BY <1>1, <1>2 DEF Left
  <2> QED BY <2>1, <2>2
<1>7. SendInv
  BY <1>1 DEF SendInv
<1> QED BY <1>5, <1>6, <1>7

HelloVarsKept == UNCHANGED <<job, i, w, trunc>>

LEMMA KeptShape ==
    ASSUME BuildShape, BinderInv, HelloVarsKept,
           pc' \in {"check", "build", "send", "recv", "done"}
    PROVE  BuildShape' /\ BinderInv'
<1>1. job' = job /\ i' = i /\ w' = w /\ trunc' = trunc
  BY DEF HelloVarsKept
<1>2. Script' = Script
  BY <1>1 DEF Script
<1> QED BY <1>1, <1>2 DEF BuildShape, BinderInv, Left, SinceBoundary

LEMMA BuildNext ==
    ASSUME BuildShape /\ BinderInv, [Next]_vars
    PROVE  BuildShape' /\ BinderInv'
<1>1. CASE AnyCall
  BY <1>1, CallShape, CallBinder
<1>2. CASE Check \/ BuildEnds
  <2>1. HelloVarsKept /\ pc' \in {"check", "build", "send", "recv", "done"}
    BY <1>2 DEF Check, BuildEnds, HelloVarsKept
  <2> QED BY <2>1, KeptShape
<1>3. CASE Send
  <2>1. HelloVarsKept /\ pc' \in {"check", "build", "send", "recv", "done"}
    BY <1>3, SendCases DEF HelloVarsKept
  <2> QED BY <2>1, KeptShape
<1>4. CASE UNCHANGED helloVars
  <2>1. HelloVarsKept /\ pc' \in {"check", "build", "send", "recv", "done"}
    BY <1>4 DEF helloVars, HelloVarsKept, BuildShape
  <2> QED BY <2>1, KeptShape
<1>5. AnyCall \/ Check \/ BuildEnds \/ Send \/ UNCHANGED helloVars
  BY DEF Next, HelloNext, AnyCall, Recv, RecvSome, RecvFails, vars
<1> QED BY <1>1, <1>2, <1>3, <1>4, <1>5

LEMMA SendNext ==
    ASSUME Fits16, BuildShape, SendInv, [Next]_vars
    PROVE  SendInv'
<1>1. CASE AnyCall
  <2>1. pc = "build" /\ pc' = pc /\ wire' = wire
    BY <1>1, CallCases DEF AnyCall
  <2> QED BY <2>1 DEF SendInv
<1>2. CASE Check
  <2>1. pc = "check" /\ pc' \in {"build", "done"} /\ w' = w /\ wire' = wire
    BY <1>2 DEF Check
  <2> QED BY <2>1 DEF SendInv
<1>3. CASE BuildEnds
  <2>1. /\ pc = "build" /\ i = Len(Script) /\ pc' \in {"send", "done"}
        /\ pc' = "send" => ~w.err
        /\ job' = job /\ i' = i /\ w' = w /\ wire' = wire
    BY <1>3 DEF BuildEnds
  <2>2. Script' = Script
    BY <2>1 DEF Script
  <2> QED BY <2>1, <2>2 DEF SendInv
<1>4. CASE Send
  BY <1>4, SendStep
<1>5. CASE UNCHANGED helloVars
  <2>1. /\ job' = job /\ i' = i /\ w' = w /\ wire' = wire /\ pc' = pc
    BY <1>5 DEF helloVars
  <2>2. Script' = Script
    BY <2>1 DEF Script
  <2> QED BY <2>1, <2>2 DEF SendInv
<1>6. AnyCall \/ Check \/ BuildEnds \/ Send \/ UNCHANGED helloVars
  BY DEF Next, HelloNext, AnyCall, Recv, RecvSome, RecvFails, vars
<1> QED BY <1>1, <1>2, <1>3, <1>4, <1>5, <1>6

BuildInv == BuildShape /\ BinderInv

LEMMA BuildInvariant == Spec => []BuildInv
<1>1. Init => BuildInv
  BY ShapeInit DEF BuildInv
<1>2. BuildInv /\ [Next]_vars => BuildInv'
  BY BuildNext DEF BuildInv
<1> QED BY <1>1, <1>2, PTL DEF Spec

(* No call of a writer and no call of the transport writes behind a buffer:
   wn_Write_'s sticky error stops the first that does not fit and all behind
   it, and a length is judged before the bytes it announces are read. *)
THEOREM BuffersHold == Spec => []WithinBuffer
<1>1. BuildInv /\ RecvInv => WithinBuffer
  BY DEF BuildInv, BuildShape, RecvInv, RecvShape, WithinBuffer
<1> QED BY <1>1, BuildInvariant, RecvInvariant, PTL

(* SendInv but for the announced lengths, which may wrap: when a builder is
   through, it has made all its calls. *)
BuiltInv == pc = "send" => ~w.err /\ i = Len(Script)

LEMMA BuiltNext ==
    ASSUME BuildShape, BuiltInv, [Next]_vars
    PROVE  BuiltInv'
<1>1. CASE AnyCall
  <2>1. pc = "build" /\ pc' = pc
    BY <1>1, CallCases DEF AnyCall
  <2> QED BY <2>1 DEF BuiltInv
<1>2. CASE Check
  <2>1. pc' # "send"
    BY <1>2 DEF Check
  <2> QED BY <2>1 DEF BuiltInv
<1>3. CASE BuildEnds
  <2>1. /\ i = Len(Script) /\ (pc' = "send" => ~w.err)
        /\ job' = job /\ i' = i /\ w' = w
    BY <1>3 DEF BuildEnds
  <2>2. Script' = Script
    BY <2>1 DEF Script
  <2> QED BY <2>1, <2>2 DEF BuiltInv
<1>4. CASE Send
  <2>1. pc = "send" /\ job' = job /\ i' = i /\ w' = w
    BY <1>4, SendCases
  <2>2. Script' = Script
    BY <2>1 DEF Script
  <2> QED BY <2>1, <2>2 DEF BuiltInv
<1>5. CASE UNCHANGED helloVars
  <2>1. /\ job' = job /\ i' = i /\ w' = w /\ pc' = pc
    BY <1>5 DEF helloVars
  <2>2. Script' = Script
    BY <2>1 DEF Script
  <2> QED BY <2>1, <2>2 DEF BuiltInv
<1>6. AnyCall \/ Check \/ BuildEnds \/ Send \/ UNCHANGED helloVars
  BY DEF Next, HelloNext, AnyCall, Recv, RecvSome, RecvFails, vars
<1> QED BY <1>1, <1>2, <1>3, <1>4, <1>5, <1>6

LEMMA BuiltInvariant == Spec => []BuiltInv
<1>1. Init => BuiltInv
  BY DEF Init, HelloInit, BuiltInv
<1>2. BuildInv /\ BuiltInv /\ [Next]_vars => BuiltInv'
  BY BuiltNext DEF BuildInv
<1> QED BY <1>1, <1>2, BuildInvariant, PTL DEF Spec

(* The PSK builder notes its boundary and its binder where RFC 8446 4.2.11.2
   wants them, whatever the lengths of identity and key share: what is hashed
   for the binder ends where the list of binders begins. *)
THEOREM BinderIsLast == Spec => []BinderAtEnd
<1>1. ASSUME BuildInv, BuiltInv PROVE BinderAtEnd
  <2> SUFFICES ASSUME pc = "send", job.path = "psk"
               PROVE  trunc.binderOff + 32 = w.len /\ trunc.truncOff + 3 = trunc.binderOff
    BY DEF BinderAtEnd
  <2>1. i = Len(Script) /\ ~w.err /\ Len(Script) \in Nat
    BY <1>1, ScriptTypes, LenProperties DEF BuiltInv, BuildInv, BuildShape, Ops
  <2>2. Left = 0
    BY <2>1 DEF Left
  <2>3. w.len = trunc.truncOff + 35 /\ trunc.binderOff = trunc.truncOff + 3
    BY <1>1, <2>1, <2>2 DEF BuildInv, BinderInv, SinceBoundary
  <2>4. trunc.truncOff \in Nat
    BY <1>1 DEF BuildInv, BuildShape
  <2> QED BY <2>3, <2>4
<1>2. BuildInv /\ BuiltInv => BinderAtEnd
  BY <1>1
<1> QED BY <1>2, BuildInvariant, BuiltInvariant, PTL

(* send_plain_record: with a buffer whose length 16 bits can hold, a driver
   goes on to receive only when both records went out whole and announced
   what they carried, and a hello that did not fit is not sent. *)
THEOREM SentWhole == Fits16 => (Spec => []SentWholeOrFailed)
<1> SUFFICES ASSUME Fits16 PROVE Spec => []SentWholeOrFailed
  OBVIOUS
<1>1. Init => SendInv
  BY ShapeInit
<1>2. BuildInv /\ SendInv /\ [Next]_vars => SendInv'
  BY SendNext DEF BuildInv
<1>3. SendInv => SentWholeOrFailed
  <2> SUFFICES ASSUME SendInv, pc = "recv"
               PROVE  /\ Len(wire) = 2
                      /\ \A r \in DOMAIN wire : wire[r].hdr = 5 /\ wire[r].body = wire[r].announced
    BY DEF SentWholeOrFailed, SendInv
  <2>1. PICK a, b : wire = <<a, b>> /\ Sent(a) /\ Sent(b)
    BY DEF SendInv
  <2>2. Len(wire) = 2 /\ DOMAIN wire = 1 .. 2 /\ wire[1] = a /\ wire[2] = b
    BY <2>1
  <2>3. \A r \in 1 .. 2 : r = 1 \/ r = 2
    OBVIOUS
  <2> QED BY <2>1, <2>2, <2>3 DEF Sent
<1> QED BY <1>1, <1>2, <1>3, BuildInvariant, PTL DEF Spec

-----------------------------------------------------------------------------
(***************************************************************************)
(* The lengths of a hello.  A script is laid out over the positions p: the *)
(* m calls at its front write p[m] bytes, each length among them that is   *)
(* closed has its content's end where its number says, and `due' holds     *)
(* those still open, each with the position at which it must be closed     *)
(* (Anywhere for one that is filled in then).                              *)
(***************************************************************************)
Opener(c) == c.op \in {"start", "pre"}
Ender(c) == c.op = "end"
Anywhere == -1

DueAt(s, p, j) == IF s[j].op = "start" THEN Anywhere ELSE p[j] + s[j].val

(* The calls j and k are of one length. *)
Pair(s, j, k) == Opener(s[j]) /\ Ender(s[k]) /\ s[j].name = s[k].name

Positions(s, m, p) ==
    /\ m \in Nat /\ m <= Len(s) /\ p \in [Nat -> Nat] /\ p[0] = 0
    /\ \A j \in 1 .. m : p[j] = p[j - 1] + s[j].n

OncePerName(s, m, used) ==
    /\ \A j \in 1 .. m : Opener(s[j]) \/ Ender(s[j]) => s[j].name \in used
    /\ \A j, k \in 1 .. m : (Opener(s[j]) /\ Opener(s[k]) /\ s[j].name = s[k].name) => j = k
    /\ \A j, k \in 1 .. m : (Ender(s[j]) /\ Ender(s[k]) /\ s[j].name = s[k].name) => j = k

ClosedRight(s, m, p) ==
    \A k \in 1 .. m : Ender(s[k]) =>
        \E j \in 1 .. m : j < k /\ Pair(s, j, k) /\ DueAt(s, p, j) \in {Anywhere, p[k]}

StillDue(s, m, p, due) ==
    /\ \A j \in 1 .. m : Opener(s[j]) =>
          \/ <<s[j].name, DueAt(s, p, j)>> \in due
          \/ \E k \in 1 .. m : j < k /\ Pair(s, j, k)
    /\ \A d \in due : \E j \in 1 .. m :
          /\ Opener(s[j]) /\ d = <<s[j].name, DueAt(s, p, j)>>
          /\ \A k \in 1 .. m : ~Pair(s, j, k)

LaidOver(s, m, p, due, used) ==
    /\ Positions(s, m, p) /\ OncePerName(s, m, used)
    /\ ClosedRight(s, m, p) /\ StillDue(s, m, p, due)

Laid(s, m, n, due, used) ==
    s \in Ops /\ \E p : LaidOver(s, m, p, due, used) /\ p[m] = n

LaidWhole(s, n, used) == Laid(s, Len(s), n, {}, used)

LEMMA CallIs ==
    ASSUME NEW s \in Ops, NEW j \in 1 .. Len(s)
    PROVE  s[j] \in Op /\ s[j].n \in Nat /\ s[j].val \in Nat
<1>1. s[j] \in Op
  BY ElementOfSeq DEF Ops
<1> QED BY <1>1 DEF Op

LEMMA LaidNone == ASSUME NEW s \in Ops, NEW used PROVE Laid(s, 0, 0, {}, used)
<1> DEFINE p == [j \in Nat |-> 0]
<1>1. p \in [Nat -> Nat] /\ p[0] = 0 /\ 0 <= Len(s)
  BY LenProperties DEF Ops
<1> HIDE DEF p
<1>2. \A j \in 1 .. 0 : FALSE
  OBVIOUS
<1>3. LaidOver(s, 0, p, {}, used)
  BY <1>1, <1>2 DEF LaidOver, Positions, OncePerName, ClosedRight, StillDue
<1> QED BY <1>1, <1>3 DEF Laid

(* What is said of the calls at the front does not depend on later positions. *)
Longer(s, m, p, q) ==
    /\ q \in [Nat -> Nat] /\ \A j \in 0 .. m : q[j] = p[j]
    /\ q[m + 1] = p[m] + s[m + 1].n

LEMMA PositionsNext ==
    ASSUME NEW s \in Ops, NEW m \in Nat, NEW p, Positions(s, m, p), m < Len(s)
    PROVE  \E q : Longer(s, m, p, q) /\ Positions(s, m + 1, q)
<1> DEFINE q == [j \in Nat |-> IF j = m + 1 THEN p[m] + s[m + 1].n ELSE p[j]]
<1>0. Len(s) \in Nat
  BY LenProperties DEF Ops
<1>1. p \in [Nat -> Nat] /\ p[0] = 0 /\ \A j \in 1 .. m : p[j] = p[j - 1] + s[j].n
  BY DEF Positions
<1>2. s[m + 1].n \in Nat
  <2>1. m + 1 \in 1 .. Len(s)
    BY <1>0
  <2> QED BY <2>1, CallIs
<1>3. q \in [Nat -> Nat] /\ (\A j \in 0 .. m : q[j] = p[j]) /\ q[m + 1] = p[m] + s[m + 1].n
  <2>0. PICK a \in Nat, b \in Nat : a = p[m] /\ b = s[m + 1].n
    BY <1>1, <1>2
  <2>1. PICK v \in Nat : v = p[m] + s[m + 1].n
    <3>1. a + b \in Nat
      OBVIOUS
    <3> QED BY <2>0, <3>1
  <2>2. q = [j \in Nat |-> IF j = m + 1 THEN v ELSE p[j]]
    BY <2>1
  <2>3. \A j \in Nat : p[j] \in Nat
    BY <1>1
  <2>4. q \in [Nat -> Nat]
    BY <2>2, <2>3
  <2>5. q[m + 1] = v /\ \A j \in 0 .. m : q[j] = p[j]
    BY <2>2
  <2> QED BY <2>1, <2>4, <2>5
<1> HIDE DEF q
<1>4. q[0] = 0 /\ m + 1 \in Nat /\ m + 1 <= Len(s)
  BY <1>0, <1>1, <1>3
<1>5. ASSUME NEW j \in 1 .. m + 1 PROVE q[j] = q[j - 1] + s[j].n
  <2>1. CASE j = m + 1
    <3>1. j - 1 = m /\ m \in 0 .. m
      BY <2>1
    <3>2. q[m] = p[m]
      BY <1>3, <3>1
    <3> QED BY <1>3, <2>1, <3>1, <3>2
  <2>2. CASE j # m + 1
    <3>1. j \in 1 .. m /\ j \in 0 .. m /\ j - 1 \in 0 .. m
      BY <2>2
    <3> QED BY <1>1, <1>3, <3>1
  <2> QED BY <2>1, <2>2
<1> QED BY <1>3, <1>4, <1>5 DEF Longer, Positions

LEMMA DueKept ==
    ASSUME NEW s, NEW m \in Nat, NEW p, NEW q, Longer(s, m, p, q), NEW j \in 1 .. m
    PROVE  DueAt(s, q, j) = DueAt(s, p, j) /\ q[j] = p[j]
<1>1. j \in 0 .. m
  OBVIOUS
<1> QED BY <1>1 DEF DueAt, Longer

(* A call that neither opens a length nor closes one *)
LEMMA LaidPlain ==
    ASSUME NEW s, NEW m, NEW n, NEW due, NEW used, Laid(s, m, n, due, used), m < Len(s),
           s[m + 1].op \in {"put", "note"}
    PROVE  Laid(s, m + 1, n + s[m + 1].n, due, used)
<1>1. PICK p : LaidOver(s, m, p, due, used) /\ p[m] = n /\ s \in Ops
  BY DEF Laid
<1>2. m \in Nat /\ Positions(s, m, p)
  BY <1>1 DEF LaidOver, Positions
<1>3. PICK q : Longer(s, m, p, q) /\ Positions(s, m + 1, q)
  BY <1>1, <1>2, PositionsNext
<1>4. ~Opener(s[m + 1]) /\ ~Ender(s[m + 1])
  BY DEF Opener, Ender
<1>5. \A j \in 1 .. m + 1 : j \in 1 .. m \/ j = m + 1
  BY <1>2
<1>5a. \A j \in 1 .. m : j \in 1 .. m + 1
  BY <1>2
<1>6. \A j \in 1 .. m : DueAt(s, q, j) = DueAt(s, p, j) /\ q[j] = p[j]
  BY <1>2, <1>3, DueKept
<1>7. OncePerName(s, m + 1, used)
  BY <1>1, <1>4, <1>5 DEF LaidOver, OncePerName
<1>8. ClosedRight(s, m + 1, q)
  <2> SUFFICES ASSUME NEW k \in 1 .. m + 1, Ender(s[k])
               PROVE  \E j \in 1 .. m + 1 :
                         j < k /\ Pair(s, j, k) /\ DueAt(s, q, j) \in {Anywhere, q[k]}
    BY DEF ClosedRight
  <2>1. k \in 1 .. m
    BY <1>4, <1>5
  <2>2. PICK j \in 1 .. m : j < k /\ Pair(s, j, k) /\ DueAt(s, p, j) \in {Anywhere, p[k]}
    BY <1>1, <2>1 DEF LaidOver, ClosedRight
  <2> QED BY <1>5a, <1>6, <2>1, <2>2
<1>9. StillDue(s, m + 1, q, due)
  <2>1. ASSUME NEW j \in 1 .. m + 1, Opener(s[j])
        PROVE  \/ <<s[j].name, DueAt(s, q, j)>> \in due
               \/ \E k \in 1 .. m + 1 : j < k /\ Pair(s, j, k)
    <3>1. j \in 1 .. m
      BY <1>4, <1>5, <2>1
    <3>2. \/ <<s[j].name, DueAt(s, p, j)>> \in due
          \/ \E k \in 1 .. m : j < k /\ Pair(s, j, k)
      BY <1>1, <2>1, <3>1 DEF LaidOver, StillDue
    <3> QED BY <1>5a, <1>6, <3>1, <3>2
  <2>2. ASSUME NEW d \in due
        PROVE  \E j \in 1 .. m + 1 : /\ Opener(s[j]) /\ d = <<s[j].name, DueAt(s, q, j)>>
                                     /\ \A k \in 1 .. m + 1 : ~Pair(s, j, k)
    <3>1. PICK j \in 1 .. m : /\ Opener(s[j]) /\ d = <<s[j].name, DueAt(s, p, j)>>
                              /\ \A k \in 1 .. m : ~Pair(s, j, k)
      BY <1>1 DEF LaidOver, StillDue
    <3>2. \A k \in 1 .. m + 1 : ~Pair(s, j, k)
      BY <1>4, <1>5, <3>1 DEF Pair
    <3> QED BY <1>5a, <1>6, <3>1, <3>2
  <2> QED BY <2>1, <2>2 DEF StillDue
<1>10. q[m + 1] = n + s[m + 1].n
  BY <1>1, <1>3 DEF Longer
<1> QED BY <1>1, <1>3, <1>7, <1>8, <1>9, <1>10 DEF Laid, LaidOver

(* A call that opens a length of a name not used before *)
LEMMA LaidOpen ==
    ASSUME NEW s, NEW m, NEW n, NEW due, NEW used, Laid(s, m, n, due, used), m < Len(s),
           Opener(s[m + 1]), s[m + 1].name \notin used, NEW at,
           at = IF s[m + 1].op = "start" THEN Anywhere ELSE n + s[m + 1].n + s[m + 1].val
    PROVE  Laid(s, m + 1, n + s[m + 1].n, due \cup {<<s[m + 1].name, at>>},
                used \cup {s[m + 1].name})
<1> DEFINE x == s[m + 1].name
           more == due \cup {<<x, at>>}
<1>1. PICK p : LaidOver(s, m, p, due, used) /\ p[m] = n /\ s \in Ops
  BY DEF Laid
<1>2. m \in Nat /\ Positions(s, m, p)
  BY <1>1 DEF LaidOver, Positions
<1>3. PICK q : Longer(s, m, p, q) /\ Positions(s, m + 1, q)
  BY <1>1, <1>2, PositionsNext
<1>4. ~Ender(s[m + 1])
  BY DEF Opener, Ender
<1>5. \A j \in 1 .. m + 1 : j \in 1 .. m \/ j = m + 1
  BY <1>2
<1>5a. (\A j \in 1 .. m : j \in 1 .. m + 1) /\ m + 1 \in 1 .. m + 1
  BY <1>2
<1>6. \A j \in 1 .. m : DueAt(s, q, j) = DueAt(s, p, j) /\ q[j] = p[j]
  BY <1>2, <1>3, DueKept
<1>7. \A j \in 1 .. m : Opener(s[j]) \/ Ender(s[j]) => s[j].name \in used /\ s[j].name # x
  BY <1>1 DEF LaidOver, OncePerName
<1>8. q[m + 1] = n + s[m + 1].n /\ DueAt(s, q, m + 1) = at
  BY <1>1, <1>3 DEF Longer, DueAt
<1>9. OncePerName(s, m + 1, used \cup {x})
  <2>1. ASSUME NEW j \in 1 .. m + 1, Opener(s[j]) \/ Ender(s[j])
        PROVE  s[j].name \in used \cup {x}
    BY <1>5, <1>7, <2>1
  <2>2. ASSUME NEW j \in 1 .. m + 1, NEW k \in 1 .. m + 1,
               Opener(s[j]), Opener(s[k]), s[j].name = s[k].name
        PROVE  j = k
    <3>1. j \in 1 .. m /\ k \in 1 .. m => j = k
      BY <1>1, <2>2 DEF LaidOver, OncePerName
    <3> QED BY <1>5, <1>7, <2>2, <3>1
  <2>3. ASSUME NEW j \in 1 .. m + 1, NEW k \in 1 .. m + 1,
               Ender(s[j]), Ender(s[k]), s[j].name = s[k].name
        PROVE  j = k
    <3>1. j \in 1 .. m /\ k \in 1 .. m
      BY <1>4, <1>5, <2>3
    <3> QED BY <1>1, <2>3, <3>1 DEF LaidOver, OncePerName
  <2> QED BY <2>1, <2>2, <2>3 DEF OncePerName
<1>10. ClosedRight(s, m + 1, q)
  <2> SUFFICES ASSUME NEW k \in 1 .. m + 1, Ender(s[k])
               PROVE  \E j \in 1 .. m + 1 :
                         j < k /\ Pair(s, j, k) /\ DueAt(s, q, j) \in {Anywhere, q[k]}
    BY DEF ClosedRight
  <2>1. k \in 1 .. m
    BY <1>4, <1>5
  <2>2. PICK j \in 1 .. m : j < k /\ Pair(s, j, k) /\ DueAt(s, p, j) \in {Anywhere, p[k]}
    BY <1>1, <2>1 DEF LaidOver, ClosedRight
  <2> QED BY <1>5a, <1>6, <2>1, <2>2
<1>11. StillDue(s, m + 1, q, more)
  <2>1. ASSUME NEW j \in 1 .. m + 1, Opener(s[j])
        PROVE  \/ <<s[j].name, DueAt(s, q, j)>> \in more
               \/ \E k \in 1 .. m + 1 : j < k /\ Pair(s, j, k)
    <3>1. CASE j = m + 1
      BY <1>8, <3>1
    <3>2. CASE j \in 1 .. m
      <4>1. \/ <<s[j].name, DueAt(s, p, j)>> \in due
            \/ \E k \in 1 .. m : j < k /\ Pair(s, j, k)
        BY <1>1, <2>1, <3>2 DEF LaidOver, StillDue
      <4> QED BY <1>5a, <1>6, <3>2, <4>1
    <3> QED BY <1>5, <3>1, <3>2
  <2>2. ASSUME NEW d \in due
        PROVE  \E j \in 1 .. m + 1 : /\ Opener(s[j]) /\ d = <<s[j].name, DueAt(s, q, j)>>
                                     /\ \A k \in 1 .. m + 1 : ~Pair(s, j, k)
    <3>1. PICK j \in 1 .. m : /\ Opener(s[j]) /\ d = <<s[j].name, DueAt(s, p, j)>>
                              /\ \A k \in 1 .. m : ~Pair(s, j, k)
      BY <1>1 DEF LaidOver, StillDue
    <3>2. \A k \in 1 .. m + 1 : ~Pair(s, j, k)
      BY <1>4, <1>5, <3>1 DEF Pair
    <3> QED BY <1>5a, <1>6, <3>1, <3>2
  <2>3. \E j \in 1 .. m + 1 : /\ Opener(s[j]) /\ <<x, at>> = <<s[j].name, DueAt(s, q, j)>>
                              /\ \A k \in 1 .. m + 1 : ~Pair(s, j, k)
    <3>1. \A k \in 1 .. m + 1 : ~Pair(s, m + 1, k)
      BY <1>4, <1>5, <1>7 DEF Pair
    <3> QED BY <1>5a, <1>8, <3>1
  <2>4. \A d \in more : d \in due \/ d = <<x, at>>
    OBVIOUS
  <2> HIDE DEF more
  <2>5. ASSUME NEW d \in more
        PROVE  \E j \in 1 .. m + 1 : /\ Opener(s[j]) /\ d = <<s[j].name, DueAt(s, q, j)>>
                                     /\ \A k \in 1 .. m + 1 : ~Pair(s, j, k)
    BY <2>2, <2>3, <2>4, <2>5
  <2> QED BY <2>1, <2>5 DEF StillDue
<1>12. LaidOver(s, m + 1, q, more, used \cup {x})
  BY <1>3, <1>9, <1>10, <1>11 DEF LaidOver
<1> QED BY <1>1, <1>8, <1>12 DEF Laid

(* A call that closes one, where it must be closed *)
LEMMA LaidClose ==
    ASSUME NEW s, NEW m, NEW n, NEW due, NEW used, NEW x, NEW at,
           Laid(s, m, n, due \cup {<<x, at>>}, used), <<x, at>> \notin due, m < Len(s),
           s[m + 1] = End(x), at \in {Anywhere, n}
    PROVE  Laid(s, m + 1, n, due, used)
<1> DEFINE more == due \cup {<<x, at>>}
<1>1. PICK p : LaidOver(s, m, p, more, used) /\ p[m] = n /\ s \in Ops
  BY DEF Laid
<1>2. m \in Nat /\ Positions(s, m, p)
  BY <1>1 DEF LaidOver, Positions
<1>3. PICK q : Longer(s, m, p, q) /\ Positions(s, m + 1, q)
  BY <1>1, <1>2, PositionsNext
<1>4. ~Opener(s[m + 1]) /\ Ender(s[m + 1]) /\ s[m + 1].n = 0 /\ s[m + 1].name = x
  BY DEF Opener, Ender, End
<1>5. \A j \in 1 .. m + 1 : j \in 1 .. m \/ j = m + 1
  BY <1>2
<1>5a. (\A j \in 1 .. m : j \in 1 .. m + 1 /\ j < m + 1) /\ m + 1 \in 1 .. m + 1
  BY <1>2
<1>6. \A j \in 1 .. m : DueAt(s, q, j) = DueAt(s, p, j) /\ q[j] = p[j]
  BY <1>2, <1>3, DueKept
<1>7. PICK a \in 1 .. m : /\ Opener(s[a]) /\ <<x, at>> = <<s[a].name, DueAt(s, p, a)>>
                          /\ \A k \in 1 .. m : ~Pair(s, a, k)
  BY <1>1 DEF LaidOver, StillDue
<1>7a. s[a].name = x /\ DueAt(s, p, a) = at
  BY <1>7
<1>7b. \A k \in 1 .. m : Ender(s[k]) => s[k].name # x
  BY <1>7, <1>7a DEF Pair
<1>8. q[m + 1] = n
  <2>1. p[m] \in Nat
    BY <1>2 DEF Positions
  <2> QED BY <1>1, <1>3, <1>4, <2>1 DEF Longer
<1>9. OncePerName(s, m + 1, used)
  <2>1. ASSUME NEW j \in 1 .. m + 1, Opener(s[j]) \/ Ender(s[j])
        PROVE  s[j].name \in used
    <3>1. \A l \in 1 .. m : Opener(s[l]) \/ Ender(s[l]) => s[l].name \in used
      BY <1>1 DEF LaidOver, OncePerName
    <3> QED BY <1>4, <1>5, <1>7, <1>7a, <2>1, <3>1
  <2>2. ASSUME NEW j \in 1 .. m + 1, NEW k \in 1 .. m + 1,
               Opener(s[j]), Opener(s[k]), s[j].name = s[k].name
        PROVE  j = k
    <3>1. j \in 1 .. m /\ k \in 1 .. m
      BY <1>4, <1>5, <2>2
    <3> QED BY <1>1, <2>2, <3>1 DEF LaidOver, OncePerName
  <2>3. ASSUME NEW j \in 1 .. m + 1, NEW k \in 1 .. m + 1,
               Ender(s[j]), Ender(s[k]), s[j].name = s[k].name
        PROVE  j = k
    <3>1. j \in 1 .. m /\ k \in 1 .. m => j = k
      BY <1>1, <2>3 DEF LaidOver, OncePerName
    <3> QED BY <1>4, <1>5, <1>7b, <2>3, <3>1
  <2> QED BY <2>1, <2>2, <2>3 DEF OncePerName
<1>10. ClosedRight(s, m + 1, q)
  <2> SUFFICES ASSUME NEW k \in 1 .. m + 1, Ender(s[k])
               PROVE  \E j \in 1 .. m + 1 :
                         j < k /\ Pair(s, j, k) /\ DueAt(s, q, j) \in {Anywhere, q[k]}
    BY DEF ClosedRight
  <2>1. CASE k \in 1 .. m
    <3>1. PICK j \in 1 .. m : j < k /\ Pair(s, j, k) /\ DueAt(s, p, j) \in {Anywhere, p[k]}
      BY <1>1, <2>1 DEF LaidOver, ClosedRight
    <3> QED BY <1>5a, <1>6, <2>1, <3>1
  <2>2. CASE k = m + 1
    <3>1. Pair(s, a, k) /\ a < k /\ a \in 1 .. m + 1
      BY <1>4, <1>5a, <1>7, <1>7a, <2>2 DEF Pair
    <3>2. DueAt(s, q, a) \in {Anywhere, q[k]}
      BY <1>6, <1>7a, <1>8, <2>2
    <3> QED BY <3>1, <3>2
  <2> QED BY <1>5, <2>1, <2>2
<1>11. StillDue(s, m + 1, q, due)
  <2>1. ASSUME NEW j \in 1 .. m + 1, Opener(s[j])
        PROVE  \/ <<s[j].name, DueAt(s, q, j)>> \in due
               \/ \E k \in 1 .. m + 1 : j < k /\ Pair(s, j, k)
    <3>0. j \in 1 .. m
      BY <1>4, <1>5, <2>1
    <3>1. \/ <<s[j].name, DueAt(s, p, j)>> \in more
          \/ \E k \in 1 .. m : j < k /\ Pair(s, j, k)
      BY <1>1, <2>1, <3>0 DEF LaidOver, StillDue
    <3>2. CASE \E k \in 1 .. m : j < k /\ Pair(s, j, k)
      BY <1>5a, <3>2
    <3>3. CASE <<s[j].name, DueAt(s, p, j)>> \in due
      BY <1>6, <3>0, <3>3
    <3>4. CASE <<s[j].name, DueAt(s, p, j)>> = <<x, at>>
      <4>1. s[j].name = x
        BY <3>4
      <4>2. Pair(s, j, m + 1) /\ j < m + 1
        BY <1>4, <1>5a, <2>1, <3>0, <4>1 DEF Pair
      <4> QED BY <1>5a, <4>2
    <3> QED BY <3>1, <3>2, <3>3, <3>4
  <2>2. ASSUME NEW d \in due
        PROVE  \E j \in 1 .. m + 1 : /\ Opener(s[j]) /\ d = <<s[j].name, DueAt(s, q, j)>>
                                     /\ \A k \in 1 .. m + 1 : ~Pair(s, j, k)
    <3>1. PICK j \in 1 .. m : /\ Opener(s[j]) /\ d = <<s[j].name, DueAt(s, p, j)>>
                              /\ \A k \in 1 .. m : ~Pair(s, j, k)
      <4>1. d \in more
        OBVIOUS
      <4> QED BY <1>1, <4>1 DEF LaidOver, StillDue
    <3>2. s[j].name # x
      <4> SUFFICES ASSUME s[j].name = x PROVE FALSE
        OBVIOUS
      <4>1. j = a
        BY <1>1, <1>7, <1>7a, <3>1 DEF LaidOver, OncePerName
      <4>2. d = <<x, at>>
        BY <1>7, <3>1, <4>1
      <4> QED BY <4>2
    <3>3. \A k \in 1 .. m + 1 : ~Pair(s, j, k)
      BY <1>4, <1>5, <3>1, <3>2 DEF Pair
    <3> QED BY <1>5a, <1>6, <3>1, <3>3
  <2> QED BY <2>1, <2>2 DEF StillDue
<1> QED BY <1>1, <1>3, <1>8, <1>9, <1>10, <1>11 DEF Laid, LaidOver

(* Calls behind calls *)
Joined(s, t, l, u) ==
    /\ u \in Ops /\ l \in Nat /\ l = Len(s) /\ Len(u) = l + Len(t) /\ Len(t) \in Nat
    /\ \A j \in 1 .. l : u[j] = s[j]
    /\ \A j \in 1 .. Len(t) : u[l + j] = t[j]

LEMMA JoinIs ==
    ASSUME NEW s \in Ops, NEW t \in Ops
    PROVE  Joined(s, t, Len(s), s \o t)
<1>1. s \in Seq(Op) /\ t \in Seq(Op) /\ Len(s) \in Nat /\ Len(t) \in Nat
  BY LenProperties DEF Ops
<1> QED BY <1>1, ConcatAt DEF Joined, Ops

(* The positions of both, one after the other *)
Glued(l, n, p, q, r) ==
    /\ r \in [Nat -> Nat]
    /\ \A j \in 0 .. l : r[j] = p[j]
    /\ \A j \in Nat : r[l + j] = n + q[j]

LEMMA GluedIs ==
    ASSUME NEW l \in Nat, NEW n \in Nat, NEW p \in [Nat -> Nat], NEW q \in [Nat -> Nat],
           p[l] = n, q[0] = 0
    PROVE  \E r : Glued(l, n, p, q, r)
<1> DEFINE r == [j \in Nat |-> IF j <= l THEN p[j] ELSE n + q[j - l]]
<1>1. ASSUME NEW j \in Nat PROVE r[j] \in Nat
  <2>1. CASE j <= l
    BY <2>1
  <2>2. CASE ~(j <= l)
    <3>1. PICK a \in Nat : a = j - l
      <4>1. j - l \in Nat
        BY <2>2
      <4> QED BY <4>1
    <3>2. PICK b \in Nat : b = q[a]
      OBVIOUS
    <3>3. n + b \in Nat
      OBVIOUS
    <3> QED BY <2>2, <3>1, <3>2, <3>3
  <2> QED BY <2>1, <2>2
<1>2. \A j \in 0 .. l : r[j] = p[j]
  OBVIOUS
<1>3. ASSUME NEW j \in Nat PROVE r[l + j] = n + q[j]
  <2>1. CASE j = 0
    BY <2>1
  <2>2. CASE j # 0
    <3>1. l + j \in Nat /\ ~(l + j <= l) /\ (l + j) - l = j
      BY <2>2
    <3> QED BY <3>1
  <2> QED BY <2>1, <2>2
<1>4. r \in [Nat -> Nat]
  BY <1>1
<1> HIDE DEF r
<1> QED BY <1>2, <1>3, <1>4 DEF Glued

LEMMA LaidJoin ==
    ASSUME NEW s, NEW n, NEW due, NEW used, Laid(s, Len(s), n, due, used),
           NEW t, NEW m, NEW k, NEW more, Laid(t, m, k, {}, more), used \cap more = {}
    PROVE  Laid(s \o t, Len(s) + m, n + k, due, used \cup more)
<1>1. PICK p : LaidOver(s, Len(s), p, due, used) /\ p[Len(s)] = n /\ s \in Ops
  BY DEF Laid
<1>2. PICK q : LaidOver(t, m, q, {}, more) /\ q[m] = k /\ t \in Ops
  BY DEF Laid
<1>3. PICK l \in Nat, u \in Ops : l = Len(s) /\ u = s \o t /\ Joined(s, t, l, u)
  BY <1>1, <1>2, JoinIs DEF Joined
<1>4. /\ m \in Nat /\ m <= Len(t) /\ p \in [Nat -> Nat] /\ q \in [Nat -> Nat]
      /\ p[0] = 0 /\ q[0] = 0 /\ p[l] = n /\ n \in Nat /\ Len(t) \in Nat
  BY <1>1, <1>2, <1>3 DEF LaidOver, Positions, Joined
<1>5. PICK r : Glued(l, n, p, q, r)
  BY <1>4, GluedIs
<1>6. ASSUME NEW j \in 1 .. l
      PROVE  /\ u[j] = s[j] /\ r[j] = p[j] /\ r[j - 1] = p[j - 1]
             /\ DueAt(u, r, j) = DueAt(s, p, j) /\ j \in 1 .. l + m
  <2>0. j \in 0 .. l /\ j - 1 \in 0 .. l /\ j \in 1 .. l + m
    BY <1>4
  <2>1. u[j] = s[j]
    BY <1>3 DEF Joined
  <2>2. r[j] = p[j] /\ r[j - 1] = p[j - 1]
    BY <1>5, <2>0 DEF Glued
  <2> QED BY <2>0, <2>1, <2>2 DEF DueAt
<1>7. ASSUME NEW j \in 1 .. m
      PROVE  /\ u[l + j] = t[j] /\ r[l + j] = n + q[j] /\ r[(l + j) - 1] = n + q[j - 1]
             /\ l + j \in 1 .. l + m
             /\ \/ DueAt(u, r, l + j) = Anywhere /\ DueAt(t, q, j) = Anywhere
                \/ /\ t[j].op # "start" /\ DueAt(t, q, j) # Anywhere
                   /\ DueAt(u, r, l + j) = n + DueAt(t, q, j)
  <2>0. /\ j \in 1 .. Len(t) /\ j \in Nat /\ j - 1 \in Nat /\ (l + j) - 1 = l + (j - 1)
        /\ l + j \in 1 .. l + m
    BY <1>4
  <2>1. /\ u[l + j] = t[j] /\ j \in Nat /\ j - 1 \in Nat /\ (l + j) - 1 = l + (j - 1)
        /\ l + j \in 1 .. l + m
    BY <1>3, <2>0 DEF Joined
  <2>2. r[l + j] = n + q[j] /\ r[(l + j) - 1] = n + q[j - 1]
    BY <1>5, <2>1 DEF Glued
  <2>3. t[j].val \in Nat
    <3>1. j \in 1 .. Len(t)
      BY <1>4
    <3> QED BY <1>2, <3>1, CallIs
  <2>4. PICK a \in Nat, b \in Nat : a = q[j] /\ b = t[j].val
    BY <1>4, <2>1, <2>3
  <2>5. CASE t[j].op = "start"
    BY <2>1, <2>2, <2>5 DEF DueAt
  <2>6. CASE t[j].op # "start"
    <3>1. DueAt(t, q, j) = a + b /\ DueAt(u, r, l + j) = (n + a) + b
      BY <2>1, <2>2, <2>4, <2>6 DEF DueAt
    <3>2. a + b # Anywhere /\ (n + a) + b = n + (a + b)
      BY <1>4 DEF Anywhere
    <3> QED BY <2>1, <2>2, <2>6, <3>1, <3>2
  <2> QED BY <2>1, <2>2, <2>5, <2>6
<1>8. ASSUME NEW j \in 1 .. l + m PROVE j \in 1 .. l \/ \E h \in 1 .. m : j = l + h
  <2>1. CASE j <= l
    BY <2>1
  <2>2. CASE ~(j <= l)
    <3>1. j - l \in 1 .. m /\ j = l + (j - l)
      BY <1>4, <2>2
    <3> QED BY <3>1
  <2> QED BY <2>1, <2>2
<1>9. \A j \in 1 .. l : Opener(u[j]) \/ Ender(u[j]) => u[j].name \in used
  BY <1>1, <1>3, <1>6 DEF LaidOver, OncePerName
<1>10. \A h \in 1 .. m : Opener(u[l + h]) \/ Ender(u[l + h]) => u[l + h].name \in more
  BY <1>2, <1>7 DEF LaidOver, OncePerName
<1>11. Positions(u, l + m, r)
  <2>1. l + m \in Nat /\ l + m <= Len(u) /\ r \in [Nat -> Nat] /\ r[0] = 0
    <3>1. 0 \in 0 .. l
      OBVIOUS
    <3>2. r \in [Nat -> Nat] /\ r[0] = 0
      BY <1>4, <1>5, <3>1 DEF Glued
    <3>3. Len(u) = l + Len(t)
      BY <1>3 DEF Joined
    <3>4. l + m \in Nat /\ l + m <= Len(u)
      BY <1>4, <3>3
    <3> QED BY <3>2, <3>4
  <2>2. ASSUME NEW j \in 1 .. l PROVE r[j] = r[j - 1] + u[j].n
    BY <1>1, <1>3, <1>6 DEF LaidOver, Positions
  <2>3. ASSUME NEW h \in 1 .. m PROVE r[l + h] = r[(l + h) - 1] + u[l + h].n
    <3>1. q[h] = q[h - 1] + t[h].n
      BY <1>2 DEF LaidOver, Positions
    <3>2. t[h].n \in Nat /\ q[h - 1] \in Nat
      <4>1. h \in 1 .. Len(t) /\ h - 1 \in Nat
        BY <1>4
      <4> QED BY <1>2, <1>4, <4>1, CallIs
    <3>3. PICK a \in Nat, b \in Nat : a = q[h - 1] /\ b = t[h].n
      BY <3>2
    <3>4. n + (a + b) = (n + a) + b
      BY <1>4
    <3> QED BY <1>7, <3>1, <3>3, <3>4
  <2> QED BY <1>8, <2>1, <2>2, <2>3 DEF Positions
<1>12. OncePerName(u, l + m, used \cup more)
  <2>1. ASSUME NEW j \in 1 .. l + m, Opener(u[j]) \/ Ender(u[j])
        PROVE  u[j].name \in used \cup more
    BY <1>8, <1>9, <1>10, <2>1
  <2>2. ASSUME NEW j \in 1 .. l + m, NEW g \in 1 .. l + m,
               Opener(u[j]) \/ Ender(u[j]), Opener(u[g]) \/ Ender(u[g]), u[j].name = u[g].name
        PROVE  \/ j \in 1 .. l /\ g \in 1 .. l
               \/ \E a \in 1 .. m, b \in 1 .. m : j = l + a /\ g = l + b
    <3>1. CASE j \in 1 .. l
      <4>1. u[j].name \notin more
        BY <1>9, <2>2, <3>1
      <4> QED BY <1>8, <1>10, <2>2, <3>1, <4>1
    <3>2. CASE \E h \in 1 .. m : j = l + h
      <4>1. u[j].name \notin used
        BY <1>10, <2>2, <3>2
      <4> QED BY <1>8, <1>9, <2>2, <3>2, <4>1
    <3> QED BY <1>8, <3>1, <3>2
  <2>3. ASSUME NEW j \in 1 .. l + m, NEW g \in 1 .. l + m,
               Opener(u[j]), Opener(u[g]), u[j].name = u[g].name
        PROVE  j = g
    <3>1. CASE j \in 1 .. l /\ g \in 1 .. l
      <4>1. u[j] = s[j] /\ u[g] = s[g]
        BY <1>6, <3>1
      <4> QED BY <1>1, <1>3, <2>3, <3>1, <4>1 DEF LaidOver, OncePerName
    <3>2. ASSUME NEW a \in 1 .. m, NEW b \in 1 .. m, j = l + a, g = l + b PROVE j = g
      <4>1. u[j] = t[a] /\ u[g] = t[b]
        BY <1>7, <3>2
      <4>2. a = b
        BY <1>2, <2>3, <4>1 DEF LaidOver, OncePerName
      <4> QED BY <3>2, <4>2
    <3> QED BY <2>2, <2>3, <3>1, <3>2
  <2>4. ASSUME NEW j \in 1 .. l + m, NEW g \in 1 .. l + m,
               Ender(u[j]), Ender(u[g]), u[j].name = u[g].name
        PROVE  j = g
    <3>1. CASE j \in 1 .. l /\ g \in 1 .. l
      <4>1. u[j] = s[j] /\ u[g] = s[g]
        BY <1>6, <3>1
      <4> QED BY <1>1, <1>3, <2>4, <3>1, <4>1 DEF LaidOver, OncePerName
    <3>2. ASSUME NEW a \in 1 .. m, NEW b \in 1 .. m, j = l + a, g = l + b PROVE j = g
      <4>1. u[j] = t[a] /\ u[g] = t[b]
        BY <1>7, <3>2
      <4>2. a = b
        BY <1>2, <2>4, <4>1 DEF LaidOver, OncePerName
      <4> QED BY <3>2, <4>2
    <3> QED BY <2>2, <2>4, <3>1, <3>2
  <2> QED BY <2>1, <2>3, <2>4 DEF OncePerName
<1>13. ClosedRight(u, l + m, r)
  <2>1. ASSUME NEW h \in 1 .. l, Ender(u[h])
        PROVE  \E j \in 1 .. l + m :
                  j < h /\ Pair(u, j, h) /\ DueAt(u, r, j) \in {Anywhere, r[h]}
    <3>1. PICK j \in 1 .. l : j < h /\ Pair(s, j, h) /\ DueAt(s, p, j) \in {Anywhere, p[h]}
      BY <1>1, <1>3, <1>6, <2>1 DEF LaidOver, ClosedRight
    <3>2. Pair(u, j, h)
      BY <1>6, <3>1 DEF Pair
    <3>3. DueAt(u, r, j) = DueAt(s, p, j) /\ r[h] = p[h] /\ j \in 1 .. l + m
      BY <1>6
    <3> QED BY <3>1, <3>2, <3>3
  <2>2. ASSUME NEW h \in 1 .. m, Ender(u[l + h])
        PROVE  \E j \in 1 .. l + m :
                  j < l + h /\ Pair(u, j, l + h) /\ DueAt(u, r, j) \in {Anywhere, r[l + h]}
    <3>0. Ender(t[h])
      BY <1>7, <2>2
    <3>1. PICK j \in 1 .. m : j < h /\ Pair(t, j, h) /\ DueAt(t, q, j) \in {Anywhere, q[h]}
      BY <1>2, <3>0 DEF LaidOver, ClosedRight
    <3>2. Pair(u, l + j, l + h)
      <4>1. u[l + j] = t[j] /\ u[l + h] = t[h]
        BY <1>7
      <4> QED BY <3>1, <4>1 DEF Pair
    <3>3. l + j < l + h /\ l + j \in 1 .. l + m
      BY <1>7, <3>1
    <3>4. DueAt(u, r, l + j) \in {Anywhere, r[l + h]}
      <4>1. r[l + h] = n + q[h]
        BY <1>7
      <4>2. CASE DueAt(u, r, l + j) = Anywhere
        BY <4>2
      <4>3. CASE DueAt(t, q, j) # Anywhere /\ DueAt(u, r, l + j) = n + DueAt(t, q, j)
        BY <3>1, <4>1, <4>3
      <4> QED BY <1>7, <4>2, <4>3
    <3> QED BY <3>2, <3>3, <3>4
  <2>3. ASSUME NEW g \in 1 .. l + m, Ender(u[g])
        PROVE  \E j \in 1 .. l + m :
                  j < g /\ Pair(u, j, g) /\ DueAt(u, r, j) \in {Anywhere, r[g]}
    <3>1. CASE g \in 1 .. l
      BY <2>1, <2>3, <3>1
    <3>2. ASSUME NEW h \in 1 .. m, g = l + h
          PROVE  \E j \in 1 .. l + m :
                    j < g /\ Pair(u, j, g) /\ DueAt(u, r, j) \in {Anywhere, r[g]}
      BY <2>2, <2>3, <3>2
    <3> QED BY <1>8, <3>1, <3>2
  <2> QED BY <2>3 DEF ClosedRight
<1>14. StillDue(u, l + m, r, due)
  <2>1. ASSUME NEW h \in 1 .. l, Opener(u[h])
        PROVE  \/ <<u[h].name, DueAt(u, r, h)>> \in due
               \/ \E g \in 1 .. l + m : h < g /\ Pair(u, h, g)
    <3>1. \/ <<s[h].name, DueAt(s, p, h)>> \in due
          \/ \E g \in 1 .. l : h < g /\ Pair(s, h, g)
      BY <1>1, <1>3, <1>6, <2>1 DEF LaidOver, StillDue
    <3>2. CASE <<s[h].name, DueAt(s, p, h)>> \in due
      BY <1>6, <3>2
    <3>3. ASSUME NEW g \in 1 .. l, h < g, Pair(s, h, g)
          PROVE  \E f \in 1 .. l + m : h < f /\ Pair(u, h, f)
      <4>1. Pair(u, h, g) /\ g \in 1 .. l + m
        BY <1>6, <3>3 DEF Pair
      <4> QED BY <3>3, <4>1
    <3> QED BY <3>1, <3>2, <3>3
  <2>2. ASSUME NEW h \in 1 .. m, Opener(u[l + h])
        PROVE  \E g \in 1 .. l + m : l + h < g /\ Pair(u, l + h, g)
    <3>0. Opener(t[h])
      BY <1>7, <2>2
    <3>1. PICK g \in 1 .. m : h < g /\ Pair(t, h, g)
      BY <1>2, <3>0 DEF LaidOver, StillDue
    <3>2. u[l + h] = t[h] /\ u[l + g] = t[g] /\ l + g \in 1 .. l + m
      BY <1>7
    <3>3. Pair(u, l + h, l + g) /\ l + h < l + g
      BY <3>1, <3>2 DEF Pair
    <3> QED BY <3>2, <3>3
  <2>3. ASSUME NEW g \in 1 .. l + m, Opener(u[g])
        PROVE  \/ <<u[g].name, DueAt(u, r, g)>> \in due
               \/ \E f \in 1 .. l + m : g < f /\ Pair(u, g, f)
    <3>1. CASE g \in 1 .. l
      BY <2>1, <2>3, <3>1
    <3>2. ASSUME NEW h \in 1 .. m, g = l + h
          PROVE  \E f \in 1 .. l + m : g < f /\ Pair(u, g, f)
      BY <2>2, <2>3, <3>2
    <3> QED BY <1>8, <3>1, <3>2
  <2>4. ASSUME NEW d \in due
        PROVE  \E j \in 1 .. l + m : /\ Opener(u[j]) /\ d = <<u[j].name, DueAt(u, r, j)>>
                                     /\ \A g \in 1 .. l + m : ~Pair(u, j, g)
    <3>1. PICK j \in 1 .. l : /\ Opener(s[j]) /\ d = <<s[j].name, DueAt(s, p, j)>>
                              /\ \A g \in 1 .. l : ~Pair(s, j, g)
      BY <1>1, <1>3 DEF LaidOver, StillDue
    <3>2. Opener(u[j]) /\ d = <<u[j].name, DueAt(u, r, j)>> /\ j \in 1 .. l + m
      BY <1>6, <3>1
    <3>3. ASSUME NEW g \in 1 .. l + m, Pair(u, j, g) PROVE FALSE
      <4>1. CASE g \in 1 .. l
        BY <1>6, <3>1, <3>3, <4>1 DEF Pair
      <4>2. ASSUME NEW h \in 1 .. m, g = l + h PROVE FALSE
        <5>1. u[g].name \in more /\ u[j].name \in used
          BY <1>9, <1>10, <3>2, <3>3, <4>2 DEF Pair
        <5> QED BY <3>3, <5>1 DEF Pair
      <4> QED BY <1>8, <4>1, <4>2
    <3> QED BY <3>2, <3>3
  <2> QED BY <2>3, <2>4 DEF StillDue
<1>15. r[l + m] = n + k
  BY <1>2, <1>4, <1>5 DEF Glued
<1> QED BY <1>3, <1>11, <1>12, <1>13, <1>14, <1>15 DEF Laid, LaidOver

(* The calls one by one *)
Step1(s, m, j) == j = m + 1 /\ j \in 1 .. Len(s) /\ m \in Nat

Adds(n, k, a) == a = n + k

LEMMA NextPut ==
    ASSUME NEW s, NEW m, NEW n, NEW due, NEW used, Laid(s, m, n, due, used),
           NEW j, Step1(s, m, j), NEW k, s[j] = Put(k), NEW a, Adds(n, k, a)
    PROVE  Laid(s, j, a, due, used)
<1>1. m < Len(s) /\ s[m + 1] = Put(k)
  BY LenProperties DEF Step1, Laid, Ops
<1>2. s[m + 1].op = "put" /\ s[m + 1].n = k
  BY <1>1 DEF Put
<1>3. Laid(s, m + 1, n + s[m + 1].n, due, used)
  BY <1>1, <1>2, LaidPlain
<1> QED BY <1>2, <1>3 DEF Step1, Adds

LEMMA NextNote ==
    ASSUME NEW s, NEW m, NEW n, NEW due, NEW used, Laid(s, m, n, due, used),
           NEW j, Step1(s, m, j), NEW x, s[j] = Note(x)
    PROVE  Laid(s, j, n, due, used)
<1>1. m < Len(s) /\ s[m + 1] = Note(x)
  BY LenProperties DEF Step1, Laid, Ops
<1>2. s[m + 1].op = "note" /\ s[m + 1].n = 0
  BY <1>1 DEF Note
<1>3. Laid(s, m + 1, n + s[m + 1].n, due, used)
  BY <1>1, <1>2, LaidPlain
<1>4. n \in Nat
  BY DEF Laid, LaidOver, Positions
<1> QED BY <1>2, <1>3, <1>4 DEF Step1

LEMMA NextStart ==
    ASSUME NEW s, NEW m, NEW n, NEW due, NEW used, Laid(s, m, n, due, used),
           NEW j, Step1(s, m, j), NEW x, NEW k, s[j] = Start(x, k), x \notin used,
           NEW a, Adds(n, k, a)
    PROVE  Laid(s, j, a, due \cup {<<x, Anywhere>>}, used \cup {x})
<1>1. m < Len(s) /\ s[m + 1] = Start(x, k)
  BY LenProperties DEF Step1, Laid, Ops
<1>2. s[m + 1].op = "start" /\ s[m + 1].n = k /\ s[m + 1].name = x /\ Opener(s[m + 1])
  BY <1>1 DEF Start, Opener
<1>3. Laid(s, m + 1, n + s[m + 1].n, due \cup {<<s[m + 1].name, Anywhere>>},
           used \cup {s[m + 1].name})
  BY <1>1, <1>2, LaidOpen
<1> QED BY <1>2, <1>3 DEF Step1, Adds

LEMMA NextPre ==
    ASSUME NEW s, NEW m, NEW n, NEW due, NEW used, Laid(s, m, n, due, used),
           NEW j, Step1(s, m, j), NEW x, NEW k, NEW v, s[j] = Pre(x, k, v), x \notin used,
           NEW a, Adds(n, k, a), NEW at, Adds(a, v, at)
    PROVE  Laid(s, j, a, due \cup {<<x, at>>}, used \cup {x})
<1>1. m < Len(s) /\ s[m + 1] = Pre(x, k, v)
  BY LenProperties DEF Step1, Laid, Ops
<1>2. /\ s[m + 1].op # "start" /\ s[m + 1].n = k /\ s[m + 1].name = x /\ s[m + 1].val = v
      /\ Opener(s[m + 1])
  BY <1>1 DEF Pre, Opener
<1>3. Laid(s, m + 1, n + s[m + 1].n,
           due \cup {<<s[m + 1].name, n + s[m + 1].n + s[m + 1].val>>},
           used \cup {s[m + 1].name})
  BY <1>1, <1>2, LaidOpen
<1> QED BY <1>2, <1>3 DEF Step1, Adds

LEMMA NextEnd ==
    ASSUME NEW s, NEW m, NEW n, NEW x, NEW due, NEW used,
           Laid(s, m, n, due \cup {<<x, n>>}, used), <<x, n>> \notin due,
           NEW j, Step1(s, m, j), s[j] = End(x)
    PROVE  Laid(s, j, n, due, used)
<1>1. m < Len(s) /\ s[m + 1] = End(x)
  BY LenProperties DEF Step1, Laid, Ops
<1>2. Laid(s, m + 1, n, due, used)
  BY <1>1, LaidClose
<1> QED BY <1>2 DEF Step1

LEMMA NextFilled ==
    ASSUME NEW s, NEW m, NEW n, NEW x, NEW due, NEW used,
           Laid(s, m, n, due \cup {<<x, Anywhere>>}, used), <<x, Anywhere>> \notin due,
           NEW j, Step1(s, m, j), s[j] = End(x)
    PROVE  Laid(s, j, n, due, used)
<1>1. m < Len(s) /\ s[m + 1] = End(x)
  BY LenProperties DEF Step1, Laid, Ops
<1>2. Laid(s, m + 1, n, due, used)
  BY <1>1, LaidClose
<1> QED BY <1>2 DEF Step1

-----------------------------------------------------------------------------
(* The parts of the hellos *)
LEMMA HeadLaid ==
    ASSUME NEW v \in Nat
    PROVE  Laid(HelloHead(v), 14, 47 + v, {<<"hs", Anywhere>>, <<"exts", Anywhere>>},
                {"hs", "sid", "suites", "comp", "exts"})
<1>1. PICK h \in Ops : h = HelloHead(v)
  BY HeadOps
<1>2. Len(h) = 14
  BY <1>1, SMT DEF HelloHead
<1>3. /\ h[1] = Put(1) /\ h[2] = Start("hs", 3) /\ h[3] = Put(2) /\ h[4] = Put(32)
      /\ h[5] = Pre("sid", 1, v) /\ h[6] = Put(v) /\ h[7] = End("sid")
  BY <1>1, SMT DEF HelloHead
<1>4. /\ h[8] = Pre("suites", 2, 2) /\ h[9] = Put(2) /\ h[10] = End("suites")
      /\ h[11] = Pre("comp", 1, 1) /\ h[12] = Put(1) /\ h[13] = End("comp")
      /\ h[14] = Start("exts", 2)
  BY <1>1, SMT DEF HelloHead
<1>5. /\ Step1(h, 0, 1) /\ Step1(h, 1, 2) /\ Step1(h, 2, 3) /\ Step1(h, 3, 4)
      /\ Step1(h, 4, 5) /\ Step1(h, 5, 6) /\ Step1(h, 6, 7) /\ Step1(h, 7, 8)
      /\ Step1(h, 8, 9) /\ Step1(h, 9, 10) /\ Step1(h, 10, 11) /\ Step1(h, 11, 12)
      /\ Step1(h, 12, 13) /\ Step1(h, 13, 14)
  BY <1>2 DEF Step1
<1> DEFINE at(k) == k + v
<1>6. /\ Adds(39, v, at(39))
      /\ Adds(at(39), 2, at(41))
      /\ Adds(at(41), 2, at(43))
      /\ Adds(at(43), 1, at(44))
      /\ Adds(at(44), 1, at(45))
      /\ Adds(at(45), 2, at(47))
  BY DEF Adds
<1> HIDE DEF at
<1>11. Laid(h, 1, 1, {}, {})
  <2>0. /\ h[1] = Put(1) /\ Step1(h, 0, 1)
        /\ Adds(0, 1, 1)
    BY <1>3, <1>5 DEF Adds
  <2> QED BY <2>0, LaidNone, NextPut
<1>12. Laid(h, 2, 4, {<<"hs", Anywhere>>}, {"hs"})
  <2>0. /\ h[2] = Start("hs", 3) /\ Step1(h, 1, 2)
        /\ Adds(1, 3, 4)
    BY <1>3, <1>5 DEF Adds
  <2>1. {<<"hs", Anywhere>>} = {} \cup {<<"hs", Anywhere>>}
    OBVIOUS
  <2>2. {"hs"} = {} \cup {"hs"} /\ "hs" \notin {}
    OBVIOUS
  <2>3. Laid(h, 2, 4, {} \cup {<<"hs", Anywhere>>}, {} \cup {"hs"})
    BY <2>0, <1>11, <2>2, NextStart
  <2> QED BY <2>1, <2>2, <2>3
<1>13. Laid(h, 3, 6, {<<"hs", Anywhere>>}, {"hs"})
  <2>0. /\ h[3] = Put(2) /\ Step1(h, 2, 3)
        /\ Adds(4, 2, 6)
    BY <1>3, <1>5 DEF Adds
  <2> QED BY <2>0, <1>12, NextPut
<1>14. Laid(h, 4, 38, {<<"hs", Anywhere>>}, {"hs"})
  <2>0. /\ h[4] = Put(32) /\ Step1(h, 3, 4)
        /\ Adds(6, 32, 38)
    BY <1>3, <1>5 DEF Adds
  <2> QED BY <2>0, <1>13, NextPut
<1>15. Laid(h, 5, 39, {<<"hs", Anywhere>>, <<"sid", at(39)>>}, {"hs", "sid"})
  <2>0. /\ h[5] = Pre("sid", 1, v) /\ Step1(h, 4, 5)
        /\ Adds(38, 1, 39) /\ Adds(39, v, at(39))
    BY <1>3, <1>5, <1>6 DEF Adds
  <2>1. {<<"hs", Anywhere>>, <<"sid", at(39)>>} = {<<"hs", Anywhere>>} \cup {<<"sid", at(39)>>}
    OBVIOUS
  <2>2. {"hs", "sid"} = {"hs"} \cup {"sid"} /\ "sid" \notin {"hs"}
    OBVIOUS
  <2>3. Laid(h, 5, 39, {<<"hs", Anywhere>>} \cup {<<"sid", at(39)>>}, {"hs"} \cup {"sid"})
    BY <2>0, <1>14, <2>2, NextPre
  <2> QED BY <2>1, <2>2, <2>3
<1>16. Laid(h, 6, at(39), {<<"hs", Anywhere>>, <<"sid", at(39)>>}, {"hs", "sid"})
  <2>0. /\ h[6] = Put(v) /\ Step1(h, 5, 6)
        /\ Adds(39, v, at(39))
    BY <1>3, <1>5, <1>6
  <2> QED BY <2>0, <1>15, NextPut
<1>17. Laid(h, 7, at(39), {<<"hs", Anywhere>>}, {"hs", "sid"})
  <2>0. h[7] = End("sid") /\ Step1(h, 6, 7)
    BY <1>3, <1>5
  <2>1. {<<"hs", Anywhere>>, <<"sid", at(39)>>} = {<<"hs", Anywhere>>} \cup {<<"sid", at(39)>>}
    OBVIOUS
  <2>2. <<"sid", at(39)>> \notin {<<"hs", Anywhere>>}
    OBVIOUS
  <2>3. Laid(h, 6, at(39), {<<"hs", Anywhere>>} \cup {<<"sid", at(39)>>}, {"hs", "sid"})
    BY <1>16, <2>1
  <2> QED BY <2>0, <2>2, <2>3, NextEnd
<1>18. Laid(h, 8, at(41), {<<"hs", Anywhere>>, <<"suites", at(43)>>}, {"hs", "sid", "suites"})
  <2>0. /\ h[8] = Pre("suites", 2, 2) /\ Step1(h, 7, 8)
        /\ Adds(at(39), 2, at(41)) /\ Adds(at(41), 2, at(43))
    BY <1>4, <1>5, <1>6
  <2>1. {<<"hs", Anywhere>>, <<"suites", at(43)>>} =
          {<<"hs", Anywhere>>} \cup {<<"suites", at(43)>>}
    OBVIOUS
  <2>2. {"hs", "sid", "suites"} = {"hs", "sid"} \cup {"suites"} /\ "suites" \notin {"hs", "sid"}
    OBVIOUS
  <2>3. Laid(h, 8, at(41), {<<"hs", Anywhere>>}
             \cup {<<"suites", at(43)>>}, {"hs", "sid"} \cup {"suites"})
    BY <2>0, <1>17, <2>2, NextPre
  <2> QED BY <2>1, <2>2, <2>3
<1>19. Laid(h, 9, at(43), {<<"hs", Anywhere>>, <<"suites", at(43)>>}, {"hs", "sid", "suites"})
  <2>0. /\ h[9] = Put(2) /\ Step1(h, 8, 9)
        /\ Adds(at(41), 2, at(43))
    BY <1>4, <1>5, <1>6
  <2> QED BY <2>0, <1>18, NextPut
<1>20. Laid(h, 10, at(43), {<<"hs", Anywhere>>}, {"hs", "sid", "suites"})
  <2>0. h[10] = End("suites") /\ Step1(h, 9, 10)
    BY <1>4, <1>5
  <2>1. {<<"hs", Anywhere>>, <<"suites", at(43)>>} =
          {<<"hs", Anywhere>>} \cup {<<"suites", at(43)>>}
    OBVIOUS
  <2>2. <<"suites", at(43)>> \notin {<<"hs", Anywhere>>}
    OBVIOUS
  <2>3. Laid(h, 9, at(43), {<<"hs", Anywhere>>}
             \cup {<<"suites", at(43)>>}, {"hs", "sid", "suites"})
    BY <1>19, <2>1
  <2> QED BY <2>0, <2>2, <2>3, NextEnd
<1>21. Laid(h, 11, at(44), {<<"hs", Anywhere>>, <<"comp", at(45)>>},
            {"hs", "sid", "suites", "comp"})
  <2>0. /\ h[11] = Pre("comp", 1, 1) /\ Step1(h, 10, 11)
        /\ Adds(at(43), 1, at(44)) /\ Adds(at(44), 1, at(45))
    BY <1>4, <1>5, <1>6
  <2>1. {<<"hs", Anywhere>>, <<"comp", at(45)>>} = {<<"hs", Anywhere>>} \cup {<<"comp", at(45)>>}
    OBVIOUS
  <2>2. {"hs", "sid", "suites", "comp"} =
          {"hs", "sid", "suites"} \cup {"comp"} /\ "comp" \notin {"hs", "sid", "suites"}
    OBVIOUS
  <2>3. Laid(h, 11, at(44), {<<"hs", Anywhere>>}
             \cup {<<"comp", at(45)>>}, {"hs", "sid", "suites"} \cup {"comp"})
    BY <2>0, <1>20, <2>2, NextPre
  <2> QED BY <2>1, <2>2, <2>3
<1>22. Laid(h, 12, at(45), {<<"hs", Anywhere>>, <<"comp", at(45)>>},
            {"hs", "sid", "suites", "comp"})
  <2>0. /\ h[12] = Put(1) /\ Step1(h, 11, 12)
        /\ Adds(at(44), 1, at(45))
    BY <1>4, <1>5, <1>6
  <2> QED BY <2>0, <1>21, NextPut
<1>23. Laid(h, 13, at(45), {<<"hs", Anywhere>>}, {"hs", "sid", "suites", "comp"})
  <2>0. h[13] = End("comp") /\ Step1(h, 12, 13)
    BY <1>4, <1>5
  <2>1. {<<"hs", Anywhere>>, <<"comp", at(45)>>} = {<<"hs", Anywhere>>} \cup {<<"comp", at(45)>>}
    OBVIOUS
  <2>2. <<"comp", at(45)>> \notin {<<"hs", Anywhere>>}
    OBVIOUS
  <2>3. Laid(h, 12, at(45), {<<"hs", Anywhere>>}
             \cup {<<"comp", at(45)>>}, {"hs", "sid", "suites", "comp"})
    BY <1>22, <2>1
  <2> QED BY <2>0, <2>2, <2>3, NextEnd
<1>24. Laid(h, 14, at(47), {<<"hs", Anywhere>>, <<"exts", Anywhere>>},
            {"hs", "sid", "suites", "comp", "exts"})
  <2>0. /\ h[14] = Start("exts", 2) /\ Step1(h, 13, 14)
        /\ Adds(at(45), 2, at(47))
    BY <1>4, <1>5, <1>6
  <2>1. {<<"hs", Anywhere>>, <<"exts", Anywhere>>} =
          {<<"hs", Anywhere>>} \cup {<<"exts", Anywhere>>}
    OBVIOUS
  <2>2. {"hs", "sid", "suites", "comp", "exts"} =
          {"hs", "sid", "suites", "comp"}
            \cup {"exts"} /\ "exts" \notin {"hs", "sid", "suites", "comp"}
    OBVIOUS
  <2>3. Laid(h, 14, at(47), {<<"hs", Anywhere>>}
             \cup {<<"exts", Anywhere>>}, {"hs", "sid", "suites", "comp"} \cup {"exts"})
    BY <2>0, <1>23, <2>2, NextStart
  <2> QED BY <2>1, <2>2, <2>3
<1> QED BY <1>1, <1>24 DEF at

(* A length and its content, and one around two lengths *)
LEMMA FieldLaid ==
    ASSUME NEW x \in Names, NEW k \in {1, 2}, NEW v \in Nat
    PROVE  <<Pre(x, k, v), Put(v), End(x)>> \in Ops /\ Len(<<Pre(x, k, v), Put(v), End(x)>>) = 3
           /\ Laid(<<Pre(x, k, v), Put(v), End(x)>>, 3, k + v, {}, {x})
<1>1. PICK c \in Ops : c = <<Pre(x, k, v), Put(v), End(x)>>
  <2>1. Pre(x, k, v) \in Op /\ Put(v) \in Op /\ End(x) \in Op
    BY OpTypes
  <2>2. <<Pre(x, k, v), Put(v), End(x)>> \in Ops
    BY <2>1 DEF Ops
  <2> QED BY <2>2
<1>2. Len(c) = 3
  BY <1>1, SMT
<1>3. /\ c[1] = Pre(x, k, v) /\ c[2] = Put(v)
      /\ c[3] = End(x)
  BY <1>1, SMT
<1>5. /\ Step1(c, 0, 1) /\ Step1(c, 1, 2) /\ Step1(c, 2, 3)
  BY <1>2 DEF Step1
<1> DEFINE to == k + v
<1>6. /\ Adds(0, k, k)
      /\ Adds(k, v, to)
  BY DEF Adds
<1> HIDE DEF to
<1>11. Laid(c, 1, k, {<<x, to>>}, {x})
  <2>0. /\ c[1] = Pre(x, k, v) /\ Step1(c, 0, 1)
        /\ Adds(0, k, k) /\ Adds(k, v, to)
    BY <1>3, <1>5, <1>6
  <2>1. {<<x, to>>} = {} \cup {<<x, to>>}
    OBVIOUS
  <2>2. {x} = {} \cup {x} /\ x \notin {}
    OBVIOUS
  <2>3. Laid(c, 1, k, {} \cup {<<x, to>>}, {} \cup {x})
    BY <2>0, LaidNone, <2>2, NextPre
  <2> QED BY <2>1, <2>2, <2>3
<1>12. Laid(c, 2, to, {<<x, to>>}, {x})
  <2>0. /\ c[2] = Put(v) /\ Step1(c, 1, 2)
        /\ Adds(k, v, to)
    BY <1>3, <1>5, <1>6
  <2> QED BY <2>0, <1>11, NextPut
<1>13. Laid(c, 3, to, {}, {x})
  <2>0. c[3] = End(x) /\ Step1(c, 2, 3)
    BY <1>3, <1>5
  <2>1. {<<x, to>>} = {} \cup {<<x, to>>}
    OBVIOUS
  <2>2. <<x, to>> \notin {}
    OBVIOUS
  <2>3. Laid(c, 2, to, {} \cup {<<x, to>>}, {x})
    BY <1>12, <2>1
  <2> QED BY <2>0, <2>2, <2>3, NextEnd
<1> QED BY <1>1, <1>2, <1>13 DEF to

LEMMA NestLaid ==
    ASSUME NEW x \in Names, NEW y \in Names, x # y, NEW a \in Nat, NEW n \in Nat,
           NEW v \in Nat, v = (a + 2) + n, NEW c \in Ops,
           c = <<Pre(x, 2, v), Put(a), Pre(y, 2, n), Put(n), End(y), End(x)>>
    PROVE  Len(c) = 6 /\ Laid(c, 6, 2 + v, {}, {x, y})
<1>1. PICK h \in Ops : h = c
  OBVIOUS
<1>2. Len(h) = 6
  BY <1>1, SMT
<1>3. /\ h[1] = Pre(x, 2, v) /\ h[2] = Put(a)
      /\ h[3] = Pre(y, 2, n) /\ h[4] = Put(n)
      /\ h[5] = End(y) /\ h[6] = End(x)
  BY <1>1, SMT
<1>5. /\ Step1(h, 0, 1) /\ Step1(h, 1, 2) /\ Step1(h, 2, 3) /\ Step1(h, 3, 4)
      /\ Step1(h, 4, 5) /\ Step1(h, 5, 6)
  BY <1>2 DEF Step1
<1> DEFINE p2 == 2 + a
<1> DEFINE p3 == 4 + a
<1> DEFINE p4 == 2 + v
<1>6. /\ Adds(2, v, p4)
      /\ Adds(2, a, p2)
      /\ Adds(p2, 2, p3)
      /\ Adds(p3, n, p4)
  BY DEF Adds
<1> HIDE DEF p2, p3, p4
<1>11. Laid(h, 1, 2, {<<x, p4>>}, {x})
  <2>0. /\ h[1] = Pre(x, 2, v) /\ Step1(h, 0, 1)
        /\ Adds(0, 2, 2) /\ Adds(2, v, p4)
    BY <1>3, <1>5, <1>6 DEF Adds
  <2>1. {<<x, p4>>} = {} \cup {<<x, p4>>}
    OBVIOUS
  <2>2. {x} = {} \cup {x} /\ x \notin {}
    OBVIOUS
  <2>3. Laid(h, 1, 2, {} \cup {<<x, p4>>}, {} \cup {x})
    BY <2>0, LaidNone, <2>2, NextPre
  <2> QED BY <2>1, <2>2, <2>3
<1>12. Laid(h, 2, p2, {<<x, p4>>}, {x})
  <2>0. /\ h[2] = Put(a) /\ Step1(h, 1, 2)
        /\ Adds(2, a, p2)
    BY <1>3, <1>5, <1>6
  <2> QED BY <2>0, <1>11, NextPut
<1>13. Laid(h, 3, p3, {<<x, p4>>, <<y, p4>>}, {x, y})
  <2>0. /\ h[3] = Pre(y, 2, n) /\ Step1(h, 2, 3)
        /\ Adds(p2, 2, p3) /\ Adds(p3, n, p4)
    BY <1>3, <1>5, <1>6
  <2>1. {<<x, p4>>, <<y, p4>>} = {<<x, p4>>} \cup {<<y, p4>>}
    OBVIOUS
  <2>2. {x, y} = {x} \cup {y} /\ y \notin {x}
    OBVIOUS
  <2>3. Laid(h, 3, p3, {<<x, p4>>} \cup {<<y, p4>>}, {x} \cup {y})
    BY <2>0, <1>12, <2>2, NextPre
  <2> QED BY <2>1, <2>2, <2>3
<1>14. Laid(h, 4, p4, {<<x, p4>>, <<y, p4>>}, {x, y})
  <2>0. /\ h[4] = Put(n) /\ Step1(h, 3, 4)
        /\ Adds(p3, n, p4)
    BY <1>3, <1>5, <1>6
  <2> QED BY <2>0, <1>13, NextPut
<1>15. Laid(h, 5, p4, {<<x, p4>>}, {x, y})
  <2>0. h[5] = End(y) /\ Step1(h, 4, 5)
    BY <1>3, <1>5
  <2>1. {<<x, p4>>, <<y, p4>>} = {<<x, p4>>} \cup {<<y, p4>>}
    OBVIOUS
  <2>2. <<y, p4>> \notin {<<x, p4>>}
    OBVIOUS
  <2>3. Laid(h, 4, p4, {<<x, p4>>} \cup {<<y, p4>>}, {x, y})
    BY <1>14, <2>1
  <2> QED BY <2>0, <2>2, <2>3, NextEnd
<1>16. Laid(h, 6, p4, {}, {x, y})
  <2>0. h[6] = End(x) /\ Step1(h, 5, 6)
    BY <1>3, <1>5
  <2>1. {<<x, p4>>} = {} \cup {<<x, p4>>}
    OBVIOUS
  <2>2. <<x, p4>> \notin {}
    OBVIOUS
  <2>3. Laid(h, 5, p4, {} \cup {<<x, p4>>}, {x, y})
    BY <1>15, <2>1
  <2> QED BY <2>0, <2>2, <2>3, NextEnd
<1> QED BY <1>1, <1>2, <1>16 DEF p4

LEMMA AlgsLaid ==
    ASSUME NEW v \in Nat, NEW c \in Ops,
           c = <<Put(2), Start("algs", 2), Start("algList", 2), Put(v), End("algList"),
             End("algs")>>
    PROVE  Len(c) = 6 /\ Laid(c, 6, 6 + v, {}, {"algs", "algList"})
<1>1. PICK h \in Ops : h = c
  OBVIOUS
<1>2. Len(h) = 6
  BY <1>1, SMT
<1>3. /\ h[1] = Put(2) /\ h[2] = Start("algs", 2)
      /\ h[3] = Start("algList", 2) /\ h[4] = Put(v)
      /\ h[5] = End("algList") /\ h[6] = End("algs")
  BY <1>1, SMT
<1>5. /\ Step1(h, 0, 1) /\ Step1(h, 1, 2) /\ Step1(h, 2, 3) /\ Step1(h, 3, 4)
      /\ Step1(h, 4, 5) /\ Step1(h, 5, 6)
  BY <1>2 DEF Step1
<1> DEFINE p4 == 6 + v
<1>6. /\ Adds(6, v, p4)
  BY DEF Adds
<1> HIDE DEF p4
<1>11. Laid(h, 1, 2, {}, {})
  <2>0. /\ h[1] = Put(2) /\ Step1(h, 0, 1)
        /\ Adds(0, 2, 2)
    BY <1>3, <1>5 DEF Adds
  <2> QED BY <2>0, LaidNone, NextPut
<1>12. Laid(h, 2, 4, {<<"algs", Anywhere>>}, {"algs"})
  <2>0. /\ h[2] = Start("algs", 2) /\ Step1(h, 1, 2)
        /\ Adds(2, 2, 4)
    BY <1>3, <1>5 DEF Adds
  <2>1. {<<"algs", Anywhere>>} = {} \cup {<<"algs", Anywhere>>}
    OBVIOUS
  <2>2. {"algs"} = {} \cup {"algs"} /\ "algs" \notin {}
    OBVIOUS
  <2>3. Laid(h, 2, 4, {} \cup {<<"algs", Anywhere>>}, {} \cup {"algs"})
    BY <2>0, <1>11, <2>2, NextStart
  <2> QED BY <2>1, <2>2, <2>3
<1>13. Laid(h, 3, 6, {<<"algs", Anywhere>>, <<"algList", Anywhere>>}, {"algs", "algList"})
  <2>0. /\ h[3] = Start("algList", 2) /\ Step1(h, 2, 3)
        /\ Adds(4, 2, 6)
    BY <1>3, <1>5 DEF Adds
  <2>1. {<<"algs", Anywhere>>, <<"algList", Anywhere>>} =
          {<<"algs", Anywhere>>} \cup {<<"algList", Anywhere>>}
    OBVIOUS
  <2>2. {"algs", "algList"} = {"algs"} \cup {"algList"} /\ "algList" \notin {"algs"}
    OBVIOUS
  <2>3. Laid(h, 3, 6, {<<"algs", Anywhere>>} \cup {<<"algList", Anywhere>>}, {"algs"}
             \cup {"algList"})
    BY <2>0, <1>12, <2>2, NextStart
  <2> QED BY <2>1, <2>2, <2>3
<1>14. Laid(h, 4, p4, {<<"algs", Anywhere>>, <<"algList", Anywhere>>}, {"algs", "algList"})
  <2>0. /\ h[4] = Put(v) /\ Step1(h, 3, 4)
        /\ Adds(6, v, p4)
    BY <1>3, <1>5, <1>6
  <2> QED BY <2>0, <1>13, NextPut
<1>15. Laid(h, 5, p4, {<<"algs", Anywhere>>}, {"algs", "algList"})
  <2>0. h[5] = End("algList") /\ Step1(h, 4, 5)
    BY <1>3, <1>5
  <2>1. {<<"algs", Anywhere>>, <<"algList", Anywhere>>} =
          {<<"algs", Anywhere>>} \cup {<<"algList", Anywhere>>}
    OBVIOUS
  <2>2. <<"algList", Anywhere>> \notin {<<"algs", Anywhere>>}
    OBVIOUS
  <2>3. Laid(h, 4, p4, {<<"algs", Anywhere>>} \cup {<<"algList", Anywhere>>}, {"algs", "algList"})
    BY <1>14, <2>1
  <2> QED BY <2>0, <2>2, <2>3, NextFilled
<1>16. Laid(h, 6, p4, {}, {"algs", "algList"})
  <2>0. h[6] = End("algs") /\ Step1(h, 5, 6)
    BY <1>3, <1>5
  <2>1. {<<"algs", Anywhere>>} = {} \cup {<<"algs", Anywhere>>}
    OBVIOUS
  <2>2. <<"algs", Anywhere>> \notin {}
    OBVIOUS
  <2>3. Laid(h, 5, p4, {} \cup {<<"algs", Anywhere>>}, {"algs", "algList"})
    BY <1>15, <2>1
  <2> QED BY <2>0, <2>2, <2>3, NextFilled
<1> QED BY <1>1, <1>2, <1>16 DEF p4

LEMMA PskCallsLaid ==
    ASSUME NEW n \in Nat, NEW c \in Ops,
           c = <<Put(2), Start("psk", 2), Start("ids", 2), Pre("id", 2, n), Put(n), End("id"),
                 Put(4), End("ids"), Note("truncOff"), Pre("binders", 2, 33),
                 Pre("binder", 1, 32), Note("binderOff"), Put(32), End("binder"),
                 End("binders"), End("psk")>>
    PROVE  Len(c) = 16 /\ Laid(c, 16, 47 + n, {}, {"psk", "ids", "id", "binders", "binder"})
<1>1. PICK h \in Ops : h = c
  OBVIOUS
<1>2. Len(h) = 16
  BY <1>1, SMT
<1>3. /\ h[1] = Put(2) /\ h[2] = Start("psk", 2)
      /\ h[3] = Start("ids", 2) /\ h[4] = Pre("id", 2, n)
      /\ h[5] = Put(n) /\ h[6] = End("id")
      /\ h[7] = Put(4) /\ h[8] = End("ids")
  BY <1>1, SMT
<1>4. /\ h[9] = Note("truncOff") /\ h[10] = Pre("binders", 2, 33)
      /\ h[11] = Pre("binder", 1, 32) /\ h[12] = Note("binderOff")
      /\ h[13] = Put(32) /\ h[14] = End("binder")
      /\ h[15] = End("binders") /\ h[16] = End("psk")
  BY <1>1, SMT
<1>5. /\ Step1(h, 0, 1) /\ Step1(h, 1, 2) /\ Step1(h, 2, 3) /\ Step1(h, 3, 4)
      /\ Step1(h, 4, 5) /\ Step1(h, 5, 6) /\ Step1(h, 6, 7) /\ Step1(h, 7, 8)
      /\ Step1(h, 8, 9) /\ Step1(h, 9, 10) /\ Step1(h, 10, 11) /\ Step1(h, 11, 12)
      /\ Step1(h, 12, 13) /\ Step1(h, 13, 14) /\ Step1(h, 14, 15) /\ Step1(h, 15, 16)
  BY <1>2 DEF Step1
<1> DEFINE at(k) == k + n
<1>6. /\ Adds(8, n, at(8))
      /\ Adds(at(8), 4, at(12))
      /\ Adds(at(12), 2, at(14))
      /\ Adds(at(14), 33, at(47))
      /\ Adds(at(14), 1, at(15))
      /\ Adds(at(15), 32, at(47))
  BY DEF Adds
<1> HIDE DEF at
<1>11. Laid(h, 1, 2, {}, {})
  <2>0. /\ h[1] = Put(2) /\ Step1(h, 0, 1)
        /\ Adds(0, 2, 2)
    BY <1>3, <1>5 DEF Adds
  <2> QED BY <2>0, LaidNone, NextPut
<1>12. Laid(h, 2, 4, {<<"psk", Anywhere>>}, {"psk"})
  <2>0. /\ h[2] = Start("psk", 2) /\ Step1(h, 1, 2)
        /\ Adds(2, 2, 4)
    BY <1>3, <1>5 DEF Adds
  <2>1. {<<"psk", Anywhere>>} = {} \cup {<<"psk", Anywhere>>}
    OBVIOUS
  <2>2. {"psk"} = {} \cup {"psk"} /\ "psk" \notin {}
    OBVIOUS
  <2>3. Laid(h, 2, 4, {} \cup {<<"psk", Anywhere>>}, {} \cup {"psk"})
    BY <2>0, <1>11, <2>2, NextStart
  <2> QED BY <2>1, <2>2, <2>3
<1>13. Laid(h, 3, 6, {<<"psk", Anywhere>>, <<"ids", Anywhere>>}, {"psk", "ids"})
  <2>0. /\ h[3] = Start("ids", 2) /\ Step1(h, 2, 3)
        /\ Adds(4, 2, 6)
    BY <1>3, <1>5 DEF Adds
  <2>1. {<<"psk", Anywhere>>, <<"ids", Anywhere>>} =
          {<<"psk", Anywhere>>} \cup {<<"ids", Anywhere>>}
    OBVIOUS
  <2>2. {"psk", "ids"} = {"psk"} \cup {"ids"} /\ "ids" \notin {"psk"}
    OBVIOUS
  <2>3. Laid(h, 3, 6, {<<"psk", Anywhere>>} \cup {<<"ids", Anywhere>>}, {"psk"} \cup {"ids"})
    BY <2>0, <1>12, <2>2, NextStart
  <2> QED BY <2>1, <2>2, <2>3
<1>14. Laid(h, 4, 8, {<<"psk", Anywhere>>, <<"ids", Anywhere>>, <<"id", at(8)>>},
            {"psk", "ids", "id"})
  <2>0. /\ h[4] = Pre("id", 2, n) /\ Step1(h, 3, 4)
        /\ Adds(6, 2, 8) /\ Adds(8, n, at(8))
    BY <1>3, <1>5, <1>6 DEF Adds
  <2>1. {<<"psk", Anywhere>>, <<"ids", Anywhere>>, <<"id", at(8)>>} =
          {<<"psk", Anywhere>>, <<"ids", Anywhere>>} \cup {<<"id", at(8)>>}
    OBVIOUS
  <2>2. {"psk", "ids", "id"} = {"psk", "ids"} \cup {"id"} /\ "id" \notin {"psk", "ids"}
    OBVIOUS
  <2>3. Laid(h, 4, 8, {<<"psk", Anywhere>>, <<"ids", Anywhere>>}
             \cup {<<"id", at(8)>>}, {"psk", "ids"} \cup {"id"})
    BY <2>0, <1>13, <2>2, NextPre
  <2> QED BY <2>1, <2>2, <2>3
<1>15. Laid(h, 5, at(8), {<<"psk", Anywhere>>, <<"ids", Anywhere>>, <<"id", at(8)>>},
            {"psk", "ids", "id"})
  <2>0. /\ h[5] = Put(n) /\ Step1(h, 4, 5)
        /\ Adds(8, n, at(8))
    BY <1>3, <1>5, <1>6
  <2> QED BY <2>0, <1>14, NextPut
<1>16. Laid(h, 6, at(8), {<<"psk", Anywhere>>, <<"ids", Anywhere>>}, {"psk", "ids", "id"})
  <2>0. h[6] = End("id") /\ Step1(h, 5, 6)
    BY <1>3, <1>5
  <2>1. {<<"psk", Anywhere>>, <<"ids", Anywhere>>, <<"id", at(8)>>} =
          {<<"psk", Anywhere>>, <<"ids", Anywhere>>} \cup {<<"id", at(8)>>}
    OBVIOUS
  <2>2. <<"id", at(8)>> \notin {<<"psk", Anywhere>>, <<"ids", Anywhere>>}
    OBVIOUS
  <2>3. Laid(h, 5, at(8), {<<"psk", Anywhere>>, <<"ids", Anywhere>>}
             \cup {<<"id", at(8)>>}, {"psk", "ids", "id"})
    BY <1>15, <2>1
  <2> QED BY <2>0, <2>2, <2>3, NextEnd
<1>17. Laid(h, 7, at(12), {<<"psk", Anywhere>>, <<"ids", Anywhere>>}, {"psk", "ids", "id"})
  <2>0. /\ h[7] = Put(4) /\ Step1(h, 6, 7)
        /\ Adds(at(8), 4, at(12))
    BY <1>3, <1>5, <1>6
  <2> QED BY <2>0, <1>16, NextPut
<1>18. Laid(h, 8, at(12), {<<"psk", Anywhere>>}, {"psk", "ids", "id"})
  <2>0. h[8] = End("ids") /\ Step1(h, 7, 8)
    BY <1>3, <1>5
  <2>1. {<<"psk", Anywhere>>, <<"ids", Anywhere>>} =
          {<<"psk", Anywhere>>} \cup {<<"ids", Anywhere>>}
    OBVIOUS
  <2>2. <<"ids", Anywhere>> \notin {<<"psk", Anywhere>>}
    OBVIOUS
  <2>3. Laid(h, 7, at(12), {<<"psk", Anywhere>>} \cup {<<"ids", Anywhere>>}, {"psk", "ids", "id"})
    BY <1>17, <2>1
  <2> QED BY <2>0, <2>2, <2>3, NextFilled
<1>19. Laid(h, 9, at(12), {<<"psk", Anywhere>>}, {"psk", "ids", "id"})
  <2>0. h[9] = Note("truncOff") /\ Step1(h, 8, 9)
    BY <1>4, <1>5
  <2> QED BY <2>0, <1>18, NextNote
<1>20. Laid(h, 10, at(14), {<<"psk", Anywhere>>, <<"binders", at(47)>>},
            {"psk", "ids", "id", "binders"})
  <2>0. /\ h[10] = Pre("binders", 2, 33) /\ Step1(h, 9, 10)
        /\ Adds(at(12), 2, at(14)) /\ Adds(at(14), 33, at(47))
    BY <1>4, <1>5, <1>6
  <2>1. {<<"psk", Anywhere>>, <<"binders", at(47)>>} =
          {<<"psk", Anywhere>>} \cup {<<"binders", at(47)>>}
    OBVIOUS
  <2>2. {"psk", "ids", "id", "binders"} =
          {"psk", "ids", "id"} \cup {"binders"} /\ "binders" \notin {"psk", "ids", "id"}
    OBVIOUS
  <2>3. Laid(h, 10, at(14), {<<"psk", Anywhere>>}
             \cup {<<"binders", at(47)>>}, {"psk", "ids", "id"} \cup {"binders"})
    BY <2>0, <1>19, <2>2, NextPre
  <2> QED BY <2>1, <2>2, <2>3
<1>21. Laid(h, 11, at(15),
            {<<"psk", Anywhere>>, <<"binders", at(47)>>, <<"binder", at(47)>>},
              {"psk", "ids", "id", "binders", "binder"})
  <2>0. /\ h[11] = Pre("binder", 1, 32) /\ Step1(h, 10, 11)
        /\ Adds(at(14), 1, at(15)) /\ Adds(at(15), 32, at(47))
    BY <1>4, <1>5, <1>6
  <2>1. {<<"psk", Anywhere>>, <<"binders", at(47)>>, <<"binder", at(47)>>} =
          {<<"psk", Anywhere>>, <<"binders", at(47)>>} \cup {<<"binder", at(47)>>}
    OBVIOUS
  <2>2. {"psk", "ids", "id", "binders", "binder"} =
          {"psk", "ids", "id", "binders"}
            \cup {"binder"} /\ "binder" \notin {"psk", "ids", "id", "binders"}
    OBVIOUS
  <2>3. Laid(h, 11, at(15), {<<"psk", Anywhere>>, <<"binders", at(47)>>}
             \cup {<<"binder", at(47)>>}, {"psk", "ids", "id", "binders"} \cup {"binder"})
    BY <2>0, <1>20, <2>2, NextPre
  <2> QED BY <2>1, <2>2, <2>3
<1>22. Laid(h, 12, at(15),
            {<<"psk", Anywhere>>, <<"binders", at(47)>>, <<"binder", at(47)>>},
              {"psk", "ids", "id", "binders", "binder"})
  <2>0. h[12] = Note("binderOff") /\ Step1(h, 11, 12)
    BY <1>4, <1>5
  <2> QED BY <2>0, <1>21, NextNote
<1>23. Laid(h, 13, at(47),
            {<<"psk", Anywhere>>, <<"binders", at(47)>>, <<"binder", at(47)>>},
              {"psk", "ids", "id", "binders", "binder"})
  <2>0. /\ h[13] = Put(32) /\ Step1(h, 12, 13)
        /\ Adds(at(15), 32, at(47))
    BY <1>4, <1>5, <1>6
  <2> QED BY <2>0, <1>22, NextPut
<1>24. Laid(h, 14, at(47), {<<"psk", Anywhere>>, <<"binders", at(47)>>},
            {"psk", "ids", "id", "binders", "binder"})
  <2>0. h[14] = End("binder") /\ Step1(h, 13, 14)
    BY <1>4, <1>5
  <2>1. {<<"psk", Anywhere>>, <<"binders", at(47)>>, <<"binder", at(47)>>} =
          {<<"psk", Anywhere>>, <<"binders", at(47)>>} \cup {<<"binder", at(47)>>}
    OBVIOUS
  <2>2. <<"binder", at(47)>> \notin {<<"psk", Anywhere>>, <<"binders", at(47)>>}
    OBVIOUS
  <2>3. Laid(h, 13, at(47), {<<"psk", Anywhere>>, <<"binders", at(47)>>}
             \cup {<<"binder", at(47)>>}, {"psk", "ids", "id", "binders", "binder"})
    BY <1>23, <2>1
  <2> QED BY <2>0, <2>2, <2>3, NextEnd
<1>25. Laid(h, 15, at(47), {<<"psk", Anywhere>>}, {"psk", "ids", "id", "binders", "binder"})
  <2>0. h[15] = End("binders") /\ Step1(h, 14, 15)
    BY <1>4, <1>5
  <2>1. {<<"psk", Anywhere>>, <<"binders", at(47)>>} =
          {<<"psk", Anywhere>>} \cup {<<"binders", at(47)>>}
    OBVIOUS
  <2>2. <<"binders", at(47)>> \notin {<<"psk", Anywhere>>}
    OBVIOUS
  <2>3. Laid(h, 14, at(47), {<<"psk", Anywhere>>}
             \cup {<<"binders", at(47)>>}, {"psk", "ids", "id", "binders", "binder"})
    BY <1>24, <2>1
  <2> QED BY <2>0, <2>2, <2>3, NextEnd
<1>26. Laid(h, 16, at(47), {}, {"psk", "ids", "id", "binders", "binder"})
  <2>0. h[16] = End("psk") /\ Step1(h, 15, 16)
    BY <1>4, <1>5
  <2>1. {<<"psk", Anywhere>>} = {} \cup {<<"psk", Anywhere>>}
    OBVIOUS
  <2>2. <<"psk", Anywhere>> \notin {}
    OBVIOUS
  <2>3. Laid(h, 15, at(47), {}
             \cup {<<"psk", Anywhere>>}, {"psk", "ids", "id", "binders", "binder"})
    BY <1>25, <2>1
  <2> QED BY <2>0, <2>2, <2>3, NextFilled
<1> QED BY <1>1, <1>2, <1>26 DEF at

PskCalls(n) ==
    <<Put(2), Start("psk", 2), Start("ids", 2), Pre("id", 2, Low16(n)), Put(n), End("id"),
      Put(4), End("ids"), Note("truncOff"), Pre("binders", 2, 33),
      Pre("binder", 1, 32), Note("binderOff"), Put(32), End("binder"),
      End("binders"), End("psk")>>

LEMMA PskExtIs == \A n : PskExt(n) = PskCalls(n)
BY SMT DEF PskExt, PskCalls, Low16

LEMMA PskExtOps == \A n \in Nat : PskExt(n) \in Ops
<1> SUFFICES ASSUME NEW n \in Nat PROVE PskExt(n) \in Ops
  OBVIOUS
<1>1. PskExt(n) \in Seq(Op)
  BY PskEndOps
<1> QED BY <1>1, Zenon DEF Ops

LEMMA PskExtLaid ==
    ASSUME NEW n \in Nat, Low16(n) = n
    PROVE  /\ PskExt(n) \in Ops /\ Len(PskExt(n)) = 16
           /\ Laid(PskExt(n), 16, 47 + n, {}, {"psk", "ids", "id", "binders", "binder"})
<1>1. PICK c \in Ops : c = PskExt(n) /\ c = PskCalls(n)
  BY PskExtIs, PskExtOps
<1>2. c = <<Put(2), Start("psk", 2), Start("ids", 2), Pre("id", 2, n), Put(n), End("id"),
            Put(4), End("ids"), Note("truncOff"), Pre("binders", 2, 33),
            Pre("binder", 1, 32), Note("binderOff"), Put(32), End("binder"),
            End("binders"), End("psk")>>
  BY <1>1, Zenon DEF PskCalls
<1> QED BY <1>1, <1>2, PskCallsLaid

LEMMA EndOps == \A x \in Names : <<End(x)>> \in Ops /\ Len(<<End(x)>>) = 1
<1> SUFFICES ASSUME NEW x \in Names PROVE <<End(x)>> \in Ops /\ Len(<<End(x)>>) = 1
  OBVIOUS
<1>1. End(x) \in Op
  BY OpTypes
<1> QED BY <1>1 DEF Ops

(* What has been laid out stays so if calls follow. *)
LEMMA LaidBefore ==
    ASSUME NEW s, NEW n, NEW due, NEW used, Laid(s, Len(s), n, due, used), NEW t \in Ops
    PROVE  Laid(s \o t, Len(s), n, due, used)
<1>1. Laid(t, 0, 0, {}, {})
  BY LaidNone
<1>2. used \cap {} = {} /\ used \cup {} = used
  OBVIOUS
<1>3. Laid(s \o t, Len(s) + 0, n + 0, due, used \cup {})
  BY <1>1, <1>2, LaidJoin
<1>4. n \in Nat /\ Len(s) \in Nat
  BY DEF Laid, LaidOver, Positions
<1>5. n + 0 = n /\ Len(s) + 0 = Len(s)
  BY <1>4
<1> QED BY <1>2, <1>3, <1>5

(* An extension around what is complete *)
LEMMA ExtLaid ==
    ASSUME NEW x \in Names, NEW len \in Nat, NEW c \in Ops, NEW used,
           LaidWhole(c, len, used), x \notin used
    PROVE  LaidWhole(Ext(x, len, c), 4 + len, {x} \cup used)
<1>1. Put(2) \in Op /\ Pre(x, 2, len) \in Op
  BY OpTypes
<1>2. PICK a \in Ops : a = <<Put(2), Pre(x, 2, len)>>
  <2>1. <<Put(2), Pre(x, 2, len)>> \in Ops
    BY <1>1 DEF Ops
  <2> QED BY <2>1
<1>3. Len(a) = 2 /\ a[1] = Put(2) /\ a[2] = Pre(x, 2, len)
  BY <1>2
<1>4. Step1(a, 0, 1) /\ Step1(a, 1, 2)
  BY <1>3 DEF Step1
<1>5. PICK to \in Nat : to = 4 + len
  <2>1. 4 + len \in Nat
    OBVIOUS
  <2> QED BY <2>1
<1>6. Laid(a, 1, 2, {}, {})
  <2>1. a[1] = Put(2) /\ Step1(a, 0, 1) /\ Adds(0, 2, 2)
    BY <1>3, <1>4 DEF Adds
  <2> QED BY <2>1, LaidNone, NextPut
<1>7. Laid(a, 2, 4, {} \cup {<<x, to>>}, {} \cup {x})
  <2>1. a[2] = Pre(x, 2, len) /\ Step1(a, 1, 2) /\ x \notin {}
    BY <1>3, <1>4
  <2>2. Adds(2, 2, 4) /\ Adds(4, len, to)
    BY <1>5 DEF Adds
  <2> QED BY <1>6, <2>1, <2>2, NextPre
<1>8. Laid(a, Len(a), 4, {<<x, to>>}, {x})
  <2>1. {} \cup {<<x, to>>} = {<<x, to>>} /\ {} \cup {x} = {x}
    OBVIOUS
  <2> QED BY <1>3, <1>7, <2>1
<1>9. PICK b \in Ops : b = a \o c /\ Len(b) = Len(a) + Len(c)
  <2>1. a \o c \in Ops /\ Len(a \o c) = Len(a) + Len(c)
    BY ConcatAt DEF Ops
  <2> QED BY <2>1
<1>10. Laid(b, Len(b), to, {<<x, to>>}, {x} \cup used)
  <2>1. Laid(c, Len(c), len, {}, used) /\ {x} \cap used = {}
    BY DEF LaidWhole
  <2>2. Laid(a \o c, Len(a) + Len(c), 4 + len, {<<x, to>>}, {x} \cup used)
    BY <1>8, <2>1, LaidJoin
  <2> QED BY <1>5, <1>9, <2>2
<1>11. PICK e \in Ops : e = <<End(x)>> /\ Len(e) = 1 /\ e[1] = End(x)
  BY EndOps
<1>12. PICK s \in Ops, l \in Nat : /\ s = b \o e /\ l = Len(b) /\ Len(s) = l + 1
                                   /\ s[l + 1] = End(x)
  <2>1. b \o e \in Ops /\ Len(b \o e) = Len(b) + 1 /\ (b \o e)[Len(b) + 1] = End(x)
        /\ Len(b) \in Nat
    <3>1. /\ b \o e \in Ops /\ Len(b \o e) = Len(b) + Len(e)
          /\ \A k \in 1 .. Len(e) : (b \o e)[Len(b) + k] = e[k]
      BY ConcatAt DEF Ops
    <3>2. 1 \in 1 .. Len(e)
      BY <1>11
    <3>3. Len(b) \in Nat
      BY LenProperties DEF Ops
    <3> QED BY <1>11, <3>1, <3>2, <3>3
  <2> QED BY <2>1
<1>13. Laid(s, l, to, {<<x, to>>}, {x} \cup used)
  BY <1>10, <1>11, <1>12, LaidBefore
<1>14. Laid(s, l + 1, to, {}, {x} \cup used)
  <2>1. {<<x, to>>} = {} \cup {<<x, to>>} /\ <<x, to>> \notin {}
    OBVIOUS
  <2>2. Laid(s, l, to, {} \cup {<<x, to>>}, {x} \cup used)
    BY <1>13, <2>1
  <2>3. Step1(s, l, l + 1)
    BY <1>12 DEF Step1
  <2> QED BY <1>12, <2>1, <2>2, <2>3, NextEnd
<1>15. s = Ext(x, len, c)
  BY <1>2, <1>9, <1>11, <1>12 DEF Ext
<1> QED BY <1>5, <1>12, <1>14, <1>15 DEF LaidWhole

(* The hello up to some extension, with its two lengths still open *)
Beginning == {<<"hs", Anywhere>>, <<"exts", Anywhere>>}
Begun(s, used) == \E n : Laid(s, Len(s), n, Beginning, used)
Finished(s) == \E n, used : LaidWhole(s, n, used)

LEMMA HeadBegun == \A v \in Nat : Begun(HelloHead(v), {"hs", "sid", "suites", "comp", "exts"})
<1> SUFFICES ASSUME NEW v \in Nat
             PROVE  Begun(HelloHead(v), {"hs", "sid", "suites", "comp", "exts"})
  OBVIOUS
<1>1. Len(HelloHead(v)) = 14
  BY SMT DEF HelloHead
<1> QED BY <1>1, HeadLaid DEF Begun, Beginning

LEMMA BegunJoin ==
    ASSUME NEW s, NEW used, Begun(s, used), NEW t, NEW k, NEW more, LaidWhole(t, k, more),
           used \cap more = {}
    PROVE  Begun(s \o t, used \cup more)
<1>1. PICK n : Laid(s, Len(s), n, Beginning, used)
  BY DEF Begun
<1>2. Laid(t, Len(t), k, {}, more)
  BY DEF LaidWhole
<1>3. Laid(s \o t, Len(s) + Len(t), n + k, Beginning, used \cup more)
  BY <1>1, <1>2, LaidJoin
<1>4. Len(s \o t) = Len(s) + Len(t)
  BY <1>1, <1>2, ConcatAt DEF Laid, Ops
<1> QED BY <1>3, <1>4 DEF Begun

LEMMA BegunEnds ==
    ASSUME NEW s, NEW used, Begun(s, used)
    PROVE  Finished(s \o <<End("exts"), End("hs")>>)
<1>1. PICK n : Laid(s, Len(s), n, Beginning, used)
  BY DEF Begun
<1>2. PICK e \in Ops : /\ e = <<End("exts"), End("hs")>> /\ Len(e) = 2
                       /\ e[1] = End("exts") /\ e[2] = End("hs")
  <2>1. End("exts") \in Op /\ End("hs") \in Op
    <3>1. "exts" \in Names /\ "hs" \in Names
      BY DEF Names
    <3> QED BY <3>1, OpTypes
  <2>2. <<End("exts"), End("hs")>> \in Ops
    BY <2>1 DEF Ops
  <2> QED BY <2>2
<1>3. PICK u \in Ops, l \in Nat :
         /\ u = s \o e /\ l = Len(s) /\ Len(u) = l + 2
         /\ u[l + 1] = End("exts") /\ u[l + 2] = End("hs")
  <2>1. s \in Ops /\ Len(s) \in Nat
    BY <1>1, LenProperties DEF Laid, Ops
  <2>2. /\ s \o e \in Ops /\ Len(s \o e) = Len(s) + Len(e)
        /\ \A k \in 1 .. Len(e) : (s \o e)[Len(s) + k] = e[k]
    BY <2>1, ConcatAt DEF Ops
  <2>3. 1 \in 1 .. Len(e) /\ 2 \in 1 .. Len(e)
    BY <1>2
  <2> QED BY <1>2, <2>1, <2>2, <2>3
<1>4. Laid(u, l, n, {<<"hs", Anywhere>>} \cup {<<"exts", Anywhere>>}, used)
  <2>1. Beginning = {<<"hs", Anywhere>>} \cup {<<"exts", Anywhere>>}
    BY DEF Beginning
  <2>2. Laid(u, l, n, Beginning, used)
    BY <1>1, <1>3, LaidBefore
  <2> QED BY <2>1, <2>2
<1>5. Step1(u, l, l + 1) /\ Step1(u, l + 1, l + 2)
  BY <1>3 DEF Step1
<1>6. Laid(u, l + 1, n, {} \cup {<<"hs", Anywhere>>}, used)
  <2>1. <<"exts", Anywhere>> \notin {<<"hs", Anywhere>>}
    OBVIOUS
  <2>2. Laid(u, l + 1, n, {<<"hs", Anywhere>>}, used)
    BY <1>3, <1>4, <1>5, <2>1, NextFilled
  <2>3. {<<"hs", Anywhere>>} = {} \cup {<<"hs", Anywhere>>}
    OBVIOUS
  <2> QED BY <2>2, <2>3
<1>7. Laid(u, l + 2, n, {}, used)
  <2>1. <<"hs", Anywhere>> \notin {}
    OBVIOUS
  <2> QED BY <1>3, <1>5, <1>6, <2>1, NextFilled
<1> QED BY <1>2, <1>3, <1>7 DEF Finished, LaidWhole

LEMMA FieldExtLaid ==
    ASSUME NEW x \in Names, NEW y \in Names, x # y, NEW k \in {1, 2}, NEW v \in Nat
    PROVE  \E n : LaidWhole(Ext(x, k + v, <<Pre(y, k, v), Put(v), End(y)>>), n, {x, y})
<1>1. PICK c \in Ops : /\ c = <<Pre(y, k, v), Put(v), End(y)>> /\ Len(c) = 3
                       /\ Laid(c, 3, k + v, {}, {y})
  BY FieldLaid
<1>2. LaidWhole(c, k + v, {y})
  BY <1>1 DEF LaidWhole
<1>3. k + v \in Nat /\ x \notin {y} /\ {x} \cup {y} = {x, y}
  OBVIOUS
<1>4. LaidWhole(Ext(x, k + v, c), 4 + (k + v), {x} \cup {y})
  BY <1>2, <1>3, ExtLaid
<1> QED BY <1>1, <1>3, <1>4

LEMMA NestExtLaid ==
    ASSUME NEW z \in Names, NEW x \in Names, NEW y \in Names, x # y, z \notin {x, y},
           NEW a \in Nat, NEW n \in Nat, NEW v \in Nat, v = (a + 2) + n,
           NEW len \in Nat, len = 2 + v
    PROVE  \E k : LaidWhole(Ext(z, len, <<Pre(x, 2, v), Put(a), Pre(y, 2, n), Put(n), End(y),
                                         End(x)>>), k, {z, x, y})
<1>1. /\ Pre(x, 2, v) \in Op /\ Put(a) \in Op /\ Pre(y, 2, n) \in Op /\ Put(n) \in Op
      /\ End(y) \in Op /\ End(x) \in Op
  BY OpTypes
<1>2. PICK c \in Ops : c = <<Pre(x, 2, v), Put(a), Pre(y, 2, n), Put(n), End(y), End(x)>>
  <2>1. <<Pre(x, 2, v), Put(a), Pre(y, 2, n), Put(n), End(y), End(x)>> \in Ops
    BY <1>1 DEF Ops
  <2> QED BY <2>1
<1>3. LaidWhole(c, len, {x, y})
  <2>1. Len(c) = 6 /\ Laid(c, 6, 2 + v, {}, {x, y})
    BY <1>2, NestLaid
  <2> QED BY <2>1 DEF LaidWhole
<1>4. LaidWhole(Ext(z, len, c), 4 + len, {z} \cup {x, y})
  BY <1>3, ExtLaid
<1>5. {z} \cup {x, y} = {z, x, y}
  OBVIOUS
<1> QED BY <1>2, <1>4, <1>5

(* The extensions *)
Extended(s, used) == \E n : LaidWhole(s, n, used)

LEMMA FixedLaid ==
    /\ Extended(Versions, {"versions", "versionList"})
    /\ Extended(Groups, {"groups", "groupList"})
    /\ Extended(Ext("modes", 2, <<Pre("modeList", 1, 1), Put(1), End("modeList")>>),
                {"modes", "modeList"})
<1>1. {"versions", "versionList", "groups", "groupList", "modes", "modeList"} \subseteq Names
  BY DEF Names
<1>2. Extended(Versions, {"versions", "versionList"})
  <2>1. 1 + 2 = 3 /\ 1 \in {1, 2} /\ 2 \in Nat /\ "versions" # "versionList"
    OBVIOUS
  <2>2. \E n : LaidWhole(Ext("versions", 1 + 2, <<Pre("versionList", 1, 2), Put(2),
                                                 End("versionList")>>),
                         n, {"versions", "versionList"})
    BY <1>1, <2>1, FieldExtLaid
  <2> QED BY <2>1, <2>2 DEF Extended, Versions
<1>3. Extended(Groups, {"groups", "groupList"})
  <2>1. 2 + 2 = 4 /\ 2 \in {1, 2} /\ 2 \in Nat /\ "groups" # "groupList"
    OBVIOUS
  <2>2. \E n : LaidWhole(Ext("groups", 2 + 2, <<Pre("groupList", 2, 2), Put(2),
                                               End("groupList")>>),
                         n, {"groups", "groupList"})
    BY <1>1, <2>1, FieldExtLaid
  <2> QED BY <2>1, <2>2 DEF Extended, Groups
<1>4. Extended(Ext("modes", 2, <<Pre("modeList", 1, 1), Put(1), End("modeList")>>),
               {"modes", "modeList"})
  <2>1. 1 + 1 = 2 /\ 1 \in {1, 2} /\ 1 \in Nat /\ "modes" # "modeList"
    OBVIOUS
  <2>2. \E n : LaidWhole(Ext("modes", 1 + 1, <<Pre("modeList", 1, 1), Put(1),
                                              End("modeList")>>),
                         n, {"modes", "modeList"})
    BY <1>1, <2>1, FieldExtLaid
  <2> QED BY <2>1, <2>2 DEF Extended
<1> QED BY <1>2, <1>3, <1>4

LEMMA PskAlgsLaid ==
    ASSUME NEW v \in Nat
    PROVE  Extended(Ext("algs", 2 + v, <<Pre("algList", 2, v), Put(v), End("algList")>>),
                    {"algs", "algList"})
<1>1. "algs" \in Names /\ "algList" \in Names /\ "algs" # "algList" /\ 2 \in {1, 2}
  BY DEF Names
<1> QED BY <1>1, FieldExtLaid DEF Extended

LEMMA KeyShareLaid ==
    ASSUME NEW n \in Nat
    PROVE  Extended(KeyShareExt(n), {"keyShare", "shares", "share"})
<1>1. /\ "keyShare" \in Names /\ "shares" \in Names /\ "share" \in Names
      /\ "shares" # "share" /\ "keyShare" \notin {"shares", "share"}
  BY DEF Names
<1>2. PICK v \in Nat, len \in Nat : /\ v = 4 + n /\ len = 6 + n
                                    /\ v = (2 + 2) + n /\ len = 2 + v
  <2>1. 4 + n \in Nat /\ 6 + n \in Nat /\ 4 + n = (2 + 2) + n /\ 6 + n = 2 + (4 + n)
    OBVIOUS
  <2> QED BY <2>1
<1>3. \E k : LaidWhole(Ext("keyShare", len,
                           <<Pre("shares", 2, v), Put(2), Pre("share", 2, n), Put(n),
                             End("share"), End("shares")>>), k, {"keyShare", "shares", "share"})
  <2>1. 2 \in Nat
    OBVIOUS
  <2> QED BY <1>1, <1>2, <2>1, NestExtLaid
<1> QED BY <1>2, <1>3 DEF Extended, KeyShareExt

LEMMA ServerNameLaid ==
    ASSUME NEW n \in Nat
    PROVE  Extended(ServerNameExt(n), {"sni", "names", "name"})
<1>1. /\ "sni" \in Names /\ "names" \in Names /\ "name" \in Names
      /\ "names" # "name" /\ "sni" \notin {"names", "name"}
  BY DEF Names
<1>2. CASE n = 0
  <2>1. PICK c \in Ops : c = <<>> /\ Len(c) = 0
    <3>1. <<>> \in Ops /\ Len(<<>>) = 0
      BY DEF Ops
    <3> QED BY <3>1
  <2>2. LaidWhole(c, 0, {"sni", "names", "name"})
    BY <2>1, LaidNone DEF LaidWhole
  <2> QED BY <1>2, <2>1, <2>2 DEF Extended, ServerNameExt
<1>3. CASE n # 0
  <2>1. PICK v \in Nat, len \in Nat : /\ v = 3 + n /\ len = 5 + n
                                      /\ v = (1 + 2) + n /\ len = 2 + v
    <3>1. 3 + n \in Nat /\ 5 + n \in Nat /\ 3 + n = (1 + 2) + n /\ 5 + n = 2 + (3 + n)
      OBVIOUS
    <3> QED BY <3>1
  <2>2. \E k : LaidWhole(Ext("sni", len,
                             <<Pre("names", 2, v), Put(1), Pre("name", 2, n), Put(n),
                               End("name"), End("names")>>), k, {"sni", "names", "name"})
    <3>1. 1 \in Nat
      OBVIOUS
    <3> QED BY <1>1, <2>1, <3>1, NestExtLaid
  <2> QED BY <1>3, <2>1, <2>2 DEF Extended, ServerNameExt
<1> QED BY <1>2, <1>3

LEMMA BegunExtends ==
    ASSUME NEW s, NEW used, Begun(s, used), NEW t, NEW more, Extended(t, more),
           used \cap more = {}, NEW all, all = used \cup more
    PROVE  Begun(s \o t, all)
BY BegunJoin DEF Extended

-----------------------------------------------------------------------------
(* The two scripts *)
HeadNames == {"hs", "sid", "suites", "comp", "exts"}
AlgNames == {"algs", "algList"}
ShareNames == {"keyShare", "shares", "share"}

LEMMA CertLaid == ASSUME job \in Jobs PROVE Finished(CertScript(job))
<1>1. PICK a, b, c, d : /\ a = HelloHead(job.sidLen) /\ b = ServerNameExt(job.nameLen)
                        /\ c = Versions /\ d = Groups
  OBVIOUS
<1>2. PICK v \in Nat : v = 2 * job.nAlgs
  BY JobTypes
<1>3. PICK g \in Ops : g = <<Put(2), Start("algs", 2), Start("algList", 2), Put(v),
                             End("algList"), End("algs")>>
  <2>1. {"algs", "algList"} \subseteq Names
    BY DEF Names
  <2>2. /\ Put(2) \in Op /\ Start("algs", 2) \in Op /\ Start("algList", 2) \in Op
        /\ Put(v) \in Op /\ End("algList") \in Op /\ End("algs") \in Op
    BY <2>1, OpTypes
  <2>3. <<Put(2), Start("algs", 2), Start("algList", 2), Put(v), End("algList"),
          End("algs")>> \in Ops
    BY <2>2 DEF Ops
  <2> QED BY <2>3
<1>4. PICK e : e = KeyShareExt(job.pubLen)
  OBVIOUS
<1>5. Begun(a, {"hs", "sid", "suites", "comp", "exts"})
  BY <1>1, JobTypes, HeadBegun
<1>6. /\ Extended(b, {"sni", "names", "name"}) /\ Extended(c, {"versions", "versionList"})
      /\ Extended(d, {"groups", "groupList"})
  BY <1>1, JobTypes, ServerNameLaid, FixedLaid
<1>7. Extended(g, {"algs", "algList"}) /\ Extended(e, {"keyShare", "shares", "share"})
  <2>1. LaidWhole(g, 6 + v, {"algs", "algList"})
    BY <1>3, AlgsLaid DEF LaidWhole
  <2> QED BY <1>4, <2>1, JobTypes, KeyShareLaid DEF Extended
<1>8. \E u : Begun(a \o b \o c \o d \o g \o e, u)
  <2>1. Begun(a \o b, {"hs", "sid", "suites", "comp", "exts", "sni", "names", "name"})
    BY <1>5, <1>6, BegunExtends
  <2>2. Begun(a \o b \o c, {"hs", "sid", "suites", "comp", "exts", "sni", "names", "name",
                            "versions", "versionList"})
    BY <1>6, <2>1, BegunExtends
  <2>3. Begun(a \o b \o c \o d, {"hs", "sid", "suites", "comp", "exts", "sni", "names", "name",
                                 "versions", "versionList", "groups", "groupList"})
    BY <1>6, <2>2, BegunExtends
  <2>4. Begun(a \o b \o c \o d \o g,
              {"hs", "sid", "suites", "comp", "exts", "sni", "names", "name",
               "versions", "versionList", "groups", "groupList", "algs", "algList"})
    BY <1>7, <2>3, BegunExtends
  <2>5. Begun(a \o b \o c \o d \o g \o e,
              {"hs", "sid", "suites", "comp", "exts", "sni", "names", "name",
               "versions", "versionList", "groups", "groupList", "algs", "algList"}
                 \cup {"keyShare", "shares", "share"})
    BY <1>7, <2>4, BegunExtends
  <2> QED BY <2>5
<1>9. CertScript(job) = a \o b \o c \o d \o g \o e \o <<End("exts"), End("hs")>>
  BY <1>1, <1>2, <1>3, <1>4 DEF CertScript
<1> QED BY <1>8, <1>9, BegunEnds

PskAlgs(u) == Ext("algs", 2 + u, <<Pre("algList", 2, u), Put(u), End("algList")>>)

LEMMA PskAlgsIs ==
    ASSUME job \in Jobs, job.path = "psk"
    PROVE  \E u \in Nat : PskAlgs(u) = Ext("algs", IF job.nAlgs = 3 THEN 8 ELSE 6,
               <<Pre("algList", 2, IF job.nAlgs = 3 THEN 6 ELSE 4), Put(2 * job.nAlgs),
                 End("algList")>>)
<1>1. job.nAlgs = 2 \/ job.nAlgs = 3
  BY JobsAssumption
<1>2. CASE job.nAlgs = 2
  <2>1. 2 + 4 = 6 /\ 2 * 2 = 4 /\ 4 \in Nat /\ 2 # 3
    OBVIOUS
  <2>2. /\ (IF job.nAlgs = 3 THEN 8 ELSE 6) = 2 + 4
        /\ (IF job.nAlgs = 3 THEN 6 ELSE 4) = 4 /\ 2 * job.nAlgs = 4
    BY <1>2, <2>1
  <2> QED BY <2>1, <2>2, Zenon DEF PskAlgs
<1>3. CASE job.nAlgs = 3
  <2>1. 2 + 6 = 8 /\ 2 * 3 = 6 /\ 6 \in Nat
    OBVIOUS
  <2>2. /\ (IF job.nAlgs = 3 THEN 8 ELSE 6) = 2 + 6
        /\ (IF job.nAlgs = 3 THEN 6 ELSE 4) = 6 /\ 2 * job.nAlgs = 6
    BY <1>3, <2>1
  <2> QED BY <2>1, <2>2, Zenon DEF PskAlgs
<1> QED BY <1>1, <1>2, <1>3

LEMMA ShortIdentity ==
    ASSUME job \in Jobs, Valid, job.path = "psk"
    PROVE  Low16(job.nameLen) = job.nameLen
<1>1. PICK n \in Nat : n = job.nameLen
  BY JobTypes
<1>2. n <= 65535
  BY <1>1, SMT DEF Valid
<1>3. n < 65536
  BY <1>2, SMT
<1>4. n % 65536 = n
  BY <1>3, SmallLength
<1> QED BY <1>1, <1>4 DEF Low16

LEMMA PskLaid ==
    ASSUME job \in Jobs, job.path = "psk", Low16(job.nameLen) = job.nameLen
    PROVE  Finished(PskScript(job))
<1>1. PICK a, b, c, e, f, g, h : 
         /\ a = HelloHead(32) /\ b = Versions /\ c = Groups
         /\ e = KeyShareExt(job.pubLen)
         /\ f = Ext("modes", 2, <<Pre("modeList", 1, 1), Put(1), End("modeList")>>)
         /\ g = PskExt(job.nameLen)
         /\ h = Ext("algs", IF job.nAlgs = 3 THEN 8 ELSE 6,
                    <<Pre("algList", 2, IF job.nAlgs = 3 THEN 6 ELSE 4), Put(2 * job.nAlgs),
                      End("algList")>>)
  OBVIOUS
<1>2. PICK u \in Nat : h = PskAlgs(u)
  BY <1>1, PskAlgsIs
<1>3. Begun(a, {"hs", "sid", "suites", "comp", "exts"})
  <2>1. 32 \in Nat
    OBVIOUS
  <2> QED BY <1>1, <2>1, HeadBegun
<1>4. /\ Extended(b, {"versions", "versionList"}) /\ Extended(c, {"groups", "groupList"})
      /\ Extended(f, {"modes", "modeList"})
  BY <1>1, FixedLaid
<1>5. Extended(h, {"algs", "algList"}) /\ Extended(e, {"keyShare", "shares", "share"})
  BY <1>1, <1>2, JobTypes, PskAlgsLaid, KeyShareLaid DEF PskAlgs
<1>6. Extended(g, {"psk", "ids", "id", "binders", "binder"})
  <2>1. PICK n \in Nat : n = job.nameLen /\ Low16(n) = n
    BY JobTypes
  <2>2. /\ Len(PskExt(n)) = 16
        /\ Laid(PskExt(n), 16, 47 + n, {}, {"psk", "ids", "id", "binders", "binder"})
    BY <2>1, PskExtLaid
  <2> QED BY <1>1, <2>1, <2>2 DEF Extended, LaidWhole
<1>7. \E v : Begun(a \o b \o c \o h \o e \o f \o g, v)
  <2>1. Begun(a \o b, {"hs", "sid", "suites", "comp", "exts", "versions", "versionList"})
    BY <1>3, <1>4, BegunExtends
  <2>2. Begun(a \o b \o c, {"hs", "sid", "suites", "comp", "exts", "versions", "versionList",
                            "groups", "groupList"})
    BY <1>4, <2>1, BegunExtends
  <2>3. Begun(a \o b \o c \o h,
              {"hs", "sid", "suites", "comp", "exts", "versions", "versionList",
               "groups", "groupList", "algs", "algList"})
    BY <1>5, <2>2, BegunExtends
  <2>4. Begun(a \o b \o c \o h \o e,
              {"hs", "sid", "suites", "comp", "exts", "versions", "versionList",
               "groups", "groupList", "algs", "algList", "keyShare", "shares", "share"})
    BY <1>5, <2>3, BegunExtends
  <2>5. Begun(a \o b \o c \o h \o e \o f,
              {"hs", "sid", "suites", "comp", "exts", "versions", "versionList",
               "groups", "groupList", "algs", "algList", "keyShare", "shares", "share",
               "modes", "modeList"})
    BY <1>4, <2>4, BegunExtends
  <2>6. Begun(a \o b \o c \o h \o e \o f \o g,
              {"hs", "sid", "suites", "comp", "exts", "versions", "versionList",
               "groups", "groupList", "algs", "algList", "keyShare", "shares", "share",
               "modes", "modeList"} \cup {"psk", "ids", "id", "binders", "binder"})
    BY <1>6, <2>5, BegunExtends
  <2> QED BY <2>6
<1>8. PskScript(job) = a \o b \o c \o h \o e \o f \o g \o <<End("exts"), End("hs")>>
  BY <1>1, Zenon DEF PskScript
<1> QED BY <1>7, <1>8, BegunEnds

(* Each of the calls of either builder's script that closes a length does so
   where the length says. *)
LEMMA ScriptLaid == ASSUME job \in Jobs, Valid PROVE Finished(Script)
<1>1. CASE job.path = "psk"
  BY <1>1, ShortIdentity, PskLaid DEF Script
<1>2. CASE job.path # "psk"
  BY <1>2, CertLaid DEF Script
<1> QED BY <1>1, <1>2

(***************************************************************************)
(* A builder that follows its script: after m calls it has written up to   *)
(* the m-th position, what is open are the lengths opened and not closed   *)
(* again, and what it has filled in is what their content spans.           *)
(***************************************************************************)
OpenAfter(s, m, x) ==
    /\ \E j \in 1 .. m : Opener(s[j]) /\ s[j].name = x
    /\ \A k \in 1 .. m : ~(Ender(s[k]) /\ s[k].name = x)

OpenedBy(c, at) == [at |-> at, n |-> c.n, val |-> IF c.op = "start" THEN -1 ELSE c.val]

OpenRight(s, m, p, len, o) ==
    /\ \A x : x \in DOMAIN o <=> OpenAfter(s, m, x)
    /\ \A j \in 1 .. m : Opener(s[j]) /\ s[j].name \in DOMAIN o =>
          o[s[j].name] = OpenedBy(s[j], p[j]) /\ p[j] <= len

Follows(s, m, p, len, o, fs) ==
    /\ len = p[m] /\ OpenRight(s, m, p, len, o)
    /\ \A f \in fs : f.val = f.span

Layout(s, p) == s \in Ops /\ \E used : LaidOver(s, Len(s), p, {}, used)

(* What a layout says of the next call *)
NextCall(s, m, p, c) ==
    /\ m \in Nat /\ m + 1 \in 1 .. Len(s) /\ c = s[m + 1] /\ c \in Op
    /\ p[m + 1] = p[m] + c.n /\ p[m] \in Nat /\ p[m + 1] \in Nat /\ c.n \in Nat
    /\ \A j \in 1 .. m + 1 : j \in 1 .. m \/ j = m + 1
    /\ \A j \in 1 .. m : j \in 1 .. m + 1 /\ j \in 1 .. Len(s) /\ j # m + 1
    /\ \A j \in 1 .. m + 1 : p[j] \in Nat

LEMMA NextCallIs ==
    ASSUME NEW s, NEW p, Layout(s, p), NEW m \in Nat, m < Len(s)
    PROVE  \E c : NextCall(s, m, p, c)
<1>1. PICK l \in Nat : l = Len(s) /\ m < l
  BY LenProperties DEF Layout, Ops
<1>2. m + 1 \in 1 .. l
  BY <1>1
<1>3. Positions(s, l, p)
  BY <1>1 DEF Layout, LaidOver
<1>4. p[m + 1] = p[m] + s[m + 1].n /\ p[m] \in Nat /\ p[m + 1] \in Nat
  <2>1. m + 1 \in Nat /\ (m + 1) - 1 = m
    OBVIOUS
  <2> QED BY <1>2, <1>3, <2>1 DEF Positions
<1>5. s[m + 1] \in Op /\ s[m + 1].n \in Nat
  BY <1>1, <1>2, CallIs, ElementOfSeq DEF Layout, Ops
<1>6. /\ \A j \in 1 .. m + 1 : j \in 1 .. m \/ j = m + 1
      /\ \A j \in 1 .. m : j \in 1 .. m + 1 /\ j \in 1 .. l /\ j # m + 1
  BY <1>1
<1>7. \A j \in 1 .. m + 1 : p[j] \in Nat
  <2>1. \A j \in 1 .. m + 1 : j \in Nat
    OBVIOUS
  <2> QED BY <1>3, <2>1 DEF Positions
<1> QED BY <1>1, <1>2, <1>4, <1>5, <1>6, <1>7 DEF NextCall

LEMMA PlainFollows ==
    ASSUME NEW s, NEW p, NEW m, NEW c, NextCall(s, m, p, c), NEW len, NEW o, NEW fs,
           Follows(s, m, p, len, o, fs), ~Opener(c), ~Ender(c)
    PROVE  Follows(s, m + 1, p, len + c.n, o, fs)
<1>1. \A x : OpenAfter(s, m + 1, x) <=> OpenAfter(s, m, x)
  BY DEF OpenAfter, NextCall
<1>2. len + c.n = p[m + 1] /\ len <= len + c.n /\ len \in Nat /\ len + c.n \in Nat
  BY DEF Follows, NextCall
<1>3. ASSUME NEW j \in 1 .. m + 1, Opener(s[j]), s[j].name \in DOMAIN o
      PROVE  o[s[j].name] = OpenedBy(s[j], p[j]) /\ p[j] <= len + c.n
  <2>1. j \in 1 .. m
    BY <1>3 DEF NextCall
  <2>2. o[s[j].name] = OpenedBy(s[j], p[j]) /\ p[j] <= len
    BY <1>3, <2>1 DEF Follows, OpenRight
  <2>3. p[j] \in Nat
    BY DEF NextCall
  <2> QED BY <1>2, <2>2, <2>3
<1> QED BY <1>1, <1>2, <1>3 DEF Follows, OpenRight

(* A length is opened; its name is a new one. *)
LEMMA NewName ==
    ASSUME NEW s, NEW p, Layout(s, p), NEW m, NEW c, NextCall(s, m, p, c), Opener(c)
    PROVE  /\ \A j \in 1 .. m : Opener(s[j]) => s[j].name # c.name
           /\ \A j \in 1 .. m : Ender(s[j]) => s[j].name # c.name
<1>1. PICK l, used : LaidOver(s, l, p, {}, used) /\ l = Len(s)
  BY DEF Layout
<1>2. m + 1 \in 1 .. l /\ \A j \in 1 .. m : j \in 1 .. l /\ j # m + 1
  BY <1>1 DEF NextCall
<1>3. ASSUME NEW j \in 1 .. m, Opener(s[j]) PROVE s[j].name # c.name
  BY <1>1, <1>2, <1>3 DEF LaidOver, OncePerName, NextCall
<1>4. ASSUME NEW k \in 1 .. m, Ender(s[k]), s[k].name = c.name PROVE FALSE
  <2>1. k \in 1 .. l
    BY <1>2
  <2>2. PICK j \in 1 .. l : j < k /\ Pair(s, j, k)
    BY <1>1, <1>4, <2>1 DEF LaidOver, ClosedRight
  <2>3. j \in 1 .. m
    BY <2>2 DEF NextCall
  <2>4. Opener(s[j]) /\ s[j].name = c.name
    BY <1>4, <2>2 DEF Pair
  <2> QED BY <1>3, <2>3, <2>4
<1> QED BY <1>3, <1>4

WithOpened(o, x, e) == [y \in DOMAIN o \cup {x} |-> IF y = x THEN e ELSE o[y]]

LEMMA OpenFollows ==
    ASSUME NEW s, NEW p, Layout(s, p), NEW m, NEW c, NextCall(s, m, p, c), NEW len, NEW o,
           NEW fs, Follows(s, m, p, len, o, fs), Opener(c), NEW at, at = len + c.n
    PROVE  Follows(s, m + 1, p, at, WithOpened(o, c.name, OpenedBy(c, at)), fs)
<1>1. PICK x, e, q : x = c.name /\ e = OpenedBy(c, at) /\ q = WithOpened(o, x, e)
  OBVIOUS
<1>2. DOMAIN q = DOMAIN o \cup {x} /\ q[x] = e /\ \A y \in DOMAIN o : y # x => q[y] = o[y]
  BY <1>1 DEF WithOpened
<1>3. at = p[m + 1] /\ len <= at /\ len \in Nat /\ at \in Nat
  BY DEF Follows, NextCall
<1>4. c = s[m + 1] /\ m + 1 \in 1 .. m + 1 /\ ~Ender(c)
  BY DEF NextCall, Opener, Ender
<1>5. ASSUME NEW y PROVE y \in DOMAIN q <=> OpenAfter(s, m + 1, y)
  <2>1. CASE y = x
    <3>1. \A k \in 1 .. m + 1 : ~(Ender(s[k]) /\ s[k].name = x)
      <4>1. \A k \in 1 .. m : Ender(s[k]) => s[k].name # x
        BY <1>1, NewName
      <4>2. m \in Nat /\ \A k \in 1 .. m + 1 : k \in 1 .. m \/ k = m + 1
        BY DEF NextCall
      <4> QED BY <1>4, <4>1, <4>2
    <3> QED BY <1>1, <1>2, <1>4, <2>1, <3>1 DEF OpenAfter
  <2>2. CASE y # x
    <3>1. OpenAfter(s, m + 1, y) <=> OpenAfter(s, m, y)
      BY <1>1, <1>4, <2>2 DEF OpenAfter, NextCall
    <3>2. y \in DOMAIN o <=> OpenAfter(s, m, y)
      BY DEF Follows, OpenRight
    <3> QED BY <1>2, <2>2, <3>1, <3>2
  <2> QED BY <2>1, <2>2
<1>6. ASSUME NEW j \in 1 .. m + 1, Opener(s[j]), s[j].name \in DOMAIN q
      PROVE  q[s[j].name] = OpenedBy(s[j], p[j]) /\ p[j] <= at
  <2>1. CASE j = m + 1
    BY <1>1, <1>2, <1>3, <1>4, <2>1
  <2>2. CASE j # m + 1
    <3>1. j \in 1 .. m /\ p[j] \in Nat
      BY <2>2 DEF NextCall
    <3>2. s[j].name # x
      BY <1>1, <1>6, <3>1, NewName
    <3>3. s[j].name \in DOMAIN o /\ q[s[j].name] = o[s[j].name]
      BY <1>2, <1>6, <3>2
    <3>4. o[s[j].name] = OpenedBy(s[j], p[j]) /\ p[j] <= len
      BY <1>6, <3>1, <3>3 DEF Follows, OpenRight
    <3> QED BY <1>3, <3>1, <3>3, <3>4
  <2> QED BY <2>1, <2>2
<1>7. OpenRight(s, m + 1, p, at, q)
  BY <1>5, <1>6 DEF OpenRight
<1> QED BY <1>1, <1>3, <1>7 DEF Follows

(* A length is closed: the number put into it, or found there, is what its
   content spans, as long as its two or three bytes can hold that. *)
Short(k) == k < 65536
Held(k, n) == k % (256 ^ n)

LEMMA ShortHeld == \A k \in Nat : \A n \in {2, 3} : Short(k) => Held(k, n) = k
<1> SUFFICES ASSUME NEW k \in Nat, NEW n \in {2, 3}, k < 65536 PROVE Held(k, n) = k
  BY DEF Short
<1>1. CASE n = 2
  BY <1>1, SMT DEF Held
<1>2. CASE n = 3
  BY <1>2, SMT DEF Held
<1> QED BY <1>1, <1>2

ClosedField(x, o, len) ==
    [name |-> x, span |-> len - o.at, val |-> IF o.val # -1 THEN o.val ELSE Held(len - o.at, o.n)]

WithClosed(o, x) == [y \in DOMAIN o \ {x} |-> o[y]]

LEMMA CloseFollows ==
    ASSUME NEW s, NEW p, Layout(s, p), NEW m, NEW c, NextCall(s, m, p, c), NEW len, NEW o,
           NEW fs, Follows(s, m, p, len, o, fs), Ender(c), Short(len)
    PROVE  Follows(s, m + 1, p, len, WithClosed(o, c.name),
                   fs \cup {ClosedField(c.name, o[c.name], len)})
<1>1. PICK l, used : LaidOver(s, l, p, {}, used) /\ l = Len(s) /\ s \in Ops
  BY DEF Layout
<1>2. PICK x, q : x = c.name /\ q = WithClosed(o, x)
  OBVIOUS
<1>3. DOMAIN q = DOMAIN o \ {x} /\ \A y \in DOMAIN o : y # x => q[y] = o[y]
  BY <1>2 DEF WithClosed
<1>4. /\ c = s[m + 1] /\ m + 1 \in 1 .. m + 1 /\ m + 1 \in 1 .. l /\ ~Opener(c) /\ c.n = 0
      /\ c.op = "end"
  <2>1. c.op = "end" /\ c.n = 0
    BY DEF NextCall, Ender, Op
  <2> QED BY <1>1, <2>1 DEF NextCall, Opener
<1>5. len \in Nat /\ len = p[m + 1]
  BY <1>4 DEF Follows, NextCall
<1>6. PICK j \in 1 .. m : Pair(s, j, m + 1) /\ DueAt(s, p, j) \in {Anywhere, len}
  <2>1. PICK j \in 1 .. l : j < m + 1 /\ Pair(s, j, m + 1)
          /\ DueAt(s, p, j) \in {Anywhere, p[m + 1]}
    BY <1>1, <1>4 DEF LaidOver, ClosedRight
  <2>2. j \in 1 .. m
    BY <2>1 DEF NextCall
  <2> QED BY <1>5, <2>1, <2>2
<1>7. Opener(s[j]) /\ s[j].name = x /\ j \in 1 .. l /\ p[j] \in Nat
  BY <1>1, <1>2, <1>4, <1>6 DEF Pair, NextCall
<1>8. \A k \in 1 .. m : ~(Ender(s[k]) /\ s[k].name = x)
  BY <1>1, <1>2, <1>4 DEF LaidOver, OncePerName, NextCall
<1>9. x \in DOMAIN o /\ o[x] = OpenedBy(s[j], p[j]) /\ p[j] <= len
  <2>1. OpenAfter(s, m, x)
    BY <1>7, <1>8 DEF OpenAfter
  <2> QED BY <1>7, <2>1 DEF Follows, OpenRight
<1>10. ASSUME NEW y PROVE y \in DOMAIN q <=> OpenAfter(s, m + 1, y)
  <2>1. CASE y = x
    BY <1>2, <1>3, <1>4, <2>1 DEF OpenAfter
  <2>2. CASE y # x
    <3>1. OpenAfter(s, m + 1, y) <=> OpenAfter(s, m, y)
      BY <1>2, <1>4, <2>2 DEF OpenAfter, NextCall
    <3>2. y \in DOMAIN o <=> OpenAfter(s, m, y)
      BY DEF Follows, OpenRight
    <3> QED BY <1>3, <2>2, <3>1, <3>2
  <2> QED BY <2>1, <2>2
<1>11. ASSUME NEW k \in 1 .. m + 1, Opener(s[k]), s[k].name \in DOMAIN q
       PROVE  q[s[k].name] = OpenedBy(s[k], p[k]) /\ p[k] <= len
  <2>1. k \in 1 .. m
    BY <1>4, <1>11 DEF NextCall
  <2>2. s[k].name \in DOMAIN o /\ q[s[k].name] = o[s[k].name]
    BY <1>3, <1>11
  <2> QED BY <1>11, <2>1, <2>2 DEF Follows, OpenRight
<1>12. PICK k \in Nat : k = len - p[j] /\ Short(k)
  <2>1. len - p[j] \in Nat /\ Short(len - p[j])
    BY <1>5, <1>7, <1>9 DEF Short
  <2> QED BY <2>1
<1>13. ClosedField(x, o[x], len).val = ClosedField(x, o[x], len).span
  <2>0. s[j] \in Op /\ s[j].val \in Nat /\ s[j].n \in Nat
    BY <1>1, <1>7, CallIs
  <2>1. /\ o[x].at = p[j] /\ o[x].n = s[j].n
        /\ o[x].val = IF s[j].op = "start" THEN -1 ELSE s[j].val
    BY <1>9 DEF OpenedBy
  <2>2. /\ ClosedField(x, o[x], len).span = k
        /\ ClosedField(x, o[x], len).val = IF o[x].val # -1 THEN o[x].val ELSE Held(k, s[j].n)
    BY <1>12, <2>1 DEF ClosedField
  <2>3. CASE s[j].op = "start"
    <3>1. s[j].n \in {2, 3}
      BY <2>0, <2>3 DEF Op
    <3>2. Held(k, s[j].n) = k
      BY <1>12, <3>1, ShortHeld
    <3> QED BY <2>1, <2>2, <2>3, <3>2
  <2>4. CASE s[j].op # "start"
    <3>1. PICK v \in Nat : v = s[j].val /\ o[x].val = v /\ v # -1
      BY <2>0, <2>1, <2>4
    <3>2. DueAt(s, p, j) = p[j] + v
      BY <2>4, <3>1 DEF DueAt
    <3>3. p[j] + v = len
      <4>1. p[j] + v # Anywhere
        BY <1>7 DEF Anywhere
      <4> QED BY <1>6, <3>2, <4>1
    <3>4. v = k
      BY <1>5, <1>7, <1>12, <3>3
    <3> QED BY <2>2, <3>1, <3>4
  <2> QED BY <2>3, <2>4
<1>14. \A f \in fs \cup {ClosedField(x, o[x], len)} : f.val = f.span
  BY <1>13 DEF Follows
<1>15. OpenRight(s, m + 1, p, len, q)
  BY <1>10, <1>11 DEF OpenRight
<1> QED BY <1>2, <1>5, <1>14, <1>15 DEF Follows

LengthInv ==
    /\ pc = "check" => i = 0 /\ w.len = 0 /\ open = <<>> /\ fields = {}
    /\ pc \in {"build", "send"} =>
          /\ Valid
          /\ ~w.err => \A p : Layout(Script, p) => Follows(Script, i, p, w.len, open, fields)

LEMMA LenEndHeld == \A v, at, n : LenEnd(v, at, n) = Held(v.len - at, n)
BY Zenon DEF LenEnd, Held

(* What each call does to the lengths, as long as the writer has not failed *)
LEMMA CallLengths ==
    ASSUME AnyCall, ~w.err
    PROVE  \/ ~Opener(Call) /\ ~Ender(Call) /\ open' = open /\ fields' = fields
           \/ /\ Opener(Call) /\ fields' = fields
              /\ open' = WithOpened(open, Call.name, OpenedBy(Call, w'.len))
           \/ /\ Ender(Call)
              /\ open' = WithClosed(open, Call.name)
              /\ fields' = fields \cup {ClosedField(Call.name, open[Call.name], w.len)}
<1>1. CASE PutBytes
  <2>1. Call.op = "put" /\ open' = open /\ fields' = fields
    BY <1>1 DEF PutBytes, Step, Call
  <2> QED BY <2>1 DEF Opener, Ender
<1>2. CASE NoteOffset
  <2>1. Call.op = "note" /\ open' = open /\ fields' = fields
    BY <1>2 DEF NoteOffset, Step, Call
  <2> QED BY <2>1 DEF Opener, Ender
<1>3. CASE LenStart
  <2>1. Call.op = "start" /\ fields' = fields /\ open' = Opened(Call.name, w'.len, Call.n, -1)
    BY <1>3 DEF LenStart, Step, Call
  <2>2. OpenedBy(Call, w'.len) = [at |-> w'.len, n |-> Call.n, val |-> -1]
    BY <2>1 DEF OpenedBy
  <2>3. open' = WithOpened(open, Call.name, [at |-> w'.len, n |-> Call.n, val |-> -1])
    BY <2>1, Zenon DEF Opened, WithOpened
  <2> QED BY <2>1, <2>2, <2>3 DEF Opener
<1>4. CASE LenBefore
  <2>1. Call.op = "pre" /\ fields' = fields /\ open' = Opened(Call.name, w'.len, Call.n, Call.val)
    BY <1>4 DEF LenBefore, Step, Call
  <2>2. OpenedBy(Call, w'.len) = [at |-> w'.len, n |-> Call.n, val |-> Call.val]
    BY <2>1 DEF OpenedBy
  <2>3. open' = WithOpened(open, Call.name, [at |-> w'.len, n |-> Call.n, val |-> Call.val])
    BY <2>1, Zenon DEF Opened, WithOpened
  <2> QED BY <2>1, <2>2, <2>3 DEF Opener
<1>5. CASE Closing
  <2> DEFINE o == open[Call.name]
             f == [name |-> Call.name, span |-> w.len - o.at,
                   val |-> IF o.val # -1 THEN o.val
                           ELSE IF w.err THEN 0 ELSE LenEnd(w, o.at, o.n)]
  <2>1. Call.op = "end" /\ open' = WithClosed(open, Call.name)
    BY <1>5, Zenon DEF Closing, Step, Call, WithClosed
  <2>2. fields' = fields \cup {f}
    BY <1>5, Zenon DEF Closing
  <2>3. f = ClosedField(Call.name, o, w.len)
    BY LenEndHeld, Zenon DEF ClosedField
  <2> QED BY <2>1, <2>2, <2>3 DEF Ender
<1> QED BY <1>1, <1>2, <1>3, <1>4, <1>5 DEF AnyCall

LEMMA CallFollows ==
    ASSUME Fits16, BuildShape, AnyCall, ~w'.err, NEW p, Layout(Script, p),
           Follows(Script, i, p, w.len, open, fields)
    PROVE  Follows(Script, i + 1, p, w'.len, open', fields')
<1>1. i \in Nat /\ i < Len(Script) /\ ~w.err
  BY CallCases, CallShape DEF AnyCall, BuildShape
<1>2. NextCall(Script, i, p, Call)
  <2>1. PICK c : NextCall(Script, i, p, c)
    BY <1>1, NextCallIs
  <2> QED BY <2>1 DEF NextCall, Call
<1>3. \/ Call.op \in {"put", "start", "pre"} /\ w' = Write(w, Call.n)
      \/ Call.op \in {"end", "note"} /\ w' = w
  BY CallCases DEF AnyCall
<1>4. Call.n \in Nat /\ (Call.op \in {"end", "note"} => Call.n = 0)
  BY <1>2 DEF NextCall, Op
<1>5. w'.len = w.len + Call.n
  <2>1. PICK v \in Writer, n \in Nat : v = w /\ v.len <= v.cap /\ n = Call.n
    BY <1>4 DEF BuildShape
  <2>2. ~Write(v, n).err => Write(v, n).len = v.len + n
    BY <2>1, WriteKeepsRoom
  <2>3. Call.n = 0 => w.len + Call.n = w.len
    BY <2>1 DEF Writer
  <2> QED BY <1>3, <1>4, <2>1, <2>2, <2>3
<1>6. CASE ~Opener(Call) /\ ~Ender(Call) /\ open' = open /\ fields' = fields
  <2>1. Follows(Script, i + 1, p, w.len + Call.n, open, fields)
    BY <1>2, <1>6, PlainFollows
  <2> QED BY <1>5, <1>6, <2>1
<1>7. CASE /\ Opener(Call) /\ fields' = fields
           /\ open' = WithOpened(open, Call.name, OpenedBy(Call, w'.len))
  <2>1. Follows(Script, i + 1, p, w'.len, WithOpened(open, Call.name, OpenedBy(Call, w'.len)),
                fields)
    BY <1>2, <1>5, <1>7, OpenFollows
  <2> QED BY <1>7, <2>1
<1>8. CASE /\ Ender(Call) /\ open' = WithClosed(open, Call.name)
           /\ fields' = fields \cup {ClosedField(Call.name, open[Call.name], w.len)}
  <2>1. Short(w.len)
    <3>1. PICK c \in Nat : c = job.cap /\ c < 65536
      BY JobTypes, Fits16 DEF BuildShape, Fits16
    <3>2. PICK n \in Nat : n = w.len /\ n <= c
      BY <3>1 DEF BuildShape, Writer
    <3> QED BY <3>1, <3>2 DEF Short
  <2>2. w'.len = w.len
    BY <1>3, <1>8 DEF Ender
  <2>3. Follows(Script, i + 1, p, w.len, WithClosed(open, Call.name),
                fields \cup {ClosedField(Call.name, open[Call.name], w.len)})
    BY <1>2, <1>8, <2>1, CloseFollows
  <2> QED BY <1>8, <2>2, <2>3
<1> QED BY <1>1, <1>6, <1>7, <1>8, CallLengths

LEMMA FollowsFirst ==
    ASSUME NEW s, NEW p, Layout(s, p)
    PROVE  Follows(s, 0, p, 0, <<>>, {})
<1>1. p[0] = 0
  BY DEF Layout, LaidOver, Positions
<1>2. \A j \in 1 .. 0 : FALSE
  OBVIOUS
<1>3. DOMAIN <<>> = {}
  OBVIOUS
<1> QED BY <1>1, <1>2, <1>3 DEF Follows, OpenRight, OpenAfter

LEMMA LengthNext ==
    ASSUME Fits16, BuildShape, LengthInv, [Next]_vars
    PROVE  LengthInv'
<1>1. CASE AnyCall
  <2>1. pc = "build" /\ pc' = "build" /\ job' = job /\ i' = i + 1 /\ Script' = Script
    BY <1>1, CallCases DEF AnyCall
  <2>2. Valid' = Valid
    BY <2>1 DEF Valid
  <2>3. w.err => w'.err
    BY <1>1, CallShape
  <2>4. ASSUME ~w'.err, NEW p, Layout(Script, p)
        PROVE  Follows(Script, i + 1, p, w'.len, open', fields')
    <3>1. Follows(Script, i, p, w.len, open, fields)
      BY <2>1, <2>3, <2>4 DEF LengthInv
    <3> QED BY <1>1, <2>4, <3>1, CallFollows
  <2> QED BY <2>1, <2>2, <2>4 DEF LengthInv
<1>2. CASE Check
  <2>1. /\ pc = "check" /\ pc' \in {"build", "done"} /\ (pc' = "build" => Valid)
        /\ job' = job /\ i' = i /\ w' = w /\ open' = open /\ fields' = fields
    BY <1>2, Zenon DEF Check
  <2>2. Valid' = Valid /\ Script' = Script
    BY <2>1 DEF Valid, Script
  <2>3. \A p : Layout(Script, p) => Follows(Script, i, p, w.len, open, fields)
    BY <2>1, FollowsFirst DEF LengthInv
  <2> QED BY <2>1, <2>2, <2>3 DEF LengthInv
<1>3. CASE BuildEnds \/ Send \/ UNCHANGED helloVars
  <2>1. /\ job' = job /\ i' = i /\ w' = w /\ open' = open /\ fields' = fields
        /\ pc' \in {"build", "send"} => pc \in {"build", "send"}
        /\ pc' = "check" => pc = "check"
    BY <1>3 DEF BuildEnds, Send, helloVars
  <2>2. Valid' = Valid /\ Script' = Script
    BY <2>1 DEF Valid, Script
  <2> QED BY <2>1, <2>2 DEF LengthInv
<1>4. AnyCall \/ Check \/ BuildEnds \/ Send \/ UNCHANGED helloVars
  BY DEF Next, HelloNext, AnyCall, Recv, RecvSome, RecvFails, vars
<1> QED BY <1>1, <1>2, <1>3, <1>4

(* The first record announces what the builder has written. *)
AnnouncedInv ==
    /\ pc \in {"check", "build"} => wire = <<>>
    /\ pc = "send" /\ wire # <<>> => wire[1].announced = w.len

LEMMA AnnouncedNext ==
    ASSUME Fits16, BuildShape, AnnouncedInv, [Next]_vars
    PROVE  AnnouncedInv'
<1>1. CASE AnyCall
  <2>1. pc = "build" /\ pc' = pc /\ wire' = wire
    BY <1>1, CallCases DEF AnyCall
  <2> QED BY <2>1 DEF AnnouncedInv
<1>2. CASE Check \/ BuildEnds
  <2>1. pc \in {"check", "build"} /\ wire' = wire
    BY <1>2 DEF Check, BuildEnds
  <2> QED BY <2>1 DEF AnnouncedInv
<1>3. CASE Send
  <2>1. pc = "send" /\ w' = w /\ pc' \in {"send", "recv", "done"} /\ (pc' = "send" => wire = <<>>)
    BY <1>3, SendCases
  <2>2. CASE pc' = "send"
    <3>1. PICK x : wire' = Append(wire, x) /\ x.announced = Low16(w.len)
      BY <1>3, <2>1, <2>2, SendCases
    <3>2. wire' = <<x>>
      <4>1. x \in {x} /\ wire = <<>>
        BY <2>1, <2>2
      <4> QED BY <3>1, <4>1, FirstSeqs
    <3>3. Low16(w.len) = w.len
      <4>1. PICK c \in Nat : c = job.cap /\ c < 65536
        BY JobTypes, Fits16 DEF BuildShape, Fits16
      <4>2. w.len \in Nat /\ w.len < 65536
        BY <4>1, SMT DEF BuildShape, Writer
      <4> QED BY <4>2, SmallLength DEF Low16
    <3>4. <<x>>[1] = x
      OBVIOUS
    <3> QED BY <2>1, <2>2, <3>1, <3>2, <3>3, <3>4 DEF AnnouncedInv
  <2>3. CASE pc' # "send"
    BY <2>1, <2>3 DEF AnnouncedInv
  <2> QED BY <2>2, <2>3
<1>4. CASE UNCHANGED helloVars
  <2>1. pc' = pc /\ wire' = wire /\ w' = w
    BY <1>4 DEF helloVars
  <2> QED BY <2>1 DEF AnnouncedInv
<1>5. AnyCall \/ Check \/ BuildEnds \/ Send \/ UNCHANGED helloVars
  BY DEF Next, HelloNext, AnyCall, Recv, RecvSome, RecvFails, vars
<1> QED BY <1>1, <1>2, <1>3, <1>4, <1>5

(* When a builder is through, no length is open. *)
LEMMA AllClosed ==
    ASSUME BuildShape, BuiltInv, LengthInv, pc = "send"
    PROVE  DOMAIN open = {} /\ \A f \in fields : f.val = f.span
<1>1. Finished(Script) /\ ~w.err /\ i = Len(Script)
  BY ScriptLaid DEF BuildShape, BuiltInv, LengthInv
<1>2. PICK n, used : Laid(Script, Len(Script), n, {}, used)
  BY <1>1 DEF Finished, LaidWhole
<1>3. PICK p : LaidOver(Script, Len(Script), p, {}, used) /\ Script \in Ops
  BY <1>2 DEF Laid
<1>4. Follows(Script, Len(Script), p, w.len, open, fields)
  BY <1>1, <1>3 DEF LengthInv, Layout
<1>5. ASSUME NEW x \in DOMAIN open PROVE FALSE
  <2>1. PICK j \in 1 .. Len(Script) : Opener(Script[j]) /\ Script[j].name = x
    BY <1>4 DEF Follows, OpenRight, OpenAfter
  <2>2. \E k \in 1 .. Len(Script) : Pair(Script, j, k)
    BY <1>3, <2>1 DEF LaidOver, StillDue
  <2>3. \A k \in 1 .. Len(Script) : ~(Ender(Script[k]) /\ Script[k].name = x)
    BY <1>4 DEF Follows, OpenRight, OpenAfter
  <2> QED BY <2>1, <2>2, <2>3 DEF Pair
<1> QED BY <1>4, <1>5 DEF Follows

(* wn_Write_LenEnd and the lengths a builder computes beforehand: in a hello
   that is sent, each is that of its content, whatever the lengths of names,
   identity and key share, as long as 16 bits can hold the buffer's size; and
   the record announces the hello's. *)
THEOREM LengthsAreRight == Fits16 => (Spec => []LengthsMatch)
<1> SUFFICES ASSUME Fits16 PROVE Spec => []LengthsMatch
  OBVIOUS
<1>1. Init => LengthInv /\ AnnouncedInv
  <2> SUFFICES ASSUME Init PROVE LengthInv /\ AnnouncedInv
    OBVIOUS
  <2>1. /\ pc = "check" /\ i = 0 /\ open = <<>> /\ fields = {} /\ wire = <<>>
        /\ w = [len |-> 0, cap |-> job.cap, err |-> FALSE]
    BY DEF Init, HelloInit, WriterInit
  <2> QED BY <2>1 DEF LengthInv, AnnouncedInv
<1>2. BuildInv /\ LengthInv /\ AnnouncedInv /\ [Next]_vars => LengthInv' /\ AnnouncedInv'
  BY LengthNext, AnnouncedNext DEF BuildInv
<1>3. BuildInv /\ BuiltInv /\ LengthInv /\ AnnouncedInv => LengthsMatch
  BY AllClosed DEF BuildInv, AnnouncedInv, LengthsMatch
<1> QED BY <1>1, <1>2, <1>3, BuildInvariant, BuiltInvariant, PTL DEF Spec
=============================================================================
