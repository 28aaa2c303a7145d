------------------------- MODULE WnFlightMsgsProofs -------------------------
(***************************************************************************)
(* Theorems about WnFlightMsgs, for every message whatever its length: no  *)
(* parser of the server's messages steps out of its message, what it       *)
(* accepts is the encoding of what it hands on (of a Certificate list as   *)
(* much as certs[] has room for), and what is well formed it accepts.      *)
(***************************************************************************)
EXTENDS WnFlightMsgs, WnLemmas, FiniteSetTheorems

-----------------------------------------------------------------------------
(***************************************************************************)
(* The reader.                                                             *)
(***************************************************************************)
Within(buf, q) == q \in Reader /\ q.pos <= Len(buf)

(* A read leaves the reader within the message; one that succeeds has found
   its bytes there, and an error stays. *)
LEMMA SkipWithin ==
    ASSUME NEW buf \in Seq(Byte), NEW q, Within(buf, q), NEW n \in Nat
    PROVE  /\ Within(buf, Skip(buf, q, n))
           /\ q.err => Skip(buf, q, n).err
           /\ ~Skip(buf, q, n).err => /\ ~q.err /\ Fits(buf, q, n)
                                      /\ q.pos + n <= Len(buf)
                                      /\ Skip(buf, q, n).pos = q.pos + n
           /\ q.pos <= Skip(buf, q, n).pos
<1>1. q.pos \in Nat /\ q.err \in BOOLEAN /\ q = [pos |-> q.pos, err |-> q.err]
      /\ q.pos <= Len(buf) /\ Len(buf) \in Nat
  BY DEF Within, Reader
<1>2. CASE Fits(buf, q, n)
  <2>1. ~q.err /\ q.pos + n <= Len(buf)
    BY <1>2 DEF Fits
  <2>2. Skip(buf, q, n) = [pos |-> q.pos + n, err |-> q.err]
    BY <1>1, <1>2 DEF Skip
  <2>3. q.pos + n \in Nat /\ q.pos <= q.pos + n
    BY <1>1
  <2> QED BY <1>1, <1>2, <2>1, <2>2, <2>3 DEF Within, Reader
<1>3. CASE ~Fits(buf, q, n)
  <2>1. Skip(buf, q, n) = [pos |-> q.pos, err |-> TRUE]
    BY <1>1, <1>3 DEF Skip
  <2> QED BY <1>1, <2>1 DEF Within, Reader
<1> QED BY <1>2, <1>3

(* The next one, two and three bytes of a message, as a sequence. *)
LEMMA NextBytes ==
    ASSUME NEW buf \in Seq(Byte), NEW p \in Nat
    PROVE  /\ p + 1 <= Len(buf) => SubSeq(buf, p + 1, p + 1) = <<buf[p + 1]>>
           /\ p + 2 <= Len(buf) => SubSeq(buf, p + 1, p + 2) = <<buf[p + 1], buf[p + 2]>>
           /\ p + 3 <= Len(buf) =>
                SubSeq(buf, p + 1, p + 3) = <<buf[p + 1], buf[p + 2], buf[p + 3]>>
<1>1. ASSUME NEW k \in 1 .. 3, p + k <= Len(buf)
      PROVE  /\ SubSeq(buf, p + 1, p + k) \in Seq(Byte)
             /\ Len(SubSeq(buf, p + 1, p + k)) = k
             /\ \A x \in 1 .. k : /\ SubSeq(buf, p + 1, p + k)[x] = buf[p + x]
                                 /\ buf[p + x] \in Byte
  <2>1. p \in 0 .. Len(buf) /\ p + k \in p .. Len(buf) /\ (p + k) - p = k
    BY <1>1
  <2>2. \A x \in 1 .. k : p + x \in 1 .. Len(buf)
    BY <2>1
  <2>3. \A x \in 1 .. k : buf[p + x] \in Byte
    BY <2>2, ElementOfSeq
  <2>4. /\ SubSeq(buf, p + 1, p + k) \in Seq(Byte)
        /\ Len(SubSeq(buf, p + 1, p + k)) = (p + k) - p
        /\ \A x \in 1 .. (p + k) - p : SubSeq(buf, p + 1, p + k)[x] = buf[p + x]
    BY <2>1, SubSeqPiece
  <2> QED BY <2>1, <2>3, <2>4
<1>2. ASSUME p + 1 <= Len(buf)
      PROVE  SubSeq(buf, p + 1, p + 1) = <<buf[p + 1]>>
  <2>1. 1 \in 1 .. 3 /\ 1 \in 1 .. 1
    OBVIOUS
  <2> DEFINE s == SubSeq(buf, p + 1, p + 1)
  <2>2. s \in Seq(Byte) /\ Len(s) = 1 /\ s[1] = buf[p + 1] /\ buf[p + 1] \in Byte
    BY <1>1, <1>2, <2>1
  <2> HIDE DEF s
  <2>3. s = <<s[1]>>
    BY <2>2
  <2> QED BY <2>2, <2>3 DEF s
<1>3. ASSUME p + 2 <= Len(buf)
      PROVE  SubSeq(buf, p + 1, p + 2) = <<buf[p + 1], buf[p + 2]>>
  <2>1. 2 \in 1 .. 3 /\ 1 \in 1 .. 2 /\ 2 \in 1 .. 2
    OBVIOUS
  <2> DEFINE s == SubSeq(buf, p + 1, p + 2)
  <2>2. /\ s \in Seq(Byte) /\ Len(s) = 2 /\ s[1] = buf[p + 1] /\ s[2] = buf[p + 2]
    BY <1>1, <1>3, <2>1
  <2> HIDE DEF s
  <2>3. s = <<s[1], s[2]>>
    BY <2>2
  <2> QED BY <2>2, <2>3 DEF s
<1>4. ASSUME p + 3 <= Len(buf)
      PROVE  SubSeq(buf, p + 1, p + 3) = <<buf[p + 1], buf[p + 2], buf[p + 3]>>
  <2>1. 3 \in 1 .. 3 /\ 1 \in 1 .. 3 /\ 2 \in 1 .. 3
    OBVIOUS
  <2> DEFINE s == SubSeq(buf, p + 1, p + 3)
  <2>2. /\ s \in Seq(Byte) /\ Len(s) = 3
        /\ s[1] = buf[p + 1] /\ s[2] = buf[p + 2] /\ s[3] = buf[p + 3]
    BY <1>1, <1>4, <2>1
  <2> HIDE DEF s
  <2>3. s = <<s[1], s[2], s[3]>>
    BY <2>2
  <2> QED BY <2>2, <2>3 DEF s
<1> QED BY <1>2, <1>3, <1>4

(* What a number is read from is the encoding of that number. *)
LEMMA EncodedPair ==
    ASSUME NEW a \in 0 .. 255, NEW b \in 0 .. 255
    PROVE  256 * a + b \in Nat /\ U16(256 * a + b) = <<a, b>>
<1>1. (256 * a + b) \div 256 = a /\ (256 * a + b) % 256 = b /\ 256 * a + b \in Nat
  BY SMT
<1> QED BY <1>1 DEF U16

Triple(a, b, c) == 65536 * a + 256 * b + c

LEMMA EncodedTriple ==
    ASSUME NEW a \in 0 .. 255, NEW b \in 0 .. 255, NEW c \in 0 .. 255
    PROVE  Triple(a, b, c) \in Nat /\ U24(Triple(a, b, c)) = <<a, b, c>>
<1> DEFINE v == Triple(a, b, c)
<1>1. v \in Nat /\ v = 65536 * a + 256 * b + c
  BY SMT DEF Triple
<1> HIDE DEF v
<1>2. v \div 65536 = a /\ v \div 256 = 256 * a + b /\ v % 256 = c
  BY <1>1, SMT
<1>3. (256 * a + b) % 256 = b
  BY SMT
<1>4. U24(v) = <<a, b, c>>
  BY <1>2, <1>3, SMT DEF U24
<1> QED BY <1>1, <1>4 DEF v

(* A number that is read is one, and where there is something to read it is
   encoded in the bytes it is read from. *)
LEMMA ReadUEncodes ==
    ASSUME NEW buf \in Seq(Byte), NEW q, Within(buf, q)
    PROVE  /\ ReadU(buf, q, 1) \in Nat /\ ReadU(buf, q, 2) \in Nat /\ ReadU(buf, q, 3) \in Nat
           /\ Fits(buf, q, 1) => SubSeq(buf, q.pos + 1, q.pos + 1) = <<ReadU(buf, q, 1)>>
           /\ Fits(buf, q, 2) => SubSeq(buf, q.pos + 1, q.pos + 2) = U16(ReadU(buf, q, 2))
           /\ Fits(buf, q, 3) => SubSeq(buf, q.pos + 1, q.pos + 3) = U24(ReadU(buf, q, 3))
<1>1. PICK p \in Nat : p = q.pos
  BY DEF Within, Reader
<1>2. \A k \in Nat : Fits(buf, q, k) => p + k <= Len(buf)
  BY <1>1 DEF Fits
<1>3. Len(buf) \in Nat /\ \A k \in 1 .. Len(buf) : buf[k] \in 0 .. 255
  BY ElementOfSeq DEF Byte
<1>4. \A k \in Nat : ~Fits(buf, q, k) => ReadU(buf, q, k) = 0
  BY SMT DEF ReadU
<1>5. /\ p + 1 <= Len(buf) => SubSeq(buf, p + 1, p + 1) = <<buf[p + 1]>>
      /\ p + 2 <= Len(buf) => SubSeq(buf, p + 1, p + 2) = <<buf[p + 1], buf[p + 2]>>
      /\ p + 3 <= Len(buf) =>
            SubSeq(buf, p + 1, p + 3) = <<buf[p + 1], buf[p + 2], buf[p + 3]>>
  BY NextBytes
<1>6. ReadU(buf, q, 1) \in Nat
      /\ (Fits(buf, q, 1) => SubSeq(buf, q.pos + 1, q.pos + 1) = <<ReadU(buf, q, 1)>>)
  <2>1. CASE ~Fits(buf, q, 1)
    BY <1>4, <2>1
  <2>2. CASE Fits(buf, q, 1)
    <3>1. p + 1 <= Len(buf)
      BY <1>2, <2>2
    <3>2. p + 1 \in 1 .. Len(buf)
      BY <1>3, <3>1
    <3>3. PICK a \in 0 .. 255 : a = buf[p + 1]
      BY <1>3, <3>2
    <3>4. ReadU(buf, q, 1) = a
      BY <1>1, <2>2, <3>3 DEF ReadU
    <3>5. SubSeq(buf, p + 1, p + 1) = <<a>>
      BY <1>5, <3>1, <3>3
    <3>6. SubSeq(buf, p + 1, p + 1) = <<ReadU(buf, q, 1)>>
      BY <3>4, <3>5
    <3>7. ReadU(buf, q, 1) \in Nat
      BY <3>4
    <3> QED BY <1>1, <3>6, <3>7
  <2> QED BY <2>1, <2>2
<1>7. ReadU(buf, q, 2) \in Nat
      /\ (Fits(buf, q, 2) => SubSeq(buf, q.pos + 1, q.pos + 2) = U16(ReadU(buf, q, 2)))
  <2>1. CASE ~Fits(buf, q, 2)
    BY <1>4, <2>1
  <2>2. CASE Fits(buf, q, 2)
    <3>1. p + 2 <= Len(buf)
      BY <1>2, <2>2
    <3>2. p + 1 \in 1 .. Len(buf) /\ p + 2 \in 1 .. Len(buf)
      BY <1>3, <3>1
    <3>3. PICK a \in 0 .. 255 : a = buf[p + 1]
      BY <1>3, <3>2
    <3>4. PICK b \in 0 .. 255 : b = buf[p + 2]
      BY <1>3, <3>2
    <3>5. ReadU(buf, q, 2) = 256 * a + b
      BY <1>1, <2>2, <3>3, <3>4, SMT DEF ReadU
    <3>6. SubSeq(buf, p + 1, p + 2) = <<a, b>>
      BY <1>5, <3>1, <3>3, <3>4
    <3>7. 256 * a + b \in Nat /\ U16(256 * a + b) = <<a, b>>
      BY EncodedPair
    <3> QED BY <1>1, <3>5, <3>6, <3>7
  <2> QED BY <2>1, <2>2
<1>8. ReadU(buf, q, 3) \in Nat
      /\ (Fits(buf, q, 3) => SubSeq(buf, q.pos + 1, q.pos + 3) = U24(ReadU(buf, q, 3)))
  <2>1. CASE ~Fits(buf, q, 3)
    BY <1>4, <2>1
  <2>2. CASE Fits(buf, q, 3)
    <3>1. p + 3 <= Len(buf)
      BY <1>2, <2>2
    <3>2. p + 1 \in 1 .. Len(buf) /\ p + 2 \in 1 .. Len(buf) /\ p + 3 \in 1 .. Len(buf)
      BY <1>3, <3>1
    <3>3. PICK a \in 0 .. 255 : a = buf[p + 1]
      BY <1>3, <3>2
    <3>4. PICK b \in 0 .. 255 : b = buf[p + 2]
      BY <1>3, <3>2
    <3>5. PICK c \in 0 .. 255 : c = buf[p + 3]
      BY <1>3, <3>2
    <3>6. ReadU(buf, q, 3) = Triple(a, b, c)
      BY <1>1, <2>2, <3>3, <3>4, <3>5, SMTT(60) DEF ReadU, Triple
    <3>7. SubSeq(buf, p + 1, p + 3) = <<a, b, c>>
      BY <1>5, <3>1, <3>3, <3>4, <3>5
    <3>8. Triple(a, b, c) \in Nat /\ U24(Triple(a, b, c)) = <<a, b, c>>
      BY ZenonT(60), EncodedTriple
    <3> QED BY <1>1, <3>6, <3>7, <3>8
  <2> QED BY <2>1, <2>2
<1> QED BY <1>6, <1>7, <1>8

-----------------------------------------------------------------------------
(***************************************************************************)
(* The inductive invariant.  Its heart is the same for the three messages: *)
(* what the reader has passed is the encoding of what has been noted down. *)
(***************************************************************************)
Number == Nat

Prior(buf, q) == SubSeq(buf, 1, q.pos)

Succeeded == pc = "done" /\ ret = "SUCCESS"

Placed ==
    /\ msg \in Seq(Byte) /\ Within(msg, r)
    /\ extEnd \in Nat /\ extEnd <= Len(msg)
    /\ kind \in {"SH", "EE", "CERT", "CV"} /\ path \in {"psk", "cert"}
    /\ pc \in IF kind = "SH" THEN {"header", "exts", "driver", "done"}
              ELSE {"start", "loop", "done"}
    /\ pc = "start" => r = ReaderInit /\ items = <<>>

(* EncryptedExtensions *)
EeItem == [type : Nat, data : Seq(Number)]

EeExts(es) ==
    FlattenSeq([i \in DOMAIN es |->
        U16(es[i].type) \o U16(Len(es[i].data)) \o es[i].data])

EeRead ==
    /\ ~r.err
    /\ Len(msg) - 2 \in Nat
    /\ Prior(msg, r) = U16(Len(msg) - 2) \o EeExts(items)
    /\ \A i \in DOMAIN items : Allowed(items[i].type, Len(items[i].data))

EeInv ==
    kind = "EE" =>
        /\ items \in Seq(EeItem)
        /\ (pc = "loop" \/ Succeeded) => EeRead
        /\ Succeeded => r.pos = Len(msg)

(* Certificate *)
CertItem == [off : Nat, len : Nat, extl : Nat]

CertItemIn(m) == {it \in CertItem : it.off + it.len + 2 + it.extl <= Len(m)}

EntryAt(m, it) ==
    EncodeEntry(SubSeq(m, it.off + 1, it.off + it.len),
                SubSeq(m, it.off + it.len + 3, it.off + it.len + 2 + it.extl))

Entries(m, its) == FlattenSeq([i \in DOMAIN its |-> EntryAt(m, its[i])])

CertRead ==
    /\ items \in Seq(CertItemIn(msg))
    /\ Len(msg) - 4 \in Nat
    /\ Prior(msg, r) = <<0>> \o U24(Len(msg) - 4) \o Entries(msg, items)

CertInv ==
    kind = "CERT" =>
        /\ items \in Seq(CertItem) /\ Len(items) <= MaxChain
        /\ ((pc = "loop" /\ ~r.err) \/ Succeeded) => CertRead
        /\ Succeeded => r.pos = Len(msg) \/ Len(items) = MaxChain

(* CertificateVerify *)
CvInv ==
    (kind = "CV" /\ Succeeded) =>
        \A i \in DOMAIN items : items[i].off + items[i].len <= Len(msg)

(* ServerHello *)
Random(m) == SubSeq(m, 7, 6 + RandomSz)

HeadSz(o) == 12 + RandomSz + Len(o.sid)

HelloBody(m, t, o, e) ==
    U16(t.lver) \o Random(m) \o <<Len(o.sid)>> \o o.sid \o U16(o.cipher)
      \o <<t.comp>> \o U16(e - HeadSz(o))

HelloExts(o, order) == FlattenSeq([i \in DOMAIN order |-> EncodeExt(o, order[i])])

HelloRead ==
    /\ 6 + RandomSz <= Len(msg)
    /\ extEnd - HeadSz(out) \in Nat
    /\ top.type = 2 => Random(msg) # HrrRandom
    /\ \E order \in SetToSeqs(seen) :
          Prior(msg, r) = <<top.type>> \o U24(top.hsLen)
                            \o (HelloBody(msg, top, out, extEnd) \o HelloExts(out, order))

Known == {KeyShare, SupportedVersions, PreShared}

Parsed == [hrr : BOOLEAN, sid : Seq(Number), cipher : Nat, group : Nat,
           share : Seq(Number), version : Nat, psk : Int]

HelloInv ==
    kind = "SH" =>
        /\ out \in Parsed
        /\ top \in [type : Nat, hsLen : Nat, lver : Nat, comp : Nat]
        /\ seen \subseteq Known
        /\ pc = "header" => r = ReaderInit /\ out = Nothing /\ seen = {} /\ ret = "SUCCESS"
        /\ pc = "exts" => ~out.hrr /\ ret = "SUCCESS"
        /\ IF PreShared \in seen THEN out.psk \in Nat ELSE out.psk = -1
        /\ SupportedVersions \notin seen => out.version = 0
        /\ (pc = "exts" /\ ~r.err) => HelloRead
        /\ (pc \in {"driver", "done"} /\ ret = "SUCCESS" /\ ~out.hrr) =>
              /\ 6 + RandomSz <= Len(msg) /\ Random(msg) # HrrRandom
              /\ \E order \in SetToSeqs(seen) : msg = Encode(out, Random(msg), order)
        /\ Succeeded => ~out.hrr /\ Negotiated

ParseInv == Placed /\ EeInv /\ CertInv /\ CvInv /\ HelloInv

-----------------------------------------------------------------------------
(***************************************************************************)
(* What a read adds to what has been passed.                               *)
(***************************************************************************)
LEMMA BytesAreNumbers == Seq(Byte) \subseteq Seq(Number)
<1> SUFFICES ASSUME NEW s \in Seq(Byte) PROVE s \in Seq(Number)
  OBVIOUS
<1>1. \A i \in 1 .. Len(s) : s[i] \in Byte
  BY ElementOfSeq
<1>2. \A x \in Byte : x \in Number
  BY DEF Byte, Number
<1>3. Len(s) \in Int /\ 1 \in Int /\ \A i \in 1 .. Len(s) : s[i] \in Number
  BY <1>1, <1>2, LenProperties
<1>4. SubSeq(s, 1, Len(s)) \in Seq(Number)
  BY <1>3, SubSeqProperties
<1> QED BY <1>4, SubSeqFull

LEMMA EncodingTypes ==
    ASSUME NEW v \in Nat
    PROVE  /\ <<v>> \in Seq(Number) /\ Len(<<v>>) = 1
           /\ U16(v) \in Seq(Number) /\ Len(U16(v)) = 2
           /\ U24(v) \in Seq(Number) /\ Len(U24(v)) = 3
<1>1. /\ v \div 256 \in Nat /\ v % 256 \in Nat /\ v \div 65536 \in Nat
      /\ (v \div 256) % 256 \in Nat
  BY SMT
<1>2. <<v>> \in Seq(Number) /\ Len(<<v>>) = 1
  BY DEF Number
<1>3. U16(v) \in Seq(Number) /\ Len(U16(v)) = 2
  BY <1>1, SMT DEF U16, Number
<1>4. U24(v) \in Seq(Number) /\ Len(U24(v)) = 3
  BY <1>1, SMT DEF U24, Number
<1> QED BY <1>2, <1>3, <1>4

LEMMA PriorType ==
    ASSUME NEW buf \in Seq(Byte), NEW q, Within(buf, q)
    PROVE  /\ Prior(buf, q) \in Seq(Number) /\ Len(Prior(buf, q)) = q.pos
           /\ q.pos \in Nat /\ q.pos <= Len(buf) /\ Len(buf) \in Nat
<1>1. buf \in Seq(Number)
  BY BytesAreNumbers
<1>2. q.pos \in Nat /\ q.pos <= Len(buf) /\ Len(buf) \in Nat
  BY DEF Within, Reader
<1>3. PICK p \in 0 .. Len(buf) : p = q.pos
  BY <1>2
<1> QED BY <1>1, <1>2, <1>3, SubSeqFromOne DEF Prior

LEMMA ReadSome ==
    ASSUME NEW buf \in Seq(Byte), NEW q, Within(buf, q), NEW n \in Nat,
           ~Skip(buf, q, n).err
    PROVE  /\ ReadBytes(buf, q, n) = SubSeq(buf, q.pos + 1, q.pos + n)
           /\ ReadBytes(buf, q, n) \in Seq(Number) /\ Len(ReadBytes(buf, q, n)) = n
           /\ Prior(buf, Skip(buf, q, n)) = Prior(buf, q) \o ReadBytes(buf, q, n)
<1>1. buf \in Seq(Number)
  BY BytesAreNumbers
<1>2. /\ Fits(buf, q, n) /\ q.pos + n <= Len(buf)
      /\ Skip(buf, q, n).pos = q.pos + n
  BY SkipWithin
<1>3. q.pos \in Nat /\ q.pos <= Len(buf) /\ Len(buf) \in Nat
  BY PriorType
<1>4. PICK p \in 0 .. Len(buf) : p = q.pos
  BY <1>3
<1>5. p + n \in p .. Len(buf) /\ (p + n) - p = n
  BY <1>2, <1>3, <1>4
<1>6. ReadBytes(buf, q, n) = SubSeq(buf, p + 1, p + n)
  BY <1>2, <1>4 DEF ReadBytes
<1>7. SubSeq(buf, p + 1, p + n) \in Seq(Number) /\ Len(SubSeq(buf, p + 1, p + n)) = n
  BY <1>1, <1>5, SubSeqPiece
<1>8. SubSeq(buf, 1, p) \o SubSeq(buf, p + 1, p + n) = SubSeq(buf, 1, p + n)
  BY <1>1, <1>5, SubSeqConcat
<1> QED BY <1>2, <1>4, <1>6, <1>7, <1>8 DEF Prior

LEMMA ReadNumber ==
    ASSUME NEW buf \in Seq(Byte), NEW q, Within(buf, q)
    PROVE  /\ ~Skip(buf, q, 1).err =>
                Prior(buf, Skip(buf, q, 1)) = Prior(buf, q) \o <<ReadU(buf, q, 1)>>
           /\ ~Skip(buf, q, 2).err =>
                Prior(buf, Skip(buf, q, 2)) = Prior(buf, q) \o U16(ReadU(buf, q, 2))
           /\ ~Skip(buf, q, 3).err =>
                Prior(buf, Skip(buf, q, 3)) = Prior(buf, q) \o U24(ReadU(buf, q, 3))
<1>1. ASSUME NEW n \in Nat, ~Skip(buf, q, n).err
      PROVE  /\ Fits(buf, q, n)
             /\ Prior(buf, Skip(buf, q, n)) = Prior(buf, q) \o SubSeq(buf, q.pos + 1, q.pos + n)
  <2>1. Fits(buf, q, n)
    BY <1>1, SkipWithin
  <2>2. /\ ReadBytes(buf, q, n) = SubSeq(buf, q.pos + 1, q.pos + n)
        /\ Prior(buf, Skip(buf, q, n)) = Prior(buf, q) \o ReadBytes(buf, q, n)
    BY <1>1, ReadSome
  <2> QED BY <2>1, <2>2
<1>2. 1 \in Nat /\ 2 \in Nat /\ 3 \in Nat
  OBVIOUS
<1> QED BY <1>1, <1>2, ReadUEncodes

LEMMA SkipTwice ==
    ASSUME NEW buf \in Seq(Byte), NEW q, Within(buf, q), NEW m \in Nat, NEW n \in Nat
    PROVE  Skip(buf, Skip(buf, q, m), n).err = Skip(buf, q, m + n).err
           /\ (~Skip(buf, q, m + n).err =>
                 Skip(buf, Skip(buf, q, m), n) = Skip(buf, q, m + n))
<1>1. q.pos \in Nat /\ q.err \in BOOLEAN /\ q = [pos |-> q.pos, err |-> q.err]
      /\ Len(buf) \in Nat
  BY DEF Within, Reader
<1>2. CASE ~q.err /\ q.pos + (m + n) <= Len(buf)
  <2>1. Fits(buf, q, m) /\ Fits(buf, q, m + n)
    BY <1>1, <1>2 DEF Fits
  <2>2. Skip(buf, q, m) = [pos |-> q.pos + m, err |-> FALSE]
    BY <1>1, <1>2, <2>1 DEF Skip
  <2>3. Fits(buf, Skip(buf, q, m), n)
    BY <1>1, <1>2, <2>2 DEF Fits
  <2>4. Skip(buf, Skip(buf, q, m), n) = [pos |-> q.pos + m + n, err |-> FALSE]
    BY <1>1, <2>2, <2>3 DEF Skip
  <2>5. Skip(buf, q, m + n) = [pos |-> q.pos + (m + n), err |-> FALSE]
    BY <1>1, <1>2, <2>1 DEF Skip
  <2>6. q.pos + m + n = q.pos + (m + n)
    BY <1>1
  <2> QED BY <2>4, <2>5, <2>6
<1>3. CASE ~(~q.err /\ q.pos + (m + n) <= Len(buf))
  <2>1. ~Fits(buf, q, m + n)
    BY <1>3 DEF Fits
  <2>2. Skip(buf, q, m + n).err = TRUE
    BY <1>1, <2>1 DEF Skip
  <2>3. CASE Fits(buf, q, m)
    <3>1. Skip(buf, q, m) = [pos |-> q.pos + m, err |-> q.err]
      BY <1>1, <2>3 DEF Skip
    <3>2. ~Fits(buf, Skip(buf, q, m), n)
      BY <1>1, <1>3, <3>1 DEF Fits
    <3>3. Skip(buf, Skip(buf, q, m), n).err = TRUE
      BY <3>1, <3>2 DEF Skip
    <3> QED BY <2>2, <3>3
  <2>4. CASE ~Fits(buf, q, m)
    <3>1. Skip(buf, q, m) = [pos |-> q.pos, err |-> TRUE]
      BY <1>1, <2>4 DEF Skip
    <3>2. ~Fits(buf, Skip(buf, q, m), n)
      BY <3>1 DEF Fits
    <3>3. Skip(buf, Skip(buf, q, m), n).err = TRUE
      BY <3>1, <3>2 DEF Skip
    <3> QED BY <2>2, <3>3
  <2> QED BY <2>3, <2>4
<1> QED BY <1>2, <1>3

LEMMA Associates ==
    ASSUME NEW a \in Seq(Number), NEW b \in Seq(Number), NEW c \in Seq(Number)
    PROVE  (a \o b) \o c = a \o (b \o c)
BY ConcatAssociative

(* Three pieces behind another, from left to right or from right to left. *)
LEMMA Regroup ==
    ASSUME NEW a \in Seq(Number), NEW b \in Seq(Number), NEW c \in Seq(Number),
           NEW d \in Seq(Number)
    PROVE  /\ ((a \o b) \o c) \o d = a \o ((b \o c) \o d)
           /\ (a \o b) \o c = a \o (b \o c)
           /\ a \o b \in Seq(Number) /\ Len(a \o b) = Len(a) + Len(b)
<1>1. a \o b \in Seq(Number) /\ b \o c \in Seq(Number) /\ Len(a \o b) = Len(a) + Len(b)
  BY ConcatProperties
<1>2. (a \o b) \o c = a \o (b \o c)
  BY SMTT(60), Associates
<1>3. PICK e \in Seq(Number) : e = b \o c
  BY <1>1
<1>4. (a \o e) \o d = a \o (e \o d)
  BY SMTT(60), Associates
<1> QED BY <1>1, <1>2, <1>3, <1>4

-----------------------------------------------------------------------------
LEMMA ReaderStarts == \A buf \in Seq(Byte) : Within(buf, ReaderInit)
BY DEF Within, Reader, ReaderInit

LEMMA ParseInit == Init => ParseInv
<1> SUFFICES ASSUME Init PROVE ParseInv
  OBVIOUS
<1>1. /\ msg \in Seq(Byte) /\ r = ReaderInit /\ items = <<>> /\ ret = "SUCCESS"
      /\ out = Nothing /\ seen = {} /\ extEnd = 0
      /\ top = [type |-> 0, hsLen |-> 0, lver |-> 0, comp |-> 0]
      /\ path \in {"psk", "cert"}
      /\ (kind = "SH" /\ pc = "header") \/ (kind \in {"EE", "CERT", "CV"} /\ pc = "start")
  <2>1. CASE HelloInit
    <3>1. /\ path \in {"psk", "cert"} /\ kind = "SH" /\ pc = "header" /\ msg \in Messages
          /\ r = ReaderInit /\ ret = "SUCCESS" /\ HelloVarsInit /\ items = <<>>
      BY <2>1 DEF Init, HelloInit
    <3>2. msg \in Seq(Byte)
      BY <3>1, ServerHelloAssumption
    <3> QED BY <3>1, <3>2 DEF HelloVarsInit
  <2>2. CASE FlightInit
    <3>1. PICK b \in Bodies : kind = b.kind /\ msg = b.msg
                              /\ path \in IF b.kind = "EE" THEN {"psk", "cert"} ELSE {"cert"}
      BY <2>2 DEF FlightInit
    <3>2. kind \in {"EE", "CERT", "CV"} /\ msg \in Seq(Byte)
      BY <3>1, FlightMsgsAssumption
    <3> QED BY <2>2, <3>1, <3>2 DEF Init, FlightInit, HelloVarsInit
  <2> QED BY <2>1, <2>2 DEF Init
<1>2. Placed
  <2>1. Within(msg, r)
    BY <1>1, ReaderStarts
  <2>2. extEnd \in Nat /\ extEnd <= Len(msg)
    BY <1>1, LenProperties
  <2> QED BY <1>1, <2>1, <2>2 DEF Placed
<1>3. EeInv
  BY <1>1 DEF EeInv, Succeeded
<1>4. CertInv
  <2>1. items \in Seq(CertItem) /\ Len(items) <= MaxChain
    BY <1>1, FlightMsgsAssumption
  <2> QED BY <1>1, <2>1 DEF CertInv, Succeeded
<1>5. CvInv
  BY <1>1 DEF CvInv, Succeeded
<1>6. HelloInv
  <2>1. Nothing \in Parsed /\ Nothing.psk = -1 /\ Nothing.version = 0
    BY DEF Nothing, Parsed
  <2>2. top \in [type : Nat, hsLen : Nat, lver : Nat, comp : Nat]
    BY <1>1
  <2> QED BY <1>1, <2>1, <2>2 DEF HelloInv, Succeeded
<1> QED BY <1>2, <1>3, <1>4, <1>5, <1>6 DEF ParseInv

(* A step of one parser says nothing of the messages of the others. *)
LEMMA OtherKinds ==
    /\ kind' # "EE" => EeInv'
    /\ kind' # "CERT" => CertInv'
    /\ kind' # "CV" => CvInv'
    /\ kind' # "SH" => HelloInv'
BY DEF EeInv, CertInv, CvInv, HelloInv

(* EncryptedExtensions: a pass over the list appends what it has read. *)
LEMMA EeExtsAppend ==
    ASSUME NEW es \in Seq(EeItem), NEW e \in EeItem
    PROVE  /\ EeExts(es) \in Seq(Number)
           /\ EeExts(Append(es, e)) = EeExts(es) \o (U16(e.type) \o U16(Len(e.data)) \o e.data)
<1>1. ASSUME NEW x \in EeItem
      PROVE  U16(x.type) \o U16(Len(x.data)) \o x.data \in Seq(Number)
  <2>1. x.type \in Nat /\ x.data \in Seq(Number) /\ Len(x.data) \in Nat
    BY LenProperties DEF EeItem
  <2>2. U16(x.type) \in Seq(Number) /\ U16(Len(x.data)) \in Seq(Number)
    BY <2>1, EncodingTypes
  <2>3. U16(x.type) \o U16(Len(x.data)) \in Seq(Number)
    BY <2>2, ConcatProperties
  <2> QED BY <2>1, <2>3, ConcatProperties
<1>2. PICK f \in [EeItem -> Seq(Number)] :
         \A x \in EeItem : f[x] = U16(x.type) \o U16(Len(x.data)) \o x.data
  <2>1. [x \in EeItem |-> U16(x.type) \o U16(Len(x.data)) \o x.data] \in [EeItem -> Seq(Number)]
    BY <1>1
  <2> QED BY <2>1
<1>3. Append(es, e) \in Seq(EeItem)
  BY AppendProperties
<1>4. ASSUME NEW q \in Seq(EeItem)
      PROVE  EeExts(q) = FlatMap(f, q)
  <2>1. \A i \in DOMAIN q : q[i] \in EeItem
    BY ElementOfSeq, LenProperties
  <2>2. [i \in DOMAIN q |-> f[q[i]]]
          = [i \in DOMAIN q |-> U16(q[i].type) \o U16(Len(q[i].data)) \o q[i].data]
    BY <1>2, <2>1
  <2> QED BY <2>2 DEF EeExts, FlatMap
<1>5. FlatMap(f, es) \in Seq(Number) /\ FlatMap(f, Append(es, e)) = FlatMap(f, es) \o f[e]
  <2>1. MapsTo(f, EeItem, Number)
    BY DEF MapsTo
  <2> QED BY <2>1, FlatMapAppend
<1> QED BY <1>2, <1>3, <1>4, <1>5

LEMMA EeExtsEmpty == EeExts(<<>>) = <<>>
BY FlattenEmpty DEF EeExts

LEMMA EeStartStep == ParseInv /\ EncExtStart /\ UNCHANGED helloVars => ParseInv'
<1> SUFFICES ASSUME ParseInv, EncExtStart, UNCHANGED helloVars PROVE ParseInv'
  OBVIOUS
<1> DEFINE n == ReadU(msg, r, 2)
           ok == ~Skip(msg, r, 2).err /\ Skip(msg, r, 2).pos + n = Len(msg)
<1>1. /\ pc = "start" /\ kind = "EE" /\ r' = Skip(msg, r, 2)
      /\ ret' = IF ok THEN "SUCCESS" ELSE "E_DECODE"
      /\ pc' = IF ok THEN "loop" ELSE "done"
      /\ path' = path /\ kind' = kind /\ msg' = msg /\ items' = items
      /\ sniOffered' = sniOffered /\ extEnd' = extEnd
  BY DEF EncExtStart, Enter, helloVars
<1>2. /\ msg \in Seq(Byte) /\ Within(msg, r) /\ r = ReaderInit /\ items = <<>>
      /\ extEnd \in Nat /\ extEnd <= Len(msg) /\ path \in {"psk", "cert"}
      /\ Within(msg, Skip(msg, r, 2))
  BY <1>1, SkipWithin DEF ParseInv, Placed
<1>3. Placed'
  BY <1>1, <1>2 DEF Placed
<1>4. EeInv'
  <2>1. items' \in Seq(EeItem)
    BY <1>1, <1>2
  <2>2. ASSUME ok PROVE EeRead'
    <3>1. Skip(msg, r, 2).pos = 2 /\ ~Skip(msg, r, 2).err
      <4>1. r.pos = 0
        BY <1>2 DEF ReaderInit
      <4>2. ~Skip(msg, r, 2).err
        BY <2>2
      <4>3. Skip(msg, r, 2).pos = r.pos + 2
        <5>1. \A k \in Nat : ~Skip(msg, r, k).err => Skip(msg, r, k).pos = r.pos + k
          BY ZenonT(60), <1>2, SkipWithin
        <5> QED BY <4>2, <5>1
      <4> QED BY <4>1, <4>2, <4>3
    <3>2. n \in Nat /\ n = Len(msg) - 2 /\ Len(msg) - 2 \in Nat
      BY SMTT(60), <1>2, <2>2, <3>1, ReadUEncodes, LenProperties
    <3>3. Prior(msg, r) = <<>>
      BY <1>2, SubSeqEmpty DEF Prior, ReaderInit
    <3>4. Prior(msg, r') = <<>> \o U16(n)
      BY <1>1, <1>2, <3>1, <3>3, ReadNumber
    <3>5. U16(n) \in Seq(Number)
      BY <3>2, EncodingTypes
    <3>6. Prior(msg, r') = U16(n) \o EeExts(items')
      <4>1. <<>> \o U16(n) = U16(n) /\ U16(n) \o <<>> = U16(n)
        BY <3>5, ConcatEmptySeq
      <4> QED BY <1>1, <1>2, <3>4, <4>1, EeExtsEmpty
    <3>7. (Prior(msg, r))' = Prior(msg, r')
      BY <1>1 DEF Prior
    <3>8. DOMAIN items' = {}
      BY <1>1, <1>2
    <3> QED BY <1>1, <3>1, <3>2, <3>6, <3>7, <3>8 DEF EeRead
  <2>3. ~ok => pc' = "done" /\ ret' = "E_DECODE"
    BY <1>1
  <2>4. ok => pc' = "loop"
    BY <1>1
  <2> HIDE DEF ok
  <2> QED BY <2>1, <2>2, <2>3, <2>4 DEF EeInv, Succeeded
<1> QED BY <1>1, <1>3, <1>4, OtherKinds DEF ParseInv

LEMMA EeNextStep == ParseInv /\ EncExtNext /\ UNCHANGED helloVars => ParseInv'
<1> SUFFICES ASSUME ParseInv, EncExtNext, UNCHANGED helloVars PROVE ParseInv'
  OBVIOUS
<1> DEFINE et == ReadU(msg, r, 2)
           r1 == Skip(msg, r, 2)
           el == ReadU(msg, r1, 2)
           r2 == Skip(msg, r1, 2)
           data == ReadBytes(msg, r2, el)
           r3 == Skip(msg, r2, el)
           item == [type |-> et, data |-> data]
<1>1. /\ pc = "loop" /\ kind = "EE" /\ r.pos < Len(msg) /\ r' = r3
      /\ ret' = EncExtRet(r3.err, et, el)
      /\ pc' = IF ret' = "SUCCESS" THEN "loop" ELSE "done"
      /\ items' = IF r3.err THEN items ELSE Append(items, item)
      /\ path' = path /\ kind' = kind /\ msg' = msg
      /\ sniOffered' = sniOffered /\ extEnd' = extEnd
  BY DEF EncExtNext, helloVars
<1>2. /\ msg \in Seq(Byte) /\ Within(msg, r) /\ items \in Seq(EeItem)
      /\ extEnd \in Nat /\ extEnd <= Len(msg) /\ path \in {"psk", "cert"}
      /\ EeRead
  BY <1>1 DEF ParseInv, Placed, EeInv
<1>3. /\ et \in Nat /\ el \in Nat
      /\ Within(msg, r1) /\ Within(msg, r2) /\ Within(msg, r3)
      /\ ~r3.err => ~r2.err /\ ~r1.err
  <2>1. et \in Nat /\ Within(msg, r1)
    BY <1>2, ReadUEncodes, SkipWithin
  <2> HIDE DEF r1, et
  <2>2. el \in Nat /\ Within(msg, r2) /\ (~r2.err => ~r1.err)
    BY <1>2, <2>1, ReadUEncodes, SkipWithin
  <2> HIDE DEF r2, el
  <2>3. Within(msg, r3) /\ (~r3.err => ~r2.err)
    BY <1>2, <2>2, SkipWithin
  <2> QED BY <2>1, <2>2, <2>3
<1>4. Placed'
  <2> HIDE DEF r3, item
  <2>1. pc' \in {"loop", "done"}
    BY <1>1
  <2> QED BY <1>1, <1>2, <1>3, <2>1 DEF Placed
<1>5. ASSUME ~r3.err
      PROVE  /\ item \in EeItem /\ Len(data) = el
             /\ Prior(msg, r3) = Prior(msg, r) \o (U16(et) \o U16(el) \o data)
  <2>1. Prior(msg, r1) = Prior(msg, r) \o U16(et)
    BY <1>2, <1>3, <1>5, ReadNumber
  <2>2. Prior(msg, r) \in Seq(Number) /\ U16(et) \in Seq(Number)
    BY <1>2, <1>3, PriorType, EncodingTypes
  <2> HIDE DEF et, r1
  <2>3. Prior(msg, r2) = Prior(msg, r1) \o U16(el)
    BY <1>2, <1>3, <1>5, ReadNumber
  <2>4. U16(el) \in Seq(Number)
    BY <1>3, EncodingTypes
  <2> HIDE DEF el, r2
  <2>5. /\ Prior(msg, r3) = Prior(msg, r2) \o data
        /\ data \in Seq(Number) /\ Len(data) = el
    BY <1>2, <1>3, <1>5, ReadSome
  <2> HIDE DEF data, r3
  <2>6. item \in EeItem
    BY <1>3, <2>5 DEF EeItem
  <2>7. Prior(msg, r3) = Prior(msg, r) \o (U16(et) \o U16(el) \o data)
    <3>1. PICK p \in Seq(Number) : p = Prior(msg, r)
      BY <2>2
    <3>2. PICK a \in Seq(Number) : a = U16(et)
      BY <2>2
    <3>3. PICK b \in Seq(Number) : b = U16(el)
      BY <2>4
    <3>4. PICK d \in Seq(Number) : d = data
      BY <2>5
    <3>5. ((p \o a) \o b) \o d = p \o ((a \o b) \o d)
      <4> HIDE DEF et, el, data
      <4>1. (p \o a) \o b = p \o (a \o b)
        BY SMTT(60), Associates
      <4>2. PICK e \in Seq(Number) : e = a \o b
        BY ConcatProperties
      <4>3. (p \o e) \o d = p \o (e \o d)
        BY SMTT(60), Associates
      <4> QED BY <4>1, <4>2, <4>3
    <3> QED BY <2>1, <2>3, <2>5, <3>1, <3>2, <3>3, <3>4, <3>5
  <2> QED BY <2>5, <2>6, <2>7
<1>6. items' \in Seq(EeItem)
  <2> HIDE DEF r3, item
  <2> QED BY <1>1, <1>2, <1>5, AppendProperties
<1>7. ASSUME ret' = "SUCCESS" PROVE EeRead'
  <2>1. ~r3.err /\ Allowed(et, el)
    BY <1>1, <1>7 DEF EncExtRet
  <2>2. /\ item \in EeItem /\ Len(data) = el /\ item.type = et /\ item.data = data
        /\ Prior(msg, r3) = Prior(msg, r) \o (U16(et) \o U16(el) \o data)
    BY <1>5, <2>1
  <2>3. items' = Append(items, item) /\ r' = r3
    BY <1>1, <2>1
  <2> DEFINE h == U16(Len(msg) - 2)
             x == U16(et) \o U16(el) \o data
  <2>4. h \in Seq(Number) /\ x \in Seq(Number)
    <3>1. U16(et) \in Seq(Number) /\ U16(el) \in Seq(Number) /\ data \in Seq(Number)
      <4>1. U16(et) \in Seq(Number) /\ U16(el) \in Seq(Number)
        BY <1>3, EncodingTypes
      <4>2. item.data \in Seq(Number)
        BY <2>2 DEF EeItem
      <4> QED BY <2>2, <4>1, <4>2
    <3>2. h \in Seq(Number)
      BY <1>2, EncodingTypes DEF EeRead
    <3> HIDE DEF et, el, data, h
    <3>3. U16(et) \o U16(el) \in Seq(Number)
      BY <3>1, ConcatProperties
    <3> QED BY <3>1, <3>2, <3>3, ConcatProperties
  <2>5. Prior(msg, r) = h \o EeExts(items)
    BY <1>2 DEF EeRead
  <2>6. /\ EeExts(items) \in Seq(Number)
        /\ EeExts(items') = EeExts(items) \o x
    <3> HIDE DEF et, el, data, item
    <3>1. /\ EeExts(items) \in Seq(Number)
          /\ EeExts(Append(items, item))
               = EeExts(items) \o (U16(item.type) \o U16(Len(item.data)) \o item.data)
      BY <1>2, <2>2, EeExtsAppend
    <3> QED BY <2>2, <2>3, <3>1
  <2>7. Prior(msg, r') = h \o EeExts(items')
    <3>1. Prior(msg, r') = Prior(msg, r) \o x
      BY <2>2, <2>3
    <3> HIDE DEF h, x
    <3>2. (h \o EeExts(items)) \o x = h \o (EeExts(items) \o x)
      BY <2>4, <2>6, Associates
    <3> QED BY <2>5, <2>6, <3>1, <3>2
  <2>8. (Prior(msg, r))' = Prior(msg, r')
    BY <1>1 DEF Prior
  <2>9. \A i \in DOMAIN items' : Allowed(items'[i].type, Len(items'[i].data))
    <3> HIDE DEF et, el, data, item
    <3>1. \A i \in DOMAIN items' : items'[i] = item \/ \E j \in DOMAIN items : items'[i] = items[j]
      BY <1>2, <2>2, <2>3, AppendElements
    <3>2. \A j \in DOMAIN items : Allowed(items[j].type, Len(items[j].data))
      BY <1>2 DEF EeRead
    <3> QED BY <2>1, <2>2, <3>1, <3>2
  <2>10. \A i \in DOMAIN items' : (Allowed(items[i].type, Len(items[i].data)))'
    BY <1>1, <2>9 DEF Allowed
  <2>11. Len(msg) - 2 \in Nat
    BY <1>2 DEF EeRead
  <2> HIDE DEF et, el, data, item, x, r3
  <2> QED BY <1>1, <2>1, <2>3, <2>7, <2>8, <2>10, <2>11 DEF EeRead
<1>8. EeInv'
  <2>1. (pc' = "loop" \/ Succeeded') => ret' = "SUCCESS"
    BY <1>1 DEF Succeeded
  <2>2. ~Succeeded'
    BY <1>1 DEF Succeeded
  <2> QED BY <1>6, <1>7, <2>1, <2>2 DEF EeInv
<1> QED BY <1>1, <1>4, <1>8, OtherKinds DEF ParseInv

(* Certificate: so does a pass over the list of certificates. *)
LEMMA EntryPieces ==
    ASSUME NEW m \in Seq(Number), NEW e \in CertItemIn(m)
    PROVE  /\ e.off \in Nat /\ e.len \in Nat /\ e.extl \in Nat
           /\ e.off + e.len <= Len(m)
           /\ SubSeq(m, e.off + 1, e.off + e.len) \in Seq(Number)
           /\ Len(SubSeq(m, e.off + 1, e.off + e.len)) = e.len
           /\ SubSeq(m, e.off + e.len + 3, e.off + e.len + 2 + e.extl) \in Seq(Number)
           /\ Len(SubSeq(m, e.off + e.len + 3, e.off + e.len + 2 + e.extl)) = e.extl
<1>1. /\ e.off \in Nat /\ e.len \in Nat /\ e.extl \in Nat
      /\ e.off + e.len + 2 + e.extl <= Len(m) /\ Len(m) \in Nat
  BY LenProperties DEF CertItemIn, CertItem
<1>2. PICK a \in Nat : a = e.off
  BY <1>1
<1>3. PICK b \in Nat : b = a + e.len
  BY <1>1, <1>2
<1>4. PICK c \in Nat : c = b + 2 /\ c = a + e.len + 2
  BY <1>1, <1>3
<1>5. PICK d \in Nat : d = c + e.extl
  BY <1>1, <1>4
<1>6. /\ a \in 0 .. Len(m) /\ b \in a .. Len(m) /\ b - a = e.len
      /\ c \in 0 .. Len(m) /\ d \in c .. Len(m) /\ d - c = e.extl
      /\ e.off + 1 = a + 1 /\ e.off + e.len = b /\ e.off + e.len + 3 = c + 1
      /\ e.off + e.len + 2 + e.extl = d
  <2>1. PICK l \in Nat, x \in Nat : l = e.len /\ x = e.extl
    BY <1>1
  <2>2. b = a + l /\ c = a + l + 2 /\ d = a + l + 2 + x
    BY <1>3, <1>4, <1>5, <2>1
  <2>3. d <= Len(m) /\ Len(m) \in Nat
    BY <1>1, <1>2, <2>1, <2>2
  <2>4. a \in 0 .. Len(m) /\ b \in a .. Len(m) /\ c \in 0 .. Len(m) /\ d \in c .. Len(m)
    BY <2>2, <2>3
  <2>5. b - a = l /\ d - c = x
    BY <2>2
  <2>6. e.off + 1 = a + 1 /\ e.off + e.len = b /\ e.off + e.len + 3 = c + 1
    BY <1>2, <2>1, <2>2
  <2>7. e.off + e.len + 2 + e.extl = d
    BY <1>2, <2>1, <2>2
  <2> QED BY <2>1, <2>4, <2>5, <2>6, <2>7
<1>7. SubSeq(m, a + 1, b) \in Seq(Number) /\ Len(SubSeq(m, a + 1, b)) = b - a
  BY <1>6, SubSeqPiece
<1>8. SubSeq(m, c + 1, d) \in Seq(Number) /\ Len(SubSeq(m, c + 1, d)) = d - c
  BY <1>6, SubSeqPiece
<1>9. e.off + e.len <= Len(m)
  BY <1>6
<1> QED BY <1>1, <1>6, <1>7, <1>8, <1>9

LEMMA EntryType ==
    ASSUME NEW d \in Seq(Number), NEW x \in Seq(Number)
    PROVE  EncodeEntry(d, x) \in Seq(Number)
<1>1. U24(Len(d)) \in Seq(Number) /\ U16(Len(x)) \in Seq(Number)
  BY EncodingTypes, LenProperties
<1>2. U24(Len(d)) \o d \in Seq(Number)
  BY <1>1, ConcatProperties
<1>3. (U24(Len(d)) \o d) \o U16(Len(x)) \in Seq(Number)
  BY <1>1, <1>2, ConcatProperties
<1>4. ((U24(Len(d)) \o d) \o U16(Len(x))) \o x \in Seq(Number)
  BY <1>3, ConcatProperties
<1> QED BY <1>4 DEF EncodeEntry

LEMMA EntriesAppend ==
    ASSUME NEW m \in Seq(Number), NEW its \in Seq(CertItemIn(m)), NEW e \in CertItemIn(m)
    PROVE  /\ Entries(m, its) \in Seq(Number)
           /\ Entries(m, Append(its, e)) = Entries(m, its) \o EntryAt(m, e)
<1>1. ASSUME NEW x \in CertItemIn(m)
      PROVE  EntryAt(m, x) \in Seq(Number)
  BY EntryPieces, EntryType DEF EntryAt
<1>2. PICK R : R = CertItemIn(m)
  OBVIOUS
<1>3. PICK f : MapsTo(f, R, Number) /\ \A x \in R : f[x] = EntryAt(m, x)
  <2>1. [x \in R |-> EntryAt(m, x)] \in [R -> Seq(Number)]
    BY <1>1, <1>2
  <2>2. \A x \in R : [y \in R |-> EntryAt(m, y)][x] = EntryAt(m, x)
    OBVIOUS
  <2> QED BY <2>1, <2>2 DEF MapsTo
<1>4. its \in Seq(R) /\ e \in R /\ Append(its, e) \in Seq(R)
  BY <1>2, AppendProperties
<1>5. ASSUME NEW q \in Seq(R)
      PROVE  Entries(m, q) = FlatMap(f, q)
  <2>1. \A i \in DOMAIN q : q[i] \in R
    BY ElementOfSeq, LenProperties
  <2>2. [i \in DOMAIN q |-> f[q[i]]] = [i \in DOMAIN q |-> EntryAt(m, q[i])]
    BY <1>3, <2>1
  <2> QED BY <2>2 DEF Entries, FlatMap
<1>6. FlatMap(f, its) \in Seq(Number) /\ FlatMap(f, Append(its, e)) = FlatMap(f, its) \o f[e]
  BY <1>3, <1>4, FlatMapAppend
<1> QED BY <1>3, <1>4, <1>5, <1>6

LEMMA EntriesEmpty == \A m : Entries(m, <<>>) = <<>>
BY FlattenEmpty DEF Entries

LEMMA CertStartStep == ParseInv /\ CertStart /\ UNCHANGED helloVars => ParseInv'
<1> SUFFICES ASSUME ParseInv, CertStart, UNCHANGED helloVars PROVE ParseInv'
  OBVIOUS
<1> DEFINE ctx == ReadU(msg, r, 1)
           r1 == Skip(msg, r, 1)
           r2 == Skip(msg, r1, ctx)
           n == ReadU(msg, r2, 3)
           r3 == Skip(msg, r2, 3)
           ok == ~r3.err /\ ctx = 0 /\ r3.pos + n = Len(msg)
<1>1. /\ pc = "start" /\ kind = "CERT" /\ r' = r3
      /\ ret' = IF ok THEN "SUCCESS" ELSE "E_DECODE"
      /\ pc' = IF ok THEN "loop" ELSE "done"
      /\ path' = path /\ kind' = kind /\ msg' = msg /\ items' = items
      /\ sniOffered' = sniOffered /\ extEnd' = extEnd
  BY DEF CertStart, Enter, ListFills, helloVars
<1>2. /\ msg \in Seq(Byte) /\ Within(msg, r) /\ r = ReaderInit /\ items = <<>>
      /\ extEnd \in Nat /\ extEnd <= Len(msg) /\ path \in {"psk", "cert"}
  BY <1>1 DEF ParseInv, Placed
<1>3. /\ ctx \in Nat /\ Within(msg, r1)
      /\ ~r1.err => r1.pos = r.pos + 1
  BY <1>2, ReadUEncodes, SkipWithin
<1>4. /\ Within(msg, r2) /\ n \in Nat
      /\ ~r2.err => ~r1.err /\ r2.pos = r1.pos + ctx
  <2> HIDE DEF r1, ctx
  <2> QED BY ZenonT(60), <1>2, <1>3, ReadUEncodes, SkipWithin
<1>5. /\ Within(msg, r3)
      /\ ~r3.err => ~r2.err /\ r3.pos = r2.pos + 3
  <2> HIDE DEF r2
  <2> QED BY <1>2, <1>4, SkipWithin
<1>6. Placed'
  <2> HIDE DEF r3, ok
  <2> QED BY <1>1, <1>2, <1>5 DEF Placed
<1>7. ASSUME ok PROVE CertRead'
  <2>1. ~r1.err /\ ~r2.err /\ ~r3.err /\ ctx = 0
    BY <1>4, <1>5, <1>7
  <2>2. r3.pos = 4
    <3>1. r.pos = 0
      BY <1>2 DEF ReaderInit
    <3> HIDE DEF r1, r2, r3, ctx
    <3> QED BY <1>3, <1>4, <1>5, <2>1, <3>1
  <2>3. n = Len(msg) - 4 /\ Len(msg) - 4 \in Nat
    <3>1. r3.pos + n = Len(msg)
      BY <1>7
    <3> HIDE DEF r3, n
    <3> QED BY <1>2, <1>4, <2>2, <3>1, LenProperties
  <2>4. Prior(msg, r) = <<>>
    BY <1>2, SubSeqEmpty DEF Prior, ReaderInit
  <2>5. Prior(msg, r1) = <<0>>
    <3>1. Prior(msg, r1) = Prior(msg, r) \o <<ctx>>
      BY <1>2, <2>1, ReadNumber
    <3>2. <<ctx>> \in Seq(Number)
      BY <1>3, EncodingTypes
    <3>3. <<>> \o <<ctx>> = <<ctx>>
      BY <3>2, ConcatEmptySeq
    <3> QED BY <2>1, <2>4, <3>1, <3>3
  <2>6. r2 = r1
    <3> HIDE DEF r1, ctx
    <3>1. Skip(msg, r1, 0) = r1
      <4>1. r1.pos \in Nat /\ r1 = [pos |-> r1.pos, err |-> r1.err] /\ ~r1.err
            /\ r1.pos <= Len(msg)
        BY <1>3, <2>1 DEF Within, Reader
      <4>2. Fits(msg, r1, 0)
        BY <4>1 DEF Fits
      <4> QED BY <4>1, <4>2 DEF Skip
    <3> QED BY <2>1, <3>1
  <2>7. Prior(msg, r3) = <<0>> \o U24(n)
    <3>1. Prior(msg, r3) = Prior(msg, r2) \o U24(n)
      <4> HIDE DEF r2
      <4> QED BY <1>2, <1>4, <2>1, ReadNumber
    <3> QED BY <2>5, <2>6, <3>1
  <2>8. U24(n) \in Seq(Number) /\ <<0>> \in Seq(Number)
    BY <1>4, EncodingTypes
  <2>9. (<<0>> \o U24(n)) \o <<>> = <<0>> \o U24(n)
    BY <2>8, ConcatProperties, ConcatEmptySeq
  <2>10. (Prior(msg, r))' = Prior(msg, r')
    BY <1>1 DEF Prior
  <2>11. items' \in Seq(CertItemIn(msg'))
    BY <1>1, <1>2
  <2>12. Entries(msg', items') = <<>>
    BY <1>1, <1>2, EntriesEmpty
  <2> HIDE DEF n, r3
  <2>13. Prior(msg, r') = <<0>> \o U24(Len(msg) - 4) \o Entries(msg', items')
    BY <1>1, <2>3, <2>7, <2>9, <2>12
  <2> QED BY <1>1, <2>3, <2>10, <2>11, <2>13 DEF CertRead
<1>8. CertInv'
  <2>1. items' \in Seq(CertItem) /\ Len(items') <= MaxChain
    BY <1>1, <1>2, FlightMsgsAssumption
  <2>2. ((pc' = "loop" /\ ~r'.err) \/ Succeeded') => ok
    BY <1>1 DEF Succeeded
  <2>3. ~Succeeded'
    BY <1>1 DEF Succeeded
  <2> HIDE DEF ok
  <2> QED BY <1>7, <2>1, <2>2, <2>3 DEF CertInv
<1> QED BY <1>1, <1>6, <1>8, OtherKinds DEF ParseInv

IsText(x) == x \in Seq(Number)

LEMMA TextAssociates ==
    ASSUME NEW a, NEW b, NEW c, IsText(a), IsText(b), IsText(c)
    PROVE  IsText(a \o b) /\ (a \o b) \o c = a \o (b \o c)
<1>1. a \in Seq(Number) /\ b \in Seq(Number) /\ c \in Seq(Number)
  BY DEF IsText
<1> QED BY <1>1, Associates, ConcatProperties DEF IsText

FiveTexts(p, a, b, c, d) ==
    IsText(p) /\ IsText(a) /\ IsText(b) /\ IsText(c) /\ IsText(d)

LEMMA FourPieces ==
    ASSUME NEW p, NEW a, NEW b, NEW c, NEW d, FiveTexts(p, a, b, c, d)
    PROVE  (((p \o a) \o b) \o c) \o d = p \o (((a \o b) \o c) \o d)
<1>0. IsText(p) /\ IsText(a) /\ IsText(b) /\ IsText(c) /\ IsText(d)
  BY DEF FiveTexts
<1>1. IsText(a \o b) /\ (p \o a) \o b = p \o (a \o b)
  BY <1>0, TextAssociates
<1>2. PICK e : e = a \o b
  OBVIOUS
<1>3. IsText(e \o c) /\ (p \o e) \o c = p \o (e \o c)
  BY SMTT(60), <1>0, <1>1, <1>2, TextAssociates
<1>4. PICK f : f = e \o c
  OBVIOUS
<1>5. (p \o f) \o d = p \o (f \o d)
  BY <1>0, <1>3, <1>4, TextAssociates
<1> QED BY <1>1, <1>2, <1>3, <1>4, <1>5

(* A number, its bytes, a number, its bytes: one entry of the list. *)
EntryReads(buf, q, cl, q1, q2, xl, q3, e) ==
    /\ cl = ReadU(buf, q, 3) /\ q1 = Skip(buf, q, 3)
    /\ q2 = Skip(buf, q1, cl) /\ xl = ReadU(buf, q2, 2)
    /\ q3 = Skip(buf, Skip(buf, q2, 2), xl)
    /\ e = [off |-> q1.pos, len |-> cl, extl |-> xl]

LEMMA ReadEntry ==
    ASSUME NEW buf \in Seq(Byte), NEW q, Within(buf, q),
           NEW cl, NEW q1, NEW q2, NEW xl, NEW q3, NEW e,
           EntryReads(buf, q, cl, q1, q2, xl, q3, e)
    PROVE  /\ Within(buf, q3) /\ cl \in Nat /\ xl \in Nat /\ q1.pos \in Nat
           /\ ~q3.err =>
                /\ e \in CertItemIn(buf)
                /\ Prior(buf, q3) = Prior(buf, q) \o EntryAt(buf, e)
<1>0. /\ cl = ReadU(buf, q, 3) /\ q1 = Skip(buf, q, 3)
      /\ q2 = Skip(buf, q1, cl) /\ xl = ReadU(buf, q2, 2)
      /\ q3 = Skip(buf, Skip(buf, q2, 2), xl)
      /\ e = [off |-> q1.pos, len |-> cl, extl |-> xl]
  BY DEF EntryReads
<1>1. cl \in Nat /\ Within(buf, q1)
  BY <1>0, ReadUEncodes, SkipWithin
<1>2. /\ Within(buf, q2) /\ xl \in Nat /\ q1.pos \in Nat
      /\ ~q2.err => ~q1.err /\ q2.pos = q1.pos + cl
  <2>1. Within(buf, Skip(buf, q1, cl))
    BY <1>1, SkipWithin
  <2>2. ~Skip(buf, q1, cl).err => ~q1.err /\ Skip(buf, q1, cl).pos = q1.pos + cl
    BY <1>1, SkipWithin
  <2>3. xl \in Nat
    BY <1>0, <2>1, ReadUEncodes
  <2>4. q1.pos \in Nat
    BY <1>1, PriorType
  <2> QED BY <1>0, <2>1, <2>2, <2>3, <2>4
<1>3. PICK q4 : q4 = Skip(buf, q2, 2)
  OBVIOUS
<1>4. /\ Within(buf, q4)
      /\ ~q4.err => ~q2.err /\ q4.pos = q2.pos + 2
  <2>0. Within(buf, q2) /\ 2 \in Nat
    BY <1>2
  <2>1. Within(buf, Skip(buf, q2, 2))
    BY <2>0, SkipWithin
  <2>2. ASSUME ~Skip(buf, q2, 2).err
        PROVE  ~q2.err /\ Skip(buf, q2, 2).pos = q2.pos + 2
    BY SMTT(60), <2>0, <2>2, SkipWithin
  <2> QED BY <1>3, <2>1, <2>2
<1>5. q3 = Skip(buf, q4, xl)
  BY <1>0, <1>3
<1>6. /\ Within(buf, q3)
      /\ ~q3.err => ~q4.err /\ q3.pos = q4.pos + xl
  <2>1. Within(buf, Skip(buf, q4, xl))
    BY <1>2, <1>4, SkipWithin
  <2>2. ~Skip(buf, q4, xl).err => ~q4.err /\ Skip(buf, q4, xl).pos = q4.pos + xl
    BY SMTT(60), <1>2, <1>4, SkipWithin
  <2> QED BY <1>5, <2>1, <2>2
<1>7. ASSUME ~q3.err
      PROVE  /\ e \in CertItemIn(buf)
             /\ Prior(buf, q3) = Prior(buf, q) \o EntryAt(buf, e)
  <2>1. ~q4.err /\ ~q2.err /\ ~q1.err
    BY <1>2, <1>4, <1>6, <1>7
  <2>2. /\ q2.pos = q1.pos + cl /\ q4.pos = q1.pos + cl + 2 /\ q3.pos = q1.pos + cl + 2 + xl
        /\ q3.pos <= Len(buf)
    BY <1>2, <1>4, <1>6, <1>7, <2>1 DEF Within
  <2>3. e \in CertItemIn(buf)
    BY <1>0, <1>1, <1>2, <2>2 DEF CertItemIn, CertItem
  <2> DEFINE D == SubSeq(buf, e.off + 1, e.off + e.len)
             X == SubSeq(buf, e.off + e.len + 3, e.off + e.len + 2 + e.extl)
  <2>4. e.off = q1.pos /\ e.len = cl /\ e.extl = xl
    BY <1>0
  <2>5. /\ D \in Seq(Number) /\ Len(D) = cl /\ X \in Seq(Number) /\ Len(X) = xl
    <3>1. buf \in Seq(Number)
      BY BytesAreNumbers
    <3> HIDE DEF D, X
    <3> QED BY <2>3, <2>4, <3>1, EntryPieces DEF D, X
  <2>6. EntryAt(buf, e) = ((U24(cl) \o D) \o U16(xl)) \o X
    BY <2>5 DEF EntryAt, EncodeEntry
  <2>7. Prior(buf, q1) = Prior(buf, q) \o U24(cl)
    BY <1>0, <2>1, ReadNumber
  <2>8. Prior(buf, q2) = Prior(buf, q1) \o D
    <3>1. /\ Prior(buf, q2) = Prior(buf, q1) \o ReadBytes(buf, q1, cl)
          /\ ReadBytes(buf, q1, cl) = SubSeq(buf, q1.pos + 1, q1.pos + cl)
      BY <1>0, <1>1, <2>1, ReadSome
    <3> QED BY <2>4, <3>1
  <2>9. Prior(buf, q4) = Prior(buf, q2) \o U16(xl)
    BY <1>0, <1>2, <1>3, <2>1, ReadNumber
  <2>10. Prior(buf, q3) = Prior(buf, q4) \o X
    <3>1. /\ Prior(buf, q3) = Prior(buf, q4) \o ReadBytes(buf, q4, xl)
          /\ ReadBytes(buf, q4, xl) = SubSeq(buf, q4.pos + 1, q4.pos + xl)
      BY <1>2, <1>4, <1>5, <1>7, ReadSome
    <3>2. q4.pos + 1 = e.off + e.len + 3 /\ q4.pos + xl = e.off + e.len + 2 + e.extl
      BY <1>1, <1>2, <2>2, <2>4
    <3> QED BY <3>1, <3>2
  <2>11. Prior(buf, q) \in Seq(Number) /\ U24(cl) \in Seq(Number) /\ U16(xl) \in Seq(Number)
    BY <1>1, <1>2, PriorType, EncodingTypes
  <2> HIDE DEF D, X
  <2>12. IsText(Prior(buf, q)) /\ IsText(U24(cl)) /\ IsText(D) /\ IsText(U16(xl)) /\ IsText(X)
    BY <2>5, <2>11 DEF IsText
  <2>13. (((Prior(buf, q) \o U24(cl)) \o D) \o U16(xl)) \o X
           = Prior(buf, q) \o (((U24(cl) \o D) \o U16(xl)) \o X)
    <3>1. FiveTexts(Prior(buf, q), U24(cl), D, U16(xl), X)
      BY <2>12 DEF FiveTexts
    <3> QED BY SMTT(60), <3>1, FourPieces
  <2>14. Prior(buf, q3) = Prior(buf, q) \o EntryAt(buf, e)
    BY <2>6, <2>7, <2>8, <2>9, <2>10, <2>13
  <2> QED BY <2>3, <2>14
<1> QED BY <1>1, <1>2, <1>6, <1>7

LEMMA CertNextStep == ParseInv /\ CertNext /\ UNCHANGED helloVars => ParseInv'
<1> SUFFICES ASSUME ParseInv, CertNext, UNCHANGED helloVars PROVE ParseInv'
  OBVIOUS
<1>1. PICK cl : cl = ReadU(msg, r, 3)
  OBVIOUS
<1>2. PICK r1 : r1 = Skip(msg, r, 3)
  OBVIOUS
<1>3. PICK r2 : r2 = Skip(msg, r1, cl)
  OBVIOUS
<1>4. PICK xl : xl = ReadU(msg, r2, 2)
  OBVIOUS
<1>5. PICK r3 : r3 = EntryEnd(r2, xl) /\ r3 = Skip(msg, Skip(msg, r2, 2), xl)
  BY DEF EntryEnd
<1>6. PICK e : e = [off |-> r1.pos, len |-> cl, extl |-> xl]
  OBVIOUS
<1>7. /\ pc = "loop" /\ kind = "CERT" /\ ~r.err /\ Len(items) < MaxChain
      /\ r' = r3 /\ items' = Append(items, e)
      /\ path' = path /\ kind' = kind /\ msg' = msg /\ pc' = pc /\ ret' = ret
      /\ sniOffered' = sniOffered /\ extEnd' = extEnd
  BY <1>1, <1>2, <1>3, <1>4, <1>5, <1>6 DEF CertNext, CertTurn, CertRoom, helloVars
<1>8. /\ msg \in Seq(Byte) /\ Within(msg, r) /\ items \in Seq(CertItem) /\ CertRead
      /\ extEnd \in Nat /\ extEnd <= Len(msg) /\ path \in {"psk", "cert"}
  BY <1>7 DEF ParseInv, Placed, CertInv
<1>9. /\ Within(msg, r3) /\ e \in CertItem
      /\ ~r3.err => e \in CertItemIn(msg) /\ Prior(msg, r3) = Prior(msg, r) \o EntryAt(msg, e)
  <2>1. PICK buf \in Seq(Byte) : buf = msg
    BY <1>8
  <2>2. /\ Within(buf, r3) /\ cl \in Nat /\ xl \in Nat /\ r1.pos \in Nat
        /\ ~r3.err => /\ e \in CertItemIn(buf)
                      /\ Prior(buf, r3) = Prior(buf, r) \o EntryAt(buf, e)
    <3>1. Within(buf, r)
      BY <1>8, <2>1
    <3>2. EntryReads(buf, r, cl, r1, r2, xl, r3, e)
      BY <1>1, <1>2, <1>3, <1>4, <1>5, <1>6, <2>1 DEF EntryReads
    <3> QED BY <3>1, <3>2, ReadEntry
  <2> QED BY <1>6, <2>1, <2>2 DEF CertItem
<1>10. Placed'
  BY <1>7, <1>8, <1>9 DEF Placed
<1>11. items' \in Seq(CertItem) /\ Len(items') <= MaxChain
  BY <1>7, <1>8, <1>9, AppendProperties, LenProperties, FlightMsgsAssumption
<1>12. ASSUME ~r3.err PROVE CertRead'
  <2>1. items' \in Seq(CertItemIn(msg'))
    BY <1>7, <1>8, <1>9, <1>12, AppendProperties DEF CertRead
  <2> DEFINE h == <<0>> \o U24(Len(msg) - 4)
  <2>2. h \in Seq(Number)
    <3>1. <<0>> \in Seq(Number) /\ U24(Len(msg) - 4) \in Seq(Number)
      BY <1>8, EncodingTypes DEF CertRead
    <3> QED BY <3>1, ConcatProperties
  <2>3. Prior(msg, r) = h \o Entries(msg, items)
    BY <1>8 DEF CertRead
  <2>4. /\ Entries(msg, items) \in Seq(Number)
        /\ Entries(msg, items') = Entries(msg, items) \o EntryAt(msg, e)
    <3>1. msg \in Seq(Number) /\ items \in Seq(CertItemIn(msg)) /\ e \in CertItemIn(msg)
      BY <1>8, <1>9, <1>12, BytesAreNumbers DEF CertRead
    <3> QED BY <1>7, <3>1, EntriesAppend
  <2>5. EntryAt(msg, e) \in Seq(Number)
    <3>1. msg \in Seq(Number) /\ e \in CertItemIn(msg)
      BY <1>8, <1>9, <1>12, BytesAreNumbers
    <3> QED BY <3>1, EntryPieces, EntryType DEF EntryAt
  <2> HIDE DEF h
  <2>6. (h \o Entries(msg, items)) \o EntryAt(msg, e)
          = h \o (Entries(msg, items) \o EntryAt(msg, e))
    BY <2>2, <2>4, <2>5, Associates
  <2>7. Prior(msg, r') = h \o Entries(msg, items')
    BY <1>7, <1>9, <1>12, <2>3, <2>4, <2>6
  <2>8. (Prior(msg, r))' = Prior(msg, r')
    BY <1>7 DEF Prior
  <2>9. Len(msg) - 4 \in Nat
    BY <1>8 DEF CertRead
  <2>10. Entries(msg', items') = Entries(msg, items')
    BY <1>7
  <2> QED BY <1>7, <2>1, <2>7, <2>8, <2>9, <2>10 DEF CertRead, h
<1>13. CertInv'
  BY <1>7, <1>11, <1>12 DEF CertInv, Succeeded
<1> QED BY <1>7, <1>10, <1>13, OtherKinds DEF ParseInv

LEMMA LoopEndsStep == ParseInv /\ LoopEnds /\ UNCHANGED helloVars => ParseInv'
<1> SUFFICES ASSUME ParseInv, LoopEnds, UNCHANGED helloVars PROVE ParseInv'
  OBVIOUS
<1>1. /\ pc = "loop" /\ pc' = "done"
      /\ (kind = "EE" /\ r.pos >= Len(msg)) \/ (kind = "CERT" /\ ~CertTurn)
      /\ ret' = IF r.err THEN "E_DECODE" ELSE "SUCCESS"
      /\ path' = path /\ kind' = kind /\ msg' = msg /\ r' = r /\ items' = items
      /\ sniOffered' = sniOffered /\ extEnd' = extEnd
  BY DEF LoopEnds, helloVars
<1>2. /\ msg \in Seq(Byte) /\ Within(msg, r)
      /\ extEnd \in Nat /\ extEnd <= Len(msg) /\ path \in {"psk", "cert"}
      /\ r.pos \in Nat /\ r.pos <= Len(msg) /\ Len(msg) \in Nat
  <2>1. msg \in Seq(Byte) /\ Within(msg, r)
    BY DEF ParseInv, Placed
  <2> QED BY <1>1, <2>1, PriorType DEF ParseInv, Placed
<1>3. Placed'
  BY <1>1, <1>2 DEF Placed
<1>4. CASE kind = "EE"
  <2>1. items \in Seq(EeItem) /\ EeRead /\ r.pos = Len(msg)
    BY <1>1, <1>2, <1>4 DEF ParseInv, EeInv
  <2>2. EeRead'
    BY <1>1, <2>1 DEF EeRead, Prior, Allowed
  <2>3. EeInv'
    BY <1>1, <2>1, <2>2 DEF EeInv
  <2> QED BY <1>1, <1>3, <1>4, <2>3, OtherKinds DEF ParseInv
<1>5. CASE kind = "CERT"
  <2>1. items \in Seq(CertItem) /\ Len(items) <= MaxChain /\ (~r.err => CertRead)
    BY <1>1, <1>5 DEF ParseInv, CertInv
  <2>2. ASSUME ~r.err PROVE CertRead' /\ (r.pos = Len(msg) \/ Len(items) = MaxChain)
    <3>1. CertRead'
      BY <1>1, <2>1, <2>2 DEF CertRead, Prior
    <3>2. ~(r.pos < Len(msg)) \/ ~(Len(items) < MaxChain)
      BY <1>1, <1>5, <2>2 DEF CertTurn, CertRoom
    <3>3. MaxChain \in Nat /\ Len(items) \in Nat
      BY <2>1, LenProperties, FlightMsgsAssumption
    <3> QED BY <1>2, <2>1, <3>1, <3>2, <3>3
  <2>3. CertInv'
    BY <1>1, <2>1, <2>2 DEF CertInv, Succeeded
  <2> QED BY <1>1, <1>3, <1>5, <2>3, OtherKinds DEF ParseInv
<1> QED BY <1>1, <1>4, <1>5

LEMMA CvParseStep == ParseInv /\ CvParse /\ UNCHANGED helloVars => ParseInv'
<1> SUFFICES ASSUME ParseInv, CvParse, UNCHANGED helloVars PROVE ParseInv'
  OBVIOUS
<1> DEFINE r1 == Skip(msg, r, 2)
           n == ReadU(msg, r1, 2)
           r2 == Skip(msg, r1, 2)
           item == [type |-> ReadU(msg, r, 2), off |-> r2.pos, len |-> n]
<1>1. /\ pc = "start" /\ kind = "CV" /\ r' = r2 /\ pc' = "done"
      /\ ret' = IF r2.err \/ r2.pos + n # Len(msg) THEN "E_DECODE" ELSE "SUCCESS"
      /\ items' = <<item>>
      /\ path' = path /\ kind' = kind /\ msg' = msg
      /\ sniOffered' = sniOffered /\ extEnd' = extEnd
  BY DEF CvParse, helloVars
<1>2. /\ msg \in Seq(Byte) /\ Within(msg, r)
      /\ extEnd \in Nat /\ extEnd <= Len(msg) /\ path \in {"psk", "cert"}
  BY <1>1 DEF ParseInv, Placed
<1>3. Within(msg, r1)
  BY <1>2, SkipWithin
<1>4. Within(msg, r2)
  <2> HIDE DEF r1
  <2> QED BY <1>2, <1>3, SkipWithin
<1>5. Placed'
  <2> HIDE DEF r2, item
  <2> QED BY <1>1, <1>2, <1>4 DEF Placed
<1>6. CvInv'
  <2>1. ASSUME ret' = "SUCCESS", NEW i \in DOMAIN items'
        PROVE  items'[i].off + items'[i].len <= Len(msg)
    <3> HIDE DEF item, n, r2
    <3>1. items'[i] = item
      BY <1>1, <2>1
    <3>2. r2.pos + n = Len(msg)
      BY <1>1, <2>1
    <3>3. item.off = r2.pos /\ item.len = n
      BY DEF item
    <3> QED BY <1>2, <3>1, <3>2, <3>3, LenProperties
  <2> HIDE DEF item, n, r2
  <2> QED BY <1>1, <2>1 DEF CvInv, Succeeded
<1> QED BY <1>1, <1>5, <1>6, OtherKinds DEF ParseInv

-----------------------------------------------------------------------------
(***************************************************************************)
(* ServerHello.  The extensions come in some order, each type once.        *)
(***************************************************************************)
LEMMA OrderOfNone == <<>> \in SetToSeqs({})
<1>1. Cardinality({}) = 0
  BY FS_EmptySet
<1>2. <<>> \in [1 .. 0 -> {}] /\ 1 .. 0 = {}
  OBVIOUS
<1> QED BY <1>1, <1>2 DEF SetToSeqs

LEMMA OrderType ==
    ASSUME NEW S, IsFiniteSet(S), NEW order \in SetToSeqs(S)
    PROVE  /\ order \in Seq(S) /\ Len(order) = Cardinality(S) /\ Cardinality(S) \in Nat
           /\ \A j, k \in 1 .. Cardinality(S) : j # k => order[j] # order[k]
<1>1. Cardinality(S) \in Nat
  BY FS_CardinalityType
<1>2. /\ order \in [1 .. Cardinality(S) -> S]
      /\ \A j, k \in 1 .. Cardinality(S) : j # k => order[j] # order[k]
  BY DEF SetToSeqs
<1>3. PICK n \in Nat : n = Cardinality(S)
  BY <1>1
<1>4. order \in [1 .. n -> S]
  BY <1>2, <1>3
<1>5. order \in Seq(S) /\ Len(order) = n
  BY <1>4
<1> QED BY <1>1, <1>2, <1>3, <1>5

LEMMA OrderAppend ==
    ASSUME NEW S, IsFiniteSet(S), NEW order \in SetToSeqs(S), NEW t, t \notin S
    PROVE  Append(order, t) \in SetToSeqs(S \cup {t})
<1>1. PICK n \in Nat : n = Cardinality(S)
  BY FS_CardinalityType
<1>2. /\ order \in Seq(S) /\ Len(order) = n
      /\ \A j, k \in 1 .. n : j # k => order[j] # order[k]
  BY <1>1, OrderType
<1>3. Cardinality(S \cup {t}) = n + 1
  BY <1>1, FS_AddElement
<1>4. PICK R : R = S \cup {t}
  OBVIOUS
<1>5. order \in Seq(R) /\ t \in R
  BY <1>2, <1>4
<1>6. PICK q : q = Append(order, t)
  OBVIOUS
<1>7. /\ q \in Seq(R) /\ Len(q) = n + 1
      /\ \A i \in 1 .. n : q[i] = order[i] /\ order[i] \in S
      /\ q[n + 1] = t
  BY <1>2, <1>5, <1>6, AppendProperties, ElementOfSeq
<1>8. q \in [1 .. n + 1 -> R]
  BY <1>7
<1>9. ASSUME NEW j \in 1 .. n + 1, NEW k \in 1 .. n + 1, j # k
      PROVE  q[j] # q[k]
  <2>1. CASE j \in 1 .. n /\ k \in 1 .. n
    BY <1>2, <1>7, <1>9, <2>1
  <2>2. CASE j = n + 1
    <3>1. k \in 1 .. n
      BY <1>9, <2>2
    <3> QED BY <1>7, <2>2, <3>1
  <2>3. CASE k = n + 1
    <3>1. j \in 1 .. n
      BY <1>9, <2>3
    <3> QED BY <1>7, <2>3, <3>1
  <2>4. (j \in 1 .. n /\ k \in 1 .. n) \/ j = n + 1 \/ k = n + 1
    BY <1>9
  <2> QED BY <2>1, <2>2, <2>3, <2>4
<1> QED BY <1>3, <1>4, <1>6, <1>8, <1>9 DEF SetToSeqs

LEMMA KnownFinite ==
    ASSUME NEW S, S \subseteq Known
    PROVE  IsFiniteSet(S)
<1>1. Known \in SUBSET Nat /\ \A s \in Known : s <= 51
  BY DEF Known, KeyShare, SupportedVersions, PreShared
<1>2. IsFiniteSet(Known)
  BY <1>1, FS_BoundedSetOfNaturals
<1> QED BY <1>2, FS_Subset

(* What one extension holds, and the extensions in a row. *)
HasTypes(o, S) ==
    o \in Parsed /\ S \subseteq Known /\ (PreShared \in S => o.psk \in Nat)

Content(o, type) ==
    CASE type = KeyShare -> U16(o.group) \o U16(Len(o.share)) \o o.share
      [] type = SupportedVersions -> U16(o.version)
      [] type = PreShared -> U16(o.psk)

LEMMA ContentType ==
    ASSUME NEW o, NEW S, HasTypes(o, S), NEW t \in S
    PROVE  /\ IsText(Content(o, t)) /\ IsText(EncodeExt(o, t))
           /\ EncodeExt(o, t) = (U16(t) \o U16(Len(Content(o, t)))) \o Content(o, t)
<1>1. /\ o.group \in Nat /\ o.share \in Seq(Number) /\ o.version \in Nat
      /\ t \in Known /\ t \in Nat
      /\ t = PreShared => o.psk \in Nat
  BY DEF HasTypes, Parsed, Known, KeyShare, SupportedVersions, PreShared
<1>2. KeyShare # SupportedVersions /\ KeyShare # PreShared /\ SupportedVersions # PreShared
  BY DEF KeyShare, SupportedVersions, PreShared
<1>3. IsText(Content(o, t))
  <2>1. CASE t = KeyShare
    <3>1. /\ U16(o.group) \in Seq(Number) /\ U16(Len(o.share)) \in Seq(Number)
      BY <1>1, EncodingTypes, LenProperties
    <3>2. U16(o.group) \o U16(Len(o.share)) \in Seq(Number)
      BY <3>1, ConcatProperties
    <3>3. (U16(o.group) \o U16(Len(o.share))) \o o.share \in Seq(Number)
      BY <1>1, <3>2, ConcatProperties
    <3> QED BY <1>2, <2>1, <3>3 DEF Content, IsText
  <2>2. CASE t = SupportedVersions
    BY <1>1, <1>2, <2>2, EncodingTypes DEF Content, IsText
  <2>3. CASE t = PreShared
    BY <1>1, <1>2, <2>3, EncodingTypes DEF Content, IsText
  <2> QED BY <1>1, <2>1, <2>2, <2>3 DEF Known
<1>4. EncodeExt(o, t) = (U16(t) \o U16(Len(Content(o, t)))) \o Content(o, t)
  BY DEF EncodeExt, Extension, Content
<1>5. IsText((U16(t) \o U16(Len(Content(o, t)))) \o Content(o, t))
  <2>1. PICK c \in Seq(Number) : c = Content(o, t)
    BY <1>3 DEF IsText
  <2>2. U16(t) \in Seq(Number) /\ U16(Len(c)) \in Seq(Number)
    BY <1>1, EncodingTypes, LenProperties
  <2>3. U16(t) \o U16(Len(c)) \in Seq(Number)
    BY <2>2, ConcatProperties
  <2>4. (U16(t) \o U16(Len(c))) \o c \in Seq(Number)
    BY <2>3, ConcatProperties
  <2> QED BY <2>1, <2>4 DEF IsText
<1> QED BY <1>3, <1>4, <1>5

LEMMA HelloExtsAppend ==
    ASSUME NEW o, NEW S, NEW t, HasTypes(o, S \cup {t}), NEW order \in Seq(S)
    PROVE  /\ IsText(HelloExts(o, order))
           /\ HelloExts(o, Append(order, t)) = HelloExts(o, order) \o EncodeExt(o, t)
<1>1. PICK R : R = S \cup {t}
  OBVIOUS
<1>2. \A x \in R : EncodeExt(o, x) \in Seq(Number)
  BY <1>1, ContentType DEF IsText
<1>3. PICK f : MapsTo(f, R, Number) /\ \A x \in R : f[x] = EncodeExt(o, x)
  <2>1. [x \in R |-> EncodeExt(o, x)] \in [R -> Seq(Number)]
    BY <1>2
  <2>2. \A x \in R : [y \in R |-> EncodeExt(o, y)][x] = EncodeExt(o, x)
    OBVIOUS
  <2> QED BY <2>1, <2>2 DEF MapsTo
<1>4. order \in Seq(R) /\ t \in R
  BY <1>1
<1>5. Append(order, t) \in Seq(R)
  BY <1>4, AppendProperties
<1>6. ASSUME NEW q \in Seq(R)
      PROVE  HelloExts(o, q) = FlatMap(f, q)
  <2>1. \A i \in DOMAIN q : q[i] \in R
    BY ElementOfSeq, LenProperties
  <2>2. [i \in DOMAIN q |-> f[q[i]]] = [i \in DOMAIN q |-> EncodeExt(o, q[i])]
    BY <1>3, <2>1
  <2> QED BY <2>2 DEF HelloExts, FlatMap
<1>7. FlatMap(f, order) \in Seq(Number) /\ FlatMap(f, Append(order, t)) = FlatMap(f, order) \o f[t]
  BY <1>3, <1>4, FlatMapAppend
<1> QED BY <1>3, <1>4, <1>5, <1>6, <1>7 DEF IsText

LEMMA HelloExtsSame ==
    ASSUME NEW o, NEW p, NEW S, NEW order \in Seq(S),
           \A x \in S : EncodeExt(o, x) = EncodeExt(p, x)
    PROVE  HelloExts(o, order) = HelloExts(p, order)
<1>1. \A i \in DOMAIN order : order[i] \in S
  BY ElementOfSeq, LenProperties
<1>2. [i \in DOMAIN order |-> EncodeExt(o, order[i])]
        = [i \in DOMAIN order |-> EncodeExt(p, order[i])]
  BY <1>1
<1> QED BY <1>2 DEF HelloExts

(* What stands before the extensions. *)
Sized(x, n) == x \in Seq(Number) /\ Len(x) = n /\ n \in Nat
Joined(x, m, y, n) == Sized(x, m) /\ Sized(y, n)

LEMMA SizedConcat ==
    ASSUME NEW x, NEW m, NEW y, NEW n, Joined(x, m, y, n)
    PROVE  Sized(x \o y, m + n)
<1>1. /\ x \in Seq(Number) /\ Len(x) = m /\ m \in Nat
      /\ y \in Seq(Number) /\ Len(y) = n /\ n \in Nat
  BY DEF Joined, Sized
<1>2. x \o y \in Seq(Number) /\ Len(x \o y) = Len(x) + Len(y)
  BY <1>1, ConcatProperties
<1> QED BY <1>1, <1>2 DEF Sized

LEMMA RandomText ==
    ASSUME NEW m \in Seq(Byte), 6 + RandomSz <= Len(m)
    PROVE  IsText(Random(m)) /\ Len(Random(m)) = RandomSz
<1>1. RandomSz \in Nat /\ Len(m) \in Nat /\ m \in Seq(Number)
  BY ServerHelloAssumption, LenProperties, BytesAreNumbers
<1>2. 6 \in 0 .. Len(m) /\ 6 + RandomSz \in 6 .. Len(m) /\ (6 + RandomSz) - 6 = RandomSz
  BY <1>1
<1>3. SubSeq(m, 6 + 1, 6 + RandomSz) \in Seq(Number)
      /\ Len(SubSeq(m, 6 + 1, 6 + RandomSz)) = (6 + RandomSz) - 6
  BY <1>1, <1>2, SubSeqPiece
<1> QED BY <1>2, <1>3 DEF Random, IsText

LEMMA HelloBodyText ==
    ASSUME NEW m \in Seq(Byte), NEW t \in [type : Nat, hsLen : Nat, lver : Nat, comp : Nat],
           NEW o \in Parsed, NEW e, 6 + RandomSz <= Len(m), e - HeadSz(o) \in Nat
    PROVE  /\ IsText(HelloBody(m, t, o, e))
           /\ Len(HelloBody(m, t, o, e)) = HeadSz(o) - 4
<1> DEFINE a == U16(t.lver)
           b == Random(m)
           c == <<Len(o.sid)>>
           d == o.sid
           f == U16(o.cipher)
           g == <<t.comp>>
           h == U16(e - HeadSz(o))
<1>1. /\ a \in Seq(Number) /\ Len(a) = 2 /\ f \in Seq(Number) /\ Len(f) = 2
      /\ h \in Seq(Number) /\ Len(h) = 2
      /\ c \in Seq(Number) /\ Len(c) = 1 /\ g \in Seq(Number) /\ Len(g) = 1
  <2>1. t.lver \in Nat /\ t.comp \in Nat /\ o.cipher \in Nat /\ Len(o.sid) \in Nat
    BY LenProperties DEF Parsed
  <2> QED BY <2>1, EncodingTypes
<1>2. b \in Seq(Number) /\ Len(b) = RandomSz /\ RandomSz \in Nat
  <2>1. IsText(b) /\ Len(b) = RandomSz
    BY RandomText
  <2>2. RandomSz \in Nat
    BY ServerHelloAssumption
  <2> QED BY <2>1, <2>2 DEF IsText
<1>3. d \in Seq(Number) /\ Len(d) \in Nat
  BY LenProperties DEF Parsed
<1>4. HeadSz(o) = 12 + RandomSz + Len(d)
  BY DEF HeadSz
<1>5. HelloBody(m, t, o, e) = (((((a \o b) \o c) \o d) \o f) \o g) \o h
  BY DEF HelloBody
<1> HIDE DEF a, b, c, d, f, g, h
<1>6. /\ Sized(a, 2) /\ Sized(b, RandomSz) /\ Sized(c, 1) /\ Sized(d, Len(d))
      /\ Sized(f, 2) /\ Sized(g, 1) /\ Sized(h, 2)
  BY <1>1, <1>2, <1>3 DEF Sized
<1>7. PICK x1 : x1 = a \o b /\ Sized(x1, 2 + RandomSz)
  <2>1. Joined(a, 2, b, RandomSz)
    BY <1>6 DEF Joined
  <2>2. Sized(a \o b, (2) + RandomSz)
    BY <2>1, SizedConcat
  <2>3. (2) + RandomSz = 2 + RandomSz
    BY <1>2, <1>3
  <2> QED BY <2>2, <2>3
<1>8. PICK x2 : x2 = x1 \o c /\ Sized(x2, 3 + RandomSz)
  <2>1. Joined(x1, 2 + RandomSz, c, 1)
    BY <1>6, <1>7 DEF Joined
  <2>2. Sized(x1 \o c, (2 + RandomSz) + 1)
    BY <2>1, SizedConcat
  <2>3. (2 + RandomSz) + 1 = 3 + RandomSz
    BY <1>2, <1>3
  <2> QED BY <2>2, <2>3
<1>9. PICK x3 : x3 = x2 \o d /\ Sized(x3, 3 + RandomSz + Len(d))
  <2>1. Joined(x2, 3 + RandomSz, d, Len(d))
    BY <1>6, <1>8 DEF Joined
  <2>2. Sized(x2 \o d, (3 + RandomSz) + Len(d))
    BY <2>1, SizedConcat
  <2>3. (3 + RandomSz) + Len(d) = 3 + RandomSz + Len(d)
    BY <1>2, <1>3
  <2> QED BY <2>2, <2>3
<1>10. PICK x4 : x4 = x3 \o f /\ Sized(x4, 5 + RandomSz + Len(d))
  <2>1. Joined(x3, 3 + RandomSz + Len(d), f, 2)
    BY <1>6, <1>9 DEF Joined
  <2>2. Sized(x3 \o f, (3 + RandomSz + Len(d)) + 2)
    BY <2>1, SizedConcat
  <2>3. (3 + RandomSz + Len(d)) + 2 = 5 + RandomSz + Len(d)
    BY <1>2, <1>3
  <2> QED BY <2>2, <2>3
<1>11. PICK x5 : x5 = x4 \o g /\ Sized(x5, 6 + RandomSz + Len(d))
  <2>1. Joined(x4, 5 + RandomSz + Len(d), g, 1)
    BY <1>6, <1>10 DEF Joined
  <2>2. Sized(x4 \o g, (5 + RandomSz + Len(d)) + 1)
    BY <2>1, SizedConcat
  <2>3. (5 + RandomSz + Len(d)) + 1 = 6 + RandomSz + Len(d)
    BY <1>2, <1>3
  <2> QED BY <2>2, <2>3
<1>12. PICK x6 : x6 = x5 \o h /\ Sized(x6, 8 + RandomSz + Len(d))
  <2>1. Joined(x5, 6 + RandomSz + Len(d), h, 2)
    BY <1>6, <1>11 DEF Joined
  <2>2. Sized(x5 \o h, (6 + RandomSz + Len(d)) + 2)
    BY <2>1, SizedConcat
  <2>3. (6 + RandomSz + Len(d)) + 2 = 8 + RandomSz + Len(d)
    BY <1>2, <1>3
  <2> QED BY <2>2, <2>3
<1>13. 8 + RandomSz + Len(d) = HeadSz(o) - 4
  BY <1>2, <1>3, <1>4
<1> QED BY <1>5, <1>7, <1>8, <1>9, <1>10, <1>11, <1>12, <1>13 DEF Sized, IsText

(* What the three extensions have in common: the reader comes to body, behind
   what the fields of out' encode. *)
TakesFields(T) ==
    /\ out' \in Parsed /\ out'.hrr = out.hrr /\ out'.sid = out.sid /\ out'.cipher = out.cipher
    /\ \A x \in Known : x # T => EncodeExt(out', x) = EncodeExt(out, x)
    /\ IF T = PreShared THEN out'.psk \in Nat ELSE out'.psk = out.psk
    /\ T # SupportedVersions => out'.version = out.version

TakesExtension(T, body) ==
    /\ T \in Known /\ Within(msg, body)
    /\ InLoop /\ ExtType = T /\ ExtDone(T, body) /\ UNCHANGED <<sniOffered, items>>
    /\ TakesFields(T)
    /\ ~body.err => /\ ~AtBody.err
                    /\ Prior(msg, body) = Prior(msg, AtBody) \o Content(out', T)

LEMMA ExtensionHead ==
    ASSUME NEW buf \in Seq(Byte), buf = msg, Within(buf, r)
    PROVE  /\ Within(buf, AtLen) /\ Within(buf, AtBody) /\ ReadU(buf, AtLen, 2) \in Nat
           /\ ~AtBody.err =>
                Prior(buf, AtBody) = (Prior(buf, r) \o U16(ExtType)) \o U16(ReadU(buf, AtLen, 2))
<1>1. AtLen = Skip(buf, r, 2) /\ AtBody = Skip(buf, AtLen, 2) /\ ExtType = ReadU(buf, r, 2)
  BY DEF AtLen, AtBody, ExtType
<1>2. Within(buf, AtLen)
  BY <1>1, SkipWithin
<1>3. PICK q : q = AtLen
  OBVIOUS
<1>4. /\ Within(buf, Skip(buf, q, 2)) /\ ReadU(buf, q, 2) \in Nat
      /\ ~Skip(buf, q, 2).err => ~q.err
  BY <1>2, <1>3, SkipWithin, ReadUEncodes
<1>5. ~Skip(buf, q, 2).err => Prior(buf, Skip(buf, q, 2)) = Prior(buf, q) \o U16(ReadU(buf, q, 2))
  BY <1>2, <1>3, ReadNumber
<1>6. ~Skip(buf, r, 2).err => Prior(buf, Skip(buf, r, 2)) = Prior(buf, r) \o U16(ReadU(buf, r, 2))
  BY ReadNumber
<1> QED BY <1>1, <1>2, <1>3, <1>4, <1>5, <1>6

LEMMA ExtensionStep ==
    ASSUME ParseInv, NEW T, NEW body, TakesExtension(T, body)
    PROVE  ParseInv'
<1>1. /\ T \in Known /\ Within(msg, body) /\ pc = "exts" /\ r.pos < extEnd /\ ~r.err
      /\ ExtType = T
      /\ r' = [body EXCEPT !.err = @ \/ T \in seen \/ body.pos # ExtBodyEnd]
      /\ seen' = seen \cup {T}
      /\ path' = path /\ kind' = kind /\ msg' = msg /\ pc' = pc /\ top' = top
      /\ extEnd' = extEnd /\ ret' = ret /\ items' = items /\ sniOffered' = sniOffered
      /\ TakesFields(T)
  BY DEF TakesExtension, InLoop, ExtDone
<1>2. ~body.err => ~AtBody.err /\ Prior(msg, body) = Prior(msg, AtBody) \o Content(out', T)
  BY DEF TakesExtension
<1>3. /\ msg \in Seq(Byte) /\ Within(msg, r) /\ extEnd \in Nat /\ extEnd <= Len(msg)
      /\ kind = "SH" /\ path \in {"psk", "cert"}
  BY <1>1 DEF ParseInv, Placed
<1>4. /\ out \in Parsed /\ top \in [type : Nat, hsLen : Nat, lver : Nat, comp : Nat]
      /\ seen \subseteq Known /\ ~out.hrr /\ ret = "SUCCESS"
      /\ IF PreShared \in seen THEN out.psk \in Nat ELSE out.psk = -1
      /\ SupportedVersions \notin seen => out.version = 0
      /\ HelloRead
  BY <1>1, <1>3 DEF ParseInv, HelloInv
<1>5. /\ r' \in Reader /\ r'.pos = body.pos
      /\ ~r'.err => ~body.err /\ T \notin seen /\ body.pos = ExtBodyEnd
  <2>1. body = [pos |-> body.pos, err |-> body.err] /\ body.pos \in Nat /\ body.err \in BOOLEAN
    BY <1>1 DEF Within, Reader
  <2>2. r' = [pos |-> body.pos, err |-> body.err \/ T \in seen \/ body.pos # ExtBodyEnd]
    BY <1>1, <2>1
  <2> QED BY <2>1, <2>2 DEF Reader
<1>6. Placed'
  <2>1. Within(msg, r')
    BY <1>1, <1>5 DEF Within
  <2> QED BY <1>1, <1>3, <2>1 DEF Placed
<1>7. ASSUME ~r'.err PROVE HelloRead'
  <2>1. ~body.err /\ ~AtBody.err /\ T \notin seen /\ body.pos = ExtBodyEnd
    BY <1>2, <1>5, <1>7
  <2>2. PICK order \in SetToSeqs(seen) :
           Prior(msg, r) = <<top.type>> \o U24(top.hsLen)
                             \o (HelloBody(msg, top, out, extEnd) \o HelloExts(out, order))
    BY <1>4 DEF HelloRead
  <2>3. IsFiniteSet(seen) /\ order \in Seq(seen)
    BY <1>4, KnownFinite, OrderType
  <2>4. /\ HasTypes(out', seen \cup {T}) /\ HasTypes(out', seen')
        /\ \A x \in seen : EncodeExt(out', x) = EncodeExt(out, x)
    BY <1>1, <1>4, <2>1 DEF HasTypes, TakesFields
  <2> DEFINE C == Content(out', T)
             el == ReadU(msg, AtLen, 2)
             P == Prior(msg, r)
  <2>5. /\ IsText(C) /\ IsText(EncodeExt(out', T))
        /\ EncodeExt(out', T) = (U16(T) \o U16(Len(C))) \o C
    <3>1. T \in seen'
      BY <1>1
    <3> QED BY <2>4, <3>1, ContentType
  <2>6. /\ el \in Nat /\ Within(msg, AtBody)
        /\ Prior(msg, AtBody) = (P \o U16(T)) \o U16(el)
    BY <1>1, <1>3, <2>1, ExtensionHead
  <2>7. Len(C) = el
    <3>1. /\ Len(Prior(msg, body)) = body.pos /\ Len(Prior(msg, AtBody)) = AtBody.pos
          /\ Prior(msg, AtBody) \in Seq(Number) /\ AtBody.pos \in Nat
      BY <1>1, <1>3, <2>6, PriorType
    <3>2. C \in Seq(Number)
      BY <2>5 DEF IsText
    <3> HIDE DEF C, el
    <3>3. Len(Prior(msg, body)) = Len(Prior(msg, AtBody)) + Len(C) /\ Len(C) \in Nat
      BY <1>2, <2>1, <3>1, <3>2, ConcatProperties, LenProperties DEF C
    <3>4. body.pos = AtBody.pos + el
      BY <2>1 DEF ExtBodyEnd, el
    <3>5. el \in Nat
      BY <2>6
    <3>6. AtBody.pos + Len(C) = AtBody.pos + el
      BY <3>1, <3>3, <3>4
    <3> QED BY <3>1, <3>3, <3>5, <3>6
  <2>8. Prior(msg, body) = P \o EncodeExt(out', T)
    <3>1. IsText(P) /\ IsText(U16(T)) /\ IsText(U16(el))
      <4>1. T \in Nat
        BY <1>1 DEF Known, KeyShare, SupportedVersions, PreShared
      <4> QED BY <1>3, <2>6, <4>1, PriorType, EncodingTypes DEF IsText
    <3> HIDE DEF P, C, el
    <3>2. Prior(msg, body) = ((P \o U16(T)) \o U16(el)) \o C
      BY <1>2, <2>1, <2>6 DEF C
    <3>3. PICK a : a = U16(T)
      OBVIOUS
    <3>4. PICK b : b = U16(el)
      OBVIOUS
    <3>5. IsText(a \o b) /\ (P \o a) \o b = P \o (a \o b)
      BY <3>1, <3>3, <3>4, TextAssociates
    <3>6. PICK c : c = a \o b
      OBVIOUS
    <3>7. (P \o c) \o C = P \o (c \o C)
      BY SMTT(60), <2>5, <3>1, <3>5, <3>6, TextAssociates
    <3> QED BY <2>5, <2>7, <3>2, <3>3, <3>4, <3>5, <3>6, <3>7
  <2> DEFINE H == <<top.type>> \o U24(top.hsLen)
             B == HelloBody(msg, top, out, extEnd)
             X == HelloExts(out, order)
             E == EncodeExt(out', T)
  <2>9. /\ IsText(X) /\ HelloExts(out', order) = X
        /\ HelloExts(out', Append(order, T)) = X \o E
    <3>1. HelloExts(out', order) = HelloExts(out, order)
      BY <2>3, <2>4, HelloExtsSame
    <3>2. /\ IsText(HelloExts(out', order))
          /\ HelloExts(out', Append(order, T)) = HelloExts(out', order) \o EncodeExt(out', T)
      BY <2>3, <2>4, HelloExtsAppend
    <3> QED BY <3>1, <3>2
  <2>10. IsText(H)
    <3>1. <<top.type>> \in Seq(Number) /\ U24(top.hsLen) \in Seq(Number)
      BY <1>4, EncodingTypes
    <3> QED BY <3>1, ConcatProperties DEF IsText
  <2>11. IsText(B)
    BY <1>3, <1>4, HelloBodyText DEF HelloRead
  <2>12. (H \o (B \o X)) \o E = H \o (B \o (X \o E))
    <3> HIDE DEF H, B, X, E
    <3>1. IsText(B \o X) /\ (B \o X) \o E = B \o (X \o E)
      BY SMTT(60), <2>5, <2>9, <2>11, TextAssociates DEF E
    <3>2. PICK c : c = B \o X
      OBVIOUS
    <3>3. (H \o c) \o E = H \o (c \o E)
      BY SMTT(60), <2>5, <2>10, <3>1, <3>2, TextAssociates DEF E
    <3> QED BY <3>1, <3>2, <3>3
  <2>13. Prior(msg, r') = H \o (B \o HelloExts(out', Append(order, T)))
    <3>1. Prior(msg, r') = Prior(msg, body)
      BY <1>5 DEF Prior
    <3> HIDE DEF H, B, X, E
    <3>2. P = H \o (B \o X)
      BY <2>2 DEF H, B, X, P
    <3>3. Prior(msg, body) = P \o E
      BY <2>8 DEF E
    <3> QED BY <2>9, <2>12, <3>1, <3>2, <3>3
  <2>14. Append(order, T) \in SetToSeqs(seen')
    BY <1>1, <2>1, <2>3, OrderAppend
  <2>15. HeadSz(out') = HeadSz(out) /\ HelloBody(msg, top, out', extEnd) = B
    BY <1>1 DEF HeadSz, HelloBody, TakesFields
  <2>16. (Prior(msg, r))' = Prior(msg, r') /\ (Random(msg))' = Random(msg)
    BY <1>1 DEF Prior, Random
  <2>17. /\ 6 + RandomSz <= Len(msg) /\ extEnd - HeadSz(out') \in Nat
         /\ top.type = 2 => Random(msg) # HrrRandom
    BY <1>4, <2>15 DEF HelloRead
  <2>18. \E o \in SetToSeqs(seen') :
            Prior(msg, r') = H \o (HelloBody(msg, top, out', extEnd) \o HelloExts(out', o))
    <3> HIDE DEF H, B
    <3> QED BY <2>13, <2>14, <2>15
  <2> QED BY <1>1, <2>16, <2>17, <2>18 DEF HelloRead
<1>8. HelloInv'
  <2>1. /\ out' \in Parsed /\ ~out'.hrr /\ seen' \subseteq Known
        /\ IF PreShared \in seen' THEN out'.psk \in Nat ELSE out'.psk = -1
        /\ SupportedVersions \notin seen' => out'.version = 0
    BY <1>1, <1>4 DEF TakesFields
  <2> QED BY <1>1, <1>4, <1>7, <2>1 DEF HelloInv, Succeeded
<1> QED BY <1>1, <1>3, <1>6, <1>8, OtherKinds DEF ParseInv

LEMMA ReadBytesType ==
    ASSUME NEW buf \in Seq(Byte), NEW q, Within(buf, q), NEW n \in Nat
    PROVE  ReadBytes(buf, q, n) \in Seq(Number)
<1>1. CASE ~Skip(buf, q, n).err
  BY <1>1, ReadSome
<1>2. CASE Skip(buf, q, n).err
  <2>1. q.err \/ ~Fits(buf, q, n)
    BY <1>2 DEF Skip
  <2>2. ~Fits(buf, q, n)
    BY <2>1 DEF Fits
  <2> QED BY <2>2 DEF ReadBytes
<1> QED BY <1>1, <1>2

LEMMA KeyShareStep == ParseInv /\ ParseKeyShare /\ UNCHANGED <<sniOffered, items>> => ParseInv'
<1> SUFFICES ASSUME ParseInv, ParseKeyShare, UNCHANGED <<sniOffered, items>> PROVE ParseInv'
  OBVIOUS
<1>1. PICK r1 : r1 = Skip(msg, AtBody, 2)
  OBVIOUS
<1>2. PICK klen : klen = ReadU(msg, r1, 2)
  OBVIOUS
<1>3. PICK r2 : r2 = Skip(msg, r1, 2)
  OBVIOUS
<1>4. PICK body : body = Skip(msg, r2, klen)
  OBVIOUS
<1>5. PICK g : g = ReadU(msg, AtBody, 2)
  OBVIOUS
<1>6. PICK s : s = ReadBytes(msg, r2, klen)
  OBVIOUS
<1>7. /\ InLoop /\ ExtType = KeyShare /\ ExtDone(KeyShare, body)
      /\ out' = [out EXCEPT !.group = g, !.share = s]
  BY <1>1, <1>2, <1>3, <1>4, <1>5, <1>6 DEF ParseKeyShare
<1>8. /\ msg \in Seq(Byte) /\ Within(msg, r) /\ out \in Parsed
  <2>1. pc = "exts"
    BY <1>7 DEF InLoop
  <2>2. msg \in Seq(Byte) /\ Within(msg, r) /\ kind = "SH"
    BY <2>1 DEF ParseInv, Placed
  <2> QED BY <2>2 DEF ParseInv, HelloInv
<1>9. Within(msg, AtBody)
  BY <1>8, ExtensionHead
<1>10. Within(msg, r1) /\ g \in Nat /\ (~r1.err => ~AtBody.err)
  BY <1>1, <1>5, <1>8, <1>9, SkipWithin, ReadUEncodes
<1>11. Within(msg, r2) /\ klen \in Nat /\ (~r2.err => ~r1.err)
  BY <1>2, <1>3, <1>8, <1>10, SkipWithin, ReadUEncodes
<1>12. Within(msg, body) /\ (~body.err => ~r2.err)
  <2>1. klen \in Nat /\ Within(msg, r2)
    BY <1>11
  <2> QED BY <1>4, <1>8, <2>1, SkipWithin
<1>13. s \in Seq(Number)
  <2>1. klen \in Nat /\ Within(msg, r2)
    BY <1>11
  <2> QED BY <1>6, <1>8, <2>1, ReadBytesType
<1>14. /\ out' \in Parsed /\ out'.hrr = out.hrr /\ out'.sid = out.sid /\ out'.cipher = out.cipher
       /\ out'.psk = out.psk /\ out'.version = out.version
       /\ out'.group = g /\ out'.share = s
  BY <1>7, <1>8, <1>10, <1>13 DEF Parsed
<1>15. TakesFields(KeyShare)
  <2>1. KeyShare # PreShared /\ KeyShare # SupportedVersions
    BY DEF KeyShare, PreShared, SupportedVersions
  <2>2. ASSUME NEW x \in Known, x # KeyShare
        PROVE  EncodeExt(out', x) = EncodeExt(out, x)
    <3>1. x = SupportedVersions \/ x = PreShared
      BY <2>2 DEF Known
    <3>2. KeyShare # PreShared /\ KeyShare # SupportedVersions /\ PreShared # SupportedVersions
      BY DEF KeyShare, PreShared, SupportedVersions
    <3> QED BY <1>14, <3>1, <3>2 DEF EncodeExt
  <2> QED BY <1>14, <2>1, <2>2 DEF TakesFields
<1>16. ASSUME ~body.err
       PROVE  /\ ~AtBody.err
              /\ Prior(msg, body) = Prior(msg, AtBody) \o Content(out', KeyShare)
  <2>1. ~r2.err /\ ~r1.err /\ ~AtBody.err
    BY <1>10, <1>11, <1>12, <1>16
  <2>2. Prior(msg, r1) = Prior(msg, AtBody) \o U16(g)
    BY <1>1, <1>5, <1>8, <1>9, <2>1, ReadNumber
  <2>3. Prior(msg, r2) = Prior(msg, r1) \o U16(klen)
    BY <1>2, <1>3, <1>8, <1>10, <2>1, ReadNumber
  <2>4. Prior(msg, body) = Prior(msg, r2) \o s /\ Len(s) = klen
    <3>1. klen \in Nat /\ Within(msg, r2)
      BY <1>11
    <3> QED BY <1>4, <1>6, <1>8, <1>16, <3>1, ReadSome
  <2>5. Content(out', KeyShare) = (U16(g) \o U16(klen)) \o s
    <3>1. KeyShare # SupportedVersions /\ KeyShare # PreShared
      BY DEF KeyShare, SupportedVersions, PreShared
    <3>2. PICK o : o = out'
      OBVIOUS
    <3>3. Content(o, KeyShare) = (U16(o.group) \o U16(Len(o.share))) \o o.share
      BY <3>1 DEF Content
    <3> QED BY <1>14, <2>4, <3>2, <3>3
  <2>6. PICK p : p = Prior(msg, AtBody)
    OBVIOUS
  <2>7. PICK a : a = U16(g)
    OBVIOUS
  <2>8. PICK b : b = U16(klen)
    OBVIOUS
  <2>9. IsText(p) /\ IsText(a) /\ IsText(b) /\ IsText(s)
    BY <1>8, <1>9, <1>10, <1>11, <1>13, <2>6, <2>7, <2>8, PriorType, EncodingTypes DEF IsText
  <2>10. IsText(a \o b) /\ (p \o a) \o b = p \o (a \o b)
    BY <2>9, TextAssociates
  <2>11. PICK c : c = a \o b
    OBVIOUS
  <2>12. (p \o c) \o s = p \o (c \o s)
    BY <2>9, <2>10, <2>11, TextAssociates
  <2> QED BY <2>1, <2>2, <2>3, <2>4, <2>5, <2>6, <2>7, <2>8, <2>10, <2>11, <2>12
<1>17. TakesExtension(KeyShare, body)
  BY <1>7, <1>12, <1>15, <1>16 DEF TakesExtension, Known
<1> QED BY <1>17, ExtensionStep

LEMMA VersionStep == ParseInv /\ ParseVersion /\ UNCHANGED <<sniOffered, items>> => ParseInv'
<1> SUFFICES ASSUME ParseInv, ParseVersion, UNCHANGED <<sniOffered, items>> PROVE ParseInv'
  OBVIOUS
<1>1. PICK body : body = Skip(msg, AtBody, 2)
  OBVIOUS
<1>2. PICK v : v = ReadU(msg, AtBody, 2)
  OBVIOUS
<1>3. /\ InLoop /\ ExtType = SupportedVersions /\ ExtDone(SupportedVersions, body)
      /\ out' = [out EXCEPT !.version = v]
  BY <1>1, <1>2 DEF ParseVersion
<1>4. /\ msg \in Seq(Byte) /\ Within(msg, r) /\ out \in Parsed
  <2>1. pc = "exts"
    BY <1>3 DEF InLoop
  <2>2. msg \in Seq(Byte) /\ Within(msg, r) /\ kind = "SH"
    BY <2>1 DEF ParseInv, Placed
  <2> QED BY <2>2 DEF ParseInv, HelloInv
<1>5. Within(msg, AtBody)
  BY <1>4, ExtensionHead
<1>6. Within(msg, body) /\ v \in Nat /\ (~body.err => ~AtBody.err)
  BY <1>1, <1>2, <1>4, <1>5, SkipWithin, ReadUEncodes
<1>7. /\ out' \in Parsed /\ out'.hrr = out.hrr /\ out'.sid = out.sid /\ out'.cipher = out.cipher
      /\ out'.psk = out.psk /\ out'.version = v
      /\ out'.group = out.group /\ out'.share = out.share
  BY <1>3, <1>4, <1>6 DEF Parsed
<1>8. KeyShare # PreShared /\ KeyShare # SupportedVersions /\ PreShared # SupportedVersions
  BY DEF KeyShare, PreShared, SupportedVersions
<1>9. TakesFields(SupportedVersions)
  <2>1. ASSUME NEW x \in Known, x # SupportedVersions
        PROVE  EncodeExt(out', x) = EncodeExt(out, x)
    <3>1. x = KeyShare \/ x = PreShared
      BY <2>1 DEF Known
    <3> QED BY <1>7, <1>8, <3>1 DEF EncodeExt
  <2> QED BY <1>7, <1>8, <2>1 DEF TakesFields
<1>10. ASSUME ~body.err
       PROVE  /\ ~AtBody.err
              /\ Prior(msg, body) = Prior(msg, AtBody) \o Content(out', SupportedVersions)
  <2>1. Prior(msg, body) = Prior(msg, AtBody) \o U16(v)
    BY <1>1, <1>2, <1>4, <1>5, <1>10, ReadNumber
  <2>2. Content(out', SupportedVersions) = U16(v)
    BY <1>7, <1>8 DEF Content
  <2> QED BY <1>6, <1>10, <2>1, <2>2
<1>11. TakesExtension(SupportedVersions, body)
  BY <1>3, <1>6, <1>9, <1>10 DEF TakesExtension, Known
<1> QED BY <1>11, ExtensionStep

LEMMA PreSharedStep == ParseInv /\ ParsePreShared /\ UNCHANGED <<sniOffered, items>> => ParseInv'
<1> SUFFICES ASSUME ParseInv, ParsePreShared, UNCHANGED <<sniOffered, items>> PROVE ParseInv'
  OBVIOUS
<1>1. PICK body : body = Skip(msg, AtBody, 2)
  OBVIOUS
<1>2. PICK v : v = ReadU(msg, AtBody, 2)
  OBVIOUS
<1>3. /\ InLoop /\ ExtType = PreShared /\ ExtDone(PreShared, body)
      /\ out' = [out EXCEPT !.psk = v]
  BY <1>1, <1>2 DEF ParsePreShared
<1>4. /\ msg \in Seq(Byte) /\ Within(msg, r) /\ out \in Parsed
  <2>1. pc = "exts"
    BY <1>3 DEF InLoop
  <2>2. msg \in Seq(Byte) /\ Within(msg, r) /\ kind = "SH"
    BY <2>1 DEF ParseInv, Placed
  <2> QED BY <2>2 DEF ParseInv, HelloInv
<1>5. Within(msg, AtBody)
  BY <1>4, ExtensionHead
<1>6. Within(msg, body) /\ v \in Nat /\ (~body.err => ~AtBody.err)
  BY <1>1, <1>2, <1>4, <1>5, SkipWithin, ReadUEncodes
<1>7. /\ out' \in Parsed /\ out'.hrr = out.hrr /\ out'.sid = out.sid /\ out'.cipher = out.cipher
      /\ out'.psk = v /\ out'.version = out.version
      /\ out'.group = out.group /\ out'.share = out.share
  <2>1. v \in Int
    BY <1>6
  <2> QED BY <1>3, <1>4, <2>1 DEF Parsed
<1>8. KeyShare # PreShared /\ KeyShare # SupportedVersions /\ PreShared # SupportedVersions
  BY DEF KeyShare, PreShared, SupportedVersions
<1>9. TakesFields(PreShared)
  <2>1. ASSUME NEW x \in Known, x # PreShared
        PROVE  EncodeExt(out', x) = EncodeExt(out, x)
    <3>1. x = KeyShare \/ x = SupportedVersions
      BY <2>1 DEF Known
    <3> QED BY <1>7, <1>8, <3>1 DEF EncodeExt
  <2> QED BY <1>6, <1>7, <2>1 DEF TakesFields
<1>10. ASSUME ~body.err
       PROVE  /\ ~AtBody.err
              /\ Prior(msg, body) = Prior(msg, AtBody) \o Content(out', PreShared)
  <2>1. Prior(msg, body) = Prior(msg, AtBody) \o U16(v)
    BY <1>1, <1>2, <1>4, <1>5, <1>10, ReadNumber
  <2>2. Content(out', PreShared) = U16(v)
    BY <1>7, <1>8 DEF Content
  <2> QED BY <1>6, <1>10, <2>1, <2>2
<1>11. TakesExtension(PreShared, body)
  BY <1>3, <1>6, <1>9, <1>10 DEF TakesExtension, Known
<1> QED BY <1>11, ExtensionStep

LEMMA RefuseStep == ParseInv /\ RefuseExtension /\ UNCHANGED <<sniOffered, items>> => ParseInv'
<1> SUFFICES ASSUME ParseInv, RefuseExtension, UNCHANGED <<sniOffered, items>> PROVE ParseInv'
  OBVIOUS
<1>1. /\ pc = "exts" /\ r' = [AtBody EXCEPT !.err = TRUE]
      /\ path' = path /\ kind' = kind /\ msg' = msg /\ pc' = pc /\ out' = out /\ seen' = seen
      /\ top' = top /\ extEnd' = extEnd /\ ret' = ret
      /\ items' = items /\ sniOffered' = sniOffered
  BY DEF RefuseExtension, InLoop
<1>2. /\ msg \in Seq(Byte) /\ Within(msg, r) /\ extEnd \in Nat /\ extEnd <= Len(msg)
      /\ kind = "SH" /\ path \in {"psk", "cert"}
  BY <1>1 DEF ParseInv, Placed
<1>3. Within(msg, AtBody)
  BY <1>2, ExtensionHead
<1>4. Within(msg, r') /\ r'.err
  <2>1. AtBody = [pos |-> AtBody.pos, err |-> AtBody.err] /\ AtBody.pos \in Nat
        /\ AtBody.pos <= Len(msg)
    BY <1>3 DEF Within, Reader
  <2>2. r' = [pos |-> AtBody.pos, err |-> TRUE]
    BY <1>1, <2>1
  <2> QED BY <2>1, <2>2 DEF Within, Reader
<1>5. Placed'
  BY <1>1, <1>2, <1>4 DEF Placed
<1>6. HelloInv'
  BY <1>1, <1>2, <1>4 DEF ParseInv, HelloInv, Succeeded
<1> QED BY <1>1, <1>2, <1>5, <1>6, OtherKinds DEF ParseInv

(* The part before the extensions.  Each k bytes into the message. *)
LEMMA StandsAt ==
    ASSUME NEW buf \in Seq(Byte), NEW k \in Nat, NEW n \in Nat, k + n <= Len(buf)
    PROVE  /\ Within(buf, At(k)) /\ ~At(k).err /\ At(k).pos = k
           /\ Skip(buf, At(k), n) = At(k + n) /\ ~Skip(buf, At(k), n).err
<1>1. Len(buf) \in Nat /\ k <= Len(buf)
  BY LenProperties
<1>2. At(k) = [pos |-> k, err |-> FALSE] /\ At(k + n) = [pos |-> k + n, err |-> FALSE]
  BY DEF At
<1>3. Within(buf, At(k))
  BY <1>1, <1>2 DEF Within, Reader
<1>4. Fits(buf, At(k), n)
  BY <1>2 DEF Fits
<1>5. Skip(buf, At(k), n) = At(k + n)
  <2>1. PICK q : q = At(k)
    OBVIOUS
  <2>2. q = [pos |-> k, err |-> FALSE]
    BY <1>2, <2>1
  <2>3. Skip(buf, q, n) = [q EXCEPT !.pos = @ + n]
    BY <1>4, <2>1 DEF Skip
  <2>4. Skip(buf, q, n) = [pos |-> k + n, err |-> FALSE]
    BY <2>2, <2>3
  <2> QED BY <1>2, <2>1, <2>4
<1> QED BY <1>2, <1>3, <1>5

(* A number read is a number, behind the end too, where it is 0. *)
LEMMA ReadAtType ==
    ASSUME NEW buf \in Seq(Byte), NEW k \in Nat
    PROVE  /\ ReadU(buf, At(k), 1) \in Nat /\ ReadU(buf, At(k), 2) \in Nat
           /\ ReadU(buf, At(k), 3) \in Nat
<1>1. CASE k <= Len(buf)
  <2>1. Within(buf, At(k))
    BY <1>1 DEF At, Within, Reader
  <2> QED BY <2>1, ReadUEncodes
<1>2. CASE ~(k <= Len(buf))
  <2>1. Len(buf) \in Nat /\ At(k).pos = k
    BY LenProperties DEF At
  <2>2. ~Fits(buf, At(k), 1) /\ ~Fits(buf, At(k), 2) /\ ~Fits(buf, At(k), 3)
    BY <1>2, <2>1 DEF Fits
  <2> QED BY <2>2 DEF ReadU
<1> QED BY <1>1, <1>2

(* x is head and then y, in this order of putting it together. *)
Behind(head, x, y) == IsText(head) /\ IsText(y) /\ x = head \o y
BehindAnd(head, x, y, z) == Behind(head, x, y) /\ IsText(z)

LEMMA BehindStep ==
    ASSUME NEW head, NEW x, NEW y, NEW z, BehindAnd(head, x, y, z)
    PROVE  Behind(head, x \o z, y \o z)
<1>1. IsText(head) /\ IsText(y) /\ IsText(z) /\ x = head \o y
  BY DEF BehindAnd, Behind
<1>2. IsText(y \o z) /\ (head \o y) \o z = head \o (y \o z)
  BY <1>1, TextAssociates
<1> QED BY <1>1, <1>2 DEF Behind

LEMMA HeaderFront ==
    ASSUME NEW buf \in Seq(Byte), ~Skip(buf, ReaderInit, 6 + RandomSz).err
    PROVE  /\ 6 + RandomSz <= Len(buf)
           /\ Skip(buf, ReaderInit, 6 + RandomSz).pos = 6 + RandomSz
           /\ ReadBytes(buf, At(6), RandomSz) = Random(buf)
           /\ Behind(<<ReadU(buf, At(0), 1)>> \o U24(ReadU(buf, At(1), 3)),
                     Prior(buf, Skip(buf, ReaderInit, 6 + RandomSz)),
                     U16(ReadU(buf, At(4), 2)) \o Random(buf))
<1>1. RandomSz \in Nat /\ 6 + RandomSz \in Nat /\ Len(buf) \in Nat /\ ReaderInit = At(0)
  <2>1. RandomSz \in Nat
    BY ServerHelloAssumption
  <2>2. ReaderInit = At(0)
    BY DEF ReaderInit, At
  <2> QED BY <2>1, <2>2, LenProperties
<1>2. Within(buf, ReaderInit) /\ ReaderInit.pos = 0
  BY ReaderStarts DEF ReaderInit
<1>3. PICK n \in Nat : n = 6 + RandomSz
  BY <1>1
<1>4. 0 + n <= Len(buf) /\ Skip(buf, ReaderInit, n).pos = 0 + n
  <2>1. PICK q : q = ReaderInit
    OBVIOUS
  <2>2. q = [pos |-> 0, err |-> FALSE] /\ ~Skip(buf, q, n).err
    BY <1>3, <2>1 DEF ReaderInit
  <2>3. Fits(buf, q, n)
    <3>1. ~Fits(buf, q, n) => Skip(buf, q, n).err
      BY <2>2 DEF Skip
    <3> QED BY <2>2, <3>1
  <2>4. Skip(buf, q, n) = [pos |-> 0 + n, err |-> FALSE]
    BY <2>2, <2>3 DEF Skip
  <2> QED BY <2>1, <2>2, <2>3, <2>4 DEF Fits
<1>5. n <= Len(buf)
  BY <1>4
<1>6. /\ Within(buf, At(0)) /\ Within(buf, At(1)) /\ Within(buf, At(4)) /\ Within(buf, At(6))
      /\ Skip(buf, At(0), 1) = At(1) /\ Skip(buf, At(1), 3) = At(4)
      /\ Skip(buf, At(4), 2) = At(6) /\ Skip(buf, At(6), RandomSz) = At(n)
      /\ ~Skip(buf, At(0), 1).err /\ ~Skip(buf, At(1), 3).err
      /\ ~Skip(buf, At(4), 2).err /\ ~Skip(buf, At(6), RandomSz).err
      /\ Skip(buf, ReaderInit, n) = At(n) /\ At(6).pos = 6
  <2>1. 0 + 1 <= Len(buf) /\ 1 + 3 <= Len(buf) /\ 4 + 2 <= Len(buf) /\ 6 + RandomSz <= Len(buf)
        /\ 0 + 1 = 1 /\ 1 + 3 = 4 /\ 4 + 2 = 6 /\ 0 + n = n
    BY <1>1, <1>3, <1>5
  <2>2. /\ Within(buf, At(0)) /\ Skip(buf, At(0), 1) = At(1) /\ ~Skip(buf, At(0), 1).err
    BY <2>1, StandsAt
  <2>3. /\ Within(buf, At(1)) /\ Skip(buf, At(1), 3) = At(4) /\ ~Skip(buf, At(1), 3).err
    BY <2>1, StandsAt
  <2>4. /\ Within(buf, At(4)) /\ Skip(buf, At(4), 2) = At(6) /\ ~Skip(buf, At(4), 2).err
    BY <2>1, StandsAt
  <2>5. /\ Within(buf, At(6)) /\ Skip(buf, At(6), RandomSz) = At(n) /\ At(6).pos = 6
        /\ ~Skip(buf, At(6), RandomSz).err
    BY <1>1, <1>3, <2>1, StandsAt
  <2>6. Skip(buf, At(0), n) = At(n)
    BY <1>5, <2>1, StandsAt
  <2> QED BY <1>1, <2>2, <2>3, <2>4, <2>5, <2>6
<1>7. Prior(buf, At(0)) = <<>>
  <2>1. At(0).pos = 0
    BY DEF At
  <2>2. SubSeq(buf, 1, 0) = <<>>
    OBVIOUS
  <2> QED BY <2>1, <2>2 DEF Prior
<1>8. PICK t : t = ReadU(buf, At(0), 1)
  OBVIOUS
<1>9. PICK h : h = ReadU(buf, At(1), 3)
  OBVIOUS
<1>10. PICK l : l = ReadU(buf, At(4), 2)
  OBVIOUS
<1>11. t \in Nat /\ h \in Nat /\ l \in Nat
  BY <1>8, <1>9, <1>10, ReadAtType
<1>12. /\ IsText(<<t>>) /\ IsText(U24(h)) /\ IsText(U16(l))
  BY <1>11, EncodingTypes DEF IsText
<1>13. Prior(buf, At(1)) = <<t>>
  <2>1. Prior(buf, At(1)) = Prior(buf, At(0)) \o <<ReadU(buf, At(0), 1)>>
    BY <1>6, ReadNumber
  <2>2. <<>> \o <<t>> = <<t>>
    BY <1>12 DEF IsText
  <2> QED BY <1>7, <1>8, <2>1, <2>2
<1>14. Prior(buf, At(4)) = <<t>> \o U24(h)
  <2>1. Prior(buf, At(4)) = Prior(buf, At(1)) \o U24(ReadU(buf, At(1), 3))
    BY <1>6, ReadNumber
  <2> QED BY <1>9, <1>13, <2>1
<1>15. Prior(buf, At(6)) = (<<t>> \o U24(h)) \o U16(l)
  <2>1. Prior(buf, At(6)) = Prior(buf, At(4)) \o U16(ReadU(buf, At(4), 2))
    BY <1>6, ReadNumber
  <2> QED BY <1>10, <1>14, <2>1
<1>16. ReadBytes(buf, At(6), RandomSz) = Random(buf)
       /\ Prior(buf, At(n)) = Prior(buf, At(6)) \o Random(buf)
  <2>1. /\ ReadBytes(buf, At(6), RandomSz) = SubSeq(buf, At(6).pos + 1, At(6).pos + RandomSz)
        /\ Prior(buf, Skip(buf, At(6), RandomSz))
             = Prior(buf, At(6)) \o ReadBytes(buf, At(6), RandomSz)
    BY <1>1, <1>6, ReadSome
  <2>2. SubSeq(buf, At(6).pos + 1, At(6).pos + RandomSz) = Random(buf)
    <3>1. At(6).pos + 1 = 7
      BY <1>6
    <3> QED BY <1>6, <3>1 DEF Random
  <2> QED BY <1>6, <2>1, <2>2
<1>17. IsText(Random(buf))
  BY <1>3, <1>5, RandomText
<1>18. Behind(<<t>> \o U24(h), Prior(buf, At(n)), U16(l) \o Random(buf))
  <2>1. PICK z : z = Random(buf)
    OBVIOUS
  <2>2. PICK a : a = <<t>> \o U24(h)
    OBVIOUS
  <2>3. PICK b : b = U16(l)
    OBVIOUS
  <2>4. IsText(a)
    BY <1>12, <2>2, TextAssociates
  <2>5. BehindAnd(a, a \o b, b, z)
    BY <1>12, <1>17, <2>1, <2>3, <2>4 DEF BehindAnd, Behind
  <2>6. Behind(a, (a \o b) \o z, b \o z)
    BY <2>5, BehindStep
  <2> QED BY <1>15, <1>16, <2>1, <2>2, <2>3, <2>6
<1>19. Skip(buf, ReaderInit, 6 + RandomSz) = At(n) /\ At(n).pos = n
  BY <1>3, <1>6 DEF At
<1> QED BY <1>3, <1>5, <1>8, <1>9, <1>10, <1>16, <1>18, <1>19

(* session_id_echo, the suite, the compression and the extensions' length,
   behind what q has read. *)
HeaderReads(buf, q, sl, q1, q2, e) ==
    /\ Within(buf, q)
    /\ sl = ReadU(buf, q, 1) /\ q1 = Skip(buf, q, 1) /\ q2 = Skip(buf, q1, sl)
    /\ e = Skip(buf, q2, 5)

HeaderFound(buf, q, sl, q1, q2, e) ==
    /\ Within(buf, e) /\ sl \in Nat /\ ReadBytes(buf, q1, sl) \in Seq(Number)
    /\ ReadU(buf, q2, 2) \in Nat /\ ReadU(buf, Skip(buf, q2, 2), 1) \in Nat
    /\ ReadU(buf, Skip(buf, q2, 3), 2) \in Nat
    /\ ~e.err =>
         /\ ~q.err /\ Len(ReadBytes(buf, q1, sl)) = sl /\ e.pos = q.pos + sl + 6
         /\ Prior(buf, e) =
              ((((Prior(buf, q) \o <<sl>>) \o ReadBytes(buf, q1, sl))
                  \o U16(ReadU(buf, q2, 2))) \o <<ReadU(buf, Skip(buf, q2, 2), 1)>>)
                \o U16(ReadU(buf, Skip(buf, q2, 3), 2))

LEMMA HeaderRest ==
    ASSUME NEW buf \in Seq(Byte), NEW q, NEW sl, NEW q1, NEW q2, NEW e,
           HeaderReads(buf, q, sl, q1, q2, e)
    PROVE  HeaderFound(buf, q, sl, q1, q2, e)
<1>1. /\ Within(buf, q) /\ sl = ReadU(buf, q, 1) /\ q1 = Skip(buf, q, 1)
      /\ q2 = Skip(buf, q1, sl) /\ e = Skip(buf, q2, 5)
  BY DEF HeaderReads
<1>2. sl \in Nat
  BY <1>1, ReadUEncodes
<1>3. Within(buf, q1) /\ (~q1.err => ~q.err /\ q1.pos = q.pos + 1)
  BY <1>1, SkipWithin
<1>4. Within(buf, q2) /\ (~q2.err => ~q1.err /\ q2.pos = q1.pos + sl)
  BY ZenonT(60), <1>1, <1>2, <1>3, SkipWithin
<1>5. Within(buf, e) /\ (~e.err => ~q2.err /\ e.pos = q2.pos + 5)
  BY SMTT(60), <1>1, <1>4, SkipWithin
<1>6. ReadBytes(buf, q1, sl) \in Seq(Number)
  BY <1>2, <1>3, ReadBytesType
<1>7. PICK c2 : c2 = Skip(buf, q2, 2)
  OBVIOUS
<1>8. PICK c3 : c3 = Skip(buf, q2, 3)
  OBVIOUS
<1>9. Within(buf, c2) /\ Within(buf, c3)
  <2>1. Within(buf, Skip(buf, q2, 2))
    BY <1>4, SkipWithin
  <2>2. Within(buf, Skip(buf, q2, 3))
    BY <1>4, SkipWithin
  <2> QED BY <1>7, <1>8, <2>1, <2>2
<1>10. ReadU(buf, q2, 2) \in Nat /\ ReadU(buf, c2, 1) \in Nat /\ ReadU(buf, c3, 2) \in Nat
  BY <1>4, <1>9, ReadUEncodes
<1>11. ASSUME ~e.err
       PROVE  /\ ~q.err /\ Len(ReadBytes(buf, q1, sl)) = sl /\ e.pos = q.pos + sl + 6
              /\ Prior(buf, e) =
                   ((((Prior(buf, q) \o <<sl>>) \o ReadBytes(buf, q1, sl))
                       \o U16(ReadU(buf, q2, 2))) \o <<ReadU(buf, c2, 1)>>)
                     \o U16(ReadU(buf, c3, 2))
  <2>1. /\ ~q.err /\ ~q1.err /\ ~q2.err
        /\ q1.pos = q.pos + 1 /\ q2.pos = q1.pos + sl /\ e.pos = q2.pos + 5
    BY <1>3, <1>4, <1>5, <1>11
  <2>2. e.pos = q.pos + sl + 6
    <3>1. q.pos \in Nat
      BY <1>1, PriorType
    <3> QED BY <1>2, <2>1, <3>1
  <2>3. /\ Prior(buf, q2) = Prior(buf, q1) \o ReadBytes(buf, q1, sl)
        /\ Len(ReadBytes(buf, q1, sl)) = sl
    BY <1>1, <1>2, <1>3, <2>1, ReadSome
  <2>4. Prior(buf, q1) = Prior(buf, q) \o <<sl>>
    BY <1>1, <2>1, ReadNumber
  <2>5. e = Skip(buf, c3, 2) /\ ~c3.err
    <3>1. /\ Skip(buf, Skip(buf, q2, 3), 2).err = Skip(buf, q2, 3 + 2).err
          /\ (~Skip(buf, q2, 3 + 2).err => Skip(buf, Skip(buf, q2, 3), 2) = Skip(buf, q2, 3 + 2))
      BY <1>4, SkipTwice
    <3>2. e = Skip(buf, c3, 2)
      BY <1>1, <1>8, <1>11, <3>1
    <3> QED BY <1>9, <1>11, <3>2, SkipWithin
  <2>6. c3 = Skip(buf, c2, 1) /\ ~c2.err
    <3>1. /\ Skip(buf, Skip(buf, q2, 2), 1).err = Skip(buf, q2, 2 + 1).err
          /\ (~Skip(buf, q2, 2 + 1).err => Skip(buf, Skip(buf, q2, 2), 1) = Skip(buf, q2, 2 + 1))
      BY <1>4, SkipTwice
    <3>2. c3 = Skip(buf, c2, 1)
      BY <1>7, <1>8, <2>5, <3>1
    <3> QED BY <1>9, <2>5, <3>2, SkipWithin
  <2>7. Prior(buf, c2) = Prior(buf, q2) \o U16(ReadU(buf, q2, 2))
    BY <1>4, <1>7, <2>6, ReadNumber
  <2>8. Prior(buf, c3) = Prior(buf, c2) \o <<ReadU(buf, c2, 1)>>
    BY <1>9, <2>5, <2>6, ReadNumber
  <2>9. Prior(buf, e) = Prior(buf, c3) \o U16(ReadU(buf, c3, 2))
    BY <1>9, <1>11, <2>5, ReadNumber
  <2> QED BY <2>1, <2>2, <2>3, <2>4, <2>7, <2>8, <2>9
<1> QED BY <1>2, <1>5, <1>6, <1>7, <1>8, <1>10, <1>11 DEF HeaderFound

LEMMA RandomSize == RandomSz \in Nat
BY ServerHelloAssumption

LEMMA HeaderStep == ParseInv /\ ParseHeader /\ UNCHANGED <<sniOffered, items>> => ParseInv'
<1> SUFFICES ASSUME ParseInv, ParseHeader, UNCHANGED <<sniOffered, items>> PROVE ParseInv'
  OBVIOUS
<1>1. PICK q : q = Skip(msg, ReaderInit, 6 + RandomSz)
  OBVIOUS
<1>2. PICK sl : sl = ReadU(msg, q, 1)
  OBVIOUS
<1>3. PICK q1 : q1 = Skip(msg, q, 1)
  OBVIOUS
<1>4. PICK q2 : q2 = Skip(msg, q1, sl)
  OBVIOUS
<1>5. PICK e : e = Skip(msg, q2, 5)
  OBVIOUS
<1>6. PICK cs : cs = ReadU(msg, q2, 2)
  OBVIOUS
<1>7. PICK cm : cm = ReadU(msg, Skip(msg, q2, 2), 1)
  OBVIOUS
<1>8. PICK el : el = ReadU(msg, Skip(msg, q2, 3), 2)
  OBVIOUS
<1>9. PICK sd : sd = ReadBytes(msg, q1, sl)
  OBVIOUS
<1>10. PICK ty : ty = ReadU(msg, At(0), 1)
  OBVIOUS
<1>11. PICK hl : hl = ReadU(msg, At(1), 3)
  OBVIOUS
<1>12. PICK lv : lv = ReadU(msg, At(4), 2)
  OBVIOUS
<1> DEFINE isHrr == ~q.err /\ ty = 2 /\ ReadBytes(msg, At(6), RandomSz) = HrrRandom
<1>13. /\ pc = "header" /\ path' = path /\ kind' = kind /\ msg' = msg /\ seen' = seen
       /\ ret' = ret /\ items' = items
       /\ top' = [type |-> ty, hsLen |-> hl, lver |-> lv, comp |-> cm]
       /\ isHrr => /\ out' = [out EXCEPT !.hrr = TRUE] /\ r' = q /\ pc' = "driver"
                   /\ extEnd' = extEnd
       /\ ~isHrr => /\ out' = [out EXCEPT !.sid = sd, !.cipher = cs] /\ pc' = "exts"
                    /\ r' = [e EXCEPT !.err = @ \/ e.pos + el > Len(msg)]
                    /\ extEnd' = BoundedEnd(e.pos + el)
  BY <1>1, <1>2, <1>3, <1>4, <1>5, <1>6, <1>7, <1>8, <1>9, <1>10, <1>11, <1>12 DEF ParseHeader
<1> HIDE DEF isHrr
<1>14. /\ msg \in Seq(Byte) /\ kind = "SH" /\ path \in {"psk", "cert"}
       /\ extEnd \in Nat /\ extEnd <= Len(msg) /\ Len(msg) \in Nat
  BY <1>13, LenProperties DEF ParseInv, Placed
<1>15. out = Nothing /\ seen = {} /\ ret = "SUCCESS"
  BY <1>13, <1>14 DEF ParseInv, HelloInv
<1>16. Within(msg, q)
  <2>1. RandomSz \in Nat
    BY RandomSize
  <2>2. PICK n \in Nat : n = 6 + RandomSz
    BY <2>1
  <2>3. Within(msg, ReaderInit)
    BY <1>14, ReaderStarts
  <2>4. Within(msg, Skip(msg, ReaderInit, n))
    BY <1>14, <2>3, SkipWithin
  <2> QED BY <1>1, <2>2, <2>4
<1>17. HeaderReads(msg, q, sl, q1, q2, e)
  BY <1>2, <1>3, <1>4, <1>5, <1>16 DEF HeaderReads
<1>18. /\ Within(msg, e) /\ sl \in Nat /\ sd \in Seq(Number)
       /\ cs \in Nat /\ cm \in Nat /\ el \in Nat
       /\ ~e.err =>
             /\ ~q.err /\ Len(sd) = sl /\ e.pos = q.pos + sl + 6
             /\ Prior(msg, e) =
                  ((((Prior(msg, q) \o <<sl>>) \o sd) \o U16(cs)) \o <<cm>>) \o U16(el)
  <2>1. HeaderFound(msg, q, sl, q1, q2, e)
    BY <1>14, <1>17, HeaderRest
  <2> QED BY <1>6, <1>7, <1>8, <1>9, <2>1 DEF HeaderFound
<1>19. ty \in Nat /\ hl \in Nat /\ lv \in Nat
  BY <1>10, <1>11, <1>12, <1>14, ReadAtType
<1>20. top' \in [type : Nat, hsLen : Nat, lver : Nat, comp : Nat]
       /\ top'.type = ty /\ top'.hsLen = hl /\ top'.lver = lv /\ top'.comp = cm
  BY <1>13, <1>18, <1>19
<1>21. CASE isHrr
  <2>1. out' \in Parsed /\ out'.hrr /\ out'.psk = -1 /\ out'.version = 0
    <3>1. out' = [hrr |-> TRUE, sid |-> <<>>, cipher |-> 0, group |-> 0,
                  share |-> <<>>, version |-> 0, psk |-> -1]
      BY <1>13, <1>15, <1>21 DEF Nothing
    <3> QED BY <3>1 DEF Parsed
  <2>2. Placed'
    BY <1>13, <1>14, <1>16, <1>21 DEF Placed
  <2>3. HelloInv'
    BY <1>13, <1>15, <1>20, <1>21, <2>1 DEF HelloInv, Succeeded
  <2> QED BY <1>13, <1>14, <2>2, <2>3, OtherKinds DEF ParseInv
<1>22. CASE ~isHrr
  <2>1. /\ out' \in Parsed /\ ~out'.hrr /\ out'.psk = -1 /\ out'.version = 0
        /\ out'.sid = sd /\ out'.cipher = cs
    <3>1. out' = [hrr |-> FALSE, sid |-> sd, cipher |-> cs, group |-> 0,
                  share |-> <<>>, version |-> 0, psk |-> -1]
      BY <1>13, <1>15, <1>22 DEF Nothing
    <3> QED BY <1>18, <3>1 DEF Parsed
  <2>2. /\ Within(msg, r') /\ r'.pos = e.pos /\ e.pos \in Nat
        /\ ~r'.err => ~e.err /\ e.pos + el <= Len(msg)
    <3>1. e = [pos |-> e.pos, err |-> e.err] /\ e.pos \in Nat /\ e.err \in BOOLEAN
          /\ e.pos <= Len(msg)
      BY <1>18 DEF Within, Reader
    <3>2. r' = [pos |-> e.pos, err |-> e.err \/ e.pos + el > Len(msg)]
      BY <1>13, <1>22, <3>1
    <3>3. (e.err \/ e.pos + el > Len(msg)) \in BOOLEAN
      BY <3>1
    <3>4. ~(e.pos + el > Len(msg)) => e.pos + el <= Len(msg)
      BY <1>14, <1>18, <3>1
    <3> QED BY <3>1, <3>2, <3>3, <3>4 DEF Within, Reader
  <2>3. /\ extEnd' \in Nat /\ extEnd' <= Len(msg)
        /\ e.pos + el <= Len(msg) => extEnd' = e.pos + el
    BY <1>13, <1>14, <1>18, <1>22, <2>2 DEF BoundedEnd
  <2>4. Placed'
    BY <1>13, <1>14, <1>22, <2>2, <2>3 DEF Placed
  <2>5. ASSUME ~r'.err PROVE HelloRead'
    <3>1. ~e.err /\ e.pos + el <= Len(msg) /\ extEnd' = e.pos + el
      BY <2>2, <2>3, <2>5
    <3>2. /\ ~q.err /\ Len(sd) = sl /\ e.pos = q.pos + sl + 6
          /\ Prior(msg, e) =
               ((((Prior(msg, q) \o <<sl>>) \o sd) \o U16(cs)) \o <<cm>>) \o U16(el)
      BY <1>18, <3>1
    <3>3. /\ 6 + RandomSz <= Len(msg) /\ q.pos = 6 + RandomSz
          /\ ReadBytes(msg, At(6), RandomSz) = Random(msg)
          /\ Behind(<<ty>> \o U24(hl), Prior(msg, q), U16(lv) \o Random(msg))
      BY <1>1, <1>10, <1>11, <1>12, <1>14, <3>2, HeaderFront
    <3>4. ty = 2 => Random(msg) # HrrRandom
      BY <1>22, <3>2, <3>3 DEF isHrr
    <3>5. HeadSz(out') = e.pos /\ extEnd' - HeadSz(out') = el
      <4>1. HeadSz(out') = 12 + RandomSz + sl
        BY <2>1, <3>2 DEF HeadSz
      <4>2. RandomSz \in Nat
        BY RandomSize
      <4>3. e.pos = 12 + RandomSz + sl
        BY <1>18, <3>2, <3>3, <4>2
      <4> QED BY <1>18, <2>2, <3>1, <4>1, <4>3
    <3>6. /\ IsText(<<sl>>) /\ IsText(sd) /\ IsText(U16(cs)) /\ IsText(<<cm>>)
          /\ IsText(U16(el))
      BY <1>18, EncodingTypes DEF IsText
    <3>7. PICK h : h = <<ty>> \o U24(hl)
      OBVIOUS
    <3>8. PICK x0 : x0 = Prior(msg, q)
      OBVIOUS
    <3>9. PICK y0 : y0 = U16(lv) \o Random(msg)
      OBVIOUS
    <3>10. PICK c : c = <<sl>>
      OBVIOUS
    <3>11. PICK f : f = U16(cs)
      OBVIOUS
    <3>12. PICK g : g = <<cm>>
      OBVIOUS
    <3>13. PICK z : z = U16(el)
      OBVIOUS
    <3>14. Behind(h, x0, y0)
      BY <3>3, <3>7, <3>8, <3>9
    <3>15. Behind(h, x0 \o c, y0 \o c)
      <4>1. BehindAnd(h, x0, y0, c)
        BY <3>6, <3>10, <3>14 DEF BehindAnd
      <4> QED BY <4>1, BehindStep
    <3>16. Behind(h, (x0 \o c) \o sd, (y0 \o c) \o sd)
      <4>1. BehindAnd(h, x0 \o c, y0 \o c, sd)
        BY <3>6, <3>15 DEF BehindAnd
      <4> QED BY <4>1, BehindStep
    <3>17. Behind(h, ((x0 \o c) \o sd) \o f, ((y0 \o c) \o sd) \o f)
      <4>1. BehindAnd(h, (x0 \o c) \o sd, (y0 \o c) \o sd, f)
        BY <3>6, <3>11, <3>16 DEF BehindAnd
      <4> QED BY <4>1, BehindStep
    <3>18. Behind(h, (((x0 \o c) \o sd) \o f) \o g, (((y0 \o c) \o sd) \o f) \o g)
      <4>1. BehindAnd(h, ((x0 \o c) \o sd) \o f, ((y0 \o c) \o sd) \o f, g)
        BY <3>6, <3>12, <3>17 DEF BehindAnd
      <4> QED BY <4>1, BehindStep
    <3>19. Behind(h, ((((x0 \o c) \o sd) \o f) \o g) \o z, ((((y0 \o c) \o sd) \o f) \o g) \o z)
      <4>1. BehindAnd(h, (((x0 \o c) \o sd) \o f) \o g, (((y0 \o c) \o sd) \o f) \o g, z)
        BY <3>6, <3>13, <3>18 DEF BehindAnd
      <4> QED BY <4>1, BehindStep
    <3>20. PICK b : b = ((((y0 \o c) \o sd) \o f) \o g) \o z
      OBVIOUS
    <3>21. Prior(msg, e) = h \o b /\ IsText(b)
      BY <3>2, <3>8, <3>10, <3>11, <3>12, <3>13, <3>19, <3>20 DEF Behind
    <3>22. HelloBody(msg, top', out', extEnd') = b
      <4>1. Len(out'.sid) = sl
        BY <2>1, <3>2
      <4>2. HelloBody(msg, top', out', extEnd')
              = (((((U16(top'.lver) \o Random(msg)) \o <<Len(out'.sid)>>) \o out'.sid)
                   \o U16(out'.cipher)) \o <<top'.comp>>) \o U16(extEnd' - HeadSz(out'))
        BY DEF HelloBody
      <4> QED BY <1>20, <2>1, <3>5, <3>9, <3>10, <3>11, <3>12, <3>13, <3>20, <4>1, <4>2
    <3>23. HelloExts(out', <<>>) = <<>> /\ b \o <<>> = b
      <4>1. [i \in DOMAIN <<>> |-> EncodeExt(out', (<<>>)[i])] = <<>>
        OBVIOUS
      <4>2. FlattenSeq(<<>>) = <<>>
        BY FlattenEmpty
      <4>3. b \o <<>> = b
        BY <3>21, ConcatEmptySeq DEF IsText
      <4> QED BY <4>1, <4>2, <4>3 DEF HelloExts
    <3>24. (Prior(msg, r))' = Prior(msg, e) /\ (Random(msg))' = Random(msg)
      BY <1>13, <2>2 DEF Prior, Random
    <3>25. <<>> \in SetToSeqs(seen')
      BY <1>13, <1>15, OrderOfNone
    <3>26. (Prior(msg, r))' = <<top'.type>> \o U24(top'.hsLen)
                 \o (HelloBody(msg, top', out', extEnd') \o HelloExts(out', <<>>))
      BY <1>20, <3>7, <3>21, <3>22, <3>23, <3>24
    <3>27. \E order \in SetToSeqs(seen') :
              (Prior(msg, r))' = <<top'.type>> \o U24(top'.hsLen)
                 \o (HelloBody(msg, top', out', extEnd') \o HelloExts(out', order))
      BY <3>25, <3>26
    <3>28. extEnd' - HeadSz(out') \in Nat /\ (top'.type = 2 => Random(msg) # HrrRandom)
      BY <1>18, <1>20, <3>4, <3>5
    <3> QED BY <1>13, <3>3, <3>24, <3>27, <3>28 DEF HelloRead
  <2>6. HelloInv'
    BY <1>13, <1>15, <1>20, <1>22, <2>1, <2>5 DEF HelloInv, Succeeded
  <2> QED BY <1>13, <1>14, <2>4, <2>6, OtherKinds DEF ParseInv
<1> QED BY <1>21, <1>22

LEMMA HelloExtsText ==
    ASSUME NEW o, NEW S, HasTypes(o, S), NEW order \in Seq(S)
    PROVE  IsText(HelloExts(o, order))
<1>1. HasTypes(o, S \cup {KeyShare})
  BY DEF HasTypes, Known, KeyShare, PreShared
<1> QED BY <1>1, HelloExtsAppend

LEMMA ParseEndStep == ParseInv /\ ParseEnd /\ UNCHANGED <<sniOffered, items>> => ParseInv'
<1> SUFFICES ASSUME ParseInv, ParseEnd, UNCHANGED <<sniOffered, items>> PROVE ParseInv'
  OBVIOUS
<1>1. /\ pc = "exts" /\ ~InLoop /\ pc' = "driver"
      /\ ret' = "SUCCESS" => /\ ~r.err /\ top.type = 2 /\ top.hsLen = Len(msg) - 4
                             /\ top.lver = Legacy /\ top.comp = 0 /\ extEnd = Len(msg)
      /\ path' = path /\ kind' = kind /\ msg' = msg /\ r' = r /\ out' = out /\ seen' = seen
      /\ top' = top /\ extEnd' = extEnd /\ items' = items
  BY DEF ParseEnd
<1>2. /\ msg \in Seq(Byte) /\ Within(msg, r) /\ extEnd \in Nat /\ extEnd <= Len(msg)
      /\ kind = "SH" /\ path \in {"psk", "cert"} /\ Len(msg) \in Nat
  BY <1>1, LenProperties DEF ParseInv, Placed
<1>3. /\ out \in Parsed /\ top \in [type : Nat, hsLen : Nat, lver : Nat, comp : Nat]
      /\ seen \subseteq Known /\ ~out.hrr
      /\ IF PreShared \in seen THEN out.psk \in Nat ELSE out.psk = -1
      /\ SupportedVersions \notin seen => out.version = 0
      /\ ~r.err => HelloRead
  BY <1>1, <1>2 DEF ParseInv, HelloInv
<1>4. Placed'
  BY <1>1, <1>2 DEF Placed
<1>5. ASSUME ret' = "SUCCESS"
      PROVE  /\ 6 + RandomSz <= Len(msg) /\ Random(msg) # HrrRandom
             /\ \E order \in SetToSeqs(seen) : msg = Encode(out, Random(msg), order)
  <2>1. /\ ~r.err /\ top.type = 2 /\ top.hsLen = Len(msg) - 4
        /\ top.lver = Legacy /\ top.comp = 0 /\ extEnd = Len(msg)
    BY <1>1, <1>5
  <2>2. /\ 6 + RandomSz <= Len(msg) /\ Random(msg) # HrrRandom /\ extEnd - HeadSz(out) \in Nat
    BY <1>3, <2>1 DEF HelloRead
  <2>3. PICK order \in SetToSeqs(seen) :
           Prior(msg, r) = <<top.type>> \o U24(top.hsLen)
                             \o (HelloBody(msg, top, out, extEnd) \o HelloExts(out, order))
    BY <1>3, <2>1 DEF HelloRead
  <2>4. Prior(msg, r) = msg
    <3>1. ~(r.pos < extEnd)
      BY <1>1, <2>1 DEF InLoop
    <3>2. r.pos \in Nat /\ r.pos <= Len(msg)
      BY <1>2 DEF Within, Reader
    <3>3. r.pos = Len(msg)
      BY <1>2, <2>1, <3>1, <3>2
    <3> QED BY <1>2, <3>3, SubSeqFull DEF Prior
  <2>5. PICK b : b = HelloBody(msg, top, out, extEnd)
    OBVIOUS
  <2>6. PICK x : x = HelloExts(out, order)
    OBVIOUS
  <2>7. PICK n : n = HeadSz(out)
    OBVIOUS
  <2>8. b \in Seq(Number) /\ Len(b) = n - 4 /\ x \in Seq(Number) /\ n \in Nat
    <3>1. IsText(b) /\ Len(b) = HeadSz(out) - 4
      BY <1>2, <1>3, <2>2, <2>5, HelloBodyText
    <3>2. IsText(x)
      <4>1. order \in Seq(seen) /\ HasTypes(out, seen)
        BY <1>3, KnownFinite, OrderType DEF HasTypes
      <4> QED BY <2>6, <4>1, HelloExtsText
    <3>3. HeadSz(out) \in Nat
      <4>1. PICK k \in Nat : k = Len(out.sid)
        BY <1>3, LenProperties DEF Parsed
      <4>2. HeadSz(out) = 12 + RandomSz + k
        BY <4>1 DEF HeadSz
      <4> QED BY <4>2, RandomSize
    <3> QED BY <2>7, <3>1, <3>2, <3>3 DEF IsText
  <2>9. PICK h : h = <<top.type>> \o U24(top.hsLen)
    OBVIOUS
  <2>10. h \in Seq(Number) /\ Len(h) = 4
    <3>1. /\ <<top.type>> \in Seq(Number) /\ Len(<<top.type>>) = 1
          /\ U24(top.hsLen) \in Seq(Number) /\ Len(U24(top.hsLen)) = 3
      BY <1>3, EncodingTypes
    <3>2. /\ <<top.type>> \o U24(top.hsLen) \in Seq(Number)
          /\ Len(<<top.type>> \o U24(top.hsLen)) = Len(<<top.type>>) + Len(U24(top.hsLen))
      BY <3>1, ConcatProperties
    <3> QED BY <2>9, <3>1, <3>2
  <2>11. msg = h \o (b \o x)
    BY <2>3, <2>4, <2>5, <2>6, <2>9
  <2>12. Len(b \o x) = Len(msg) - 4 /\ Len(x) = Len(msg) - n
    <3>1. b \o x \in Seq(Number) /\ Len(b \o x) = Len(b) + Len(x)
      BY <2>8, ConcatProperties
    <3>2. PICK y : y = b \o x
      OBVIOUS
    <3>3. Len(h \o y) = Len(h) + Len(y)
      BY <2>10, <3>1, <3>2, ConcatProperties
    <3>4. Len(x) \in Nat /\ Len(b) \in Nat
      BY <2>8, LenProperties
    <3>5. Len(msg) = 4 + ((n - 4) + Len(x))
      BY <2>8, <2>10, <2>11, <3>1, <3>2, <3>3
    <3> QED BY <1>2, <2>8, <3>1, <3>4, <3>5
  <2>13. b = ((((((U16(Legacy) \o Random(msg)) \o <<Len(out.sid)>>) \o out.sid)
                  \o U16(out.cipher)) \o <<0>>) \o U16(Len(x)))
    <3>1. extEnd - HeadSz(out) = Len(x)
      BY <2>1, <2>7, <2>12
    <3> QED BY <2>1, <2>5, <3>1 DEF HelloBody
  <2>14. Encode(out, Random(msg), order) = (<<2>> \o U24(Len(b \o x))) \o (b \o x)
    <3>1. x = FlattenSeq([i \in DOMAIN order |-> EncodeExt(out, order[i])])
      BY <2>6 DEF HelloExts
    <3> QED BY <2>13, <3>1 DEF Encode
  <2>15. h = <<2>> \o U24(Len(b \o x))
    BY <2>1, <2>9, <2>12
  <2>16. msg = Encode(out, Random(msg), order)
    BY <2>11, <2>14, <2>15
  <2> QED BY <2>2, <2>16
<1>6. HelloInv'
  <2>1. (Random(msg))' = Random(msg)
    BY <1>1 DEF Random
  <2>2. ret' = "SUCCESS" =>
          /\ 6 + RandomSz <= Len(msg') /\ (Random(msg))' # HrrRandom
          /\ \E order \in SetToSeqs(seen') : msg' = Encode(out', (Random(msg))', order)
    BY <1>1, <1>5, <2>1
  <2> QED BY <1>1, <1>2, <1>3, <2>2 DEF HelloInv, Succeeded
<1> QED BY <1>1, <1>2, <1>4, <1>6, OtherKinds DEF ParseInv

LEMMA DriverStep == ParseInv /\ DriverChecks /\ UNCHANGED <<sniOffered, items>> => ParseInv'
<1> SUFFICES ASSUME ParseInv, DriverChecks, UNCHANGED <<sniOffered, items>> PROVE ParseInv'
  OBVIOUS
<1>1. /\ pc = "driver" /\ pc' = "done"
      /\ ret' = "SUCCESS" => ret = "SUCCESS" /\ ~out.hrr /\ Negotiated
      /\ path' = path /\ kind' = kind /\ msg' = msg /\ r' = r /\ out' = out /\ seen' = seen
      /\ top' = top /\ extEnd' = extEnd /\ items' = items
  BY DEF DriverChecks
<1>2. /\ msg \in Seq(Byte) /\ Within(msg, r) /\ extEnd \in Nat /\ extEnd <= Len(msg)
      /\ kind = "SH" /\ path \in {"psk", "cert"}
  BY <1>1 DEF ParseInv, Placed
<1>3. Placed'
  BY <1>1, <1>2 DEF Placed
<1>4. HelloInv'
  <2>1. Negotiated' = Negotiated /\ (Random(msg))' = Random(msg)
    BY <1>1 DEF Negotiated, Random
  <2> QED BY <1>1, <1>2, <2>1 DEF ParseInv, HelloInv, Succeeded
<1> QED BY <1>1, <1>2, <1>3, <1>4, OtherKinds DEF ParseInv

LEMMA ParseStutter == ParseInv /\ UNCHANGED vars => ParseInv'
<1> SUFFICES ASSUME ParseInv, UNCHANGED vars PROVE ParseInv'
  OBVIOUS
<1>1. /\ path' = path /\ kind' = kind /\ msg' = msg /\ pc' = pc /\ r' = r /\ ret' = ret
      /\ out' = out /\ seen' = seen /\ top' = top /\ extEnd' = extEnd
      /\ sniOffered' = sniOffered /\ items' = items
  BY DEF vars, parserVars, helloVars
<1>2. Placed' /\ EeInv' /\ CertInv' /\ CvInv'
  BY <1>1 DEF ParseInv, Placed, EeInv, EeRead, Allowed, CertInv, CertRead, CvInv, Succeeded, Prior
<1>3. HelloInv'
  BY <1>1 DEF ParseInv, HelloInv, HelloRead, Negotiated, Succeeded, Prior, Random, HelloBody
<1> QED BY <1>2, <1>3 DEF ParseInv

(* What every reachable state of every parse satisfies. *)
THEOREM ParseInvariant == Spec => []ParseInv
<1>1. Init => ParseInv
  BY ParseInit
<1>2. ParseInv /\ [Next]_vars => ParseInv'
  <2> SUFFICES ASSUME ParseInv, [Next]_vars PROVE ParseInv'
    OBVIOUS
  <2>1. CASE HelloNext /\ UNCHANGED <<sniOffered, items>>
    <3>1. CASE ParseHeader
      BY <2>1, <3>1, HeaderStep
    <3>2. CASE ParseKeyShare
      BY <2>1, <3>2, KeyShareStep
    <3>3. CASE ParseVersion
      BY <2>1, <3>3, VersionStep
    <3>4. CASE ParsePreShared
      BY <2>1, <3>4, PreSharedStep
    <3>5. CASE RefuseExtension
      BY <2>1, <3>5, RefuseStep
    <3>6. CASE ParseEnd
      BY <2>1, <3>6, ParseEndStep
    <3>7. CASE DriverChecks
      BY <2>1, <3>7, DriverStep
    <3> QED BY <2>1, <3>1, <3>2, <3>3, <3>4, <3>5, <3>6, <3>7 DEF HelloNext, ParseExtension
  <2>2. CASE FlightNext /\ UNCHANGED helloVars
    <3>1. CASE EncExtStart
      BY <2>2, <3>1, EeStartStep
    <3>2. CASE EncExtNext
      BY <2>2, <3>2, EeNextStep
    <3>3. CASE CertStart
      BY <2>2, <3>3, CertStartStep
    <3>4. CASE CertNext
      BY <2>2, <3>4, CertNextStep
    <3>5. CASE LoopEnds
      BY <2>2, <3>5, LoopEndsStep
    <3>6. CASE CvParse
      BY <2>2, <3>6, CvParseStep
    <3> QED BY <2>2, <3>1, <3>2, <3>3, <3>4, <3>5, <3>6 DEF FlightNext
  <2>3. CASE UNCHANGED vars
    BY <2>3, ParseStutter
  <2> QED BY <2>1, <2>2, <2>3 DEF Next
<1> QED BY <1>1, <1>2, PTL DEF Spec

-----------------------------------------------------------------------------
(***************************************************************************)
(* The theorems.                                                           *)
(***************************************************************************)
(* No parser stands or points behind its message (wn_msg.c: the sticky error;
   wn_serverhello.c:108), and certs[] holds what is put into it. *)
THEOREM NothingOutOfBounds == Spec => []SlicesInBounds
<1>1. ParseInv => SlicesInBounds
  <2> SUFFICES ASSUME ParseInv PROVE SlicesInBounds
    OBVIOUS
  <2>1. /\ r \in Reader /\ r.pos <= Len(msg) /\ extEnd <= Len(msg) /\ Len(msg) \in Nat
        /\ kind = "CERT" => Len(items) <= MaxChain
    BY LenProperties DEF ParseInv, Placed, Within, CertInv
  <2>2. ASSUME Succeeded, kind = "CERT", NEW i \in DOMAIN items
        PROVE  items[i].off + items[i].len <= Len(msg)
    <3>1. items \in Seq(CertItemIn(msg))
      BY <2>2 DEF ParseInv, CertInv, CertRead
    <3>2. items[i] \in CertItemIn(msg)
      BY <2>2, <3>1, ElementOfSeq, LenProperties
    <3>3. PICK it \in CertItem : it = items[i] /\ it.off + it.len + 2 + it.extl <= Len(msg)
      BY <3>2 DEF CertItemIn
    <3>4. it.off \in Nat /\ it.len \in Nat /\ it.extl \in Nat
      BY DEF CertItem
    <3> QED BY <2>1, <3>3, <3>4
  <2>3. ASSUME Succeeded, kind = "CV", NEW i \in DOMAIN items
        PROVE  items[i].off + items[i].len <= Len(msg)
    BY <2>3 DEF ParseInv, CvInv
  <2> QED BY <2>1, <2>2, <2>3 DEF SlicesInBounds, Succeeded
<1> QED BY <1>1, ParseInvariant, PTL

LEMMA HelloIsExact == ParseInv => HelloExact
<1> SUFFICES ASSUME ParseInv, pc = "driver", ret = "SUCCESS", ~out.hrr
             PROVE  \E order \in SetToSeqs(seen) :
                       msg = Encode(out, SubSeq(msg, 7, 6 + RandomSz), order)
  BY DEF HelloExact
<1>1. kind = "SH"
  BY DEF ParseInv, Placed
<1> QED BY <1>1 DEF ParseInv, HelloInv, Random

LEMMA EncExtIsExact == ParseInv => EncExtExact
<1> SUFFICES ASSUME ParseInv, Succeeded, kind = "EE"
             PROVE  /\ msg = EncodeEe(items)
                    /\ \A i \in DOMAIN items : \/ items[i].type = SupportedGroups
                                               \/ /\ items[i].type = ServerName
                                                  /\ sniOffered /\ items[i].data = <<>>
  BY DEF EncExtExact, Succeeded
<1>1. /\ items \in Seq(EeItem) /\ EeRead /\ r.pos = Len(msg)
      /\ msg \in Seq(Byte) /\ Len(msg) \in Nat
  BY LenProperties DEF ParseInv, EeInv, Placed
<1>2. Prior(msg, r) = msg
  BY <1>1, SubSeqFull DEF Prior
<1>3. PICK x : x = EeExts(items)
  OBVIOUS
<1>4. x \in Seq(Number) /\ Len(x) \in Nat
  <2>1. [type |-> 0, data |-> <<>>] \in EeItem
    BY DEF EeItem
  <2> QED BY <1>1, <1>3, <2>1, EeExtsAppend, LenProperties
<1>5. PICK n \in Nat : n = Len(msg) - 2
  BY <1>1 DEF EeRead
<1>6. msg = U16(n) \o x
  BY <1>1, <1>2, <1>3, <1>5 DEF EeRead
<1>7. Len(x) = n
  <2>1. U16(n) \in Seq(Number) /\ Len(U16(n)) = 2
    BY EncodingTypes
  <2>2. Len(U16(n) \o x) = Len(U16(n)) + Len(x)
    BY <1>4, <2>1, ConcatProperties
  <2>3. Len(msg) = 2 + Len(x)
    BY <1>6, <2>1, <2>2
  <2> QED BY <1>1, <1>4, <1>5, <2>3
<1>8. msg = EncodeEe(items)
  BY <1>3, <1>6, <1>7 DEF EncodeEe, EeExts
<1>9. ASSUME NEW i \in DOMAIN items
      PROVE  \/ items[i].type = SupportedGroups
             \/ items[i].type = ServerName /\ sniOffered /\ items[i].data = <<>>
  <2>1. items[i] \in EeItem
    BY <1>1, ElementOfSeq, LenProperties
  <2>2. items[i].data \in Seq(Number)
    BY <2>1 DEF EeItem
  <2>3. Allowed(items[i].type, Len(items[i].data))
    BY <1>1 DEF EeRead
  <2>4. Len(items[i].data) = 0 => items[i].data = <<>>
    BY <2>2, EmptySeq
  <2> QED BY <2>3, <2>4 DEF Allowed
<1> QED BY <1>8, <1>9

LEMMA EntriesType ==
    ASSUME NEW m \in Seq(Byte), NEW its \in Seq(CertItemIn(m))
    PROVE  Entries(m, its) \in Seq(Number)
<1>1. CASE its = <<>>
  <2>1. Entries(m, its) = <<>>
    BY <1>1, EntriesEmpty
  <2> QED BY <2>1
<1>2. CASE its # <<>>
  <2>1. Len(its) # 0 /\ Len(its) \in Nat
    BY <1>2, EmptySeq, LenProperties
  <2>2. 1 \in 1 .. Len(its)
    BY <2>1
  <2>3. its[1] \in CertItemIn(m)
    BY <2>2, ElementOfSeq
  <2>4. m \in Seq(Number)
    BY BytesAreNumbers
  <2> QED BY <2>3, <2>4, EntriesAppend
<1> QED BY <1>1, <1>2

LEMMA CertIsExact == ParseInv => CertListExact
<1> SUFFICES ASSUME ParseInv, Succeeded, kind = "CERT"
             PROVE  /\ IsPrefix(<<0>> \o U24(Len(msg) - 4) \o Entries(msg, items), msg)
                    /\ Len(items) < MaxChain => Len(msg) = 4 + Len(Entries(msg, items))
  BY DEF CertListExact, Succeeded, Entries, EntryAt, Slice
<1>1. /\ msg \in Seq(Byte) /\ Len(msg) \in Nat /\ Within(msg, r)
      /\ items \in Seq(CertItemIn(msg))
      /\ Len(msg) - 4 \in Nat
      /\ Prior(msg, r) = <<0>> \o U24(Len(msg) - 4) \o Entries(msg, items)
      /\ r.pos = Len(msg) \/ Len(items) = MaxChain
  BY LenProperties DEF ParseInv, Placed, CertInv, CertRead
<1>2. IsPrefix(Prior(msg, r), msg)
  <2>1. PICK p \in Nat : p = r.pos /\ p <= Len(msg)
    BY <1>1 DEF Within, Reader
  <2>2. Len(Prior(msg, r)) = p
    BY <1>1, <2>1, PriorType
  <2>3. Prior(msg, r) = SubSeq(msg, 1, p)
    BY <2>1 DEF Prior
  <2> QED BY <2>1, <2>2, <2>3 DEF IsPrefix
<1>3. ASSUME Len(items) < MaxChain
      PROVE  Len(msg) = 4 + Len(Entries(msg, items))
  <2>1. r.pos = Len(msg)
    <3>1. Len(items) \in Nat /\ MaxChain \in Nat
      BY <1>1, LenProperties, FlightMsgsAssumption
    <3> QED BY <1>1, <1>3, <3>1
  <2>2. Len(Prior(msg, r)) = Len(msg)
    BY <1>1, <2>1, PriorType
  <2>3. PICK x : x = Entries(msg, items)
    OBVIOUS
  <2>4. PICK n \in Nat : n = Len(msg) - 4
    BY <1>1
  <2>5. /\ <<0>> \o U24(n) \in Seq(Number) /\ Len(<<0>> \o U24(n)) = 4
    <3>1. /\ <<0>> \in Seq(Number) /\ Len(<<0>>) = 1
          /\ U24(n) \in Seq(Number) /\ Len(U24(n)) = 3
      BY EncodingTypes
    <3>2. /\ <<0>> \o U24(n) \in Seq(Number)
          /\ Len(<<0>> \o U24(n)) = Len(<<0>>) + Len(U24(n))
      BY <3>1, ConcatProperties
    <3> QED BY <3>1, <3>2
  <2>6. x \in Seq(Number) /\ Len(x) \in Nat
    BY <1>1, <2>3, EntriesType, LenProperties
  <2>7. Len((<<0>> \o U24(n)) \o x) = 4 + Len(x)
    <3>1. PICK h \in Seq(Number) : h = <<0>> \o U24(n) /\ Len(h) = 4
      BY <2>5
    <3>2. Len(h \o x) = Len(h) + Len(x)
      BY <2>6, ConcatProperties
    <3> QED BY <3>1, <3>2
  <2> QED BY <1>1, <2>2, <2>3, <2>4, <2>7
<1> QED BY <1>1, <1>2, <1>3

(* What a parse accepts, for every message and every number of extensions.  A
   ServerHello (wn_serverhello.c), a HelloRetryRequest aside, is an encoding of the fields it hands on, with
   each known extension at most once and no other.  EncryptedExtensions
   (wn_connect.c:67) are the encoding of the extensions gone through, each one
   the client asked for, where supported_groups may come more than once.  A
   Certificate list (wn_connect.c:1290) begins with the encoding of the entries
   handed on and ends there, unless certs[] is full: then the rest is unread. *)
THEOREM ParsedExactly == Spec => []ParsedIsEncoded
<1>1. ParseInv => ParsedIsEncoded
  BY HelloIsExact, EncExtIsExact, CertIsExact DEF ParsedIsEncoded
<1> QED BY <1>1, ParseInvariant, PTL

(* A driver goes on only with the one answer to its ClientHello, up to the
   order of the extensions, the random and the key share (wn_connect.c). *)
THEOREM OnlyTheAnswer == Spec => []AcceptedIsTheAnswer
<1>1. ParseInv => AcceptedIsTheAnswer
  <2> SUFFICES ASSUME ParseInv, kind = "SH", Succeeded PROVE AcceptedIsTheAnswer
    BY DEF AcceptedIsTheAnswer, Succeeded
  <2> DEFINE need == {KeyShare, SupportedVersions}
                       \cup IF path = "psk" THEN {PreShared} ELSE {}
             answer == [sid |-> Sid, cipher |-> Aes128Gcm, group |-> Group,
                        share |-> out.share, version |-> TLS13,
                        psk |-> IF path = "psk" THEN 0 ELSE -1]
  <2>1. /\ ~out.hrr /\ Negotiated /\ out \in Parsed /\ seen \subseteq Known
        /\ IF PreShared \in seen THEN out.psk \in Nat ELSE out.psk = -1
        /\ SupportedVersions \notin seen => out.version = 0
    BY DEF ParseInv, HelloInv, Succeeded
  <2>2. /\ Random(msg) # HrrRandom
        /\ \E order \in SetToSeqs(seen) : msg = Encode(out, Random(msg), order)
    BY <2>1 DEF ParseInv, HelloInv, Succeeded
  <2>3. /\ Len(out.share) = ShareSz /\ KeyShare \in seen /\ out.cipher = Aes128Gcm
        /\ out.version = TLS13 /\ out.group = Group /\ out.sid = Sid
        /\ out.psk = IF path = "psk" THEN 0 ELSE -1
    BY <2>1 DEF Negotiated
  <2>4. seen = need
    <3>1. SupportedVersions \in seen
      BY <2>1, <2>3 DEF TLS13
    <3>2. path = "psk" <=> PreShared \in seen
      <4>1. ~(-1 \in Nat) /\ 0 # -1
        OBVIOUS
      <4> QED BY <2>1, <2>3, <4>1
    <3> QED BY <2>1, <2>3, <3>1, <3>2 DEF Known
  <2>5. PICK order \in SetToSeqs(seen) : msg = Encode(out, Random(msg), order)
    BY <2>2
  <2>6. order \in Seq(seen)
    BY <2>1, KnownFinite, OrderType
  <2>7. PICK a : a = answer
    OBVIOUS
  <2>8. /\ a.sid = out.sid /\ a.cipher = out.cipher /\ a.group = out.group
        /\ a.share = out.share /\ a.version = out.version /\ a.psk = out.psk
    BY <2>3, <2>7
  <2>9. \A x \in seen : EncodeExt(out, x) = EncodeExt(a, x)
    BY <2>8 DEF EncodeExt
  <2>10. HelloExts(out, order) = HelloExts(a, order)
    BY <2>6, <2>9, HelloExtsSame
  <2>11. Encode(out, Random(msg), order) = Encode(a, Random(msg), order)
    BY <2>8, <2>10 DEF Encode, HelloExts
  <2>12. \E o \in SetToSeqs(need) : msg = Encode(answer, Random(msg), o)
    BY <2>4, <2>5, <2>7, <2>11
  <2> QED BY <2>2, <2>3, <2>12 DEF AcceptedIsTheAnswer, Random
<1> QED BY <1>1, ParseInvariant, PTL

-----------------------------------------------------------------------------
(***************************************************************************)
(* Completeness: what is well formed is accepted.  The invariant looks the *)
(* other way than ParseInv: what the reader has before it is the encoding  *)
(* of what the parse has not taken yet.                                    *)
(***************************************************************************)
(* x is all of buf that is still to be read. *)
Ahead(buf, q, x) ==
    /\ Within(buf, q) /\ ~q.err /\ IsText(x)
    /\ Len(buf) = q.pos + Len(x)
    /\ \A i \in 1 .. Len(x) : buf[q.pos + i] = x[i]

(* What a sequence has behind its first n elements *)
After(s, n) == SubSeq(s, n + 1, Len(s))

(* The entries of a Certificate, one behind the other. *)
CertExts(es) == FlattenSeq([i \in DOMAIN es |-> EncodeEntry(es[i].data, es[i].exts)])

(* The parse is one of the well-formed body h. *)
HonestlySent(h) == h.kind = kind /\ h.msg = msg /\ (h.sni => sniOffered)

(* The certificates noted down are the first of h. *)
CertTaken(h) ==
    /\ Len(items) <= Len(h.items)
    /\ \A i \in DOMAIN items : Slice(items[i]) = h.items[i].data

(* EncryptedExtensions, Certificate and CertificateVerify on a body that is
   well formed, between the turns of the loop and at the end. *)
BodyAhead(h) ==
    /\ (pc = "loop" /\ kind = "EE") =>
          \E n \in 0 .. Len(h.items) : Ahead(msg, r, EeExts(After(h.items, n)))
    /\ (pc = "loop" /\ kind = "CERT") =>
          CertTaken(h) /\ Ahead(msg, r, CertExts(After(h.items, Len(items))))
    /\ pc = "done" =>
          /\ ret = "SUCCESS"
          /\ kind = "CERT" =>
               /\ Len(items) = IF Len(h.items) < MaxChain THEN Len(h.items) ELSE MaxChain
               /\ \A i \in DOMAIN items : Slice(items[i]) = h.items[i].data

HonestBodyInv == \A h \in HonestBodies : HonestlySent(h) => BodyAhead(h)

(* Each field is that of f once its extension is read, and unset before. *)
HelloTaken(f) ==
    /\ IF KeyShare \in seen THEN out.group = f.group /\ out.share = f.share
                            ELSE out.group = 0 /\ out.share = <<>>
    /\ out.version = IF SupportedVersions \in seen THEN f.version ELSE 0
    /\ out.psk = IF PreShared \in seen THEN f.psk ELSE -1

(* A hello of fields f between two extensions. *)
HelloAhead(f) ==
    /\ f.random # HrrRandom /\ extEnd = Len(msg)
    /\ top = [type |-> 2, hsLen |-> Len(msg) - 4, lver |-> Legacy, comp |-> 0]
    /\ out.sid = f.sid /\ out.cipher = f.cipher
    /\ \E n \in 0 .. Len(f.order) :
          /\ seen = {f.order[i] : i \in 1 .. n}
          /\ Ahead(msg, r, HelloExts(f, After(f.order, n)))
    /\ HelloTaken(f)

HelloProgress(f) ==
    /\ pc = "exts" => HelloAhead(f)
    /\ pc = "driver" =>
          /\ ret = "SUCCESS"
          /\ out.hrr = (f.random = HrrRandom)
          /\ out.hrr \/ \A x \in {"sid", "cipher", "group", "share", "version", "psk"} :
                           out[x] = f[x]

HonestHelloInv ==
    kind = "SH" => \A h \in HonestHellos : msg = h.bytes => HelloProgress(h.fields)

HonestInv == HonestBodyInv /\ HonestHelloInv

-----------------------------------------------------------------------------
(***************************************************************************)
(* What is ahead, what a read finds of it, and what is ahead then.         *)
(***************************************************************************)
LEMMA TextIs == \A x : IsText(x) => x \in Seq(Number) /\ Len(x) \in Nat
BY LenProperties DEF IsText

LEMMA TextJoin ==
    ASSUME NEW d, NEW y, IsText(d), IsText(y)
    PROVE  /\ IsText(d \o y) /\ Len(d \o y) = Len(d) + Len(y)
           /\ \A i \in 1 .. Len(d) : (d \o y)[i] = d[i]
           /\ \A i \in 1 .. Len(y) : (d \o y)[Len(d) + i] = y[i]
<1>1. d \in Seq(Number) /\ y \in Seq(Number) /\ Len(d) \in Nat /\ Len(y) \in Nat
  BY TextIs
<1>2. PICK m \in Nat, n \in Nat : m = Len(d) /\ n = Len(y)
  BY <1>1
<1> DEFINE s == d \o y
<1>3. /\ s \in Seq(Number) /\ Len(s) = m + n
      /\ \A i \in 1 .. m + n : s[i] = IF i <= m THEN d[i] ELSE y[i - m]
  BY <1>1, <1>2, ConcatProperties
<1> HIDE DEF s
<1>4. ASSUME NEW i \in 1 .. m PROVE s[i] = d[i]
  BY <1>3
<1>5. ASSUME NEW i \in 1 .. n PROVE s[m + i] = y[i]
  <2>1. m + i \in 1 .. m + n /\ ~(m + i <= m) /\ (m + i) - m = i
    OBVIOUS
  <2> QED BY <1>3, <2>1
<1> QED BY <1>2, <1>3, <1>4, <1>5 DEF IsText, s

(* A read finds what comes next, and what comes then is ahead. *)
AheadThen(buf, q, d, y) == IsText(d) /\ IsText(y) /\ Ahead(buf, q, d \o y)

ReadsNext(buf, q, d, n, y) ==
    /\ Fits(buf, q, n) /\ ReadBytes(buf, q, n) = d
    /\ SubSeq(buf, q.pos + 1, q.pos + n) = d
    /\ Ahead(buf, Skip(buf, q, n), y)
    /\ Skip(buf, q, n).pos = q.pos + n

LEMMA AheadReads ==
    ASSUME NEW buf \in Seq(Byte), NEW q, NEW d, NEW y, AheadThen(buf, q, d, y)
    PROVE  ReadsNext(buf, q, d, Len(d), y)
<1> USE DEF AheadThen
<1>0. Len(d) \in Nat /\ Len(y) \in Nat /\ q.pos \in Nat
  BY TextIs DEF Ahead, Within, Reader
<1>1. PICK p \in Nat, m \in Nat, n \in Nat : p = q.pos /\ m = Len(d) /\ n = Len(y)
  BY <1>0
<1>2. /\ Within(buf, q) /\ ~q.err /\ p \in Nat /\ Len(buf) \in Nat
      /\ q = [pos |-> p, err |-> FALSE]
  BY <1>1, LenProperties DEF Ahead, Within, Reader
<1>3. PICK s : s = d \o y
  OBVIOUS
<1>4. /\ Len(s) = m + n
      /\ \A i \in 1 .. m : s[i] = d[i]
      /\ \A i \in 1 .. n : s[m + i] = y[i]
  BY <1>1, <1>3, TextJoin
<1>5. Len(buf) = p + (m + n) /\ \A i \in 1 .. m + n : buf[p + i] = s[i]
  BY <1>1, <1>3, <1>4 DEF Ahead
<1>6. Fits(buf, q, m)
  BY <1>1, <1>2, <1>5 DEF Fits
<1>7. Skip(buf, q, m) = [pos |-> p + m, err |-> FALSE]
  BY <1>2, <1>6 DEF Skip
<1>8. SubSeq(buf, p + 1, p + m) = d
  <2>1. p \in 0 .. Len(buf) /\ p + m \in p .. Len(buf) /\ (p + m) - p = m
    BY <1>2, <1>5
  <2>2. buf \in Seq(Number) /\ d \in Seq(Number)
    BY BytesAreNumbers, TextIs
  <2>3. PICK z : z = SubSeq(buf, p + 1, p + m)
    OBVIOUS
  <2>4. z \in Seq(Number) /\ Len(z) = m /\ \A i \in 1 .. m : z[i] = buf[p + i]
    BY SMTT(60), <2>1, <2>2, <2>3, SubSeqPiece
  <2>5. \A i \in 1 .. m : i \in 1 .. m + n
    OBVIOUS
  <2>6. \A i \in 1 .. m : z[i] = d[i]
    BY <1>4, <1>5, <2>4, <2>5
  <2> QED BY <1>1, <2>2, <2>3, <2>4, <2>6, SeqEqual
<1>9. ReadBytes(buf, q, m) = d
  BY <1>1, <1>6, <1>8 DEF ReadBytes
<1>10. Ahead(buf, Skip(buf, q, m), y)
  <2>1. PICK z : z = Skip(buf, q, m)
    OBVIOUS
  <2>2. z.pos = p + m /\ ~z.err /\ z \in Reader
    BY <1>2, <1>7, <2>1 DEF Reader
  <2>3. Within(buf, z) /\ Len(buf) = z.pos + n
    BY <1>2, <1>5, <2>2 DEF Within
  <2>4. ASSUME NEW i \in 1 .. n PROVE buf[z.pos + i] = y[i]
    <3>1. m + i \in 1 .. m + n /\ p + (m + i) = z.pos + i
      BY <1>2, <2>2
    <3>2. buf[p + (m + i)] = s[m + i]
      BY <1>5, <3>1
    <3>3. s[m + i] = y[i]
      BY <1>4
    <3>4. buf[p + (m + i)] = buf[z.pos + i]
      BY <3>1
    <3> QED BY <3>2, <3>3, <3>4
  <2> QED BY <1>1, <2>1, <2>2, <2>3, <2>4 DEF Ahead
<1> QED BY <1>1, <1>6, <1>7, <1>8, <1>9, <1>10 DEF ReadsNext

(* A number is its digits, so the encodings of two numbers differ. *)
LEMMA ByteDigits ==
    \A k \in Nat : /\ k = 256 * (k \div 256) + (k % 256)
                   /\ k \div 256 \in Nat /\ k % 256 \in 0 .. 255
<1> SUFFICES ASSUME NEW k \in Nat
             PROVE  /\ k = 256 * (k \div 256) + (k % 256)
                    /\ k \div 256 \in Nat /\ k % 256 \in 0 .. 255
  OBVIOUS
<1>1. k = 256 * (k \div 256) + (k % 256)
  BY SMT
<1>2. k \div 256 \in Nat /\ k % 256 \in 0 .. 255
  BY SMT
<1> QED BY <1>1, <1>2

LEMMA HighByte == \A k \in Nat : (k \div 256) \div 256 = k \div 65536
<1> SUFFICES ASSUME NEW k \in Nat PROVE (k \div 256) \div 256 = k \div 65536
  OBVIOUS
<1>1. PICK a \in Nat : a = k \div 256
  BY ByteDigits
<1>2. PICK c \in Nat : c = a \div 256
  BY ByteDigits
<1>3. PICK b \in 0 .. 255, e \in 0 .. 255 : b = k % 256 /\ e = a % 256
  <2>1. k % 256 \in 0 .. 255
    BY ByteDigits, ZenonT(60)
  <2>2. a % 256 \in 0 .. 255
    BY ByteDigits, ZenonT(60)
  <2> QED BY <2>1, <2>2, Zenon
<1>4. k = 256 * a + b /\ a = 256 * c + e
  BY <1>1, <1>2, <1>3, ByteDigits
<1>5. 256 * e + b \in Nat /\ 256 * e + b < 65536
  BY SMT
<1>6. k = 65536 * c + (256 * e + b)
  BY <1>4, SMT
<1>7. \A x \in Nat : x < 65536 => (65536 * c + x) \div 65536 = c
  BY SMT
<1>8. (65536 * c + (256 * e + b)) \div 65536 = c
  BY <1>5, <1>7
<1> QED BY <1>1, <1>2, <1>6, <1>8

LEMMA PairDecodes == \A v, w \in Nat : U16(v) = U16(w) => v = w
<1> SUFFICES ASSUME NEW v \in Nat, NEW w \in Nat, U16(v) = U16(w) PROVE v = w
  OBVIOUS
<1>1. v \div 256 = w \div 256 /\ v % 256 = w % 256
  BY DEF U16
<1> QED BY <1>1, ByteDigits

LEMMA TripleDecodes == \A v, w \in Nat : U24(v) = U24(w) => v = w
<1> SUFFICES ASSUME NEW v \in Nat, NEW w \in Nat, U24(v) = U24(w) PROVE v = w
  OBVIOUS
<1>1. /\ v \div 65536 = w \div 65536 /\ v % 256 = w % 256
      /\ (v \div 256) % 256 = (w \div 256) % 256
  BY DEF U24
<1>2. PICK a \in Nat, b \in Nat : a = v \div 256 /\ b = w \div 256
  BY ByteDigits
<1>3. a \div 256 = b \div 256 /\ a % 256 = b % 256
  BY <1>1, <1>2, HighByte
<1>4. a = b
  BY <1>3, ByteDigits
<1> QED BY <1>1, <1>2, <1>4, ByteDigits

(* A number ahead is read as it was written. *)
LEMMA AheadNumber ==
    ASSUME NEW buf \in Seq(Byte), NEW q, NEW v \in Nat, NEW y, IsText(y)
    PROVE  /\ Ahead(buf, q, <<v>> \o y) =>
                ReadU(buf, q, 1) = v /\ Ahead(buf, Skip(buf, q, 1), y)
                  /\ Skip(buf, q, 1).pos = q.pos + 1
           /\ Ahead(buf, q, U16(v) \o y) =>
                ReadU(buf, q, 2) = v /\ Ahead(buf, Skip(buf, q, 2), y)
                  /\ Skip(buf, q, 2).pos = q.pos + 2
           /\ Ahead(buf, q, U24(v) \o y) =>
                ReadU(buf, q, 3) = v /\ Ahead(buf, Skip(buf, q, 3), y)
                  /\ Skip(buf, q, 3).pos = q.pos + 3
<1>1. /\ IsText(<<v>>) /\ Len(<<v>>) = 1 /\ IsText(U16(v)) /\ Len(U16(v)) = 2
      /\ IsText(U24(v)) /\ Len(U24(v)) = 3
  BY EncodingTypes DEF IsText
<1>2. ASSUME NEW d, Ahead(buf, q, d)
      PROVE  /\ ReadU(buf, q, 1) \in Nat /\ ReadU(buf, q, 2) \in Nat /\ ReadU(buf, q, 3) \in Nat
             /\ Fits(buf, q, 1) => SubSeq(buf, q.pos + 1, q.pos + 1) = <<ReadU(buf, q, 1)>>
             /\ Fits(buf, q, 2) => SubSeq(buf, q.pos + 1, q.pos + 2) = U16(ReadU(buf, q, 2))
             /\ Fits(buf, q, 3) => SubSeq(buf, q.pos + 1, q.pos + 3) = U24(ReadU(buf, q, 3))
  BY <1>2, ReadUEncodes DEF Ahead
<1>3. ASSUME Ahead(buf, q, <<v>> \o y)
      PROVE  ReadU(buf, q, 1) = v /\ Ahead(buf, Skip(buf, q, 1), y)
               /\ Skip(buf, q, 1).pos = q.pos + 1
  <2>1. PICK d : d = <<v>>
    OBVIOUS
  <2>2. IsText(d) /\ Len(d) = 1
    BY <1>1, <2>1
  <2>3. Ahead(buf, q, d \o y)
    BY <1>3, <2>1
  <2>4. Fits(buf, q, 1) /\ SubSeq(buf, q.pos + 1, q.pos + 1) = d
        /\ Ahead(buf, Skip(buf, q, 1), y) /\ Skip(buf, q, 1).pos = q.pos + 1
    <3>1. ReadsNext(buf, q, d, Len(d), y)
      BY <2>2, <2>3, AheadReads DEF AheadThen
    <3> QED BY <2>2, <3>1 DEF ReadsNext
  <2>5. <<ReadU(buf, q, 1)>> = <<v>>
    BY <1>2, <1>3, <2>1, <2>4
  <2> QED BY <2>4, <2>5
<1>4. ASSUME Ahead(buf, q, U16(v) \o y)
      PROVE  ReadU(buf, q, 2) = v /\ Ahead(buf, Skip(buf, q, 2), y)
               /\ Skip(buf, q, 2).pos = q.pos + 2
  <2>1. PICK d : d = U16(v)
    OBVIOUS
  <2>2. IsText(d) /\ Len(d) = 2
    BY <1>1, <2>1
  <2>3. Ahead(buf, q, d \o y)
    BY <1>4, <2>1
  <2>4. Fits(buf, q, 2) /\ SubSeq(buf, q.pos + 1, q.pos + 2) = d
        /\ Ahead(buf, Skip(buf, q, 2), y) /\ Skip(buf, q, 2).pos = q.pos + 2
    <3>1. ReadsNext(buf, q, d, Len(d), y)
      BY <2>2, <2>3, AheadReads DEF AheadThen
    <3> QED BY <2>2, <3>1 DEF ReadsNext
  <2>5. U16(ReadU(buf, q, 2)) = U16(v) /\ ReadU(buf, q, 2) \in Nat
    BY <1>2, <1>4, <2>1, <2>4
  <2> QED BY <2>4, <2>5, PairDecodes
<1>5. ASSUME Ahead(buf, q, U24(v) \o y)
      PROVE  ReadU(buf, q, 3) = v /\ Ahead(buf, Skip(buf, q, 3), y)
               /\ Skip(buf, q, 3).pos = q.pos + 3
  <2>1. PICK d : d = U24(v)
    OBVIOUS
  <2>2. IsText(d) /\ Len(d) = 3
    BY <1>1, <2>1
  <2>3. Ahead(buf, q, d \o y)
    BY <1>5, <2>1
  <2>4. Fits(buf, q, 3) /\ SubSeq(buf, q.pos + 1, q.pos + 3) = d
        /\ Ahead(buf, Skip(buf, q, 3), y) /\ Skip(buf, q, 3).pos = q.pos + 3
    <3>1. ReadsNext(buf, q, d, Len(d), y)
      BY <2>2, <2>3, AheadReads DEF AheadThen
    <3> QED BY <2>2, <3>1 DEF ReadsNext
  <2>5. U24(ReadU(buf, q, 3)) = U24(v) /\ ReadU(buf, q, 3) \in Nat
    BY <1>2, <1>5, <2>1, <2>4
  <2> QED BY <2>4, <2>5, TripleDecodes
<1> QED BY <1>3, <1>4, <1>5

LEMMA AheadWord ==
    ASSUME NEW buf \in Seq(Byte), NEW q, NEW v \in Nat, NEW y, IsText(y),
           Ahead(buf, q, U16(v) \o y)
    PROVE  ReadU(buf, q, 2) = v /\ Ahead(buf, Skip(buf, q, 2), y)
BY AheadNumber, Zenon

(* Nothing is ahead exactly at the end. *)
LEMMA AheadEnd ==
    ASSUME NEW buf \in Seq(Byte), NEW q, NEW x, Ahead(buf, q, x)
    PROVE  /\ q.pos < Len(buf) <=> Len(x) # 0
           /\ ~(q.pos < Len(buf)) <=> q.pos = Len(buf)
           /\ ~q.err /\ q.pos \in Nat /\ q.pos <= Len(buf) /\ Len(buf) \in Nat
<1>1. q.pos \in Nat /\ Len(x) \in Nat /\ ~q.err /\ Len(buf) = q.pos + Len(x)
  BY TextIs DEF Ahead, Within, Reader
<1> QED BY <1>1

(* A parse begins with the whole message ahead. *)
LEMMA AheadAtStart ==
    ASSUME NEW buf \in Seq(Byte)
    PROVE  Ahead(buf, ReaderInit, buf)
<1>1. Within(buf, ReaderInit) /\ ReaderInit.pos = 0 /\ ~ReaderInit.err /\ Len(buf) \in Nat
  BY ReaderStarts, LenProperties DEF ReaderInit
<1>2. IsText(buf)
  BY BytesAreNumbers DEF IsText
<1>3. Len(buf) = ReaderInit.pos + Len(buf)
      /\ \A i \in 1 .. Len(buf) : ReaderInit.pos + i = i
  BY <1>1
<1> QED BY <1>1, <1>2, <1>3 DEF Ahead

-----------------------------------------------------------------------------
(***************************************************************************)
(* A list of pieces, from some element on.                                 *)
(***************************************************************************)
LEMMA AfterStep ==
    ASSUME NEW R, NEW s \in Seq(R), NEW n \in Nat, n < Len(s)
    PROVE  /\ s[n + 1] \in R /\ After(s, n) \in Seq(R) /\ After(s, n + 1) \in Seq(R)
           /\ After(s, n) = <<s[n + 1]>> \o After(s, n + 1)
<1>1. Len(s) \in Nat
  BY LenProperties
<1>2. PICK l \in Nat : l = Len(s)
  BY <1>1
<1>3. n + 1 \in 1 .. Len(s) /\ Len(s) \in n + 1 .. Len(s)
  BY <1>2
<1>4. n \in 0 .. Len(s) /\ Len(s) \in n .. Len(s) /\ n + 1 \in 0 .. Len(s)
      /\ Len(s) \in (n + 1) .. Len(s)
  BY <1>2
<1>5. s[n + 1] \in R
  BY <1>3, ElementOfSeq
<1>6. SubSeq(s, n + 1, Len(s)) = <<s[n + 1]>> \o SubSeq(s, (n + 1) + 1, Len(s))
  BY <1>3, SubSeqRecursiveFirst
<1>7. SubSeq(s, n + 1, Len(s)) \in Seq(R) /\ SubSeq(s, (n + 1) + 1, Len(s)) \in Seq(R)
  BY <1>4, SubSeqPiece
<1> QED BY <1>5, <1>6, <1>7 DEF After

LEMMA AfterEnds ==
    ASSUME NEW R, NEW s \in Seq(R)
    PROVE  After(s, 0) = s /\ After(s, Len(s)) = <<>>
<1>1. Len(s) \in Nat
  BY LenProperties
<1>2. SubSeq(s, 1, Len(s)) = s
  BY SubSeqFull
<1>3. SubSeq(s, Len(s) + 1, Len(s)) = <<>>
  <2>1. Len(s) + 1 \in Int /\ Len(s) \in Int /\ Len(s) < Len(s) + 1
    BY <1>1
  <2> QED BY <2>1, SubSeqEmpty
<1> QED BY <1>2, <1>3 DEF After

(* FlatMapAppend is the last piece of a list; this is the first. *)
FirstPiece(f, S, e, q) ==
    FlatMap(f, q) \in Seq(S) /\ FlatMap(f, <<e>> \o q) = f[e] \o FlatMap(f, q)

LEMMA FlatMapFirst ==
    ASSUME NEW R, NEW S, NEW f, MapsTo(f, R, S), NEW q \in Seq(R), NEW e \in R
    PROVE  FirstPiece(f, S, e, q)
<1> DEFINE M(k) == FlatMap(f, SubSeq(q, 1, k))
           L(k) == FlatMap(f, <<e>> \o SubSeq(q, 1, k))
           P(k) == M(k) \in Seq(S) /\ L(k) = f[e] \o M(k)
           T == {k \in Nat : k <= Len(q) => P(k)}
<1>1. Len(q) \in Nat /\ f[e] \in Seq(S)
  BY LenProperties DEF MapsTo
<1>2. 0 \in T
  <2>1. SubSeq(q, 1, 0) = <<>> /\ <<>> \in Seq(R)
    BY SubSeqEmpty
  <2>2. M(0) = <<>>
    BY <2>1, FlatMapEmpty
  <2>3. <<e>> \o <<>> = <<e>> /\ Append(<<>>, e) = <<e>>
    BY ConcatEmptySeq
  <2>4. FlatMap(f, Append(<<>>, e)) = FlatMap(f, <<>>) \o f[e]
    <3>1. PICK z \in Seq(R) : z = <<>>
      BY <2>1
    <3>2. FlatMap(f, Append(z, e)) = FlatMap(f, z) \o f[e]
      BY FlatMapAppend
    <3> QED BY <3>1, <3>2
  <2>5. FlatMap(f, <<>>) \o f[e] = f[e] /\ f[e] \o <<>> = f[e]
    BY <1>1, FlatMapEmpty, ConcatEmptySeq
  <2>6. L(0) = f[e]
    BY <2>1, <2>3, <2>4, <2>5
  <2>7. P(0)
    <3> HIDE DEF M, L
    <3>1. <<>> \in Seq(S)
      OBVIOUS
    <3> QED BY <2>2, <2>5, <2>6, <3>1
  <2> HIDE DEF P
  <2> QED BY <2>7
<1>3. ASSUME NEW k \in Nat, k \in T PROVE k + 1 \in T
  <2> SUFFICES ASSUME k + 1 <= Len(q) PROVE P(k + 1)
    <3> HIDE DEF P
    <3> QED OBVIOUS
  <2>1. P(k)
    <3> HIDE DEF P
    <3> QED BY <1>1, <1>3
  <2>2. PICK p : p = SubSeq(q, 1, k)
    OBVIOUS
  <2>3. PICK x : x = q[k + 1]
    OBVIOUS
  <2>4. p \in Seq(R) /\ x \in R
    <3>1. k \in 0 .. Len(q) /\ k + 1 \in 1 .. Len(q)
      BY <1>1
    <3>2. SubSeq(q, 1, k) \in Seq(R)
      BY <3>1, SubSeqFromOne
    <3>3. q[k + 1] \in R
      BY <3>1, ElementOfSeq
    <3> QED BY <2>2, <2>3, <3>2, <3>3
  <2>5. SubSeq(q, 1, k + 1) = p \o <<x>> /\ p \o <<x>> = Append(p, x)
    <3>1. 1 \in 1 .. Len(q) /\ k + 1 \in 1 .. Len(q) /\ (k + 1) - 1 = k
      BY <1>1
    <3>2. SubSeq(q, 1, k + 1) = SubSeq(q, 1, (k + 1) - 1) \o <<q[k + 1]>>
      BY <3>1, SubSeqRecursiveSecond
    <3>3. p \o <<x>> = Append(p, x)
      BY <2>4, AppendIsConcat
    <3> QED BY <2>2, <2>3, <3>1, <3>2, <3>3
  <2>6. <<e>> \o Append(p, x) = Append(<<e>> \o p, x) /\ <<e>> \o p \in Seq(R)
    <3>1. <<e>> \in Seq(R) /\ <<x>> \in Seq(R)
      BY <2>4
    <3>2. <<e>> \o p \in Seq(R)
      BY <2>4, <3>1, ConcatProperties
    <3>3. (<<e>> \o p) \o <<x>> = <<e>> \o (p \o <<x>>)
      BY <2>4, <3>1, ConcatAssociative
    <3>4. (<<e>> \o p) \o <<x>> = Append(<<e>> \o p, x)
      BY <2>4, <3>2, AppendIsConcat
    <3> QED BY <2>5, <3>2, <3>3, <3>4
  <2>7. FlatMap(f, Append(p, x)) = FlatMap(f, p) \o f[x]
        /\ FlatMap(f, p) \in Seq(S)
    BY <2>4, FlatMapAppend
  <2>8. FlatMap(f, Append(<<e>> \o p, x)) = FlatMap(f, <<e>> \o p) \o f[x]
    <3>1. PICK z \in Seq(R) : z = <<e>> \o p
      BY <2>6
    <3>2. FlatMap(f, Append(z, x)) = FlatMap(f, z) \o f[x]
      BY <2>4, FlatMapAppend
    <3> QED BY <3>1, <3>2
  <2>9. f[x] \in Seq(S)
    BY <2>4 DEF MapsTo
  <2>10. PICK a \in Seq(S), b \in Seq(S), c \in Seq(S) :
            a = f[e] /\ b = FlatMap(f, p) /\ c = f[x]
    BY <1>1, <2>7, <2>9
  <2>11. (a \o b) \o c = a \o (b \o c) /\ b \o c \in Seq(S)
    BY ConcatAssociative, ConcatProperties
  <2>12. M(k + 1) = b \o c
    BY <2>5, <2>7, <2>10
  <2>13. L(k + 1) = (a \o b) \o c
    <3>1. FlatMap(f, <<e>> \o p) = a \o b
      BY <2>1, <2>2, <2>10
    <3> QED BY <2>5, <2>6, <2>8, <2>10, <3>1
  <2> HIDE DEF M, L
  <2> QED BY <2>10, <2>11, <2>12, <2>13
<1>4. \A k \in Nat : k \in T
  <2> HIDE DEF T
  <2> QED BY <1>2, <1>3, SetInduction
<1>5. P(Len(q))
  <2> HIDE DEF P
  <2> QED BY <1>1, <1>4
<1>6. SubSeq(q, 1, Len(q)) = q
  BY SubSeqFull
<1> QED BY <1>5, <1>6 DEF FirstPiece

(* A list of pieces, of which n have been read. *)
Maps(f, R, S, s, n) == MapsTo(f, R, S) /\ s \in Seq(R) /\ n \in Nat /\ n < Len(s)

NextPiece(f, R, S, s, n) ==
    /\ s[n + 1] \in R /\ After(s, n) \in Seq(R) /\ After(s, n + 1) \in Seq(R)
    /\ f[s[n + 1]] \in Seq(S) /\ FlatMap(f, After(s, n + 1)) \in Seq(S)
    /\ FlatMap(f, After(s, n)) = f[s[n + 1]] \o FlatMap(f, After(s, n + 1))

LEMMA FlatMapAfter ==
    ASSUME NEW R, NEW S, NEW f, NEW s, NEW n, Maps(f, R, S, s, n)
    PROVE  NextPiece(f, R, S, s, n)
<1>1. MapsTo(f, R, S) /\ s \in Seq(R) /\ n \in Nat /\ n < Len(s)
  BY DEF Maps
<1>2. PICK e, q : e = s[n + 1] /\ q = After(s, n + 1)
  OBVIOUS
<1>3. e \in R /\ q \in Seq(R) /\ After(s, n) \in Seq(R) /\ After(s, n) = <<e>> \o q
  BY <1>1, <1>2, AfterStep
<1>4. FlatMap(f, q) \in Seq(S) /\ FlatMap(f, <<e>> \o q) = f[e] \o FlatMap(f, q)
  <2>1. FirstPiece(f, S, e, q)
    BY <1>1, <1>3, FlatMapFirst
  <2> QED BY <2>1 DEF FirstPiece
<1>5. f[e] \in Seq(S)
  BY <1>1, <1>3 DEF MapsTo
<1> QED BY <1>2, <1>3, <1>4, <1>5 DEF NextPiece

-----------------------------------------------------------------------------
(***************************************************************************)
(* EncryptedExtensions (wn_CheckEncExt, wn_connect.c:67): no honest list is *)
(* refused, whatever its length.                                           *)
(***************************************************************************)
HonestEe(h) ==
    /\ h.kind = "EE" /\ h.items \in Seq(EeItem) /\ h.msg = EncodeEe(h.items)
    /\ \A i \in 1 .. Len(h.items) :
          \/ h.items[i].type = SupportedGroups
          \/ h.items[i].type = ServerName /\ h.items[i].data = <<>> /\ h.sni

LEMMA WordsAreNumbers == \A x \in Word16 : x \in Nat
<1>1. Word16 \subseteq Nat
  BY DEF Word16
<1> QED BY <1>1

LEMMA BytesInItems == [type : Word16, data : Seq(Byte)] \subseteq EeItem
<1> SUFFICES ASSUME NEW e \in [type : Word16, data : Seq(Byte)] PROVE e \in EeItem
  OBVIOUS
<1>1. e = [type |-> e.type, data |-> e.data] /\ e.type \in Word16 /\ e.data \in Seq(Byte)
  OBVIOUS
<1>2. e.type \in Nat
  BY <1>1, WordsAreNumbers
<1>3. e.data \in Seq(Number)
  BY <1>1, BytesAreNumbers
<1> QED BY <1>1, <1>2, <1>3 DEF EeItem

LEMMA HonestEeIs ==
    ASSUME NEW h \in HonestBodies, h.kind = "EE"
    PROVE  HonestEe(h)
<1>1. WellFormedBody(h)
  BY HonestBodiesAssumption
<1>2. /\ h.msg = EncodeEe(h.items) /\ h.items \in Seq([type : Word16, data : Seq(Byte)])
      /\ \A i \in DOMAIN h.items :
            \/ h.items[i].type = SupportedGroups
            \/ h.items[i].type = ServerName /\ h.items[i].data = <<>> /\ h.sni
  BY <1>1 DEF WellFormedBody
<1>3. h.items \in Seq(EeItem) /\ DOMAIN h.items = 1 .. Len(h.items)
  BY <1>2, BytesInItems, SeqMonotonic, LenProperties
<1> QED BY <1>2, <1>3 DEF HonestEe

(* An extension as it is written: type, length, data. *)
ItemText(e) == U16(e.type) \o U16(Len(e.data)) \o e.data

LEMMA ItemIsText ==
    ASSUME NEW e \in EeItem
    PROVE  /\ ItemText(e) \in Seq(Number) /\ IsText(e.data)
           /\ e.type \in Nat /\ Len(e.data) \in Nat
           /\ IsText(U16(e.type)) /\ IsText(U16(Len(e.data)))
<1>1. e.type \in Nat /\ IsText(e.data) /\ Len(e.data) \in Nat
  BY LenProperties DEF EeItem, IsText
<1>2. IsText(U16(e.type)) /\ IsText(U16(Len(e.data)))
  BY <1>1, EncodingTypes DEF IsText
<1>3. IsText(U16(e.type) \o U16(Len(e.data)))
  BY <1>2, TextJoin
<1>4. IsText(ItemText(e))
  BY <1>1, <1>3, TextJoin DEF ItemText
<1> QED BY <1>1, <1>2, <1>4 DEF IsText

LEMMA EeMaps ==
    \E f : /\ MapsTo(f, EeItem, Number)
           /\ \A x \in EeItem : f[x] = ItemText(x)
           /\ \A q \in Seq(EeItem) : EeExts(q) = FlatMap(f, q)
<1>1. PICK f : f = [x \in EeItem |-> ItemText(x)]
  OBVIOUS
<1>2. \A x \in EeItem : f[x] = ItemText(x)
  BY <1>1
<1>3. MapsTo(f, EeItem, Number)
  <2>1. f \in [EeItem -> Seq(Number)]
    BY <1>1, ItemIsText
  <2> QED BY <2>1 DEF MapsTo
<1>4. ASSUME NEW q \in Seq(EeItem) PROVE EeExts(q) = FlatMap(f, q)
  <2>1. \A i \in DOMAIN q : q[i] \in EeItem
    BY ElementOfSeq, LenProperties
  <2>2. [i \in DOMAIN q |-> f[q[i]]]
          = [i \in DOMAIN q |-> U16(q[i].type) \o U16(Len(q[i].data)) \o q[i].data]
    BY <1>2, <2>1 DEF ItemText
  <2> QED BY <2>2 DEF EeExts, FlatMap
<1> QED BY <1>2, <1>3, <1>4

LEMMA EeNextItem ==
    ASSUME NEW es \in Seq(EeItem), NEW n \in Nat, n < Len(es)
    PROVE  /\ es[n + 1] \in EeItem /\ IsText(EeExts(After(es, n + 1)))
           /\ EeExts(After(es, n)) = ItemText(es[n + 1]) \o EeExts(After(es, n + 1))
<1>1. PICK f : /\ MapsTo(f, EeItem, Number)
               /\ \A x \in EeItem : f[x] = ItemText(x)
               /\ \A q \in Seq(EeItem) : EeExts(q) = FlatMap(f, q)
  BY EeMaps
<1>2. NextPiece(f, EeItem, Number, es, n)
  BY <1>1, FlatMapAfter DEF Maps
<1> QED BY <1>1, <1>2 DEF NextPiece, IsText

LEMMA EeExtsText == \A es \in Seq(EeItem) : IsText(EeExts(es))
<1> SUFFICES ASSUME NEW es \in Seq(EeItem) PROVE IsText(EeExts(es))
  OBVIOUS
<1>1. [type |-> 0, data |-> <<>>] \in EeItem
  BY DEF EeItem
<1> QED BY <1>1, EeExtsAppend DEF IsText

(* One item ahead is read as it was written. *)
ReadsItem(buf, q, t, l, d, x, q2) ==
    /\ ReadU(buf, q, 2) = t
    /\ ReadU(buf, Skip(buf, q, 2), 2) = l
    /\ q2 = Skip(buf, Skip(buf, Skip(buf, q, 2), 2), l)
    /\ ReadBytes(buf, Skip(buf, Skip(buf, q, 2), 2), l) = d
    /\ Ahead(buf, Skip(buf, Skip(buf, q, 2), 2), d \o x) /\ Ahead(buf, q2, x)

LEMMA AheadItem ==
    ASSUME NEW buf \in Seq(Byte), NEW q, NEW e \in EeItem, NEW x, IsText(x),
           Ahead(buf, q, ItemText(e) \o x)
    PROVE  \E q2 : ReadsItem(buf, q, e.type, Len(e.data), e.data, x, q2)
<1>1. /\ IsText(e.data) /\ IsText(U16(e.type)) /\ IsText(U16(Len(e.data)))
      /\ e.type \in Nat /\ Len(e.data) \in Nat
  BY ItemIsText
<1>2. PICK t \in Nat, l \in Nat : t = e.type /\ l = Len(e.data)
  BY <1>1
<1>3. PICK d : d = e.data
  OBVIOUS
<1>4. IsText(d \o x) /\ IsText(U16(l) \o (d \o x))
  BY <1>1, <1>2, <1>3, TextJoin
<1>5. ItemText(e) \o x = U16(t) \o (U16(l) \o (d \o x))
  <2>1. IsText(U16(t)) /\ IsText(U16(l)) /\ IsText(d)
    BY <1>1, <1>2, <1>3
  <2>2. PICK a, b : a = U16(t) /\ b = U16(l)
    OBVIOUS
  <2>3. IsText(a) /\ IsText(b) /\ ItemText(e) = (a \o b) \o d
    BY <1>2, <1>3, <2>1, <2>2 DEF ItemText
  <2>4. IsText(a \o b) /\ ((a \o b) \o d) \o x = (a \o b) \o (d \o x)
    BY SMTT(60), <2>1, <2>3, TextAssociates
  <2>5. (a \o b) \o (d \o x) = a \o (b \o (d \o x))
    BY <1>4, <2>3, TextAssociates
  <2> QED BY <2>2, <2>3, <2>4, <2>5
<1>6. PICK q1 : q1 = Skip(buf, q, 2)
  OBVIOUS
<1>7. ReadU(buf, q, 2) = t /\ Ahead(buf, q1, U16(l) \o (d \o x))
  BY <1>4, <1>5, <1>6, AheadNumber
<1>8. PICK q2 : q2 = Skip(buf, q1, 2)
  OBVIOUS
<1>9. ReadU(buf, q1, 2) = l /\ Ahead(buf, q2, d \o x)
  BY <1>4, <1>7, <1>8, AheadNumber
<1>10. ReadBytes(buf, q2, l) = d /\ Ahead(buf, Skip(buf, q2, l), x)
  <2>1. ReadsNext(buf, q2, d, Len(d), x)
    BY <1>1, <1>3, <1>9, AheadReads DEF AheadThen
  <2> QED BY <1>2, <1>3, <2>1 DEF ReadsNext
<1>11. ReadsItem(buf, q, t, l, d, x, Skip(buf, q2, l))
  BY <1>6, <1>7, <1>8, <1>9, <1>10 DEF ReadsItem
<1> QED BY <1>2, <1>3, <1>11

(* The two steps of the check. *)
LEMMA HonestEeStart ==
    ASSUME ParseInv, NEW h, HonestEe(h), HonestlySent(h), EncExtStart
    PROVE  BodyAhead(h)'
<1>1. /\ msg \in Seq(Byte) /\ r = ReaderInit /\ msg = EncodeEe(h.items) /\ kind = "EE"
      /\ pc = "start" /\ msg' = msg /\ kind' = kind /\ h.items \in Seq(EeItem)
  BY DEF ParseInv, Placed, HonestEe, HonestlySent, EncExtStart, Enter
<1>2. PICK x : x = EeExts(h.items)
  OBVIOUS
<1>3. IsText(x) /\ Len(x) \in Nat
  BY <1>1, <1>2, EeExtsText, TextIs
<1>4. msg = U16(Len(x)) \o x
  BY <1>1, <1>2 DEF EncodeEe, EeExts
<1>5. Ahead(msg, r, U16(Len(x)) \o x)
  BY <1>1, <1>4, AheadAtStart
<1>6. PICK q : q = Skip(msg, r, 2)
  OBVIOUS
<1>7. ReadU(msg, r, 2) = Len(x) /\ Ahead(msg, q, x)
  BY <1>1, <1>3, <1>5, <1>6, AheadNumber
<1>8. ~q.err /\ q.pos + Len(x) = Len(msg)
  BY <1>6, <1>7 DEF Ahead
<1>9. r' = q /\ pc' = "loop"
  BY <1>6, <1>7, <1>8 DEF EncExtStart, Enter
<1>10. Ahead(msg', r', EeExts(After(h.items, 0)))
  BY <1>1, <1>2, <1>7, <1>9, AfterEnds
<1>11. \E k \in 0 .. Len(h.items) : Ahead(msg', r', EeExts(After(h.items, k)))
  <2>1. 0 \in 0 .. Len(h.items)
    BY <1>1, LenProperties
  <2> QED BY <1>10, <2>1
<1> QED BY <1>1, <1>9, <1>11 DEF BodyAhead

LEMMA HonestEeNext ==
    ASSUME ParseInv, NEW h, HonestEe(h), HonestlySent(h), BodyAhead(h), EncExtNext
    PROVE  BodyAhead(h)'
<1>1. /\ msg \in Seq(Byte) /\ kind = "EE" /\ h.items \in Seq(EeItem)
      /\ pc = "loop" /\ msg' = msg /\ kind' = kind /\ r.pos < Len(msg)
  BY DEF ParseInv, Placed, HonestEe, HonestlySent, EncExtNext
<1>2. PICK n \in 0 .. Len(h.items) : Ahead(msg, r, EeExts(After(h.items, n)))
  BY <1>1 DEF BodyAhead
<1>3. Len(h.items) \in Nat /\ n \in Nat
  BY <1>1, LenProperties
<1>4. n < Len(h.items)
  <2> SUFFICES ASSUME n = Len(h.items) PROVE FALSE
    BY <1>3
  <2>1. EeExts(After(h.items, n)) = <<>>
    BY <1>1, AfterEnds, EeExtsEmpty
  <2>2. Len(EeExts(After(h.items, n))) # 0
    BY <1>1, <1>2, AheadEnd
  <2> QED BY <2>1, <2>2
<1>5. PICK e, x : e = h.items[n + 1] /\ x = EeExts(After(h.items, n + 1))
  OBVIOUS
<1>6. e \in EeItem /\ IsText(x) /\ Ahead(msg, r, ItemText(e) \o x)
  BY <1>1, <1>2, <1>3, <1>4, <1>5, EeNextItem
<1>7. PICK q2 : ReadsItem(msg, r, e.type, Len(e.data), e.data, x, q2)
  BY <1>1, <1>6, AheadItem
<1>8. /\ ReadU(msg, r, 2) = e.type /\ ReadU(msg, Skip(msg, r, 2), 2) = Len(e.data)
      /\ q2 = Skip(msg, Skip(msg, Skip(msg, r, 2), 2), Len(e.data))
      /\ Ahead(msg, q2, x) /\ ~q2.err
  BY <1>7 DEF ReadsItem, Ahead
<1>9. Allowed(e.type, Len(e.data))
  <2>1. n + 1 \in 1 .. Len(h.items)
    BY <1>3, <1>4
  <2>2. \/ e.type = SupportedGroups
        \/ e.type = ServerName /\ e.data = <<>> /\ h.sni
    BY <1>5, <2>1 DEF HonestEe
  <2>3. h.sni => sniOffered
    BY DEF HonestlySent
  <2> QED BY <2>2, <2>3 DEF Allowed
<1>10. r' = q2 /\ pc' = "loop"
  <2>1. r' = q2 /\ ret' = EncExtRet(q2.err, e.type, Len(e.data))
    BY <1>8 DEF EncExtNext
  <2>2. ret' = "SUCCESS"
    BY <1>8, <1>9, <2>1 DEF EncExtRet
  <2> QED BY <2>1, <2>2 DEF EncExtNext
<1>11. \E k \in 0 .. Len(h.items) : Ahead(msg', r', EeExts(After(h.items, k)))
  <2>1. n + 1 \in 0 .. Len(h.items)
    BY <1>3, <1>4
  <2> QED BY <1>1, <1>5, <1>8, <1>10, <2>1
<1> QED BY <1>1, <1>10, <1>11 DEF BodyAhead

-----------------------------------------------------------------------------
(***************************************************************************)
(* Certificate: the first MaxChain entries of an honest list come out as   *)
(* they are, each with its extensions passed over.                         *)
(***************************************************************************)
Entry == [data : Seq(Number), exts : Seq(Number)]

HonestCert(h) ==
    h.kind = "CERT" /\ h.items \in Seq(Entry) /\ h.msg = EncodeCert(h.items)

LEMMA BytesInEntries == [data : Seq(Byte), exts : Seq(Byte)] \subseteq Entry
<1> SUFFICES ASSUME NEW e \in [data : Seq(Byte), exts : Seq(Byte)] PROVE e \in Entry
  OBVIOUS
<1>1. e = [data |-> e.data, exts |-> e.exts] /\ e.data \in Seq(Byte) /\ e.exts \in Seq(Byte)
  OBVIOUS
<1>2. e.data \in Seq(Number) /\ e.exts \in Seq(Number)
  BY <1>1, BytesAreNumbers
<1> QED BY <1>1, <1>2 DEF Entry

LEMMA HonestCertIs ==
    ASSUME NEW h \in HonestBodies, h.kind = "CERT"
    PROVE  HonestCert(h)
<1>1. WellFormedBody(h)
  BY HonestBodiesAssumption
<1>2. h.msg = EncodeCert(h.items) /\ h.items \in Seq([data : Seq(Byte), exts : Seq(Byte)])
  BY <1>1 DEF WellFormedBody
<1>3. h.items \in Seq(Entry)
  BY <1>2, BytesInEntries, SeqMonotonic
<1> QED BY <1>2, <1>3 DEF HonestCert

EntryText(e) == EncodeEntry(e.data, e.exts)

LEMMA EntryMaps ==
    \E f : /\ MapsTo(f, Entry, Number)
           /\ \A x \in Entry : f[x] = EntryText(x)
           /\ \A q \in Seq(Entry) : CertExts(q) = FlatMap(f, q)
<1>1. PICK f : f = [x \in Entry |-> EntryText(x)]
  OBVIOUS
<1>2. \A x \in Entry : f[x] = EntryText(x)
  BY <1>1
<1>3. MapsTo(f, Entry, Number)
  <2>1. \A x \in Entry : EntryText(x) \in Seq(Number)
    BY EntryType DEF Entry, EntryText
  <2>2. f \in [Entry -> Seq(Number)]
    BY <1>1, <2>1
  <2> QED BY <2>2 DEF MapsTo
<1>4. ASSUME NEW q \in Seq(Entry) PROVE CertExts(q) = FlatMap(f, q)
  <2>1. \A i \in DOMAIN q : q[i] \in Entry
    BY ElementOfSeq, LenProperties
  <2>2. [i \in DOMAIN q |-> f[q[i]]]
          = [i \in DOMAIN q |-> EncodeEntry(q[i].data, q[i].exts)]
    BY <1>2, <2>1 DEF EntryText
  <2> QED BY <2>2 DEF CertExts, FlatMap
<1> QED BY <1>2, <1>3, <1>4

LEMMA NextEntry ==
    ASSUME NEW es \in Seq(Entry), NEW n \in Nat, n < Len(es)
    PROVE  /\ es[n + 1] \in Entry /\ IsText(CertExts(After(es, n + 1)))
           /\ CertExts(After(es, n)) = EntryText(es[n + 1]) \o CertExts(After(es, n + 1))
<1>1. PICK f : /\ MapsTo(f, Entry, Number)
               /\ \A x \in Entry : f[x] = EntryText(x)
               /\ \A q \in Seq(Entry) : CertExts(q) = FlatMap(f, q)
  BY EntryMaps
<1>2. NextPiece(f, Entry, Number, es, n)
  BY <1>1, FlatMapAfter DEF Maps
<1> QED BY <1>1, <1>2 DEF NextPiece, IsText

LEMMA CertExtsText == \A es \in Seq(Entry) : IsText(CertExts(es))
<1> SUFFICES ASSUME NEW es \in Seq(Entry) PROVE IsText(CertExts(es))
  OBVIOUS
<1>1. PICK f : MapsTo(f, Entry, Number) /\ \A q \in Seq(Entry) : CertExts(q) = FlatMap(f, q)
  BY EntryMaps
<1>2. [data |-> <<>>, exts |-> <<>>] \in Entry
  BY DEF Entry
<1>3. FlatMap(f, es) \in Seq(Number)
  BY <1>1, <1>2, FlatMapAppend
<1> QED BY <1>1, <1>3 DEF IsText

LEMMA NoEntries == CertExts(<<>>) = <<>>
BY FlattenEmpty DEF CertExts

(* One entry ahead: data and extensions, and where they stand. *)
ReadsEntry(buf, q, e, x) ==
    LET q1 == Skip(buf, q, 3)
        q2 == Skip(buf, q1, Len(e.data))
    IN /\ ReadU(buf, q, 3) = Len(e.data)
       /\ SubSeq(buf, q1.pos + 1, q1.pos + Len(e.data)) = e.data
       /\ q1.pos \in Nat
       /\ ReadU(buf, q2, 2) = Len(e.exts)
       /\ Ahead(buf, Skip(buf, Skip(buf, q2, 2), Len(e.exts)), x)

LEMMA AheadEntry ==
    ASSUME NEW buf \in Seq(Byte), NEW q, NEW e \in Entry, NEW x, IsText(x),
           Ahead(buf, q, EntryText(e) \o x)
    PROVE  ReadsEntry(buf, q, e, x)
<1>1. PICK d, y : d = e.data /\ y = e.exts
  OBVIOUS
<1>2. IsText(d) /\ IsText(y) /\ Len(d) \in Nat /\ Len(y) \in Nat
  BY <1>1, LenProperties DEF Entry, IsText
<1>3. PICK a, b : a = U24(Len(d)) /\ b = U16(Len(y))
  OBVIOUS
<1>4. IsText(a) /\ IsText(b)
  BY <1>2, <1>3, EncodingTypes DEF IsText
<1>5. PICK u : u = y \o x
  OBVIOUS
<1>6. PICK v : v = b \o u
  OBVIOUS
<1>7. PICK w : w = d \o v
  OBVIOUS
<1>8. /\ IsText(u) /\ IsText(v) /\ IsText(w)
      /\ EntryText(e) \o x = a \o w
  <2>1. EntryText(e) = ((a \o d) \o b) \o y
    BY <1>1, <1>3 DEF EntryText, EncodeEntry
  <2>2. IsText(u)
    BY <1>2, <1>5, TextJoin
  <2>3. IsText(v)
    BY <1>4, <1>6, <2>2, TextJoin
  <2>4. IsText(w)
    BY <1>2, <1>7, <2>3, TextJoin
  <2>5. IsText(a \o d) /\ (a \o d) \o v = a \o w
    <3>1. IsText(a \o d) /\ (a \o d) \o v = a \o (d \o v)
      BY <1>2, <1>4, <2>3, TextAssociates
    <3> QED BY <1>7, <3>1
  <2>6. PICK z : z = a \o d
    OBVIOUS
  <2>7. IsText(z \o b) /\ (z \o b) \o u = z \o v
    <3>1. IsText(z)
      BY <2>5, <2>6
    <3>2. IsText(z \o b) /\ (z \o b) \o u = z \o (b \o u)
      BY <1>4, <2>2, <3>1, TextAssociates
    <3> QED BY <1>6, <3>2
  <2>8. ((z \o b) \o y) \o x = (z \o b) \o u
    <3>1. PICK c : c = z \o b
      OBVIOUS
    <3>2. IsText(c)
      BY <2>7, <3>1
    <3>3. (c \o y) \o x = c \o (y \o x)
      BY <1>2, <3>2, TextAssociates
    <3> QED BY <1>5, <3>1, <3>3
  <2> QED BY <2>1, <2>2, <2>3, <2>4, <2>5, <2>6, <2>7, <2>8
<1>9. PICK q1 : q1 = Skip(buf, q, 3)
  OBVIOUS
<1>10. ReadU(buf, q, 3) = Len(d) /\ Ahead(buf, q1, w)
  BY <1>2, <1>3, <1>8, <1>9, AheadNumber
<1>11. PICK q2 : q2 = Skip(buf, q1, Len(d))
  OBVIOUS
<1>12. /\ SubSeq(buf, q1.pos + 1, q1.pos + Len(d)) = d
      /\ Ahead(buf, q2, v)
  <2>1. ReadsNext(buf, q1, d, Len(d), v)
    BY <1>2, <1>8, <1>10, <1>7, AheadReads DEF AheadThen
  <2> QED BY <1>11, <2>1 DEF ReadsNext
<1>13. PICK q3 : q3 = Skip(buf, q2, 2)
  OBVIOUS
<1>14. ReadU(buf, q2, 2) = Len(y) /\ Ahead(buf, q3, u)
  BY <1>2, <1>3, <1>8, <1>12, <1>13, <1>6, AheadNumber
<1>15. Ahead(buf, Skip(buf, q3, Len(y)), x)
  <2>1. ReadsNext(buf, q3, y, Len(y), x)
    BY <1>2, <1>14, <1>5, AheadReads DEF AheadThen
  <2> QED BY <2>1 DEF ReadsNext
<1>16. q1.pos \in Nat
  BY <1>10 DEF Ahead, Within, Reader
<1> QED BY <1>1, <1>9, <1>10, <1>11, <1>12, <1>13, <1>14, <1>15, <1>16 DEF ReadsEntry

LEMMA HonestCertStart ==
    ASSUME ParseInv, NEW h, HonestCert(h), HonestlySent(h), CertStart
    PROVE  BodyAhead(h)'
<1>1. /\ msg \in Seq(Byte) /\ r = ReaderInit /\ msg = EncodeCert(h.items) /\ kind = "CERT"
      /\ pc = "start" /\ msg' = msg /\ kind' = kind /\ h.items \in Seq(Entry)
      /\ items = <<>> /\ items' = items
  BY DEF ParseInv, Placed, HonestCert, HonestlySent, CertStart, Enter
<1>2. PICK x : x = CertExts(h.items)
  OBVIOUS
<1>3. IsText(x) /\ Len(x) \in Nat
  BY <1>1, <1>2, CertExtsText, TextIs
<1>4. PICK a, b : a = <<0>> /\ b = U24(Len(x))
  OBVIOUS
<1>5. IsText(a) /\ IsText(b) /\ IsText(b \o x)
  <2>1. IsText(a) /\ IsText(b)
    BY <1>3, <1>4, EncodingTypes DEF IsText
  <2> QED BY <1>3, <2>1, TextJoin
<1>6. msg = a \o (b \o x)
  <2>1. msg = (a \o b) \o x
    BY <1>1, <1>2, <1>4 DEF EncodeCert, CertExts
  <2> QED BY <1>3, <1>5, <2>1, TextAssociates
<1>7. PICK q : q = Skip(msg, r, 1)
  OBVIOUS
<1>8. ReadU(msg, r, 1) = 0 /\ Ahead(msg, q, b \o x)
  <2>1. Ahead(msg, r, <<0>> \o (b \o x))
    BY <1>1, <1>4, <1>6, AheadAtStart
  <2> QED BY <1>1, <1>5, <1>7, <2>1, AheadNumber
<1>9. PICK q1 : q1 = Skip(msg, q, 0)
  OBVIOUS
<1>10. Ahead(msg, q1, b \o x)
  <2>1. <<>> \o (b \o x) = b \o x /\ IsText(<<>>) /\ Len(<<>>) = 0
    BY <1>5, ConcatEmptySeq DEF IsText
  <2>2. ReadsNext(msg, q, <<>>, Len(<<>>), b \o x)
    BY <1>1, <1>5, <1>8, <2>1, AheadReads DEF AheadThen
  <2> QED BY <1>9, <2>1, <2>2 DEF ReadsNext
<1>11. PICK q2 : q2 = Skip(msg, q1, 3)
  OBVIOUS
<1>12. ReadU(msg, q1, 3) = Len(x) /\ Ahead(msg, q2, x)
  BY <1>1, <1>3, <1>4, <1>10, <1>11, AheadNumber
<1>13. ~q2.err /\ q2.pos + Len(x) = Len(msg)
  BY <1>12 DEF Ahead
<1>14. r' = q2 /\ pc' = "loop"
  BY <1>7, <1>8, <1>9, <1>11, <1>12, <1>13 DEF CertStart, Enter, ListFills
<1>15. Len(items') = 0 /\ items' = <<>> /\ DOMAIN items' = {} /\ Len(h.items) \in Nat
  BY <1>1, LenProperties
<1>16. Ahead(msg', r', CertExts(After(h.items, Len(items'))))
  BY <1>1, <1>2, <1>12, <1>14, <1>15, AfterEnds
<1>17. CertTaken(h)'
  BY <1>15 DEF CertTaken
<1> QED BY <1>1, <1>14, <1>16, <1>17 DEF BodyAhead

LEMMA HonestCertNext ==
    ASSUME ParseInv, NEW h, HonestCert(h), HonestlySent(h), BodyAhead(h), CertNext
    PROVE  BodyAhead(h)'
<1>1. /\ msg \in Seq(Byte) /\ kind = "CERT" /\ h.items \in Seq(Entry)
      /\ pc = "loop" /\ pc' = pc /\ msg' = msg /\ kind' = kind /\ r.pos < Len(msg)
      /\ items \in Seq(CertItem)
  BY DEF ParseInv, Placed, CertInv, HonestCert, HonestlySent, CertNext, CertTurn
<1>2. PICK n \in Nat, l \in Nat : n = Len(items) /\ l = Len(h.items)
  BY <1>1, LenProperties
<1>3. /\ Ahead(msg, r, CertExts(After(h.items, n))) /\ n <= l
      /\ \A i \in 1 .. n : Slice(items[i]) = h.items[i].data
  BY <1>1, <1>2, LenProperties DEF BodyAhead, CertTaken
<1>4. n < l
  <2> SUFFICES ASSUME n = l PROVE FALSE
    BY <1>3
  <2>1. CertExts(After(h.items, n)) = <<>>
    BY <1>1, <1>2, AfterEnds, NoEntries
  <2>2. Len(CertExts(After(h.items, n))) # 0
    BY <1>1, <1>3, AheadEnd
  <2> QED BY <2>1, <2>2
<1>5. PICK e, x : e = h.items[n + 1] /\ x = CertExts(After(h.items, n + 1))
  OBVIOUS
<1>6. e \in Entry /\ IsText(x) /\ Ahead(msg, r, EntryText(e) \o x)
  BY <1>1, <1>2, <1>3, <1>4, <1>5, NextEntry
<1>7. ReadsEntry(msg, r, e, x)
  BY <1>1, <1>6, AheadEntry
<1>8. Len(e.data) \in Nat /\ Len(e.exts) \in Nat
  BY <1>6, LenProperties DEF Entry
<1>9. PICK q1, q2, q3 : /\ q1 = Skip(msg, r, 3) /\ q2 = Skip(msg, q1, Len(e.data))
                        /\ q3 = Skip(msg, Skip(msg, q2, 2), Len(e.exts))
  OBVIOUS
<1>10. /\ ReadU(msg, r, 3) = Len(e.data) /\ ReadU(msg, q2, 2) = Len(e.exts)
       /\ SubSeq(msg, q1.pos + 1, q1.pos + Len(e.data)) = e.data
       /\ q1.pos \in Nat /\ Ahead(msg, q3, x)
  BY <1>7, <1>9 DEF ReadsEntry
<1>11. PICK it : it = [off |-> q1.pos, len |-> Len(e.data), extl |-> Len(e.exts)]
  OBVIOUS
<1>12. r' = q3 /\ items' = Append(items, it)
  BY <1>9, <1>10, <1>11 DEF CertNext, EntryEnd
<1>13. it \in CertItem /\ it.off = q1.pos /\ it.len = Len(e.data)
  BY <1>8, <1>10, <1>11 DEF CertItem
<1>14. /\ Len(items') = n + 1 /\ DOMAIN items' = 1 .. n + 1
       /\ \A i \in 1 .. n : items'[i] = items[i]
       /\ items'[n + 1] = it
  <2>1. items' \in Seq(CertItem)
    BY <1>1, <1>12, <1>13, AppendProperties
  <2>2. /\ Len(items') = n + 1
        /\ \A i \in 1 .. n : items'[i] = items[i]
        /\ items'[n + 1] = it
    BY <1>1, <1>2, <1>12, <1>13, AppendProperties
  <2> QED BY <2>1, <2>2, LenProperties
<1>15. ASSUME NEW i \in DOMAIN items'
       PROVE  SubSeq(msg', items'[i].off + 1, items'[i].off + items'[i].len) = h.items[i].data
  <2>1. i \in 1 .. n \/ i = n + 1
    BY <1>14
  <2>2. CASE i \in 1 .. n
    BY <1>1, <1>3, <1>14, <2>2 DEF Slice
  <2>3. CASE i = n + 1
    BY <1>1, <1>5, <1>10, <1>13, <1>14, <2>3
  <2> QED BY <2>1, <2>2, <2>3
<1>16. CertTaken(h)'
  BY <1>2, <1>4, <1>14, <1>15 DEF CertTaken, Slice
<1>17. Ahead(msg', r', CertExts(After(h.items, Len(items'))))
  BY <1>1, <1>5, <1>10, <1>12, <1>14
<1> QED BY <1>1, <1>16, <1>17 DEF BodyAhead

(* Leaving the loop: the list is read to its end, or certs[] is full. *)
LEMMA HonestEeEnds ==
    ASSUME ParseInv, NEW h, HonestEe(h), HonestlySent(h), BodyAhead(h), LoopEnds
    PROVE  BodyAhead(h)'
<1>1. /\ kind = "EE" /\ pc = "loop" /\ kind' = kind /\ pc' = "done"
      /\ ret' = IF r.err THEN "E_DECODE" ELSE "SUCCESS"
  BY DEF HonestEe, HonestlySent, LoopEnds
<1>2. ~r.err
  BY <1>1 DEF BodyAhead, Ahead
<1> QED BY <1>1, <1>2 DEF BodyAhead

LEMMA HonestCertEnds ==
    ASSUME ParseInv, NEW h, HonestCert(h), HonestlySent(h), BodyAhead(h), LoopEnds
    PROVE  BodyAhead(h)'
<1>1. /\ msg \in Seq(Byte) /\ kind = "CERT" /\ h.items \in Seq(Entry) /\ pc = "loop"
      /\ kind' = kind /\ msg' = msg /\ pc' = "done" /\ items' = items /\ ~CertTurn
      /\ ret' = IF r.err THEN "E_DECODE" ELSE "SUCCESS"
      /\ items \in Seq(CertItem) /\ Len(items) <= MaxChain
  BY DEF ParseInv, Placed, CertInv, HonestCert, HonestlySent, LoopEnds
<1>2. PICK n \in Nat, l \in Nat : n = Len(items) /\ l = Len(h.items)
  BY <1>1, LenProperties
<1>3. /\ Ahead(msg, r, CertExts(After(h.items, n))) /\ n <= l /\ CertTaken(h)
  BY <1>1, <1>2 DEF BodyAhead, CertTaken
<1>4. ~r.err /\ ret' = "SUCCESS"
  BY <1>1, <1>3 DEF Ahead
<1>5. ~(r.pos < Len(msg)) => n = l
  <2> SUFFICES ASSUME n < l PROVE r.pos < Len(msg)
    BY <1>3
  <2>1. PICK e, x : e = h.items[n + 1] /\ x = CertExts(After(h.items, n + 1))
    OBVIOUS
  <2>2. e \in Entry /\ IsText(x) /\ Ahead(msg, r, EntryText(e) \o x)
    BY <1>1, <1>2, <1>3, <2>1, NextEntry
  <2>3. ReadsEntry(msg, r, e, x)
    BY <1>1, <2>2, AheadEntry
  <2>4. PICK q1, q2, q3 : /\ q1 = Skip(msg, r, 3) /\ q2 = Skip(msg, q1, Len(e.data))
                          /\ q3 = Skip(msg, Skip(msg, q2, 2), Len(e.exts))
    OBVIOUS
  <2>5. IsText(EntryText(e)) /\ Len(EntryText(e)) >= 3
    <3>1. /\ e.data \in Seq(Number) /\ e.exts \in Seq(Number)
          /\ Len(e.data) \in Nat /\ Len(e.exts) \in Nat
      BY <2>2, LenProperties DEF Entry
    <3>2. PICK a, b : a = U24(Len(e.data)) /\ b = U16(Len(e.exts))
      OBVIOUS
    <3>3. IsText(a) /\ Len(a) = 3 /\ IsText(b) /\ IsText(e.data) /\ IsText(e.exts)
      BY <3>1, <3>2, EncodingTypes DEF IsText
    <3>4. IsText(a \o e.data) /\ Len(a \o e.data) = Len(a) + Len(e.data)
      BY <3>3, TextJoin
    <3>5. PICK c : c = a \o e.data
      OBVIOUS
    <3>6. IsText(c \o b) /\ Len(c \o b) = Len(c) + Len(b)
      BY <3>3, <3>4, <3>5, TextJoin
    <3>7. PICK d : d = c \o b
      OBVIOUS
    <3>8. IsText(d \o e.exts) /\ Len(d \o e.exts) = Len(d) + Len(e.exts)
      BY <3>3, <3>6, <3>7, TextJoin
    <3>9. EntryText(e) = d \o e.exts
      BY <3>2, <3>5, <3>7 DEF EntryText, EncodeEntry
    <3>10. Len(b) \in Nat
      BY <3>3, TextIs
    <3>11. PICK m \in Nat, n2 \in Nat, k \in Nat :
              m = Len(e.data) /\ n2 = Len(b) /\ k = Len(e.exts)
      BY <3>1, <3>10
    <3>12. Len(EntryText(e)) = ((3 + m) + n2) + k
      BY <3>3, <3>4, <3>5, <3>6, <3>7, <3>8, <3>9, <3>11
    <3> QED BY <3>8, <3>9, <3>12
  <2>6. Len(EntryText(e) \o x) = Len(EntryText(e)) + Len(x) /\ Len(x) \in Nat
        /\ Len(EntryText(e)) \in Nat
    BY <2>2, <2>5, TextJoin, TextIs
  <2>7. Len(EntryText(e) \o x) # 0
    BY <2>5, <2>6
  <2> QED BY <1>1, <2>2, <2>7, AheadEnd
<1>6. n = l \/ n = MaxChain
  <2>1. ~(r.pos < Len(msg)) \/ ~(n < MaxChain)
    BY <1>1, <1>2, <1>4 DEF CertTurn, CertRoom
  <2>2. MaxChain \in Nat
    BY FlightMsgsAssumption
  <2> QED BY <1>1, <1>2, <1>5, <2>1, <2>2
<1>7. n = IF l < MaxChain THEN l ELSE MaxChain
  <2>1. MaxChain \in Nat /\ n <= MaxChain
    BY <1>1, <1>2, FlightMsgsAssumption
  <2> QED BY <1>3, <1>6, <2>1
<1>8. \A i \in DOMAIN items' : SubSeq(msg', items'[i].off + 1, items'[i].off + items'[i].len)
                                 = h.items[i].data
  BY <1>1, <1>3 DEF CertTaken, Slice
<1> QED BY <1>1, <1>2, <1>4, <1>7, <1>8 DEF BodyAhead, Slice

(* CertificateVerify: one item, the scheme and the signature. *)
LEMMA HonestCvIs ==
    ASSUME NEW h \in HonestBodies, h.kind = "CV"
    PROVE  h.items[1] \in EeItem /\ h.msg = EncodeCv(h.items[1])
<1>1. WellFormedBody(h)
  BY HonestBodiesAssumption
<1>2. /\ h.msg = EncodeCv(h.items[1]) /\ h.items \in Seq([type : Word16, data : Seq(Byte)])
      /\ Len(h.items) = 1
  BY <1>1 DEF WellFormedBody
<1>3. h.items[1] \in [type : Word16, data : Seq(Byte)]
  <2>1. 1 \in 1 .. Len(h.items)
    BY <1>2
  <2> QED BY <1>2, <2>1, ElementOfSeq
<1> QED BY <1>2, <1>3, BytesInItems

LEMMA HonestCv ==
    ASSUME ParseInv, NEW h \in HonestBodies, h.kind = "CV", HonestlySent(h), CvParse
    PROVE  BodyAhead(h)'
<1>1. /\ msg \in Seq(Byte) /\ kind = "CV" /\ r = ReaderInit /\ msg = EncodeCv(h.items[1])
      /\ h.items[1] \in EeItem /\ kind' = kind /\ pc' = "done"
  BY HonestCvIs DEF ParseInv, Placed, HonestlySent, CvParse
<1>2. PICK e : e = h.items[1]
  OBVIOUS
<1>3. PICK x : x = <<>>
  OBVIOUS
<1>4. IsText(x) /\ Len(x) = 0
  BY <1>3 DEF IsText
<1>5. ItemText(e) \o x = msg
  <2>1. ItemText(e) \in Seq(Number) /\ msg = ItemText(e)
    BY <1>1, <1>2, ItemIsText DEF EncodeCv, ItemText
  <2> QED BY <1>3, <2>1, ConcatEmptySeq
<1>6. Ahead(msg, r, ItemText(e) \o x)
  BY <1>1, <1>5, AheadAtStart
<1>7. PICK q3 : ReadsItem(msg, r, e.type, Len(e.data), e.data, x, q3)
  BY <1>1, <1>2, <1>4, <1>6, AheadItem
<1>8. PICK q2 : q2 = Skip(msg, Skip(msg, r, 2), 2)
  OBVIOUS
<1>9. /\ ReadU(msg, Skip(msg, r, 2), 2) = Len(e.data)
      /\ q3 = Skip(msg, q2, Len(e.data)) /\ Ahead(msg, q3, x)
  BY <1>7, <1>8 DEF ReadsItem
<1>10. Within(msg, q2) /\ Len(e.data) \in Nat
  <2>1. Within(msg, r)
    BY DEF ParseInv, Placed
  <2>2. Within(msg, Skip(msg, r, 2))
    BY <1>1, <2>1, SkipWithin
  <2> QED BY <1>1, <1>2, <1>8, <2>2, SkipWithin, ItemIsText
<1>11. ~q2.err /\ q3.pos = q2.pos + Len(e.data)
  <2>1. ~q3.err
    BY <1>9 DEF Ahead
  <2>2. PICK l \in Nat : l = Len(e.data)
    BY <1>10
  <2>3. ~Skip(msg, q2, l).err => ~q2.err /\ Skip(msg, q2, l).pos = q2.pos + l
    BY <1>1, <1>10, SkipWithin
  <2> QED BY <1>9, <2>1, <2>2, <2>3
<1>12. q3.pos = Len(msg)
  BY <1>4, <1>9 DEF Ahead, Within, Reader
<1>13. ret' = "SUCCESS"
  BY <1>8, <1>9, <1>11, <1>12 DEF CvParse
<1> QED BY <1>1, <1>13 DEF BodyAhead

-----------------------------------------------------------------------------
(***************************************************************************)
(* Every step, on every honest body.                                       *)
(***************************************************************************)
LEMMA BodyKinds == \A h \in HonestBodies : h.kind \in {"EE", "CERT", "CV"}
BY HonestBodiesAssumption DEF WellFormedBody

LEMMA BodyUnchanged ==
    ASSUME NEW h, BodyAhead(h), UNCHANGED <<kind, msg, pc, r, ret, items, sniOffered>>
    PROVE  BodyAhead(h)'
BY DEF BodyAhead, CertTaken, Slice

LEMMA BodyStep == ParseInv /\ HonestBodyInv /\ [Next]_vars => HonestBodyInv'
<1> SUFFICES ASSUME ParseInv, HonestBodyInv, [Next]_vars, NEW h \in HonestBodies,
                    HonestlySent(h)'
             PROVE  BodyAhead(h)'
  BY DEF HonestBodyInv
<1>1. h.kind \in {"EE", "CERT", "CV"}
  BY BodyKinds
<1>2. kind' = kind /\ msg' = msg /\ sniOffered' = sniOffered
  BY DEF Next, HelloNext, FlightNext, ParseHeader, ParseExtension, ParseKeyShare, ParseVersion,
         ParsePreShared, RefuseExtension, ExtDone, ParseEnd, DriverChecks, EncExtStart, Enter,
         EncExtNext, CertStart, CertNext, LoopEnds, CvParse, vars, parserVars
<1>3. HonestlySent(h) /\ BodyAhead(h)
  BY <1>2 DEF HonestlySent, HonestBodyInv
<1>4. /\ kind = "EE" => HonestEe(h)
      /\ kind = "CERT" => HonestCert(h)
      /\ kind = "CV" => h.kind = "CV"
      /\ kind \in {"EE", "CERT", "CV"}
  BY <1>1, <1>3, HonestEeIs, HonestCertIs DEF HonestlySent
<1>5. pc \in {"start", "loop", "done"}
  BY <1>4 DEF ParseInv, Placed
<1>6. CASE HelloNext
  <2>1. pc \in {"header", "exts", "driver"}
    BY <1>6 DEF HelloNext, ParseHeader, ParseExtension, ParseKeyShare, ParseVersion,
                ParsePreShared, RefuseExtension, InLoop, ParseEnd, DriverChecks
  <2> QED BY <1>5, <2>1
<1>7. CASE FlightNext
  <2>1. CASE EncExtStart
    BY <1>3, <1>4, <2>1, HonestEeStart DEF EncExtStart
  <2>2. CASE EncExtNext
    BY <1>3, <1>4, <2>2, HonestEeNext DEF EncExtNext
  <2>3. CASE CertStart
    BY <1>3, <1>4, <2>3, HonestCertStart DEF CertStart
  <2>4. CASE CertNext
    BY <1>3, <1>4, <2>4, HonestCertNext DEF CertNext, CertTurn
  <2>5. CASE LoopEnds
    BY <1>3, <1>4, <2>5, HonestEeEnds, HonestCertEnds DEF LoopEnds
  <2>6. CASE CvParse
    BY <1>3, <1>4, <2>6, HonestCv DEF CvParse
  <2> QED BY <1>7, <2>1, <2>2, <2>3, <2>4, <2>5, <2>6 DEF FlightNext
<1>8. CASE UNCHANGED vars
  BY <1>3, <1>8, BodyUnchanged DEF vars, parserVars
<1> QED BY <1>6, <1>7, <1>8 DEF Next

-----------------------------------------------------------------------------
(***************************************************************************)
(* ServerHello (wn_ServerHello_Parse, wn_serverhello.c:83): fields and     *)
(* extensions of an honest hello, in any order of the extensions.          *)
(***************************************************************************)
(* The fields of a hello as the parser returns them. *)
FieldsOf(f) ==
    [hrr |-> FALSE, sid |-> f.sid, cipher |-> f.cipher, group |-> f.group,
     share |-> f.share, version |-> f.version, psk |-> f.psk]

(* The types of the first n extensions. *)
TypesIn(f, n) == {f.order[i] : i \in 1 .. n}

HonestHello(f) ==
    /\ FieldsOf(f) \in Parsed
    /\ f.random \in Seq(Number) /\ Len(f.random) = RandomSz
    /\ f.order \in Seq(Known) /\ \A i, j \in 1 .. Len(f.order) : i # j => f.order[i] # f.order[j]
    /\ KeyShare \in TypesIn(f, Len(f.order)) \/ (f.group = 0 /\ f.share = <<>>)
    /\ SupportedVersions \in TypesIn(f, Len(f.order)) \/ f.version = 0
    /\ IF PreShared \in TypesIn(f, Len(f.order)) THEN f.psk \in Nat ELSE f.psk = -1

LEMMA HonestHelloIs ==
    ASSUME NEW h \in HonestHellos
    PROVE  HonestHello(h.fields) /\ h.bytes = Encode(h.fields, h.fields.random, h.fields.order)
<1>1. PICK f : f = h.fields
  OBVIOUS
<1>2. WellFormedHello(f) /\ h.bytes = Encode(f, f.random, f.order)
  BY <1>1, HonestHellosAssumption
<1>3. /\ f.sid \in Seq(Number) /\ f.share \in Seq(Number) /\ f.random \in Seq(Number)
      /\ Len(f.random) = RandomSz
  BY <1>2, BytesAreNumbers DEF WellFormedHello
<1>4. f.cipher \in Nat /\ f.group \in Nat /\ f.version \in Nat
  <2>1. f.cipher \in Word16 /\ f.group \in Word16 /\ f.version \in Word16
    <3> HIDE DEF Word16
    <3> QED BY <1>2 DEF WellFormedHello
  <2> QED BY <2>1, WordsAreNumbers
<1>5. f.order \in Seq(Known) /\ ToSet(f.order) = TypesIn(f, Len(f.order))
  <2>1. f.order \in Seq(Known)
    BY <1>2 DEF WellFormedHello, Known
  <2> QED BY <2>1, LenProperties DEF ToSet, TypesIn
<1>6. \A i, j \in 1 .. Len(f.order) : i # j => f.order[i] # f.order[j]
  <2>1. IsInjective(f.order) /\ DOMAIN f.order = 1 .. Len(f.order)
    BY <1>2, <1>5, LenProperties DEF WellFormedHello
  <2> QED BY <2>1 DEF IsInjective
<1>7. /\ KeyShare \in TypesIn(f, Len(f.order)) \/ (f.group = 0 /\ f.share = <<>>)
      /\ SupportedVersions \in TypesIn(f, Len(f.order)) \/ f.version = 0
  BY <1>2, <1>5 DEF WellFormedHello
<1>8. /\ IF PreShared \in TypesIn(f, Len(f.order)) THEN f.psk \in Nat ELSE f.psk = -1
      /\ f.psk \in Int
  <2>1. IF PreShared \in TypesIn(f, Len(f.order)) THEN f.psk \in Word16 ELSE f.psk = -1
    BY <1>2, <1>5 DEF WellFormedHello
  <2>2. f.psk \in Word16 => f.psk \in Nat
    BY WordsAreNumbers
  <2>3. CASE PreShared \in TypesIn(f, Len(f.order))
    <3>1. f.psk \in Nat
      BY <2>1, <2>2, <2>3
    <3> QED BY <2>3, <3>1
  <2>4. CASE PreShared \notin TypesIn(f, Len(f.order))
    <3>1. f.psk = -1
      BY <2>1, <2>4
    <3> QED BY <2>4, <3>1
  <2> QED BY <2>3, <2>4
<1>9. FieldsOf(f) \in Parsed
  BY <1>3, <1>4, <1>8 DEF FieldsOf, Parsed
<1> QED BY <1>1, <1>2, <1>3, <1>5, <1>6, <1>7, <1>8, <1>9 DEF HonestHello

(* An extension is written like one of EncryptedExtensions. *)
LEMMA HelloPiece ==
    ASSUME NEW f, HonestHello(f), NEW t \in TypesIn(f, Len(f.order))
    PROVE  /\ t \in Known /\ t \in Nat /\ IsText(Content(f, t))
           /\ [type |-> t, data |-> Content(f, t)] \in EeItem
           /\ EncodeExt(f, t) = ItemText([type |-> t, data |-> Content(f, t)])
<1>1. PICK o, S : o = FieldsOf(f) /\ S = TypesIn(f, Len(f.order))
  OBVIOUS
<1>2. o \in Parsed /\ (PreShared \in S => o.psk \in Nat)
  BY <1>1 DEF HonestHello, FieldsOf
<1>3. S \subseteq Known
  <2>1. \A i \in 1 .. Len(f.order) : f.order[i] \in Known
    BY ElementOfSeq DEF HonestHello
  <2> QED BY <1>1, <2>1 DEF TypesIn
<1>4. HasTypes(o, S)
  BY <1>2, <1>3 DEF HasTypes
<1>5. /\ IsText(Content(o, t))
      /\ EncodeExt(o, t) = (U16(t) \o U16(Len(Content(o, t)))) \o Content(o, t)
  BY <1>1, <1>4, ContentType
<1>6. /\ o.group = f.group /\ o.share = f.share /\ o.version = f.version /\ o.psk = f.psk
  BY <1>1 DEF FieldsOf
<1>7. Content(o, t) = Content(f, t) /\ EncodeExt(o, t) = EncodeExt(f, t)
  BY <1>6 DEF Content, EncodeExt
<1>8. t \in Known /\ t \in Nat
  BY <1>1, <1>3 DEF Known, KeyShare, SupportedVersions, PreShared
<1>9. PICK c : c = Content(f, t)
  OBVIOUS
<1>10. [type |-> t, data |-> c] \in EeItem
  BY <1>5, <1>7, <1>8, <1>9 DEF EeItem, IsText
<1> QED BY <1>5, <1>7, <1>8, <1>9, <1>10 DEF ItemText

LEMMA NextExtension ==
    ASSUME NEW f, HonestHello(f), NEW n \in Nat, n < Len(f.order)
    PROVE  /\ f.order[n + 1] \in TypesIn(f, Len(f.order))
           /\ IsText(HelloExts(f, After(f.order, n + 1)))
           /\ HelloExts(f, After(f.order, n))
                = EncodeExt(f, f.order[n + 1]) \o HelloExts(f, After(f.order, n + 1))
<1>1. PICK R : R = TypesIn(f, Len(f.order))
  OBVIOUS
<1>2. PICK g : g = [x \in R |-> EncodeExt(f, x)]
  OBVIOUS
<1>3. MapsTo(g, R, Number)
  <2>1. \A x \in R : EncodeExt(f, x) \in Seq(Number)
    BY <1>1, HelloPiece, ItemIsText
  <2> QED BY <1>2, <2>1 DEF MapsTo
<1>4. f.order \in Seq(R)
  <2>1. f.order \in Seq(Known) /\ \A i \in 1 .. Len(f.order) : f.order[i] \in R
    BY <1>1 DEF HonestHello, TypesIn
  <2>2. Len(f.order) \in Int /\ 1 \in Int
    BY <2>1, LenProperties
  <2>3. SubSeq(f.order, 1, Len(f.order)) \in Seq(R)
    BY <2>1, <2>2, SubSeqProperties
  <2> QED BY <2>1, <2>3, SubSeqFull
<1>5. ASSUME NEW q \in Seq(R) PROVE HelloExts(f, q) = FlatMap(g, q)
  <2>1. \A i \in DOMAIN q : q[i] \in R
    BY ElementOfSeq, LenProperties
  <2>2. [i \in DOMAIN q |-> g[q[i]]] = [i \in DOMAIN q |-> EncodeExt(f, q[i])]
    BY <1>2, <2>1
  <2> QED BY <2>2 DEF HelloExts, FlatMap
<1>6. NextPiece(g, R, Number, f.order, n)
  BY <1>3, <1>4, FlatMapAfter DEF Maps
<1>7. f.order[n + 1] \in R /\ g[f.order[n + 1]] = EncodeExt(f, f.order[n + 1])
  BY <1>2, <1>6 DEF NextPiece
<1> QED BY <1>1, <1>5, <1>6, <1>7 DEF NextPiece, IsText

LEMMA HelloExtsIsText ==
    ASSUME NEW f, HonestHello(f)
    PROVE  IsText(HelloExts(f, f.order))
<1>1. f.order \in Seq(Known) /\ Len(f.order) \in Nat
  BY LenProperties DEF HonestHello
<1>2. CASE Len(f.order) = 0
  <2>1. f.order = <<>>
    BY <1>1, <1>2, EmptySeq
  <2>2. HelloExts(f, f.order) = <<>>
    BY <2>1, FlattenEmpty DEF HelloExts
  <2> QED BY <2>2 DEF IsText
<1>3. CASE 0 < Len(f.order)
  <2>1. PICK t, x : t = f.order[0 + 1] /\ x = HelloExts(f, After(f.order, 0 + 1))
    OBVIOUS
  <2>2. /\ t \in TypesIn(f, Len(f.order)) /\ IsText(x)
        /\ HelloExts(f, After(f.order, 0)) = EncodeExt(f, t) \o x
    BY <1>3, <2>1, NextExtension
  <2>3. IsText(EncodeExt(f, t))
    BY <2>2, HelloPiece, ItemIsText DEF IsText
  <2>4. IsText(EncodeExt(f, t) \o x)
    BY <2>2, <2>3, TextJoin
  <2> QED BY <1>1, <2>2, <2>4, AfterEnds
<1> QED BY <1>1, <1>2, <1>3

(* A read in two parts is the read of both. *)
LEMMA TwoSkips ==
    ASSUME NEW buf \in Seq(Byte), NEW q, Within(buf, q), NEW m \in Nat, NEW n \in Nat,
           NEW y, Ahead(buf, Skip(buf, Skip(buf, q, m), n), y)
    PROVE  Skip(buf, q, m + n) = Skip(buf, Skip(buf, q, m), n)
<1>1. ~Skip(buf, Skip(buf, q, m), n).err
  BY DEF Ahead
<1>2. ~Skip(buf, q, m + n).err
  BY <1>1, SkipTwice
<1> QED BY <1>2, SkipTwice

LEMMA AheadAt ==
    ASSUME NEW buf, NEW q, NEW x, Ahead(buf, q, x)
    PROVE  q = At(q.pos)
BY DEF Ahead, Within, Reader, At

(* A hello, from each of its fields on. *)
ExtBlock(f) == HelloExts(f, f.order)
FromLen(f) == U16(Len(ExtBlock(f))) \o ExtBlock(f)
FromComp(f) == <<0>> \o FromLen(f)
FromCipher(f) == U16(f.cipher) \o FromComp(f)
FromSid(f) == f.sid \o FromCipher(f)
FromSidLen(f) == <<Len(f.sid)>> \o FromSid(f)
FromRandom(f) == f.random \o FromSidLen(f)
FromVersion(f) == U16(Legacy) \o FromRandom(f)

LEMMA HelloParts ==
    ASSUME NEW f, HonestHello(f)
    PROVE  /\ IsText(ExtBlock(f)) /\ Len(ExtBlock(f)) \in Nat
           /\ f.cipher \in Nat /\ IsText(f.sid) /\ Len(f.sid) \in Nat
           /\ IsText(f.random) /\ Len(f.random) = RandomSz /\ RandomSz \in Nat
<1>1. f.sid \in Seq(Number) /\ f.cipher \in Nat
  BY DEF HonestHello, FieldsOf, Parsed
<1>2. f.random \in Seq(Number) /\ Len(f.random) = RandomSz
  BY DEF HonestHello
<1>3. IsText(ExtBlock(f))
  BY HelloExtsIsText DEF ExtBlock
<1> QED BY <1>1, <1>2, <1>3, TextIs, LenProperties, RandomSize DEF IsText

LEMMA HelloTexts ==
    ASSUME NEW f, HonestHello(f)
    PROVE  /\ IsText(FromLen(f)) /\ IsText(FromComp(f)) /\ IsText(FromCipher(f))
           /\ IsText(FromSid(f)) /\ IsText(FromSidLen(f)) /\ IsText(FromRandom(f))
           /\ IsText(FromVersion(f))
<1>1. /\ IsText(ExtBlock(f)) /\ IsText(U16(Len(ExtBlock(f)))) /\ IsText(<<0>>)
      /\ IsText(U16(f.cipher)) /\ IsText(f.sid) /\ IsText(<<Len(f.sid)>>)
      /\ IsText(f.random) /\ IsText(U16(Legacy))
  <2>1. Legacy \in Nat /\ 0 \in Nat
    BY DEF Legacy
  <2> QED BY <2>1, HelloParts, EncodingTypes DEF IsText
<1>2. IsText(FromLen(f))
  BY <1>1, TextJoin DEF FromLen
<1>3. IsText(FromComp(f))
  BY <1>1, <1>2, TextJoin DEF FromComp
<1>4. IsText(FromCipher(f))
  BY <1>1, <1>3, TextJoin DEF FromCipher
<1>5. IsText(FromSid(f))
  BY <1>1, <1>4, TextJoin DEF FromSid
<1>6. IsText(FromSidLen(f))
  BY <1>1, <1>5, TextJoin DEF FromSidLen
<1>7. IsText(FromRandom(f))
  BY <1>1, <1>6, TextJoin DEF FromRandom
<1>8. IsText(FromVersion(f))
  BY <1>1, <1>7, TextJoin DEF FromVersion
<1> QED BY <1>2, <1>3, <1>4, <1>5, <1>6, <1>7, <1>8

(* The encoding, regrouped so that each field has the rest behind it. *)
LEMMA EncodeIs ==
    ASSUME NEW f, HonestHello(f)
    PROVE  Encode(f, f.random, f.order)
             = <<2>> \o (U24(Len(FromVersion(f))) \o FromVersion(f))
<1>1. /\ IsText(ExtBlock(f)) /\ IsText(U16(Len(ExtBlock(f)))) /\ IsText(<<0>>)
      /\ IsText(U16(f.cipher)) /\ IsText(f.sid) /\ IsText(<<Len(f.sid)>>)
      /\ IsText(f.random) /\ IsText(U16(Legacy))
  <2>1. Legacy \in Nat /\ 0 \in Nat
    BY DEF Legacy
  <2> QED BY <2>1, HelloParts, EncodingTypes DEF IsText
<1>2. PICK e, l, c : e = ExtBlock(f) /\ l = U16(Len(ExtBlock(f))) /\ c = <<0>>
  OBVIOUS
<1>3. PICK ci, s, sl : ci = U16(f.cipher) /\ s = f.sid /\ sl = <<Len(f.sid)>>
  OBVIOUS
<1>4. PICK ra, v : ra = f.random /\ v = U16(Legacy)
  OBVIOUS
<1>5. /\ IsText(e) /\ IsText(l) /\ IsText(c) /\ IsText(ci) /\ IsText(s) /\ IsText(sl)
      /\ IsText(ra) /\ IsText(v)
  BY <1>1, <1>2, <1>3, <1>4
<1>6. PICK p2 : p2 = v \o ra
  OBVIOUS
<1>7. PICK p3 : p3 = p2 \o sl
  OBVIOUS
<1>8. PICK p4 : p4 = p3 \o s
  OBVIOUS
<1>9. PICK p5 : p5 = p4 \o ci
  OBVIOUS
<1>10. PICK p6 : p6 = p5 \o c
  OBVIOUS
<1>11. IsText(p2) /\ IsText(p3) /\ IsText(p4) /\ IsText(p5) /\ IsText(p6)
  <2>1. IsText(p2)
    BY <1>5, <1>6, TextJoin
  <2>2. IsText(p3)
    BY <1>5, <1>7, <2>1, TextJoin
  <2>3. IsText(p4)
    BY <1>5, <1>8, <2>2, TextJoin
  <2>4. IsText(p5)
    BY <1>5, <1>9, <2>3, TextJoin
  <2>5. IsText(p6)
    BY <1>5, <1>10, <2>4, TextJoin
  <2> QED BY <2>1, <2>2, <2>3, <2>4, <2>5
<1>12. PICK x1, x2, x3, x4, x5, x6 :
          /\ x1 = FromLen(f) /\ x2 = FromComp(f) /\ x3 = FromCipher(f) /\ x4 = FromSid(f)
          /\ x5 = FromSidLen(f) /\ x6 = FromRandom(f)
  OBVIOUS
<1>13. /\ IsText(x1) /\ IsText(x2) /\ IsText(x3) /\ IsText(x4) /\ IsText(x5) /\ IsText(x6)
  BY <1>12, HelloTexts
<1>14. /\ x1 = l \o e /\ x2 = c \o x1 /\ x3 = ci \o x2 /\ x4 = s \o x3 /\ x5 = sl \o x4
       /\ x6 = ra \o x5 /\ FromVersion(f) = v \o x6
  BY <1>2, <1>3, <1>4, <1>12
     DEF FromLen, FromComp, FromCipher, FromSid, FromSidLen, FromRandom, FromVersion
<1>15. (p6 \o l) \o e = FromVersion(f)
  <2>1. (p6 \o l) \o e = p6 \o x1
    <3>1. (p6 \o l) \o e = p6 \o (l \o e)
      BY <1>5, <1>11, TextAssociates
    <3> QED BY <1>14, <3>1
  <2>2. p6 \o x1 = p5 \o x2
    <3>1. (p5 \o c) \o x1 = p5 \o (c \o x1)
      BY <1>5, <1>11, <1>13, TextAssociates
    <3> QED BY <1>10, <1>14, <3>1
  <2>3. p5 \o x2 = p4 \o x3
    <3>1. (p4 \o ci) \o x2 = p4 \o (ci \o x2)
      BY <1>5, <1>11, <1>13, TextAssociates
    <3> QED BY <1>9, <1>14, <3>1
  <2>4. p4 \o x3 = p3 \o x4
    <3>1. (p3 \o s) \o x3 = p3 \o (s \o x3)
      BY <1>5, <1>11, <1>13, TextAssociates
    <3> QED BY <1>8, <1>14, <3>1
  <2>5. p3 \o x4 = p2 \o x5
    <3>1. (p2 \o sl) \o x4 = p2 \o (sl \o x4)
      BY <1>5, <1>11, <1>13, TextAssociates
    <3> QED BY <1>7, <1>14, <3>1
  <2>6. p2 \o x5 = v \o x6
    <3>1. (v \o ra) \o x5 = v \o (ra \o x5)
      BY <1>5, <1>13, TextAssociates
    <3> QED BY <1>6, <1>14, <3>1
  <2> QED BY <1>14, <2>1, <2>2, <2>3, <2>4, <2>5, <2>6
<1>16. PICK b : b = FromVersion(f)
  OBVIOUS
<1>17. Encode(f, f.random, f.order) = (<<2>> \o U24(Len(b))) \o b
  BY <1>2, <1>3, <1>4, <1>6, <1>7, <1>8, <1>9, <1>10, <1>15, <1>16
     DEF Encode, ExtBlock, HelloExts
<1>18. (<<2>> \o U24(Len(b))) \o b = <<2>> \o (U24(Len(b)) \o b)
  <2>1. IsText(b) /\ Len(b) \in Nat
    BY <1>16, HelloTexts, TextIs
  <2>2. IsText(<<2>>) /\ IsText(U24(Len(b)))
    BY <2>1, EncodingTypes DEF IsText
  <2> QED BY <2>1, <2>2, TextAssociates
<1> QED BY <1>16, <1>17, <1>18

(* What ParseHeader finds in an honest hello. *)
FrontFound(buf, f) ==
    /\ ReadU(buf, At(0), 1) = 2 /\ ReadU(buf, At(1), 3) = Len(buf) - 4
    /\ ReadU(buf, At(4), 2) = Legacy
    /\ ReadBytes(buf, At(6), RandomSz) = f.random
    /\ Ahead(buf, Skip(buf, ReaderInit, 6 + RandomSz), FromSidLen(f))

LEMMA HonestFront ==
    ASSUME NEW f, HonestHello(f), NEW buf \in Seq(Byte),
           buf = Encode(f, f.random, f.order)
    PROVE  FrontFound(buf, f)
<1>1. /\ IsText(FromVersion(f)) /\ IsText(FromRandom(f)) /\ IsText(FromSidLen(f))
      /\ IsText(f.random) /\ Len(f.random) = RandomSz /\ RandomSz \in Nat
      /\ Len(FromVersion(f)) \in Nat
  BY HelloTexts, HelloParts, TextIs
<1>2. PICK b, x, y : b = FromVersion(f) /\ x = FromRandom(f) /\ y = FromSidLen(f)
  OBVIOUS
<1>3. PICK n \in Nat : n = Len(b)
  BY <1>1, <1>2
<1>4. IsText(U24(n)) /\ Len(U24(n)) = 3 /\ IsText(<<2>>) /\ Len(<<2>>) = 1
  BY EncodingTypes DEF IsText
<1>5. IsText(U24(n) \o b) /\ Len(U24(n) \o b) = 3 + n
  <2>1. IsText(b)
    BY <1>1, <1>2
  <2>2. PICK u : u = U24(n)
    OBVIOUS
  <2>3. IsText(u \o b) /\ Len(u \o b) = Len(u) + Len(b)
    BY <1>4, <2>1, <2>2, TextJoin
  <2> QED BY <1>3, <1>4, <2>2, <2>3
<1>6. PICK c : c = U24(n) \o b
  OBVIOUS
<1>7. Len(buf) - 4 = n
  <2>1. Len(<<2>> \o c) = 1 + (3 + n)
    BY <1>4, <1>5, <1>6, TextJoin
  <2>2. buf = <<2>> \o c
    BY <1>2, <1>3, <1>6, EncodeIs
  <2> QED BY <2>1, <2>2
<1>8. Ahead(buf, ReaderInit, <<2>> \o c)
  <2>1. buf = <<2>> \o c
    BY <1>2, <1>3, <1>6, EncodeIs
  <2> QED BY <2>1, AheadAtStart
<1>9. PICK q1, q4 : q1 = Skip(buf, ReaderInit, 1) /\ q4 = Skip(buf, q1, 3)
  OBVIOUS
<1>10. PICK q6, qs : q6 = Skip(buf, q4, 2) /\ qs = Skip(buf, q6, RandomSz)
  OBVIOUS
<1>11. ReadU(buf, ReaderInit, 1) = 2 /\ Ahead(buf, q1, U24(n) \o b) /\ q1.pos = 1
  <2>1. ReaderInit.pos + 1 = 1 /\ 2 \in Nat
    BY DEF ReaderInit
  <2> QED BY <1>5, <1>6, <1>8, <1>9, <2>1, AheadNumber
<1>12. ReadU(buf, q1, 3) = n /\ Ahead(buf, q4, b) /\ q4.pos = 4
  <2>1. ReadU(buf, q1, 3) = n /\ Ahead(buf, q4, b) /\ q4.pos = q1.pos + 3
    <3>1. IsText(b) /\ Ahead(buf, q1, U24(n) \o b)
      BY <1>1, <1>2, <1>11
    <3> QED BY <1>9, <3>1, AheadNumber
  <2> QED BY <1>11, <2>1
<1>13. ReadU(buf, q4, 2) = Legacy /\ Ahead(buf, q6, x) /\ q6.pos = 6
  <2>1. Legacy \in Nat /\ b = U16(Legacy) \o x
    BY <1>2 DEF Legacy, FromVersion
  <2>2. Ahead(buf, q4, U16(Legacy) \o x)
    BY <1>12, <2>1
  <2>3. ReadU(buf, q4, 2) = Legacy /\ Ahead(buf, q6, x) /\ q6.pos = q4.pos + 2
    BY <1>1, <1>2, <1>10, <2>1, <2>2, AheadNumber
  <2> QED BY <1>12, <2>3
<1>14. ReadBytes(buf, q6, RandomSz) = f.random /\ Ahead(buf, qs, y)
  <2>1. x = f.random \o y
    BY <1>2 DEF FromRandom
  <2>2. ReadsNext(buf, q6, f.random, Len(f.random), y)
    BY <1>1, <1>2, <1>13, <2>1, AheadReads DEF AheadThen
  <2> QED BY <1>1, <1>10, <2>2 DEF ReadsNext
<1>15. ReaderInit = At(0) /\ q1 = At(1) /\ q4 = At(4) /\ q6 = At(6)
  <2>1. ReaderInit = At(0)
    BY DEF ReaderInit, At
  <2> QED BY <1>11, <1>12, <1>13, <2>1, AheadAt
<1>16. qs = Skip(buf, ReaderInit, 6 + RandomSz)
  <2>1. Within(buf, ReaderInit)
    BY ReaderStarts
  <2>2. Skip(buf, ReaderInit, 1 + 3) = q4
    BY <1>9, <1>12, <2>1, TwoSkips
  <2>3. Skip(buf, ReaderInit, 4 + 2) = q6
    <3>1. 1 + 3 = 4
      OBVIOUS
    <3>2. Skip(buf, ReaderInit, 4) = q4
      BY <2>2, <3>1
    <3>3. Skip(buf, Skip(buf, ReaderInit, 4), 2) = q6
      BY <1>10, <3>2
    <3> QED BY <1>13, <2>1, <3>3, TwoSkips
  <2>4. Skip(buf, Skip(buf, ReaderInit, 6), RandomSz) = qs
    <3>1. 4 + 2 = 6
      OBVIOUS
    <3> QED BY <1>10, <2>3, <3>1
  <2> QED BY <1>1, <1>14, <2>1, <2>4, TwoSkips
<1> QED BY <1>2, <1>7, <1>11, <1>12, <1>13, <1>14, <1>15, <1>16 DEF FrontFound

(* And behind the random, by which a HelloRetryRequest is told apart. *)
RestFound(buf, f, qs, q1, q2, e) ==
    /\ ReadU(buf, qs, 1) = Len(f.sid) /\ q1 = Skip(buf, qs, 1)
    /\ ReadBytes(buf, q1, Len(f.sid)) = f.sid /\ q2 = Skip(buf, q1, Len(f.sid))
    /\ ReadU(buf, q2, 2) = f.cipher /\ ReadU(buf, Skip(buf, q2, 2), 1) = 0
    /\ ReadU(buf, Skip(buf, q2, 3), 2) = Len(ExtBlock(f)) /\ e = Skip(buf, q2, 5)
    /\ Ahead(buf, e, ExtBlock(f))

LEMMA HonestRest ==
    ASSUME NEW f, HonestHello(f), NEW buf \in Seq(Byte), NEW qs,
           Ahead(buf, qs, FromSidLen(f))
    PROVE  \E q1, q2, e : RestFound(buf, f, qs, q1, q2, e)
<1>1. /\ IsText(FromSid(f)) /\ IsText(FromCipher(f)) /\ IsText(FromComp(f))
      /\ IsText(FromLen(f)) /\ IsText(ExtBlock(f)) /\ Len(ExtBlock(f)) \in Nat
      /\ IsText(f.sid) /\ Len(f.sid) \in Nat /\ f.cipher \in Nat
  BY HelloTexts, HelloParts
<1>2. PICK x4, x3, x2 : x4 = FromSid(f) /\ x3 = FromCipher(f) /\ x2 = FromComp(f)
  OBVIOUS
<1>3. PICK x1, x0 : x1 = FromLen(f) /\ x0 = ExtBlock(f)
  OBVIOUS
<1>4. PICK q1, q2 : q1 = Skip(buf, qs, 1) /\ q2 = Skip(buf, q1, Len(f.sid))
  OBVIOUS
<1>5. PICK q3, q4, e : q3 = Skip(buf, q2, 2) /\ q4 = Skip(buf, q3, 1) /\ e = Skip(buf, q4, 2)
  OBVIOUS
<1>6. ReadU(buf, qs, 1) = Len(f.sid) /\ Ahead(buf, q1, x4)
  <2>1. Ahead(buf, qs, <<Len(f.sid)>> \o x4)
    BY <1>2 DEF FromSidLen
  <2> QED BY <1>1, <1>2, <1>4, <2>1, AheadNumber
<1>7. ReadBytes(buf, q1, Len(f.sid)) = f.sid /\ Ahead(buf, q2, x3)
  <2>1. x4 = f.sid \o x3
    BY <1>2 DEF FromSid
  <2>2. ReadsNext(buf, q1, f.sid, Len(f.sid), x3)
    BY <1>1, <1>2, <1>6, <2>1, AheadReads DEF AheadThen
  <2> QED BY <1>4, <2>2 DEF ReadsNext
<1>8. ReadU(buf, q2, 2) = f.cipher /\ Ahead(buf, q3, x2)
  <2>1. Ahead(buf, q2, U16(f.cipher) \o x2)
    BY <1>2, <1>7 DEF FromCipher
  <2>2. IsText(x2) /\ f.cipher \in Nat
    BY <1>1, <1>2
  <2> QED BY <1>5, <2>1, <2>2, AheadWord
<1>9. ReadU(buf, q3, 1) = 0 /\ Ahead(buf, q4, x1)
  <2>1. Ahead(buf, q3, <<0>> \o x1)
    BY <1>2, <1>3, <1>8 DEF FromComp
  <2> QED BY <1>1, <1>3, <1>5, <2>1, AheadNumber
<1>10. ReadU(buf, q4, 2) = Len(x0) /\ Ahead(buf, e, x0)
  <2>1. Ahead(buf, q4, U16(Len(x0)) \o x0)
    BY <1>3, <1>9 DEF FromLen
  <2>2. IsText(x0) /\ Len(x0) \in Nat
    BY <1>1, <1>3
  <2> QED BY <1>5, <2>1, <2>2, AheadNumber
<1>11. q4 = Skip(buf, q2, 3) /\ e = Skip(buf, q2, 5)
  <2>1. Within(buf, q2)
    BY <1>7 DEF Ahead
  <2>2. Skip(buf, q2, 2 + 1) = q4
    BY <1>5, <1>9, <2>1, TwoSkips
  <2>3. 2 + 1 = 3 /\ 3 + 2 = 5
    OBVIOUS
  <2>4. Skip(buf, Skip(buf, q2, 3), 2) = e
    BY <1>5, <2>2, <2>3
  <2>5. Skip(buf, q2, 3 + 2) = e
    BY <1>10, <2>1, <2>4, TwoSkips
  <2> QED BY <2>2, <2>3, <2>5
<1>12. RestFound(buf, f, qs, q1, q2, e)
  BY <1>3, <1>4, <1>5, <1>6, <1>7, <1>8, <1>9, <1>10, <1>11 DEF RestFound
<1> QED BY <1>12

(* A check that passes latches no error. *)
LEMMA StillAhead ==
    ASSUME NEW buf, NEW q, NEW x, Ahead(buf, q, x), NEW b, ~b
    PROVE  Ahead(buf, [q EXCEPT !.err = @ \/ b], x)
<1>1. q \in [pos : Nat, err : BOOLEAN] /\ q.pos <= Len(buf) /\ ~q.err
  BY DEF Ahead, Within, Reader
<1>2. PICK p : p = [q EXCEPT !.err = @ \/ b]
  OBVIOUS
<1>3. p \in [pos : Nat, err : BOOLEAN] /\ p.pos = q.pos /\ ~p.err
  BY <1>1, <1>2
<1>4. Within(buf, p)
  BY <1>1, <1>3 DEF Within, Reader
<1>5. Ahead(buf, p, x)
  BY <1>3, <1>4 DEF Ahead
<1> QED BY <1>2, <1>5

(* ParseHeader: to the extensions, or out with a HelloRetryRequest. *)
LEMMA HonestHeader ==
    ASSUME ParseInv, NEW f, HonestHello(f), msg = Encode(f, f.random, f.order), ParseHeader
    PROVE  HelloProgress(f)'
<1>1. /\ msg \in Seq(Byte) /\ kind = "SH" /\ out = Nothing /\ seen = {} /\ ret = "SUCCESS"
      /\ msg' = msg /\ seen' = seen /\ ret' = ret /\ Len(msg) \in Nat
  <2>1. pc = "header" /\ msg' = msg /\ seen' = seen /\ ret' = ret
    BY DEF ParseHeader
  <2>2. msg \in Seq(Byte) /\ kind = "SH"
    BY <2>1 DEF ParseInv, Placed
  <2> QED BY <2>1, <2>2, LenProperties DEF ParseInv, HelloInv
<1>2. PICK qs : qs = Skip(msg, ReaderInit, 6 + RandomSz)
  OBVIOUS
<1>3. /\ ReadU(msg, At(0), 1) = 2 /\ ReadU(msg, At(1), 3) = Len(msg) - 4
      /\ ReadU(msg, At(4), 2) = Legacy
      /\ ReadBytes(msg, At(6), RandomSz) = f.random
      /\ Ahead(msg, qs, FromSidLen(f))
  <2>1. FrontFound(msg, f)
    BY <1>1, HonestFront
  <2> QED BY <1>2, <2>1 DEF FrontFound
<1>4. PICK q1, q2, e : RestFound(msg, f, qs, q1, q2, e)
  BY <1>1, <1>3, HonestRest
<1>5. /\ ReadU(msg, qs, 1) = Len(f.sid) /\ q1 = Skip(msg, qs, 1)
      /\ ReadBytes(msg, q1, Len(f.sid)) = f.sid /\ q2 = Skip(msg, q1, Len(f.sid))
      /\ ReadU(msg, q2, 2) = f.cipher /\ ReadU(msg, Skip(msg, q2, 2), 1) = 0
      /\ ReadU(msg, Skip(msg, q2, 3), 2) = Len(ExtBlock(f)) /\ e = Skip(msg, q2, 5)
      /\ Ahead(msg, e, ExtBlock(f))
  BY <1>4 DEF RestFound
<1>6. ~qs.err /\ ~e.err /\ e.pos + Len(ExtBlock(f)) = Len(msg) /\ e = At(e.pos)
  <2>1. ~qs.err
    BY <1>3 DEF Ahead
  <2>2. ~e.err /\ Len(msg) = e.pos + Len(ExtBlock(f))
    BY <1>5 DEF Ahead
  <2>3. e = At(e.pos)
    BY <1>5, AheadAt
  <2> QED BY <2>1, <2>2, <2>3
<1>7. CASE f.random = HrrRandom
  <2>1. pc' = "driver" /\ out' = [out EXCEPT !.hrr = TRUE]
    BY <1>2, <1>3, <1>6, <1>7 DEF ParseHeader
  <2>2. out'.hrr = TRUE
    BY <1>1, <2>1 DEF Nothing
  <2> QED BY <1>1, <1>7, <2>1, <2>2 DEF HelloProgress
<1>8. CASE f.random # HrrRandom
  <2>1. /\ top' = [type |-> 2, hsLen |-> Len(msg) - 4, lver |-> Legacy, comp |-> 0]
        /\ out' = [out EXCEPT !.sid = f.sid, !.cipher = f.cipher]
        /\ r' = [e EXCEPT !.err = @ \/ e.pos + Len(ExtBlock(f)) > Len(msg)]
        /\ extEnd' = BoundedEnd(e.pos + Len(ExtBlock(f))) /\ pc' = "exts"
    <3>1. PICK end : end = e.pos + Len(ExtBlock(f))
      OBVIOUS
    <3>2. /\ top' = [type |-> 2, hsLen |-> ReadU(msg, At(1), 3), lver |-> ReadU(msg, At(4), 2),
                     comp |-> ReadU(msg, Skip(msg, q2, 2), 1)]
          /\ out' = [out EXCEPT !.sid = ReadBytes(msg, q1, Len(f.sid)),
                                !.cipher = ReadU(msg, q2, 2)]
          /\ r' = [e EXCEPT !.err = @ \/ end > Len(msg)]
          /\ extEnd' = BoundedEnd(end) /\ pc' = "exts"
      <4>1. PICK sl : sl = ReadU(msg, qs, 1)
        OBVIOUS
      <4>2. sl = Len(f.sid)
        BY <1>5, <4>1
      <4>3. PICK suite : suite = Skip(msg, Skip(msg, qs, 1), sl)
        OBVIOUS
      <4>4. suite = q2
        BY <1>5, <4>2, <4>3
      <4>5. ~(~qs.err /\ ReadU(msg, At(0), 1) = 2 /\ ReadBytes(msg, At(6), RandomSz) = HrrRandom)
        BY <1>3, <1>8
      <4>6. PICK last : last = Skip(msg, suite, 5).pos + ReadU(msg, Skip(msg, suite, 3), 2)
        OBVIOUS
      <4>7. last = end
        BY <1>5, <3>1, <4>4, <4>6
      <4>8. /\ top' = [type |-> ReadU(msg, At(0), 1), hsLen |-> ReadU(msg, At(1), 3),
                       lver |-> ReadU(msg, At(4), 2), comp |-> ReadU(msg, Skip(msg, suite, 2), 1)]
            /\ out' = [out EXCEPT !.sid = ReadBytes(msg, Skip(msg, qs, 1), sl),
                                  !.cipher = ReadU(msg, suite, 2)]
            /\ r' = [Skip(msg, suite, 5) EXCEPT !.err = @ \/ last > Len(msg)]
            /\ extEnd' = BoundedEnd(last) /\ pc' = "exts"
        BY <1>2, <4>1, <4>3, <4>5, <4>6, Zenon DEF ParseHeader
      <4> QED BY <1>3, <1>5, <4>2, <4>4, <4>7, <4>8
    <3> QED BY <1>3, <1>5, <3>1, <3>2
  <2>2. extEnd' = Len(msg)
    BY <1>1, <1>6, <2>1 DEF BoundedEnd
  <2>3. Ahead(msg, r', ExtBlock(f))
    <3>1. PICK b : b = (e.pos + Len(ExtBlock(f)) > Len(msg))
      OBVIOUS
    <3>2. ~b
      <4>1. ~(e.pos + Len(ExtBlock(f)) > Len(msg))
        BY <1>1, <1>6
      <4> QED BY <3>1, <4>1, Zenon
    <3>3. r' = [e EXCEPT !.err = @ \/ b]
      BY <2>1, <3>1, Zenon
    <3>4. Ahead(msg, [e EXCEPT !.err = @ \/ b], ExtBlock(f))
      BY <1>5, <3>2, StillAhead
    <3> QED BY <3>3, <3>4, Zenon
  <2>4. /\ out'.sid = f.sid /\ out'.cipher = f.cipher /\ out'.group = 0 /\ out'.share = <<>>
        /\ out'.version = 0 /\ out'.psk = -1
    BY <1>1, <2>1 DEF Nothing
  <2>5. HelloTaken(f)'
    BY <1>1, <2>4 DEF HelloTaken
  <2>6. Ahead(msg', r', HelloExts(f, After(f.order, 0)))
    <3>1. f.order \in Seq(Known)
      BY DEF HonestHello
    <3> QED BY <1>1, <1>5, <2>3, <3>1, AfterEnds DEF ExtBlock
  <2>7. seen' = {f.order[i] : i \in 1 .. 0} /\ 0 \in 0 .. Len(f.order)
    <3>1. Len(f.order) \in Nat
      BY LenProperties DEF HonestHello
    <3> QED BY <1>1, <3>1
  <2> QED BY <1>1, <1>8, <2>1, <2>2, <2>4, <2>5, <2>6, <2>7 DEF HelloProgress, HelloAhead
<1> QED BY <1>7, <1>8

LEMMA AheadUnique ==
    ASSUME NEW buf \in Seq(Byte), NEW q, NEW p, NEW x, Ahead(buf, q, x), Ahead(buf, p, x)
    PROVE  q = p
<1>1. /\ q.pos \in Nat /\ p.pos \in Nat /\ Len(x) \in Nat
      /\ Len(buf) = q.pos + Len(x) /\ Len(buf) = p.pos + Len(x)
  BY TextIs DEF Ahead, Within, Reader
<1>2. q.pos = p.pos
  BY <1>1
<1> QED BY <1>2, AheadAt

LEMMA ItemNotEmpty ==
    ASSUME NEW e \in EeItem, NEW x, IsText(x)
    PROVE  Len(ItemText(e) \o x) # 0
<1>1. PICK a, b, d : a = U16(e.type) /\ b = U16(Len(e.data)) /\ d = e.data
  OBVIOUS
<1>2. IsText(a) /\ Len(a) = 2 /\ IsText(b) /\ IsText(d)
  BY <1>1, ItemIsText, EncodingTypes
<1>3. IsText(a \o b) /\ Len(a \o b) = 2 + Len(b) /\ Len(b) \in Nat
  <2>1. IsText(a \o b) /\ Len(a \o b) = Len(a) + Len(b)
    BY <1>2, TextJoin
  <2> QED BY <1>2, <2>1, TextIs
<1>4. PICK c : c = a \o b
  OBVIOUS
<1>5. IsText(c \o d) /\ Len(c \o d) = Len(c) + Len(d) /\ Len(d) \in Nat
  BY <1>2, <1>3, <1>4, TextJoin, TextIs
<1>6. PICK g : g = c \o d
  OBVIOUS
<1>7. Len(g \o x) = Len(g) + Len(x) /\ Len(x) \in Nat
  BY <1>5, <1>6, TextJoin, TextIs
<1>8. g = ItemText(e)
  BY <1>1, <1>4, <1>6 DEF ItemText
<1> QED BY <1>3, <1>4, <1>5, <1>6, <1>7, <1>8

(* The next extension, as ParseExtension finds it. *)
ExtFound(f, n, t, x, q2) ==
    /\ n \in Nat /\ n < Len(f.order) /\ t = f.order[n + 1]
    /\ x = HelloExts(f, After(f.order, n + 1)) /\ IsText(x)
    /\ seen = TypesIn(f, n) /\ t \notin seen /\ t \in TypesIn(f, Len(f.order))
    /\ ExtType = t /\ ~Overruns
    /\ Ahead(msg, AtBody, Content(f, t) \o x)
    /\ q2.pos = ExtBodyEnd /\ Ahead(msg, q2, x)

LEMMA ExtensionFound ==
    ASSUME ParseInv, NEW f, HonestHello(f), HelloAhead(f), InLoop
    PROVE  \E n, t, x, q2 : ExtFound(f, n, t, x, q2)
<1>1. msg \in Seq(Byte) /\ extEnd = Len(msg) /\ r.pos < Len(msg) /\ Len(msg) \in Nat
      /\ f.order \in Seq(Known) /\ Len(f.order) \in Nat
  BY LenProperties DEF ParseInv, Placed, HelloAhead, InLoop, HonestHello
<1>2. PICK n \in 0 .. Len(f.order) :
          seen = {f.order[i] : i \in 1 .. n} /\ Ahead(msg, r, HelloExts(f, After(f.order, n)))
  BY DEF HelloAhead
<1>3. n \in Nat /\ n < Len(f.order)
  <2> SUFFICES ASSUME n = Len(f.order) PROVE FALSE
    BY <1>1
  <2>1. HelloExts(f, After(f.order, n)) = <<>>
    <3>1. After(f.order, n) = <<>>
      BY <1>1, AfterEnds
    <3> QED BY <3>1, FlattenEmpty DEF HelloExts
  <2>2. Len(HelloExts(f, After(f.order, n))) # 0
    BY <1>1, <1>2, AheadEnd
  <2> QED BY <2>1, <2>2
<1>4. PICK t, x : t = f.order[n + 1] /\ x = HelloExts(f, After(f.order, n + 1))
  OBVIOUS
<1>5. /\ t \in TypesIn(f, Len(f.order)) /\ IsText(x)
      /\ HelloExts(f, After(f.order, n)) = EncodeExt(f, t) \o x
  BY <1>3, <1>4, NextExtension
<1>6. PICK c : c = Content(f, t)
  OBVIOUS
<1>7. PICK e : e = [type |-> t, data |-> c]
  OBVIOUS
<1>8. e \in EeItem /\ EncodeExt(f, t) = ItemText(e) /\ e.type = t /\ e.data = c /\ IsText(c)
  BY <1>5, <1>6, <1>7, HelloPiece
<1>9. Ahead(msg, r, ItemText(e) \o x)
  BY <1>2, <1>5, <1>8
<1>10. PICK q2 : ReadsItem(msg, r, e.type, Len(e.data), e.data, x, q2)
  BY <1>1, <1>5, <1>8, <1>9, AheadItem
<1>11. /\ ExtType = t /\ ReadU(msg, AtLen, 2) = Len(c) /\ q2 = Skip(msg, AtBody, Len(c))
       /\ Ahead(msg, AtBody, c \o x) /\ Ahead(msg, q2, x)
  BY <1>8, <1>10 DEF ReadsItem, ExtType, AtLen, AtBody
<1>12. q2.pos = ExtBodyEnd
  <2>1. ReadsNext(msg, AtBody, c, Len(c), x)
    BY <1>1, <1>5, <1>8, <1>11, AheadReads DEF AheadThen
  <2> QED BY <1>11, <2>1 DEF ReadsNext, ExtBodyEnd
<1>13. ~Overruns
  <2>1. q2.pos <= Len(msg) /\ q2.pos \in Nat
    BY <1>1, <1>11, AheadEnd
  <2> QED BY <1>1, <1>12, <2>1 DEF Overruns
<1>14. t \notin seen
  <2> SUFFICES ASSUME NEW i \in 1 .. n, f.order[i] = t PROVE FALSE
    BY <1>2
  <2>1. i \in 1 .. Len(f.order) /\ n + 1 \in 1 .. Len(f.order) /\ i # n + 1
    BY <1>1, <1>3
  <2> QED BY <1>4, <2>1 DEF HonestHello
<1>15. ExtFound(f, n, t, x, q2)
  BY <1>2, <1>3, <1>4, <1>5, <1>6, <1>11, <1>12, <1>13, <1>14 DEF ExtFound, TypesIn
<1> QED BY <1>15

(* The fields a hello has left when an extension of type t is taken. *)
TakesHonest(f, t) ==
    /\ t = KeyShare => out'.group = f.group /\ out'.share = f.share
    /\ t # KeyShare => out'.group = out.group /\ out'.share = out.share
    /\ t = SupportedVersions => out'.version = f.version
    /\ t # SupportedVersions => out'.version = out.version
    /\ t = PreShared => out'.psk = f.psk
    /\ t # PreShared => out'.psk = out.psk
    /\ out'.sid = out.sid /\ out'.cipher = out.cipher

LEMMA HonestTaken ==
    ASSUME NEW f, NEW n, NEW t, NEW x, NEW q2, ExtFound(f, n, t, x, q2),
           NEW body, Ahead(msg, body, x), ExtDone(t, body), TakesHonest(f, t),
           ParseInv, HonestHello(f), HelloAhead(f)
    PROVE  HelloAhead(f)'
<1>1. /\ n \in Nat /\ n < Len(f.order) /\ t = f.order[n + 1]
      /\ x = HelloExts(f, After(f.order, n + 1))
      /\ seen = TypesIn(f, n) /\ t \notin seen
      /\ q2.pos = ExtBodyEnd /\ Ahead(msg, q2, x)
  BY DEF ExtFound
<1>2. msg \in Seq(Byte) /\ Len(f.order) \in Nat
  BY LenProperties DEF ParseInv, Placed, HonestHello
<1>3. body = q2
  BY <1>1, <1>2, AheadUnique
<1>4. ~(t \in seen \/ body.pos # ExtBodyEnd)
  BY <1>1, <1>3
<1>5. /\ r' = [body EXCEPT !.err = @ \/ (t \in seen \/ body.pos # ExtBodyEnd)]
      /\ seen' = seen \cup {t}
      /\ msg' = msg /\ top' = top /\ extEnd' = extEnd
  BY Zenon DEF ExtDone
<1>6. Ahead(msg, [body EXCEPT !.err = @ \/ (t \in seen \/ body.pos # ExtBodyEnd)], x)
  BY <1>4, StillAhead
<1>7. Ahead(msg', r', HelloExts(f, After(f.order, n + 1)))
  BY <1>1, <1>5, <1>6, Zenon
<1>8. seen' = {f.order[i] : i \in 1 .. (n + 1)} /\ n + 1 \in 0 .. Len(f.order)
  <2>1. 1 .. (n + 1) = (1 .. n) \cup {n + 1}
    BY <1>1
  <2> QED BY <1>1, <1>2, <1>5, <2>1 DEF TypesIn
<1>9. HelloTaken(f)'
  <2>1. IF KeyShare \in seen' THEN out'.group = f.group /\ out'.share = f.share
                              ELSE out'.group = 0 /\ out'.share = <<>>
    BY <1>5 DEF TakesHonest, HelloAhead, HelloTaken
  <2>2. out'.version = IF SupportedVersions \in seen' THEN f.version ELSE 0
    BY <1>5 DEF TakesHonest, HelloAhead, HelloTaken
  <2>3. out'.psk = IF PreShared \in seen' THEN f.psk ELSE -1
    BY <1>5 DEF TakesHonest, HelloAhead, HelloTaken
  <2> QED BY <2>1, <2>2, <2>3 DEF HelloTaken
<1>10. /\ f.random # HrrRandom /\ extEnd' = Len(msg')
       /\ top' = [type |-> 2, hsLen |-> Len(msg') - 4, lver |-> Legacy, comp |-> 0]
       /\ out'.sid = f.sid /\ out'.cipher = f.cipher
  BY <1>5 DEF TakesHonest, HelloAhead
<1> QED BY <1>7, <1>8, <1>9, <1>10 DEF HelloAhead

LEMMA Contents ==
    ASSUME NEW f
    PROVE  /\ Content(f, KeyShare) = ItemText([type |-> f.group, data |-> f.share])
           /\ Content(f, SupportedVersions) = U16(f.version)
           /\ Content(f, PreShared) = U16(f.psk)
<1>1. KeyShare # SupportedVersions /\ KeyShare # PreShared /\ SupportedVersions # PreShared
  BY DEF KeyShare, SupportedVersions, PreShared
<1> QED BY <1>1 DEF Content, ItemText

(* No extension of an honest hello is refused or taken for another. *)
LEMMA HonestExtension ==
    ASSUME ParseInv, NEW f, HonestHello(f), HelloAhead(f), ParseExtension
    PROVE  HelloAhead(f)' /\ pc' = "exts"
<1>1. InLoop /\ pc = "exts"
  BY DEF ParseExtension, ParseKeyShare, ParseVersion, ParsePreShared, RefuseExtension, InLoop
<1>2. PICK n, t, x, q2 : ExtFound(f, n, t, x, q2)
  BY <1>1, ExtensionFound
<1>3. /\ IsText(x) /\ t \in TypesIn(f, Len(f.order)) /\ ExtType = t /\ ~Overruns
      /\ Ahead(msg, AtBody, Content(f, t) \o x)
  BY <1>2 DEF ExtFound
<1>4. msg \in Seq(Byte) /\ kind = "SH" /\ out \in Parsed
  <2>1. msg \in Seq(Byte) /\ kind = "SH"
    BY <1>1 DEF ParseInv, Placed
  <2> QED BY <2>1 DEF ParseInv, HelloInv
<1>5. t \in Known
  BY <1>3, HelloPiece
<1>6. KeyShare # SupportedVersions /\ KeyShare # PreShared /\ SupportedVersions # PreShared
  BY DEF KeyShare, SupportedVersions, PreShared
<1>7. /\ f.group \in Nat /\ f.share \in Seq(Number) /\ f.version \in Nat
      /\ PreShared \in TypesIn(f, Len(f.order)) => f.psk \in Nat
  BY DEF HonestHello, FieldsOf, Parsed
<1>8. CASE ParseKeyShare
  <2>1. t = KeyShare
    BY <1>3, <1>8 DEF ParseKeyShare
  <2>2. PICK e : e = [type |-> f.group, data |-> f.share]
    OBVIOUS
  <2>3. e \in EeItem /\ e.type = f.group /\ e.data = f.share
    BY <1>7, <2>2 DEF EeItem
  <2>4. Ahead(msg, AtBody, ItemText(e) \o x)
    BY <1>3, <2>1, <2>2, Contents
  <2>5. PICK q3 : ReadsItem(msg, AtBody, e.type, Len(e.data), e.data, x, q3)
    BY <1>3, <1>4, <2>3, <2>4, AheadItem
  <2>6. /\ ReadU(msg, AtBody, 2) = f.group
        /\ ReadU(msg, Skip(msg, AtBody, 2), 2) = Len(f.share)
        /\ q3 = Skip(msg, Skip(msg, Skip(msg, AtBody, 2), 2), Len(f.share))
        /\ ReadBytes(msg, Skip(msg, Skip(msg, AtBody, 2), 2), Len(f.share)) = f.share
        /\ Ahead(msg, q3, x)
    BY <2>3, <2>5 DEF ReadsItem
  <2>7. out' = [out EXCEPT !.group = f.group, !.share = f.share] /\ ExtDone(KeyShare, q3)
    BY <1>8, <2>6 DEF ParseKeyShare
  <2>8. TakesHonest(f, t)
    BY <1>4, <1>6, <2>1, <2>7 DEF TakesHonest, Parsed
  <2> QED BY <1>1, <1>2, <2>1, <2>6, <2>7, <2>8, HonestTaken DEF ExtDone
<1>9. CASE ParseVersion
  <2>1. t = SupportedVersions
    BY <1>3, <1>9 DEF ParseVersion
  <2>2. Ahead(msg, AtBody, U16(f.version) \o x)
    BY <1>3, <2>1, Contents
  <2>3. ReadU(msg, AtBody, 2) = f.version /\ Ahead(msg, Skip(msg, AtBody, 2), x)
    BY <1>3, <1>4, <1>7, <2>2, AheadWord
  <2>4. out' = [out EXCEPT !.version = f.version]
        /\ ExtDone(SupportedVersions, Skip(msg, AtBody, 2))
    BY <1>9, <2>3 DEF ParseVersion
  <2>5. TakesHonest(f, t)
    BY <1>4, <1>6, <2>1, <2>4 DEF TakesHonest, Parsed
  <2> QED BY <1>1, <1>2, <2>1, <2>3, <2>4, <2>5, HonestTaken DEF ExtDone
<1>10. CASE ParsePreShared
  <2>1. t = PreShared
    BY <1>3, <1>10 DEF ParsePreShared
  <2>2. Ahead(msg, AtBody, U16(f.psk) \o x) /\ f.psk \in Nat
    BY <1>3, <1>7, <2>1, Contents
  <2>3. ReadU(msg, AtBody, 2) = f.psk /\ Ahead(msg, Skip(msg, AtBody, 2), x)
    BY <1>3, <1>4, <2>2, AheadWord
  <2>4. out' = [out EXCEPT !.psk = f.psk] /\ ExtDone(PreShared, Skip(msg, AtBody, 2))
    BY <1>10, <2>3 DEF ParsePreShared
  <2>5. TakesHonest(f, t)
    BY <1>4, <1>6, <2>1, <2>4 DEF TakesHonest, Parsed
  <2> QED BY <1>1, <1>2, <2>1, <2>3, <2>4, <2>5, HonestTaken DEF ExtDone
<1>11. CASE RefuseExtension
  BY <1>3, <1>5, <1>11 DEF RefuseExtension, Known
<1> QED BY <1>8, <1>9, <1>10, <1>11 DEF ParseExtension

(* ParseEnd: every extension has been read, so every field is there. *)
LEMMA HonestEnd ==
    ASSUME ParseInv, NEW f, HonestHello(f), HelloAhead(f), ParseEnd
    PROVE  HelloProgress(f)'
<1>1. /\ pc = "exts" /\ ~InLoop /\ pc' = "driver" /\ out' = out
      /\ ret' = IF \/ r.err \/ top.type # 2 \/ top.hsLen # Len(msg) - 4
                   \/ top.lver # Legacy \/ top.comp # 0 \/ extEnd # Len(msg)
                THEN "E_INVALID_ARG" ELSE "SUCCESS"
  BY DEF ParseEnd
<1>2. kind = "SH" /\ msg \in Seq(Byte) /\ Len(f.order) \in Nat
  BY <1>1, LenProperties DEF ParseInv, Placed, HonestHello
<1>3. ~out.hrr /\ out \in Parsed
  BY <1>1, <1>2 DEF ParseInv, HelloInv
<1>4. /\ f.random # HrrRandom /\ extEnd = Len(msg)
      /\ top.type = 2 /\ top.hsLen = Len(msg) - 4 /\ top.lver = Legacy /\ top.comp = 0
      /\ out.sid = f.sid /\ out.cipher = f.cipher
  BY DEF HelloAhead
<1>5. PICK n \in 0 .. Len(f.order) :
          seen = {f.order[i] : i \in 1 .. n} /\ Ahead(msg, r, HelloExts(f, After(f.order, n)))
  BY DEF HelloAhead
<1>6. ~r.err /\ ret' = "SUCCESS"
  <2>1. ~r.err
    BY <1>5 DEF Ahead
  <2> QED BY <1>1, <1>4, <2>1
<1>7. n = Len(f.order)
  <2> SUFFICES ASSUME n < Len(f.order) PROVE FALSE
    BY <1>2
  <2>1. PICK t, x : t = f.order[n + 1] /\ x = HelloExts(f, After(f.order, n + 1))
    OBVIOUS
  <2>2. /\ t \in TypesIn(f, Len(f.order)) /\ IsText(x)
        /\ HelloExts(f, After(f.order, n)) = EncodeExt(f, t) \o x
    BY <2>1, NextExtension
  <2>3. PICK e \in EeItem : EncodeExt(f, t) = ItemText(e)
    BY <2>2, HelloPiece
  <2>4. Len(HelloExts(f, After(f.order, n))) # 0
    BY <2>2, <2>3, ItemNotEmpty
  <2>5. r.pos < Len(msg)
    BY <1>2, <1>5, <2>4, AheadEnd
  <2> QED BY <1>1, <1>4, <1>6, <2>5 DEF InLoop
<1>8. seen = TypesIn(f, Len(f.order))
  BY <1>5, <1>7 DEF TypesIn
<1>9. out.group = f.group /\ out.share = f.share /\ out.version = f.version /\ out.psk = f.psk
  <2>1. out.group = f.group /\ out.share = f.share
    BY <1>8 DEF HonestHello, HelloAhead, HelloTaken
  <2>2. out.version = f.version
    BY <1>8 DEF HonestHello, HelloAhead, HelloTaken
  <2>3. out.psk = f.psk
    BY <1>8 DEF HonestHello, HelloAhead, HelloTaken
  <2> QED BY <2>1, <2>2, <2>3
<1>10. \A y \in {"sid", "cipher", "group", "share", "version", "psk"} : out[y] = f[y]
  BY <1>4, <1>9
<1>11. out.hrr = (f.random = HrrRandom)
  <2>1. out.hrr = FALSE
    BY <1>3 DEF Parsed
  <2>2. (f.random = HrrRandom) = FALSE
    BY <1>4
  <2> QED BY <2>1, <2>2, Zenon
<1> QED BY <1>1, <1>6, <1>10, <1>11 DEF HelloProgress

-----------------------------------------------------------------------------
(***************************************************************************)
(* Every step, on every honest hello; and the theorem.                     *)
(***************************************************************************)
LEMMA HelloStep == ParseInv /\ HonestHelloInv /\ [Next]_vars => HonestHelloInv'
<1> SUFFICES ASSUME ParseInv, HonestHelloInv, [Next]_vars, kind' = "SH",
                    NEW h \in HonestHellos, msg' = h.bytes
             PROVE  HelloProgress(h.fields)'
  BY DEF HonestHelloInv
<1>1. kind' = kind /\ msg' = msg
  BY DEF Next, HelloNext, FlightNext, ParseHeader, ParseExtension, ParseKeyShare, ParseVersion,
         ParsePreShared, RefuseExtension, ExtDone, ParseEnd, DriverChecks, EncExtStart, Enter,
         EncExtNext, CertStart, CertNext, LoopEnds, CvParse, vars, parserVars
<1>2. PICK f : f = h.fields
  OBVIOUS
<1>3. HonestHello(f) /\ msg = Encode(f, f.random, f.order) /\ kind = "SH" /\ HelloProgress(f)
  BY <1>1, <1>2, HonestHelloIs DEF HonestHelloInv
<1>4. CASE ParseHeader
  BY <1>2, <1>3, <1>4, HonestHeader
<1>5. CASE ParseExtension
  <2>1. pc = "exts"
    BY <1>5 DEF ParseExtension, ParseKeyShare, ParseVersion, ParsePreShared, RefuseExtension,
                InLoop
  <2>2. HelloAhead(f)
    BY <1>3, <2>1 DEF HelloProgress
  <2>3. HelloAhead(f)' /\ pc' = "exts"
    BY <1>3, <1>5, <2>2, HonestExtension
  <2> QED BY <1>2, <2>3 DEF HelloProgress
<1>6. CASE ParseEnd
  <2>1. HelloAhead(f)
    BY <1>3, <1>6 DEF HelloProgress, ParseEnd
  <2> QED BY <1>2, <1>3, <1>6, <2>1, HonestEnd
<1>7. CASE DriverChecks
  <2>1. pc' = "done"
    BY <1>7 DEF DriverChecks
  <2> QED BY <2>1 DEF HelloProgress
<1>8. CASE FlightNext
  BY <1>3, <1>8 DEF FlightNext, EncExtStart, EncExtNext, CertStart, CertNext, CertTurn, LoopEnds,
                    CvParse
<1>9. CASE UNCHANGED vars
  BY <1>2, <1>3, <1>9 DEF HelloProgress, HelloAhead, HelloTaken, vars, parserVars, helloVars
<1> QED BY <1>4, <1>5, <1>6, <1>7, <1>8, <1>9 DEF Next, HelloNext

LEMMA HonestInit == Init => HonestInv
<1> SUFFICES ASSUME Init PROVE HonestInv
  OBVIOUS
<1>1. pc \in {"header", "start"}
  BY DEF Init, HelloInit, FlightInit
<1>2. HonestBodyInv
  BY <1>1 DEF HonestBodyInv, BodyAhead
<1>3. HonestHelloInv
  BY <1>1 DEF HonestHelloInv, HelloProgress
<1> QED BY <1>2, <1>3 DEF HonestInv

(* What the grammar has is accepted, and its contents come out unchanged
   (wn_serverhello.c:83, wn_connect.c:67). *)
THEOREM HonestAreParsed == Spec => []HonestIsParsed
<1>1. Init => HonestInv
  BY HonestInit
<1>2. ParseInv /\ HonestInv /\ [Next]_vars => HonestInv'
  BY BodyStep, HelloStep DEF HonestInv
<1>3. ParseInv /\ HonestInv => HonestIsParsed
  <2> SUFFICES ASSUME ParseInv, HonestInv PROVE HonestIsParsed
    OBVIOUS
  <2>1. HonestHelloParsed
    <3>1. pc = "driver" => kind = "SH"
      BY DEF ParseInv, Placed
    <3> QED BY <3>1 DEF HonestHelloParsed, HonestInv, HonestHelloInv, HelloProgress
  <2>2. HonestBodyParsed
    BY DEF HonestBodyParsed, HonestInv, HonestBodyInv, BodyAhead, HonestlySent
  <2> QED BY <2>1, <2>2 DEF HonestIsParsed
<1> QED BY <1>1, <1>2, <1>3, ParseInvariant, PTL DEF Spec
=============================================================================
