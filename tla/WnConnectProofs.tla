-------------------------- MODULE WnConnectProofs ---------------------------
(***************************************************************************)
(* Theorems about WnConnect, for every value of the constants: every set   *)
(* of servers, every flight, every buffer, every bound on faults.  First   *)
(* HsInv, which every safety property but one follows from; last, on top   *)
(* of it, SmoothInv: what holds while there is no fault.                   *)
(***************************************************************************)
EXTENDS WnConnect, WnLemmas

-----------------------------------------------------------------------------
(***************************************************************************)
(* The bytes of a flight.  EndsAt(b, off, k): the first k messages of the  *)
(* flight with bytes b end at offset off, and the next one begins there.   *)
(***************************************************************************)
Messages == [type: FlightTypes, len: Nat \ {0}, check: Codes]

EndsAt(b, off, k) ==
    /\ off \in 0 .. Len(b)
    /\ (off = 0) <=> (k = 0)
    /\ off > 0 => b[off] = k
    /\ off < Len(b) => b[off + 1] = k + 1

WellCut(f, b) ==
    /\ b \in Seq(1 .. Len(f))
    /\ EndsAt(b, 0, 0)
    /\ EndsAt(b, Len(b), Len(f))
    /\ \A off, k \in Nat :
          (EndsAt(b, off, k) /\ off < Len(b))
              => k < Len(f) /\ EndsAt(b, off + f[k + 1].len, k + 1)

LEMMA MessageLength ==
    ASSUME NEW f \in Seq(Messages)
    PROVE  \A i \in 1 .. Len(f) : f[i] \in Messages /\ f[i].len \in Nat \ {0}
<1>1. \A i \in 1 .. Len(f) : f[i] \in Messages
  OBVIOUS
<1> QED BY <1>1 DEF Messages

(* One message more: its number, once for each byte, at the end. *)
LEMMA BytesAppend ==
    ASSUME NEW f \in Seq(Messages), NEW m \in Messages
    PROVE  Bytes(Append(f, m)) = Bytes(f) \o [k \in 1 .. m.len |-> Len(f) + 1]
<1> DEFINE q(g) == [i \in 1 .. Len(g) |-> [k \in 1 .. g[i].len |-> i]]
           e == [k \in 1 .. m.len |-> Len(f) + 1]
           n == Len(f) + 1
<1>1. n \in Nat /\ Append(f, m) \in Seq(Messages) /\ Len(Append(f, m)) = n
  OBVIOUS
<1>2. e \in Seq(Nat)
  BY DEF Messages
<1>3. q(f) \in Seq(Seq(Nat))
  <2>1. \A i \in 1 .. Len(f) : f[i].len \in Nat
    BY MessageLength
  <2>2. \A i \in 1 .. Len(f) : [k \in 1 .. f[i].len |-> i] \in Seq(Nat)
    BY <2>1
  <2> QED BY <2>2
<1>4. q(Append(f, m)) = Append(q(f), e)
  <2>1. \A i \in 1 .. Len(f) : Append(f, m)[i] = f[i]
    OBVIOUS
  <2>2. Append(f, m)[n] = m
    OBVIOUS
  <2>3. Len(q(f)) = Len(f)
    OBVIOUS
  <2>4. Append(q(f), e) = [i \in 1 .. n |-> IF i = n THEN e ELSE q(f)[i]]
    BY <1>1, <1>2, <1>3, <2>3
  <2>5. \A i \in 1 .. n : [k \in 1 .. Append(f, m)[i].len |-> i]
                            = IF i = n THEN e ELSE q(f)[i]
    <3>1. \A i \in 1 .. Len(f) : q(f)[i] = [k \in 1 .. f[i].len |-> i]
      OBVIOUS
    <3> SUFFICES ASSUME NEW i \in 1 .. n
                 PROVE  [k \in 1 .. Append(f, m)[i].len |-> i]
                            = IF i = n THEN e ELSE q(f)[i]
      OBVIOUS
    <3>2. CASE i = n
      BY <2>2, <3>2
    <3>3. CASE i # n
      <4>1. i \in 1 .. Len(f)
        BY <3>3
      <4> QED BY <2>1, <3>1, <3>3, <4>1
    <3> QED BY <3>2, <3>3
  <2> QED BY ZenonT(60), <1>1, <2>4, <2>5
<1>5. FlattenSeq(Append(q(f), e)) = FlattenSeq(q(f)) \o e
  <2> HIDE DEF q, e
  <2> QED BY <1>2, <1>3, FlattenAppend
<1>6. Bytes(Append(f, m)) = FlattenSeq(q(Append(f, m))) /\ Bytes(f) = FlattenSeq(q(f))
  BY DEF Bytes
<1> QED BY <1>4, <1>5, <1>6

LEMMA WellCutAppend ==
    ASSUME NEW f \in Seq(Messages), NEW m \in Messages, NEW b, WellCut(f, b)
    PROVE  WellCut(Append(f, m), b \o [k \in 1 .. m.len |-> Len(f) + 1])
<1> DEFINE n == Len(f)
           e == [k \in 1 .. m.len |-> n + 1]
           c == b \o e
           g == Append(f, m)
<1>1. n \in Nat /\ b \in Seq(1 .. n) /\ m.len \in Nat \ {0} /\ Len(g) = n + 1
  BY DEF WellCut, Messages
<1>2. /\ Len(c) = Len(b) + m.len /\ Len(b) \in Nat
      /\ \A p \in 1 .. Len(b) : c[p] = b[p] /\ b[p] \in 1 .. n
      /\ \A p \in Len(b) + 1 .. Len(c) : c[p] = n + 1
  <2>1. e \in Seq(Nat) /\ Len(e) = m.len
    <3>1. n + 1 \in Nat
      BY <1>1
    <3> HIDE DEF n
    <3> QED BY <1>1, <3>1
  <2>2. b \in Seq(Nat)
    BY <1>1, SeqMonotonic
  <2> QED BY <1>1, <2>1, <2>2
<1>3. c \in Seq(1 .. n + 1)
  <2>1. e \in Seq(1 .. n + 1)
    <3>1. n + 1 \in 1 .. n + 1
      BY <1>1
    <3> QED BY <1>1, <3>1
  <2>2. b \in Seq(1 .. n + 1)
    BY <1>1, SeqMonotonic
  <2> QED BY <2>1, <2>2
<1>4. \A k \in 1 .. n : g[k] = f[k] /\ f[k].len \in Nat \ {0}
  BY <1>1, MessageLength
<1>5. g[n + 1] = m
  OBVIOUS
<1> HIDE DEF c, g, n, e
<1>6. (Len(b) = 0) <=> (n = 0)
  BY <1>1, <1>2 DEF WellCut, EndsAt, n
<1>7. Len(b) > 0 => b[1] = 1 /\ b[Len(b)] = n
  BY <1>1, <1>2 DEF WellCut, EndsAt, n
<1>8. EndsAt(c, 0, 0)
  BY SMTT(60), <1>1, <1>2, <1>6, <1>7 DEF EndsAt
<1>9. EndsAt(c, Len(c), n + 1)
  <2>1. Len(c) \in Nat /\ Len(c) > 0 /\ Len(c) \in Len(b) + 1 .. Len(c)
    BY <1>1, <1>2
  <2>2. c[Len(c)] = n + 1
    BY <1>2, <2>1
  <2> QED BY <1>1, <2>1, <2>2 DEF EndsAt
<1>10. ASSUME NEW off \in Nat, NEW k \in Nat, EndsAt(c, off, k), off < Len(c)
       PROVE  k < n + 1 /\ EndsAt(c, off + g[k + 1].len, k + 1)
  <2>0. /\ Len(c) \in Nat /\ off + 1 \in 1 .. Len(c) /\ c[off + 1] = k + 1
        /\ (off = 0) <=> (k = 0)
        /\ off > 0 => c[off] = k
    BY <1>1, <1>2, <1>10 DEF EndsAt
  <2>1. CASE k < n
    <3>1. off < Len(b)
      <4>1. CASE off >= Len(b)
        <5>1. off + 1 \in Len(b) + 1 .. Len(c)
          BY <1>2, <2>0, <4>1
        <5>2. c[off + 1] = n + 1
          BY <1>2, <5>1
        <5> QED BY <1>1, <2>0, <2>1, <5>2
      <4> QED BY <1>2, <4>1
    <3>2. EndsAt(b, off, k)
      <4>1. off + 1 \in 1 .. Len(b)
        BY <1>2, <3>1
      <4>2. b[off + 1] = k + 1
        BY <1>2, <2>0, <4>1
      <4>3. off > 0 => off \in 1 .. Len(b)
        BY <1>2, <3>1
      <4>4. off > 0 => b[off] = k
        BY <1>2, <2>0, <4>3
      <4> QED BY <1>2, <2>0, <3>1, <4>2, <4>4 DEF EndsAt
    <3>3. EndsAt(b, off + f[k + 1].len, k + 1)
      BY <3>1, <3>2 DEF WellCut
    <3>4. g[k + 1] = f[k + 1] /\ f[k + 1].len \in Nat \ {0}
      BY <1>1, <1>4, <2>1
    <3>5. EndsAt(c, off + f[k + 1].len, k + 1)
      <4> DEFINE o == off + f[k + 1].len
      <4>1. o \in 1 .. Len(b) /\ b[o] = k + 1
        BY <1>2, <3>3, <3>4 DEF EndsAt
      <4>2. o < Len(b) => b[o + 1] = k + 2
        BY <1>2, <3>3, <3>4, <4>1 DEF EndsAt
      <4>3. o = Len(b) => k + 1 = n
        BY SMTT(60), <1>1, <1>2, <1>7, <4>1
      <4> HIDE DEF o
      <4>4. o < Len(c) => c[o + 1] = k + 2
        <5>1. CASE o < Len(b)
          <6>1. o + 1 \in 1 .. Len(b)
            BY <1>2, <4>1, <5>1
          <6> QED BY <1>2, <4>2, <5>1, <6>1
        <5>2. CASE o = Len(b)
          <6>1. o < Len(c) => o + 1 \in Len(b) + 1 .. Len(c)
            BY <1>1, <1>2, <5>2
          <6>2. o < Len(c) => c[o + 1] = n + 1
            BY <1>2, <6>1
          <6> QED BY <4>3, <5>2, <6>2
        <5> QED BY <1>2, <4>1, <5>1, <5>2
      <4>5. EndsAt(c, o, k + 1)
        BY <1>1, <1>2, <4>1, <4>4 DEF EndsAt
      <4> QED BY <4>5 DEF o
    <3> QED BY <1>1, <2>1, <3>4, <3>5
  <2>2. CASE k >= n
    <3>1. off >= Len(b)
      <4>1. CASE off < Len(b)
        <5>1. off + 1 \in 1 .. Len(b)
          BY <1>2, <4>1
        <5>2. c[off + 1] \in 1 .. n
          BY <1>2, <5>1
        <5> QED BY <1>1, <2>0, <2>2, <5>2
      <4> QED BY <1>2, <4>1
    <3>2. k = n
      <4>1. off + 1 \in Len(b) + 1 .. Len(c)
        BY <1>2, <2>0, <3>1
      <4>2. c[off + 1] = n + 1
        BY <1>2, <4>1
      <4> QED BY <1>1, <2>0, <4>2
    <3>3. off = Len(b)
      <4>1. CASE off > Len(b)
        <5>1. off \in Len(b) + 1 .. Len(c)
          BY <1>2, <2>0, <4>1
        <5>2. c[off] = n + 1 /\ off > 0
          BY <1>2, <4>1, <5>1
        <5> QED BY <1>1, <2>0, <3>2, <5>2
      <4> QED BY <1>2, <3>1, <4>1
    <3>4. off + m.len = Len(c)
      BY <1>2, <3>3
    <3> QED BY <1>1, <1>5, <1>9, <3>2, <3>4
  <2> QED BY <1>1, <2>1, <2>2
<1> QED BY <1>1, <1>3, <1>8, <1>9, <1>10 DEF WellCut, c, g, n, e

(* For every flight, by induction on its length. *)
LEMMA BytesWellCut ==
    ASSUME NEW f \in Seq(Messages)
    PROVE  WellCut(f, Bytes(f))
<1> DEFINE T == {n \in Nat : \A g \in Seq(Messages) :
                                 Len(g) = n => WellCut(g, Bytes(g))}
<1>1. 0 \in T
  <2> SUFFICES ASSUME NEW g \in Seq(Messages), Len(g) = 0
               PROVE  WellCut(g, Bytes(g))
    OBVIOUS
  <2>1. g = <<>> /\ Bytes(g) = <<>>
    BY FlattenEmpty DEF Bytes
  <2>2. <<>> \in Seq(1 .. 0) /\ Len(<<>>) = 0
    OBVIOUS
  <2>3. \A off, k \in Nat : ~(EndsAt(<<>>, off, k) /\ off < 0)
    OBVIOUS
  <2>4. EndsAt(<<>>, 0, 0)
    BY <2>2 DEF EndsAt
  <2> QED BY <2>1, <2>2, <2>3, <2>4 DEF WellCut
<1>2. ASSUME NEW n \in Nat, n \in T
      PROVE  n + 1 \in T
  <2> SUFFICES ASSUME NEW g \in Seq(Messages), Len(g) = n + 1
               PROVE  WellCut(g, Bytes(g))
    OBVIOUS
  <2>1. g # <<>>
    OBVIOUS
  <2>2. PICK h \in Seq(Messages), m \in Messages : g = Append(h, m)
    BY <2>1, SequenceEmptyOrAppend
  <2>3. Len(h) = n
    BY <2>2
  <2>4. WellCut(h, Bytes(h))
    BY <1>2, <2>3
  <2> HIDE DEF T
  <2> QED BY ZenonT(60), <2>2, <2>4, BytesAppend, WellCutAppend
<1>3. \A n \in Nat : n \in T
  <2> HIDE DEF T
  <2> QED BY <1>1, <1>2, SetInduction
<1> QED BY <1>3

-----------------------------------------------------------------------------
(***************************************************************************)
(* The inductive invariant.  First the types of everything TypeOK leaves   *)
(* open: what a transcript, a secret and a record on either wire can be.   *)
(***************************************************************************)
Entries == [type: {"CH", "SH"} \cup FlightTypes, val: {"orig", "altered"} \cup Codes]
Secrets == {"right", "wrong", "noPsk"} \X Seq(Entries)
Hellos == [check: Codes, pskSelected: BOOLEAN]

AlertNames == {"unexpected_message", "bad_record_mac", "decode_error",
               "illegal_parameter", "bad_certificate", "internal_error"}

HelloRecs == [form: {"ch"}, type: {"CH"}, val: {"orig", "altered"}]
AnswerRecs == [form: {"hello"}, type: {"SH"}, val: {"orig", "altered"},
               check: Codes, pskSelected: BOOLEAN]
PlainRecs == [form: {"ccs", "plainAlert", "short", "badCcs", "badLength"},
              intact: {TRUE}]
ServerRecs == [form: {"sealed"}, key: {"s"} \X Secrets, iv: {"s"} \X Secrets,
               seq: Nat, ctype: {"handshake", "appdata", "padding"},
               body: [bytes: Seq(Nat), pad: Nat], intact: BOOLEAN]
ClientBodies == ({"c"} \X Secrets \X Seq(Entries)) \cup ({"fatal"} \X AlertNames)
ClientRecs == [form: {"sealed"}, key: {"c"} \X Secrets, iv: {"c"} \X Secrets,
               seq: {0, 1}, ctype: {"handshake", "alert"},
               body: ClientBodies, intact: BOOLEAN]

ServerStates ==
    [stage: {"wait", "flight", "done", "dead"}, cred: {"right", "wrong"},
     ch: Entries \cup {None}, sh: Entries \cup {None},
     hello: Hellos \cup {None}, flight: Seq(Messages), bytes: Seq(Nat),
     sent: Nat, seq: Nat]

ClientTypeOK ==
    /\ setup \in DOMAIN Setups
    /\ pc \in {"call", "hello", "flight", "parse", "finish", "returned"}
    /\ ret \in Codes
    /\ sess.flags \subseteq {"ESTABLISHED"}
    /\ tc \in Seq(Entries)
    /\ keys \in Secrets \cup {None}
    /\ sSeq \in Nat
    /\ acc \in Seq(Nat)
    /\ accOff \in Nat
    /\ got \subseteq FlightTypes

WireTypeOK ==
    /\ toServer \in Seq(HelloRecs \cup PlainRecs \cup ClientRecs)
    /\ toClient \in Seq(AnswerRecs \cup PlainRecs \cup ServerRecs)
    /\ srv \in ServerStates
    /\ hsWrote \in Seq(ClientRecs)
    /\ ccs \in 0 .. Setups[setup].maxCcs
    /\ faults \in 0 .. MaxFaults

(* The server: silent before it has a ClientHello; then its bytes are      *)
(* those of its flight and the transcript of its secret is what it saw.    *)
ServerOK ==
    /\ srv.bytes = Bytes(srv.flight)
    /\ srv.sent \in 0 .. Len(srv.bytes)
    /\ srv.stage = "wait" =>
          /\ pc \in {"call", "hello", "returned"}
          /\ toClient = <<>> /\ srv.seq = 0 /\ srv.sent = 0
    /\ srv.stage # "wait" => srv.ch \in Entries /\ srv.sh \in Entries

(* The client outside the flight, and its secrets while it is in it. *)
Running == pc \in {"flight", "parse", "finish"}

ClientOK ==
    /\ (keys # None) = Running
    /\ pc \in {"hello", "flight", "parse", "finish"} => sess = Cleared
    /\ pc = "call" => /\ sess \in {Cleared, OldSession}
                      /\ tc = <<>> /\ toServer = <<>>
    /\ pc \in {"call", "hello"} => got = {} /\ sSeq = 0
    /\ pc \in {"call", "hello", "returned"} => acc = <<>> /\ accOff = 0
    /\ pc = "hello" => Len(tc) = 1
    /\ Running => /\ Len(tc) >= 2
                  /\ keys = HsSecret("right", <<tc[1], tc[2]>>)

(* What the client's handshake key has sealed. *)
SealedOK ==
    /\ pc # "returned" => hsWrote = <<>>
    /\ Len(hsWrote) <= 2
    /\ Len(hsWrote) = 2 => hsWrote[1].seq # hsWrote[2].seq

(***************************************************************************)
(* How the server has cut its bytes: record n holds the bytes behind       *)
(* cut[n], up to cut[n + 1].  Every sealed record on the wire is one of    *)
(* these, and the client has read the first sSeq of them.                  *)
(***************************************************************************)
CutRec(cut, rec, secret, bytes, seq) ==
    rec.form = "sealed" =>
        /\ rec.key = <<"s", secret>> /\ rec.seq < seq
        /\ rec.body.bytes = SubSeq(bytes, cut[rec.seq] + 1, cut[rec.seq + 1])

CutWire(cut) ==
    \A i \in DOMAIN toClient : CutRec(cut, toClient[i], SrvSecret, srv.bytes, srv.seq)

Cutting(cut, seq, sent) ==
    /\ cut[0] = 0 /\ cut[seq] = sent
    /\ \A n \in 0 .. seq - 1 : cut[n] <= cut[n + 1]
    /\ \A n \in 0 .. seq : cut[n] <= sent

CutServer(cut) == Cutting(cut, srv.seq, srv.sent)

CutClient(cut) ==
    pc # "returned" => sSeq <= srv.seq /\ acc = SubSeq(srv.bytes, 1, cut[sSeq])

Cuts(cut) ==
    /\ CutServer(cut)
    /\ CutWire(cut)
    /\ CutClient(cut)

CutOK == \E cut \in [Nat -> Nat] : Cuts(cut)

(* What the client has parsed of the flight. *)
Parsed == Len(tc) - 2

ParseOK ==
    Running =>
      /\ sSeq > 0 => keys = SrvSecret
      /\ accOff <= Len(acc) /\ Len(acc) <= AccSz
      /\ EndsAt(srv.bytes, accOff, Parsed)
      /\ \A k \in 1 .. Parsed : tc[k + 2] = FlightEntry(srv.flight[k])
      /\ Parsed <= Len(LegalFlight)
      /\ \A k \in 1 .. Parsed : tc[k + 2] = [type |-> LegalFlight[k], val |-> "SUCCESS"]
      /\ got = {LegalFlight[k] : k \in 1 .. Parsed}
      /\ (pc = "finish") = (Parsed = Len(LegalFlight))
      /\ (Path = "cert" /\ "CV" \in got) => srv.cred = "right"

(* A Finished of the client's covers the transcript th. *)
Covers(rec, th) ==
    (rec.form = "sealed" /\ rec.ctype = "handshake") => rec.body[3] = th
AllCover(q, th) == \A i \in DOMAIN q : Covers(q[i], th)

(* What is left of the handshake when the driver has returned. *)
FinishedOK ==
    \A i \in DOMAIN toServer :
        (toServer[i].form = "sealed" /\ toServer[i].ctype = "handshake")
            => pc = "returned" /\ toServer[i].body[3] = tc

SessionOK ==
    /\ NewSession => pc = "returned" /\ srv.stage # "wait" /\ FlightExact
    /\ srv.stage = "done" => pc = "returned"
    /\ Agreement

HsInv == /\ ClientTypeOK /\ WireTypeOK /\ ServerOK /\ ClientOK /\ SealedOK
         /\ CutOK /\ ParseOK /\ FinishedOK /\ SessionOK /\ NoSessionOnFailure

-----------------------------------------------------------------------------
(* What the operators of the model return. *)

LEMMA SetupFacts ==
    ASSUME setup \in DOMAIN Setups
    PROVE  /\ Path \in {"psk", "cert"}
           /\ HdrSz \in Nat \ {0} /\ AccSz \in Nat /\ Pads \subseteq Nat
           /\ MaxFaults \in Nat /\ Setups[setup].maxCcs \in Nat
           /\ \A a \in Setups[setup].answers :
                 a.hello \in Hellos /\ a.flight \in Seq(Messages)
<1>1. /\ Path \in {"psk", "cert"}
      /\ HdrSz \in Nat \ {0} /\ AccSz \in Nat /\ Pads \subseteq Nat
      /\ MaxFaults \in Nat /\ Setups[setup].maxCcs \in Nat
  BY ConnectAssumption DEF Path, HdrSz, AccSz, Pads, MaxFaults
<1>2. ASSUME NEW a \in Setups[setup].answers
      PROVE  a.hello \in Hellos /\ a.flight \in Seq(Messages)
  <2>1. a.hello \in Hellos /\ a.flight \in Seq(Message(HdrSz))
    BY MessageAssumption DEF Hellos, HdrSz
  <2>2. Message(HdrSz) \subseteq Messages
    BY <1>1 DEF Message, Messages
  <2> QED BY <2>1, <2>2, SeqMonotonic
<1> QED BY <1>1, <1>2

LEMMA SecretType ==
    ASSUME NEW psk \in {"right", "wrong"}, NEW th \in Seq(Entries)
    PROVE  HsSecret(psk, th) \in Secrets /\ HsSecret(psk, th) # None
BY DEF HsSecret, Secrets, None

LEMMA AlertType ==
    ASSUME NEW code, NEW n \in {0, 1}, keys \in Secrets
    PROVE  /\ Alert(code, n) \in ClientRecs
           /\ Alert(code, n).ctype = "alert" /\ Alert(code, n).seq = n
<1>1. ErrToAlert(code) \in AlertNames
  BY DEF ErrToAlert, AlertNames
<1>2. <<"fatal", ErrToAlert(code)>> \in ClientBodies
  BY <1>1 DEF ClientBodies
<1>3. <<"c", keys>> \in {"c"} \X Secrets
  OBVIOUS
<1> QED BY <1>2, <1>3 DEF Alert, Protect, TrafficKey, ClientRecs

LEMMA FinishedType ==
    ASSUME keys \in Secrets, tc \in Seq(Entries)
    PROVE  /\ ClientFinished \in ClientRecs /\ Torn(ClientFinished) \in ClientRecs
           /\ ClientFinished.seq = 0
           /\ ClientFinished.body[3] = tc /\ Torn(ClientFinished).body[3] = tc
<1>1. <<"c", keys, tc>> \in ClientBodies
  BY DEF ClientBodies
<1>2. <<"c", keys>> \in {"c"} \X Secrets
  OBVIOUS
<1>3. ClientFinished = [form |-> "sealed", key |-> <<"c", keys>>, iv |-> <<"c", keys>>,
                        seq |-> 0, ctype |-> "handshake", body |-> <<"c", keys, tc>>,
                        intact |-> TRUE]
  BY DEF ClientFinished, Protect, TrafficKey, FinishedMac
<1>4. ClientFinished \in ClientRecs
  BY <1>1, <1>2, <1>3 DEF ClientRecs
<1>5. Torn(ClientFinished) \in ClientRecs
  BY <1>4 DEF Torn, ClientRecs
<1> QED BY <1>3, <1>4, <1>5 DEF Torn

(* The way out: nothing is sent, or one alert. *)
LEMMA FailEffect ==
    ASSUME ClientTypeOK, WireTypeOK, NEW code, NEW n \in {0, 1}, Fail(code, n)
    PROVE  /\ pc' = "returned" /\ ret' = code /\ keys' = None
           /\ acc' = <<>> /\ accOff' = 0
           /\ \/ hsWrote' = hsWrote /\ toServer' = toServer
              \/ \E rec \in ClientRecs :
                    /\ rec.ctype = "alert" /\ rec.seq = n
                    /\ hsWrote' = Append(hsWrote, rec)
                    /\ toServer' = Append(toServer, rec)
<1>1. /\ pc' = "returned" /\ ret' = code /\ keys' = None
      /\ acc' = <<>> /\ accOff' = 0
  BY DEF Fail, Leave
<1>2. CASE AlertIsSent
  <2>1. keys \in Secrets
    BY <1>2 DEF AlertIsSent, ClientTypeOK
  <2>2. /\ Alert(code, n) \in ClientRecs
        /\ Alert(code, n).ctype = "alert" /\ Alert(code, n).seq = n
    BY <2>1, AlertType
  <2>3. hsWrote' = Append(hsWrote, Alert(code, n)) /\ toServer' = Append(toServer, Alert(code, n))
    BY <1>2 DEF Fail
  <2> QED BY <1>1, <2>2, <2>3
<1>3. CASE ~AlertIsSent
  BY <1>1, <1>3 DEF Fail
<1> QED BY <1>2, <1>3

LEMMA FailType ==
    ASSUME ClientTypeOK, WireTypeOK, NEW code \in Codes, NEW n \in {0, 1}, Fail(code, n)
    PROVE  /\ pc' = "returned" /\ ret' \in Codes /\ keys' = None
           /\ acc' \in Seq(Nat) /\ accOff' \in Nat
           /\ hsWrote' \in Seq(ClientRecs)
           /\ toServer' \in Seq(HelloRecs \cup PlainRecs \cup ClientRecs)
<1>1. toServer \in Seq(HelloRecs \cup PlainRecs \cup ClientRecs) /\ hsWrote \in Seq(ClientRecs)
  BY DEF WireTypeOK
<1>2. /\ pc' = "returned" /\ ret' \in Codes /\ keys' = None
      /\ acc' \in Seq(Nat) /\ accOff' \in Nat
  BY DEF Fail, Leave
<1>3. CASE hsWrote' = hsWrote /\ toServer' = toServer
  BY <1>1, <1>2, <1>3
<1>4. CASE \E rec \in ClientRecs : /\ hsWrote' = Append(hsWrote, rec)
                                   /\ toServer' = Append(toServer, rec)
  BY <1>1, <1>2, <1>4
<1> QED BY <1>3, <1>4, FailEffect

LEMMA FramingCode ==
    ASSUME NEW rec
    PROVE  FramingError(rec) \in Codes
BY DEF FramingError, Codes

LEMMA HelloCode ==
    ASSUME NEW rec \in AnswerRecs \cup PlainRecs \cup ServerRecs
    PROVE  HelloError(rec) \in Codes
<1>1. rec.form = "hello" => rec.check \in Codes
  BY DEF AnswerRecs, PlainRecs, ServerRecs
<1>2. {"E_UNEXPECTED_MSG", "E_ILLEGAL_PARAM", "SUCCESS"} \subseteq Codes
  BY DEF Codes
<1> QED BY <1>1, <1>2, FramingCode DEF HelloError

LEMMA AnswerEntry ==
    ASSUME NEW rec \in AnswerRecs \cup PlainRecs \cup ServerRecs,
           HelloError(rec) = "SUCCESS"
    PROVE  rec \in AnswerRecs /\ Entry(rec) \in Entries
<1>1. rec.form = "hello"
  BY DEF HelloError
<1>2. rec \in AnswerRecs
  BY <1>1 DEF PlainRecs, ServerRecs
<1> QED BY <1>2 DEF Entry, Entries, AnswerRecs

LEMMA FlightCode ==
    ASSUME NEW rec
    PROVE  FlightError(rec) \in Codes
<1>1. Opened(rec) \in Codes
  BY DEF Opened, Unprotect, Codes
<1>2. {"E_UNEXPECTED_MSG", "E_DECODE", "SUCCESS"} \subseteq Codes
  BY DEF Codes
<1> QED BY <1>1, <1>2, FramingCode DEF FlightError

LEMMA MessageCode ==
    ASSUME Msg.check \in Codes
    PROVE  MessageError \in Codes
<1>1. Order(Msg.type) \in Codes
  BY DEF Order, PskOrder, FlightOrder, Codes
<1>2. ClaimError \in Codes
  BY DEF ClaimError, Codes
<1> QED BY <1>1, <1>2 DEF MessageError

(* A record that the client opens is a handshake record of the server's,   *)
(* sealed with the secret and the number the client expects, and there is  *)
(* room for it.                                                            *)
LEMMA OpenedRecord ==
    ASSUME NEW rec \in AnswerRecs \cup PlainRecs \cup ServerRecs,
           FlightError(rec) = "SUCCESS"
    PROVE  /\ rec \in ServerRecs /\ rec.form = "sealed"
           /\ rec.key = <<"s", keys>> /\ rec.seq = sSeq
           /\ rec.ctype = "handshake" /\ ~NoRoom(rec)
<1>1. rec.form \in {"sealed", "short"} /\ Opened(rec) = "SUCCESS"
      /\ rec.ctype = "handshake" /\ ~NoRoom(rec)
  BY DEF FlightError
<1>2. rec.form = "sealed" /\ rec.key = <<"s", keys>> /\ rec.seq = sSeq
  BY <1>1 DEF Opened, Unprotect, TrafficKey
<1>3. rec \in ServerRecs
  BY <1>2 DEF AnswerRecs, PlainRecs
<1> QED BY <1>1, <1>2, <1>3

(* Until the driver returns, its buffer is a prefix of what was written. *)
LEMMA AccIsPrefix ==
    ASSUME ClientTypeOK, WireTypeOK, ServerOK, CutOK, pc # "returned"
    PROVE  /\ Len(acc) \in 0 .. Len(srv.bytes) /\ Len(srv.bytes) \in Nat
           /\ \A p \in 1 .. Len(acc) : acc[p] = srv.bytes[p]
<1>1. PICK cut \in [Nat -> Nat] : Cuts(cut)
  BY DEF CutOK
<1>2. srv.bytes \in Seq(Nat) /\ srv.seq \in Nat /\ srv.sent \in 0 .. Len(srv.bytes)
  BY DEF WireTypeOK, ServerStates, ServerOK
<1>3. sSeq \in 0 .. srv.seq /\ acc = SubSeq(srv.bytes, 1, cut[sSeq])
  BY <1>1, <1>2 DEF Cuts, CutClient, ClientTypeOK
<1>4. \A n \in 0 .. srv.seq : cut[n] <= srv.sent
  BY <1>1 DEF Cuts, CutServer, Cutting
<1>5. \E c \in Nat : c <= srv.sent /\ acc = SubSeq(srv.bytes, 1, c)
  BY <1>3, <1>4 DEF ClientTypeOK
<1>6. Len(srv.bytes) \in Nat /\ srv.sent \in Nat /\ srv.sent <= Len(srv.bytes)
  BY <1>2
<1>7. PICK c \in Nat : c <= srv.sent /\ acc = SubSeq(srv.bytes, 1, c)
  BY <1>5
<1>8. c \in 0 .. Len(srv.bytes)
  BY SMTT(60), <1>6, <1>7
<1>9. Len(acc) = c /\ \A p \in 1 .. c : acc[p] = srv.bytes[p]
  BY <1>2, <1>7, <1>8, SubSeqFromOne
<1> QED BY <1>6, <1>8, <1>9

(* The message at accOff is the next one of the server's flight. *)
LEMMA NextMessage ==
    ASSUME ClientTypeOK, WireTypeOK, ServerOK, ClientOK, CutOK, ParseOK,
           Running, HeaderThere
    PROVE  /\ accOff + 1 \in 1 .. Len(acc) /\ Parsed \in Nat
           /\ Number = Parsed + 1 /\ Number \in 1 .. Len(srv.flight)
           /\ Msg \in Messages /\ Msg.len \in Nat \ {0}
           /\ EndsAt(srv.bytes, accOff + Msg.len, Number)
<1>1. pc # "returned"
  BY DEF Running
<1>2. Parsed \in Nat /\ Len(tc) \in Nat
  BY DEF ClientOK, ClientTypeOK, Parsed
<1>3. HdrSz \in Nat \ {0} /\ accOff \in Nat /\ Len(acc) \in Nat
  BY SetupFacts DEF ClientTypeOK
<1>4. accOff + 1 \in 1 .. Len(acc) /\ accOff < Len(acc)
  BY <1>3 DEF HeaderThere
<1>5. /\ accOff + 1 \in 1 .. Len(srv.bytes) /\ accOff < Len(srv.bytes)
      /\ acc[accOff + 1] = srv.bytes[accOff + 1]
  BY <1>1, <1>3, <1>4, AccIsPrefix
<1>6. EndsAt(srv.bytes, accOff, Parsed)
  BY DEF ParseOK
<1>7. Number = Parsed + 1
  BY <1>5, <1>6 DEF EndsAt, Number
<1>8. srv.flight \in Seq(Messages) /\ srv.bytes = Bytes(srv.flight)
  BY DEF WireTypeOK, ServerStates, ServerOK
<1>9. WellCut(srv.flight, srv.bytes)
  BY <1>8, BytesWellCut
<1>10. /\ Parsed < Len(srv.flight)
       /\ EndsAt(srv.bytes, accOff + srv.flight[Parsed + 1].len, Parsed + 1)
  BY <1>2, <1>3, <1>5, <1>6, <1>9 DEF WellCut
<1>11. Len(srv.flight) \in Nat
  BY <1>8
<1>12. Number \in 1 .. Len(srv.flight)
  BY <1>2, <1>7, <1>10, <1>11
<1>13. Msg \in Messages /\ Msg.len \in Nat \ {0}
  BY <1>8, <1>12, MessageLength DEF Msg
<1> QED BY <1>2, <1>4, <1>7, <1>10, <1>12, <1>13 DEF Msg

-----------------------------------------------------------------------------
(* Types are preserved: one step per action. *)

(* An action that leaves the setup and the server alone and takes a driver *)
(* out keeps the types if its own variables keep theirs.                   *)
LEMMA TypesOut ==
    ASSUME ClientTypeOK, WireTypeOK, NEW code \in Codes, NEW n \in {0, 1},
           Fail(code, n), UNCHANGED <<setup, tc, sSeq, got, srv, ccs>>,
           sess'.flags \subseteq {"ESTABLISHED"},
           toClient' \in Seq(AnswerRecs \cup PlainRecs \cup ServerRecs),
           faults' \in 0 .. MaxFaults
    PROVE  ClientTypeOK' /\ WireTypeOK'
<1>1. /\ pc' = "returned" /\ ret' \in Codes /\ keys' = None
      /\ acc' \in Seq(Nat) /\ accOff' \in Nat
      /\ hsWrote' \in Seq(ClientRecs)
      /\ toServer' \in Seq(HelloRecs \cup PlainRecs \cup ClientRecs)
  BY FailType
<1>2. ClientTypeOK'
  BY <1>1 DEF ClientTypeOK
<1>3. WireTypeOK'
  BY <1>1 DEF WireTypeOK, MaxFaults
<1> QED BY <1>2, <1>3

LEMMA FaultType ==
    ASSUME ClientTypeOK, WireTypeOK, Fault
    PROVE  faults' \in 0 .. MaxFaults
<1>1. MaxFaults \in Nat
  BY SetupFacts DEF ClientTypeOK
<1> QED BY <1>1 DEF WireTypeOK, Fault

LEMMA CallTypes ==
    ASSUME ClientTypeOK, WireTypeOK,
           ConnectRefused \/ SendClientHello \/ SendClientHelloFails
    PROVE  ClientTypeOK' /\ WireTypeOK'
<1> DEFINE Recs == HelloRecs \cup PlainRecs \cup ClientRecs
<1>1. ClientHello("orig") \in Recs /\ Plain("ccs") \in Recs
  BY DEF ClientHello, Plain, HelloRecs, PlainRecs
<1>2. {"E_INVALID_ARG", "E_CRYPTO"} \subseteq Codes
  BY DEF Codes
<1>3. Cleared.flags \subseteq {"ESTABLISHED"}
  BY DEF Cleared
<1>4. CASE ConnectRefused
  <2>1. ClientTypeOK'
    BY <1>2, <1>4 DEF ClientTypeOK, ConnectRefused, Leave, None
  <2>2. WireTypeOK'
    BY <1>4 DEF WireTypeOK, ConnectRefused, netVars, MaxFaults
  <2> QED BY <2>1, <2>2
<1>5. CASE SendClientHello
  <2>1. tc' \in Seq(Entries)
    BY <1>5 DEF SendClientHello, Entry, ClientHello, Entries
  <2>2. ClientTypeOK'
    BY <1>3, <1>5, <2>1 DEF ClientTypeOK, SendClientHello, bufVars
  <2>3. toServer' \in Seq(Recs)
    BY <1>1, <1>5 DEF SendClientHello
  <2>4. WireTypeOK'
    BY <1>5, <2>3 DEF WireTypeOK, SendClientHello, MaxFaults
  <2> QED BY <2>2, <2>4
<1>6. CASE SendClientHelloFails
  <2>1. ClientTypeOK'
    BY <1>2, <1>3, <1>6 DEF ClientTypeOK, SendClientHelloFails, Leave, None
  <2>2. toServer' \in Seq(Recs)
    <3>1. toServer' \in {<<>>, <<ClientHello("orig")>>, <<ClientHello("orig"), Plain("ccs")>>}
      BY <1>6 DEF SendClientHelloFails
    <3> HIDE DEF Recs
    <3>2. {<<>>, <<ClientHello("orig")>>, <<Plain("ccs")>>,
           <<ClientHello("orig"), Plain("ccs")>>} \subseteq Seq(Recs)
      BY <1>1, ShortSeqs
    <3> QED BY <3>1, <3>2, Zenon
  <2>3. faults' \in 0 .. MaxFaults
    BY <1>6, FaultType DEF SendClientHelloFails
  <2>4. WireTypeOK'
    BY <1>6, <2>2, <2>3 DEF WireTypeOK, SendClientHelloFails, MaxFaults
  <2> QED BY <2>1, <2>4
<1> QED BY <1>4, <1>5, <1>6

LEMMA TailType ==
    ASSUME WireTypeOK, toClient # <<>>
    PROVE  /\ Head(toClient) \in AnswerRecs \cup PlainRecs \cup ServerRecs
           /\ Tail(toClient) \in Seq(AnswerRecs \cup PlainRecs \cup ServerRecs)
BY HeadTailProperties DEF WireTypeOK

LEMMA RecvTypes ==
    ASSUME ClientTypeOK, WireTypeOK,
           CallFails \/ IoRecvEnds \/ SkipCcs \/ RecvServerHello \/ RecvFlight
    PROVE  ClientTypeOK' /\ WireTypeOK'
<1> DEFINE rec == Head(toClient)
<1>1. "E_CRYPTO" \in Codes
  BY DEF Codes
<1>2. CASE CallFails
  <2>1. Fail("E_CRYPTO", 0) /\ Fault /\ UNCHANGED <<sess, tc, got, sSeq, toClient, srv, ccs, setup>>
    BY <1>2 DEF CallFails
  <2>2. faults' \in 0 .. MaxFaults
    BY <2>1, FaultType
  <2>3. /\ sess'.flags \subseteq {"ESTABLISHED"}
        /\ toClient' \in Seq(AnswerRecs \cup PlainRecs \cup ServerRecs)
    BY <2>1 DEF ClientTypeOK, WireTypeOK
  <2> QED BY <1>1, <2>1, <2>2, <2>3, TypesOut
<1>3. CASE IoRecvEnds
  <2>1. Fail("E_CRYPTO", 0) /\ UNCHANGED <<sess, tc, got, sSeq, toClient, srv, ccs, faults, setup>>
    BY <1>3 DEF IoRecvEnds
  <2>2. /\ sess'.flags \subseteq {"ESTABLISHED"} /\ faults' \in 0 .. MaxFaults
        /\ toClient' \in Seq(AnswerRecs \cup PlainRecs \cup ServerRecs)
    BY <2>1 DEF ClientTypeOK, WireTypeOK
  <2> QED BY <1>1, <2>1, <2>2, TypesOut
<1>4. CASE SkipCcs
  <2>1. ClientTypeOK'
    BY <1>4 DEF ClientTypeOK, SkipCcs, bufVars
  <2>2. WireTypeOK'
    BY <1>4, TailType DEF WireTypeOK, SkipCcs, MaxFaults
  <2> QED BY <2>1, <2>2
<1>5. CASE RecvServerHello
  <2>1. /\ toClient # <<>> /\ toClient' = Tail(toClient)
        /\ UNCHANGED <<sess, got, sSeq, srv, ccs, faults, setup>>
    BY <1>5 DEF RecvServerHello
  <2>2. /\ rec \in AnswerRecs \cup PlainRecs \cup ServerRecs
        /\ toClient' \in Seq(AnswerRecs \cup PlainRecs \cup ServerRecs)
    BY <2>1, TailType
  <2>3. CASE HelloError(rec) = "SUCCESS"
    <3>3. Entry(rec) \in Entries
      BY <2>2, <2>3, AnswerEntry
    <3>4. /\ tc' = Append(tc, Entry(rec)) /\ keys' = HsSecret("right", tc')
          /\ pc' = "flight" /\ UNCHANGED <<ret, acc, accOff, toServer, hsWrote>>
      BY <1>5, <2>3 DEF RecvServerHello
    <3>5. tc' \in Seq(Entries)
      BY <3>3, <3>4 DEF ClientTypeOK
    <3>6. keys' \in Secrets
      BY <3>4, <3>5, SecretType
    <3>7. ClientTypeOK'
      BY <2>1, <3>4, <3>5, <3>6 DEF ClientTypeOK
    <3>8. WireTypeOK'
      BY <2>1, <2>2, <3>4 DEF WireTypeOK, MaxFaults
    <3> QED BY <3>7, <3>8
  <2>4. CASE HelloError(rec) # "SUCCESS"
    <3>1. Fail(HelloError(rec), 0) /\ UNCHANGED tc
      BY <1>5, <2>4 DEF RecvServerHello
    <3>2. HelloError(rec) \in Codes
      BY <2>2, HelloCode
    <3>3. sess'.flags \subseteq {"ESTABLISHED"} /\ faults' \in 0 .. MaxFaults
      BY <2>1 DEF ClientTypeOK, WireTypeOK
    <3> HIDE DEF rec
    <3> QED BY <2>1, <2>2, <3>1, <3>2, <3>3, TypesOut
  <2> QED BY <2>3, <2>4
<1>6. CASE RecvFlight
  <2>1. /\ toClient # <<>> /\ toClient' = Tail(toClient)
        /\ UNCHANGED <<sess, tc, got, srv, ccs, faults, setup>>
    BY <1>6 DEF RecvFlight
  <2>2. /\ rec \in AnswerRecs \cup PlainRecs \cup ServerRecs
        /\ toClient' \in Seq(AnswerRecs \cup PlainRecs \cup ServerRecs)
    BY <2>1, TailType
  <2>3. CASE FlightError(rec) = "SUCCESS"
    <3>1. rec \in ServerRecs
      BY <2>2, <2>3, OpenedRecord
    <3>2. rec.body.bytes \in Seq(Nat)
      BY <3>1 DEF ServerRecs
    <3>3. /\ acc' = acc \o rec.body.bytes /\ sSeq' = sSeq + 1 /\ pc' = "parse"
          /\ UNCHANGED <<ret, keys, accOff, toServer, hsWrote>>
      BY <1>6, <2>3 DEF RecvFlight
    <3>4. acc' \in Seq(Nat)
      BY <3>2, <3>3, ConcatProperties DEF ClientTypeOK
    <3>5. ClientTypeOK'
      BY <2>1, <3>3, <3>4 DEF ClientTypeOK
    <3>6. WireTypeOK'
      BY <2>1, <2>2, <3>3 DEF WireTypeOK, MaxFaults
    <3> QED BY <3>5, <3>6
  <2>4. CASE FlightError(rec) # "SUCCESS"
    <3>1. Fail(FlightError(rec), 0) /\ UNCHANGED sSeq
      BY <1>6, <2>4 DEF RecvFlight
    <3>2. FlightError(rec) \in Codes
      BY FlightCode
    <3>3. sess'.flags \subseteq {"ESTABLISHED"} /\ faults' \in 0 .. MaxFaults
      BY <2>1 DEF ClientTypeOK, WireTypeOK
    <3> HIDE DEF rec
    <3> QED BY <2>1, <2>2, <3>1, <3>2, <3>3, TypesOut
  <2> QED BY <2>3, <2>4
<1> QED BY <1>2, <1>3, <1>4, <1>5, <1>6

LEMMA ParseTypes ==
    ASSUME ClientTypeOK, WireTypeOK, ServerOK, ClientOK, CutOK, ParseOK,
           ParseMore \/ ParseNeverFits \/ ParseMessage
    PROVE  ClientTypeOK' /\ WireTypeOK'
<1>1. CASE ParseMore
  <2>1. ClientTypeOK'
    BY <1>1 DEF ClientTypeOK, ParseMore, bufVars
  <2>2. WireTypeOK'
    BY <1>1 DEF WireTypeOK, ParseMore, netVars, MaxFaults
  <2> QED BY <2>1, <2>2
<1>2. CASE ParseNeverFits
  <2>1. Fail("E_DECODE", 0) /\ UNCHANGED <<sess, tc, got, sSeq, toClient, srv, ccs, faults, setup>>
    BY <1>2 DEF ParseNeverFits
  <2>2. /\ sess'.flags \subseteq {"ESTABLISHED"} /\ faults' \in 0 .. MaxFaults
        /\ toClient' \in Seq(AnswerRecs \cup PlainRecs \cup ServerRecs)
    BY <2>1 DEF ClientTypeOK, WireTypeOK
  <2>3. "E_DECODE" \in Codes
    BY DEF Codes
  <2> QED BY <2>1, <2>2, <2>3, TypesOut
<1>3. CASE ParseMessage
  <2>1. /\ UNCHANGED <<sess, sSeq, toClient, srv, ccs, faults, setup>>
        /\ Running /\ HeaderThere
    BY <1>3 DEF ParseMessage, Running, MsgThere
  <2>2. Msg \in Messages /\ Msg.len \in Nat \ {0}
    BY <2>1, NextMessage
  <2>3. Msg.type \in FlightTypes /\ Msg.check \in Codes
    BY <2>2 DEF Messages
  <2>4. CASE MessageError = "SUCCESS"
    <3>1. /\ accOff' = accOff + Msg.len /\ got' = got \cup {Msg.type}
          /\ tc' = Append(tc, FlightEntry(Msg))
          /\ pc' \in {"finish", "parse"}
          /\ UNCHANGED <<ret, keys, acc, toServer, hsWrote>>
      BY <1>3, <2>4 DEF ParseMessage
    <3>2. tc' \in Seq(Entries)
      BY <2>3, <3>1 DEF ClientTypeOK, FlightEntry, Entries
    <3>3. ClientTypeOK'
      BY <2>1, <2>2, <2>3, <3>1, <3>2 DEF ClientTypeOK
    <3>4. WireTypeOK'
      BY <2>1, <3>1 DEF WireTypeOK, MaxFaults
    <3> QED BY <3>3, <3>4
  <2>5. CASE MessageError # "SUCCESS"
    <3>1. Fail(MessageError, 0) /\ UNCHANGED <<got, tc>>
      BY <1>3, <2>5 DEF ParseMessage
    <3>2. MessageError \in Codes
      BY <2>3, MessageCode
    <3>3. /\ sess'.flags \subseteq {"ESTABLISHED"} /\ faults' \in 0 .. MaxFaults
          /\ toClient' \in Seq(AnswerRecs \cup PlainRecs \cup ServerRecs)
      BY <2>1 DEF ClientTypeOK, WireTypeOK
    <3> QED BY <2>1, <3>1, <3>2, <3>3, TypesOut
  <2> QED BY <2>4, <2>5
<1> QED BY <1>1, <1>2, <1>3

(* What the last steps seal and send. *)
LEMMA FinishEffect ==
    ASSUME ClientTypeOK, WireTypeOK, ClientOK, Establish \/ EstablishFails
    PROVE  /\ pc = "finish" /\ pc' = "returned"
           /\ \E alert \in {<<>>, <<Alert("E_CRYPTO", 1)>>} :
              \E out \in {<<>>, <<ClientFinished>>, <<Torn(ClientFinished)>>} :
                 /\ alert # <<>> => /\ Alert("E_CRYPTO", 1) \in ClientRecs
                                    /\ Alert("E_CRYPTO", 1).seq = 1
                                    /\ Alert("E_CRYPTO", 1).ctype = "alert"
                 /\ hsWrote' = hsWrote \o (<<ClientFinished>> \o alert)
                 /\ toServer' = toServer \o (out \o alert)
           /\ ClientFinished \in ClientRecs /\ Torn(ClientFinished) \in ClientRecs
           /\ ClientFinished.seq = 0
           /\ ClientFinished.body[3] = tc /\ Torn(ClientFinished).body[3] = tc
<1>1. pc = "finish" /\ pc' = "returned"
  BY DEF Establish, EstablishFails, Leave
<1>2. keys \in Secrets
  BY <1>1 DEF ClientOK, ClientTypeOK, Running
<1>3. /\ ClientFinished \in ClientRecs /\ Torn(ClientFinished) \in ClientRecs
      /\ ClientFinished.seq = 0
      /\ ClientFinished.body[3] = tc /\ Torn(ClientFinished).body[3] = tc
  BY <1>2, FinishedType DEF ClientTypeOK
<1>4. /\ Alert("E_CRYPTO", 1) \in ClientRecs /\ Alert("E_CRYPTO", 1).seq = 1
      /\ Alert("E_CRYPTO", 1).ctype = "alert"
  BY <1>2, AlertType
<1> DEFINE Recs == HelloRecs \cup PlainRecs \cup ClientRecs
<1>5. toServer \in Seq(Recs) /\ hsWrote \in Seq(ClientRecs)
  BY DEF WireTypeOK
<1>6. ClientFinished \in Recs /\ Torn(ClientFinished) \in Recs /\ Alert("E_CRYPTO", 1) \in Recs
  BY <1>3, <1>4
<1> HIDE DEF Recs
<1>7. /\ {<<>>, <<ClientFinished>>, <<Torn(ClientFinished)>>} \subseteq Seq(Recs)
      /\ <<Alert("E_CRYPTO", 1)>> \in Seq(Recs)
  <2>1. {<<>>, <<ClientFinished>>, <<Torn(ClientFinished)>>,
         <<ClientFinished, Torn(ClientFinished)>>} \subseteq Seq(Recs)
    BY <1>6, ShortSeqs
  <2>2. <<Alert("E_CRYPTO", 1)>> \in Seq(Recs)
    BY <1>6
  <2> QED BY <2>1, <2>2, Zenon
<1>8. CASE Establish
  <2>1. hsWrote' = Append(hsWrote, ClientFinished) /\ toServer' = Append(toServer, ClientFinished)
    BY <1>8 DEF Establish
  <2>2. hsWrote' = hsWrote \o (<<ClientFinished>> \o <<>>)
    BY <1>3, <1>5, <2>1
  <2>3. toServer' = toServer \o (<<ClientFinished>> \o <<>>)
    BY <1>5, <1>6, <2>1
  <2> QED BY <1>1, <1>3, <2>2, <2>3
<1>9. CASE EstablishFails
  <2>1. CASE AlertIsSent
    <3>1. hsWrote' = hsWrote \o <<ClientFinished, Alert("E_CRYPTO", 1)>>
      BY <1>9, <2>1 DEF EstablishFails
    <3>2. hsWrote' = hsWrote \o (<<ClientFinished>> \o <<Alert("E_CRYPTO", 1)>>)
      BY <1>3, <1>4, <3>1
    <3>3. PICK out \in {<<>>, <<ClientFinished>>, <<Torn(ClientFinished)>>} :
             toServer' = toServer \o out \o <<Alert("E_CRYPTO", 1)>>
      BY <1>9, <2>1 DEF EstablishFails
    <3>4. out \in Seq(Recs) /\ <<Alert("E_CRYPTO", 1)>> \in Seq(Recs)
      BY <1>7, <3>3, Zenon
    <3>5. toServer' = toServer \o (out \o <<Alert("E_CRYPTO", 1)>>)
      BY <1>5, <3>3, <3>4, ConcatAssociative
    <3> QED BY <1>1, <1>3, <1>4, <3>2, <3>5
  <2>2. CASE ~AlertIsSent
    <3>1. hsWrote' = hsWrote \o <<ClientFinished>>
      BY <1>9, <2>2 DEF EstablishFails
    <3>2. hsWrote' = hsWrote \o (<<ClientFinished>> \o <<>>)
      BY <1>3, <3>1
    <3>3. PICK out \in {<<>>, <<ClientFinished>>, <<Torn(ClientFinished)>>} :
             toServer' = toServer \o out \o <<>>
      BY <1>9, <2>2 DEF EstablishFails
    <3>4. out \in Seq(Recs) /\ <<>> \in Seq(Recs)
      BY <1>7, <3>3, Zenon
    <3>5. toServer' = toServer \o (out \o <<>>)
      BY <1>5, <3>3, <3>4, ConcatAssociative
    <3> QED BY <1>1, <1>3, <3>2, <3>5
  <2> QED BY <2>1, <2>2
<1> QED BY <1>8, <1>9

LEMMA FinishTypes ==
    ASSUME ClientTypeOK, WireTypeOK, ClientOK,
           Establish \/ FinishFails \/ EstablishFails
    PROVE  ClientTypeOK' /\ WireTypeOK'
<1> DEFINE Recs == HelloRecs \cup PlainRecs \cup ClientRecs
<1>1. {"E_CRYPTO", "SUCCESS"} \subseteq Codes
  BY DEF Codes
<1>2. CASE FinishFails
  <2>1. PICK n \in {0, 1} : Fail("E_CRYPTO", n)
    BY <1>2 DEF FinishFails
  <2>2. Fault /\ UNCHANGED <<sess, tc, got, sSeq, toClient, srv, ccs, setup>>
    BY <1>2 DEF FinishFails
  <2>3. faults' \in 0 .. MaxFaults
    BY <2>2, FaultType
  <2>4. /\ sess'.flags \subseteq {"ESTABLISHED"}
        /\ toClient' \in Seq(AnswerRecs \cup PlainRecs \cup ServerRecs)
    BY <2>2 DEF ClientTypeOK, WireTypeOK
  <2> QED BY <1>1, <2>1, <2>2, <2>3, <2>4, TypesOut
<1>3. CASE Establish \/ EstablishFails
  <2>1. /\ pc' = "returned" /\ ret' \in Codes /\ keys' = None
        /\ acc' = <<>> /\ accOff' = 0
        /\ UNCHANGED <<tc, got, sSeq, toClient, srv, ccs, setup>>
    BY <1>1, <1>3 DEF Establish, EstablishFails, Leave
  <2>2. sess'.flags \subseteq {"ESTABLISHED"}
    BY SMTT(60), <1>3 DEF Establish, EstablishFails, Cleared
  <2>3. faults' \in 0 .. MaxFaults
    BY <1>3, FaultType DEF Establish, EstablishFails, WireTypeOK
  <2>4. ClientTypeOK'
    BY <2>1, <2>2 DEF ClientTypeOK
  <2>5. PICK alert \in {<<>>, <<Alert("E_CRYPTO", 1)>>},
             out \in {<<>>, <<ClientFinished>>, <<Torn(ClientFinished)>>} :
           /\ alert # <<>> => Alert("E_CRYPTO", 1) \in ClientRecs
           /\ hsWrote' = hsWrote \o (<<ClientFinished>> \o alert)
           /\ toServer' = toServer \o (out \o alert)
    BY <1>3, FinishEffect
  <2>6. ClientFinished \in ClientRecs /\ Torn(ClientFinished) \in ClientRecs
    BY <1>3, FinishEffect
  <2>7. /\ alert \in Seq(ClientRecs) /\ out \in Seq(ClientRecs)
        /\ <<ClientFinished>> \in Seq(ClientRecs)
    <3>1. {<<>>, <<ClientFinished>>, <<Torn(ClientFinished)>>,
           <<ClientFinished, Torn(ClientFinished)>>} \subseteq Seq(ClientRecs)
      BY <2>6, ShortSeqs
    <3>2. alert \in Seq(ClientRecs)
      <4>1. CASE alert = <<>>
        BY <4>1
      <4>2. CASE alert # <<>>
        <5>1. alert = <<Alert("E_CRYPTO", 1)>> /\ Alert("E_CRYPTO", 1) \in ClientRecs
          BY <2>5, <4>2, Zenon
        <5> QED BY <5>1
      <4> QED BY <4>1, <4>2
    <3> QED BY <2>5, <3>1, <3>2, Zenon
  <2>8. alert \in Seq(Recs) /\ out \in Seq(Recs)
    BY <2>7, SeqMonotonic
  <2>9. hsWrote \in Seq(ClientRecs) /\ toServer \in Seq(Recs)
    BY DEF WireTypeOK
  <2>10. hsWrote' \in Seq(ClientRecs)
    BY <2>5, <2>7, <2>9, ConcatProperties
  <2>11. toServer' \in Seq(Recs)
    <3> HIDE DEF Recs
    <3> QED BY <2>5, <2>8, <2>9, ConcatProperties
  <2>12. WireTypeOK'
    BY <2>1, <2>3, <2>10, <2>11 DEF WireTypeOK, MaxFaults
  <2> QED BY <2>4, <2>12
<1> QED BY <1>2, <1>3

(* A record the server seals is one of ServerRecs. *)
LEMMA SealedType ==
    ASSUME ClientTypeOK, WireTypeOK, ServerOK, srv.stage # "wait",
           NEW ctype \in {"handshake", "appdata", "padding"}, NEW n \in Nat,
           NEW pad \in Nat, srv.sent + n <= Len(srv.bytes)
    PROVE  /\ SrvSecret \in Secrets
           /\ ServerSealed(ctype, n, pad) \in ServerRecs
           /\ ServerSealed(ctype, n, pad) =
                [form |-> "sealed", key |-> <<"s", SrvSecret>>, iv |-> <<"s", SrvSecret>>,
                 seq |-> srv.seq, ctype |-> ctype,
                 body |-> [bytes |-> SubSeq(srv.bytes, srv.sent + 1, srv.sent + n), pad |-> pad],
                 intact |-> TRUE]
<1>1. srv.bytes \in Seq(Nat) /\ srv.seq \in Nat /\ srv.cred \in {"right", "wrong"}
  BY DEF WireTypeOK, ServerStates
<1>2. srv.sent \in 0 .. Len(srv.bytes) /\ Len(srv.bytes) \in Nat
  BY <1>1 DEF ServerOK
<1>3. srv.sent + n \in srv.sent .. Len(srv.bytes)
  BY <1>2
<1>4. SubSeq(srv.bytes, srv.sent + 1, srv.sent + n) \in Seq(Nat)
  BY <1>1, <1>2, <1>3, SubSeqPiece
<1>5. <<srv.ch, srv.sh>> \in Seq(Entries)
  BY DEF ServerOK
<1>6. SrvSecret \in Secrets
  BY <1>1, <1>5, SecretType DEF SrvSecret
<1>7. <<"s", SrvSecret>> \in {"s"} \X Secrets
  BY <1>6
<1>8. ServerSealed(ctype, n, pad) =
         [form |-> "sealed", key |-> <<"s", SrvSecret>>, iv |-> <<"s", SrvSecret>>,
          seq |-> srv.seq, ctype |-> ctype,
          body |-> [bytes |-> SubSeq(srv.bytes, srv.sent + 1, srv.sent + n), pad |-> pad],
          intact |-> TRUE]
  BY DEF ServerSealed, Protect, TrafficKey
<1>9. ServerSealed(ctype, n, pad) \in ServerRecs
  BY <1>1, <1>4, <1>7, <1>8 DEF ServerRecs
<1> QED BY <1>6, <1>8, <1>9

(* What a step of the server may append to the wire. *)
LEMMA ServerSendType ==
    ASSUME WireTypeOK, NEW rec \in AnswerRecs \cup PlainRecs \cup ServerRecs, ServerSend(rec)
    PROVE  toClient' \in Seq(AnswerRecs \cup PlainRecs \cup ServerRecs)
BY DEF ServerSend, WireTypeOK

LEMMA HeadOfServer ==
    ASSUME WireTypeOK, toServer # <<>>
    PROVE  /\ Head(toServer) \in HelloRecs \cup PlainRecs \cup ClientRecs
           /\ Tail(toServer) \in Seq(HelloRecs \cup PlainRecs \cup ClientRecs)
BY HeadTailProperties DEF WireTypeOK

LEMMA ServerTypes ==
    ASSUME ClientTypeOK, WireTypeOK, ServerOK, Server
    PROVE  ClientTypeOK' /\ WireTypeOK'
<1> DEFINE Recs == AnswerRecs \cup PlainRecs \cup ServerRecs
<1>1. UNCHANGED <<setup, pc, ret, sess, tc, keys, sSeq, acc, accOff, got, hsWrote>>
  BY DEF Server, ServerWrites, ServerHello, ServerRecord, ServerCcs, ServerAlien,
         ServerReads, bufVars
<1>2. ClientTypeOK'
  BY <1>1 DEF ClientTypeOK
<1>3. CASE ServerHello
  <2>1. PICK a \in Setups[setup].answers :
           /\ ServerSend(Answer(a.hello))
           /\ srv' = [srv EXCEPT !.stage = "flight", !.ch = Entry(Head(toServer)),
                                 !.sh = [type |-> "SH", val |-> "orig"],
                                 !.hello = a.hello, !.flight = a.flight,
                                 !.bytes = Bytes(a.flight)]
    BY <1>3 DEF ServerHello
  <2>2. a.hello \in Hellos /\ a.flight \in Seq(Messages)
    BY SetupFacts DEF ClientTypeOK
  <2>3. Answer(a.hello) \in AnswerRecs
    BY <2>2 DEF Answer, AnswerRecs, Hellos
  <2>4. Bytes(a.flight) \in Seq(Nat)
    <3>1. WellCut(a.flight, Bytes(a.flight))
      BY <2>2, BytesWellCut
    <3>2. Bytes(a.flight) \in Seq(1 .. Len(a.flight)) /\ 1 .. Len(a.flight) \subseteq Nat
      BY <2>2, <3>1 DEF WellCut
    <3> QED BY <3>2, SeqMonotonic
  <2>5. Entry(Head(toServer)) \in Entries
    <3>1. toServer # <<>> /\ Head(toServer).form = "ch"
      BY <1>3 DEF ServerHello
    <3>2. Head(toServer) \in HelloRecs
      BY <3>1, HeadOfServer DEF PlainRecs, ClientRecs
    <3> QED BY <3>2 DEF HelloRecs, Entry, Entries
  <2>6. [type |-> "SH", val |-> "orig"] \in Entries
    BY DEF Entries
  <2>7. srv' \in ServerStates
    BY <2>1, <2>2, <2>4, <2>5, <2>6 DEF WireTypeOK, ServerStates
  <2>8. toClient' \in Seq(Recs)
    BY <2>1, <2>3, ServerSendType
  <2>9. toServer' \in Seq(HelloRecs \cup PlainRecs \cup ClientRecs) /\ UNCHANGED <<ccs, faults>>
    BY <1>3, HeadOfServer DEF ServerHello
  <2> QED BY <1>1, <1>2, <2>7, <2>8, <2>9 DEF WireTypeOK, MaxFaults
<1>4. ASSUME NEW n \in 1 .. Len(srv.bytes), NEW pad \in Pads, ServerRecord(n, pad)
      PROVE  WireTypeOK'
  <2>1. /\ srv.stage # "wait" /\ srv.sent + n <= Len(srv.bytes)
        /\ ServerSend(ServerSealed("handshake", n, pad))
        /\ srv' = [srv EXCEPT !.sent = @ + n, !.seq = @ + 1]
        /\ UNCHANGED <<toServer, ccs, faults>>
    BY <1>4 DEF ServerRecord
  <2>2. srv.bytes \in Seq(Nat)
    BY DEF WireTypeOK, ServerStates
  <2>3. n \in Nat /\ pad \in Nat
    BY <2>2, SetupFacts DEF ClientTypeOK
  <2>4. ServerSealed("handshake", n, pad) \in Recs
    BY <2>1, <2>3, SealedType
  <2>5. toClient' \in Seq(Recs)
    BY <2>1, <2>4, ServerSendType
  <2>6. srv' \in ServerStates
    <3>1. srv \in ServerStates
      BY DEF WireTypeOK
    <3>2. srv.sent + n \in Nat /\ srv.seq + 1 \in Nat
      BY <2>3, <3>1 DEF ServerStates
    <3> QED BY <2>1, <3>1, <3>2 DEF ServerStates
  <2> QED BY <1>1, <2>1, <2>5, <2>6 DEF WireTypeOK, MaxFaults
<1>5. CASE ServerCcs
  <2>1. Plain("ccs") \in Recs
    BY DEF Plain, PlainRecs
  <2>2. toClient' \in Seq(Recs)
    BY <1>5, <2>1, ServerSendType DEF ServerCcs
  <2>3. Setups[setup].maxCcs \in Nat
    BY SetupFacts DEF ClientTypeOK
  <2>4. ccs' \in 0 .. Setups[setup].maxCcs
    BY <1>5, <2>3 DEF ServerCcs, WireTypeOK
  <2> QED BY <1>1, <1>2, <1>5, <2>2, <2>4 DEF WireTypeOK, ServerCcs, MaxFaults
<1>6. CASE ServerAlien
  <2>1. faults' \in 0 .. MaxFaults /\ UNCHANGED <<toServer, ccs>>
    BY <1>6, FaultType DEF ServerAlien
  <2>2. CASE \E form \in {"plainAlert", "short", "badCcs", "badLength"} :
                ServerSend(Plain(form)) /\ UNCHANGED srv
    <3>1. PICK form \in {"plainAlert", "short", "badCcs", "badLength"} :
             ServerSend(Plain(form)) /\ UNCHANGED srv
      BY <2>2
    <3>2. Plain(form) \in Recs
      BY DEF Plain, PlainRecs
    <3>3. toClient' \in Seq(Recs)
      BY <3>1, <3>2, ServerSendType
    <3> QED BY <1>1, <1>2, <2>1, <3>1, <3>3 DEF WireTypeOK, MaxFaults
  <2>3. CASE \E ctype \in {"appdata", "padding"} :
                ServerSend(ServerSealed(ctype, 0, 0)) /\ srv' = [srv EXCEPT !.seq = @ + 1]
    <3>1. PICK ctype \in {"appdata", "padding"} :
             ServerSend(ServerSealed(ctype, 0, 0)) /\ srv' = [srv EXCEPT !.seq = @ + 1]
      BY <2>3
    <3>2. srv.stage # "wait" /\ srv.sent + 0 <= Len(srv.bytes)
      BY <1>6 DEF ServerAlien, ServerOK, WireTypeOK, ServerStates
    <3>3. ServerSealed(ctype, 0, 0) \in Recs
      BY <3>2, SealedType
    <3>4. toClient' \in Seq(Recs)
      BY <3>1, <3>3, ServerSendType
    <3>5. srv' \in ServerStates
      <4>1. srv \in ServerStates
        BY DEF WireTypeOK
      <4>2. srv.seq + 1 \in Nat
        BY <4>1 DEF ServerStates
      <4> QED BY <3>1, <4>1, <4>2 DEF ServerStates
    <3> QED BY <1>1, <1>2, <2>1, <3>4, <3>5 DEF WireTypeOK, MaxFaults
  <2> QED BY <1>6, <2>2, <2>3 DEF ServerAlien
<1>7. CASE ServerReads
  <2>1. toServer' \in Seq(HelloRecs \cup PlainRecs \cup ClientRecs)
    BY <1>7, HeadOfServer DEF ServerReads
  <2>2. \/ srv' = srv
        \/ \E stage \in {"done", "dead"} : srv' = [srv EXCEPT !.stage = stage]
    BY <1>7 DEF ServerReads
  <2>3. srv' \in ServerStates
    BY <2>2 DEF WireTypeOK, ServerStates
  <2>4. UNCHANGED <<toClient, ccs, faults>>
    BY <1>7 DEF ServerReads
  <2> QED BY <1>1, <1>2, <2>1, <2>3, <2>4 DEF WireTypeOK, MaxFaults
<1> QED BY <1>2, <1>3, <1>4, <1>5, <1>6, <1>7 DEF Server, ServerWrites

LEMMA TransportTypes ==
    ASSUME ClientTypeOK, WireTypeOK, AlterHello \/ DamageRecord
    PROVE  ClientTypeOK' /\ WireTypeOK'
<1> DEFINE Recs == AnswerRecs \cup PlainRecs \cup ServerRecs
           Sent == HelloRecs \cup PlainRecs \cup ClientRecs
<1>1. UNCHANGED <<setup, pc, ret, sess, tc, keys, sSeq, acc, accOff, got, srv, hsWrote, ccs>>
  BY DEF AlterHello, DamageRecord, bufVars
<1>2. faults' \in 0 .. MaxFaults
  BY FaultType DEF AlterHello, DamageRecord
<1>3. ClientTypeOK'
  BY <1>1 DEF ClientTypeOK
<1>4. toServer \in Seq(Sent) /\ toClient \in Seq(Recs)
  BY DEF WireTypeOK
<1>5. CASE AlterHello
  <2>1. CASE toServer # <<>> /\ toServer' = [toServer EXCEPT ![1] = ClientHello("altered")]
                /\ UNCHANGED toClient
    <3>1. ClientHello("altered") \in Sent
      BY DEF ClientHello, HelloRecs
    <3>2. 1 \in 1 .. Len(toServer)
      BY <1>4, <2>1
    <3>3. toServer' \in Seq(Sent)
      <4> HIDE DEF Sent
      <4> QED BY <1>4, <2>1, <3>1, <3>2, ExceptSeq
    <3> QED BY <1>1, <1>2, <1>3, <2>1, <3>3 DEF WireTypeOK, MaxFaults
  <2>2. CASE /\ toClient # <<>> /\ Head(toClient).form = "hello"
             /\ toClient' = [toClient EXCEPT ![1].val = "altered"]
             /\ UNCHANGED toServer
    <3>1. 1 \in 1 .. Len(toClient) /\ Head(toClient) = toClient[1]
      BY <1>4, <2>2
    <3>2. toClient[1] \in AnswerRecs
      <4>1. toClient[1] \in Recs /\ toClient[1].form = "hello"
        BY <2>2, <3>1, TailType
      <4> QED BY <4>1 DEF PlainRecs, ServerRecs
    <3>3. [toClient[1] EXCEPT !.val = "altered"] \in Recs
      BY <3>2 DEF AnswerRecs
    <3>4. toClient' = [toClient EXCEPT ![1] = [toClient[1] EXCEPT !.val = "altered"]]
      BY <2>2
    <3>5. toClient' \in Seq(Recs)
      <4> HIDE DEF Recs
      <4> QED BY <1>4, <3>1, <3>3, <3>4, ExceptSeq
    <3> QED BY <1>1, <1>2, <1>3, <2>2, <3>5 DEF WireTypeOK, MaxFaults
  <2> QED BY <1>5, <2>1, <2>2 DEF AlterHello
<1>6. CASE DamageRecord
  <2>1. PICK i \in DOMAIN toClient :
           \/ toClient' = RemoveAt(toClient, i)
           \/ toClient' = Append(toClient, toClient[i])
           \/ /\ toClient[i].form = "sealed"
              /\ toClient' = [toClient EXCEPT ![i] = Torn(toClient[i])]
    BY <1>6 DEF DamageRecord
  <2>2. i \in 1 .. Len(toClient) /\ toClient[i] \in Recs
    BY <1>4
  <2>3. toClient[i].form = "sealed" => Torn(toClient[i]) \in Recs
    <3>1. toClient[i].form = "sealed" => toClient[i] \in ServerRecs
      BY <2>2 DEF AnswerRecs, PlainRecs
    <3>2. toClient[i] \in ServerRecs => Torn(toClient[i]) \in ServerRecs
      BY DEF Torn, ServerRecs
    <3> QED BY <3>1, <3>2
  <2>4. toClient' \in Seq(Recs)
    <3> HIDE DEF Recs
    <3>1. CASE toClient' = RemoveAt(toClient, i)
      BY <1>4, <3>1, RemoveAtType
    <3>2. CASE toClient' = Append(toClient, toClient[i])
      BY <1>4, <2>2, <3>2, AppendProperties
    <3>3. CASE /\ toClient[i].form = "sealed"
               /\ toClient' = [toClient EXCEPT ![i] = Torn(toClient[i])]
      BY <1>4, <2>2, <2>3, <3>3, ExceptSeq
    <3> QED BY <2>1, <3>1, <3>2, <3>3
  <2> QED BY <1>1, <1>2, <1>3, <1>6, <2>4 DEF WireTypeOK, DamageRecord, MaxFaults
<1> QED BY <1>5, <1>6

-----------------------------------------------------------------------------
(* ServerOK, ClientOK and SealedOK are preserved. *)

(* Failing: the code, and cHsSeq, of every action that ends in Fail. *)
Failing ==
    /\ pc \in {"hello", "flight", "parse", "finish"}
    /\ \E code, n : n \in {0, 1} /\ Fail(code, n)
    /\ UNCHANGED <<sess, tc, got, sSeq, srv, ccs, setup>>
    /\ toClient' = toClient \/ (toClient # <<>> /\ toClient' = Tail(toClient))

(* A step of the client: it fails, or it is one of the others. *)
LEMMA ClientSteps ==
    ASSUME Client
    PROVE  \/ Failing
           \/ ConnectRefused \/ SendClientHello \/ SendClientHelloFails \/ SkipCcs
           \/ RecvServerHello /\ HelloError(Head(toClient)) = "SUCCESS"
           \/ RecvFlight /\ FlightError(Head(toClient)) = "SUCCESS"
           \/ ParseMore
           \/ ParseMessage /\ MessageError = "SUCCESS"
           \/ Establish \/ EstablishFails
<1>1. CallFails \/ IoRecvEnds \/ ParseNeverFits => Failing
  BY Zenon DEF CallFails, IoRecvEnds, ParseNeverFits, Failing
<1>2. FinishFails => Failing
  BY Zenon DEF FinishFails, Failing
<1>3. RecvServerHello /\ HelloError(Head(toClient)) # "SUCCESS" => Failing
  BY Zenon DEF RecvServerHello, Failing
<1>4. RecvFlight /\ FlightError(Head(toClient)) # "SUCCESS" => Failing
  BY Zenon DEF RecvFlight, Failing
<1>5. ParseMessage /\ MessageError # "SUCCESS" => Failing
  BY Zenon DEF ParseMessage, Failing
<1> QED BY <1>1, <1>2, <1>3, <1>4, <1>5, Zenon DEF Client

(* No step of the client touches the server, or puts a record on the wire  *)
(* towards itself.                                                         *)
LEMMA ClientReads ==
    ASSUME Client
    PROVE  /\ UNCHANGED <<srv, ccs, setup>>
           /\ toClient' = toClient \/ (toClient # <<>> /\ toClient' = Tail(toClient))
<1>1. Failing \/ ConnectRefused \/ SendClientHello \/ SendClientHelloFails
        => /\ UNCHANGED <<srv, ccs, setup>>
           /\ toClient' = toClient \/ (toClient # <<>> /\ toClient' = Tail(toClient))
  BY DEF Failing, ConnectRefused, SendClientHello, SendClientHelloFails, netVars
<1>2. SkipCcs \/ RecvServerHello \/ RecvFlight
        => UNCHANGED <<srv, ccs, setup>> /\ toClient # <<>> /\ toClient' = Tail(toClient)
  BY DEF SkipCcs, RecvServerHello, RecvFlight
<1>3. ParseMore \/ ParseMessage \/ Establish \/ EstablishFails
        => UNCHANGED <<srv, ccs, setup, toClient>>
  BY DEF ParseMore, ParseMessage, Establish, EstablishFails, netVars
<1> QED BY <1>1, <1>2, <1>3, ClientSteps

LEMMA ServerOKClient ==
    ASSUME ServerOK, Client
    PROVE  ServerOK'
<1>1. /\ srv' = srv
      /\ toClient' = toClient \/ (toClient # <<>> /\ toClient' = Tail(toClient))
  BY ClientReads
<1>2. ASSUME srv.stage = "wait"
      PROVE  pc' \in {"call", "hello", "returned"} /\ toClient' = <<>>
  <2>1. toClient = <<>> /\ pc \in {"call", "hello", "returned"}
    BY <1>2 DEF ServerOK
  <2>2. toClient' = <<>>
    BY <1>1, <2>1
  <2>3. Failing \/ ConnectRefused \/ SendClientHello \/ SendClientHelloFails
           => pc' \in {"call", "hello", "returned"}
    BY Zenon DEF Failing, Fail, Leave, ConnectRefused, SendClientHello, SendClientHelloFails
  <2>4. ~(SkipCcs \/ RecvServerHello \/ RecvFlight)
    BY <2>1 DEF SkipCcs, RecvServerHello, RecvFlight
  <2>5. ~(ParseMore \/ ParseMessage \/ Establish \/ EstablishFails)
    BY <2>1 DEF ParseMore, ParseMessage, Establish, EstablishFails
  <2> QED BY <2>2, <2>3, <2>4, <2>5, ClientSteps
<1> QED BY <1>1, <1>2 DEF ServerOK

LEMMA HelloEntry ==
    ASSUME WireTypeOK, toServer # <<>>, Head(toServer).form = "ch"
    PROVE  Entry(Head(toServer)) \in Entries
<1>1. Head(toServer) \in HelloRecs
  BY HeadOfServer DEF PlainRecs, ClientRecs
<1> QED BY <1>1 DEF HelloRecs, Entry, Entries

LEMMA ServerOKServer ==
    ASSUME ClientTypeOK, WireTypeOK, ServerOK, Server
    PROVE  ServerOK'
<1>1. pc' = pc
  BY DEF Server, ServerWrites, ServerHello, ServerRecord, ServerCcs, ServerAlien,
         ServerReads
<1>2. srv \in ServerStates
  BY DEF WireTypeOK
<1>3. CASE ServerHello
  <2>1. PICK a \in Setups[setup].answers :
           /\ ServerSend(Answer(a.hello))
           /\ srv' = [srv EXCEPT !.stage = "flight", !.ch = Entry(Head(toServer)),
                                 !.sh = [type |-> "SH", val |-> "orig"],
                                 !.hello = a.hello, !.flight = a.flight,
                                 !.bytes = Bytes(a.flight)]
    BY <1>3 DEF ServerHello
  <2>2. Entry(Head(toServer)) \in Entries /\ [type |-> "SH", val |-> "orig"] \in Entries
    BY <1>3, HelloEntry DEF ServerHello, Entries
  <2>3. srv.sent = 0
    BY <1>3 DEF ServerHello, ServerOK
  <2>4. Len(Bytes(a.flight)) \in Nat
    <3>1. a.flight \in Seq(Messages)
      BY SetupFacts DEF ClientTypeOK
    <3>2. WellCut(a.flight, Bytes(a.flight))
      BY <3>1, BytesWellCut
    <3> QED BY <3>2 DEF WellCut
  <2>5. /\ srv'.stage = "flight" /\ srv'.ch \in Entries /\ srv'.sh \in Entries
        /\ srv'.flight = a.flight /\ srv'.bytes = Bytes(a.flight) /\ srv'.sent = 0
    BY <1>2, <2>1, <2>2, <2>3 DEF ServerStates
  <2> QED BY <2>4, <2>5 DEF ServerOK
<1>4. ASSUME NEW n \in 1 .. Len(srv.bytes), NEW pad \in Pads, ServerRecord(n, pad)
      PROVE  ServerOK'
  <2>1. /\ srv.stage # "wait" /\ srv.sent + n <= Len(srv.bytes)
        /\ srv' = [srv EXCEPT !.sent = @ + n, !.seq = @ + 1]
    BY <1>4 DEF ServerRecord
  <2>2. Len(srv.bytes) \in Nat /\ srv.sent \in Nat
    BY <1>2 DEF ServerStates
  <2>3. /\ srv'.stage = srv.stage /\ srv'.bytes = srv.bytes /\ srv'.flight = srv.flight
        /\ srv'.ch = srv.ch /\ srv'.sh = srv.sh /\ srv'.sent = srv.sent + n
    BY <1>2, <2>1 DEF ServerStates
  <2>4. srv'.sent \in 0 .. Len(srv'.bytes)
    BY <2>1, <2>2, <2>3
  <2> QED BY <2>1, <2>3, <2>4 DEF ServerOK
<1>5. CASE ServerCcs
  BY <1>1, <1>5 DEF ServerCcs, ServerOK
<1>6. CASE ServerAlien
  <2>1. srv.stage # "wait" /\ (srv' = srv \/ srv' = [srv EXCEPT !.seq = @ + 1])
    BY <1>6 DEF ServerAlien
  <2>2. /\ srv'.stage = srv.stage /\ srv'.bytes = srv.bytes /\ srv'.flight = srv.flight
        /\ srv'.ch = srv.ch /\ srv'.sh = srv.sh /\ srv'.sent = srv.sent
    BY <1>2, <2>1 DEF ServerStates
  <2> QED BY <2>1, <2>2 DEF ServerOK
<1>7. CASE ServerReads
  <2>1. /\ srv.stage # "wait"
        /\ \/ srv' = srv
           \/ \E stage \in {"done", "dead"} : srv' = [srv EXCEPT !.stage = stage]
    BY <1>7 DEF ServerReads
  <2>2. /\ srv'.stage # "wait" /\ srv'.bytes = srv.bytes /\ srv'.flight = srv.flight
        /\ srv'.ch = srv.ch /\ srv'.sh = srv.sh /\ srv'.sent = srv.sent
    BY <1>2, <2>1 DEF ServerStates
  <2> QED BY <2>1, <2>2 DEF ServerOK
<1> QED BY <1>3, <1>4, <1>5, <1>6, <1>7 DEF Server, ServerWrites

LEMMA ServerOKTransport ==
    ASSUME WireTypeOK, ServerOK, AlterHello \/ DamageRecord
    PROVE  ServerOK'
<1>1. UNCHANGED <<srv, pc>>
  BY DEF AlterHello, DamageRecord
<1>2. toClient = <<>> => toClient' = <<>>
  BY DEF AlterHello, DamageRecord
<1> QED BY <1>1, <1>2 DEF ServerOK

LEMMA ClientOKClient ==
    ASSUME ClientTypeOK, WireTypeOK, ClientOK, Client
    PROVE  ClientOK'
<1>1. CASE Failing
  <2>1. pc' = "returned" /\ keys' = None /\ acc' = <<>> /\ accOff' = 0
    BY <1>1, Zenon DEF Failing, Fail, Leave
  <2> QED BY <2>1 DEF ClientOK, Running
<1>2. CASE ConnectRefused \/ SendClientHelloFails
  <2>1. pc' = "returned" /\ keys' = None /\ acc' = <<>> /\ accOff' = 0
    BY <1>2, Zenon DEF ConnectRefused, SendClientHelloFails, Leave
  <2> QED BY <2>1 DEF ClientOK, Running
<1>3. CASE SendClientHello
  <2>1. Len(tc') = 1
    BY <1>3 DEF SendClientHello
  <2>2. pc = "call" /\ pc' = "hello" /\ sess' = Cleared /\ UNCHANGED <<keys, acc, accOff, got, sSeq>>
    BY <1>3 DEF SendClientHello, bufVars
  <2> QED BY <2>1, <2>2 DEF ClientOK, Running
<1>4. CASE SkipCcs
  BY <1>4, Zenon DEF SkipCcs, ClientOK, Running, bufVars, HsSecret, Path
<1>5. CASE RecvServerHello /\ HelloError(Head(toClient)) = "SUCCESS"
  <2>1. /\ pc = "hello" /\ pc' = "flight" /\ tc' = Append(tc, Entry(Head(toClient)))
        /\ keys' = HsSecret("right", tc') /\ UNCHANGED <<sess, setup>>
    BY <1>5 DEF RecvServerHello
  <2>2. Len(tc) = 1 /\ sess = Cleared /\ tc \in Seq(Entries)
    BY <2>1 DEF ClientOK, ClientTypeOK
  <2>3. Len(tc') = 2 /\ tc' = <<tc'[1], tc'[2]>>
    <3>1. ClientTypeOK'
      BY <1>5, RecvTypes
    <3>2. tc' \in Seq(Entries)
      BY <3>1 DEF ClientTypeOK
    <3>3. Len(tc') = 2
      <4>1. Entry(Head(toClient)) \in Entries
        BY <1>5, TailType, AnswerEntry DEF RecvServerHello
      <4>2. Len(Append(tc, Entry(Head(toClient)))) = Len(tc) + 1
        BY SMTT(60), <2>2, <4>1, AppendProperties
      <4> QED BY <2>1, <2>2, <4>2
    <3> QED BY <3>2, <3>3, PairSeq
  <2>4. keys' = HsSecret("right", <<tc'[1], tc'[2]>>)
    BY <2>1, <2>3, Zenon
  <2>5. keys' # None
    BY <2>4 DEF HsSecret, None
  <2>6. keys' = HsSecret("right", <<tc[1], tc[2]>>)'
    BY <2>1, <2>4 DEF HsSecret, Path
  <2> QED BY <2>1, <2>2, <2>3, <2>5, <2>6 DEF ClientOK, Running
<1>6. CASE RecvFlight /\ FlightError(Head(toClient)) = "SUCCESS"
  BY <1>6, Zenon DEF RecvFlight, ClientOK, Running, HsSecret, Path
<1>7. CASE ParseMore
  BY <1>7, Zenon DEF ParseMore, ClientOK, Running, bufVars, HsSecret, Path
<1>8. CASE ParseMessage /\ MessageError = "SUCCESS"
  <2>1. /\ pc = "parse" /\ pc' \in {"finish", "parse"} /\ tc' = Append(tc, FlightEntry(Msg))
        /\ UNCHANGED <<keys, sess, setup>>
    BY <1>8 DEF ParseMessage
  <2>2. Len(tc) >= 2 /\ tc \in Seq(Entries) /\ Len(tc) \in Nat
    BY <2>1 DEF ClientOK, ClientTypeOK, Running
  <2>3. Len(tc') >= 2 /\ tc'[1] = tc[1] /\ tc'[2] = tc[2]
    BY <2>1, <2>2
  <2> QED BY <2>1, <2>3 DEF ClientOK, Running, HsSecret, Path
<1>9. CASE Establish \/ EstablishFails
  <2>1. pc' = "returned" /\ keys' = None /\ acc' = <<>> /\ accOff' = 0
    BY <1>9, Zenon DEF Establish, EstablishFails, Leave
  <2> QED BY <2>1 DEF ClientOK, Running
<1> QED BY <1>1, <1>2, <1>3, <1>4, <1>5, <1>6, <1>7, <1>8, <1>9, ClientSteps

LEMMA ClientOKOthers ==
    ASSUME ClientOK, Server \/ AlterHello \/ DamageRecord
    PROVE  ClientOK'
<1>1. UNCHANGED <<setup, pc, sess, tc, keys, sSeq, acc, accOff, got>>
  BY DEF Server, ServerWrites, ServerHello, ServerRecord, ServerCcs, ServerAlien,
         ServerReads, AlterHello, DamageRecord, bufVars
<1>2. toServer = <<>> => toServer' = <<>>
  BY DEF Server, ServerWrites, ServerHello, ServerRecord, ServerCcs, ServerAlien,
         ServerReads, AlterHello, DamageRecord
<1> QED BY <1>1, <1>2 DEF ClientOK, Running, HsSecret, Path

LEMMA SealedOKStep ==
    ASSUME ClientTypeOK, WireTypeOK, ClientOK, SealedOK, Next
    PROVE  SealedOK'
<1>1. CASE Server \/ AlterHello \/ DamageRecord
  <2>1. UNCHANGED <<pc, hsWrote>>
    BY <1>1 DEF Server, ServerWrites, ServerHello, ServerRecord, ServerCcs, ServerAlien,
         ServerReads, AlterHello, DamageRecord
  <2> QED BY <2>1 DEF SealedOK
<1>2. CASE Client
  <2>1. CASE Failing
    <3>1. PICK code, n : n \in {0, 1} /\ Fail(code, n)
      BY <2>1, Zenon DEF Failing
    <3>2. hsWrote = <<>>
      BY <2>1 DEF Failing, SealedOK
    <3>3. \/ hsWrote' = hsWrote
          \/ \E rec \in ClientRecs : hsWrote' = Append(hsWrote, rec)
      BY <3>1, FailEffect
    <3>4. Len(hsWrote') \in {0, 1}
      <4>1. CASE hsWrote' = hsWrote
        BY <3>2, <4>1
      <4>2. ASSUME NEW rec \in ClientRecs, hsWrote' = Append(hsWrote, rec)
            PROVE  Len(hsWrote') = 1
        BY <3>2, <4>2, FirstSeqs
      <4> QED BY <3>3, <4>1, <4>2
    <3>5. pc' = "returned"
      BY <3>1 DEF Fail, Leave
    <3> QED BY <3>4, <3>5 DEF SealedOK
  <2>2. CASE Establish \/ EstablishFails
    <3>1. PICK alert \in {<<>>, <<Alert("E_CRYPTO", 1)>>} :
             /\ alert # <<>> => /\ Alert("E_CRYPTO", 1).seq = 1
                                /\ Alert("E_CRYPTO", 1) \in ClientRecs
             /\ hsWrote' = hsWrote \o (<<ClientFinished>> \o alert)
      BY <2>2, FinishEffect
    <3>2. /\ pc = "finish" /\ pc' = "returned" /\ ClientFinished.seq = 0
          /\ ClientFinished \in ClientRecs
      BY <2>2, FinishEffect
    <3>3. hsWrote = <<>>
      BY <3>2 DEF SealedOK
    <3>4. CASE alert = <<>>
      <4>1. Len(hsWrote') = 1
        BY <3>1, <3>3, <3>4
      <4> QED BY <3>2, <4>1 DEF SealedOK
    <3>5. CASE alert # <<>>
      <4>1. /\ alert = <<Alert("E_CRYPTO", 1)>> /\ Alert("E_CRYPTO", 1).seq = 1
            /\ Alert("E_CRYPTO", 1) \in ClientRecs /\ ClientFinished \in ClientRecs
        BY <3>1, <3>2, <3>5
      <4>2. hsWrote' = <<ClientFinished, Alert("E_CRYPTO", 1)>>
        BY <3>1, <3>3, <4>1, FirstSeqs
      <4>3. Len(hsWrote') = 2 /\ hsWrote'[1].seq = 0 /\ hsWrote'[2].seq = 1
        BY <3>2, <4>1, <4>2
      <4> QED BY <3>2, <4>3 DEF SealedOK
    <3> QED BY <3>4, <3>5
  <2>3. CASE ConnectRefused \/ SendClientHello \/ SendClientHelloFails \/ SkipCcs
    BY <2>3 DEF SealedOK, ConnectRefused, SendClientHello, SendClientHelloFails, SkipCcs, Leave
  <2>4. CASE \/ RecvServerHello /\ HelloError(Head(toClient)) = "SUCCESS"
             \/ RecvFlight /\ FlightError(Head(toClient)) = "SUCCESS"
             \/ ParseMore
             \/ ParseMessage /\ MessageError = "SUCCESS"
    <3>1. pc # "returned" /\ hsWrote' = hsWrote
      BY <2>4 DEF RecvServerHello, RecvFlight, ParseMore, ParseMessage
    <3> QED BY <3>1 DEF SealedOK
  <2> QED BY <1>2, <2>1, <2>2, <2>3, <2>4, ClientSteps
<1> QED BY <1>1, <1>2 DEF Next

-----------------------------------------------------------------------------
(* CutOK is preserved. *)

(* The records on the wire are among those that were there, their `intact' *)
(* aside, or are not sealed.                                               *)
LEMMA CutWireKept ==
    ASSUME NEW cut, CutWire(cut), SrvSecret' = SrvSecret,
           srv'.bytes = srv.bytes, srv'.seq = srv.seq,
           \A i \in DOMAIN toClient' :
              \/ toClient'[i].form # "sealed"
              \/ \E j \in DOMAIN toClient :
                    /\ toClient'[i].form = toClient[j].form
                    /\ toClient'[i].key = toClient[j].key
                    /\ toClient'[i].seq = toClient[j].seq
                    /\ toClient'[i].body = toClient[j].body
    PROVE  CutWire(cut)'
BY DEF CutWire, CutRec

LEMMA CutWireAppended ==
    ASSUME NEW rec \in AnswerRecs \cup PlainRecs \cup ServerRecs,
           toClient \in Seq(AnswerRecs \cup PlainRecs \cup ServerRecs),
           toClient' = Append(toClient, rec),
           NEW cut, NEW secret, NEW bytes, NEW seq,
           \A i \in DOMAIN toClient : CutRec(cut, toClient[i], secret, bytes, seq),
           CutRec(cut, rec, secret, bytes, seq)
    PROVE  \A i \in DOMAIN toClient' : CutRec(cut, toClient'[i], secret, bytes, seq)
<1>1. \A i \in DOMAIN toClient' :
         toClient'[i] = rec \/ \E j \in DOMAIN toClient : toClient'[i] = toClient[j]
  BY AppendElements
<1> QED BY <1>1, Zenon

LEMMA WireKept ==
    ASSUME WireTypeOK,
           toClient' = toClient \/ (toClient # <<>> /\ toClient' = Tail(toClient))
    PROVE  \A i \in DOMAIN toClient' : \E j \in DOMAIN toClient : toClient'[i] = toClient[j]
<1>1. CASE toClient' = toClient
  BY <1>1
<1>2. CASE toClient # <<>> /\ toClient' = Tail(toClient)
  BY <1>2, TailElements DEF WireTypeOK
<1> QED BY <1>1, <1>2

(* One piece more, of n bytes. *)
Longer(new, cut, s, t, n) ==
    /\ Cutting(new, s + 1, t + n)
    /\ \A k \in 0 .. s : new[k] = cut[k]
    /\ new[s] = t /\ new[s + 1] = t + n

LEMMA CuttingExtended ==
    ASSUME NEW cut \in [Nat -> Nat], NEW s \in Nat, NEW t \in Nat, NEW n \in Nat,
           Cutting(cut, s, t)
    PROVE  \E new \in [Nat -> Nat] : Longer(new, cut, s, t, n)
<1> DEFINE new == [cut EXCEPT ![s + 1] = t + n]
<1>1. new \in [Nat -> Nat] /\ new[s + 1] = t + n
  OBVIOUS
<1>2. \A k \in 0 .. s : new[k] = cut[k] /\ cut[k] \in Nat /\ cut[k] <= t
  BY DEF Cutting
<1>3. cut[s] = t /\ cut[0] = 0 /\ \A k \in 0 .. s - 1 : cut[k] <= cut[k + 1]
  BY DEF Cutting
<1> HIDE DEF new
<1>4. new[0] = 0 /\ new[s] = t
  <2>1. 0 \in 0 .. s /\ s \in 0 .. s
    OBVIOUS
  <2> QED BY <1>2, <1>3, <2>1
<1>5. ASSUME NEW k \in 0 .. (s + 1) - 1
      PROVE  new[k] <= new[k + 1]
  <2>1. CASE k = s
    BY <1>1, <1>4, <2>1
  <2>2. CASE k # s
    <3>1. k \in 0 .. s - 1 /\ k \in 0 .. s /\ k + 1 \in 0 .. s
      BY <2>2
    <3>2. cut[k] <= cut[k + 1]
      BY <1>3, <3>1
    <3>3. new[k] = cut[k] /\ new[k + 1] = cut[k + 1]
      BY <1>2, <3>1
    <3> QED BY <3>2, <3>3
  <2> QED BY <2>1, <2>2
<1>6. ASSUME NEW k \in 0 .. s + 1
      PROVE  new[k] <= t + n
  <2>1. CASE k \in 0 .. s
    <3>1. PICK c \in Nat : c = new[k]
      BY <1>1, <2>1
    <3>2. c <= t
      BY <1>2, <2>1, <3>1
    <3>3. c <= t + n
      BY <3>2
    <3> QED BY <3>1, <3>3
  <2>2. CASE k = s + 1
    BY <1>1, <2>2
  <2> QED BY <2>1, <2>2
<1>7. Cutting(new, s + 1, t + n)
  BY <1>1, <1>4, <1>5, <1>6 DEF Cutting
<1> QED BY <1>1, <1>2, <1>4, <1>7 DEF Longer

(* A step of the client but the reading of a record of the flight. *)
LEMMA CutOKClient ==
    ASSUME ClientTypeOK, WireTypeOK, ServerOK, ClientOK, CutOK, Client,
           ~(RecvFlight /\ FlightError(Head(toClient)) = "SUCCESS")
    PROVE  CutOK'
<1>1. PICK cut \in [Nat -> Nat] : Cuts(cut)
  BY DEF CutOK
<1>2. /\ srv' = srv /\ setup' = setup
      /\ toClient' = toClient \/ (toClient # <<>> /\ toClient' = Tail(toClient))
  BY ClientReads
<1>3. CutServer(cut)'
  BY <1>1, <1>2 DEF Cuts, CutServer
<1>4. SrvSecret' = SrvSecret
  BY <1>2 DEF SrvSecret, HsSecret, Path
<1>5. CutWire(cut)'
  <2>1. \A i \in DOMAIN toClient' : \E j \in DOMAIN toClient : toClient'[i] = toClient[j]
    BY <1>2, WireKept
  <2> QED BY <1>1, <1>2, <1>4, <2>1, CutWireKept DEF Cuts
<1>6. pc' # "returned" => pc # "returned" /\ UNCHANGED <<sSeq, acc>>
  <2>1. Failing \/ ConnectRefused \/ SendClientHelloFails \/ Establish \/ EstablishFails
           => pc' = "returned"
    BY Zenon DEF Failing, Fail, Leave, ConnectRefused, SendClientHelloFails, Establish,
                 EstablishFails
  <2>2. SendClientHello \/ SkipCcs \/ ParseMore
           => pc # "returned" /\ UNCHANGED <<sSeq, acc>>
    BY DEF SendClientHello, SkipCcs, ParseMore, bufVars
  <2>3. RecvServerHello /\ HelloError(Head(toClient)) = "SUCCESS"
           => pc # "returned" /\ UNCHANGED <<sSeq, acc>>
    BY DEF RecvServerHello
  <2>4. ParseMessage /\ MessageError = "SUCCESS"
           => pc # "returned" /\ UNCHANGED <<sSeq, acc>>
    BY DEF ParseMessage
  <2> QED BY <2>1, <2>2, <2>3, <2>4, ClientSteps
<1>7. CutClient(cut)'
  BY <1>1, <1>2, <1>6 DEF Cuts, CutClient
<1>8. Cuts(cut)'
  BY <1>3, <1>5, <1>7 DEF Cuts
<1> QED BY <1>8 DEF CutOK

(* The record that is read is the next piece of the server's bytes. *)
LEMMA NextPiece ==
    ASSUME ClientTypeOK, WireTypeOK, ServerOK, NEW cut \in [Nat -> Nat], Cuts(cut),
           RecvFlight, FlightError(Head(toClient)) = "SUCCESS"
    PROVE  /\ keys = SrvSecret /\ sSeq < srv.seq
           /\ acc' = SubSeq(srv.bytes, 1, cut[sSeq + 1])
<1> DEFINE rec == Head(toClient)
<1>1. toClient # <<>> /\ pc = "flight" /\ acc' = acc \o rec.body.bytes
  BY DEF RecvFlight
<1>2. rec \in AnswerRecs \cup PlainRecs \cup ServerRecs
  BY <1>1, TailType
<1>3. rec.form = "sealed" /\ rec.key = <<"s", keys>> /\ rec.seq = sSeq
  BY <1>2, OpenedRecord
<1>4. 1 \in DOMAIN toClient /\ rec = toClient[1]
  BY <1>1 DEF WireTypeOK
<1>5. CutRec(cut, rec, SrvSecret, srv.bytes, srv.seq)
  BY <1>4 DEF Cuts, CutWire
<1> HIDE DEF rec
<1>6. /\ rec.key = <<"s", SrvSecret>> /\ rec.seq < srv.seq
      /\ rec.body.bytes = SubSeq(srv.bytes, cut[rec.seq] + 1, cut[rec.seq + 1])
  BY <1>3, <1>5 DEF CutRec
<1>7. keys = SrvSecret
  <2>1. <<"s", keys>> = <<"s", SrvSecret>>
    BY <1>3, <1>6
  <2> QED BY <2>1
<1>8. PICK q \in Nat, s \in Nat : q = sSeq /\ s = srv.seq
  BY DEF WireTypeOK, ServerStates, ClientTypeOK
<1>9. PICK b \in Seq(Nat), t \in Nat : b = srv.bytes /\ t = srv.sent
  BY DEF WireTypeOK, ServerStates
<1>10. q < s /\ Len(b) \in Nat /\ t <= Len(b)
  BY <1>3, <1>6, <1>8, <1>9 DEF ServerOK
<1>11. q \in 0 .. s - 1 /\ q + 1 \in 0 .. s
  BY <1>10
<1>12. Cutting(cut, s, t)
  BY <1>8, <1>9 DEF Cuts, CutServer
<1>13. cut[q] <= cut[q + 1] /\ cut[q + 1] <= t
  BY <1>11, <1>12 DEF Cutting
<1>14. PICK m \in Nat, n \in Nat : m = cut[q] /\ n = cut[q + 1]
  BY SMTT(60)
<1>15. m <= n /\ n <= t
  BY <1>13, <1>14
<1>16. m \in 0 .. Len(b) /\ n \in m .. Len(b)
  BY SMTT(60), <1>10, <1>15
<1>17. acc = SubSeq(b, 1, m) /\ rec.body.bytes = SubSeq(b, m + 1, n)
  BY <1>1, <1>3, <1>6, <1>8, <1>9, <1>14 DEF Cuts, CutClient
<1>18. acc' = SubSeq(b, 1, n)
  BY <1>1, <1>16, <1>17, SubSeqConcat
<1>19. srv.bytes = b /\ cut[sSeq + 1] = n /\ sSeq < srv.seq
  BY <1>8, <1>9, <1>10, <1>14
<1> QED BY <1>7, <1>18, <1>19

LEMMA CutOKRecv ==
    ASSUME ClientTypeOK, WireTypeOK, ServerOK, CutOK,
           RecvFlight, FlightError(Head(toClient)) = "SUCCESS"
    PROVE  CutOK'
<1>1. PICK cut \in [Nat -> Nat] : Cuts(cut)
  BY DEF CutOK
<1>2. /\ srv' = srv /\ setup' = setup /\ sSeq' = sSeq + 1
      /\ toClient # <<>> /\ toClient' = Tail(toClient)
  BY DEF RecvFlight
<1>3. CutServer(cut)'
  BY <1>1, <1>2 DEF Cuts, CutServer
<1>4. SrvSecret' = SrvSecret
  BY <1>2 DEF SrvSecret, HsSecret, Path
<1>5. CutWire(cut)'
  <2>1. \A i \in DOMAIN toClient' : \E j \in DOMAIN toClient : toClient'[i] = toClient[j]
    BY <1>2, WireKept
  <2> QED BY <1>1, <1>2, <1>4, <2>1, CutWireKept DEF Cuts
<1>6. sSeq < srv.seq /\ acc' = SubSeq(srv.bytes, 1, cut[sSeq + 1])
  BY <1>1, NextPiece
<1>7. sSeq \in Nat /\ srv.seq \in Nat
  BY DEF ClientTypeOK, WireTypeOK, ServerStates
<1>8. CutClient(cut)'
  <2>1. PICK q \in Nat, s \in Nat : q = sSeq /\ s = srv.seq
    BY <1>7
  <2>2. q + 1 <= s
    BY SMTT(60), <1>6, <2>1
  <2>3. sSeq' <= srv'.seq /\ acc' = SubSeq(srv'.bytes, 1, cut[sSeq'])
    BY <1>2, <1>6, <2>1, <2>2
  <2> QED BY <2>3 DEF CutClient
<1>9. Cuts(cut)'
  BY <1>3, <1>5, <1>8 DEF Cuts
<1> QED BY <1>9 DEF CutOK

(* The server seals one more record, of n bytes. *)
LEMMA CutOKSeal ==
    ASSUME ClientTypeOK, WireTypeOK, ServerOK, CutOK, srv.stage # "wait",
           NEW ctype \in {"handshake", "appdata", "padding"}, NEW n \in Nat,
           NEW pad \in Nat, srv.sent + n <= Len(srv.bytes),
           toClient' = Append(toClient, ServerSealed(ctype, n, pad)),
           srv'.bytes = srv.bytes, srv'.sent = srv.sent + n, srv'.seq = srv.seq + 1,
           srv'.cred = srv.cred, srv'.ch = srv.ch, srv'.sh = srv.sh,
           UNCHANGED <<setup, pc, acc, sSeq>>
    PROVE  CutOK'
<1>1. PICK cut \in [Nat -> Nat] : Cuts(cut)
  BY DEF CutOK
<1> DEFINE rec == ServerSealed(ctype, n, pad)
<1>2. PICK s \in Nat, t \in Nat : s = srv.seq /\ t = srv.sent
  BY DEF WireTypeOK, ServerStates
<1>3. Cutting(cut, s, t)
  BY <1>1, <1>2 DEF Cuts, CutServer
<1>4. PICK new \in [Nat -> Nat] :
         /\ Cutting(new, s + 1, t + n)
         /\ \A k \in 0 .. s : new[k] = cut[k]
         /\ new[s] = t /\ new[s + 1] = t + n
  <2>1. cut \in [Nat -> Nat] /\ s \in Nat /\ t \in Nat /\ n \in Nat
    BY <1>1, <1>2
  <2>2. \E new \in [Nat -> Nat] : Longer(new, cut, s, t, n)
    BY <1>3, <2>1, CuttingExtended
  <2> QED BY <2>2 DEF Longer
<1>5. SrvSecret' = SrvSecret
  BY DEF SrvSecret, HsSecret, Path
<1>6. CutServer(new)'
  BY <1>2, <1>4 DEF CutServer
<1>7. ASSUME NEW r \in AnswerRecs \cup PlainRecs \cup ServerRecs,
             CutRec(cut, r, SrvSecret, srv.bytes, s)
      PROVE  CutRec(new, r, SrvSecret, srv.bytes, s + 1)
  <2> SUFFICES ASSUME r.form = "sealed"
               PROVE  /\ r.key = <<"s", SrvSecret>> /\ r.seq < s + 1
                      /\ r.body.bytes = SubSeq(srv.bytes, new[r.seq] + 1, new[r.seq + 1])
    BY DEF CutRec
  <2>1. /\ r.key = <<"s", SrvSecret>> /\ r.seq < s
        /\ r.body.bytes = SubSeq(srv.bytes, cut[r.seq] + 1, cut[r.seq + 1])
    BY <1>7 DEF CutRec
  <2>2. PICK q \in Nat : q = r.seq
    <3>1. r \in ServerRecs
      BY DEF AnswerRecs, PlainRecs
    <3> QED BY <3>1 DEF ServerRecs
  <2>3. q < s
    BY <2>1, <2>2
  <2>5. q \in 0 .. s /\ q + 1 \in 0 .. s /\ q < s + 1
    BY <2>3
  <2>4. new[q] = cut[q] /\ new[q + 1] = cut[q + 1]
    BY <1>4, <2>5
  <2> QED BY <2>1, <2>2, <2>5, <2>4
<1>8. rec \in ServerRecs /\ rec =
         [form |-> "sealed", key |-> <<"s", SrvSecret>>, iv |-> <<"s", SrvSecret>>,
          seq |-> s, ctype |-> ctype,
          body |-> [bytes |-> SubSeq(srv.bytes, t + 1, t + n), pad |-> pad],
          intact |-> TRUE]
  <2>1. rec \in ServerRecs /\ rec =
         [form |-> "sealed", key |-> <<"s", SrvSecret>>, iv |-> <<"s", SrvSecret>>,
          seq |-> srv.seq, ctype |-> ctype,
          body |-> [bytes |-> SubSeq(srv.bytes, srv.sent + 1, srv.sent + n), pad |-> pad],
          intact |-> TRUE]
    BY ZenonT(60), SealedType
  <2> QED BY <1>2, <2>1
<1>9. toClient' = Append(toClient, rec)
  OBVIOUS
<1> HIDE DEF rec
<1>10. CutRec(new, rec, SrvSecret, srv.bytes, s + 1)
  <2>1. s < s + 1
    OBVIOUS
  <2> QED BY <1>4, <1>8, <2>1 DEF CutRec
<1>11. CutWire(new)'
  <2>1. toClient \in Seq(AnswerRecs \cup PlainRecs \cup ServerRecs)
    BY DEF WireTypeOK
  <2>3. \A j \in DOMAIN toClient : CutRec(cut, toClient[j], SrvSecret, srv.bytes, s)
    BY <1>1, <1>2 DEF Cuts, CutWire
  <2>4. \A j \in DOMAIN toClient : toClient[j] \in AnswerRecs \cup PlainRecs \cup ServerRecs
    BY <2>1
  <2>5. \A j \in DOMAIN toClient : CutRec(new, toClient[j], SrvSecret, srv.bytes, s + 1)
    BY <1>7, <2>3, <2>4
  <2>6. \A i \in DOMAIN toClient' : CutRec(new, toClient'[i], SrvSecret, srv.bytes, s + 1)
    <3>1. rec \in AnswerRecs \cup PlainRecs \cup ServerRecs
      BY <1>8
    <3> QED BY <1>9, <1>10, <2>1, <2>5, <3>1, CutWireAppended
  <2>7. srv'.seq = s + 1
    BY <1>2
  <2> QED BY <1>5, <2>6, <2>7 DEF CutWire
<1>12. CutClient(new)'
  <2>1. ASSUME pc # "returned"
        PROVE  sSeq <= s + 1 /\ acc = SubSeq(srv.bytes, 1, new[sSeq])
    <3>1. sSeq <= s /\ acc = SubSeq(srv.bytes, 1, cut[sSeq]) /\ sSeq \in Nat
      BY <1>1, <1>2, <2>1 DEF Cuts, CutClient, ClientTypeOK
    <3>2. sSeq \in 0 .. s /\ sSeq <= s + 1
      BY <3>1
    <3>3. new[sSeq] = cut[sSeq]
      BY <1>4, <3>2
    <3> QED BY <3>1, <3>2, <3>3
  <2> QED BY <1>2, <2>1 DEF CutClient
<1>13. Cuts(new)'
  BY <1>6, <1>11, <1>12 DEF Cuts
<1> QED BY <1>13 DEF CutOK

(* Nothing of the server's counters changes: the wire decides. *)
LEMMA CutOKWire ==
    ASSUME CutOK, UNCHANGED <<setup, pc, acc, sSeq>>,
           srv'.bytes = srv.bytes, srv'.sent = srv.sent, srv'.seq = srv.seq,
           srv'.cred = srv.cred, srv'.ch = srv.ch, srv'.sh = srv.sh,
           \A cut : CutWire(cut) => CutWire(cut)'
    PROVE  CutOK'
<1>1. PICK cut \in [Nat -> Nat] : Cuts(cut)
  BY DEF CutOK
<1>2. CutWire(cut)'
  BY <1>1 DEF Cuts
<1>3. CutServer(cut)' /\ CutClient(cut)'
  BY <1>1 DEF Cuts, CutServer, CutClient
<1> QED BY <1>2, <1>3 DEF CutOK, Cuts

LEMMA SecretKept ==
    ASSUME UNCHANGED setup, srv'.cred = srv.cred, srv'.ch = srv.ch, srv'.sh = srv.sh
    PROVE  SrvSecret' = SrvSecret
BY DEF SrvSecret, HsSecret, Path

LEMMA CutOKPlain ==
    ASSUME WireTypeOK, CutOK, NEW rec \in PlainRecs, toClient' = Append(toClient, rec),
           UNCHANGED <<setup, pc, acc, sSeq, srv>>
    PROVE  CutOK'
<1>1. SrvSecret' = SrvSecret
  BY SecretKept
<1>2. rec.form # "sealed"
  BY DEF PlainRecs
<1>3. ASSUME NEW cut, CutWire(cut)
      PROVE  CutWire(cut)'
  <2>1. CutRec(cut, rec, SrvSecret, srv.bytes, srv.seq)
    BY <1>2 DEF CutRec
  <2>2. \A i \in DOMAIN toClient : CutRec(cut, toClient[i], SrvSecret, srv.bytes, srv.seq)
    BY <1>3 DEF CutWire
  <2>3. toClient \in Seq(AnswerRecs \cup PlainRecs \cup ServerRecs)
    BY DEF WireTypeOK
  <2>4. \A i \in DOMAIN toClient' : CutRec(cut, toClient'[i], SrvSecret, srv.bytes, srv.seq)
    BY <2>1, <2>2, <2>3, CutWireAppended
  <2> QED BY <1>1, <2>4 DEF CutWire
<1> QED BY <1>3, CutOKWire

(* The first record of all: the server's hello. *)
LEMMA CutOKHello ==
    ASSUME ClientTypeOK, WireTypeOK, ServerOK, ClientOK, ServerHello
    PROVE  CutOK'
<1>1. PICK a \in Setups[setup].answers :
         /\ ServerSend(Answer(a.hello))
         /\ srv' = [srv EXCEPT !.stage = "flight", !.ch = Entry(Head(toServer)),
                               !.sh = [type |-> "SH", val |-> "orig"],
                               !.hello = a.hello, !.flight = a.flight,
                               !.bytes = Bytes(a.flight)]
  BY DEF ServerHello
<1>2. srv.stage = "wait" /\ UNCHANGED <<pc, acc, sSeq>>
  BY DEF ServerHello, bufVars
<1>3. /\ toClient = <<>> /\ srv.seq = 0 /\ srv.sent = 0
      /\ pc \in {"call", "hello", "returned"}
  BY <1>2 DEF ServerOK
<1>4. srv'.seq = 0 /\ srv'.sent = 0
  BY <1>1, <1>3 DEF WireTypeOK, ServerStates
<1>5. toClient' = <<Answer(a.hello)>>
  <2>1. toClient' = Append(<<>>, Answer(a.hello))
    BY <1>1, <1>3 DEF ServerSend
  <2> QED BY <2>1, FirstSeqs
<1>6. Answer(a.hello).form = "hello"
  BY DEF Answer
<1> DEFINE cut == [n \in Nat |-> 0]
<1>7. cut \in [Nat -> Nat] /\ cut[0] = 0
  OBVIOUS
<1> HIDE DEF cut
<1>8. CutServer(cut)'
  <2>1. Cutting(cut, 0, 0)
    <3>1. \A n \in 0 .. 0 - 1 : cut[n] <= cut[n + 1]
      OBVIOUS
    <3>2. \A n \in 0 .. 0 : cut[n] <= 0
      BY <1>7
    <3> QED BY <1>7, <3>1, <3>2 DEF Cutting
  <2> QED BY <1>4, <2>1 DEF CutServer
<1>9. CutWire(cut)'
  <2>1. \A i \in DOMAIN toClient' : toClient'[i].form # "sealed"
    BY <1>5, <1>6
  <2> QED BY <2>1 DEF CutWire, CutRec
<1>10. CutClient(cut)'
  <2>1. pc # "returned" => sSeq = 0 /\ acc = <<>>
    BY <1>3 DEF ClientOK
  <2>2. SubSeq(srv'.bytes, 1, 0) = <<>>
    <3>1. \A b : SubSeq(b, 1, 0) = <<>>
      BY SubSeqEmpty
    <3> QED BY <3>1
  <2>3. pc' # "returned" => sSeq' <= srv'.seq /\ acc' = SubSeq(srv'.bytes, 1, cut[sSeq'])
    BY <1>2, <1>4, <1>7, <2>1, <2>2
  <2> QED BY <2>3 DEF CutClient
<1> QED BY <1>7, <1>8, <1>9, <1>10 DEF CutOK, Cuts

LEMMA CutOKServer ==
    ASSUME ClientTypeOK, WireTypeOK, ServerOK, ClientOK, CutOK, Server
    PROVE  CutOK'
<1>1. UNCHANGED <<setup, pc, acc, sSeq>>
  BY DEF Server, ServerWrites, ServerHello, ServerRecord, ServerCcs, ServerAlien,
         ServerReads, bufVars
<1>2. srv \in ServerStates
  BY DEF WireTypeOK
<1>3. CASE ServerHello
  BY <1>3, CutOKHello
<1>4. ASSUME NEW n \in 1 .. Len(srv.bytes), NEW pad \in Pads, ServerRecord(n, pad)
      PROVE  CutOK'
  <2>1. /\ srv.stage # "wait" /\ srv.sent + n <= Len(srv.bytes)
        /\ toClient' = Append(toClient, ServerSealed("handshake", n, pad))
        /\ srv' = [srv EXCEPT !.sent = @ + n, !.seq = @ + 1]
    BY <1>4 DEF ServerRecord, ServerSend
  <2>2. /\ srv'.bytes = srv.bytes /\ srv'.sent = srv.sent + n /\ srv'.seq = srv.seq + 1
        /\ srv'.cred = srv.cred /\ srv'.ch = srv.ch /\ srv'.sh = srv.sh
    BY <1>2, <2>1 DEF ServerStates
  <2>3. n \in Nat /\ pad \in Nat
    BY <1>2, SetupFacts DEF ClientTypeOK, ServerStates
  <2>4. "handshake" \in {"handshake", "appdata", "padding"}
    OBVIOUS
  <2> QED BY <1>1, <2>1, <2>2, <2>3, <2>4, CutOKSeal
<1>5. CASE ServerCcs
  <2>1. Plain("ccs") \in PlainRecs
    BY DEF Plain, PlainRecs
  <2> QED BY <1>1, <1>5, <2>1, CutOKPlain DEF ServerCcs, ServerSend
<1>6. CASE ServerAlien
  <2>1. CASE \E form \in {"plainAlert", "short", "badCcs", "badLength"} :
                ServerSend(Plain(form)) /\ UNCHANGED srv
    <3>1. PICK form \in {"plainAlert", "short", "badCcs", "badLength"} :
             ServerSend(Plain(form)) /\ UNCHANGED srv
      BY <2>1
    <3>2. Plain(form) \in PlainRecs
      BY DEF Plain, PlainRecs
    <3> QED BY <1>1, <3>1, <3>2, CutOKPlain DEF ServerSend
  <2>2. CASE \E ctype \in {"appdata", "padding"} :
                ServerSend(ServerSealed(ctype, 0, 0)) /\ srv' = [srv EXCEPT !.seq = @ + 1]
    <3>1. PICK ctype \in {"appdata", "padding"} :
             ServerSend(ServerSealed(ctype, 0, 0)) /\ srv' = [srv EXCEPT !.seq = @ + 1]
      BY <2>2
    <3>2. toClient' = Append(toClient, ServerSealed(ctype, 0, 0))
      BY <3>1 DEF ServerSend
    <3>3. srv.stage # "wait" /\ srv.sent + 0 <= Len(srv.bytes) /\ srv.sent + 0 = srv.sent
      BY <1>6, <1>2 DEF ServerAlien, ServerOK, ServerStates
    <3>4. /\ srv'.bytes = srv.bytes /\ srv'.sent = srv.sent + 0 /\ srv'.seq = srv.seq + 1
          /\ srv'.cred = srv.cred /\ srv'.ch = srv.ch /\ srv'.sh = srv.sh
      BY <1>2, <3>1, <3>3 DEF ServerStates
    <3>5. ctype \in {"handshake", "appdata", "padding"} /\ 0 \in Nat
      OBVIOUS
    <3> QED BY <1>1, <3>2, <3>3, <3>4, <3>5, CutOKSeal
  <2> QED BY <1>6, <2>1, <2>2 DEF ServerAlien
<1>7. CASE ServerReads
  <2>1. \/ srv' = srv
        \/ \E stage \in {"done", "dead"} : srv' = [srv EXCEPT !.stage = stage]
    BY <1>7 DEF ServerReads
  <2>2. /\ srv'.bytes = srv.bytes /\ srv'.sent = srv.sent /\ srv'.seq = srv.seq
        /\ srv'.cred = srv.cred /\ srv'.ch = srv.ch /\ srv'.sh = srv.sh
    BY <1>2, <2>1 DEF ServerStates
  <2>3. SrvSecret' = SrvSecret
    BY <1>1, <2>2, SecretKept
  <2>4. toClient' = toClient
    BY <1>7 DEF ServerReads
  <2>5. \A cut : CutWire(cut) => CutWire(cut)'
    BY <2>2, <2>3, <2>4 DEF CutWire
  <2> QED BY <1>1, <2>2, <2>5, CutOKWire
<1> QED BY <1>3, <1>4, <1>5, <1>6, <1>7 DEF Server, ServerWrites

LEMMA CutOKTransport ==
    ASSUME WireTypeOK, CutOK, AlterHello \/ DamageRecord
    PROVE  CutOK'
<1> DEFINE Recs == AnswerRecs \cup PlainRecs \cup ServerRecs
<1>1. UNCHANGED <<setup, pc, acc, sSeq, srv>>
  BY DEF AlterHello, DamageRecord, bufVars
<1>2. SrvSecret' = SrvSecret
  BY <1>1, SecretKept
<1>3. toClient \in Seq(Recs)
  BY DEF WireTypeOK
<1> HIDE DEF Recs
<1>4. \A i \in DOMAIN toClient' :
         \/ toClient'[i].form # "sealed"
         \/ \E j \in DOMAIN toClient :
               /\ toClient'[i].form = toClient[j].form
               /\ toClient'[i].key = toClient[j].key
               /\ toClient'[i].seq = toClient[j].seq
               /\ toClient'[i].body = toClient[j].body
  <2>1. CASE toClient' = toClient
    BY <2>1
  <2>2. CASE /\ toClient # <<>> /\ Head(toClient).form = "hello"
             /\ toClient' = [toClient EXCEPT ![1].val = "altered"]
    <3>1. toClient[1].form = "hello" /\ DOMAIN toClient' = DOMAIN toClient
      BY <1>3, <2>2
    <3>2. \A i \in DOMAIN toClient : i # 1 => toClient'[i] = toClient[i]
      BY <2>2
    <3>3. 1 \in DOMAIN toClient => toClient'[1].form # "sealed"
      <4>1. toClient[1] \in AnswerRecs
        <5>1. Head(toClient) \in AnswerRecs \cup PlainRecs \cup ServerRecs
          BY <2>2, TailType
        <5>2. Head(toClient) = toClient[1]
          BY <1>3, <2>2
        <5> QED BY <3>1, <5>1, <5>2 DEF PlainRecs, ServerRecs
      <4>2. [toClient[1] EXCEPT !.val = "altered"].form = "hello"
        BY <4>1 DEF AnswerRecs
      <4> QED BY <2>2, <4>2
    <3> QED BY <3>1, <3>2, <3>3
  <2>3. ASSUME NEW k \in DOMAIN toClient, toClient' = RemoveAt(toClient, k)
        PROVE  \A i \in DOMAIN toClient' : \E j \in DOMAIN toClient : toClient'[i] = toClient[j]
    BY <1>3, <2>3, RemoveAtElements
  <2>4. ASSUME NEW k \in DOMAIN toClient, toClient' = Append(toClient, toClient[k])
        PROVE  \A i \in DOMAIN toClient' : \E j \in DOMAIN toClient : toClient'[i] = toClient[j]
    <3>1. toClient[k] \in Recs
      BY <1>3
    <3>2. \A i \in DOMAIN toClient' :
             toClient'[i] = toClient[k] \/ \E j \in DOMAIN toClient : toClient'[i] = toClient[j]
      BY <1>3, <2>4, <3>1, AppendElements
    <3> QED BY <3>2
  <2>5. ASSUME NEW k \in DOMAIN toClient, toClient[k].form = "sealed",
               toClient' = [toClient EXCEPT ![k] = Torn(toClient[k])]
        PROVE  \A i \in DOMAIN toClient' :
                 /\ i \in DOMAIN toClient
                 /\ toClient'[i].form = toClient[i].form
                 /\ toClient'[i].key = toClient[i].key
                 /\ toClient'[i].seq = toClient[i].seq
                 /\ toClient'[i].body = toClient[i].body
    BY <2>5 DEF Torn
  <2> QED BY <2>1, <2>2, <2>3, <2>4, <2>5 DEF AlterHello, DamageRecord
<1>5. \A cut : CutWire(cut) => CutWire(cut)'
  BY <1>1, <1>2, <1>4, CutWireKept
<1> QED BY <1>1, <1>5, CutOKWire

LEMMA CutOKStep ==
    ASSUME ClientTypeOK, WireTypeOK, ServerOK, ClientOK, CutOK, Next
    PROVE  CutOK'
<1>1. Client => CutOK'
  BY CutOKClient, CutOKRecv
<1> QED BY <1>1, CutOKServer, CutOKTransport DEF Next

-----------------------------------------------------------------------------
(* ParseOK is preserved. *)

(* Whatever the flags say has come, the only message the driver lets in is *)
(* the next one of the legal flight.                                       *)
LEMMA OrderExact ==
    ASSUME setup \in DOMAIN Setups, NEW n \in Nat, n < Len(LegalFlight),
           got = {LegalFlight[k] : k \in 1 .. n}, NEW type, Order(type) = "SUCCESS"
    PROVE  type = LegalFlight[n + 1]
<1>1. CASE Path = "psk"
  <2>1. LegalFlight = <<"EE", "FIN">> /\ n \in {0, 1}
    BY <1>1 DEF LegalFlight
  <2>2. PskOrder(type) = "SUCCESS"
    BY <1>1 DEF Order
  <2>3. CASE n = 0
    <3>1. got = {}
      BY <2>3
    <3> QED BY <2>1, <2>2, <2>3, <3>1 DEF PskOrder
  <2>4. CASE n = 1
    <3>1. got = {"EE"}
      BY <2>1, <2>4
    <3> QED BY <2>1, <2>2, <2>4, <3>1 DEF PskOrder
  <2> QED BY <2>1, <2>3, <2>4
<1>2. CASE Path = "cert"
  <2>1. LegalFlight = <<"EE", "CERT", "CV", "FIN">> /\ n \in {0, 1, 2, 3}
    BY <1>2 DEF LegalFlight
  <2>2. FlightOrder(type) = "SUCCESS"
    BY <1>2 DEF Order
  <2>3. CASE n = 0
    <3>1. got = {}
      BY <2>3
    <3> QED BY <2>1, <2>2, <2>3, <3>1 DEF FlightOrder
  <2>4. CASE n = 1
    <3>1. got = {"EE"}
      BY <2>1, <2>4
    <3> QED BY <2>1, <2>2, <2>4, <3>1 DEF FlightOrder
  <2>5. CASE n = 2
    <3>1. 1 .. 2 = {1, 2}
      OBVIOUS
    <3>2. got = {"EE", "CERT"}
      BY <2>1, <2>5, <3>1
    <3> QED BY <2>1, <2>2, <2>5, <3>2 DEF FlightOrder
  <2>6. CASE n = 3
    <3>1. 1 .. 3 = {1, 2, 3}
      OBVIOUS
    <3>2. got = {"EE", "CERT", "CV"}
      BY <2>1, <2>6, <3>1
    <3> QED BY <2>1, <2>2, <2>6, <3>2 DEF FlightOrder
  <2> QED BY <2>1, <2>3, <2>4, <2>5, <2>6
<1> QED BY <1>1, <1>2, SetupFacts

LEMMA LegalFlightFacts ==
    ASSUME setup \in DOMAIN Setups
    PROVE  /\ Len(LegalFlight) \in {2, 4}
           /\ \A k \in 1 .. Len(LegalFlight) :
                 /\ LegalFlight[k] \in FlightTypes
                 /\ (LegalFlight[k] = "FIN") <=> (k = Len(LegalFlight))
<1>1. CASE Path = "psk"
  BY <1>1 DEF LegalFlight, FlightTypes
<1>2. CASE Path = "cert"
  <2>1. LegalFlight = <<"EE", "CERT", "CV", "FIN">> /\ 1 .. 4 = {1, 2, 3, 4}
    BY <1>2 DEF LegalFlight
  <2> QED BY <2>1 DEF FlightTypes
<1> QED BY <1>1, <1>2, SetupFacts

(* Steps of the others: once it has begun, the server's flight is fixed. *)
LEMMA FlightKept ==
    ASSUME WireTypeOK, Server \/ AlterHello \/ DamageRecord, srv.stage # "wait"
    PROVE  /\ srv'.flight = srv.flight /\ srv'.bytes = srv.bytes
           /\ srv'.cred = srv.cred /\ srv'.ch = srv.ch /\ srv'.sh = srv.sh
           /\ srv'.hello = srv.hello /\ srv'.stage # "wait"
<1>1. srv \in ServerStates
  BY DEF WireTypeOK
<1>2. ~ServerHello
  BY DEF ServerHello
<1>3. \/ srv' = srv
      \/ \E stage \in {"done", "dead"} : srv' = [srv EXCEPT !.stage = stage]
      \/ srv' = [srv EXCEPT !.seq = @ + 1]
      \/ \E n \in 1 .. Len(srv.bytes) : srv' = [srv EXCEPT !.sent = @ + n, !.seq = @ + 1]
  BY <1>2 DEF Server, ServerWrites, ServerRecord, ServerCcs, ServerAlien, ServerReads,
              AlterHello, DamageRecord
<1> QED BY <1>1, <1>3 DEF ServerStates

LEMMA OthersKeepClient ==
    ASSUME Server \/ AlterHello \/ DamageRecord
    PROVE  UNCHANGED <<setup, pc, ret, sess, tc, keys, sSeq, acc, accOff, got, hsWrote>>
BY DEF Server, ServerWrites, ServerHello, ServerRecord, ServerCcs, ServerAlien, ServerReads,
       AlterHello, DamageRecord, bufVars

LEMMA ParseOKOthers ==
    ASSUME ClientTypeOK, WireTypeOK, ServerOK, ParseOK, Server \/ AlterHello \/ DamageRecord
    PROVE  ParseOK'
<1>1. UNCHANGED <<setup, pc, tc, keys, sSeq, acc, accOff, got>>
  BY OthersKeepClient
<1>2. CASE ~Running
  BY <1>1, <1>2 DEF ParseOK, Running
<1>3. CASE Running
  <2>1. srv.stage # "wait"
    BY <1>3 DEF ServerOK, Running
  <2>2. /\ srv'.flight = srv.flight /\ srv'.bytes = srv.bytes /\ srv'.cred = srv.cred
        /\ SrvSecret' = SrvSecret
    BY <1>1, <2>1, FlightKept, SecretKept
  <2>3. Parsed' = Parsed /\ LegalFlight' = LegalFlight /\ AccSz' = AccSz /\ Path' = Path
    BY <1>1 DEF Parsed, LegalFlight, AccSz, Path
  <2> QED BY <1>1, <2>2, <2>3 DEF ParseOK, Running
<1> QED BY <1>2, <1>3

LEMMA ParseOKHello ==
    ASSUME ClientTypeOK, WireTypeOK, ServerOK, ClientOK,
           RecvServerHello, HelloError(Head(toClient)) = "SUCCESS"
    PROVE  ParseOK'
<1>1. /\ pc = "hello" /\ pc' = "flight" /\ tc' = Append(tc, Entry(Head(toClient)))
      /\ UNCHANGED <<setup, acc, accOff, got, sSeq, srv>>
  BY DEF RecvServerHello
<1>2. Len(tc) = 1 /\ acc = <<>> /\ accOff = 0 /\ got = {} /\ sSeq = 0 /\ tc \in Seq(Entries)
  BY <1>1 DEF ClientOK, ClientTypeOK
<1>3. Parsed' = 0
  <2>1. Entry(Head(toClient)) \in Entries
    BY TailType, AnswerEntry DEF RecvServerHello
  <2>2. Len(tc') = Len(tc) + 1
    BY ZenonT(60), <1>1, <1>2, <2>1, AppendProperties
  <2> QED BY <1>2, <2>2 DEF Parsed
<1>4. EndsAt(srv.bytes, 0, 0)
  <2>1. srv.flight \in Seq(Messages) /\ srv.bytes = Bytes(srv.flight)
    BY DEF WireTypeOK, ServerStates, ServerOK
  <2> QED BY <2>1, BytesWellCut DEF WellCut
<1>5. AccSz' \in Nat /\ Len(LegalFlight') \in {2, 4}
  BY <1>1, SetupFacts, LegalFlightFacts DEF ClientTypeOK, AccSz, LegalFlight, Path
<1>6. 1 .. 0 = {} /\ Len(<<>>) = 0
  OBVIOUS
<1>7. {LegalFlight'[k] : k \in 1 .. 0} = {}
  BY <1>6
<1>8. accOff' <= Len(acc') /\ Len(acc') <= AccSz' /\ sSeq' = 0 /\ got' = {} /\ accOff' = 0
  BY <1>1, <1>2, <1>5, <1>6
<1>9. /\ 1 .. Parsed' = {} /\ Parsed' <= Len(LegalFlight') /\ Parsed' # Len(LegalFlight')
      /\ {LegalFlight'[k] : k \in 1 .. Parsed'} = {}
  BY <1>3, <1>5, <1>7
<1>10. EndsAt(srv.bytes, accOff, Parsed)'
  BY <1>1, <1>3, <1>4, <1>8
<1> QED BY <1>1, <1>8, <1>9, <1>10 DEF ParseOK, Running

LEMMA ParseOKRecv ==
    ASSUME ClientTypeOK, WireTypeOK, ServerOK, ClientOK, CutOK, ParseOK,
           RecvFlight, FlightError(Head(toClient)) = "SUCCESS"
    PROVE  ParseOK'
<1> DEFINE rec == Head(toClient)
<1>1. /\ pc = "flight" /\ pc' = "parse" /\ acc' = acc \o rec.body.bytes /\ sSeq' = sSeq + 1
      /\ toClient # <<>>
      /\ UNCHANGED <<setup, tc, keys, accOff, got, srv>>
  BY DEF RecvFlight
<1>2. Running /\ Running'
  BY <1>1 DEF Running
<1>3. keys = SrvSecret /\ SrvSecret' = SrvSecret
  <2>1. PICK cut \in [Nat -> Nat] : Cuts(cut)
    BY DEF CutOK
  <2> QED BY <1>1, <2>1, NextPiece, SecretKept
<1>4. Parsed' = Parsed /\ LegalFlight' = LegalFlight /\ AccSz' = AccSz /\ Path' = Path
  BY <1>1 DEF Parsed, LegalFlight, AccSz, Path
<1>5. rec \in ServerRecs /\ ~NoRoom(rec)
  BY <1>1, TailType, OpenedRecord
<1> HIDE DEF rec
<1>6. rec.body.bytes \in Seq(Nat) /\ rec.body.pad \in Nat
  BY <1>5 DEF ServerRecs
<1>7. accOff <= Len(acc') /\ Len(acc') <= AccSz
  <2>1. PICK m \in Nat, n \in Nat, p \in Nat, z \in Nat, o \in Nat :
           m = Len(acc) /\ n = Len(rec.body.bytes) /\ p = rec.body.pad /\ z = AccSz /\ o = accOff
    BY <1>6, SetupFacts DEF ClientTypeOK
  <2>2. Len(acc') = m + n
    BY <1>1, <1>6, <2>1, ConcatProperties DEF ClientTypeOK
  <2>3. o <= m
    BY <1>2, <2>1 DEF ParseOK
  <2>4. n + 1 + p <= z - m \/ m + n <= z
    BY SMTT(60), <1>5, <2>1 DEF NoRoom
  <2>5. o <= m + n /\ m + n <= z
    BY <2>3, <2>4
  <2> QED BY <2>1, <2>2, <2>5
<1>8. ParseOK
  OBVIOUS
<1> QED BY <1>1, <1>2, <1>3, <1>4, <1>7, <1>8 DEF ParseOK

LEMMA ParseOKMessage ==
    ASSUME ClientTypeOK, WireTypeOK, ServerOK, ClientOK, CutOK, ParseOK,
           ParseMessage, MessageError = "SUCCESS"
    PROVE  ParseOK'
<1>1. /\ pc = "parse" /\ pc' = IF Msg.type = "FIN" THEN "finish" ELSE "parse"
      /\ accOff' = accOff + Msg.len /\ got' = got \cup {Msg.type}
      /\ tc' = Append(tc, FlightEntry(Msg))
      /\ HeaderThere /\ accOff + Msg.len <= Len(acc)
      /\ UNCHANGED <<setup, keys, acc, sSeq, srv>>
  BY DEF ParseMessage, MsgThere
<1>2. Running /\ Running'
  BY <1>1 DEF Running
<1>3. PICK n \in Nat : n = Parsed
  BY <1>1, <1>2, NextMessage
<1>4. /\ Number = n + 1 /\ Number \in 1 .. Len(srv.flight)
      /\ Msg \in Messages
      /\ EndsAt(srv.bytes, accOff + Msg.len, n + 1)
  BY <1>1, <1>2, <1>3, NextMessage
<1>5. Order(Msg.type) = "SUCCESS" /\ Msg.check = "SUCCESS" /\ ClaimError = "SUCCESS"
  BY DEF MessageError
<1>6. LegalFlight' = LegalFlight /\ AccSz' = AccSz /\ Path' = Path /\ SrvSecret' = SrvSecret
  BY <1>1, SecretKept DEF LegalFlight, AccSz, Path
<1>7. PICK len \in {2, 4} : len = Len(LegalFlight)
  BY LegalFlightFacts DEF ClientTypeOK
<1>8. n < len
  BY <1>1, <1>2, <1>3, <1>7 DEF ParseOK
<1>9. Msg.type = LegalFlight[n + 1]
  <2>1. got = {LegalFlight[k] : k \in 1 .. n}
    BY <1>2, <1>3 DEF ParseOK
  <2> QED BY <1>5, <1>7, <1>8, <2>1, OrderExact DEF ClientTypeOK
<1>10. Parsed' = n + 1 /\ tc'[n + 3] = FlightEntry(Msg) /\ \A k \in 1 .. n : tc'[k + 2] = tc[k + 2]
  <2>1. tc \in Seq(Entries) /\ Len(tc) = n + 2
    BY <1>2, <1>3 DEF ClientTypeOK, Parsed, ClientOK
  <2>2. FlightEntry(Msg) \in Entries
    BY <1>4 DEF FlightEntry, Entries, Messages
  <2> HIDE DEF Parsed
  <2>3. /\ Len(Append(tc, FlightEntry(Msg))) = n + 3
        /\ Append(tc, FlightEntry(Msg))[n + 3] = FlightEntry(Msg)
        /\ \A k \in 1 .. n : Append(tc, FlightEntry(Msg))[k + 2] = tc[k + 2]
    <3>1. Len(Append(tc, FlightEntry(Msg))) = Len(tc) + 1
          /\ Append(tc, FlightEntry(Msg))[Len(tc) + 1] = FlightEntry(Msg)
          /\ \A k \in 1 .. Len(tc) : Append(tc, FlightEntry(Msg))[k] = tc[k]
      BY <2>1, <2>2, AppendProperties
    <3>2. \A k \in 1 .. n : k + 2 \in 1 .. Len(tc)
      BY <2>1
    <3>3. Len(tc) + 1 = n + 3
      BY <2>1
    <3> QED BY <3>1, <3>2, <3>3
  <2> QED BY <1>1, <2>3 DEF Parsed
<1>11. FlightEntry(Msg) = [type |-> LegalFlight[n + 1], val |-> "SUCCESS"]
       /\ FlightEntry(Msg) = FlightEntry(srv.flight[n + 1])
  BY <1>4, <1>5, <1>9 DEF FlightEntry, Msg
<1>12. \A k \in 1 .. n + 1 : k \in 1 .. n \/ k = n + 1
  OBVIOUS
<1>13. \A k \in 1 .. n + 1 :
          /\ tc'[k + 2] = FlightEntry(srv.flight[k])
          /\ tc'[k + 2] = [type |-> LegalFlight[k], val |-> "SUCCESS"]
  <2>1. \A k \in 1 .. n : /\ tc[k + 2] = FlightEntry(srv.flight[k])
                          /\ tc[k + 2] = [type |-> LegalFlight[k], val |-> "SUCCESS"]
    BY <1>2, <1>3 DEF ParseOK
  <2>2. (n + 1) + 2 = n + 3
    OBVIOUS
  <2> QED BY <1>10, <1>11, <1>12, <2>1, <2>2
<1>14. got' = {LegalFlight[k] : k \in 1 .. n + 1}
  <2>1. got = {LegalFlight[k] : k \in 1 .. n}
    BY <1>2, <1>3 DEF ParseOK
  <2> QED BY <1>1, <1>9, <1>12, <2>1
<1>15. n + 1 <= len /\ (pc' = "finish") = (n + 1 = len)
  <2>1. n + 1 \in 1 .. len
    BY <1>8
  <2>2. (Msg.type = "FIN") <=> (n + 1 = len)
    BY <1>7, <1>9, <2>1, LegalFlightFacts DEF ClientTypeOK
  <2> QED BY <1>1, <2>1, <2>2
<1>16. (Path = "cert" /\ "CV" \in got') => srv.cred = "right"
  <2>1. Msg.type = "CV" => srv.cred = "right"
    BY <1>5 DEF ClaimError
  <2>2. (Path = "cert" /\ "CV" \in got) => srv.cred = "right"
    BY <1>2 DEF ParseOK
  <2> QED BY <1>1, <2>1, <2>2
<1>17. sSeq > 0 => keys = SrvSecret
  BY <1>2 DEF ParseOK
<1>18. accOff' <= Len(acc') /\ Len(acc') <= AccSz
  BY <1>1, <1>2 DEF ParseOK
<1> QED BY <1>1, <1>2, <1>4, <1>6, <1>7, <1>10, <1>13, <1>14, <1>15, <1>16, <1>17, <1>18 DEF ParseOK

LEMMA ParseOKStep ==
    ASSUME ClientTypeOK, WireTypeOK, ServerOK, ClientOK, CutOK, ParseOK, Next
    PROVE  ParseOK'
<1>1. Failing \/ ConnectRefused \/ SendClientHello \/ SendClientHelloFails
        \/ Establish \/ EstablishFails => ~Running'
  BY Zenon DEF Failing, Fail, Leave, ConnectRefused, SendClientHello, SendClientHelloFails,
               Establish, EstablishFails, Running
<1>2. ASSUME SkipCcs \/ ParseMore
      PROVE  ParseOK'
  <2>1. UNCHANGED <<setup, tc, keys, sSeq, acc, accOff, got, srv>>
    BY <1>2 DEF SkipCcs, ParseMore, bufVars
  <2>2. Running' => Running /\ (pc' = "finish") = (pc = "finish")
    BY <1>2 DEF SkipCcs, ParseMore, Running
  <2>3. /\ Parsed' = Parsed /\ LegalFlight' = LegalFlight /\ AccSz' = AccSz /\ Path' = Path
        /\ SrvSecret' = SrvSecret
    BY <2>1, SecretKept DEF Parsed, LegalFlight, AccSz, Path
  <2> QED BY <2>1, <2>2, <2>3 DEF ParseOK
<1>3. Client => ParseOK'
  <2>1. ~Running' => ParseOK'
    BY DEF ParseOK
  <2> QED BY <1>1, <1>2, <2>1, ClientSteps, ParseOKHello, ParseOKRecv, ParseOKMessage
<1> QED BY <1>3, ParseOKOthers DEF Next

-----------------------------------------------------------------------------
(* FinishedOK is preserved: no Finished is on the wire before the driver   *)
(* returns, and the one it sends then covers its whole transcript.         *)

LEMMA CoverConcat ==
    ASSUME NEW S, NEW p \in Seq(S), NEW q \in Seq(S), NEW th, AllCover(p, th), AllCover(q, th)
    PROVE  AllCover(p \o q, th)
<1>1. \A i \in DOMAIN (p \o q) : \/ \E j \in DOMAIN p : (p \o q)[i] = p[j]
                                 \/ \E j \in DOMAIN q : (p \o q)[i] = q[j]
  BY ConcatElements
<1> QED BY <1>1, Zenon DEF AllCover

LEMMA FinishedOKFailing ==
    ASSUME ClientTypeOK, WireTypeOK, FinishedOK, Failing
    PROVE  FinishedOK'
<1> DEFINE Recs == HelloRecs \cup PlainRecs \cup ClientRecs
<1>1. PICK code, n : n \in {0, 1} /\ Fail(code, n)
  BY Zenon DEF Failing
<1>2. pc # "returned" /\ pc' = "returned"
  BY <1>1 DEF Failing, Fail, Leave
<1>3. \A i \in DOMAIN toServer : ~(toServer[i].form = "sealed" /\ toServer[i].ctype = "handshake")
  BY <1>2 DEF FinishedOK
<1>4. CASE toServer' = toServer
  BY <1>2, <1>3, <1>4 DEF FinishedOK
<1>5. ASSUME NEW rec \in ClientRecs, rec.ctype = "alert", toServer' = Append(toServer, rec)
      PROVE  FinishedOK'
  <2>1. rec \in Recs /\ toServer \in Seq(Recs)
    BY DEF WireTypeOK
  <2> HIDE DEF Recs
  <2>2. \A i \in DOMAIN toServer' :
           toServer'[i] = rec \/ \E j \in DOMAIN toServer : toServer'[i] = toServer[j]
    BY <1>5, <2>1, AppendElements
  <2> QED BY <1>3, <1>5, <2>2 DEF FinishedOK
<1> QED BY <1>1, <1>4, <1>5, FailEffect

LEMMA FinishedOKFinish ==
    ASSUME ClientTypeOK, WireTypeOK, ClientOK, FinishedOK, Establish \/ EstablishFails
    PROVE  FinishedOK'
<1> DEFINE Recs == HelloRecs \cup PlainRecs \cup ClientRecs
<1>1. /\ pc = "finish" /\ pc' = "returned" /\ tc' = tc
      /\ ClientFinished \in ClientRecs /\ Torn(ClientFinished) \in ClientRecs
      /\ ClientFinished.body[3] = tc /\ Torn(ClientFinished).body[3] = tc
  BY FinishEffect DEF Establish, EstablishFails
<1>2. PICK alert \in {<<>>, <<Alert("E_CRYPTO", 1)>>},
           out \in {<<>>, <<ClientFinished>>, <<Torn(ClientFinished)>>} :
         /\ alert # <<>> => /\ Alert("E_CRYPTO", 1) \in ClientRecs
                            /\ Alert("E_CRYPTO", 1).ctype = "alert"
         /\ toServer' = toServer \o (out \o alert)
  BY FinishEffect
<1>3. toServer \in Seq(Recs)
  BY DEF WireTypeOK
<1>4. AllCover(toServer, tc)
  BY <1>1 DEF AllCover, Covers, FinishedOK
<1>5. out \in Seq(Recs) /\ AllCover(out, tc)
  <2>1. ClientFinished \in Recs /\ Torn(ClientFinished) \in Recs
    BY <1>1
  <2>2. Covers(ClientFinished, tc) /\ Covers(Torn(ClientFinished), tc)
    BY <1>1 DEF Covers
  <2> HIDE DEF Recs
  <2>3. CASE out = <<>>
    BY <2>3 DEF AllCover
  <2>4. CASE out = <<ClientFinished>>
    BY <2>1, <2>2, <2>4 DEF AllCover
  <2>5. CASE out = <<Torn(ClientFinished)>>
    BY <2>1, <2>2, <2>5 DEF AllCover
  <2> QED BY <1>2, <2>3, <2>4, <2>5
<1>6. alert \in Seq(Recs) /\ AllCover(alert, tc)
  <2>1. CASE alert = <<>>
    BY <2>1 DEF AllCover
  <2>2. CASE alert # <<>>
    <3>1. /\ alert = <<Alert("E_CRYPTO", 1)>> /\ Alert("E_CRYPTO", 1) \in Recs
          /\ Alert("E_CRYPTO", 1).ctype = "alert"
      BY <1>2, <2>2
    <3>2. Covers(Alert("E_CRYPTO", 1), tc)
      BY <3>1 DEF Covers
    <3> HIDE DEF Recs
    <3> QED BY <3>1, <3>2 DEF AllCover
  <2> QED BY <2>1, <2>2
<1> HIDE DEF Recs
<1>7. out \o alert \in Seq(Recs) /\ AllCover(out \o alert, tc)
  BY <1>5, <1>6, CoverConcat, ConcatProperties
<1>8. AllCover(toServer', tc)
  BY <1>2, <1>3, <1>4, <1>7, CoverConcat
<1> QED BY <1>1, <1>8 DEF AllCover, Covers, FinishedOK

LEMMA FinishedOKStep ==
    ASSUME ClientTypeOK, WireTypeOK, ClientOK, FinishedOK, Next
    PROVE  FinishedOK'
<1>1. CASE Server \/ AlterHello \/ DamageRecord
  <2>1. UNCHANGED <<pc, tc>>
    BY <1>1, OthersKeepClient
  <2>2. toServer \in Seq(HelloRecs \cup PlainRecs \cup ClientRecs)
    BY DEF WireTypeOK
  <2>3. CASE toServer' = toServer
    BY <2>1, <2>3 DEF FinishedOK
  <2>4. CASE toServer # <<>> /\ toServer' = Tail(toServer)
    <3>1. \A i \in DOMAIN toServer' : \E j \in DOMAIN toServer : toServer'[i] = toServer[j]
      BY <2>2, <2>4, TailElements
    <3> QED BY <2>1, <3>1 DEF FinishedOK
  <2>5. CASE toServer # <<>> /\ toServer' = [toServer EXCEPT ![1] = ClientHello("altered")]
    <3>1. \A i \in DOMAIN toServer' : /\ i \in DOMAIN toServer
                                      /\ toServer'[i].form # "sealed" \/ toServer'[i] = toServer[i]
      BY <2>5 DEF ClientHello
    <3> QED BY <2>1, <3>1 DEF FinishedOK
  <2> QED BY <1>1, <2>3, <2>4, <2>5
        DEF Server, ServerWrites, ServerHello, ServerRecord, ServerCcs, ServerAlien, ServerReads,
            AlterHello, DamageRecord
<1>2. CASE ConnectRefused
  BY <1>2 DEF ConnectRefused, ClientOK, FinishedOK, netVars
<1>3. CASE SendClientHello \/ SendClientHelloFails
  <2>1. toServer' \in {<<>>, <<ClientHello("orig")>>, <<ClientHello("orig"), Plain("ccs")>>}
    BY <1>3 DEF SendClientHello, SendClientHelloFails
  <2>2. ClientHello("orig").form # "sealed" /\ Plain("ccs").form # "sealed"
    BY DEF ClientHello, Plain
  <2>3. \A i \in DOMAIN toServer' : toServer'[i].form # "sealed"
    BY <2>1, <2>2
  <2> QED BY <2>3 DEF FinishedOK
<1>4. CASE \/ SkipCcs
           \/ RecvServerHello /\ HelloError(Head(toClient)) = "SUCCESS"
           \/ RecvFlight /\ FlightError(Head(toClient)) = "SUCCESS"
           \/ ParseMore
           \/ ParseMessage /\ MessageError = "SUCCESS"
  <2>1. pc # "returned" /\ toServer' = toServer
    BY <1>4 DEF SkipCcs, RecvServerHello, RecvFlight, ParseMore, ParseMessage, netVars
  <2> QED BY <2>1 DEF FinishedOK
<1> QED BY <1>1, <1>2, <1>3, <1>4, ClientSteps, FinishedOKFailing, FinishedOKFinish DEF Next

-----------------------------------------------------------------------------
(* The end of the handshake. *)

LEMMA FinishedAt ==
    ASSUME srv.flight \in Seq(Messages), NEW n \in 1 .. Len(srv.flight),
           srv.flight[n].type = "FIN",
           \A k \in 1 .. Len(srv.flight) : k < n => srv.flight[k].type # "FIN"
    PROVE  SrvFinished = n
<1> DEFINE I == {i \in 1 .. Len(srv.flight) : srv.flight[i].type = "FIN"}
<1>1. I # {} /\ n \in I /\ \A y \in I : n <= y
  OBVIOUS
<1>2. I \subseteq Nat
  OBVIOUS
<1>3. SrvFinished = Min(I)
  BY <1>1 DEF SrvFinished, SelectInSeq
<1> HIDE DEF I
<1>4. \A x \in I : (\A y \in I : x <= y) => x = n
  BY <1>1, <1>2
<1>5. Min(I) = n
  BY <1>1, <1>4, Zenon DEF Min
<1> QED BY <1>3, <1>5

LEMMA PairConcat ==
    ASSUME NEW S, NEW p \in Seq(S), NEW q \in Seq(S), NEW n \in Nat, Len(p) = 2, Len(q) = n
    PROVE  /\ p \o q \in Seq(S) /\ Len(p \o q) = n + 2
           /\ \A i \in 1 .. 2 : (p \o q)[i] = p[i]
           /\ \A i \in 3 .. n + 2 : (p \o q)[i] = q[i - 2]
<1>1. /\ p \o q \in Seq(S) /\ Len(p \o q) = Len(p) + Len(q)
      /\ \A i \in 1 .. Len(p) + Len(q) :
            (p \o q)[i] = IF i <= Len(p) THEN p[i] ELSE q[i - Len(p)]
  BY ConcatProperties
<1>2. Len(p) + Len(q) = n + 2
  OBVIOUS
<1>3. ASSUME NEW i \in 1 .. 2
      PROVE  (p \o q)[i] = p[i]
  <2>1. i \in 1 .. Len(p) + Len(q) /\ i <= Len(p)
    OBVIOUS
  <2> QED BY <1>1, <2>1
<1>4. ASSUME NEW i \in 3 .. n + 2
      PROVE  (p \o q)[i] = q[i - 2]
  <2>1. i \in 1 .. Len(p) + Len(q) /\ ~(i <= Len(p)) /\ i - Len(p) = i - 2
    OBVIOUS
  <2>2. (p \o q)[i] = q[i - Len(p)]
    BY <1>1, <2>1
  <2> QED BY <2>1, <2>2
<1> QED BY <1>1, <1>2, <1>3, <1>4

(* A transcript is known by its elements. *)
LEMMA TranscriptAt ==
    ASSUME tc \in Seq(Entries), NEW n \in Nat, Len(tc) = n + 2,
           tc[1] = srv.ch, tc[2] = srv.sh,
           \A k \in 1 .. n : tc[k + 2] = FlightEntry(srv.flight[k])
    PROVE  tc = SrvTranscript(n + 1)
<1> DEFINE p == <<srv.ch, srv.sh>>
           q == [k \in 1 .. (n + 1) - 1 |-> FlightEntry(srv.flight[k])]
<1>1. (n + 1) - 1 = n
  OBVIOUS
<1>2. \A k \in 1 .. n : tc[k + 2] \in Entries /\ k + 2 \in 1 .. Len(tc)
  OBVIOUS
<1>3. q \in Seq(Entries) /\ Len(q) = n /\ \A k \in 1 .. n : q[k] = tc[k + 2]
  <2>1. q = [k \in 1 .. n |-> FlightEntry(srv.flight[k])]
    BY <1>1
  <2> HIDE DEF q
  <2>2. \A k \in 1 .. n : q[k] = tc[k + 2] /\ q[k] \in Entries
    BY <1>2, <2>1
  <2>3. q \in [1 .. n -> Entries] /\ n \in Nat
    BY <2>1, <2>2
  <2> QED BY <2>2, <2>3
<1>4. p = <<tc[1], tc[2]>> /\ tc[1] \in Entries /\ tc[2] \in Entries
  <2>1. 1 \in 1 .. Len(tc) /\ 2 \in 1 .. Len(tc)
    OBVIOUS
  <2> QED BY <2>1
<1> HIDE DEF q, p
<1>5. p \in Seq(Entries) /\ Len(p) = 2 /\ p[1] = tc[1] /\ p[2] = tc[2]
  BY <1>4
<1>6. /\ p \o q \in Seq(Entries) /\ Len(p \o q) = n + 2
      /\ \A i \in 1 .. 2 : (p \o q)[i] = p[i]
      /\ \A i \in 3 .. n + 2 : (p \o q)[i] = q[i - 2]
  BY SMTT(60), <1>3, <1>5, PairConcat
<1>7. ASSUME NEW i \in 1 .. n + 2
      PROVE  (p \o q)[i] = tc[i]
  <2>1. CASE i \in {1, 2}
    BY <1>5, <1>6, <2>1
  <2>2. CASE i \in 3 .. n + 2
    <3>1. i - 2 \in 1 .. n /\ (i - 2) + 2 = i
      BY <2>2
    <3> QED BY <1>3, <1>6, <2>2, <3>1
  <2>3. i \in {1, 2} \/ i \in 3 .. n + 2
    OBVIOUS
  <2> QED BY <2>1, <2>2, <2>3
<1>8. tc = p \o q
  BY <1>6, <1>7, SeqEqual
<1> QED BY <1>8 DEF SrvTranscript, p, q

(* When Finished has been accepted, the client and the server have the     *)
(* same secret and the same transcript, and the server's credential is the *)
(* right one.                                                              *)
LEMMA FinishAgrees ==
    ASSUME ClientTypeOK, WireTypeOK, ServerOK, ClientOK, CutOK, ParseOK, pc = "finish"
    PROVE  /\ srv.stage # "wait" /\ srv.cred = "right" /\ keys = SrvSecret
           /\ SrvFinished = Len(LegalFlight) /\ Parsed = Len(LegalFlight)
           /\ tc = SrvTranscript(SrvFinished + 1)
<1>1. Running
  BY DEF Running
<1>2. srv.stage # "wait"
  BY DEF ServerOK
<1>3. PICK n \in {2, 4} : n = Len(LegalFlight) /\ n = Parsed
  BY <1>1, LegalFlightFacts DEF ClientTypeOK, ParseOK
<1>4. /\ tc \in Seq(Entries) /\ Len(tc) = n + 2
      /\ srv.flight \in Seq(Messages) /\ srv.bytes = Bytes(srv.flight)
      /\ acc \in Seq(Nat) /\ accOff \in Nat
  BY <1>1, <1>3 DEF ClientTypeOK, ClientOK, Parsed, WireTypeOK, ServerStates, ServerOK
<1>5. /\ EndsAt(srv.bytes, accOff, n) /\ accOff <= Len(acc)
      /\ \A k \in 1 .. n : /\ tc[k + 2] = FlightEntry(srv.flight[k])
                           /\ tc[k + 2] = [type |-> LegalFlight[k], val |-> "SUCCESS"]
      /\ got = {LegalFlight[k] : k \in 1 .. n}
  BY <1>1, <1>3 DEF ParseOK
<1>6. accOff > 0 /\ Len(acc) > 0 /\ accOff \in 1 .. Len(srv.bytes) /\ srv.bytes[accOff] = n
  BY <1>4, <1>5 DEF EndsAt
<1>7. sSeq > 0
  <2>1. PICK cut \in [Nat -> Nat] : Cuts(cut)
    BY DEF CutOK
  <2>2. cut[0] = 0 /\ acc = SubSeq(srv.bytes, 1, cut[sSeq])
    BY <1>1, <2>1 DEF Cuts, CutServer, Cutting, CutClient, Running
  <2>3. SubSeq(srv.bytes, 1, 0) = <<>>
    <3>1. \A b : SubSeq(b, 1, 0) = <<>>
      BY SubSeqEmpty
    <3> QED BY <3>1
  <2>4. CASE sSeq = 0
    <3>1. acc = <<>>
      BY <2>2, <2>3, <2>4
    <3> QED BY <1>6, <3>1
  <2> QED BY <2>4 DEF ClientTypeOK
<1>8. keys = SrvSecret
  BY <1>1, <1>7 DEF ParseOK
<1>9. <<tc[1], tc[2]>> = <<srv.ch, srv.sh>> /\ (Path = "psk" => srv.cred = "right")
  <2>1. HsSecret("right", <<tc[1], tc[2]>>) = HsSecret(srv.cred, <<srv.ch, srv.sh>>)
    BY <1>1, <1>8 DEF ClientOK, SrvSecret
  <2>2. \A a, b, c, d : HsSecret(a, b) = HsSecret(c, d) => b = d /\ (Path = "psk" => a = c)
    BY DEF HsSecret
  <2> QED BY <2>1, <2>2
<1>10. srv.cred = "right"
  <2>1. CASE Path = "cert"
    <3>1. LegalFlight = <<"EE", "CERT", "CV", "FIN">>
      BY <2>1 DEF LegalFlight
    <3>2. Len(LegalFlight) = 4 /\ LegalFlight[3] = "CV" /\ 3 \in 1 .. 4
      BY <3>1
    <3>3. "CV" \in got
      BY <1>3, <1>5, <3>2
    <3> QED BY <1>1, <2>1, <3>3 DEF ParseOK
  <2> QED BY <1>9, <2>1, SetupFacts DEF ClientTypeOK
<1>11. n \in 1 .. Len(srv.flight) /\ Len(srv.flight) \in Nat
  <2>1. srv.bytes \in Seq(1 .. Len(srv.flight))
    BY <1>4, BytesWellCut DEF WellCut
  <2> QED BY <1>4, <1>6, <2>1
<1>12. \A k \in 1 .. n : srv.flight[k].type = LegalFlight[k]
  <2>1. \A k \in 1 .. n : FlightEntry(srv.flight[k]) = [type |-> LegalFlight[k], val |-> "SUCCESS"]
    BY <1>5
  <2>2. \A m, l : FlightEntry(m) = [type |-> l, val |-> "SUCCESS"] => m.type = l
    BY DEF FlightEntry
  <2> QED BY <2>1, <2>2
<1>13. SrvFinished = n
  <2>1. \A k \in 1 .. n : (LegalFlight[k] = "FIN") <=> (k = n)
    BY <1>3, LegalFlightFacts DEF ClientTypeOK
  <2>2. n \in 1 .. n /\ \A k \in 1 .. Len(srv.flight) : k < n => k \in 1 .. n
    BY <1>11
  <2>3. srv.flight[n].type = "FIN"
    BY <1>12, <2>1, <2>2
  <2>4. \A k \in 1 .. Len(srv.flight) : k < n => srv.flight[k].type # "FIN"
    <3> SUFFICES ASSUME NEW k \in 1 .. Len(srv.flight), k < n
                 PROVE  srv.flight[k].type # "FIN"
      OBVIOUS
    <3>1. k \in 1 .. n /\ k # n
      BY <2>2
    <3> QED BY <1>12, <2>1, <3>1
  <2> QED BY <1>4, <1>11, <2>3, <2>4, FinishedAt
<1>14. tc = SrvTranscript(n + 1)
  <2>1. tc[1] = srv.ch /\ tc[2] = srv.sh
    BY <1>9
  <2>2. n \in Nat
    OBVIOUS
  <2> QED BY <1>4, <1>5, <2>1, <2>2, TranscriptAt
<1> QED BY <1>2, <1>3, <1>8, <1>10, <1>13, <1>14

-----------------------------------------------------------------------------
(* SessionOK and NoSessionOnFailure are preserved. *)

LEMMA ClientRuns ==
    ASSUME Client
    PROVE  pc # "returned"
<1>1. Failing => pc # "returned"
  BY Zenon DEF Failing
<1>2. (\/ ConnectRefused \/ SendClientHello \/ SendClientHelloFails \/ SkipCcs
       \/ RecvServerHello \/ RecvFlight \/ ParseMore \/ ParseMessage
       \/ Establish \/ EstablishFails)
      => pc # "returned"
  BY DEF ConnectRefused, SendClientHello, SendClientHelloFails, SkipCcs, RecvServerHello,
         RecvFlight, ParseMore, ParseMessage, Establish, EstablishFails
<1> QED BY <1>1, <1>2, ClientSteps

(* Only wn_SessionEstablish makes a session. *)
LEMMA OnlyEstablish ==
    ASSUME ClientOK, Client, ~Establish
    PROVE  /\ ~NewSession'
           /\ (pc' = "returned" /\ ret' # "SUCCESS") =>
                 \/ sess'.flags = {}
                 \/ sess' = OldSession /\ toServer' = <<>> /\ tc' = <<>>
<1>1. Cleared.flags = {} /\ OldSession.flags = {"ESTABLISHED"} /\ {} # {"ESTABLISHED"}
  BY DEF Cleared, OldSession
<1>2. CASE Failing
  BY <1>1, <1>2, Zenon DEF Failing, ClientOK, NewSession
<1>3. CASE ConnectRefused
  BY <1>1, <1>3 DEF ConnectRefused, ClientOK, NewSession, netVars
<1>4. CASE SendClientHello \/ SendClientHelloFails
  <2>1. sess' = Cleared
    BY <1>4 DEF SendClientHello, SendClientHelloFails
  <2> QED BY <1>1, <2>1 DEF NewSession
<1>5. CASE \/ SkipCcs
           \/ RecvServerHello /\ HelloError(Head(toClient)) = "SUCCESS"
           \/ RecvFlight /\ FlightError(Head(toClient)) = "SUCCESS"
           \/ ParseMore
           \/ ParseMessage /\ MessageError = "SUCCESS"
  <2>1. sess' = sess /\ pc \in {"hello", "flight", "parse", "finish"}
    BY <1>5 DEF SkipCcs, RecvServerHello, RecvFlight, ParseMore, ParseMessage
  <2> QED BY <1>1, <2>1 DEF ClientOK, NewSession
<1>6. CASE EstablishFails
  <2>1. PICK out : sess' \in IF out # <<ClientFinished>> THEN {Cleared}
                             ELSE {Cleared, [flags |-> {}, app |-> AppSecret(keys, tc)]}
    BY <1>6, Zenon DEF EstablishFails
  <2>2. sess' = Cleared \/ sess' = [flags |-> {}, app |-> AppSecret(keys, tc)]
    BY <2>1
  <2>3. sess'.flags = {}
    BY <1>1, <2>2
  <2> QED BY <1>1, <2>3 DEF NewSession
<1> QED BY <1>2, <1>3, <1>4, <1>5, <1>6, ClientSteps

LEMMA FinishedKept ==
    ASSUME srv'.flight = srv.flight
    PROVE  SrvFinished' = SrvFinished
BY DEF SrvFinished, SelectInSeq

LEMMA SessionOKEstablish ==
    ASSUME ClientTypeOK, WireTypeOK, ServerOK, ClientOK, CutOK, ParseOK, SessionOK, Establish
    PROVE  SessionOK'
<1>1. /\ pc = "finish" /\ pc' = "returned" /\ UNCHANGED <<setup, tc, srv>>
      /\ sess' = [flags |-> {"ESTABLISHED"}, app |-> AppSecret(keys, tc)]
  BY DEF Establish, Leave
<1>2. /\ srv.stage # "wait" /\ srv.cred = "right" /\ keys = SrvSecret
      /\ Parsed = Len(LegalFlight) /\ tc = SrvTranscript(SrvFinished + 1)
  BY <1>1, FinishAgrees
<1>3. srv.stage # "done"
  BY <1>1 DEF SessionOK
<1>4. Running
  BY <1>1 DEF Running
<1>5. sess'.app = SrvApp /\ SrvApp' = SrvApp
  <2>1. sess'.app = AppSecret(SrvSecret, SrvTranscript(SrvFinished + 1))
    BY <1>1, <1>2
  <2>2. SrvApp' = SrvApp
    <3>1. SrvSecret' = SrvSecret /\ SrvFinished' = SrvFinished
      BY <1>1, SecretKept, FinishedKept
    <3> QED BY <1>1, <3>1 DEF SrvApp, SrvTranscript, AppSecret
  <2> QED BY <2>1, <2>2 DEF SrvApp
<1>6. PICK n \in Nat : n = Len(LegalFlight)
  BY LegalFlightFacts DEF ClientTypeOK
<1>7. tc \in Seq(Entries) /\ Len(tc) = n + 2
  BY <1>2, <1>4, <1>6 DEF ClientTypeOK, ClientOK, Parsed
<1>8. \A k \in 1 .. n : tc[k + 2] = [type |-> LegalFlight[k], val |-> "SUCCESS"]
  BY <1>2, <1>4, <1>6 DEF ParseOK
<1>9. Types(SubSeq(tc, 3, Len(tc))) = LegalFlight
  <2> DEFINE q == SubSeq(tc, 3, Len(tc))
  <2>1. /\ q \in Seq(Entries) /\ Len(q) = n /\ \A k \in 1 .. n : q[k] = tc[k + 2]
    <3>1. 2 \in 0 .. Len(tc) /\ Len(tc) \in 2 .. Len(tc) /\ 2 + 1 = 3 /\ Len(tc) - 2 = n
      BY <1>7
    <3>2. /\ SubSeq(tc, 2 + 1, Len(tc)) \in Seq(Entries)
          /\ Len(SubSeq(tc, 2 + 1, Len(tc))) = Len(tc) - 2
          /\ \A i \in 1 .. Len(tc) - 2 : SubSeq(tc, 2 + 1, Len(tc))[i] = tc[2 + i]
      BY <1>7, <3>1, SubSeqPiece
    <3>3. \A i \in 1 .. n : 2 + i = i + 2
      OBVIOUS
    <3> QED BY <3>1, <3>2, <3>3
  <2> HIDE DEF q
  <2>2. \A k \in 1 .. n : q[k].type = LegalFlight[k]
    <3>1. \A k \in 1 .. n : q[k] = [type |-> LegalFlight[k], val |-> "SUCCESS"]
      BY <1>8, <2>1
    <3>2. \A e, l : e = [type |-> l, val |-> "SUCCESS"] => e.type = l
      OBVIOUS
    <3> QED BY <3>1, <3>2
  <2>3. LegalFlight = [k \in 1 .. n |-> LegalFlight[k]]
    <3>1. LegalFlight \in Seq(FlightTypes)
      <4>1. /\ <<"EE", "FIN">> \in Seq(FlightTypes)
            /\ <<"EE", "CERT", "CV", "FIN">> \in Seq(FlightTypes)
        BY DEF FlightTypes
      <4> QED BY <4>1 DEF LegalFlight
    <3> QED BY <1>6, <3>1
  <2>4. Types(q) = LegalFlight
    BY <2>1, <2>2, <2>3 DEF Types
  <2> QED BY <2>4 DEF q
<1>10. \A k \in 3 .. Len(tc) : tc[k].val = "SUCCESS"
  <2> SUFFICES ASSUME NEW k \in 3 .. Len(tc) PROVE tc[k].val = "SUCCESS"
    OBVIOUS
  <2>1. k - 2 \in 1 .. n /\ (k - 2) + 2 = k
    BY <1>7
  <2>2. tc[(k - 2) + 2].val = "SUCCESS"
    <3>1. tc[(k - 2) + 2] = [type |-> LegalFlight[k - 2], val |-> "SUCCESS"]
      BY <1>8, <2>1
    <3> QED BY <3>1
  <2> QED BY <2>1, <2>2
<1>11. FlightExact' /\ Agreement'
  <2>1. LegalFlight' = LegalFlight
    BY <1>1 DEF LegalFlight, Path
  <2>2. FlightExact'
    BY <1>1, <1>9, <1>10, <2>1 DEF FlightExact
  <2>3. Agreement'
    BY <1>1, <1>2, <1>3, <1>5 DEF Agreement
  <2> QED BY <2>2, <2>3
<1> QED BY <1>1, <1>2, <1>3, <1>11 DEF SessionOK

(* The server accepts a Finished. *)
LEMMA ServerAccepts ==
    ASSUME ClientTypeOK, WireTypeOK, FinishedOK, Server \/ AlterHello \/ DamageRecord,
           srv.stage # "done", srv'.stage = "done"
    PROVE  srv.stage # "wait" /\ pc = "returned" /\ tc = SrvTranscript(SrvFinished + 1)
<1>1. srv \in ServerStates
  BY DEF WireTypeOK
<1>2. ServerReads
  <2>1. AlterHello \/ DamageRecord \/ ServerCcs => srv' = srv
    BY DEF AlterHello, DamageRecord, ServerCcs
  <2>2. ServerHello => srv'.stage = "flight"
    BY <1>1 DEF ServerHello, ServerStates
  <2>3. (\E n \in 1 .. Len(srv.bytes), pad \in Pads : ServerRecord(n, pad))
           => srv'.stage = srv.stage
    BY <1>1 DEF ServerRecord, ServerStates
  <2>4. ServerAlien => srv'.stage = srv.stage
    BY <1>1 DEF ServerAlien, ServerStates
  <2> QED BY <2>1, <2>2, <2>3, <2>4 DEF Server, ServerWrites
<1> DEFINE rec == Head(toServer)
           th == SrvTranscript(SrvFinished + 1)
           opens == /\ rec.form = "sealed" /\ rec.ctype = "handshake"
                    /\ Unprotect(TrafficKey("c", SrvSecret, 0), rec) = "SUCCESS"
                    /\ rec.body = FinishedMac("c", SrvSecret, th)
<1>3. /\ srv.stage = "flight" /\ toServer # <<>>
      /\ srv' = IF rec.form = "ccs" THEN srv
                ELSE [srv EXCEPT !.stage = IF opens THEN "done" ELSE "dead"]
  BY <1>2 DEF ServerReads
<1>4. opens
  <2> HIDE DEF opens
  <2>1. CASE ~opens
    <3>1. srv' = srv \/ srv' = [srv EXCEPT !.stage = "dead"]
      BY <1>3, <2>1
    <3> QED BY <1>1, <3>1 DEF ServerStates
  <2> QED BY <2>1
<1>5. rec.body[3] = th
  <2>1. rec.body = <<"c", SrvSecret, th>>
    BY <1>4 DEF FinishedMac
  <2> HIDE DEF th, rec
  <2> QED BY <2>1
<1>6. 1 \in DOMAIN toServer /\ toServer[1] = rec
  BY <1>3 DEF WireTypeOK
<1>7. pc = "returned" /\ rec.body[3] = tc
  <2>1. toServer[1].form = "sealed" /\ toServer[1].ctype = "handshake"
    BY <1>4, <1>6
  <2>2. pc = "returned" /\ toServer[1].body[3] = tc
    BY <1>6, <2>1 DEF FinishedOK
  <2> QED BY <1>6, <2>2
<1> QED BY <1>3, <1>5, <1>7

LEMMA SessionOKOthers ==
    ASSUME ClientTypeOK, WireTypeOK, ServerOK, FinishedOK, SessionOK,
           Server \/ AlterHello \/ DamageRecord
    PROVE  SessionOK'
<1>1. UNCHANGED <<setup, pc, sess, tc>>
  BY OthersKeepClient
<1>2. NewSession' = NewSession
  BY <1>1 DEF NewSession
<1>3. ASSUME srv.stage # "wait"
      PROVE  /\ srv'.cred = srv.cred /\ srv'.stage # "wait" /\ SrvApp' = SrvApp
             /\ SrvTranscript(SrvFinished + 1)' = SrvTranscript(SrvFinished + 1)
  <2>1. /\ srv'.flight = srv.flight /\ srv'.cred = srv.cred /\ srv'.ch = srv.ch
        /\ srv'.sh = srv.sh /\ srv'.stage # "wait"
    BY <1>3, FlightKept
  <2>2. SrvTranscript(SrvFinished + 1)' = SrvTranscript(SrvFinished + 1)
    <3>1. SrvFinished' = SrvFinished
      BY <2>1, FinishedKept
    <3> QED BY <2>1, <3>1 DEF SrvTranscript
  <2>3. SrvSecret' = SrvSecret
    BY <1>1, <2>1, SecretKept
  <2> QED BY <2>1, <2>2, <2>3 DEF SrvApp, AppSecret
<1>4. ASSUME NewSession
      PROVE  pc' = "returned" /\ srv'.stage # "wait" /\ FlightExact'
             /\ srv'.cred = "right" /\ sess'.app = SrvApp'
  <2>1. pc = "returned" /\ srv.stage # "wait" /\ FlightExact /\ srv.cred = "right" /\ sess.app = SrvApp
    BY <1>4 DEF SessionOK, Agreement
  <2>2. FlightExact'
    BY <1>1, <2>1 DEF FlightExact, NewSession, LegalFlight, Path
  <2> QED BY <1>1, <1>3, <2>1, <2>2
<1>5. ASSUME srv'.stage = "done"
      PROVE  pc' = "returned" /\ tc' = SrvTranscript(SrvFinished + 1)'
  <2>1. srv.stage # "wait" /\ pc = "returned" /\ tc = SrvTranscript(SrvFinished + 1)
    BY <1>5, ServerAccepts DEF SessionOK, Agreement
  <2> QED BY <1>1, <1>3, <2>1
<1> QED BY <1>2, <1>4, <1>5 DEF SessionOK, Agreement

LEMMA SessionOKStep ==
    ASSUME ClientTypeOK, WireTypeOK, ServerOK, ClientOK, CutOK, ParseOK, FinishedOK, SessionOK,
           Next
    PROVE  SessionOK'
<1>1. ASSUME Client, ~Establish
      PROVE  SessionOK'
  <2>1. ~NewSession' /\ srv' = srv /\ pc # "returned"
    BY <1>1, OnlyEstablish, ClientReads, ClientRuns
  <2>2. srv.stage # "done"
    BY <2>1 DEF SessionOK
  <2> QED BY <2>1, <2>2 DEF SessionOK, Agreement
<1> QED BY <1>1, SessionOKEstablish, SessionOKOthers DEF Next

LEMMA NoSessionStep ==
    ASSUME ClientOK, NoSessionOnFailure, Next
    PROVE  NoSessionOnFailure'
<1>1. CASE Server \/ AlterHello \/ DamageRecord
  <2>1. UNCHANGED <<pc, ret, sess, tc>>
    BY <1>1, OthersKeepClient
  <2>2. toServer = <<>> => toServer' = <<>>
    BY <1>1 DEF Server, ServerWrites, ServerHello, ServerRecord, ServerCcs, ServerAlien,
                ServerReads, AlterHello, DamageRecord
  <2> QED BY <2>1, <2>2 DEF NoSessionOnFailure
<1>2. CASE Client /\ ~Establish
  BY <1>2, OnlyEstablish DEF NoSessionOnFailure
<1>3. CASE Establish
  BY <1>3 DEF Establish, Leave, NoSessionOnFailure
<1> QED BY <1>1, <1>2, <1>3 DEF Next

-----------------------------------------------------------------------------
(* The invariant: initially, and in every step. *)

LEMMA HsInvInit ==
    ASSUME Init
    PROVE  HsInv
<1>1. PICK cred \in {"right", "wrong"} : srv = ServerInit(cred)
  BY DEF Init
<1>2. Bytes(<<>>) = <<>>
  <2>1. <<>> \in Seq(Messages) /\ Len(<<>>) = 0
    OBVIOUS
  <2>2. [i \in 1 .. Len(<<>>) |-> [k \in 1 .. <<>>[i].len |-> i]] = <<>>
    OBVIOUS
  <2> QED BY <2>2, FlattenEmpty DEF Bytes
<1>3. <<>> \in Seq(Nat) /\ <<>> \in Seq(Messages) /\ <<>> \in Seq(Entries) /\ Len(<<>>) = 0
  OBVIOUS
<1>4. ClientTypeOK
  BY <1>3 DEF Init, ClientTypeOK, Codes, Cleared, OldSession
<1>5. srv \in ServerStates
  BY <1>1, <1>3 DEF ServerInit, ServerStates, None
<1>6. WireTypeOK
  BY <1>4, <1>5, SetupFacts DEF Init, WireTypeOK, ClientTypeOK
<1>7. ServerOK
  BY <1>1, <1>2, <1>3 DEF Init, ServerOK, ServerInit
<1>8. ClientOK
  BY DEF Init, ClientOK, Running
<1>9. SealedOK
  BY <1>3 DEF Init, SealedOK
<1>10. CutOK
  <2> DEFINE cut == [n \in Nat |-> 0]
  <2>1. cut \in [Nat -> Nat] /\ cut[0] = 0
    OBVIOUS
  <2> HIDE DEF cut
  <2>2. Cutting(cut, 0, 0)
    <3>1. \A n \in 0 .. 0 - 1 : cut[n] <= cut[n + 1]
      OBVIOUS
    <3>2. \A n \in 0 .. 0 : cut[n] <= 0
      BY <2>1
    <3> QED BY <2>1, <3>1, <3>2 DEF Cutting
  <2>3. srv.seq = 0 /\ srv.sent = 0 /\ srv.bytes = <<>>
    BY <1>1 DEF ServerInit
  <2>4. CutServer(cut)
    BY <2>2, <2>3 DEF CutServer
  <2>5. CutWire(cut)
    BY DEF Init, CutWire
  <2>6. CutClient(cut)
    <3>1. SubSeq(<<>>, 1, 0) = <<>>
      BY SubSeqEmpty
    <3>2. sSeq = 0 /\ acc = <<>>
      BY DEF Init
    <3> QED BY <2>1, <2>3, <3>1, <3>2 DEF CutClient
  <2> QED BY <2>1, <2>4, <2>5, <2>6 DEF CutOK, Cuts
<1>11. ParseOK
  BY DEF Init, ParseOK, Running
<1>12. FinishedOK
  BY DEF Init, FinishedOK
<1>13. SessionOK
  <2>1. srv.stage = "wait"
    BY <1>1 DEF ServerInit
  <2>2. ~NewSession
    BY DEF Init, NewSession, Cleared, OldSession
  <2> QED BY <2>1, <2>2 DEF SessionOK, Agreement
<1>14. NoSessionOnFailure
  BY DEF Init, NoSessionOnFailure
<1> QED BY <1>4, <1>6, <1>7, <1>8, <1>9, <1>10, <1>11, <1>12, <1>13, <1>14 DEF HsInv

LEMMA HsInvNext ==
    ASSUME HsInv, Next
    PROVE  HsInv'
<1>1. /\ ClientTypeOK /\ WireTypeOK /\ ServerOK /\ ClientOK /\ SealedOK
      /\ CutOK /\ ParseOK /\ FinishedOK /\ SessionOK /\ NoSessionOnFailure
  BY DEF HsInv
<1>2. ClientTypeOK' /\ WireTypeOK'
  <2>1. Client => ClientTypeOK' /\ WireTypeOK'
    BY <1>1, CallTypes, RecvTypes, ParseTypes, FinishTypes DEF Client
  <2> QED BY <1>1, <2>1, ServerTypes, TransportTypes DEF Next
<1>3. ServerOK'
  BY <1>1, ServerOKClient, ServerOKServer, ServerOKTransport DEF Next
<1>4. ClientOK'
  BY <1>1, ClientOKClient, ClientOKOthers DEF Next
<1>5. SealedOK' /\ CutOK' /\ ParseOK'
  BY <1>1, SealedOKStep, CutOKStep, ParseOKStep
<1>6. FinishedOK' /\ SessionOK' /\ NoSessionOnFailure'
  BY <1>1, FinishedOKStep, SessionOKStep, NoSessionStep
<1> QED BY <1>2, <1>3, <1>4, <1>5, <1>6 DEF HsInv

LEMMA HsInvStutter ==
    ASSUME HsInv, UNCHANGED vars
    PROVE  HsInv'
<1>1. UNCHANGED <<setup, pc, ret, sess, tc, keys, sSeq, acc, accOff, got, toServer, toClient,
                  srv, hsWrote, ccs, faults>>
  BY DEF vars, bufVars, netVars
<1>2. ClientTypeOK' /\ WireTypeOK' /\ ServerOK' /\ SealedOK' /\ FinishedOK' /\ NoSessionOnFailure'
  BY <1>1 DEF HsInv, ClientTypeOK, WireTypeOK, ServerOK, SealedOK, FinishedOK,
              NoSessionOnFailure, MaxFaults
<1>3. SrvSecret' = SrvSecret /\ SrvFinished' = SrvFinished
  BY <1>1, SecretKept, FinishedKept
<1>4. ClientOK'
  BY <1>1 DEF HsInv, ClientOK, Running, HsSecret, Path
<1>5. CutOK'
  <2>1. \A cut : CutWire(cut) => CutWire(cut)'
    BY <1>1, <1>3 DEF CutWire
  <2> QED BY <1>1, <2>1, CutOKWire DEF HsInv
<1>6. ParseOK'
  <2>1. Parsed' = Parsed /\ LegalFlight' = LegalFlight /\ AccSz' = AccSz /\ Path' = Path
    BY <1>1 DEF Parsed, LegalFlight, AccSz, Path
  <2> QED BY <1>1, <1>3, <2>1 DEF HsInv, ParseOK, Running
<1>7. SessionOK'
  <2>1. SrvTranscript(SrvFinished + 1)' = SrvTranscript(SrvFinished + 1) /\ SrvApp' = SrvApp
    BY <1>1, <1>3 DEF SrvTranscript, SrvApp, AppSecret
  <2>2. NewSession' = NewSession /\ FlightExact' = FlightExact
    BY <1>1 DEF NewSession, FlightExact, LegalFlight, Path
  <2> QED BY <1>1, <2>1, <2>2 DEF HsInv, SessionOK, Agreement
<1> QED BY <1>2, <1>4, <1>5, <1>6, <1>7 DEF HsInv

(* HsInv holds of every handshake, of any number of servers, flights,      *)
(* records and faults.                                                     *)
THEOREM HandshakeInvariant == Spec => []HsInv
<1>1. Init => HsInv
  BY HsInvInit
<1>2. HsInv /\ [Next]_vars => HsInv'
  BY HsInvNext, HsInvStutter
<1> QED BY <1>1, <1>2, PTL DEF Spec

(* The drivers' types, and the life of their secrets: the handshake secret *)
(* is there between ServerHello and the return and at no other time.       *)
THEOREM ConnectTypes == Spec => []TypeOK
<1>1. HsInv => TypeOK
  BY DEF HsInv, ClientTypeOK, WireTypeOK, ServerStates, ClientOK, Running, TypeOK
<1> QED BY <1>1, HandshakeInvariant, PTL

(* Client and server agree on credential, transcript and application       *)
(* secrets whenever either of them completes.                              *)
THEOREM HandshakeAgreement == Spec => []Agreement
<1>1. HsInv => Agreement
  BY DEF HsInv, SessionOK
<1> QED BY <1>1, HandshakeInvariant, PTL

(* A session comes only out of the legal flight, whatever the server sends *)
(* and however it is cut into records.                                     *)
THEOREM LegalFlightOnly == Spec => []FlightExact
<1>1. HsInv => FlightExact
  BY DEF HsInv, SessionOK, FlightExact
<1> QED BY <1>1, HandshakeInvariant, PTL

LEMMA BufferIsPrefix ==
    ASSUME HsInv
    PROVE  ReassemblyFaithful
<1>1. ClientTypeOK /\ WireTypeOK /\ ServerOK /\ ClientOK /\ CutOK /\ ParseOK
  BY DEF HsInv
<1>2. srv.bytes \in Seq(Nat) /\ acc \in Seq(Nat) /\ accOff \in Nat /\ AccSz \in Nat
  BY <1>1, SetupFacts DEF WireTypeOK, ServerStates, ClientTypeOK
<1>3. CASE ~Running
  <2>1. acc = <<>> /\ accOff = 0
    BY <1>1, <1>3 DEF ClientOK, ClientTypeOK, Running
  <2>2. Len(<<>>) = 0 /\ SubSeq(<<>>, 1, 0) = <<>>
    BY SubSeqEmpty
  <2>3. SubSeq(srv.bytes, 1, 0) = <<>>
    <3>1. \A b : SubSeq(b, 1, 0) = <<>>
      BY SubSeqEmpty
    <3> QED BY <3>1
  <2>4. IsPrefix(acc, srv.bytes)
    BY <1>2, <2>1, <2>2, <2>3 DEF IsPrefix
  <2> QED BY <1>2, <2>1, <2>2, <2>4 DEF ReassemblyFaithful
<1>4. CASE Running
  <2>1. /\ Len(acc) \in 0 .. Len(srv.bytes) /\ Len(srv.bytes) \in Nat
        /\ \A p \in 1 .. Len(acc) : acc[p] = srv.bytes[p]
    BY <1>1, <1>4, AccIsPrefix DEF Running
  <2>2. Len(acc) \in 0 .. Len(acc) /\ Len(acc) \in Nat
    BY <2>1
  <2>3. SubSeq(acc, 1, Len(acc)) = SubSeq(srv.bytes, 1, Len(acc))
    <3>1. /\ SubSeq(acc, 1, Len(acc)) \in Seq(Nat) /\ Len(SubSeq(acc, 1, Len(acc))) = Len(acc)
          /\ \A p \in 1 .. Len(acc) : SubSeq(acc, 1, Len(acc))[p] = acc[p]
      BY <1>2, <2>2, SubSeqFromOne
    <3>2. /\ SubSeq(srv.bytes, 1, Len(acc)) \in Seq(Nat)
          /\ Len(SubSeq(srv.bytes, 1, Len(acc))) = Len(acc)
          /\ \A p \in 1 .. Len(acc) : SubSeq(srv.bytes, 1, Len(acc))[p] = srv.bytes[p]
      BY <1>2, <2>1, SubSeqFromOne
    <3> QED BY <2>1, <3>1, <3>2, SeqEqual
  <2>4. IsPrefix(acc, srv.bytes)
    BY <2>1, <2>3 DEF IsPrefix
  <2>5. accOff <= Len(acc) /\ Len(acc) <= AccSz /\ EndsAt(srv.bytes, accOff, Parsed)
        /\ Parsed \in Nat
    BY <1>1, <1>4 DEF ParseOK, Parsed, ClientOK, ClientTypeOK
  <2>6. ASSUME 0 < accOff, accOff < Len(acc)
        PROVE  acc[accOff] # acc[accOff + 1]
    <3>1. accOff \in 1 .. Len(acc) /\ accOff + 1 \in 1 .. Len(acc) /\ accOff < Len(srv.bytes)
      BY <1>2, <2>1, <2>6
    <3>2. srv.bytes[accOff] = Parsed /\ srv.bytes[accOff + 1] = Parsed + 1
      BY <1>2, <2>5, <2>6, <3>1 DEF EndsAt
    <3>3. acc[accOff] = Parsed /\ acc[accOff + 1] = Parsed + 1 /\ Parsed # Parsed + 1
      BY <2>1, <2>5, <3>1, <3>2
    <3> QED BY <3>3
  <2> QED BY <2>4, <2>5, <2>6 DEF ReassemblyFaithful
<1> QED BY <1>3, <1>4

(* The reassembly buffer holds a prefix of what the server wrote, never    *)
(* more than it has room for, and is parsed message by message.            *)
THEOREM Reassembly == Spec => []ReassemblyFaithful
BY BufferIsPrefix, HandshakeInvariant, PTL

LEMMA SealedAreUnique ==
    ASSUME HsInv
    PROVE  HsNonceUnique
<1>1. /\ hsWrote \in Seq(ClientRecs) /\ Len(hsWrote) <= 2
      /\ Len(hsWrote) = 2 => hsWrote[1].seq # hsWrote[2].seq
  BY DEF HsInv, WireTypeOK, SealedOK
<1> SUFFICES ASSUME NEW i \in DOMAIN hsWrote, NEW j \in DOMAIN hsWrote, i # j
             PROVE  hsWrote[i].seq # hsWrote[j].seq
  BY DEF HsNonceUnique
<1>2. i \in 1 .. Len(hsWrote) /\ j \in 1 .. Len(hsWrote) /\ Len(hsWrote) \in Nat
  BY <1>1
<1>3. Len(hsWrote) = 2 /\ ((i = 1 /\ j = 2) \/ (i = 2 /\ j = 1))
  <2>1. PICK n \in Nat : n = Len(hsWrote)
    BY <1>2
  <2>2. n <= 2 /\ i \in 1 .. n /\ j \in 1 .. n /\ i # j
    BY <1>1, <1>2, <2>1
  <2>3. n = 2 /\ ((i = 1 /\ j = 2) \/ (i = 2 /\ j = 1))
    BY <2>2
  <2> QED BY <2>1, <2>3
<1> QED BY <1>1, <1>3

(* One record at most is sealed with each number of the client's handshake *)
(* key.                                                                    *)
THEOREM HandshakeNonces == Spec => []HsNonceUnique
BY SealedAreUnique, HandshakeInvariant, PTL

(* No half-open session: a driver that fails leaves none established.      *)
THEOREM NothingHalfOpen == Spec => []NoSessionOnFailure
<1>1. HsInv => NoSessionOnFailure
  BY DEF HsInv
<1> QED BY <1>1, HandshakeInvariant, PTL

-----------------------------------------------------------------------------
(***************************************************************************)
(* HonestSucceeds.  While there is no fault, the sealed records under way  *)
(* to the client are those the server has sealed and the client not yet    *)
(* read, in order; the client is where the server's flight has it; and it  *)
(* goes back to ioRecv only if the message at accOff is not all there.     *)
(***************************************************************************)
SealedRec(rec) == rec.form = "sealed"

OnItsWay(rec, secret, pads) ==
    \/ rec.form = "ccs"
    \/ /\ SealedRec(rec) /\ rec.intact /\ rec.ctype = "handshake"
       /\ rec.key = <<"s", secret>> /\ rec.iv = <<"s", secret>>
       /\ rec.body.pad \in pads

(* The sealed records of q are those from number `from' to before `to'. *)
Unread(q, from, to) ==
    /\ \A i \in 1 .. Len(q) : SealedRec(q[i]) => q[i].seq \in from .. to - 1
    /\ \A i, j \in 1 .. Len(q) :
          (i < j /\ SealedRec(q[i]) /\ SealedRec(q[j])) => q[i].seq < q[j].seq
    /\ \A n \in from .. to - 1 :
          \E i \in 1 .. Len(q) : SealedRec(q[i]) /\ q[i].seq = n

Smooth ==
    /\ pc = "returned" => ret = "SUCCESS"
    /\ pc = "hello" =>
          /\ tc = <<srv.ch>> /\ srv.sh = [type |-> "SH", val |-> "orig"]
          /\ toClient # <<>> /\ toClient[1] = Answer(srv.hello)
    /\ Running => tc[1] = srv.ch /\ tc[2] = srv.sh
    /\ pc # "returned" =>
          /\ \A i \in 1 .. Len(toClient) :
                OnItsWay(toClient[i], SrvSecret, Pads) \/ (pc = "hello" /\ i = 1)
          /\ Unread(toClient, sSeq, srv.seq)

SmoothInv ==
    /\ pc = "call" => srv.stage = "wait"
    /\ (faults = 0 /\ srv.stage = "wait") =>
          IF pc = "hello" THEN /\ toServer = <<ClientHello("orig"), Plain("ccs")>>
                               /\ tc = <<Entry(ClientHello("orig"))>>
                          ELSE toServer = <<>>
    /\ srv.stage # "wait" => \A k \in 1 .. Len(srv.flight) : srv.flight[k].len >= HdrSz
    /\ pc = "flight" => ~MsgThere
    /\ faults = 0 /\ Honest => Smooth

(* Lemmas about the records under way *)
LEMMA UnreadHead ==
    ASSUME NEW S, NEW q \in Seq(S), q # <<>>, NEW from \in Nat, NEW to \in Nat,
           Unread(q, from, to), SealedRec(Head(q))
    PROVE  Head(q).seq = from
<1>1. Len(q) \in Nat /\ Head(q) = q[1] /\ 1 \in 1 .. Len(q)
  BY EmptySeq
<1>2. q[1].seq \in from .. to - 1
  BY <1>1 DEF Unread
<1>3. from \in from .. to - 1
  BY <1>2
<1>4. PICK i \in 1 .. Len(q) : SealedRec(q[i]) /\ q[i].seq = from
  BY <1>3 DEF Unread
<1>5. CASE i = 1
  BY <1>1, <1>4, <1>5
<1>6. CASE i # 1
  <2>1. 1 < i
    BY <1>1, <1>6
  <2>2. q[1].seq < q[i].seq
    BY <1>1, <1>4, <2>1 DEF Unread
  <2> QED BY <1>2, <1>4, <2>2
<1> QED BY <1>5, <1>6

LEMMA UnreadTail ==
    ASSUME NEW S, NEW q \in Seq(S), q # <<>>, NEW from \in Nat, NEW to \in Nat,
           Unread(q, from, to), NEW next \in Nat,
           next = IF SealedRec(Head(q)) THEN from + 1 ELSE from
    PROVE  Unread(Tail(q), next, to)
<1> DEFINE t == Tail(q)
<1>1. /\ Len(q) \in Nat /\ Head(q) = q[1] /\ 1 \in 1 .. Len(q)
      /\ Len(t) = Len(q) - 1 /\ \A j \in 1 .. Len(t) : t[j] = q[j + 1]
  <2>1. Len(q) \in Nat \ {0} /\ Head(q) = q[1]
    BY EmptySeq
  <2>2. t \in Seq(S) /\ Len(t) = Len(q) - 1 /\ \A j \in 1 .. Len(t) : t[j] = q[j + 1]
    BY HeadTailProperties
  <2> QED BY <2>1, <2>2
<1> HIDE DEF t
<1>2. \A j \in 1 .. Len(t) : j + 1 \in 1 .. Len(q) /\ 1 < j + 1
  BY <1>1
<1>3. SealedRec(q[1]) => q[1].seq = from
  BY <1>1, UnreadHead
<1>4. ASSUME NEW i \in 1 .. Len(t), SealedRec(t[i])
      PROVE  t[i].seq \in next .. to - 1
  <2>1. t[i] = q[i + 1] /\ i + 1 \in 1 .. Len(q) /\ 1 < i + 1
    BY <1>1, <1>2
  <2>2. q[i + 1].seq \in from .. to - 1
    BY <1>4, <2>1 DEF Unread
  <2>3. SealedRec(q[1]) => q[1].seq < q[i + 1].seq
    BY <1>1, <1>4, <2>1 DEF Unread
  <2>4. CASE SealedRec(q[1])
    <3>1. from < q[i + 1].seq /\ next = from + 1
      BY <1>1, <1>3, <2>3, <2>4
    <3> QED BY <2>1, <2>2, <3>1
  <2>5. CASE ~SealedRec(q[1])
    BY <1>1, <2>1, <2>2, <2>5
  <2> QED BY <2>4, <2>5
<1>5. ASSUME NEW i \in 1 .. Len(t), NEW j \in 1 .. Len(t), i < j, SealedRec(t[i]), SealedRec(t[j])
      PROVE  t[i].seq < t[j].seq
  <2>1. t[i] = q[i + 1] /\ t[j] = q[j + 1] /\ i + 1 \in 1 .. Len(q) /\ j + 1 \in 1 .. Len(q)
        /\ i + 1 < j + 1
    BY <1>1, <1>2, <1>5
  <2> QED BY <1>5, <2>1 DEF Unread
<1>6. ASSUME NEW n \in next .. to - 1
      PROVE  \E i \in 1 .. Len(t) : SealedRec(t[i]) /\ t[i].seq = n
  <2>1. n \in from .. to - 1 /\ (SealedRec(q[1]) => n # from)
    BY <1>1
  <2>2. PICK i \in 1 .. Len(q) : SealedRec(q[i]) /\ q[i].seq = n
    BY <2>1 DEF Unread
  <2>3. i # 1
    BY <1>3, <2>1, <2>2
  <2>4. i - 1 \in 1 .. Len(t) /\ (i - 1) + 1 = i
    BY <1>1, <2>3
  <2>5. t[i - 1] = q[i]
    BY <1>1, <2>4
  <2> QED BY <2>2, <2>4, <2>5
<1>7. Unread(t, next, to)
  BY <1>4, <1>5, <1>6 DEF Unread
<1> QED BY <1>7 DEF t

LEMMA UnreadAppend ==
    ASSUME NEW S, NEW q \in Seq(S), NEW rec \in S, NEW from \in Nat, NEW to \in Nat, from <= to,
           Unread(q, from, to), NEW next \in Nat,
           \/ ~SealedRec(rec) /\ next = to
           \/ SealedRec(rec) /\ rec.seq = to /\ next = to + 1
    PROVE  Unread(Append(q, rec), from, next)
<1> DEFINE a == Append(q, rec)
<1>1. /\ Len(q) \in Nat /\ Len(a) = Len(q) + 1 /\ a[Len(q) + 1] = rec
      /\ \A j \in 1 .. Len(q) : a[j] = q[j]
  BY AppendProperties
<1> HIDE DEF a
<1>2. \A j \in 1 .. Len(a) : j \in 1 .. Len(q) \/ j = Len(q) + 1
  BY <1>1
<1>3. ASSUME NEW i \in 1 .. Len(a), SealedRec(a[i])
      PROVE  /\ a[i].seq \in from .. next - 1
             /\ i \in 1 .. Len(q) => a[i] = q[i] /\ a[i].seq < to
             /\ i = Len(q) + 1 => a[i] = rec /\ a[i].seq = to
  <2>1. CASE i \in 1 .. Len(q)
    <3>1. a[i] = q[i] /\ i # Len(q) + 1
      BY <1>1, <2>1
    <3>2. q[i].seq \in from .. to - 1
      BY <1>3, <2>1, <3>1 DEF Unread
    <3> QED BY SMTT(60), <3>1, <3>2
  <2>2. CASE i = Len(q) + 1
    <3>1. a[i] = rec /\ rec.seq = to /\ next = to + 1 /\ i \notin 1 .. Len(q)
      BY <1>1, <1>3, <2>2
    <3> QED BY <3>1
  <2> QED BY <1>2, <2>1, <2>2
<1>4. ASSUME NEW i \in 1 .. Len(a), NEW j \in 1 .. Len(a), i < j, SealedRec(a[i]), SealedRec(a[j])
      PROVE  a[i].seq < a[j].seq
  <2>1. i \in 1 .. Len(q)
    BY <1>1, <1>4
  <2>2. a[i] = q[i] /\ a[i].seq < to
    BY <1>3, <1>4, <2>1
  <2>3. CASE j \in 1 .. Len(q)
    BY <1>3, <1>4, <2>1, <2>2, <2>3 DEF Unread
  <2>4. CASE j = Len(q) + 1
    <3>1. a[j].seq = to
      BY <1>3, <1>4, <2>4
    <3> QED BY <2>2, <3>1
  <2> QED BY <1>2, <2>3, <2>4
<1>5. ASSUME NEW n \in from .. next - 1
      PROVE  \E i \in 1 .. Len(a) : SealedRec(a[i]) /\ a[i].seq = n
  <2>1. CASE n \in from .. to - 1
    <3>1. PICK i \in 1 .. Len(q) : SealedRec(q[i]) /\ q[i].seq = n
      BY <2>1 DEF Unread
    <3>2. i \in 1 .. Len(a) /\ a[i] = q[i]
      BY <1>1
    <3> QED BY <3>1, <3>2
  <2>2. CASE n = to /\ SealedRec(rec) /\ rec.seq = to
    <3>1. Len(q) + 1 \in 1 .. Len(a)
      BY <1>1
    <3> QED BY <1>1, <2>2, <3>1
  <2>3. n \in from .. to - 1 \/ (n = to /\ SealedRec(rec) /\ rec.seq = to)
    OBVIOUS
  <2> QED BY <2>1, <2>2, <2>3
<1>6. Unread(a, from, next)
  BY <1>3, <1>4, <1>5 DEF Unread
<1> QED BY <1>6 DEF a

-----------------------------------------------------------------------------
(* What an honest server does, the client does not refuse. *)
CalmOK == /\ ClientTypeOK /\ WireTypeOK /\ ServerOK /\ ClientOK /\ CutOK /\ ParseOK
          /\ SmoothInv

LEMMA PadsBounded ==
    ASSUME setup \in DOMAIN Setups
    PROVE  MaxPad \in Pads /\ \A p \in Pads : p <= MaxPad
<1>1. \E p \in Pads : \A q \in Pads : q <= p
  BY ConnectAssumption DEF Pads
<1> QED BY <1>1, Zenon DEF MaxPad

LEMMA HonestFlight ==
    ASSUME WireTypeOK, Honest
    PROVE  /\ srv.stage # "wait" /\ srv.cred = "right" /\ srv.hello.check = "SUCCESS"
           /\ srv.hello.pskSelected = (Path = "psk") /\ Fits(srv.bytes)
           /\ Len(srv.flight) = Len(LegalFlight)
           /\ \A k \in 1 .. Len(srv.flight) :
                 srv.flight[k].type = LegalFlight[k] /\ srv.flight[k].check = "SUCCESS"
<1>1. /\ srv.stage # "wait" /\ srv.cred = "right" /\ srv.hello.check = "SUCCESS"
      /\ srv.hello.pskSelected = (Path = "psk") /\ Fits(srv.bytes)
      /\ Types(srv.flight) = LegalFlight
      /\ \A k \in DOMAIN srv.flight : srv.flight[k].check = "SUCCESS"
  BY DEF Honest
<1>2. srv.flight \in Seq(Messages) /\ Len(srv.flight) \in Nat
      /\ DOMAIN srv.flight = 1 .. Len(srv.flight)
  BY DEF WireTypeOK, ServerStates
<1>3. Types(srv.flight) = [k \in 1 .. Len(srv.flight) |-> srv.flight[k].type]
  BY DEF Types
<1>4. Len(Types(srv.flight)) = Len(srv.flight)
  BY <1>2, <1>3
<1>5. \A k \in 1 .. Len(srv.flight) : Types(srv.flight)[k] = srv.flight[k].type
  BY <1>3
<1> QED BY <1>1, <1>2, <1>4, <1>5

LEMMA OrderLegal ==
    ASSUME setup \in DOMAIN Setups, NEW n \in Nat, n < Len(LegalFlight),
           got = {LegalFlight[k] : k \in 1 .. n}
    PROVE  Order(LegalFlight[n + 1]) = "SUCCESS"
<1>1. CASE Path = "psk"
  <2>1. LegalFlight = <<"EE", "FIN">> /\ n \in {0, 1}
    BY <1>1 DEF LegalFlight
  <2>2. CASE n = 0
    <3>1. got = {} /\ LegalFlight[n + 1] = "EE"
      BY <2>1, <2>2
    <3> QED BY <1>1, <3>1 DEF Order, PskOrder
  <2>3. CASE n = 1
    <3>1. got = {"EE"} /\ LegalFlight[n + 1] = "FIN"
      BY <2>1, <2>3
    <3> QED BY <1>1, <3>1 DEF Order, PskOrder
  <2> QED BY <2>1, <2>2, <2>3
<1>2. CASE Path = "cert"
  <2>1. LegalFlight = <<"EE", "CERT", "CV", "FIN">> /\ n \in {0, 1, 2, 3}
    BY <1>2 DEF LegalFlight
  <2>2. Order(LegalFlight[n + 1]) = FlightOrder(LegalFlight[n + 1])
    BY <1>2 DEF Order
  <2>3. CASE n = 0
    <3>1. got = {} /\ LegalFlight[n + 1] = "EE"
      BY <2>1, <2>3
    <3> QED BY <2>2, <3>1 DEF FlightOrder
  <2>4. CASE n = 1
    <3>1. got = {"EE"} /\ LegalFlight[n + 1] = "CERT"
      BY <2>1, <2>4
    <3> QED BY <2>2, <3>1 DEF FlightOrder
  <2>5. CASE n = 2
    <3>1. 1 .. 2 = {1, 2}
      OBVIOUS
    <3>2. got = {"EE", "CERT"} /\ LegalFlight[n + 1] = "CV"
      BY <2>1, <2>5, <3>1
    <3> QED BY <2>2, <3>2 DEF FlightOrder
  <2>6. CASE n = 3
    <3>1. 1 .. 3 = {1, 2, 3}
      OBVIOUS
    <3>2. got = {"EE", "CERT", "CV"} /\ LegalFlight[n + 1] = "FIN"
      BY <2>1, <2>6, <3>1
    <3> QED BY <2>2, <3>2 DEF FlightOrder
  <2> QED BY <2>1, <2>3, <2>4, <2>5, <2>6
<1> QED BY <1>1, <1>2, SetupFacts

(* The message at accOff is refused neither for its place nor its contents *)
(* nor for what it claims of the transcript.                               *)
LEMMA HonestMessage ==
    ASSUME CalmOK, faults = 0, Honest, pc = "parse", HeaderThere
    PROVE  MessageError = "SUCCESS" /\ ~NeverFits
<1>0. /\ ClientTypeOK /\ WireTypeOK /\ ServerOK /\ ClientOK /\ CutOK /\ ParseOK /\ Smooth
      /\ Running /\ setup \in DOMAIN Setups
  BY DEF CalmOK, SmoothInv, Running, ClientTypeOK
<1>1. PICK n \in Nat : n = Parsed
  BY <1>0, NextMessage
<1>2. /\ Number = n + 1 /\ n + 1 \in 1 .. Len(srv.flight) /\ Msg = srv.flight[n + 1]
      /\ EndsAt(srv.bytes, accOff + Msg.len, n + 1)
  BY <1>0, <1>1, NextMessage DEF Msg
<1>3. /\ Len(srv.flight) = Len(LegalFlight)
      /\ Msg.type = LegalFlight[n + 1] /\ Msg.check = "SUCCESS"
      /\ srv.cred = "right" /\ Fits(srv.bytes)
  BY <1>0, <1>2, HonestFlight
<1>4. PICK len \in {2, 4} : len = Len(LegalFlight)
  BY <1>0, LegalFlightFacts
<1>5. Order(Msg.type) = "SUCCESS"
  <2>1. n < Len(LegalFlight)
    BY <1>2, <1>3, <1>4
  <2>2. got = {LegalFlight[k] : k \in 1 .. n}
    BY <1>0, <1>1 DEF ParseOK
  <2> QED BY <1>0, <1>3, <2>1, <2>2, OrderLegal
<1>6. tc[1] = srv.ch /\ tc[2] = srv.sh
  BY <1>0 DEF Smooth
<1>7. tc = SrvTranscript(n + 1)
  <2>1. tc \in Seq(Entries) /\ Len(tc) = n + 2
    BY <1>0, <1>1 DEF ClientTypeOK, Parsed, ClientOK
  <2>2. \A k \in 1 .. n : tc[k + 2] = FlightEntry(srv.flight[k])
    BY <1>0, <1>1 DEF ParseOK
  <2> QED BY <1>6, <2>1, <2>2, TranscriptAt
<1>8. keys = SrvSecret
  BY <1>0, <1>3, <1>6 DEF ClientOK, SrvSecret
<1>9. ClaimError = "SUCCESS"
  BY <1>2, <1>3, <1>7, <1>8 DEF ClaimError
<1>10. ~NeverFits
  <2>1. PICK o \in Nat, b \in Nat, z \in Nat :
           o = accOff + Msg.len /\ b = Len(srv.bytes) /\ z = AccSz
    <3>1. Msg.len \in Nat
      BY <1>0, NextMessage
    <3> QED BY SMTT(60), <1>0, <3>1, SetupFacts DEF ClientTypeOK, WireTypeOK, ServerStates
  <2>2. o <= b
    BY <1>2, <2>1 DEF EndsAt
  <2>3. Path = "psk" => b + 1 + MaxPad <= z /\ MaxPad \in Nat
    BY <1>0, <1>3, <2>1, PadsBounded, SetupFacts DEF Fits
  <2>4. Path = "psk" => ~(o > z)
    BY <2>2, <2>3
  <2> QED BY <2>1, <2>4 DEF NeverFits
<1> QED BY <1>3, <1>5, <1>9, <1>10 DEF MessageError

(* When the whole flight has been put together, it has been parsed. *)
LEMMA NotShort ==
    ASSUME CalmOK, Honest, pc = "flight"
    PROVE  Len(acc) # Len(srv.bytes)
<1> SUFFICES ASSUME Len(acc) = Len(srv.bytes) PROVE FALSE
  OBVIOUS
<1>0. /\ ClientTypeOK /\ WireTypeOK /\ ServerOK /\ ClientOK /\ CutOK /\ ParseOK
      /\ ~MsgThere /\ Running /\ setup \in DOMAIN Setups
  BY DEF CalmOK, SmoothInv, Running, ClientTypeOK
<1>1. PICK n \in Nat : n = Parsed
  BY <1>0 DEF ClientOK, ClientTypeOK, Parsed
<1>2. PICK len \in {2, 4} : len = Len(LegalFlight)
  BY <1>0, LegalFlightFacts
<1>3. n # len /\ n <= len /\ EndsAt(srv.bytes, accOff, n)
  BY <1>0, <1>1, <1>2 DEF ParseOK
<1>4. Len(srv.flight) = len
  BY <1>0, <1>2, HonestFlight
<1>5. WellCut(srv.flight, srv.bytes)
  <2>1. srv.flight \in Seq(Messages) /\ srv.bytes = Bytes(srv.flight)
    BY <1>0 DEF WireTypeOK, ServerStates, ServerOK
  <2> QED BY <2>1, BytesWellCut
<1>6. PICK o \in Nat, b \in Nat, h \in Nat : o = accOff /\ b = Len(srv.bytes) /\ h = HdrSz
  <2>1. accOff \in Nat /\ HdrSz \in Nat /\ srv.bytes \in Seq(Nat)
    BY <1>0, SetupFacts DEF ClientTypeOK, WireTypeOK, ServerStates
  <2>2. Len(srv.bytes) \in Nat
    BY <2>1
  <2> QED BY <2>1, <2>2
<1>7. CASE o = b
  <2>1. EndsAt(srv.bytes, b, len) /\ EndsAt(srv.bytes, b, n)
    BY <1>3, <1>4, <1>5, <1>6, <1>7 DEF WellCut
  <2> QED BY <1>3, <2>1 DEF EndsAt
<1>8. CASE o # b
  <2>1. o < b
    BY <1>3, <1>6, <1>8 DEF EndsAt
  <2>2. n < len /\ EndsAt(srv.bytes, o + srv.flight[n + 1].len, n + 1)
    BY <1>3, <1>4, <1>5, <1>6, <2>1 DEF WellCut
  <2>3. n + 1 \in 1 .. Len(srv.flight)
    BY <1>4, <2>2
  <2>4. PICK l \in Nat : l = srv.flight[n + 1].len
    <3>1. srv.flight \in Seq(Messages)
      BY <1>0 DEF WireTypeOK, ServerStates
    <3> QED BY <2>3, <3>1, MessageLength
  <2>5. l >= h
    BY <1>6, <2>3, <2>4, HonestFlight DEF CalmOK, SmoothInv
  <2>6. o + l <= b
    BY <1>6, <2>2, <2>4 DEF EndsAt
  <2>7. HeaderThere
    BY <1>6, <2>5, <2>6 DEF HeaderThere
  <2>8. Msg = srv.flight[n + 1]
    BY <1>0, <1>1, <2>7, NextMessage DEF Msg
  <2> QED BY <1>0, <1>6, <2>4, <2>6, <2>7, <2>8 DEF MsgThere
<1> QED BY <1>7, <1>8

(* All that the server has sealed has been read: the buffer holds all that *)
(* it has sent.                                                            *)
LEMMA AllRead ==
    ASSUME ClientTypeOK, WireTypeOK, ServerOK, CutOK, pc # "returned",
           Unread(toClient, sSeq, srv.seq), toClient = <<>>
    PROVE  Len(acc) = srv.sent
<1>1. PICK cut \in [Nat -> Nat] : Cuts(cut)
  BY DEF CutOK
<1>2. PICK q \in Nat, s \in Nat, t \in Nat : q = sSeq /\ s = srv.seq /\ t = srv.sent
  BY DEF ClientTypeOK, WireTypeOK, ServerStates
<1>3. q <= s /\ acc = SubSeq(srv.bytes, 1, cut[q]) /\ cut[s] = t
  BY <1>1, <1>2 DEF Cuts, CutClient, CutServer, Cutting
<1>4. q = s
  <2> SUFFICES ASSUME q # s PROVE FALSE
    OBVIOUS
  <2>1. q \in q .. s - 1
    BY <1>3
  <2>2. PICK i \in 1 .. Len(toClient) : toClient[i].seq = q
    BY <1>2, <2>1 DEF Unread
  <2> QED BY <2>2
<1>5. srv.bytes \in Seq(Nat) /\ t \in 0 .. Len(srv.bytes)
  BY <1>2 DEF ServerOK, WireTypeOK, ServerStates
<1>6. acc = SubSeq(srv.bytes, 1, t)
  BY <1>3, <1>4
<1> QED BY SMTT(60), <1>2, <1>5, <1>6, SubSeqFromOne

(* A record on its way is opened, and there is room for it. *)
LEMMA HonestRecord ==
    ASSUME CalmOK, faults = 0, Honest, pc = "flight", toClient # <<>>,
           Head(toClient).form # "ccs"
    PROVE  FlightError(Head(toClient)) = "SUCCESS"
<1> DEFINE rec == Head(toClient)
<1>0. /\ ClientTypeOK /\ WireTypeOK /\ ServerOK /\ ClientOK /\ CutOK /\ ParseOK /\ Smooth
      /\ Running /\ setup \in DOMAIN Setups
  BY DEF CalmOK, SmoothInv, Running, ClientTypeOK
<1>1. /\ rec = toClient[1] /\ 1 \in 1 .. Len(toClient)
      /\ toClient \in Seq(AnswerRecs \cup PlainRecs \cup ServerRecs)
      /\ rec \in AnswerRecs \cup PlainRecs \cup ServerRecs
  <2>1. toClient \in Seq(AnswerRecs \cup PlainRecs \cup ServerRecs)
    BY <1>0 DEF WireTypeOK
  <2>2. rec = toClient[1] /\ 1 \in 1 .. Len(toClient)
    BY <2>1, EmptySeq
  <2> QED BY <1>0, <2>1, <2>2, TailType
<1>2. /\ OnItsWay(rec, SrvSecret, Pads) /\ Unread(toClient, sSeq, srv.seq)
      /\ tc[1] = srv.ch /\ tc[2] = srv.sh
  BY <1>0, <1>1 DEF Smooth, Running
<1>3. sSeq \in Nat /\ srv.seq \in Nat
  BY <1>0 DEF ClientTypeOK, WireTypeOK, ServerStates
<1> HIDE DEF rec
<1>4. /\ SealedRec(rec) /\ rec.intact /\ rec.ctype = "handshake"
      /\ rec.key = <<"s", SrvSecret>> /\ rec.iv = <<"s", SrvSecret>> /\ rec.body.pad \in Pads
  BY <1>2 DEF OnItsWay, rec
<1>5. rec.seq = sSeq
  BY <1>1, <1>2, <1>3, <1>4, UnreadHead DEF rec
<1>6. srv.cred = "right" /\ Fits(srv.bytes)
  BY <1>0, HonestFlight
<1>7. keys = SrvSecret
  BY <1>0, <1>2, <1>6 DEF ClientOK, SrvSecret
<1>8. rec \in ServerRecs /\ rec.form = "sealed"
  BY <1>1, <1>4 DEF SealedRec, AnswerRecs, PlainRecs
<1>9. Opened(rec) = "SUCCESS"
  BY <1>4, <1>5, <1>7, <1>8 DEF Opened, Unprotect, TrafficKey
<1>10. Len(acc) + Len(rec.body.bytes) <= Len(srv.bytes)
  <2>1. PICK cut \in [Nat -> Nat] : Cuts(cut)
    BY <1>0 DEF CutOK
  <2>2. CutRec(cut, rec, SrvSecret, srv.bytes, srv.seq)
    BY <1>1, <2>1 DEF Cuts, CutWire
  <2>3. PICK q \in Nat, s \in Nat, t \in Nat, b \in Seq(Nat) :
           q = sSeq /\ s = srv.seq /\ t = srv.sent /\ b = srv.bytes
    BY <1>0 DEF ClientTypeOK, WireTypeOK, ServerStates
  <2>4. q < s /\ rec.body.bytes = SubSeq(b, cut[q] + 1, cut[q + 1])
        /\ acc = SubSeq(b, 1, cut[q])
    BY <1>0, <1>5, <1>8, <2>1, <2>2, <2>3 DEF CutRec, Cuts, CutClient, Running
  <2>5. q \in 0 .. s - 1 /\ q + 1 \in 0 .. s
    BY <2>4
  <2>6. cut[q] <= cut[q + 1] /\ cut[q + 1] <= t
    BY <2>1, <2>3, <2>5 DEF Cuts, CutServer, Cutting
  <2>7. PICK m \in Nat, n \in Nat : m = cut[q] /\ n = cut[q + 1]
    BY SMTT(120), <2>1, <2>3
  <2>8. Len(b) \in Nat /\ t <= Len(b)
    BY <1>0, <2>3 DEF ServerOK
  <2>9. m \in 0 .. Len(b) /\ n \in m .. Len(b)
    <3>1. m <= n /\ n <= t
      BY <2>6, <2>7
    <3>2. PICK k \in Nat : k = Len(b) /\ t <= k
      BY <2>8
    <3>3. m \in Nat /\ n \in Nat /\ t \in Nat
      BY <2>3, <2>7
    <3>4. m \in 0 .. k /\ n \in m .. k
      BY SMTT(60), <3>1, <3>2, <3>3
    <3> QED BY <3>2, <3>4
  <2>10. Len(acc) = m /\ Len(rec.body.bytes) = n - m
    <3>1. acc = SubSeq(b, 1, m) /\ rec.body.bytes = SubSeq(b, m + 1, n)
      BY <2>4, <2>7
    <3>2. b \in Seq(Nat)
      BY <2>3
    <3>3. Len(SubSeq(b, 1, m)) = m
      BY <2>9, <3>2, SubSeqFromOne
    <3>4. Len(SubSeq(b, m + 1, n)) = n - m
      BY <2>9, <3>2, SubSeqPiece
    <3> QED BY <3>1, <3>3, <3>4
  <2> QED BY <2>3, <2>9, <2>10
<1>11. ~NoRoom(rec)
  <2>1. PICK a \in Nat, r \in Nat, b \in Nat, z \in Nat, p \in Nat :
           a = Len(acc) /\ r = Len(rec.body.bytes) /\ b = Len(srv.bytes) /\ z = AccSz
           /\ p = rec.body.pad
    <3>1. /\ acc \in Seq(Nat) /\ srv.bytes \in Seq(Nat) /\ rec.body.bytes \in Seq(Nat)
          /\ rec.body.pad \in Nat /\ AccSz \in Nat
      BY <1>0, <1>8, SetupFacts DEF ClientTypeOK, WireTypeOK, ServerStates, ServerRecs
    <3>2. Len(acc) \in Nat /\ Len(srv.bytes) \in Nat /\ Len(rec.body.bytes) \in Nat
      BY <3>1
    <3> QED BY <3>1, <3>2
  <2>2. p <= MaxPad /\ MaxPad \in Nat
    BY <1>0, <1>4, <2>1, PadsBounded, SetupFacts
  <2>3. a + r <= b
    BY <1>10, <2>1
  <2>4. IF Path = "psk" THEN b + 1 + MaxPad <= z ELSE b <= z
    BY <1>6, <2>1 DEF Fits
  <2>5. IF Path = "psk" THEN ~(r + 1 + p > z - a) ELSE ~(a + r > z)
    BY <2>2, <2>3, <2>4
  <2> QED BY <2>1, <2>5 DEF NoRoom
<1>12. FramingError(rec) = "SUCCESS"
  BY <1>8 DEF FramingError
<1>13. FlightError(rec) = "SUCCESS"
  BY <1>4, <1>8, <1>9, <1>11, <1>12 DEF FlightError
<1> QED BY <1>13 DEF rec

LEMMA HonestHello ==
    ASSUME CalmOK, faults = 0, Honest, pc = "hello"
    PROVE  /\ toClient # <<>> /\ Head(toClient) = Answer(srv.hello)
           /\ HelloError(Head(toClient)) = "SUCCESS" /\ Head(toClient).form = "hello"
           /\ Entry(Head(toClient)) = srv.sh
<1>0. WireTypeOK /\ Smooth
  BY DEF CalmOK, SmoothInv
<1>1. toClient # <<>> /\ toClient[1] = Answer(srv.hello) /\ srv.sh = [type |-> "SH", val |-> "orig"]
  BY <1>0 DEF Smooth
<1>2. Head(toClient) = Answer(srv.hello)
  <2>1. toClient \in Seq(AnswerRecs \cup PlainRecs \cup ServerRecs)
    BY <1>0 DEF WireTypeOK
  <2> QED BY <1>1, <2>1, EmptySeq
<1>3. srv.hello.check = "SUCCESS" /\ srv.hello.pskSelected = (Path = "psk")
  BY DEF Honest
<1>4. HelloError(Answer(srv.hello)) = "SUCCESS" /\ Answer(srv.hello).form = "hello"
  BY <1>3 DEF HelloError, FramingError, Answer
<1>5. Entry(Answer(srv.hello)) = srv.sh
  BY <1>1 DEF Entry, Answer
<1> QED BY <1>1, <1>2, <1>4, <1>5

(* So without a fault the driver does not fail. *)
LEMMA NoFailing ==
    ASSUME CalmOK, Client, faults' = 0, faults = 0, Honest
    PROVE  \/ SkipCcs /\ pc = "flight"
           \/ RecvServerHello /\ HelloError(Head(toClient)) = "SUCCESS"
           \/ RecvFlight /\ FlightError(Head(toClient)) = "SUCCESS"
           \/ ParseMore
           \/ ParseMessage /\ MessageError = "SUCCESS"
           \/ Establish
<1>0. pc # "call" /\ WireTypeOK /\ ClientTypeOK /\ ServerOK /\ ClientOK /\ CutOK /\ ParseOK
      /\ Smooth
  BY HonestFlight DEF CalmOK, SmoothInv
<1>1. ~(ConnectRefused \/ SendClientHello \/ SendClientHelloFails)
  BY <1>0 DEF ConnectRefused, SendClientHello, SendClientHelloFails
<1>2. ~(CallFails \/ FinishFails \/ EstablishFails)
  BY DEF CallFails, FinishFails, EstablishFails, Fault
<1>3. ~IoRecvEnds
  <2> SUFFICES ASSUME IoRecvEnds PROVE FALSE
    OBVIOUS
  <2>1. pc \in {"hello", "flight"} /\ toClient = <<>> /\ srv.sent = Len(srv.bytes)
    BY DEF IoRecvEnds
  <2>2. pc = "flight"
    BY <2>1, HonestHello
  <2>3. Unread(toClient, sSeq, srv.seq)
    BY <1>0, <2>2 DEF Smooth
  <2> QED BY <1>0, <2>1, <2>2, <2>3, AllRead, NotShort
<1>4. ~ParseNeverFits
  BY HonestMessage DEF ParseNeverFits
<1>5. SkipCcs => pc = "flight"
  BY HonestHello DEF SkipCcs
<1>6. RecvServerHello => HelloError(Head(toClient)) = "SUCCESS"
  BY HonestHello DEF RecvServerHello
<1>7. RecvFlight => FlightError(Head(toClient)) = "SUCCESS"
  BY HonestRecord DEF RecvFlight
<1>8. ParseMessage => MessageError = "SUCCESS"
  BY HonestMessage DEF ParseMessage, MsgThere
<1> QED BY Zenon, <1>1, <1>2, <1>3, <1>4, <1>5, <1>6, <1>7, <1>8 DEF Client

-----------------------------------------------------------------------------
(* SmoothInv is preserved.  The client's steps. *)

LEMMA SmoothHello ==
    ASSUME CalmOK, faults = 0, Honest, RecvServerHello,
           HelloError(Head(toClient)) = "SUCCESS"
    PROVE  /\ tc' = <<srv.ch, srv.sh>> /\ tc'[1] = srv.ch /\ tc'[2] = srv.sh
           /\ acc' = <<>> /\ accOff' = 0
<1>1. /\ pc = "hello" /\ tc' = Append(tc, Entry(Head(toClient)))
      /\ UNCHANGED <<acc, accOff>>
  BY DEF RecvServerHello
<1>2. Smooth /\ ClientOK /\ srv.stage # "wait" /\ ServerOK
  BY HonestFlight DEF CalmOK, SmoothInv
<1>3. tc = <<srv.ch>> /\ Entry(Head(toClient)) = srv.sh
  BY <1>1, <1>2, HonestHello DEF Smooth
<1>4. acc = <<>> /\ accOff = 0
  BY <1>1, <1>2 DEF ClientOK
<1>5. ASSUME NEW a, NEW b
      PROVE  Append(<<a>>, b) = <<a, b>> /\ <<a, b>>[1] = a /\ <<a, b>>[2] = b
  <2>1. <<a>> \in Seq({a, b}) /\ Len(<<a>>) = 1 /\ <<a>>[1] = a
    OBVIOUS
  <2>2. PICK s \in Seq({a, b}) : s = <<a>> /\ Len(s) = 1 /\ s[1] = a
    BY <2>1
  <2> DEFINE t == Append(s, b)
  <2>3. b \in {a, b}
    OBVIOUS
  <2>4. t \in Seq({a, b}) /\ Len(t) = 2 /\ t[1] = a /\ t[2] = b
    BY <2>2, <2>3, AppendProperties
  <2>5. t = <<t[1], t[2]>>
    <3> HIDE DEF t
    <3> QED BY <2>4, PairSeq
  <2> QED BY <2>2, <2>4, <2>5
<1>6. tc' = Append(<<srv.ch>>, srv.sh)
  BY <1>1, <1>3, Zenon
<1>7. tc' = <<srv.ch, srv.sh>> /\ tc'[1] = srv.ch /\ tc'[2] = srv.sh
  BY <1>5, <1>6
<1> QED BY <1>1, <1>4, <1>7

(* What is behind the record that is read. *)
LEMMA SmoothTail ==
    ASSUME CalmOK, faults = 0, Honest, toClient # <<>>, pc \in {"hello", "flight"},
           NEW next \in Nat,
           next = IF SealedRec(Head(toClient)) THEN sSeq + 1 ELSE sSeq
    PROVE  /\ \A i \in 1 .. Len(Tail(toClient)) : OnItsWay(Tail(toClient)[i], SrvSecret, Pads)
           /\ Unread(Tail(toClient), next, srv.seq)
<1>1. Smooth /\ WireTypeOK /\ ClientTypeOK
  BY DEF CalmOK, SmoothInv
<1>2. /\ \A i \in 1 .. Len(toClient) :
            OnItsWay(toClient[i], SrvSecret, Pads) \/ (pc = "hello" /\ i = 1)
      /\ Unread(toClient, sSeq, srv.seq)
  BY <1>1 DEF Smooth
<1>3. toClient \in Seq(AnswerRecs \cup PlainRecs \cup ServerRecs)
      /\ sSeq \in Nat /\ srv.seq \in Nat
  BY <1>1 DEF WireTypeOK, ServerStates, ClientTypeOK
<1>4. Unread(Tail(toClient), next, srv.seq)
  BY <1>2, <1>3, UnreadTail
<1>5. /\ Len(toClient) \in Nat /\ Len(Tail(toClient)) = Len(toClient) - 1
      /\ \A i \in 1 .. Len(Tail(toClient)) : Tail(toClient)[i] = toClient[i + 1]
  BY <1>3, HeadTailProperties
<1>6. ASSUME NEW i \in 1 .. Len(Tail(toClient))
      PROVE  OnItsWay(Tail(toClient)[i], SrvSecret, Pads)
  <2>1. i + 1 \in 1 .. Len(toClient) /\ i + 1 # 1
    BY <1>5
  <2>2. OnItsWay(toClient[i + 1], SrvSecret, Pads)
    BY <1>2, <2>1
  <2> QED BY <1>5, <2>2
<1> QED BY <1>4, <1>6

LEMMA SmoothCalm ==
    ASSUME CalmOK, Client, faults' = 0, faults = 0, Honest
    PROVE  Smooth'
<1>0. Smooth /\ WireTypeOK /\ ClientTypeOK /\ ClientOK /\ ServerOK
  BY DEF CalmOK, SmoothInv
<1>1. UNCHANGED <<srv, setup>> /\ SrvSecret' = SrvSecret /\ Pads' = Pads
  BY ClientReads, SecretKept DEF Pads
<1>2. sSeq \in Nat
  BY <1>0 DEF ClientTypeOK
<1>3. CASE SkipCcs /\ pc = "flight"
  <2>1. /\ pc' = "flight" /\ toClient # <<>> /\ toClient' = Tail(toClient)
        /\ ~SealedRec(Head(toClient)) /\ UNCHANGED <<tc, sSeq>>
    BY <1>3 DEF SkipCcs, SealedRec, bufVars
  <2>2. /\ \A i \in 1 .. Len(toClient') : OnItsWay(toClient'[i], SrvSecret, Pads)
        /\ Unread(toClient', sSeq, srv.seq)
    BY <1>2, <1>3, <2>1, SmoothTail
  <2>3. tc[1] = srv.ch /\ tc[2] = srv.sh
    BY <1>0, <1>3 DEF Smooth, Running
  <2> QED BY <1>1, <2>1, <2>2, <2>3 DEF Smooth, Running
<1>4. CASE RecvServerHello /\ HelloError(Head(toClient)) = "SUCCESS"
  <2>1. /\ pc = "hello" /\ pc' = "flight" /\ toClient # <<>> /\ toClient' = Tail(toClient)
        /\ UNCHANGED sSeq
    BY <1>4 DEF RecvServerHello
  <2>2. ~SealedRec(Head(toClient))
    BY <2>1, HonestHello DEF SealedRec
  <2>3. /\ \A i \in 1 .. Len(toClient') : OnItsWay(toClient'[i], SrvSecret, Pads)
        /\ Unread(toClient', sSeq, srv.seq)
    BY <1>2, <2>1, <2>2, SmoothTail
  <2>4. tc'[1] = srv.ch /\ tc'[2] = srv.sh
    BY <1>4, SmoothHello
  <2> QED BY <1>1, <2>1, <2>3, <2>4 DEF Smooth, Running
<1>5. CASE RecvFlight /\ FlightError(Head(toClient)) = "SUCCESS"
  <2>1. /\ pc = "flight" /\ pc' = "parse" /\ toClient # <<>> /\ toClient' = Tail(toClient)
        /\ sSeq' = sSeq + 1 /\ UNCHANGED tc
    BY <1>5 DEF RecvFlight
  <2>2. SealedRec(Head(toClient))
    BY <1>0, <1>5, <2>1, TailType, OpenedRecord DEF SealedRec
  <2>3. PICK next \in Nat : next = sSeq + 1
    BY <1>2
  <2>4. /\ \A i \in 1 .. Len(toClient') : OnItsWay(toClient'[i], SrvSecret, Pads)
        /\ Unread(toClient', next, srv.seq)
    BY <2>1, <2>2, <2>3, SmoothTail
  <2>5. tc[1] = srv.ch /\ tc[2] = srv.sh
    BY <1>0, <2>1 DEF Smooth, Running
  <2> QED BY <1>1, <2>1, <2>3, <2>4, <2>5 DEF Smooth, Running
<1>6. CASE ParseMore
  <2>1. pc = "parse" /\ pc' = "flight" /\ UNCHANGED <<tc, toClient, sSeq>>
    BY <1>6 DEF ParseMore, bufVars, netVars
  <2> QED BY <1>0, <1>1, <2>1 DEF Smooth, Running
<1>7. CASE ParseMessage /\ MessageError = "SUCCESS"
  <2>1. /\ pc = "parse" /\ pc' \in {"finish", "parse"} /\ tc' = Append(tc, FlightEntry(Msg))
        /\ UNCHANGED <<toClient, sSeq>>
    BY <1>7 DEF ParseMessage
  <2>2. tc \in Seq(Entries) /\ Len(tc) \in Nat /\ Len(tc) >= 2
    BY <1>0, <2>1 DEF ClientOK, ClientTypeOK, Running
  <2>3. tc'[1] = tc[1] /\ tc'[2] = tc[2]
    BY <2>1, <2>2
  <2> QED BY <1>0, <1>1, <2>1, <2>3 DEF Smooth, Running
<1>8. CASE Establish
  <2>1. pc' = "returned" /\ ret' = "SUCCESS"
    BY <1>8 DEF Establish, Leave
  <2> QED BY <2>1 DEF Smooth, Running
<1> QED BY <1>3, <1>4, <1>5, <1>6, <1>7, <1>8, NoFailing

(* No step takes a fault back. *)
LEMMA FaultsGrow ==
    ASSUME WireTypeOK, Next, faults' = 0
    PROVE  /\ faults = 0 /\ ~Fault
           /\ ~(ServerAlien \/ AlterHello \/ DamageRecord)
<1>1. faults \in Nat
  BY DEF WireTypeOK
<1>2. ~Fault
  BY <1>1 DEF Fault
<1>3. ~(\/ SendClientHelloFails \/ CallFails \/ FinishFails \/ EstablishFails
        \/ ServerAlien \/ AlterHello \/ DamageRecord)
  BY <1>2 DEF SendClientHelloFails, CallFails, FinishFails, EstablishFails,
              ServerAlien, AlterHello, DamageRecord
<1>4. ConnectRefused \/ SendClientHello \/ IoRecvEnds \/ SkipCcs \/ RecvServerHello
        \/ RecvFlight => faults' = faults
  BY DEF ConnectRefused, SendClientHello, IoRecvEnds, SkipCcs, RecvServerHello, RecvFlight
<1>5. ParseMore \/ ParseNeverFits \/ ParseMessage \/ Establish => faults' = faults
  BY DEF ParseMore, ParseNeverFits, ParseMessage, Establish
<1>6. ServerWrites \/ ServerCcs \/ ServerReads => faults' = faults
  BY DEF ServerWrites, ServerHello, ServerRecord, ServerCcs, ServerReads
<1>7. faults' = faults
  BY <1>3, <1>4, <1>5, <1>6 DEF Next, Client, Server
<1> QED BY <1>2, <1>3, <1>7

LEMMA SmoothClient ==
    ASSUME CalmOK, Client
    PROVE  SmoothInv'
<1>0. ClientTypeOK /\ WireTypeOK /\ ServerOK /\ ClientOK /\ SmoothInv
  BY DEF CalmOK
<1>1. UNCHANGED <<srv, setup>>
  BY ClientReads
<1>2. pc' # "call"
  <2>1. Failing \/ ConnectRefused \/ SendClientHello \/ SendClientHelloFails => pc' # "call"
    BY Zenon DEF Failing, Fail, Leave, ConnectRefused, SendClientHello, SendClientHelloFails
  <2>2. SkipCcs \/ ParseMore \/ (RecvServerHello /\ HelloError(Head(toClient)) = "SUCCESS")
          \/ (RecvFlight /\ FlightError(Head(toClient)) = "SUCCESS") => pc' # "call"
    BY DEF SkipCcs, ParseMore, RecvServerHello, RecvFlight
  <2>3. (ParseMessage /\ MessageError = "SUCCESS") \/ Establish \/ EstablishFails
          => pc' # "call"
    BY DEF ParseMessage, Establish, EstablishFails, Leave
  <2> QED BY <2>1, <2>2, <2>3, ClientSteps
<1>3. ASSUME faults' = 0, srv.stage = "wait"
      PROVE  IF pc' = "hello" THEN /\ toServer' = <<ClientHello("orig"), Plain("ccs")>>
                                   /\ tc' = <<Entry(ClientHello("orig"))>>
             ELSE toServer' = <<>>
  <2>1. faults = 0 /\ ~Fault
    BY <1>0, <1>3, FaultsGrow DEF Next
  <2>2. pc \in {"call", "hello", "returned"} /\ toClient = <<>>
    BY <1>0, <1>3 DEF ServerOK
  <2>3. pc # "hello" => toServer = <<>>
    BY <1>0, <1>3, <2>1 DEF SmoothInv
  <2>4. ~(SkipCcs \/ RecvServerHello \/ RecvFlight)
    BY <2>2 DEF SkipCcs, RecvServerHello, RecvFlight
  <2>5. ~(ParseMore \/ ParseNeverFits \/ ParseMessage \/ Establish \/ FinishFails
          \/ EstablishFails)
    BY <2>2 DEF ParseMore, ParseNeverFits, ParseMessage, Establish, FinishFails, EstablishFails
  <2>6. ~(SendClientHelloFails \/ CallFails \/ IoRecvEnds)
    BY <1>3, <2>1 DEF SendClientHelloFails, CallFails, IoRecvEnds
  <2>7. CASE ConnectRefused
    <3>1. pc = "call" /\ pc' = "returned" /\ toServer' = toServer
      BY <2>7 DEF ConnectRefused, Leave, netVars
    <3> QED BY <2>3, <3>1
  <2>8. CASE SendClientHello
    <3>1. /\ toServer' = <<ClientHello("orig"), Plain("ccs")>>
          /\ tc' = <<Entry(ClientHello("orig"))>> /\ pc' = "hello"
      BY <2>8 DEF SendClientHello
    <3> QED BY <3>1
  <2> QED BY <2>4, <2>5, <2>6, <2>7, <2>8 DEF Client
<1>4. ASSUME pc' = "flight"
      PROVE  ~MsgThere'
  <2>1. CASE SkipCcs
    <3>1. pc = "flight" /\ UNCHANGED <<acc, accOff, srv, setup>>
      BY <1>4, <2>1 DEF SkipCcs, bufVars
    <3> QED BY <1>0, <3>1 DEF SmoothInv, MsgThere, HeaderThere, HdrSz, Msg, Number
  <2>2. CASE RecvServerHello
    <3>1. pc = "hello" /\ UNCHANGED <<acc, accOff>>
      BY <1>4, <2>2, Zenon DEF RecvServerHello, Fail, Leave
    <3>2. acc' = <<>> /\ accOff' = 0
      BY <1>0, <3>1 DEF ClientOK
    <3>3. HdrSz' \in Nat \ {0}
      BY <1>0, <1>1, SetupFacts DEF ClientTypeOK, HdrSz
    <3>4. Len(<<>>) = 0
      OBVIOUS
    <3>5. ~HeaderThere'
      BY <3>2, <3>3, <3>4 DEF HeaderThere
    <3> QED BY <3>5 DEF MsgThere
  <2>3. CASE ParseMore
    <3>1. ~MsgThere /\ UNCHANGED <<acc, accOff, srv, setup>>
      BY <2>3 DEF ParseMore, bufVars
    <3> QED BY <3>1 DEF MsgThere, HeaderThere, HdrSz, Msg, Number
  <2>4. Failing \/ ConnectRefused \/ SendClientHello \/ SendClientHelloFails => pc' # "flight"
    BY Zenon DEF Failing, Fail, Leave, ConnectRefused, SendClientHello, SendClientHelloFails
  <2>5. (RecvFlight /\ FlightError(Head(toClient)) = "SUCCESS") \/ Establish
          \/ (ParseMessage /\ MessageError = "SUCCESS") \/ EstablishFails => pc' # "flight"
    BY DEF RecvFlight, ParseMessage, Establish, EstablishFails, Leave
  <2> QED BY <1>4, <2>1, <2>2, <2>3, <2>4, <2>5, ClientSteps
<1>5. srv'.stage # "wait" => \A k \in 1 .. Len(srv'.flight) : srv'.flight[k].len >= HdrSz'
  BY <1>0, <1>1 DEF SmoothInv, HdrSz
<1>6. ASSUME faults' = 0, Honest'
      PROVE  Smooth'
  <2>1. faults = 0
    BY <1>0, <1>6, FaultsGrow DEF Next
  <2>2. Honest
    BY <1>1, <1>6 DEF Honest, Path, LegalFlight, Fits, AccSz, MaxPad, Pads, Types
  <2> QED BY <1>6, <2>1, <2>2, SmoothCalm
<1> QED BY <1>1, <1>2, <1>3, <1>4, <1>5, <1>6 DEF SmoothInv

(* The steps of the server and of the transport. *)

LEMMA HonestKept ==
    ASSUME WireTypeOK, Server \/ AlterHello \/ DamageRecord, srv.stage # "wait", Honest'
    PROVE  Honest
<1>1. /\ srv'.flight = srv.flight /\ srv'.bytes = srv.bytes
      /\ srv'.cred = srv.cred /\ srv'.hello = srv.hello
  BY FlightKept
<1>2. UNCHANGED setup
  BY OthersKeepClient
<1> QED BY <1>1, <1>2 DEF Honest, Path, LegalFlight, Fits, AccSz, MaxPad, Pads, Types

(* A record is put behind the others. *)
LEMMA SmoothSend ==
    ASSUME CalmOK, faults = 0, Honest, pc # "returned",
           NEW rec \in AnswerRecs \cup PlainRecs \cup ServerRecs,
           OnItsWay(rec, SrvSecret, Pads), NEW next \in Nat,
           \/ ~SealedRec(rec) /\ next = srv.seq
           \/ SealedRec(rec) /\ rec.seq = srv.seq /\ next = srv.seq + 1
    PROVE  /\ \A i \in 1 .. Len(Append(toClient, rec)) :
                 \/ OnItsWay(Append(toClient, rec)[i], SrvSecret, Pads)
                 \/ pc = "hello" /\ i = 1
           /\ Unread(Append(toClient, rec), sSeq, next)
           /\ toClient # <<>> => Append(toClient, rec)[1] = toClient[1]
           /\ Append(toClient, rec) # <<>>
<1>1. Smooth /\ WireTypeOK /\ ClientTypeOK /\ CutOK
  BY DEF CalmOK, SmoothInv
<1>2. /\ \A i \in 1 .. Len(toClient) :
            OnItsWay(toClient[i], SrvSecret, Pads) \/ (pc = "hello" /\ i = 1)
      /\ Unread(toClient, sSeq, srv.seq)
  BY <1>1 DEF Smooth
<1>3. toClient \in Seq(AnswerRecs \cup PlainRecs \cup ServerRecs)
      /\ sSeq \in Nat /\ srv.seq \in Nat
  BY <1>1 DEF WireTypeOK, ServerStates, ClientTypeOK
<1>4. sSeq <= srv.seq
  BY <1>1 DEF CutOK, Cuts, CutClient
<1>5. Unread(Append(toClient, rec), sSeq, next)
  <2>1. PICK s \in Nat : s = srv.seq
    BY <1>3
  <2> QED BY <1>2, <1>3, <1>4, <2>1, UnreadAppend
<1>6. /\ Len(toClient) \in Nat /\ Len(Append(toClient, rec)) = Len(toClient) + 1
      /\ Append(toClient, rec)[Len(toClient) + 1] = rec
      /\ \A i \in 1 .. Len(toClient) : Append(toClient, rec)[i] = toClient[i]
  BY <1>3, AppendProperties
<1>7. ASSUME NEW i \in 1 .. Len(Append(toClient, rec))
      PROVE  \/ OnItsWay(Append(toClient, rec)[i], SrvSecret, Pads)
             \/ pc = "hello" /\ i = 1
  <2>1. CASE i \in 1 .. Len(toClient)
    BY <1>2, <1>6, <2>1
  <2>2. CASE i = Len(toClient) + 1
    BY <1>6, <2>2
  <2>3. i \in 1 .. Len(toClient) \/ i = Len(toClient) + 1
    BY <1>6
  <2> QED BY <2>1, <2>2, <2>3
<1>8. toClient # <<>> => 1 \in 1 .. Len(toClient)
  BY <1>3, EmptySeq
<1>9. Append(toClient, rec) # <<>>
  BY <1>3, AppendProperties
<1> QED BY <1>5, <1>6, <1>7, <1>8, <1>9

LEMMA SmoothServing ==
    ASSUME CalmOK, Server, faults' = 0, faults = 0, srv.stage # "wait", Honest
    PROVE  Smooth'
<1>0. Smooth /\ WireTypeOK /\ ClientTypeOK /\ ServerOK
  BY DEF CalmOK, SmoothInv
<1>1. UNCHANGED <<setup, pc, ret, tc, sSeq>>
  BY OthersKeepClient
<1>2. /\ srv'.ch = srv.ch /\ srv'.sh = srv.sh /\ srv'.hello = srv.hello
      /\ SrvSecret' = SrvSecret /\ Pads' = Pads
  BY <1>0, <1>1, FlightKept, SecretKept DEF Pads
<1>3. srv.seq \in Nat /\ srv \in ServerStates
  BY <1>0 DEF WireTypeOK, ServerStates
<1>4. ASSUME UNCHANGED toClient, srv'.seq = srv.seq
      PROVE  Smooth'
  BY <1>0, <1>1, <1>2, <1>4 DEF Smooth, Running
<1>5. ASSUME NEW rec \in AnswerRecs \cup PlainRecs \cup ServerRecs,
             toClient' = Append(toClient, rec), OnItsWay(rec, SrvSecret, Pads),
             NEW next \in Nat, srv'.seq = next,
             \/ ~SealedRec(rec) /\ next = srv.seq
             \/ SealedRec(rec) /\ rec.seq = srv.seq /\ next = srv.seq + 1
      PROVE  Smooth'
  <2>1. CASE pc = "returned"
    BY <1>0, <1>1, <2>1 DEF Smooth, Running
  <2>2. CASE pc # "returned"
    <3>1. /\ \A i \in 1 .. Len(toClient') :
                OnItsWay(toClient'[i], SrvSecret, Pads) \/ (pc = "hello" /\ i = 1)
          /\ Unread(toClient', sSeq, next)
          /\ toClient # <<>> => toClient'[1] = toClient[1]
          /\ toClient' # <<>>
      BY <1>5, <2>2, SmoothSend
    <3> QED BY <1>0, <1>1, <1>2, <1>5, <2>2, <3>1 DEF Smooth, Running
  <2> QED BY <2>1, <2>2
<1>6. ASSUME NEW n \in 1 .. Len(srv.bytes), NEW pad \in Pads, ServerRecord(n, pad)
      PROVE  Smooth'
  <2>1. /\ srv.sent + n <= Len(srv.bytes)
        /\ toClient' = Append(toClient, ServerSealed("handshake", n, pad))
        /\ srv' = [srv EXCEPT !.sent = @ + n, !.seq = @ + 1]
    BY <1>6 DEF ServerRecord, ServerSend
  <2>2. n \in Nat /\ pad \in Nat
    BY <1>0, <1>3, SetupFacts DEF ClientTypeOK, ServerStates
  <2>3. PICK rec \in ServerRecs :
           /\ rec = ServerSealed("handshake", n, pad)
           /\ rec = [form |-> "sealed", key |-> <<"s", SrvSecret>>, iv |-> <<"s", SrvSecret>>,
                     seq |-> srv.seq, ctype |-> "handshake",
                     body |-> [bytes |-> SubSeq(srv.bytes, srv.sent + 1, srv.sent + n),
                               pad |-> pad],
                     intact |-> TRUE]
    BY <1>0, <2>1, <2>2, SealedType
  <2>4. SealedRec(rec) /\ rec.seq = srv.seq /\ OnItsWay(rec, SrvSecret, Pads)
    BY <2>3 DEF SealedRec, OnItsWay
  <2>5. srv'.seq = srv.seq + 1
    BY <1>3, <2>1 DEF ServerStates
  <2>6. PICK next \in Nat : next = srv.seq + 1
    BY <1>3
  <2> QED BY <1>5, <2>1, <2>3, <2>4, <2>5, <2>6
<1>7. CASE ServerCcs
  <2>1. toClient' = Append(toClient, Plain("ccs")) /\ srv' = srv
    BY <1>7 DEF ServerCcs, ServerSend
  <2>2. PICK rec \in PlainRecs : rec = Plain("ccs") /\ rec.form = "ccs"
    <3>1. Plain("ccs") \in PlainRecs /\ Plain("ccs").form = "ccs"
      BY DEF Plain, PlainRecs
    <3> QED BY <3>1
  <2>3. ~SealedRec(rec) /\ OnItsWay(rec, SrvSecret, Pads)
    BY <2>2 DEF SealedRec, OnItsWay
  <2> QED BY <1>3, <1>5, <2>1, <2>2, <2>3
<1>8. CASE ServerReads
  <2>1. /\ toClient' = toClient
        /\ srv' = srv \/ \E stage \in {"done", "dead"} : srv' = [srv EXCEPT !.stage = stage]
    BY <1>8 DEF ServerReads
  <2>2. srv'.seq = srv.seq
    BY <1>3, <2>1 DEF ServerStates
  <2> QED BY <1>4, <2>1, <2>2
<1>9. ~ServerHello /\ ~ServerAlien
  <2>1. ~ServerHello
    BY DEF ServerHello
  <2>2. ~ServerAlien
    BY <1>0, FaultsGrow DEF Next
  <2> QED BY <2>1, <2>2
<1> QED BY <1>6, <1>7, <1>8, <1>9 DEF Server, ServerWrites

(* The server's first record. *)
LEMMA SmoothAnswer ==
    ASSUME CalmOK, ServerHello, faults = 0
    PROVE  Smooth'
<1>0. ClientTypeOK /\ WireTypeOK /\ ServerOK /\ ClientOK /\ SmoothInv
  BY DEF CalmOK
<1>1. srv.stage = "wait" /\ toServer # <<>> /\ UNCHANGED <<setup, pc, ret, tc, sSeq>>
  BY DEF ServerHello, bufVars
<1>2. pc = "hello" /\ toServer = <<ClientHello("orig"), Plain("ccs")>>
      /\ tc = <<Entry(ClientHello("orig"))>>
  BY <1>0, <1>1 DEF SmoothInv
<1>3. Head(toServer) = ClientHello("orig")
  BY <1>2
<1>4. PICK a \in Setups[setup].answers :
         /\ ServerSend(Answer(a.hello))
         /\ srv' = [srv EXCEPT !.stage = "flight", !.ch = Entry(Head(toServer)),
                               !.sh = [type |-> "SH", val |-> "orig"],
                               !.hello = a.hello, !.flight = a.flight,
                               !.bytes = Bytes(a.flight)]
  BY DEF ServerHello
<1>5. /\ srv'.ch = Entry(ClientHello("orig")) /\ srv'.sh = [type |-> "SH", val |-> "orig"]
      /\ srv'.hello = a.hello /\ srv'.seq = srv.seq
  <2>1. srv \in ServerStates
    BY <1>0 DEF WireTypeOK
  <2> QED BY <1>3, <1>4, <2>1 DEF ServerStates
<1>6. toClient = <<>> /\ srv.seq = 0 /\ sSeq = 0
  BY <1>0, <1>1, <1>2 DEF ServerOK, ClientOK
<1>7. toClient' = <<Answer(a.hello)>>
  <2>1. toClient' = Append(<<>>, Answer(a.hello))
    BY <1>4, <1>6 DEF ServerSend
  <2> QED BY <2>1
<1>8. PICK rec : rec = Answer(a.hello) /\ rec.form = "hello"
  <2>1. Answer(a.hello).form = "hello"
    BY DEF Answer
  <2> QED BY <2>1
<1>9. Unread(<<rec>>, 0, 0) /\ Len(<<rec>>) = 1 /\ <<rec>>[1] = rec /\ <<rec>> # <<>>
  <2>1. Len(<<rec>>) = 1 /\ <<rec>>[1] = rec /\ <<rec>> # <<>>
    OBVIOUS
  <2>2. \A i \in 1 .. Len(<<rec>>) : ~SealedRec(<<rec>>[i])
    BY <1>8, <2>1 DEF SealedRec
  <2>3. 0 .. 0 - 1 = {}
    OBVIOUS
  <2> QED BY <2>1, <2>2, <2>3 DEF Unread
<1> QED BY <1>1, <1>2, <1>5, <1>6, <1>7, <1>8, <1>9 DEF Smooth, Running

LEMMA SmoothOthers ==
    ASSUME CalmOK, Server \/ AlterHello \/ DamageRecord
    PROVE  SmoothInv'
<1>0. ClientTypeOK /\ WireTypeOK /\ ServerOK /\ ClientOK /\ SmoothInv
  BY DEF CalmOK
<1>1. UNCHANGED <<setup, pc, ret, tc, acc, accOff>>
  BY OthersKeepClient
<1>2. pc' = "call" => srv'.stage = "wait"
  <2>1. pc = "call" => srv.stage = "wait" /\ toServer = <<>>
    BY <1>0 DEF SmoothInv, ClientOK
  <2>2. (srv.stage = "wait" /\ toServer = <<>>) => srv' = srv
    BY DEF Server, ServerWrites, ServerHello, ServerRecord, ServerCcs, ServerAlien,
           ServerReads, AlterHello, DamageRecord
  <2> QED BY <1>1, <2>1, <2>2
<1>3. ~(faults' = 0 /\ srv'.stage = "wait")
  <2> SUFFICES ASSUME faults' = 0, srv'.stage = "wait" PROVE FALSE
    OBVIOUS
  <2>1. srv.stage = "wait"
    BY <1>0, FlightKept
  <2>2. ~(ServerAlien \/ AlterHello \/ DamageRecord)
    BY <1>0, FaultsGrow DEF Next
  <2>3. ~((\E n \in 1 .. Len(srv.bytes), pad \in Pads : ServerRecord(n, pad))
          \/ ServerCcs \/ ServerReads)
    BY <2>1 DEF ServerRecord, ServerCcs, ServerReads
  <2>4. ServerHello
    BY <2>2, <2>3 DEF Server, ServerWrites
  <2>5. srv \in ServerStates
    BY <1>0 DEF WireTypeOK
  <2>6. srv'.stage = "flight"
    BY <2>4, <2>5 DEF ServerHello, ServerStates
  <2> QED BY <2>6
<1>4. ASSUME srv'.stage # "wait"
      PROVE  \A k \in 1 .. Len(srv'.flight) : srv'.flight[k].len >= HdrSz'
  <2>1. HdrSz' = HdrSz
    BY <1>1 DEF HdrSz
  <2>2. CASE srv.stage # "wait"
    <3>1. srv'.flight = srv.flight
      BY <1>0, <2>2, FlightKept
    <3> QED BY <1>0, <2>1, <2>2, <3>1 DEF SmoothInv
  <2>3. CASE ServerHello
    <3>1. PICK a \in Setups[setup].answers : srv'.flight = a.flight
      <4>1. srv \in ServerStates
        BY <1>0 DEF WireTypeOK
      <4> QED BY <2>3, <4>1 DEF ServerHello, ServerStates
    <3>2. a.flight \in Seq(Message(HdrSz))
      BY <1>0, MessageAssumption DEF ClientTypeOK, HdrSz
    <3>3. \A k \in 1 .. Len(a.flight) : a.flight[k] \in Message(HdrSz)
      BY <3>2
    <3>4. \A m \in Message(HdrSz) : m.len >= HdrSz
      BY DEF Message
    <3> QED BY <2>1, <3>1, <3>3, <3>4
  <2>4. CASE srv.stage = "wait" /\ ~ServerHello
    <3>1. srv' = srv
      BY <2>4 DEF Server, ServerWrites, ServerRecord, ServerCcs, ServerAlien,
                  ServerReads, AlterHello, DamageRecord
    <3> QED BY <1>4, <2>4, <3>1
  <2> QED BY <2>2, <2>3, <2>4
<1>5. ASSUME pc' = "flight"
      PROVE  ~MsgThere'
  <2>1. pc = "flight" /\ srv.stage # "wait"
    BY <1>0, <1>1, <1>5 DEF ServerOK
  <2>2. srv'.flight = srv.flight
    BY <1>0, <2>1, FlightKept
  <2> QED BY <1>0, <1>1, <2>1, <2>2 DEF SmoothInv, MsgThere, HeaderThere, HdrSz, Msg, Number
<1>6. ASSUME faults' = 0, Honest'
      PROVE  Smooth'
  <2>1. faults = 0 /\ Server
    BY <1>0, <1>6, FaultsGrow DEF Next
  <2>2. CASE srv.stage # "wait"
    BY <1>0, <1>6, <2>1, <2>2, HonestKept, SmoothServing
  <2>3. CASE srv.stage = "wait"
    <3>1. ~(ServerAlien \/ ServerCcs \/ ServerReads
            \/ \E n \in 1 .. Len(srv.bytes), pad \in Pads : ServerRecord(n, pad))
      BY <2>3 DEF ServerAlien, ServerRecord, ServerCcs, ServerReads
    <3>2. ServerHello
      BY <2>1, <3>1 DEF Server, ServerWrites
    <3> QED BY <2>1, <3>2, SmoothAnswer
  <2> QED BY <2>2, <2>3
<1> QED BY <1>2, <1>3, <1>4, <1>5, <1>6 DEF SmoothInv

LEMMA SmoothInit ==
    ASSUME Init
    PROVE  SmoothInv
<1>1. srv.stage = "wait"
  BY DEF Init, ServerInit
<1> QED BY <1>1 DEF Init, SmoothInv, Honest

LEMMA SmoothStutter ==
    ASSUME SmoothInv, UNCHANGED vars
    PROVE  SmoothInv'
<1>1. UNCHANGED <<setup, pc, ret, tc, sSeq, acc, accOff, toServer, toClient, srv, faults>>
  BY DEF vars, bufVars, netVars
<1>2. Honest' = Honest /\ SrvSecret' = SrvSecret /\ Pads' = Pads /\ HdrSz' = HdrSz
  BY <1>1, SecretKept DEF Honest, Path, LegalFlight, Fits, AccSz, MaxPad, Pads, Types, HdrSz
<1>3. MsgThere' = MsgThere
  BY <1>1 DEF MsgThere, HeaderThere, HdrSz, Msg, Number
<1>4. Smooth' = Smooth
  BY <1>1, <1>2 DEF Smooth, Running
<1> QED BY <1>1, <1>2, <1>3, <1>4 DEF SmoothInv

(* A server that follows the protocol is served: unless something fails    *)
(* between the two, the driver returns success from every cut of the       *)
(* flight, wherever the ChangeCipherSpecs are, up to a full buffer.        *)
THEOREM HonestAreServed == Spec => []HonestSucceeds
<1>1. Init => SmoothInv
  BY SmoothInit
<1>2. HsInv /\ SmoothInv /\ [Next]_vars => SmoothInv'
  <2> SUFFICES ASSUME HsInv, SmoothInv, [Next]_vars PROVE SmoothInv'
    OBVIOUS
  <2>1. CalmOK
    BY DEF HsInv, CalmOK
  <2> QED BY <2>1, SmoothClient, SmoothOthers, SmoothStutter DEF Next
<1>3. SmoothInv => HonestSucceeds
  BY DEF SmoothInv, Smooth, HonestSucceeds
<1> QED BY <1>1, <1>2, <1>3, HandshakeInvariant, PTL DEF Spec
=============================================================================
