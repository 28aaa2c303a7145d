--------------------------- MODULE WnServerHello ----------------------------
(***************************************************************************)
(* wn_ServerHello_Parse of src/wn_serverhello.c, one step for the part     *)
(* before the extensions, one for each extension and one for the end, and  *)
(* then what a driver of src/wn_connect.c requires of the result.          *)
(* WnFlightMsgs adds the messages that follow it.                          *)
(***************************************************************************)
EXTENDS WnMsg, SequencesExt

CONSTANTS
    Messages,       \* messages that may arrive: sequences of bytes
    HonestHellos,   \* those that are well formed: their bytes and their fields
    RandomSz,       \* bytes of the random (32 in the code)
    HrrRandom,      \* wn_hrr_random
    Sid,            \* the session id the client has sent (32 bytes)
    Group,          \* WN_DEFAULT_GROUP
    ShareSz         \* WN_DEFAULT_SRV_SHARE_SZ

ASSUME ServerHelloAssumption ==
    /\ \A m \in Messages : m \in Seq(Byte)
    /\ RandomSz \in Nat /\ ShareSz \in Nat /\ Group \in Word16
    /\ HrrRandom \in Seq(Byte) /\ Len(HrrRandom) = RandomSz
    /\ Sid \in Seq(Byte)

VARIABLES
    path,       \* "psk" or "cert": the driver
    kind,       \* the message's type: "SH"
    msg,        \* the message
    pc,         \* "header", "exts", "driver", "done"
    r,          \* r: the reader
    out,        \* *out: what is parsed
    seen,       \* seenKs, seenVer, seenPsk: the extensions so far
    top,        \* type, hsLen, lver, comp: what is judged only at the end
    extEnd,     \* extEnd
    ret         \* the return code

parserVars == <<path, kind, msg, pc, r, ret>>
helloVars == <<out, seen, top, extEnd>>

(* WN_EXT_KEY_SHARE, WN_EXT_SUPPORTED_VER and WN_EXT_PRE_SHARED *)
KeyShare == 51
SupportedVersions == 43
PreShared == 41

TLS13 == 772            \* 0x0304
Legacy == 771           \* 0x0303
Aes128Gcm == 4865       \* 0x1301

Nothing == [hrr |-> FALSE, sid |-> <<>>, cipher |-> 0, group |-> 0,
            share |-> <<>>, version |-> 0, psk |-> -1]

HelloVarsInit ==
    /\ out = Nothing
    /\ seen = {}
    /\ top = [type |-> 0, hsLen |-> 0, lver |-> 0, comp |-> 0]
    /\ extEnd = 0

HelloInit ==
    /\ path \in {"psk", "cert"}
    /\ kind = "SH"
    /\ msg \in Messages
    /\ pc = "header"
    /\ r = ReaderInit
    /\ ret = "SUCCESS"
    /\ HelloVarsInit

(* Mutant: the overrun is noticed but the loop is not bounded. *)
UnboundedEnd(end) == end

(* extensions that overrun the message: the loop is bounded to the buffer *)
BoundedEnd(end) == IF end > Len(msg) THEN Len(msg) ELSE end

(***************************************************************************)
(* Up to the length of the extensions.  A HelloRetryRequest is recognised  *)
(* by its random and returned at once, unparsed.  Reads of fixed size in a *)
(* row are taken together: the error of any of them is sticky.             *)
(***************************************************************************)
At(k) == [pos |-> k, err |-> FALSE]

ParseHeader ==
    LET atSid == Skip(msg, ReaderInit, 6 + RandomSz)    \* type .. random
        sidLen == ReadU(msg, atSid, 1)
        sid == Skip(msg, atSid, 1)
        suite == Skip(msg, sid, sidLen)                 \* session_id_echo
        exts == Skip(msg, suite, 5)                     \* cipher, comp, extLen
        type == ReadU(msg, At(0), 1)
        isHrr == ~atSid.err /\ type = 2 /\ ReadBytes(msg, At(6), RandomSz) = HrrRandom
        end == exts.pos + ReadU(msg, Skip(msg, suite, 3), 2)
    IN /\ pc = "header"
       /\ top' = [type |-> type, hsLen |-> ReadU(msg, At(1), 3),
                  lver |-> ReadU(msg, At(4), 2),
                  comp |-> ReadU(msg, Skip(msg, suite, 2), 1)]
       /\ IF isHrr
          THEN /\ out' = [out EXCEPT !.hrr = TRUE]
               /\ r' = atSid /\ pc' = "driver"
               /\ UNCHANGED extEnd
          ELSE /\ out' = [out EXCEPT !.sid = ReadBytes(msg, sid, sidLen),
                                     !.cipher = ReadU(msg, suite, 2)]
               /\ r' = [exts EXCEPT !.err = @ \/ end > Len(msg)]
               /\ extEnd' = BoundedEnd(end)
               /\ pc' = "exts"
       /\ UNCHANGED <<path, kind, msg, seen, ret>>

(***************************************************************************)
(* One turn of the extension loop.  r2 stands behind type and length;      *)
(* `body' is where the extension's own fields end.                         *)
(***************************************************************************)
(* Mutant: the loop looks at the position only. *)
InLoopIgnoresErr == pc = "exts" /\ r.pos < extEnd

InLoop == pc = "exts" /\ r.pos < extEnd /\ ~r.err
ExtType == ReadU(msg, r, 2)
AtLen == Skip(msg, r, 2)
AtBody == Skip(msg, AtLen, 2)
ExtBodyEnd == AtBody.pos + ReadU(msg, AtLen, 2)

(* Mutant: an extension that ends with the block is taken to overrun it. *)
OverrunsAtEnd == ExtBodyEnd >= extEnd

Overruns == ExtBodyEnd > extEnd

ExtDone(type, body) ==
    /\ r' = [body EXCEPT !.err = @ \/ type \in seen \/ body.pos # ExtBodyEnd]
    /\ seen' = seen \cup {type}
    /\ UNCHANGED <<path, kind, msg, pc, top, extEnd, ret>>

ParseKeyShare ==
    LET r1 == Skip(msg, AtBody, 2)
        klen == ReadU(msg, r1, 2)
        r2 == Skip(msg, r1, 2)
    IN /\ InLoop /\ ~Overruns /\ ExtType = KeyShare
       /\ out' = [out EXCEPT !.group = ReadU(msg, AtBody, 2),
                             !.share = ReadBytes(msg, r2, klen)]
       /\ ExtDone(KeyShare, Skip(msg, r2, klen))

ParseVersion ==
    /\ InLoop /\ ~Overruns /\ ExtType = SupportedVersions
    /\ out' = [out EXCEPT !.version = ReadU(msg, AtBody, 2)]
    /\ ExtDone(SupportedVersions, Skip(msg, AtBody, 2))

ParsePreShared ==
    /\ InLoop /\ ~Overruns /\ ExtType = PreShared
    /\ out' = [out EXCEPT !.psk = ReadU(msg, AtBody, 2)]
    /\ ExtDone(PreShared, Skip(msg, AtBody, 2))

(* An extension that overruns its block, or of a type not solicited. *)
RefuseExtension ==
    /\ InLoop
    /\ Overruns \/ ExtType \notin {KeyShare, SupportedVersions, PreShared}
    /\ r' = [AtBody EXCEPT !.err = TRUE]
    /\ UNCHANGED <<path, kind, msg, pc, out, seen, top, extEnd, ret>>

(* Mutant: bytes behind the extensions are overlooked. *)
ParseEndTrailing ==
    /\ pc = "exts" /\ ~InLoop
    /\ ret' = IF \/ r.err \/ top.type # 2 \/ top.hsLen # Len(msg) - 4
                 \/ top.lver # Legacy \/ top.comp # 0
              THEN "E_INVALID_ARG" ELSE "SUCCESS"
    /\ pc' = "driver"
    /\ UNCHANGED <<path, kind, msg, r, out, seen, top, extEnd>>

ParseEnd ==
    /\ pc = "exts" /\ ~InLoop
    /\ ret' = IF \/ r.err \/ top.type # 2 \/ top.hsLen # Len(msg) - 4
                 \/ top.lver # Legacy \/ top.comp # 0 \/ extEnd # Len(msg)
              THEN "E_INVALID_ARG" ELSE "SUCCESS"
    /\ pc' = "driver"
    /\ UNCHANGED <<path, kind, msg, r, out, seen, top, extEnd>>

(* Mutant: the selected identity is not looked at. *)
NegotiatedAnyPsk ==
    /\ Len(out.share) = ShareSz /\ KeyShare \in seen
    /\ out.cipher = Aes128Gcm /\ out.version = TLS13 /\ out.group = Group
    /\ out.sid = Sid

Negotiated ==
    /\ Len(out.share) = ShareSz /\ KeyShare \in seen
    /\ out.cipher = Aes128Gcm
    /\ out.version = TLS13
    /\ out.group = Group
    /\ out.psk = IF path = "psk" THEN 0 ELSE -1
    /\ out.sid = Sid

(* What the driver makes of it, up to the key exchange. *)
DriverChecks ==
    /\ pc = "driver"
    /\ ret' = IF ret # "SUCCESS" THEN ret
              ELSE IF out.hrr THEN "E_UNSUPPORTED"
              ELSE IF ~Negotiated THEN "E_ILLEGAL_PARAM"
              ELSE "SUCCESS"
    /\ pc' = "done"
    /\ UNCHANGED <<path, kind, msg, r, out, seen, top, extEnd>>

ParseExtension ==
    ParseKeyShare \/ ParseVersion \/ ParsePreShared \/ RefuseExtension

HelloNext == ParseHeader \/ ParseExtension \/ ParseEnd \/ DriverChecks

-----------------------------------------------------------------------------
(***************************************************************************)
(* The reference: a ServerHello is its fields and its extensions in some   *)
(* order (RFC 8446 4.1.3), encoded in one way.                             *)
(***************************************************************************)
Extension(type, body) == U16(type) \o U16(Len(body)) \o body

EncodeExt(h, type) ==
    Extension(type, CASE type = KeyShare -> U16(h.group) \o U16(Len(h.share)) \o h.share
                      [] type = SupportedVersions -> U16(h.version)
                      [] type = PreShared -> U16(h.psk))

Encode(h, random, order) ==
    LET exts == FlattenSeq([i \in DOMAIN order |-> EncodeExt(h, order[i])])
        body == U16(Legacy) \o random \o <<Len(h.sid)>> \o h.sid
                  \o U16(h.cipher) \o <<0>> \o U16(Len(exts)) \o exts
    IN <<2>> \o U24(Len(body)) \o body

(* The extensions of a well-formed hello are of different types; a field whose
   extension is not there has no value. *)
WellFormedHello(f) ==
    /\ f.sid \in Seq(Byte) /\ f.share \in Seq(Byte)
    /\ f.random \in Seq(Byte) /\ Len(f.random) = RandomSz
    /\ {f.cipher, f.group, f.version} \subseteq Word16
    /\ IsInjective(f.order) /\ f.order \in Seq({KeyShare, SupportedVersions, PreShared})
    /\ KeyShare \in ToSet(f.order) \/ (f.group = 0 /\ f.share = <<>>)
    /\ SupportedVersions \in ToSet(f.order) \/ f.version = 0
    /\ IF PreShared \in ToSet(f.order) THEN f.psk \in Word16 ELSE f.psk = -1

ASSUME HonestHellosAssumption ==
    \A h \in HonestHellos :
        WellFormedHello(h.fields) /\ h.bytes = Encode(h.fields, h.fields.random, h.fields.order)

(* A parse that succeeds has read the whole message and nothing else: the
   message is the one encoding of the fields returned, its extensions in some
   order, none twice, none unknown, none longer than it says, no byte left. *)
HelloExact ==
    (pc = "driver" /\ ret = "SUCCESS" /\ ~out.hrr) =>
        LET random == SubSeq(msg, 7, 6 + RandomSz) IN
        \E order \in SetToSeqs(seen) : msg = Encode(out, random, order)

(* No legal hello is refused: the fields of a well-formed message come out as
   they went in, and a HelloRetryRequest comes out as one and not as a
   malformed hello (wn_serverhello.c:83). *)
HonestHelloParsed ==
    pc = "driver" =>
        \A h \in HonestHellos : msg = h.bytes =>
            /\ ret = "SUCCESS"
            /\ out.hrr = (h.fields.random = HrrRandom)
            /\ out.hrr \/ \A f \in {"sid", "cipher", "group", "share", "version", "psk"} :
                             out[f] = h.fields[f]

(* A driver goes on only with a message that is, up to the order of its
   extensions, the random and the key share, the one answer to its ClientHello;
   so the two sides agree on group, suite, version and use of the PSK. *)
AcceptedIsTheAnswer ==
    (kind = "SH" /\ pc = "done" /\ ret = "SUCCESS") =>
        LET need == {KeyShare, SupportedVersions}
                      \cup IF path = "psk" THEN {PreShared} ELSE {}
            answer == [sid |-> Sid, cipher |-> Aes128Gcm, group |-> Group,
                       share |-> out.share, version |-> TLS13,
                       psk |-> IF path = "psk" THEN 0 ELSE -1]
            random == SubSeq(msg, 7, 6 + RandomSz)
        IN /\ Len(out.share) = ShareSz
           /\ random # HrrRandom
           /\ \E order \in SetToSeqs(need) : msg = Encode(answer, random, order)
=============================================================================
