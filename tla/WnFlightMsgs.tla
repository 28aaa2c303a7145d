---------------------------- MODULE WnFlightMsgs ----------------------------
(***************************************************************************)
(* The server's messages as bytes: ServerHello, from WnServerHello, and    *)
(* how the certificate driver of src/wn_connect.c takes apart those of the *)
(* flight: EncryptedExtensions (wn_CheckEncExt, which the PSK driver calls *)
(* too), the list of Certificate, and CertificateVerify.  One step for     *)
(* what comes before the loop, one for each turn of it, one for leaving    *)
(* it.                                                                     *)
(***************************************************************************)
EXTENDS WnServerHello

CONSTANTS
    MaxChain,       \* WN_MAX_CHAIN
    Bodies,         \* message bodies that may arrive: [kind, msg]
    HonestBodies    \* the well-formed ones: [kind, items, msg, sni]

ASSUME FlightMsgsAssumption ==
    /\ MaxChain \in Nat \ {0}
    /\ \A b \in Bodies : b.kind \in {"EE", "CERT", "CV"} /\ b.msg \in Seq(Byte)

VARIABLES
    sniOffered,     \* sniOffered: ClientHello carried server_name
    items           \* certs[], certLens[]; for EE the extensions gone through

vars == <<parserVars, helloVars, sniOffered, items>>

(* Each parse begins anew.  pc is "start", "loop", "done". *)
FlightInit ==
    /\ \E b \in Bodies :
          /\ kind = b.kind /\ msg = b.msg
          /\ path \in IF b.kind = "EE" THEN {"psk", "cert"} ELSE {"cert"}
    /\ sniOffered \in IF path = "psk" THEN {FALSE} ELSE BOOLEAN
    /\ pc = "start"
    /\ r = ReaderInit
    /\ ret = "SUCCESS"
    /\ HelloVarsInit

Init ==
    /\ \/ HelloInit /\ sniOffered = FALSE
       \/ FlightInit
    /\ items = <<>>

SupportedGroups == 10       \* WN_EXT_SUPPORTED_GRP
ServerName == 0             \* WN_EXT_SERVER_NAME

(* The reader has come to r2; a condition that fails ends the parse. *)
Enter(r2, ok) ==
    /\ r' = r2
    /\ ret' = IF ok THEN "SUCCESS" ELSE "E_DECODE"
    /\ pc' = IF ok THEN "loop" ELSE "done"
    /\ UNCHANGED <<path, kind, msg, sniOffered, items>>

EncExtStart ==
    LET r1 == Skip(msg, r, 2) IN
    /\ pc = "start" /\ kind = "EE"
    /\ Enter(r1, ~r1.err /\ r1.pos + ReadU(msg, r, 2) = Len(msg))

(* Mutant: server_name is taken whether or not it was offered. *)
AllowedUnasked(et, el) == et = SupportedGroups \/ (et = ServerName /\ el = 0)

(* supported_groups, and the empty answer to a server_name that was sent *)
Allowed(et, el) ==
    et = SupportedGroups \/ (et = ServerName /\ sniOffered /\ el = 0)

(* Mutant: a list that runs short is noticed only behind the loop. *)
EncExtRetLate(err, et, el) ==
    IF ~err /\ ~Allowed(et, el) THEN "E_UNEXPECTED_MSG" ELSE "SUCCESS"

EncExtRet(err, et, el) ==
    IF err THEN "E_DECODE"
    ELSE IF ~Allowed(et, el) THEN "E_UNEXPECTED_MSG" ELSE "SUCCESS"

EncExtNext ==
    LET et == ReadU(msg, r, 2)
        atLen == Skip(msg, r, 2)
        el == ReadU(msg, atLen, 2)
        atBody == Skip(msg, atLen, 2)
        r2 == Skip(msg, atBody, el)
    IN /\ pc = "loop" /\ kind = "EE" /\ r.pos < Len(msg)
       /\ r' = r2
       /\ ret' = EncExtRet(r2.err, et, el)
       /\ pc' = IF ret' = "SUCCESS" THEN "loop" ELSE "done"
       /\ items' = IF r2.err THEN items
                   ELSE Append(items, [type |-> et, data |-> ReadBytes(msg, atBody, el)])
       /\ UNCHANGED <<path, kind, msg, sniOffered>>

(* Mutant: a list that ends before the message does is taken. *)
ListFillsLoosely(end) == end <= Len(msg)

ListFills(end) == end = Len(msg)

(* The request context must be empty and the list must fill the message. *)
CertStart ==
    LET ctxLen == ReadU(msg, r, 1)
        atList == Skip(msg, Skip(msg, r, 1), ctxLen)
        r2 == Skip(msg, atList, 3)
    IN /\ pc = "start" /\ kind = "CERT"
       /\ Enter(r2, /\ ~r2.err /\ ctxLen = 0
                    /\ ListFills(r2.pos + ReadU(msg, atList, 3)))

(* Mutant: the loop has no bound on the array. *)
CertRoomUnbounded == TRUE

CertRoom == Len(items) < MaxChain

CertTurn == kind = "CERT" /\ r.pos < Len(msg) /\ CertRoom /\ ~r.err

(* Mutant: the extensions of an entry are not skipped. *)
EntryEndAtExt(atExt, extl) == Skip(msg, atExt, 2)

EntryEnd(atExt, extl) == Skip(msg, Skip(msg, atExt, 2), extl)

(* certs[nc] and certLens[nc] are set before the bytes are known to be there. *)
CertNext ==
    LET cl == ReadU(msg, r, 3)
        atData == Skip(msg, r, 3)
        atExt == Skip(msg, atData, cl)
        extl == ReadU(msg, atExt, 2)
    IN /\ pc = "loop" /\ CertTurn
       /\ r' = EntryEnd(atExt, extl)
       /\ items' = Append(items, [off |-> atData.pos, len |-> cl, extl |-> extl])
       /\ UNCHANGED <<path, kind, msg, sniOffered, pc, ret>>

LoopEnds ==
    /\ pc = "loop"
    /\ (kind = "EE" /\ r.pos >= Len(msg)) \/ (kind = "CERT" /\ ~CertTurn)
    /\ ret' = IF r.err THEN "E_DECODE" ELSE "SUCCESS"
    /\ pc' = "done"
    /\ UNCHANGED <<path, kind, msg, sniOffered, r, items>>

(* The signature must span the rest of the message. *)
CvParse ==
    LET r2 == Skip(msg, Skip(msg, r, 2), 2)
        cvLen == ReadU(msg, Skip(msg, r, 2), 2)
    IN /\ pc = "start" /\ kind = "CV"
       /\ r' = r2
       /\ ret' = IF r2.err \/ r2.pos + cvLen # Len(msg) THEN "E_DECODE" ELSE "SUCCESS"
       /\ items' = <<[type |-> ReadU(msg, r, 2), off |-> r2.pos, len |-> cvLen]>>
       /\ pc' = "done"
       /\ UNCHANGED <<path, kind, msg, sniOffered>>

FlightNext == EncExtStart \/ EncExtNext \/ CertStart \/ CertNext \/ LoopEnds \/ CvParse

Next == \/ HelloNext /\ UNCHANGED <<sniOffered, items>>
        \/ FlightNext /\ UNCHANGED helloVars

(* Straight code: nothing in it waits. *)
Spec == Init /\ [][Next]_vars /\ WF_vars(Next)

-----------------------------------------------------------------------------
Slice(it) == SubSeq(msg, it.off + 1, it.off + it.len)

(* The reference encodings (RFC 8446 4.3.1, 4.4.2). *)
EncodeEe(es) ==
    LET exts == FlattenSeq([i \in DOMAIN es |->
                    U16(es[i].type) \o U16(Len(es[i].data)) \o es[i].data])
    IN U16(Len(exts)) \o exts

EncodeEntry(data, exts) == U24(Len(data)) \o data \o U16(Len(exts)) \o exts

EncodeCert(es) ==
    LET entries == FlattenSeq([i \in DOMAIN es |-> EncodeEntry(es[i].data, es[i].exts)])
    IN <<0>> \o U24(Len(entries)) \o entries

EncodeCv(e) == U16(e.type) \o U16(Len(e.data)) \o e.data

(* EncryptedExtensions tell the client nothing it has not asked for, server_name
   if sni; a CertificateVerify is one item, the scheme and the signature. *)
WellFormedBody(h) ==
    \/ /\ h.kind = "EE" /\ h.msg = EncodeEe(h.items)
       /\ h.items \in Seq([type : Word16, data : Seq(Byte)])
       /\ \A i \in DOMAIN h.items :
             \/ h.items[i].type = SupportedGroups
             \/ h.items[i].type = ServerName /\ h.items[i].data = <<>> /\ h.sni
    \/ /\ h.kind = "CERT" /\ h.msg = EncodeCert(h.items)
       /\ h.items \in Seq([data : Seq(Byte), exts : Seq(Byte)])
    \/ /\ h.kind = "CV" /\ h.msg = EncodeCv(h.items[1])
       /\ h.items \in Seq([type : Word16, data : Seq(Byte)]) /\ Len(h.items) = 1

ASSUME HonestBodiesAssumption == \A h \in HonestBodies : WellFormedBody(h)

(* Neither the reader nor the end of the extension loop stands behind the
   message, whatever the lengths in it say (wn_msg.c: a read that runs short
   latches err and moves nothing; wn_serverhello.c:108); everything
   a parse that succeeds points to lies in the message, and the arrays certs[]
   and certLens[] hold it: wn_VerifyChain and wn_CertVerify read these bytes
   unchecked. *)
SlicesInBounds ==
    /\ r \in Reader /\ r.pos <= Len(msg)
    /\ extEnd <= Len(msg)
    /\ kind = "CERT" => Len(items) <= MaxChain
    /\ (pc = "done" /\ ret = "SUCCESS" /\ kind \in {"CERT", "CV"}) =>
          \A i \in DOMAIN items : items[i].off + items[i].len <= Len(msg)

(* EncryptedExtensions that pass are a whole list of extensions the client
   has asked for, to the last byte (wn_connect.c:67). *)
EncExtExact ==
    (pc = "done" /\ ret = "SUCCESS" /\ kind = "EE") =>
        /\ msg = EncodeEe(items)
        /\ \A i \in DOMAIN items : \/ items[i].type = SupportedGroups
                                   \/ /\ items[i].type = ServerName
                                      /\ sniOffered /\ items[i].data = <<>>

(* A Certificate that passes begins with the entries handed to
   wn_VerifyChain, in order, with none left out between them; unless the array
   is full they are all there is in it. *)
CertListExact ==
    (pc = "done" /\ ret = "SUCCESS" /\ kind = "CERT") =>
        LET exts(it) == SubSeq(msg, it.off + it.len + 3, it.off + it.len + 2 + it.extl)
            entries == FlattenSeq([i \in DOMAIN items |->
                          EncodeEntry(Slice(items[i]), exts(items[i]))])
        IN /\ IsPrefix(<<0>> \o U24(Len(msg) - 4) \o entries, msg)
           /\ Len(items) < MaxChain => Len(msg) = 4 + Len(entries)

(* No well-formed message is refused, and of a chain the first WN_MAX_CHAIN
   certificates come out unchanged. *)
HonestBodyParsed ==
    pc = "done" =>
        \A h \in HonestBodies : (h.kind = kind /\ h.msg = msg /\ (h.sni => sniOffered)) =>
            /\ ret = "SUCCESS"
            /\ kind = "CERT" =>
                 /\ Len(items) = IF Len(h.items) < MaxChain THEN Len(h.items) ELSE MaxChain
                 /\ \A i \in DOMAIN items : Slice(items[i]) = h.items[i].data

(* What a parse accepts is what the grammar has.  A ServerHello that passes is
   an encoding of the fields handed on, with no extension twice; Encrypted-
   Extensions are the encoding of the extensions gone through, which may
   repeat; a Certificate is the encoding of the entries handed on, up to the
   first WN_MAX_CHAIN of them, behind which the code does not read. *)
ParsedIsEncoded == HelloExact /\ EncExtExact /\ CertListExact

(* And what the grammar has is accepted, with its contents unchanged. *)
HonestIsParsed == HonestHelloParsed /\ HonestBodyParsed

(* Every parse comes to an end on every message: each turn of a loop moves on
   or latches the error. *)
Terminates == <>(pc = "done")
=============================================================================
