----------------------------- MODULE WnConnect ------------------------------
(***************************************************************************)
(* The two handshake drivers of src/wn_connect.c: wn_Connect_Psk_ex (Path  *)
(* = "psk") and wn_connect_cert_impl (Path = "cert"), from the call to its *)
(* return, with the server and the transport (external).                   *)
(*                                                                         *)
(* Cryptography is symbolic.  A transcript is the sequence of messages     *)
(* hashed so far, the handshake secret is the pre-shared key (if any) and  *)
(* the transcript it is derived over, a Finished MAC is the secret and the *)
(* transcript it covers, and records are sealed as in WnRecord.            *)
(*                                                                         *)
(* The server's encrypted flight is a stream of bytes, cut into records in *)
(* any way.  A byte is the number of the message it belongs to, so that    *)
(* what the client finds at an offset of its reassembly buffer is the      *)
(* message whose bytes it has put there.                                   *)
(***************************************************************************)
EXTENDS WnRecord, SequencesExt

CONSTANT Setups     \* the handshakes explored: a function into records

(***************************************************************************)
(* A setup is which of the two drivers the caller calls, in which build,   *)
(* with which buffer, against which server, under which bounds:            *)
(*   path     "psk" or "cert"                                              *)
(*   alerts   WOLFNANO_SEND_ALERTS                                         *)
(*   hdrSz    bytes of a handshake message header (4 in the code)          *)
(*   accSz    sizeof(plain) in the PSK driver, WN_HS_ACC_SZ in the other   *)
(*   answers  what the server may answer: a ServerHello and an encrypted   *)
(*            flight, which is a sequence of messages                      *)
(*   pads     bytes of padding it may add to a record                      *)
(*   maxWire, maxCcs, maxFaults  bounds: records in flight towards the     *)
(*            client, CCS records of the server, and failed calls, alien,  *)
(*            lost or damaged records                                      *)
(***************************************************************************)
ASSUME ConnectAssumption ==
    \A h \in DOMAIN Setups :
        /\ Setups[h].path \in {"psk", "cert"}
        /\ Setups[h].alerts \in BOOLEAN
        /\ Setups[h].hdrSz \in Nat \ {0} /\ Setups[h].accSz \in Nat
        /\ Setups[h].pads \subseteq Nat /\ 0 \in Setups[h].pads
        /\ \E p \in Setups[h].pads : \A q \in Setups[h].pads : q <= p
        /\ Setups[h].maxWire \in Nat \ {0}
        /\ Setups[h].maxCcs \in Nat /\ Setups[h].maxFaults \in Nat

(***************************************************************************)
(* A handshake message: its type, its length with the header, and the code *)
(* the client's check of its contents comes to (wn_CheckEncExt, the parse  *)
(* of Certificate with wn_VerifyChain, wn_CertVerify given the right       *)
(* transcript, the Finished length), SUCCESS if it finds nothing wrong.    *)
(***************************************************************************)
FlightTypes == {"EE", "CERT", "CV", "FIN", "CERT_REQ", "OTHER"}

Message(hdrSz) == {m \in [type: FlightTypes, len: Nat, check: Codes] :
                      m.len >= hdrSz}

ASSUME MessageAssumption ==
    \A h \in DOMAIN Setups : \A a \in Setups[h].answers :
        /\ a.hello \in [check: Codes, pskSelected: BOOLEAN]
        /\ a.flight \in Seq(Message(Setups[h].hdrSz))

VARIABLES
    setup,      \* which handshake this is: never changes
    pc,         \* "call", "hello", "flight", "parse", "finish", "returned"
    ret,        \* the driver's return code
    sess,       \* the caller's wn_Session: its flags and application secret
    tc,         \* tc: the transcript
    keys,       \* hs: the handshake secret, once derived
    sSeq,       \* sSeq: the next server record
    acc,        \* plain[] / hsacc: the bytes of the flight received so far
    accOff,     \* accOff / off: the bytes already parsed
    got,        \* gotEE, gotCert, gotCv
    toServer,   \* records between ioSend and the server
    toClient,   \* records between the server and ioRecv
    srv,        \* the server
    hsWrote,    \* history: what the client sealed with its handshake key
    ccs,        \* history: ChangeCipherSpecs the server has sent
    faults      \* history: faults so far

netVars == <<toServer, toClient>>
bufVars == <<acc, accOff, got, sSeq>>
vars == <<pc, ret, sess, tc, keys, bufVars, netVars, srv, hsWrote, ccs, faults,
          setup>>

Path == Setups[setup].path
SendAlerts == Setups[setup].alerts
HdrSz == Setups[setup].hdrSz
AccSz == Setups[setup].accSz
Pads == Setups[setup].pads
MaxFaults == Setups[setup].maxFaults

None == <<>>                            \* no secret: zeroed or not derived yet
Cleared == [flags |-> {}, app |-> None]
OldSession == [flags |-> {"ESTABLISHED"}, app |-> <<"old">>]

Entry(m) == [type |-> m.type, val |-> m.val]
ClientHello(val) == [form |-> "ch", type |-> "CH", val |-> val]

(* Mutant: the early secret is taken from zeros in both drivers. *)
HsSecretNoPsk(psk, th) == <<"noPsk", th>>

(***************************************************************************)
(* wn_DeriveHsKeys, wn_SessionEstablish and wn_Tls13_FinishedMac.          *)
(***************************************************************************)
HsSecret(psk, th) == IF Path = "psk" THEN <<psk, th>> ELSE <<"noPsk", th>>
TrafficKey(side, secret, n) ==
    [key |-> <<side, secret>>, iv |-> <<side, secret>>, seq |-> n]
AppSecret(secret, th) == <<"app", secret, th>>
FinishedMac(side, secret, th) == <<side, secret, th>>

(***************************************************************************)
(* The server (external): its stage, whether it holds the credential the   *)
(* client expects (the PSK, or the key of a certificate under the anchor), *)
(* the hellos it has seen and sent, its flight, its bytes and how many are *)
(* already in records, and its record counter.                             *)
(***************************************************************************)
ServerInit(cred) ==
    [stage |-> "wait", cred |-> cred, ch |-> None, sh |-> None,
     hello |-> None, flight |-> <<>>, bytes |-> <<>>, sent |-> 0, seq |-> 0]

(* The bytes of a flight: the number of a message, once for each byte. *)
Bytes(f) == FlattenSeq([i \in 1 .. Len(f) |-> [k \in 1 .. f[i].len |-> i]])

FlightEntry(m) == [type |-> m.type, val |-> m.check]

(* The server's transcript before the i-th message of its flight. *)
SrvTranscript(i) ==
    <<srv.ch, srv.sh>> \o [k \in 1 .. i - 1 |-> FlightEntry(srv.flight[k])]
SrvSecret == HsSecret(srv.cred, <<srv.ch, srv.sh>>)
SrvFinished == SelectInSeq(srv.flight, LAMBDA m : m.type = "FIN")
SrvApp == AppSecret(SrvSecret, SrvTranscript(SrvFinished + 1))

Init ==
    /\ setup \in DOMAIN Setups
    /\ pc = "call"
    /\ ret = "SUCCESS"
    /\ sess \in {Cleared, OldSession}
    /\ tc = <<>>
    /\ keys = None
    /\ sSeq = 0
    /\ acc = <<>>
    /\ accOff = 0
    /\ got = {}
    /\ toServer = <<>>
    /\ toClient = <<>>
    /\ \E cred \in {"right", "wrong"} : srv = ServerInit(cred)
    /\ hsWrote = <<>>
    /\ ccs = 0
    /\ faults = 0

-----------------------------------------------------------------------------
Fault == faults < MaxFaults /\ faults' = faults + 1

(* wn_ErrToAlert *)
ErrToAlert(code) ==
    CASE code = "E_UNEXPECTED_MSG" -> "unexpected_message"
      [] code = "E_BAD_MAC"        -> "bad_record_mac"
      [] code = "E_DECODE"         -> "decode_error"
      [] code = "E_ILLEGAL_PARAM"  -> "illegal_parameter"
      [] code = "E_BAD_CERT"       -> "bad_certificate"
      [] OTHER                     -> "internal_error"

(***************************************************************************)
(* The way out of a driver.  With WOLFNANO_SEND_ALERTS the certificate     *)
(* driver seals a fatal alert with its handshake key if it has one; then   *)
(* the secrets are zeroed.  `n' is cHsSeq.                                 *)
(***************************************************************************)
Alert(code, n) ==
    Protect(TrafficKey("c", keys, n), "alert", <<"fatal", ErrToAlert(code)>>)

AlertIsSent == SendAlerts /\ Path = "cert" /\ keys # None

(* Mutant: the secrets are not zeroed on the way out. *)
LeaveSecrets(code) ==
    /\ pc' = "returned"
    /\ ret' = code
    /\ UNCHANGED keys
    /\ acc' = <<>> /\ accOff' = 0

Leave(code) ==
    /\ pc' = "returned"
    /\ ret' = code
    /\ keys' = None
    /\ acc' = <<>> /\ accOff' = 0

Fail(code, n) ==
    /\ Leave(code)
    /\ IF AlertIsSent
       THEN /\ hsWrote' = Append(hsWrote, Alert(code, n))
            /\ toServer' = Append(toServer, Alert(code, n))
       ELSE UNCHANGED <<hsWrote, toServer>>

(* Bad arguments: the caller's session is left as it was. *)
ConnectRefused ==
    /\ pc = "call"
    /\ Leave("E_INVALID_ARG")
    /\ UNCHANGED <<sess, tc, got, sSeq, netVars, srv, hsWrote, ccs, faults,
                   setup>>

(* The session is cleared, ClientHello is hashed and sent, then a CCS. *)
SendClientHello ==
    /\ pc = "call"
    /\ sess' = Cleared
    /\ tc' = <<Entry(ClientHello("orig"))>>
    /\ toServer' = <<ClientHello("orig"), Plain("ccs")>>
    /\ pc' = "hello"
    /\ UNCHANGED <<ret, keys, bufVars, toClient, srv, hsWrote, ccs, faults,
                   setup>>

(* Mutant: the session is cleared only after ClientHello is out. *)
SendClientHelloFailsUncleared ==
    /\ pc = "call"
    /\ Fault
    /\ toServer' \in {<<>>, <<ClientHello("orig")>>,
                      <<ClientHello("orig"), Plain("ccs")>>}
    /\ Leave("E_CRYPTO")
    /\ UNCHANGED <<sess, tc, got, sSeq, toClient, srv, hsWrote, ccs, setup>>

SendClientHelloFails ==
    /\ pc = "call"
    /\ Fault
    /\ sess' = Cleared
    /\ toServer' \in {<<>>, <<ClientHello("orig")>>,
                      <<ClientHello("orig"), Plain("ccs")>>}
    /\ Leave("E_CRYPTO")
    /\ UNCHANGED <<tc, got, sSeq, toClient, srv, hsWrote, ccs, setup>>

(* A wolfCrypt call or ioRecv fails while the handshake is under way. *)
CallFails ==
    /\ pc \in {"hello", "flight", "parse"}
    /\ Fault
    /\ Fail("E_CRYPTO", 0)
    /\ UNCHANGED <<sess, tc, got, sSeq, toClient, srv, ccs, setup>>

(* The server has nothing more to say: ioRecv reports the end. *)
IoRecvEnds ==
    /\ pc \in {"hello", "flight"}
    /\ toClient = <<>>
    /\ srv.stage = "flight" /\ srv.sent = Len(srv.bytes)
    /\ Fail("E_CRYPTO", 0)
    /\ UNCHANGED <<sess, tc, got, sSeq, toClient, srv, ccs, faults, setup>>

-----------------------------------------------------------------------------
(* ServerHello: CCS records are skipped. *)
SkipCcs ==
    /\ pc \in {"hello", "flight"}
    /\ toClient # <<>> /\ Head(toClient).form = "ccs"
    /\ toClient' = Tail(toClient)
    /\ UNCHANGED <<pc, ret, sess, tc, keys, bufVars, toServer, srv, hsWrote,
                   ccs, faults, setup>>

(* wn_RecvRecord: a length it does not take, a CCS that is none. *)
FramingError(rec) == CASE rec.form = "badLength" -> "E_CRYPTO"
                       [] rec.form = "badCcs"    -> "E_DECODE"
                       [] OTHER                  -> "SUCCESS"

(* wn_ServerHello_Parse, the HelloRetryRequest test, the parameter test    *)
(* and wn_KeyShare_Shared, in this order.                                  *)
HelloError(rec) ==
    IF FramingError(rec) # "SUCCESS" THEN FramingError(rec)
    ELSE IF rec.form # "hello" THEN "E_UNEXPECTED_MSG"
    ELSE IF rec.check # "SUCCESS" THEN rec.check
    ELSE IF rec.pskSelected # (Path = "psk") THEN "E_ILLEGAL_PARAM"
    ELSE "SUCCESS"

RecvServerHello ==
    /\ pc = "hello"
    /\ toClient # <<>> /\ Head(toClient).form # "ccs"
    /\ LET rec == Head(toClient) IN
          IF HelloError(rec) = "SUCCESS"
          THEN /\ tc' = Append(tc, Entry(rec))
               /\ keys' = HsSecret("right", tc')
               /\ pc' = "flight"
               /\ UNCHANGED <<ret, acc, accOff, toServer, hsWrote>>
          ELSE Fail(HelloError(rec), 0) /\ UNCHANGED tc
    /\ toClient' = Tail(toClient)
    /\ UNCHANGED <<sess, got, sSeq, srv, ccs, faults, setup>>

-----------------------------------------------------------------------------
(***************************************************************************)
(* A record of the server's flight, up to where its bytes are appended to  *)
(* the reassembly buffer.  The PSK driver decrypts into that buffer and    *)
(* wants room for the inner plaintext with type byte and padding; the      *)
(* certificate driver decrypts in scratch and wants room for the content.  *)
(* Locals of the driver (tc, sSeq, got) are left alone where it fails: they *)
(* are not read again.                                                     *)
(***************************************************************************)
(* Mutants: one byte too strict, one byte too lax. *)
NoRoomStrict(rec) ==
    IF Path = "psk" THEN Len(rec.body.bytes) + 1 + rec.body.pad >= AccSz - Len(acc)
                    ELSE Len(acc) + Len(rec.body.bytes) >= AccSz
NoRoomLax(rec) ==
    IF Path = "psk" THEN Len(rec.body.bytes) + rec.body.pad > AccSz - Len(acc)
                    ELSE Len(acc) + Len(rec.body.bytes) > AccSz + 1

NoRoom(rec) ==
    IF Path = "psk" THEN Len(rec.body.bytes) + 1 + rec.body.pad > AccSz - Len(acc)
                    ELSE Len(acc) + Len(rec.body.bytes) > AccSz

Opened(rec) == Unprotect(TrafficKey("s", keys, sSeq), rec)

FlightError(rec) ==
    IF FramingError(rec) # "SUCCESS" THEN FramingError(rec)
    ELSE IF rec.form \notin {"sealed", "short"} THEN "E_UNEXPECTED_MSG"
    ELSE IF Path = "psk" /\ (rec.form = "short" \/ NoRoom(rec)) THEN "E_DECODE"
    ELSE IF Opened(rec) # "SUCCESS" THEN Opened(rec)
    ELSE IF rec.ctype # "handshake" THEN "E_UNEXPECTED_MSG"
    ELSE IF NoRoom(rec) THEN "E_DECODE"
    ELSE "SUCCESS"

(* Mutant: sSeq does not advance. *)
RecvFlightKeepsSeq ==
    /\ pc = "flight"
    /\ toClient # <<>> /\ Head(toClient).form # "ccs"
    /\ LET rec == Head(toClient) IN
          IF FlightError(rec) = "SUCCESS"
          THEN /\ acc' = acc \o rec.body.bytes
               /\ pc' = "parse"
               /\ UNCHANGED <<ret, keys, accOff, toServer, hsWrote>>
          ELSE Fail(FlightError(rec), 0)
    /\ toClient' = Tail(toClient)
    /\ UNCHANGED <<sess, tc, got, sSeq, srv, ccs, faults, setup>>

RecvFlight ==
    /\ pc = "flight"
    /\ toClient # <<>> /\ Head(toClient).form # "ccs"
    /\ LET rec == Head(toClient) IN
          IF FlightError(rec) = "SUCCESS"
          THEN /\ acc' = acc \o rec.body.bytes
               /\ sSeq' = sSeq + 1
               /\ pc' = "parse"
               /\ UNCHANGED <<ret, keys, accOff, toServer, hsWrote>>
          ELSE Fail(FlightError(rec), 0) /\ UNCHANGED sSeq
    /\ toClient' = Tail(toClient)
    /\ UNCHANGED <<sess, tc, got, srv, ccs, faults, setup>>

(***************************************************************************)
(* The inner loop: the message at accOff, if its header and then its body  *)
(* are there.  The PSK driver also refuses a length that can never fit.    *)
(***************************************************************************)
HeaderThere == Len(acc) - accOff >= HdrSz
Number == acc[accOff + 1]
Msg == srv.flight[Number]
NeverFits == Path = "psk" /\ accOff + Msg.len > AccSz
(* Mutant: a message that ends with the record is taken for incomplete. *)
MsgThereBefore == HeaderThere /\ accOff + Msg.len < Len(acc)

MsgThere == HeaderThere /\ accOff + Msg.len <= Len(acc)

(* Mutant: an incomplete message is looked at again and again. *)
ParseMoreSpins ==
    /\ pc = "parse"
    /\ ~MsgThere
    /\ ~(HeaderThere /\ NeverFits)
    /\ UNCHANGED vars

ParseMore ==
    /\ pc = "parse"
    /\ ~MsgThere
    /\ ~(HeaderThere /\ NeverFits)
    /\ pc' = "flight"
    /\ UNCHANGED <<ret, sess, tc, keys, bufVars, netVars, srv, hsWrote, ccs,
                   faults, setup>>

ParseNeverFits ==
    /\ pc = "parse"
    /\ HeaderThere /\ NeverFits
    /\ Fail("E_DECODE", 0)
    /\ UNCHANGED <<sess, tc, got, sSeq, toClient, srv, ccs, faults, setup>>

(* Mutant: Certificate may come before EncryptedExtensions. *)
FlightOrderNoEE(type) ==
    CASE type = "EE"       -> IF "EE" \in got THEN "E_UNEXPECTED_MSG" ELSE "SUCCESS"
      [] type = "CERT_REQ" -> "E_UNSUPPORTED"
      [] type = "CERT"     -> IF "CERT" \in got THEN "E_UNEXPECTED_MSG" ELSE "SUCCESS"
      [] type = "CV"       -> IF "CERT" \notin got \/ "CV" \in got
                              THEN "E_UNEXPECTED_MSG" ELSE "SUCCESS"
      [] type = "FIN"      -> IF "CV" \notin got THEN "E_UNEXPECTED_MSG" ELSE "SUCCESS"
      [] OTHER             -> "E_UNEXPECTED_MSG"

(* Mutant: Finished may come before EncryptedExtensions. *)
PskOrderNoEE(type) ==
    CASE type = "EE"  -> IF "EE" \in got THEN "E_UNEXPECTED_MSG" ELSE "SUCCESS"
      [] type = "FIN" -> "SUCCESS"
      [] OTHER        -> "E_UNEXPECTED_MSG"

(* wn_FlightOrder; the PSK driver's own test of the order. *)
FlightOrder(type) ==
    CASE type = "EE"       -> IF "EE" \in got THEN "E_UNEXPECTED_MSG" ELSE "SUCCESS"
      [] type = "CERT_REQ" -> "E_UNSUPPORTED"
      [] type = "CERT"     -> IF "EE" \notin got \/ "CERT" \in got
                              THEN "E_UNEXPECTED_MSG" ELSE "SUCCESS"
      [] type = "CV"       -> IF "CERT" \notin got \/ "CV" \in got
                              THEN "E_UNEXPECTED_MSG" ELSE "SUCCESS"
      [] type = "FIN"      -> IF "CV" \notin got THEN "E_UNEXPECTED_MSG" ELSE "SUCCESS"
      [] OTHER             -> "E_UNEXPECTED_MSG"

PskOrder(type) ==
    CASE type = "EE"  -> IF "EE" \in got THEN "E_UNEXPECTED_MSG" ELSE "SUCCESS"
      [] type = "FIN" -> IF "EE" \notin got THEN "E_BAD_MAC" ELSE "SUCCESS"
      [] OTHER        -> "E_UNEXPECTED_MSG"

Order(type) == IF Path = "psk" THEN PskOrder(type) ELSE FlightOrder(type)

(* Mutant: the signature of CertificateVerify is not checked. *)
ClaimErrorUnsigned ==
    IF Msg.type = "FIN" /\ FinishedMac("s", SrvSecret, SrvTranscript(Number))
                             # FinishedMac("s", keys, tc)
    THEN "E_BAD_MAC" ELSE "SUCCESS"

(* What the message claims of the transcript before it: the signature of   *)
(* CertificateVerify is made with the server's credential over it, the MAC *)
(* of Finished with the server's handshake secret.                         *)
ClaimError ==
    LET th == SrvTranscript(Number) IN
    CASE Msg.type = "CV"  -> IF srv.cred = "right" /\ th = tc
                             THEN "SUCCESS" ELSE "E_BAD_CERT"
      [] Msg.type = "FIN" -> IF FinishedMac("s", SrvSecret, th)
                                  = FinishedMac("s", keys, tc)
                             THEN "SUCCESS" ELSE "E_BAD_MAC"
      [] OTHER            -> "SUCCESS"

(* Mutant: the result of the content check is dropped. *)
MessageErrorUnchecked ==
    IF Order(Msg.type) # "SUCCESS" THEN Order(Msg.type) ELSE ClaimError

MessageError ==
    IF Order(Msg.type) # "SUCCESS" THEN Order(Msg.type)
    ELSE IF Msg.check # "SUCCESS" THEN Msg.check
    ELSE ClaimError

ParseMessage ==
    /\ pc = "parse"
    /\ MsgThere /\ ~NeverFits
    /\ IF MessageError = "SUCCESS"
       THEN /\ accOff' = accOff + Msg.len
            /\ got' = got \cup {Msg.type}
            /\ tc' = Append(tc, FlightEntry(Msg))
            /\ pc' = IF Msg.type = "FIN" THEN "finish" ELSE "parse"
            /\ UNCHANGED <<ret, keys, acc, toServer, hsWrote>>
       ELSE Fail(MessageError, 0) /\ UNCHANGED <<got, tc>>
    /\ UNCHANGED <<sess, sSeq, toClient, srv, ccs, faults, setup>>

-----------------------------------------------------------------------------
(* Mutant: the client's MAC leaves out the server's Finished. *)
ClientFinishedShort == Protect(TrafficKey("c", keys, 0), "handshake",
                               FinishedMac("c", keys, Front(tc)))

(***************************************************************************)
(* Client Finished, sealed with sequence number 0, then                    *)
(* wn_SessionEstablish.  Nothing is read in between.                       *)
(***************************************************************************)
ClientFinished == Protect(TrafficKey("c", keys, 0), "handshake",
                          FinishedMac("c", keys, tc))

Establish ==
    /\ pc = "finish"
    /\ hsWrote' = Append(hsWrote, ClientFinished)
    /\ toServer' = Append(toServer, ClientFinished)
    /\ sess' = [flags |-> {"ESTABLISHED"}, app |-> AppSecret(keys, tc)]
    /\ Leave("SUCCESS")
    /\ UNCHANGED <<tc, got, sSeq, toClient, srv, ccs, faults, setup>>

(* GetHash or FinishedMac fails (cHsSeq is still 0), or Protect (it is 1). *)
FinishFails ==
    /\ pc = "finish"
    /\ Fault
    /\ \E n \in {0, 1} : Fail("E_CRYPTO", n)
    /\ UNCHANGED <<sess, tc, got, sSeq, toClient, srv, ccs, setup>>

(* Mutants: the alert is sealed with the number Finished has used; the     *)
(* session is marked established before the keys are known to be good.     *)
EstablishFailsSeq0 ==
    /\ pc = "finish"
    /\ Fault
    /\ Leave("E_CRYPTO")
    /\ hsWrote' = hsWrote \o <<ClientFinished, Alert("E_CRYPTO", 0)>>
    /\ UNCHANGED <<sess, toServer, tc, got, sSeq, toClient, srv, ccs, setup>>
EstablishFailsFlagged ==
    /\ pc = "finish"
    /\ Fault
    /\ Leave("E_CRYPTO")
    /\ sess' = [flags |-> {"ESTABLISHED"}, app |-> AppSecret(keys, tc)]
    /\ hsWrote' = Append(hsWrote, ClientFinished)
    /\ UNCHANGED <<toServer, tc, got, sSeq, toClient, srv, ccs, setup>>

(* Finished is sealed, then ioSend or wn_SessionEstablish fails; the       *)
(* latter may leave secrets in sess, but no flag.                          *)
EstablishFails ==
    /\ pc = "finish"
    /\ Fault
    /\ Leave("E_CRYPTO")
    /\ hsWrote' = hsWrote \o IF AlertIsSent THEN <<ClientFinished, Alert("E_CRYPTO", 1)>>
                                            ELSE <<ClientFinished>>
    /\ \E out \in {<<>>, <<ClientFinished>>, <<Torn(ClientFinished)>>} :
          /\ toServer' = toServer \o out \o IF AlertIsSent THEN <<Alert("E_CRYPTO", 1)>>
                                                           ELSE <<>>
          /\ sess' \in IF out # <<ClientFinished>> THEN {Cleared}
                       ELSE {Cleared, [flags |-> {}, app |-> AppSecret(keys, tc)]}
    /\ UNCHANGED <<tc, got, sSeq, toClient, srv, ccs, setup>>

-----------------------------------------------------------------------------
(* The server (external). *)
ServerSend(rec) ==
    /\ Len(toClient) < Setups[setup].maxWire
    /\ toClient' = Append(toClient, rec)

Answer(hello) == [form |-> "hello", type |-> "SH", val |-> "orig",
                  check |-> hello.check, pskSelected |-> hello.pskSelected]

ServerHello ==
    /\ srv.stage = "wait"
    /\ toServer # <<>> /\ Head(toServer).form = "ch"
    /\ toServer' = Tail(toServer)
    /\ \E a \in Setups[setup].answers :
          /\ ServerSend(Answer(a.hello))
          /\ srv' = [srv EXCEPT !.stage = "flight", !.ch = Entry(Head(toServer)),
                                !.sh = [type |-> "SH", val |-> "orig"],
                                !.hello = a.hello, !.flight = a.flight,
                                !.bytes = Bytes(a.flight)]
    /\ UNCHANGED <<pc, ret, sess, tc, keys, bufVars, hsWrote, ccs, faults,
                   setup>>

ServerSealed(ctype, n, pad) ==
    Protect(TrafficKey("s", SrvSecret, srv.seq), ctype,
            [bytes |-> SubSeq(srv.bytes, srv.sent + 1, srv.sent + n),
             pad |-> pad])

ServerRecord(n, pad) ==
    /\ srv.stage = "flight"
    /\ srv.sent + n <= Len(srv.bytes)
    /\ ServerSend(ServerSealed("handshake", n, pad))
    /\ srv' = [srv EXCEPT !.sent = @ + n, !.seq = @ + 1]
    /\ UNCHANGED <<pc, ret, sess, tc, keys, bufVars, toServer, hsWrote, ccs,
                   faults, setup>>

ServerCcs ==
    /\ srv.stage = "flight"
    /\ ccs < Setups[setup].maxCcs
    /\ ccs' = ccs + 1
    /\ ServerSend(Plain("ccs"))
    /\ UNCHANGED <<pc, ret, sess, tc, keys, bufVars, toServer, srv, hsWrote,
                   faults, setup>>

(* A record that has no place in the flight: sealed with another content   *)
(* type or with none, an alert in plaintext, one too short to be sealed, a *)
(* malformed CCS, or one whose length is refused.                          *)
ServerAlien ==
    /\ srv.stage = "flight"
    /\ Fault
    /\ \/ /\ \E ctype \in {"appdata", "padding"} :
                ServerSend(ServerSealed(ctype, 0, 0))
          /\ srv' = [srv EXCEPT !.seq = @ + 1]
       \/ /\ \E form \in {"plainAlert", "short", "badCcs", "badLength"} :
                ServerSend(Plain(form))
          /\ UNCHANGED srv
    /\ UNCHANGED <<pc, ret, sess, tc, keys, bufVars, toServer, hsWrote, ccs,
                   setup>>

ServerReads ==
    /\ srv.stage = "flight"
    /\ toServer # <<>>
    /\ toServer' = Tail(toServer)
    /\ LET rec == Head(toServer)
           th == SrvTranscript(SrvFinished + 1)
           opens == /\ rec.form = "sealed" /\ rec.ctype = "handshake"
                    /\ Unprotect(TrafficKey("c", SrvSecret, 0), rec) = "SUCCESS"
                    /\ rec.body = FinishedMac("c", SrvSecret, th)
       IN srv' = IF rec.form = "ccs" THEN srv
                 ELSE [srv EXCEPT !.stage = IF opens THEN "done" ELSE "dead"]
    /\ UNCHANGED <<pc, ret, sess, tc, keys, bufVars, toClient, hsWrote, ccs,
                   faults, setup>>

(* The transport alters a hello in a way that parses, or loses, repeats or *)
(* damages a record towards the client.                                    *)
AlterHello ==
    /\ Fault
    /\ \/ /\ toServer # <<>> /\ Head(toServer) = ClientHello("orig")
          /\ toServer' = [toServer EXCEPT ![1] = ClientHello("altered")]
          /\ UNCHANGED toClient
       \/ /\ toClient # <<>> /\ Head(toClient).form = "hello"
          /\ toClient' = [toClient EXCEPT ![1].val = "altered"]
          /\ UNCHANGED toServer
    /\ UNCHANGED <<pc, ret, sess, tc, keys, bufVars, srv, hsWrote, ccs, setup>>

DamageRecord ==
    /\ Fault
    /\ \E i \in DOMAIN toClient :
          \/ toClient' = RemoveAt(toClient, i)
          \/ toClient' = Append(toClient, toClient[i])
          \/ /\ toClient[i].form = "sealed"
             /\ toClient' = [toClient EXCEPT ![i] = Torn(toClient[i])]
    /\ UNCHANGED <<pc, ret, sess, tc, keys, bufVars, toServer, srv, hsWrote,
                   ccs, setup>>

-----------------------------------------------------------------------------
Client == \/ ConnectRefused \/ SendClientHello \/ SendClientHelloFails
          \/ CallFails \/ IoRecvEnds
          \/ SkipCcs \/ RecvServerHello \/ RecvFlight
          \/ ParseMore \/ ParseNeverFits \/ ParseMessage
          \/ Establish \/ FinishFails \/ EstablishFails

(* The server writes its flight to the end, in records of any size. *)
ServerWrites == \/ ServerHello
                \/ \E n \in 1 .. Len(srv.bytes), pad \in Pads :
                      ServerRecord(n, pad)

Server == ServerWrites \/ ServerCcs \/ ServerAlien \/ ServerReads

Next == Client \/ Server \/ AlterHello \/ DamageRecord

Spec == Init /\ [][Next]_vars

(***************************************************************************)
(* A driver waits only in ioRecv, and goes on when a record is there; the  *)
(* server writes the flight it has begun and reads what it is sent.        *)
(***************************************************************************)
FairSpec == Spec /\ WF_vars(Client) /\ WF_vars(ServerWrites)
                 /\ WF_vars(ServerReads)

-----------------------------------------------------------------------------
(***************************************************************************)
(* Properties                                                              *)
(***************************************************************************)
LegalFlight == IF Path = "psk" THEN <<"EE", "FIN">>
                               ELSE <<"EE", "CERT", "CV", "FIN">>

Types(q) == [k \in 1 .. Len(q) |-> q[k].type]

NewSession == sess.flags = {"ESTABLISHED"} /\ sess # OldSession

(* Types; no secret outlives the call, and the caller's session is clear   *)
(* from the moment ClientHello is built until wn_SessionEstablish.         *)
TypeOK ==
    /\ pc \in {"call", "hello", "flight", "parse", "finish", "returned"}
    /\ ret \in Codes
    /\ sess.flags \subseteq {"ESTABLISHED"}
    /\ sSeq \in Nat /\ accOff \in Nat
    /\ got \subseteq FlightTypes
    /\ srv.stage \in {"wait", "flight", "done", "dead"}
    /\ ccs \in 0 .. Setups[setup].maxCcs /\ faults \in 0 .. MaxFaults
    /\ (keys # None) = (pc \in {"flight", "parse", "finish"})
    /\ pc \in {"hello", "flight", "parse", "finish"} => sess = Cleared

(* A session comes out of the handshake only with a server that holds the  *)
(* credential (the PSK or a certified key), with the application secrets   *)
(* that server derives; and the server accepts a client Finished only over *)
(* the transcript it has itself: a hello altered on the way, or records    *)
(* lost, repeated or damaged, never go unnoticed on both sides (transcript *)
(* and key schedule calls of both drivers).                                *)
Agreement ==
    /\ NewSession => srv.cred = "right" /\ sess.app = SrvApp
    /\ srv.stage = "done" => tc = SrvTranscript(SrvFinished + 1)

(* A session comes only out of the flight EE, (Certificate,                *)
(* CertificateVerify,) Finished: no message left out, doubled, swapped or  *)
(* with contents the checks refuse, however the flight is cut into records *)
(* (gotEE, gotCert, gotCv and wn_FlightOrder).                             *)
FlightExact ==
    NewSession =>
        /\ Types(SubSeq(tc, 3, Len(tc))) = LegalFlight
        /\ \A k \in 3 .. Len(tc) : tc[k].val = "SUCCESS"

(* What has been reassembled is what the server wrote, from its first byte *)
(* and within the buffer, and parsing stands at the start of a message     *)
(* (accLen, accOff / off, sSeq).                                           *)
ReassemblyFaithful ==
    /\ IsPrefix(acc, srv.bytes)
    /\ accOff <= Len(acc) /\ Len(acc) <= AccSz
    /\ (0 < accOff /\ accOff < Len(acc)) => acc[accOff] # acc[accOff + 1]

MaxPad == CHOOSE p \in Pads : \A q \in Pads : q <= p
Fits(bytes) == IF Path = "psk" THEN Len(bytes) + 1 + MaxPad <= AccSz
                               ELSE Len(bytes) <= AccSz
Honest ==
    /\ srv.stage # "wait" /\ srv.cred = "right"
    /\ srv.hello.check = "SUCCESS" /\ srv.hello.pskSelected = (Path = "psk")
    /\ Types(srv.flight) = LegalFlight
    /\ \A k \in DOMAIN srv.flight : srv.flight[k].check = "SUCCESS"
    /\ Fits(srv.bytes)

(* Nothing but a fault keeps the client from a server that follows the     *)
(* protocol: wherever its flight is cut, wherever it puts a CCS, up to the *)
(* last byte the reassembly buffer can take.                               *)
HonestSucceeds ==
    (pc = "returned" /\ faults = 0 /\ Honest) => ret = "SUCCESS"

(* The client's handshake key seals no two records with one sequence       *)
(* number: the 0 of Finished and cHsSeq of a fatal alert never meet.       *)
HsNonceUnique ==
    \A i, j \in DOMAIN hsWrote :
        (i # j /\ hsWrote[i].key = hsWrote[j].key)
            => hsWrote[i].seq # hsWrote[j].seq

(* A driver that fails leaves no established session behind ("no half-open *)
(* session on failure"), unless its arguments were refused, and then the   *)
(* session the caller had is as it was and nothing has been sent.          *)
NoSessionOnFailure ==
    (pc = "returned" /\ ret # "SUCCESS")
        => sess.flags = {} \/ (sess = OldSession /\ toServer = <<>> /\ tc = <<>>)

(* The driver returns: every path through the loops over records, CCS and  *)
(* messages ends once the server has written what it has to write.         *)
ConnectReturns == <>(pc = "returned")

(* When the driver returns a session, the server in the end accepts the    *)
(* client's Finished and completes too.                                    *)
ServerCompletes == NewSession ~> (NewSession /\ srv.stage = "done")

(* docs/Macros.md:30 on WOLFNANO_SEND_ALERTS: "emit a fatal TLS alert on   *)
(* handshake failure", stated for failures that have a key to seal it.     *)
AlertOnFailure ==
    [][(SendAlerts /\ keys # None /\ pc' = "returned" /\ ret' # "SUCCESS")
          => /\ Len(hsWrote') > Len(hsWrote)
             /\ Last(hsWrote').ctype = "alert"]_vars

(* wn_flight.h:22-24: the flight is EncryptedExtensions, Certificate,      *)
(* CertificateVerify, Finished, "in that order, no duplicates, nothing     *)
(* else": when Finished is accepted no byte of another message is left.    *)
NothingAfterFinished == pc = "finish" => accOff = Len(acc)
=============================================================================
