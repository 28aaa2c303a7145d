-------------------------- MODULE WnSessionProofs ---------------------------
(***************************************************************************)
(* Theorems about WnSession: type correctness and NonceUnique, for every   *)
(* value of the constants.                                                 *)
(***************************************************************************)
EXTENDS WnSession, SequenceTheorems, TLAPS

-----------------------------------------------------------------------------
(* Lemmas about the operators of WnRecord and WnSession. *)

LEMMA BumpType ==
    ASSUME NEW d \in Direction
    PROVE  Bump(d) \in Direction
<1>1. (d.seq + 1) % Word64 \in 0 .. Word64 - 1
  BY Word64Assumption DEF Direction
<1> QED BY <1>1 DEF Bump, Direction

LEMMA KeyUpdatedType ==
    ASSUME NEW d \in Direction
    PROVE  /\ KeyUpdated(d) \in Direction
           /\ [KeyUpdated(d) EXCEPT !.seq = 0] \in Direction
           /\ KeyUpdateFailures(d) \subseteq Direction
<1>1. 0 \in 0 .. Word64 - 1
  BY Word64Assumption
<1>2. d.secret + 1 \in Nat
  BY DEF Direction
<1>3. KeyUpdated(d) \in Direction
  BY <1>2 DEF KeyUpdated, Direction
<1>4. [KeyUpdated(d) EXCEPT !.seq = 0] \in Direction
  BY <1>1, <1>3 DEF Direction
<1>5. [d EXCEPT !.secret = d.secret + 1] \in Direction
  BY <1>2 DEF Direction
<1>6. [d EXCEPT !.secret = d.secret + 1, !.key = d.secret + 1] \in Direction
  BY <1>2 DEF Direction
<1> QED BY <1>3, <1>4, <1>5, <1>6 DEF KeyUpdateFailures

LEMMA ConstantDirections ==
    FreshDirection \in Direction /\ ForceZeroed \in Direction
BY Word64Assumption DEF FreshDirection, ForceZeroed, Direction

LEMMA BodyTypes ==
    /\ \A id \in Nat, len \in Nat : Data(id, len) \in Body
    /\ \A q \in Seq(HsMsg \cup Alerts) : Messages(q) \in Body
    /\ Messages(<<>>) \in Body
    /\ Messages(<<"ku0">>) \in Body
    /\ Messages(<<"close_notify">>) \in Body
    /\ \A a \in Alerts : Messages(<<a>>) \in Body
BY DEF Data, Messages, Body, HsMsg, Alerts

LEMMA ProtectType ==
    ASSUME NEW d \in Direction, NEW ctype \in CTypes, NEW body \in Body
    PROVE  Protect(d, ctype, body) \in Sealed
BY DEF Protect, Sealed, Direction

LEMMA TornType ==
    ASSUME NEW rec \in Sealed
    PROVE  Torn(rec) \in Sealed
BY DEF Torn, Sealed

LEMMA HsBodyType ==
    ASSUME NEW b \in HsBodies
    PROVE  b \in Seq(HsMsg \cup Alerts)
BY SessionAssumption

LEMMA WithoutType ==
    ASSUME NEW S, NEW q \in Seq(S), NEW i \in DOMAIN q
    PROVE  Without(q, i) \in Seq(S)
<1>1. i \in 1 .. Len(q) /\ Len(q) \in Nat
  BY LenProperties
<1>2. SubSeq(q, 1, i - 1) \in Seq(S)
  BY <1>1, SubSeqProperties, ElementOfSeq
<1>3. SubSeq(q, i + 1, Len(q)) \in Seq(S)
  BY <1>1, SubSeqProperties, ElementOfSeq
<1> QED BY <1>2, <1>3, ConcatProperties DEF Without

LEMMA InsertType ==
    ASSUME NEW S, NEW q \in Seq(S), NEW i \in 0 .. Len(q), NEW e \in S
    PROVE  Insert(q, i, e) \in Seq(S)
<1>1. Len(q) \in Nat
  BY LenProperties
<1>2. SubSeq(q, 1, i) \in Seq(S)
  BY <1>1, SubSeqProperties, ElementOfSeq
<1>3. SubSeq(q, i + 1, Len(q)) \in Seq(S)
  BY <1>1, SubSeqProperties, ElementOfSeq
<1>4. SubSeq(q, 1, i) \o <<e>> \in Seq(S)
  BY <1>2, ConcatProperties
<1> QED BY <1>3, <1>4, ConcatProperties DEF Insert

(* Every record on the wire to the client that opens is a sealed one. *)
LEMMA OpenedIsSealed ==
    ASSUME NEW ctype, TypeOK, RecvOpened(ctype)
    PROVE  Head(toClient) \in Sealed
<1>1. Head(toClient) \in OnWire
  BY DEF RecvOpened, TypeOK, WireTypeOK
<1>2. ASSUME NEW form \in PlainForms, Head(toClient) = Plain(form)
      PROVE  RecordError(Head(toClient)) # "SUCCESS"
  BY <1>2 DEF Plain, PlainForms, RecordError, BadLength, Unprotect
<1> QED BY <1>1, <1>2 DEF OnWire, RecvOpened

-----------------------------------------------------------------------------
(* Type correctness: one step per action. *)

LEMMA TypeInit == Init => TypeOK
<1>1. MaxFaults \in Nat /\ MaxCryptoFails \in Nat
  BY SessionAssumption
<1>2. Init => CallTypeOK
  BY ConstantDirections DEF Init, CallTypeOK, Pcs, Codes
<1>3. Init => WireTypeOK
  BY DEF Init, WireTypeOK
<1>4. Init => PeerTypeOK
  <2> SUFFICES ASSUME Init PROVE PeerTypeOK
    OBVIOUS
  <2>1. pEof \in BOOLEAN
    BY Zenon DEF Init
  <2>2. pw \in Direction /\ pr \in Direction
    BY ConstantDirections DEF Init
  <2>3. peer \in {"open", "closed", "dead"} /\ pdata \in Nat
    BY DEF Init
  <2>4. plog \in Seq(Sealed) /\ pgot \in Seq(Nat)
    BY DEF Init
  <2> QED BY <2>1, <2>2, <2>3, <2>4 DEF PeerTypeOK
<1>5. Init => HistoryTypeOK
  BY <1>1 DEF Init, HistoryTypeOK
<1> QED BY <1>2, <1>3, <1>4, <1>5 DEF TypeOK

(* The steps of IoSend, Emit and Return that many actions share. *)
LEMMA EmitType ==
    ASSUME NEW rec \in Sealed, NEW ok \in BOOLEAN, TypeOK, Emit(rec, ok)
    PROVE  /\ wrote' \in Seq(Sealed)
           /\ toPeer' \in Seq(Sealed)
           /\ faults' \in 0 .. MaxFaults
<1>1. wrote' \in Seq(Sealed)
  BY DEF Emit, TypeOK, HistoryTypeOK
<1>2. Torn(rec) \in Sealed
  BY TornType
<1>3. toPeer' \in Seq(Sealed)
  <2>1. toPeer' \in {toPeer, Append(toPeer, rec), Append(toPeer, Torn(rec))}
    BY Zenon DEF Emit, IoSend
  <2>2. toPeer \in Seq(Sealed)
    BY DEF TypeOK, WireTypeOK
  <2> QED BY <1>2, <2>1, <2>2
<1>4. faults' \in 0 .. MaxFaults
  BY SessionAssumption DEF Emit, IoSend, TypeOK, HistoryTypeOK
<1> QED BY <1>1, <1>3, <1>4

LEMMA ReturnType ==
    ASSUME NEW code \in Codes, Return(code)
    PROVE  /\ pc' = "idle" /\ pc' \in Pcs
           /\ ret' \in Codes
           /\ msgs' = <<>> /\ msgs' \in Seq(HsMsg \cup Alerts)
           /\ outCap' \in Nat
BY DEF Return, Pcs

LEMMA CryptoFailType ==
    ASSUME TypeOK, CryptoFail
    PROVE  fails' \in 0 .. MaxCryptoFails
BY SessionAssumption DEF CryptoFail, TypeOK, HistoryTypeOK

LEMMA CodesKnown ==
    /\ {"SUCCESS", "E_INVALID_ARG", "E_CRYPTO", "E_DECODE", "E_BAD_MAC",
        "E_UNEXPECTED_MSG", "E_CLOSED"} \subseteq Codes
    /\ StateError \in Codes
    /\ \A rec : RecordError(rec) \in Codes
BY DEF Codes, StateError, RecordError, Unprotect

LEMMA AppendType ==
    ASSUME NEW S, NEW q \in Seq(S), NEW e \in S
    PROVE  Append(q, e) \in Seq(S)
OBVIOUS

LEMMA OpenFlags ==
    ASSUME TypeOK, StateError = "SUCCESS"
    PROVE  flags = {"ESTABLISHED"}
BY DEF TypeOK, CallTypeOK, StateError

(***************************************************************************)
(* One lemma per action, with one step per part of TypeOK.                 *)
(***************************************************************************)

LEMMA SendRefusedType ==
    ASSUME NEW len \in DataLens, TypeOK, SendRefused(len)
    PROVE  TypeOK'
<1> USE DEF TypeOK, SendRefused, sessVars, callVars, peerVars, wireVars
<1>1. CallTypeOK'
  BY CodesKnown DEF CallTypeOK
<1>2. WireTypeOK'
  BY DEF WireTypeOK
<1>3. PeerTypeOK'
  BY DEF PeerTypeOK
<1>4. HistoryTypeOK'
  BY DEF HistoryTypeOK
<1> QED BY <1>1, <1>2, <1>3, <1>4

LEMMA SendCryptoFailsType ==
    ASSUME NEW len \in DataLens, TypeOK, SendCryptoFails(len)
    PROVE  TypeOK'
<1> USE DEF TypeOK, SendCryptoFails, sessVars, callVars, peerVars, wireVars
<1>1. CallTypeOK'
  BY CodesKnown DEF CallTypeOK, Return, Pcs
<1>2. WireTypeOK'
  BY DEF WireTypeOK
<1>3. PeerTypeOK'
  BY DEF PeerTypeOK
<1>4. HistoryTypeOK'
  BY CryptoFailType DEF HistoryTypeOK
<1> QED BY <1>1, <1>2, <1>3, <1>4

LEMMA SendRecordType ==
    ASSUME NEW len \in DataLens, TypeOK, SendRecord(len)
    PROVE  TypeOK'
<1> USE DEF TypeOK, SendRecord, sessVars, callVars, peerVars, wireVars
<1>r. Protect(c, "appdata", Data(cdata + 1, len)) \in Sealed
  BY BodyTypes, ProtectType, SessionAssumption DEF CallTypeOK, HistoryTypeOK, CTypes
<1>e. wrote' \in Seq(Sealed) /\ toPeer' \in Seq(Sealed) /\ faults' \in 0 .. MaxFaults
  BY <1>r, EmitType
<1>1. CallTypeOK'
  BY BumpType, CodesKnown DEF CallTypeOK, Return, Pcs
<1>2. WireTypeOK'
  BY <1>e DEF WireTypeOK
<1>3. PeerTypeOK'
  BY DEF PeerTypeOK
<1>4. HistoryTypeOK'
  BY <1>e DEF HistoryTypeOK
<1> QED BY <1>1, <1>2, <1>3, <1>4

LEMMA RecvRefusedType ==
    ASSUME TypeOK, RecvRefused
    PROVE  TypeOK'
<1> USE DEF TypeOK, RecvRefused, sessVars, callVars, peerVars, wireVars
<1>1. CallTypeOK'
  BY CodesKnown DEF CallTypeOK
<1>2. WireTypeOK'
  BY DEF WireTypeOK
<1>3. PeerTypeOK'
  BY DEF PeerTypeOK
<1>4. HistoryTypeOK'
  BY DEF HistoryTypeOK
<1> QED BY <1>1, <1>2, <1>3, <1>4

LEMMA RecvCallType ==
    ASSUME NEW cap \in OutCaps, TypeOK, RecvCall(cap)
    PROVE  TypeOK'
<1> USE DEF TypeOK, RecvCall, sessVars, callVars, peerVars, wireVars
<1>1. CallTypeOK'
  BY OpenFlags, SessionAssumption DEF CallTypeOK, Pcs
<1>2. WireTypeOK'
  BY DEF WireTypeOK
<1>3. PeerTypeOK'
  BY DEF PeerTypeOK
<1>4. HistoryTypeOK'
  BY DEF HistoryTypeOK
<1> QED BY <1>1, <1>2, <1>3, <1>4

LEMMA IoRecvFailsType ==
    ASSUME TypeOK, IoRecvFails
    PROVE  TypeOK'
<1> USE DEF TypeOK, IoRecvFails, sessVars, callVars, peerVars, wireVars
<1>1. CallTypeOK'
  BY CodesKnown DEF CallTypeOK, Return, Pcs
<1>2. WireTypeOK'
  BY DEF WireTypeOK
<1>3. PeerTypeOK'
  BY DEF PeerTypeOK
<1>4. HistoryTypeOK'
  <2>1. faults' = faults \/ (faults < MaxFaults /\ faults' = faults + 1)
    OBVIOUS
  <2> QED BY <2>1, SessionAssumption DEF HistoryTypeOK
<1> QED BY <1>1, <1>2, <1>3, <1>4

LEMMA RecvMisalignedType ==
    ASSUME TypeOK, RecvMisaligned
    PROVE  TypeOK'
<1> USE DEF TypeOK, RecvMisaligned, sessVars, callVars, peerVars, wireVars
<1>1. CallTypeOK'
  BY CodesKnown DEF CallTypeOK, Return, Pcs
<1>2. WireTypeOK'
  <2>1. toClient \in Seq(OnWire) /\ sync' \in BOOLEAN /\ toPeer' \in Seq(Sealed)
    BY DEF WireTypeOK
  <2>2. CASE UNCHANGED toClient
    BY <2>1, <2>2 DEF WireTypeOK
  <2>3. CASE \E k \in 1 .. Len(toClient) :
               toClient' = SubSeq(toClient, k + 1, Len(toClient))
    <3>1. toClient' \in Seq(OnWire)
      BY <2>1, <2>3
    <3> QED BY <2>1, <3>1 DEF WireTypeOK
  <2> QED BY <2>2, <2>3
<1>3. PeerTypeOK'
  BY DEF PeerTypeOK
<1>4. HistoryTypeOK'
  BY DEF HistoryTypeOK
<1> QED BY <1>1, <1>2, <1>3, <1>4

LEMMA RecvBadRecordType ==
    ASSUME TypeOK, RecvBadRecord
    PROVE  TypeOK'
<1> USE DEF TypeOK, RecvBadRecord, sessVars, callVars, peerVars, wireVars
<1>1. CallTypeOK'
  BY CodesKnown DEF CallTypeOK, Return, Pcs
<1>2. WireTypeOK'
  <2>1. toClient' \in {toClient, Tail(toClient)} /\ toClient # <<>>
    BY Zenon
  <2>2. sync' \in BOOLEAN
    BY Zenon DEF WireTypeOK
  <2>3. toClient \in Seq(OnWire) /\ toPeer' \in Seq(Sealed)
    BY DEF WireTypeOK
  <2> QED BY <2>1, <2>2, <2>3 DEF WireTypeOK
<1>3. PeerTypeOK'
  BY DEF PeerTypeOK
<1>4. HistoryTypeOK'
  BY DEF HistoryTypeOK
<1> QED BY <1>1, <1>2, <1>3, <1>4

LEMMA RecvAppDataType ==
    ASSUME TypeOK, RecvAppData
    PROVE  TypeOK'
<1> USE DEF TypeOK, RecvAppData, sessVars, callVars, peerVars, wireVars
<1>1. CallTypeOK'
  BY BumpType, CodesKnown DEF CallTypeOK, Return, Pcs, RecvOpened
<1>2. WireTypeOK'
  BY DEF WireTypeOK, RecvOpened
<1>3. PeerTypeOK'
  BY DEF PeerTypeOK
<1>4. HistoryTypeOK'
  <2> DEFINE data == Head(toClient).body
  <2>1. data.id \in Nat
    BY OpenedIsSealed DEF Sealed, Body
  <2>2. (data.len <= outCap) \in BOOLEAN
    OBVIOUS
  <2>3. [id |-> data.id, kept |-> data.len <= outCap] \in [id: Nat, kept: BOOLEAN]
    BY <2>1, <2>2
  <2> HIDE DEF data
  <2>4. taken' \in Seq([id: Nat, kept: BOOLEAN])
    BY <2>3 DEF HistoryTypeOK, data
  <2> QED BY <2>4 DEF HistoryTypeOK
<1> QED BY <1>1, <1>2, <1>3, <1>4

LEMMA RecvHandshakeType ==
    ASSUME TypeOK, RecvHandshake
    PROVE  TypeOK'
<1> USE DEF TypeOK, RecvHandshake, sessVars, callVars, peerVars, wireVars
<1>1. CallTypeOK'
  <2>1. Head(toClient).body.msgs \in Seq(HsMsg \cup Alerts)
    BY OpenedIsSealed DEF Sealed, Body
  <2>2. flags = {"ESTABLISHED"}
    BY DEF RecvOpened, CallTypeOK
  <2>3. s' \in Direction
    BY BumpType DEF RecvOpened, CallTypeOK
  <2> QED BY <2>1, <2>2, <2>3 DEF CallTypeOK, Pcs
<1>2. WireTypeOK'
  BY DEF WireTypeOK, RecvOpened
<1>3. PeerTypeOK'
  BY DEF PeerTypeOK
<1>4. HistoryTypeOK'
  BY DEF HistoryTypeOK
<1> QED BY <1>1, <1>2, <1>3, <1>4

LEMMA RecvAlertType ==
    ASSUME TypeOK, RecvAlert
    PROVE  TypeOK'
<1> USE DEF TypeOK, RecvAlert, sessVars, callVars, peerVars, wireVars
<1>1. CallTypeOK'
  <2>1. flags' \in {flags, flags \cup {"CLOSED"}}
    BY Zenon
  <2>2. \E code \in Codes : Return(code)
    BY CodesKnown
  <2>3. s' \in Direction
    BY BumpType DEF RecvOpened, CallTypeOK
  <2> QED BY <2>1, <2>2, <2>3, ReturnType DEF CallTypeOK
<1>2. WireTypeOK'
  BY DEF WireTypeOK, RecvOpened
<1>3. PeerTypeOK'
  BY DEF PeerTypeOK
<1>4. HistoryTypeOK'
  BY DEF HistoryTypeOK
<1> QED BY <1>1, <1>2, <1>3, <1>4

LEMMA RecvUnknownType ==
    ASSUME TypeOK, RecvUnknown
    PROVE  TypeOK'
<1> USE DEF TypeOK, RecvUnknown, sessVars, callVars, peerVars, wireVars
<1>1. CallTypeOK'
  BY BumpType, CodesKnown DEF CallTypeOK, Return, Pcs, RecvOpened
<1>2. WireTypeOK'
  BY DEF WireTypeOK, RecvOpened
<1>3. PeerTypeOK'
  BY DEF PeerTypeOK
<1>4. HistoryTypeOK'
  BY DEF HistoryTypeOK
<1> QED BY <1>1, <1>2, <1>3, <1>4

LEMMA PostHsDoneType ==
    ASSUME TypeOK, PostHsDone
    PROVE  TypeOK'
<1> USE DEF TypeOK, PostHsDone, sessVars, callVars, peerVars, wireVars
<1>1. CallTypeOK'
  BY DEF CallTypeOK, Pcs
<1>2. WireTypeOK'
  BY DEF WireTypeOK
<1>3. PeerTypeOK'
  BY DEF PeerTypeOK
<1>4. HistoryTypeOK'
  BY DEF HistoryTypeOK
<1> QED BY <1>1, <1>2, <1>3, <1>4

LEMMA PostHsTicketType ==
    ASSUME TypeOK, PostHsTicket
    PROVE  TypeOK'
<1> USE DEF TypeOK, PostHsTicket, sessVars, callVars, peerVars, wireVars
<1>1. CallTypeOK'
  BY DEF CallTypeOK
<1>2. WireTypeOK'
  BY DEF WireTypeOK
<1>3. PeerTypeOK'
  BY DEF PeerTypeOK
<1>4. HistoryTypeOK'
  BY DEF HistoryTypeOK
<1> QED BY <1>1, <1>2, <1>3, <1>4

LEMMA PostHsErrorType ==
    ASSUME TypeOK, PostHsError
    PROVE  TypeOK'
<1> USE DEF TypeOK, PostHsError, sessVars, callVars, peerVars, wireVars
<1>1. CallTypeOK'
  <2>1. \E code \in Codes : Return(code)
    BY CodesKnown
  <2> QED BY <2>1, ReturnType DEF CallTypeOK
<1>2. WireTypeOK'
  BY DEF WireTypeOK
<1>3. PeerTypeOK'
  BY DEF PeerTypeOK
<1>4. HistoryTypeOK'
  BY DEF HistoryTypeOK
<1> QED BY <1>1, <1>2, <1>3, <1>4

LEMMA PostHsKeyUpdateType ==
    ASSUME TypeOK, PostHsKeyUpdate
    PROVE  TypeOK'
<1> USE DEF TypeOK, PostHsKeyUpdate, sessVars, callVars, peerVars, wireVars
<1>1. CallTypeOK'
  BY KeyUpdatedType DEF CallTypeOK, Pcs
<1>2. WireTypeOK'
  BY DEF WireTypeOK
<1>3. PeerTypeOK'
  BY DEF PeerTypeOK
<1>4. HistoryTypeOK'
  BY DEF HistoryTypeOK
<1> QED BY <1>1, <1>2, <1>3, <1>4

LEMMA PostHsKeyUpdateFailsType ==
    ASSUME TypeOK, PostHsKeyUpdateFails
    PROVE  TypeOK'
<1> USE DEF TypeOK, PostHsKeyUpdateFails, sessVars, callVars, peerVars, wireVars
<1>1. CallTypeOK'
  <2>1. s' \in Direction
    BY KeyUpdatedType DEF CallTypeOK
  <2> QED BY <2>1, CodesKnown, ReturnType DEF CallTypeOK
<1>2. WireTypeOK'
  BY DEF WireTypeOK
<1>3. PeerTypeOK'
  BY DEF PeerTypeOK
<1>4. HistoryTypeOK'
  BY CryptoFailType DEF HistoryTypeOK
<1> QED BY <1>1, <1>2, <1>3, <1>4

LEMMA AnswerKeyUpdateType ==
    ASSUME TypeOK, AnswerKeyUpdate
    PROVE  TypeOK'
<1> USE DEF TypeOK, AnswerKeyUpdate, sessVars, callVars, peerVars, wireVars
<1>r. KuRecord \in Sealed
  BY BodyTypes, ProtectType DEF CallTypeOK, KuRecord, CTypes
<1>e. wrote' \in Seq(Sealed) /\ toPeer' \in Seq(Sealed) /\ faults' \in 0 .. MaxFaults
  BY <1>r, EmitType
<1>1. CallTypeOK'
  BY KeyUpdatedType DEF CallTypeOK, Pcs
<1>2. WireTypeOK'
  BY <1>e DEF WireTypeOK
<1>3. PeerTypeOK'
  BY DEF PeerTypeOK
<1>4. HistoryTypeOK'
  BY <1>e DEF HistoryTypeOK
<1> QED BY <1>1, <1>2, <1>3, <1>4

LEMMA AnswerIoFailsType ==
    ASSUME TypeOK, AnswerIoFails
    PROVE  TypeOK'
<1> USE DEF TypeOK, AnswerIoFails, sessVars, callVars, peerVars, wireVars
<1>r. KuRecord \in Sealed
  BY BodyTypes, ProtectType DEF CallTypeOK, KuRecord, CTypes
<1>e. wrote' \in Seq(Sealed) /\ toPeer' \in Seq(Sealed) /\ faults' \in 0 .. MaxFaults
  BY <1>r, EmitType
<1>1. CallTypeOK'
  BY BumpType, CodesKnown DEF CallTypeOK, Return, Pcs
<1>2. WireTypeOK'
  BY <1>e DEF WireTypeOK
<1>3. PeerTypeOK'
  BY DEF PeerTypeOK
<1>4. HistoryTypeOK'
  BY <1>e DEF HistoryTypeOK
<1> QED BY <1>1, <1>2, <1>3, <1>4

LEMMA AnswerCryptoFailsType ==
    ASSUME TypeOK, AnswerCryptoFails
    PROVE  TypeOK'
<1> USE DEF TypeOK, AnswerCryptoFails, sessVars, callVars, peerVars, wireVars
<1>r. KuRecord \in Sealed
  BY BodyTypes, ProtectType DEF CallTypeOK, KuRecord, CTypes
<1>e. wrote' \in Seq(Sealed) /\ toPeer' \in Seq(Sealed) /\ faults' \in 0 .. MaxFaults
  <2>1. CASE UNCHANGED <<c, wrote, toPeer, faults>>
    BY <2>1 DEF WireTypeOK, HistoryTypeOK
  <2>2. CASE Emit(KuRecord, TRUE)
    BY <1>r, <2>2, EmitType
  <2> QED BY <2>1, <2>2
<1>1. CallTypeOK'
  <2>1. c' \in Direction
    BY BumpType, KeyUpdatedType DEF CallTypeOK
  <2> QED BY <2>1, CodesKnown, ReturnType DEF CallTypeOK
<1>2. WireTypeOK'
  BY <1>e DEF WireTypeOK
<1>3. PeerTypeOK'
  BY DEF PeerTypeOK
<1>4. HistoryTypeOK'
  BY <1>e, CryptoFailType DEF HistoryTypeOK
<1> QED BY <1>1, <1>2, <1>3, <1>4

LEMMA CloseWithNotifyType ==
    ASSUME TypeOK, CloseWithNotify
    PROVE  TypeOK'
<1> USE DEF TypeOK, CloseWithNotify, sessVars, callVars, peerVars, wireVars
<1>r. Protect(c, "alert", Messages(<<"close_notify">>)) \in Sealed
  BY BodyTypes, ProtectType DEF CallTypeOK, CTypes
<1>e. wrote' \in Seq(Sealed) /\ toPeer' \in Seq(Sealed) /\ faults' \in 0 .. MaxFaults
  BY <1>r, EmitType
<1>1. CallTypeOK'
  BY ConstantDirections, CodesKnown DEF CallTypeOK, Return, Pcs, ForceZeroSession
<1>2. WireTypeOK'
  BY <1>e DEF WireTypeOK
<1>3. PeerTypeOK'
  BY DEF PeerTypeOK
<1>4. HistoryTypeOK'
  BY <1>e DEF HistoryTypeOK
<1> QED BY <1>1, <1>2, <1>3, <1>4

LEMMA CloseCryptoFailsType ==
    ASSUME TypeOK, CloseCryptoFails
    PROVE  TypeOK'
<1> USE DEF TypeOK, CloseCryptoFails, sessVars, callVars, peerVars, wireVars
<1>1. CallTypeOK'
  BY ConstantDirections, CodesKnown DEF CallTypeOK, Return, Pcs, ForceZeroSession
<1>2. WireTypeOK'
  BY DEF WireTypeOK
<1>3. PeerTypeOK'
  BY DEF PeerTypeOK
<1>4. HistoryTypeOK'
  BY CryptoFailType DEF HistoryTypeOK
<1> QED BY <1>1, <1>2, <1>3, <1>4

LEMMA CloseQuietlyType ==
    ASSUME TypeOK, CloseQuietly
    PROVE  TypeOK'
<1> USE DEF TypeOK, CloseQuietly, sessVars, callVars, peerVars, wireVars
<1>1. CallTypeOK'
  BY ConstantDirections, CodesKnown DEF CallTypeOK, Return, Pcs, ForceZeroSession
<1>2. WireTypeOK'
  BY DEF WireTypeOK
<1>3. PeerTypeOK'
  BY DEF PeerTypeOK
<1>4. HistoryTypeOK'
  BY DEF HistoryTypeOK
<1> QED BY <1>1, <1>2, <1>3, <1>4

LEMMA PeerDataType ==
    ASSUME NEW len \in DataLens, TypeOK, PeerData(len)
    PROVE  TypeOK'
<1> USE DEF TypeOK, PeerData, sessVars, callVars, peerVars, wireVars
<1>r. Protect(pw, "appdata", Data(pdata + 1, len)) \in Sealed
  BY BodyTypes, ProtectType, SessionAssumption DEF PeerTypeOK, CTypes
<1>p. pw' \in Direction
  BY BumpType DEF PeerTypeOK
<1>w. plog' \in Seq(Sealed) /\ toClient' \in Seq(OnWire)
  BY <1>r DEF PeerEmit, PeerTypeOK, WireTypeOK, OnWire
<1>1. CallTypeOK'
  BY DEF CallTypeOK
<1>2. WireTypeOK'
  BY <1>w DEF WireTypeOK
<1>3. PeerTypeOK'
  BY <1>p, <1>w DEF PeerTypeOK
<1>4. HistoryTypeOK'
  BY DEF HistoryTypeOK
<1> QED BY <1>1, <1>2, <1>3, <1>4

LEMMA PeerHandshakeType ==
    ASSUME NEW body \in HsBodies, TypeOK, PeerHandshake(body)
    PROVE  TypeOK'
<1> USE DEF TypeOK, PeerHandshake, sessVars, callVars, peerVars, wireVars
<1>r. Protect(pw, "handshake", Messages(body)) \in Sealed
  BY BodyTypes, ProtectType, HsBodyType DEF PeerTypeOK, CTypes
<1>p. pw' \in Direction
  BY BumpType, KeyUpdatedType DEF PeerTypeOK
<1>w. plog' \in Seq(Sealed) /\ toClient' \in Seq(OnWire)
  BY <1>r DEF PeerEmit, PeerTypeOK, WireTypeOK, OnWire
<1>1. CallTypeOK'
  BY DEF CallTypeOK
<1>2. WireTypeOK'
  BY <1>w DEF WireTypeOK
<1>3. PeerTypeOK'
  BY <1>p, <1>w DEF PeerTypeOK
<1>4. HistoryTypeOK'
  BY DEF HistoryTypeOK
<1> QED BY <1>1, <1>2, <1>3, <1>4

LEMMA PeerAlertType ==
    ASSUME NEW body \in Alerts, TypeOK, PeerAlert(body)
    PROVE  TypeOK'
<1> USE DEF TypeOK, PeerAlert, sessVars, callVars, peerVars, wireVars
<1>r. Protect(pw, "alert", Messages(<<body>>)) \in Sealed
  BY BodyTypes, ProtectType DEF PeerTypeOK, CTypes
<1>p. pw' \in Direction
  BY BumpType DEF PeerTypeOK
<1>w. plog' \in Seq(Sealed) /\ toClient' \in Seq(OnWire)
  BY <1>r DEF PeerEmit, PeerTypeOK, WireTypeOK, OnWire
<1>1. CallTypeOK'
  BY DEF CallTypeOK
<1>2. WireTypeOK'
  BY <1>w DEF WireTypeOK
<1>3. PeerTypeOK'
  BY <1>p, <1>w DEF PeerTypeOK
<1>4. HistoryTypeOK'
  BY DEF HistoryTypeOK
<1> QED BY <1>1, <1>2, <1>3, <1>4

LEMMA PeerOddContentType ==
    ASSUME NEW ctype \in {"unknown", "padding"}, TypeOK, PeerOddContent(ctype)
    PROVE  TypeOK'
<1> USE DEF TypeOK, PeerOddContent, sessVars, callVars, peerVars, wireVars
<1>r. Protect(pw, ctype, Messages(<<>>)) \in Sealed
  BY BodyTypes, ProtectType DEF PeerTypeOK, CTypes
<1>p. pw' \in Direction
  BY BumpType DEF PeerTypeOK
<1>w. plog' \in Seq(Sealed) /\ toClient' \in Seq(OnWire)
  BY <1>r DEF PeerEmit, PeerTypeOK, WireTypeOK, OnWire
<1>1. CallTypeOK'
  BY DEF CallTypeOK
<1>2. WireTypeOK'
  BY <1>w DEF WireTypeOK
<1>3. PeerTypeOK'
  BY <1>p, <1>w DEF PeerTypeOK
<1>4. HistoryTypeOK'
  BY SessionAssumption DEF HistoryTypeOK
<1> QED BY <1>1, <1>2, <1>3, <1>4

LEMMA PeerRecvType ==
    ASSUME TypeOK, PeerRecv
    PROVE  TypeOK'
<1> USE DEF TypeOK, PeerRecv, sessVars, callVars, peerVars, wireVars
<1>1. CallTypeOK'
  BY DEF CallTypeOK
<1>2. WireTypeOK'
  BY DEF WireTypeOK
<1>3. PeerTypeOK'
  <2> DEFINE rec == Head(toPeer)
  <2>1. rec \in Sealed
    BY DEF WireTypeOK
  <2>2. rec.body.id \in Nat
    BY <2>1 DEF Sealed, Body
  <2> HIDE DEF rec
  <2>3. pr' \in {pr, Bump(pr), [KeyUpdated(pr) EXCEPT !.seq = 0]}
    BY Zenon DEF rec
  <2>4. pr' \in Direction
    BY <2>3, BumpType, KeyUpdatedType DEF PeerTypeOK
  <2>5. pgot' \in {pgot, Append(pgot, rec.body.id)}
    BY Zenon DEF rec
  <2>6. pgot' \in Seq(Nat)
    <3>1. pgot \in Seq(Nat)
      BY DEF PeerTypeOK
    <3> QED BY <2>2, <2>5, <3>1, AppendType
  <2>7. pEof' \in BOOLEAN
    BY Zenon DEF PeerTypeOK
  <2>8. peer' \in {peer, "dead"}
    BY Zenon
  <2> QED BY <2>4, <2>6, <2>7, <2>8 DEF PeerTypeOK
<1>4. HistoryTypeOK'
  BY DEF HistoryTypeOK
<1> QED BY <1>1, <1>2, <1>3, <1>4

LEMMA TransportFaultType ==
    ASSUME TypeOK, TransportFault
    PROVE  TypeOK'
<1> USE DEF TypeOK, TransportFault, sessVars, callVars, peerVars, wireVars
<1>1. CallTypeOK'
  BY DEF CallTypeOK
<1>2. WireTypeOK'
  <2>0. toClient \in Seq(OnWire) /\ DOMAIN toClient = 1 .. Len(toClient)
    BY LenProperties DEF WireTypeOK
  <2>1. ASSUME NEW i \in DOMAIN toClient, toClient' = Without(toClient, i)
        PROVE  toClient' \in Seq(OnWire)
    BY <2>0, <2>1, WithoutType
  <2>2. ASSUME NEW i \in DOMAIN toClient,
               toClient' = Append(toClient, toClient[i])
        PROVE  toClient' \in Seq(OnWire)
    <3>1. toClient[i] \in OnWire
      BY <2>0, ElementOfSeq
    <3> QED BY <2>0, <2>2, <3>1, AppendType
  <2>3. ASSUME NEW i \in DOMAIN toClient, NEW j \in DOMAIN toClient,
               toClient' = [toClient EXCEPT ![i] = toClient[j],
                                            ![j] = toClient[i]]
        PROVE  toClient' \in Seq(OnWire)
    <3>1. toClient[i] \in OnWire /\ toClient[j] \in OnWire
      BY <2>0, ElementOfSeq
    <3> QED BY <2>0, <2>3, <3>1, ExceptSeq
  <2>4. ASSUME NEW i \in DOMAIN toClient, toClient[i].form = "sealed",
               toClient' = [toClient EXCEPT ![i] = Torn(toClient[i])]
        PROVE  toClient' \in Seq(OnWire)
    <3>1. toClient[i] \in OnWire
      BY <2>0, ElementOfSeq
    <3>2. toClient[i] \in Sealed
      BY <2>4, <3>1 DEF OnWire, Plain, PlainForms
    <3>3. Torn(toClient[i]) \in OnWire
      BY <3>2, TornType DEF OnWire
    <3> QED BY <2>0, <2>4, <3>3, ExceptSeq
  <2>5. ASSUME NEW i \in 0 .. Len(toClient), NEW form \in PlainForms,
               toClient' = Insert(toClient, i, Plain(form))
        PROVE  toClient' \in Seq(OnWire)
    BY <2>0, <2>5, InsertType DEF OnWire
  <2>6. toClient' \in Seq(OnWire)
    BY <2>1, <2>2, <2>3, <2>4, <2>5
  <2> QED BY <2>6 DEF WireTypeOK
<1>3. PeerTypeOK'
  BY DEF PeerTypeOK
<1>4. HistoryTypeOK'
  BY SessionAssumption DEF HistoryTypeOK
<1> QED BY <1>1, <1>2, <1>3, <1>4

(* Every step of the specification keeps the types. *)
LEMMA TypeStep ==
    ASSUME TypeOK, [Next]_vars
    PROVE  TypeOK'
<1>1. ASSUME NEW len \in DataLens, SendRefused(len) PROVE TypeOK'
  BY <1>1, SendRefusedType
<1>2. ASSUME NEW len \in DataLens, SendCryptoFails(len) PROVE TypeOK'
  BY <1>2, SendCryptoFailsType
<1>3. ASSUME NEW len \in DataLens, SendRecord(len) PROVE TypeOK'
  BY <1>3, SendRecordType
<1>4. CASE RecvRefused
  BY <1>4, RecvRefusedType
<1>5. ASSUME NEW cap \in OutCaps, RecvCall(cap) PROVE TypeOK'
  BY <1>5, RecvCallType
<1>6. CASE IoRecvFails
  BY <1>6, IoRecvFailsType
<1>7. CASE RecvMisaligned
  BY <1>7, RecvMisalignedType
<1>8. CASE RecvBadRecord
  BY <1>8, RecvBadRecordType
<1>9. CASE RecvAppData
  BY <1>9, RecvAppDataType
<1>10. CASE RecvHandshake
  BY <1>10, RecvHandshakeType
<1>11. CASE RecvAlert
  BY <1>11, RecvAlertType
<1>12. CASE RecvUnknown
  BY <1>12, RecvUnknownType
<1>13. CASE PostHsDone
  BY <1>13, PostHsDoneType
<1>14. CASE PostHsTicket
  BY <1>14, PostHsTicketType
<1>15. CASE PostHsError
  BY <1>15, PostHsErrorType
<1>16. CASE PostHsKeyUpdate
  BY <1>16, PostHsKeyUpdateType
<1>17. CASE PostHsKeyUpdateFails
  BY <1>17, PostHsKeyUpdateFailsType
<1>18. CASE AnswerKeyUpdate
  BY <1>18, AnswerKeyUpdateType
<1>19. CASE AnswerIoFails
  BY <1>19, AnswerIoFailsType
<1>20. CASE AnswerCryptoFails
  BY <1>20, AnswerCryptoFailsType
<1>21. CASE CloseWithNotify
  BY <1>21, CloseWithNotifyType
<1>22. CASE CloseCryptoFails
  BY <1>22, CloseCryptoFailsType
<1>23. CASE CloseQuietly
  BY <1>23, CloseQuietlyType
<1>24. ASSUME NEW len \in DataLens, PeerData(len) PROVE TypeOK'
  BY <1>24, PeerDataType
<1>25. ASSUME NEW body \in HsBodies, PeerHandshake(body) PROVE TypeOK'
  BY <1>25, PeerHandshakeType
<1>26. ASSUME NEW alert \in Alerts, PeerAlert(alert) PROVE TypeOK'
  BY <1>26, PeerAlertType
<1>27. ASSUME NEW ctype \in {"unknown", "padding"}, PeerOddContent(ctype) PROVE TypeOK'
  BY <1>27, PeerOddContentType
<1>28. CASE PeerRecv
  BY <1>28, PeerRecvType
<1>29. CASE TransportFault
  BY <1>29, TransportFaultType
<1>30. CASE UNCHANGED vars
  BY <1>30 DEF vars, sessVars, callVars, peerVars, wireVars, TypeOK, CallTypeOK,
     WireTypeOK, PeerTypeOK, HistoryTypeOK
<1> QED
  BY Zenon, <1>1, <1>2, <1>3, <1>4, <1>5, <1>6, <1>7, <1>8, <1>9, <1>10, <1>11,
           <1>12, <1>13, <1>14, <1>15, <1>16, <1>17, <1>18, <1>19,
           <1>20, <1>21, <1>22, <1>23, <1>24, <1>25, <1>26, <1>27,
           <1>28, <1>29, <1>30
     DEF Next, Caller, CallStep, RecvStep, PostHsStep, PeerStep, wn_Send, wn_Recv,
     wn_Close

(* Every reachable state has the types TypeOK gives it, and a call is in   *)
(* progress only on an established session the peer has not closed.        *)
THEOREM TypeCorrect == Spec => []TypeOK
<1>1. Init => TypeOK
  BY TypeInit
<1>2. TypeOK /\ [Next]_vars => TypeOK'
  BY TypeStep
<1> QED BY <1>1, <1>2, PTL DEF Spec

-----------------------------------------------------------------------------
(***************************************************************************)
(* NonceUnique.  Only the steps that seal a record or replace the write    *)
(* direction matter; all others leave cKey, cIv, cSeq and the history of   *)
(* sealed records alone.                                                   *)
(***************************************************************************)

(* A word64 below its limit does not wrap. *)
LEMMA NoWrap ==
    ASSUME NonceInv, Len(wrote) < MaxRecords
    PROVE  Bump(c) = [c EXCEPT !.seq = c.seq + 1]
<1>1. c.seq \in Nat /\ c.seq + 1 < Word64 /\ Word64 \in Nat \ {0}
  BY SMTT(60), Word64Assumption, LenProperties
     DEF NonceInv, TypeOK, CallTypeOK, HistoryTypeOK, Direction, MaxRecords
<1>2. \A x \in Nat, w \in Nat \ {0} : x < w => x % w = x
  OBVIOUS
<1>3. (c.seq + 1) % Word64 = c.seq + 1
  BY <1>1, <1>2
<1> QED BY <1>3 DEF Bump

(* The write direction after a record was sealed with it: what may become  *)
(* of it in wn_Send and in wn_session_send_key_update.                     *)
Successors(d) == {[d EXCEPT !.seq = d.seq + 1], [KeyUpdated(d) EXCEPT !.seq = 0]}
                   \cup KeyUpdateFailures([d EXCEPT !.seq = d.seq + 1])

LEMMA SealStep ==
    ASSUME NonceInv, TypeOK', flags # {},
           NEW ctype, NEW body,
           Protect(c, ctype, body) \in Sealed,
           Len(wrote) < MaxRecords,
           wrote' = Append(wrote, Protect(c, ctype, body)),
           c' \in Successors(c) \/ (c' = ForceZeroed /\ flags' = {})
    PROVE  NonceInv'
<1> DEFINE rec == Protect(c, ctype, body)
<1>1. /\ Len(wrote) \in Nat /\ Len(wrote') = Len(wrote) + 1
      /\ \A i \in 1 .. Len(wrote) : wrote'[i] = wrote[i]
      /\ wrote'[Len(wrote) + 1] = rec
  BY DEF NonceInv, TypeOK, HistoryTypeOK
<1>2. rec.key = c.key /\ rec.iv = c.iv /\ rec.seq = c.seq
  BY DEF Protect
<1>3. c \in Direction /\ c.key \in Nat /\ c.secret \in Nat /\ c.seq \in Nat
  BY DEF NonceInv, TypeOK, CallTypeOK, Direction
<1>4. \A i \in 1 .. Len(wrote) :
          wrote[i].key \in Nat /\ wrote[i].seq \in Nat
  <2>1. wrote \in Seq(Sealed)
    BY DEF NonceInv, TypeOK, HistoryTypeOK
  <2>2. \A i \in 1 .. Len(wrote) : wrote[i] \in Sealed
    BY <2>1, ElementOfSeq
  <2> QED BY <2>2, Word64Assumption DEF Sealed
<1> HIDE DEF rec
<1>5. \A i \in 1 .. Len(wrote') :
          /\ wrote'[i].key \in Nat
          /\ wrote'[i].key <= c.key
          /\ wrote'[i].key = c.key => wrote'[i].iv = c.iv /\ wrote'[i].seq < c.seq + 1
  BY <1>1, <1>2, <1>3, <1>4 DEF NonceInv
<1>6. NonceUnique'
  <2> SUFFICES ASSUME NEW i \in 1 .. Len(wrote'), NEW j \in 1 .. Len(wrote'),
                      i < j, wrote'[i].key = wrote'[j].key
               PROVE  wrote'[i].iv = wrote'[j].iv /\ wrote'[i].seq # wrote'[j].seq
    BY SMTT(60) DEF NonceUnique
  <2>1. CASE j <= Len(wrote)
    BY <1>1, <2>1 DEF NonceInv, NonceUnique
  <2>2. CASE j = Len(wrote) + 1
    <3>1. i \in 1 .. Len(wrote) /\ wrote[i].key = c.key
      BY <1>1, <1>2, <2>2
    <3>2. wrote[i].iv = c.iv /\ wrote[i].seq < c.seq
      BY <3>1 DEF NonceInv
    <3> QED BY <1>1, <1>2, <1>3, <1>4, <2>2, <3>1, <3>2
  <2> QED BY <1>1, <2>1, <2>2
<1>7. Len(wrote') <= MaxRecords'
  BY <1>1, Word64Assumption DEF MaxRecords
<1>8. CASE c' = ForceZeroed /\ flags' = {}
  BY <1>1, <1>6, <1>7, <1>8 DEF NonceInv, ForceZeroed
<1>9. CASE c' \in Successors(c)
  <2>1. CASE c' = [c EXCEPT !.seq = c.seq + 1]
    <3>1. c'.key = c.key /\ c'.secret = c.secret /\ c'.iv = c.iv
            /\ c'.seq = c.seq + 1
      BY <1>3, <2>1 DEF Direction
    <3> QED BY <1>1, <1>3, <1>5, <1>6, <1>7, <3>1 DEF NonceInv
  <2>2. CASE c' = [KeyUpdated(c) EXCEPT !.seq = 0]
    <3>1. c'.key = c.secret + 1 /\ c'.secret = c.secret + 1 /\ c'.seq = 0
      BY <1>3, <2>2 DEF KeyUpdated, Direction
    <3> QED BY <1>1, <1>3, <1>5, <1>6, <1>7, <3>1 DEF NonceInv
  <2>3. CASE c' \in KeyUpdateFailures([c EXCEPT !.seq = c.seq + 1])
    <3>1. /\ c'.seq = c.seq + 1
          /\ \/ c'.key = c.key /\ c'.iv = c.iv /\ c'.secret \in {c.secret, c.secret + 1}
             \/ c'.key = c.secret + 1 /\ c'.secret = c.secret + 1
      BY <1>3, <2>3 DEF KeyUpdateFailures, Direction
    <3>2. CASE c'.key = c.key /\ c'.iv = c.iv /\ c'.secret \in {c.secret, c.secret + 1}
      BY <1>1, <1>3, <1>5, <1>6, <1>7, <3>1, <3>2 DEF NonceInv
    <3>3. CASE c'.key = c.secret + 1 /\ c'.secret = c.secret + 1
      BY SMTT(60), <1>1, <1>3, <1>5, <1>6, <1>7, <3>1, <3>3 DEF NonceInv
    <3> QED BY <3>1, <3>2, <3>3
  <2> QED BY <1>9, <2>1, <2>2, <2>3 DEF Successors
<1> QED BY <1>8, <1>9

(* Steps that seal nothing: the write direction stays, or is wiped. *)
LEMMA QuietStep ==
    ASSUME NonceInv, TypeOK', UNCHANGED wrote,
           \/ UNCHANGED c /\ (flags' # {} => flags # {})
           \/ c' = ForceZeroed /\ flags' = {}
    PROVE  NonceInv'
<1>1. NonceUnique'
  BY DEF NonceInv, NonceUnique
<1>2. Len(wrote) \in Nat
  BY LenProperties DEF NonceInv, TypeOK, HistoryTypeOK
<1>3. CASE UNCHANGED c /\ (flags' # {} => flags # {})
  BY <1>1, <1>3 DEF NonceInv, MaxRecords
<1>4. CASE c' = ForceZeroed /\ flags' = {}
  BY <1>1, <1>2, <1>4 DEF NonceInv, MaxRecords, ForceZeroed
<1> QED BY <1>3, <1>4

LEMMA NonceStep ==
    ASSUME NonceInv, [Next]_vars
    PROVE  NonceInv'
<1>t. TypeOK /\ TypeOK'
  BY TypeStep DEF NonceInv
<1>k. KuRecord \in Sealed
  BY <1>t, BodyTypes, ProtectType DEF TypeOK, CallTypeOK, KuRecord, CTypes
<1>1. ASSUME NEW len \in DataLens, SendRefused(len) PROVE NonceInv'
  BY <1>t, <1>1, QuietStep DEF SendRefused, sessVars
<1>2. ASSUME NEW len \in DataLens, SendCryptoFails(len) PROVE NonceInv'
  BY <1>t, <1>2, QuietStep DEF SendCryptoFails, sessVars
<1>3. CASE RecvRefused
  BY <1>t, <1>3, QuietStep DEF RecvRefused, sessVars
<1>4. ASSUME NEW cap \in OutCaps, RecvCall(cap) PROVE NonceInv'
  BY <1>t, <1>4, QuietStep DEF RecvCall, sessVars
<1>5. CASE IoRecvFails
  BY <1>t, <1>5, QuietStep DEF IoRecvFails, sessVars
<1>6. CASE RecvMisaligned
  BY <1>t, <1>6, QuietStep DEF RecvMisaligned, sessVars
<1>7. CASE RecvBadRecord
  BY <1>t, <1>7, QuietStep DEF RecvBadRecord, sessVars
<1>8. CASE RecvAppData
  BY <1>t, <1>8, QuietStep DEF RecvAppData, sessVars
<1>9. CASE RecvHandshake
  BY <1>t, <1>9, QuietStep DEF RecvHandshake, sessVars
<1>10. CASE RecvUnknown
  BY <1>t, <1>10, QuietStep DEF RecvUnknown, sessVars
<1>11. CASE PostHsDone
  BY <1>t, <1>11, QuietStep DEF PostHsDone, sessVars
<1>12. CASE PostHsTicket
  BY <1>t, <1>12, QuietStep DEF PostHsTicket, sessVars
<1>13. CASE PostHsError
  BY <1>t, <1>13, QuietStep DEF PostHsError, sessVars
<1>14. CASE PostHsKeyUpdate
  BY <1>t, <1>14, QuietStep DEF PostHsKeyUpdate, sessVars
<1>15. CASE PostHsKeyUpdateFails
  BY <1>t, <1>15, QuietStep DEF PostHsKeyUpdateFails, sessVars
<1>16. ASSUME NEW len \in DataLens, PeerData(len) PROVE NonceInv'
  BY <1>t, <1>16, QuietStep DEF PeerData, sessVars
<1>17. ASSUME NEW body \in HsBodies, PeerHandshake(body) PROVE NonceInv'
  BY <1>t, <1>17, QuietStep DEF PeerHandshake, sessVars
<1>18. ASSUME NEW alert \in Alerts, PeerAlert(alert) PROVE NonceInv'
  BY <1>t, <1>18, QuietStep DEF PeerAlert, sessVars
<1>19. ASSUME NEW ctype \in {"unknown", "padding"}, PeerOddContent(ctype) PROVE NonceInv'
  BY <1>t, <1>19, QuietStep DEF PeerOddContent, sessVars
<1>20. CASE PeerRecv
  BY <1>t, <1>20, QuietStep DEF PeerRecv, sessVars
<1>21. CASE TransportFault
  BY <1>t, <1>21, QuietStep DEF TransportFault, sessVars
<1>22. CASE RecvAlert
  <2>1. flags' # {} => flags # {}
    BY <1>t, <1>22 DEF RecvAlert, RecvOpened, TypeOK, CallTypeOK
  <2> QED BY <1>t, <1>22, <2>1, QuietStep DEF RecvAlert
<1>23. CASE CloseCryptoFails
  BY <1>t, <1>23, QuietStep DEF CloseCryptoFails, ForceZeroSession
<1>24. CASE CloseQuietly
  BY <1>t, <1>24, QuietStep DEF CloseQuietly, ForceZeroSession
<1>25. ASSUME NEW len \in DataLens, SendRecord(len) PROVE NonceInv'
  <2>1. flags # {}
    BY <1>t, <1>25, OpenFlags DEF SendRecord
  <2>2. Protect(c, "appdata", Data(cdata + 1, len)) \in Sealed
    BY <1>t, BodyTypes, ProtectType, SessionAssumption
       DEF TypeOK, CallTypeOK, HistoryTypeOK, CTypes
  <2>3. /\ Len(wrote) < MaxRecords
        /\ wrote' = Append(wrote, Protect(c, "appdata", Data(cdata + 1, len)))
    BY <1>25 DEF SendRecord, Emit
  <2>4. c' \in Successors(c)
    BY <1>25, <2>3, NoWrap DEF SendRecord, Successors
  <2> QED BY <1>t, <2>1, <2>2, <2>3, <2>4, SealStep
<1>26. CASE AnswerKeyUpdate
  <2>1. flags # {}
    BY <1>t, <1>26 DEF AnswerKeyUpdate, TypeOK, CallTypeOK
  <2>2. Len(wrote) < MaxRecords /\ wrote' = Append(wrote, KuRecord)
    BY <1>26 DEF AnswerKeyUpdate, Emit
  <2>3. c' \in Successors(c)
    BY <1>26 DEF AnswerKeyUpdate, Successors
  <2> QED BY <1>t, <1>k, <2>1, <2>2, <2>3, SealStep DEF KuRecord
<1>27. CASE AnswerIoFails
  <2>1. flags # {}
    BY <1>t, <1>27 DEF AnswerIoFails, TypeOK, CallTypeOK
  <2>2. Len(wrote) < MaxRecords /\ wrote' = Append(wrote, KuRecord)
    BY <1>27 DEF AnswerIoFails, Emit
  <2>3. c' \in Successors(c)
    BY <1>27, <2>2, NoWrap DEF AnswerIoFails, Successors
  <2> QED BY <1>t, <1>k, <2>1, <2>2, <2>3, SealStep DEF KuRecord
<1>28. CASE AnswerCryptoFails
  <2>1. flags # {}
    BY <1>t, <1>28 DEF AnswerCryptoFails, TypeOK, CallTypeOK
  <2>2. CASE UNCHANGED <<c, wrote, toPeer, faults>>
    BY <1>t, <1>28, <2>1, <2>2, QuietStep DEF AnswerCryptoFails
  <2>3. CASE Emit(KuRecord, TRUE) /\ c' \in KeyUpdateFailures(Bump(c))
    <3>1. Len(wrote) < MaxRecords /\ wrote' = Append(wrote, KuRecord)
      BY <2>3 DEF Emit
    <3>2. c' \in Successors(c)
      BY <2>3, <3>1, NoWrap DEF Successors
    <3> QED BY <1>t, <1>k, <2>1, <3>1, <3>2, SealStep DEF KuRecord
  <2> QED BY <1>28, <2>2, <2>3 DEF AnswerCryptoFails
<1>29. CASE CloseWithNotify
  <2> DEFINE rec == Protect(c, "alert", Messages(<<"close_notify">>))
  <2>1. flags # {}
    BY <1>29 DEF CloseWithNotify
  <2>2. rec \in Sealed
    BY <1>t, BodyTypes, ProtectType DEF TypeOK, CallTypeOK, CTypes
  <2>3. Len(wrote) < MaxRecords /\ wrote' = Append(wrote, rec)
    BY <1>29 DEF CloseWithNotify, Emit
  <2>4. c' = ForceZeroed /\ flags' = {}
    BY <1>29 DEF CloseWithNotify, ForceZeroSession
  <2> QED BY <1>t, <2>1, <2>2, <2>3, <2>4, SealStep
<1>30. CASE UNCHANGED vars
  BY <1>t, <1>30, QuietStep DEF vars, sessVars
<1> QED
  BY Zenon, <1>1, <1>2, <1>3, <1>4, <1>5, <1>6, <1>7, <1>8, <1>9, <1>10, <1>11,
           <1>12, <1>13, <1>14, <1>15, <1>16, <1>17, <1>18, <1>19,
           <1>20, <1>21, <1>22, <1>23, <1>24, <1>25, <1>26, <1>27,
           <1>28, <1>29, <1>30
     DEF Next, Caller, CallStep, RecvStep, PostHsStep, PeerStep, wn_Send, wn_Recv,
     wn_Close

LEMMA NonceInit == Init => NonceInv
<1> SUFFICES ASSUME Init PROVE NonceInv
  OBVIOUS
<1>1. TypeOK
  BY TypeInit
<1>2. Len(wrote) = 0 /\ MaxRecords \in Nat
  BY Word64Assumption DEF Init, MaxRecords
<1>3. c.key <= c.secret /\ c.seq = 0
  BY DEF Init, FreshDirection
<1> QED BY <1>1, <1>2, <1>3 DEF NonceInv, NonceUnique

(* The client never seals two records under one key with one nonce, for    *)
(* any number of records below 2^64, any pattern of ioSend failures, any   *)
(* failing step of any key update and any behaviour of peer and transport. *)
THEOREM NoncesNeverRepeat == Spec => []NonceUnique
<1>1. Init => NonceInv
  BY NonceInit
<1>2. NonceInv /\ [Next]_vars => NonceInv'
  BY NonceStep
<1>3. NonceInv => NonceUnique
  BY DEF NonceInv
<1> QED BY <1>1, <1>2, <1>3, PTL DEF Spec

(* Only an open session seals a record.                                    *)
LEMMA WriteOnlyOpen ==
    ASSUME TypeOK, [Next]_vars, flags # {"ESTABLISHED"}
    PROVE  wrote' = wrote
<1>1. pc = "idle" /\ StateError # "SUCCESS"
  BY OpenFlags DEF TypeOK, CallTypeOK
<1>2. "ESTABLISHED" \notin flags \/ "CLOSED" \in flags
  BY DEF TypeOK, CallTypeOK
<1>3. ASSUME Caller PROVE wrote' = wrote
  BY <1>1, <1>2, <1>3 DEF Caller, wn_Send, wn_Recv, wn_Close, SendRefused,
     SendCryptoFails, SendRecord, RecvRefused, RecvCall, CloseWithNotify,
     CloseCryptoFails, CloseQuietly
<1>4. ASSUME RecvStep PROVE wrote' = wrote
  BY <1>4 DEF RecvStep, IoRecvFails, RecvMisaligned, RecvBadRecord,
     RecvAppData, RecvHandshake, RecvAlert, RecvUnknown
<1>5. ~PostHsStep
  BY <1>1 DEF PostHsStep, PostHsDone, PostHsTicket, PostHsError,
     PostHsKeyUpdate, PostHsKeyUpdateFails, AnswerKeyUpdate, AnswerIoFails,
     AnswerCryptoFails
<1>6. ASSUME PeerStep PROVE wrote' = wrote
  BY <1>6 DEF PeerStep, PeerData, PeerHandshake, PeerAlert, PeerOddContent,
     PeerRecv
<1>7. ASSUME TransportFault PROVE wrote' = wrote
  BY <1>7 DEF TransportFault
<1>8. ASSUME UNCHANGED vars PROVE wrote' = wrote
  BY <1>8 DEF vars
<1> QED BY <1>3, <1>4, <1>5, <1>6, <1>7, <1>8 DEF Next, CallStep

(* After the peer's close_notify or wn_Close, no call seals a record.      *)
THEOREM ClosedSealsNothing == Spec => ClosedIsFinal
<1>1. TypeOK /\ [Next]_vars => [flags # {"ESTABLISHED"} => wrote' = wrote]_vars
  BY WriteOnlyOpen
<1> QED BY <1>1, TypeCorrect, PTL DEF Spec, ClosedIsFinal
=============================================================================
