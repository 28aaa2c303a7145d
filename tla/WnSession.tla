----------------------------- MODULE WnSession ------------------------------
(***************************************************************************)
(* The application-data phase of a connection: wn_Send, wn_Recv and        *)
(* wn_Close of src/wn_session.c over the records of WnRecord, together     *)
(* with the peer (external: a TLS 1.3 server, as tests/session_test.c      *)
(* plays it) and the transport behind ioSend and ioRecv (external).        *)
(*                                                                         *)
(* A session is single-threaded (wn_session.h): one call is in progress at *)
(* a time, and a call is split into steps where the peer or the transport  *)
(* can act in between: at every ioRecv and between two post-handshake      *)
(* messages.  The transport may write a record only in part, fail a read   *)
(* between or inside records, and lose, repeat, reorder or damage records. *)
(***************************************************************************)
EXTENDS WnRecord, FiniteSets

CONSTANTS
    DataLens,           \* lengths of an application_data payload
    OutCaps,            \* the outCap a caller passes to wn_Recv
    ScratchCap,         \* the longest payload s->scratch can frame
    HsBodies,           \* handshake records the peer may send: sequences of HsMsg
    MaxSends,           \* bound: application_data records the client protects
    MaxPeerRecords,     \* bound: records the peer protects
    MaxFaults,          \* bound: transport faults and stray plaintext records
    MaxCryptoFails      \* bound: failing wolfCrypt calls

(***************************************************************************)
(* One post-handshake message: a NewSessionTicket, a KeyUpdate that asks   *)
(* for one in return (ku1) or does not (ku0), a KeyUpdate of the wrong     *)
(* length or with request_update > 1, the first part of a NewSessionTicket *)
(* that goes on in the next record, the rest of it, and any other type.    *)
(***************************************************************************)
HsMsg == {"nst", "ku0", "ku1", "kuBad", "nstFirst", "nstRest", "other"}

ASSUME SessionAssumption ==
    /\ DataLens \subseteq Nat
    /\ OutCaps \subseteq Nat
    /\ HsBodies \subseteq Seq(HsMsg)
    /\ ScratchCap \in Nat
    /\ MaxSends \in Nat
    /\ MaxPeerRecords \in Nat
    /\ MaxFaults \in Nat
    /\ MaxCryptoFails \in Nat

(***************************************************************************)
(* The word64 counters are never tested for wrap-around: either side is    *)
(* taken to protect fewer than 2^64 records in the life of a session.      *)
(***************************************************************************)
MaxRecords == Word64 - 1

ASSUME PeerRecordsAssumption == MaxPeerRecords <= MaxRecords

(* A KeyUpdate is the last message of its record (RFC 8446 5.1). *)
ASSUME KeyUpdateLastAssumption ==
    \A b \in HsBodies : \A i \in 1 .. Len(b) - 1 : b[i] \notin {"ku0", "ku1"}

VARIABLES
    flags,      \* s->flags
    c,          \* cAppSecret, cKey, cIv, cSeq
    s,          \* sAppSecret, sKey, sIv, sSeq
    pc,         \* where the call in progress is
    outCap,     \* the argument of the wn_Recv in progress
    msgs,       \* what wn_session_posths has still to read
    ret,        \* what the last call returned
    toPeer,     \* records between ioSend and the peer
    toClient,   \* records between the peer and ioRecv
    sync,       \* ioRecv stands at the first byte of a record
    pw, pr,     \* the peer's write and read directions
    pEof,       \* the peer has received close_notify
    peer,       \* "open", "closed" (close_notify sent), "dead" (gave up)
    wrote,      \* history: every record the client protected
    plog,       \* history: every record the peer protected
    taken,      \* history: the peer's payloads wn_Recv took off the channel
    pgot,       \* history: the client's payloads the peer accepted
    cdata,      \* history: payloads the client protected
    pdata,      \* history: payloads the peer protected
    faults,     \* history: faults so far
    fails       \* history: failed wolfCrypt calls so far

sessVars == <<flags, c, s>>
callVars == <<pc, outCap, msgs, ret>>
peerVars == <<pw, pr, pEof, peer, plog, pgot, pdata>>
wireVars == <<toPeer, toClient, sync>>
vars == <<sessVars, callVars, peerVars, wireVars, wrote, taken, cdata, faults,
          fails>>

Pcs == {"idle", "recv", "posths", "answer"}

(***************************************************************************)
(* What travels: sealed records; and records too short to hold a tag, with *)
(* a damaged length, CCS records and malformed CCS records.  A payload is  *)
(* its ordinal among the payloads of its sender and its length; handshake  *)
(* records and alerts hold messages.                                       *)
(***************************************************************************)
Alerts == {"close_notify", "fatal"}
Body == [id: Nat, len: Nat, msgs: Seq(HsMsg \cup Alerts)]

Data(id, len) == [id |-> id, len |-> len, msgs |-> <<>>]
Messages(q) == [id |-> 0, len |-> 0, msgs |-> q]

PlainForms == {"short", "ccs", "badCcs", "badLength"}

Init ==
    /\ flags = {"ESTABLISHED"}      \* wn_SessionEstablish has run
    /\ c = FreshDirection
    /\ s = FreshDirection
    /\ pc = "idle"
    /\ outCap = 0
    /\ msgs = <<>>
    /\ ret = "SUCCESS"
    /\ toPeer = <<>>
    /\ toClient = <<>>
    /\ sync = TRUE
    /\ pw = FreshDirection
    /\ pr = FreshDirection
    /\ pEof = FALSE
    /\ peer = "open"
    /\ wrote = <<>>
    /\ plog = <<>>
    /\ taken = <<>>
    /\ pgot = <<>>
    /\ cdata = 0
    /\ pdata = 0
    /\ faults = 0
    /\ fails = 0

-----------------------------------------------------------------------------
(***************************************************************************)
(* ioSend.  It either takes the whole record, or reports less than that: a *)
(* report of failure says nothing of how much of the record has left.      *)
(* `ok' is what the caller sees.                                           *)
(***************************************************************************)
IoSend(rec, ok) ==
    \/ /\ ok
       /\ toPeer' = Append(toPeer, rec)
       /\ UNCHANGED faults
    \/ /\ ~ok
       /\ faults < MaxFaults
       /\ faults' = faults + 1
       /\ toPeer' \in {toPeer, Append(toPeer, rec), Append(toPeer, Torn(rec))}

CryptoFail == fails < MaxCryptoFails /\ fails' = fails + 1

(* The client has protected a record: the history of NonceUnique. *)
Emit(rec, ok) ==
    /\ Len(wrote) < MaxRecords
    /\ wrote' = Append(wrote, rec)
    /\ IoSend(rec, ok)

Return(code) == pc' = "idle" /\ ret' = code /\ msgs' = <<>> /\ outCap' = 0

(* Mutant: the WN_SESS_CLOSED test is missing. *)
StateErrorIgnoringClosed ==
    IF "ESTABLISHED" \notin flags THEN "E_BAD_STATE" ELSE "SUCCESS"

(* The guards wn_Send and wn_Recv share, in their order. *)
StateError == IF "CLOSED" \in flags THEN "E_CLOSED"
              ELSE IF "ESTABLISHED" \notin flags THEN "E_BAD_STATE"
              ELSE "SUCCESS"

(***************************************************************************)
(* wn_Send.  cSeq advances as soon as the record is protected, before      *)
(* ioSend and whatever ioSend returns.                                     *)
(***************************************************************************)
SendRefused(len) ==
    /\ pc = "idle"
    /\ StateError # "SUCCESS" \/ len > ScratchCap
    /\ ret' = IF StateError # "SUCCESS" THEN StateError ELSE "E_INVALID_ARG"
    /\ UNCHANGED <<sessVars, pc, outCap, msgs, peerVars, wireVars,
                   wrote, taken, cdata, faults, fails>>

SendCryptoFails(len) ==
    /\ pc = "idle"
    /\ StateError = "SUCCESS" /\ len <= ScratchCap
    /\ CryptoFail
    /\ Return("E_CRYPTO")
    /\ UNCHANGED <<sessVars, peerVars, wireVars, wrote, taken, cdata,
                   faults>>

(* Mutant: cSeq advances only when ioSend took the whole record. *)
SendRecordLateCount(len) ==
    /\ pc = "idle"
    /\ StateError = "SUCCESS" /\ len <= ScratchCap
    /\ cdata < MaxSends
    /\ cdata' = cdata + 1
    /\ \E ok \in BOOLEAN :
          /\ Emit(Protect(c, "appdata", Data(cdata', len)), ok)
          /\ c' = IF ok THEN Bump(c) ELSE c
          /\ Return(IF ok THEN "SUCCESS" ELSE "E_CRYPTO")
    /\ UNCHANGED <<flags, s, peerVars, toClient, sync, taken, fails>>

SendRecord(len) ==
    /\ pc = "idle"
    /\ StateError = "SUCCESS" /\ len <= ScratchCap
    /\ cdata < MaxSends
    /\ cdata' = cdata + 1
    /\ c' = Bump(c)
    /\ \E ok \in BOOLEAN :
          /\ Emit(Protect(c, "appdata", Data(cdata', len)), ok)
          /\ Return(IF ok THEN "SUCCESS" ELSE "E_CRYPTO")
    /\ UNCHANGED <<flags, s, peerVars, toClient, sync, taken, fails>>

wn_Send(len) == SendRefused(len) \/ SendCryptoFails(len) \/ SendRecord(len)

-----------------------------------------------------------------------------
(* wn_Recv up to its loop. *)
RecvRefused ==
    /\ pc = "idle"
    /\ StateError # "SUCCESS"
    /\ ret' = StateError
    /\ UNCHANGED <<sessVars, pc, outCap, msgs, peerVars, wireVars,
                   wrote, taken, cdata, faults, fails>>

RecvCall(cap) ==
    /\ pc = "idle"
    /\ StateError = "SUCCESS"
    /\ pc' = "recv"
    /\ outCap' = cap
    /\ UNCHANGED <<sessVars, msgs, ret, peerVars, wireVars, wrote,
                   taken, cdata, faults, fails>>

wn_Recv == RecvRefused \/ \E cap \in OutCaps : RecvCall(cap)

(* Mutant: a read of 0 bytes, the end of the stream, is tried again. *)
IoRecvFailsRetried ==
    /\ pc = "recv" /\ toClient = <<>>
    /\ UNCHANGED vars

(***************************************************************************)
(* wn_RecvRecord fails: ioRecv reports an error or end of stream between   *)
(* two records; or inside one, and the bytes read so far are gone.         *)
(***************************************************************************)
IoRecvFails ==
    /\ pc = "recv"
    /\ \/ toClient = <<>> /\ UNCHANGED <<sync, faults>>
       \/ /\ toClient # <<>> /\ faults < MaxFaults
          /\ faults' = faults + 1
          /\ sync' \in {sync, FALSE}
    /\ Return("E_CRYPTO")
    /\ UNCHANGED <<sessVars, peerVars, toPeer, toClient, wrote, taken,
                   cdata, fails>>

(***************************************************************************)
(* wn_RecvRecord reads from the middle of a record: five bytes of          *)
(* ciphertext taken for a header, then whatever length they spell.  What   *)
(* is read is no record of the peer; where the read ends is anyone's guess.*)
(***************************************************************************)
RecvMisaligned ==
    /\ pc = "recv"
    /\ ~sync /\ toClient # <<>>
    /\ \/ UNCHANGED <<toClient, sync>>
       \/ /\ \E k \in 1 .. Len(toClient) :
                toClient' = SubSeq(toClient, k + 1, Len(toClient))
          /\ sync' \in BOOLEAN
    /\ \E code \in {"E_CRYPTO", "E_DECODE", "E_BAD_MAC", "E_INVALID_ARG",
                    "E_UNEXPECTED_MSG"} : Return(code)
    /\ UNCHANGED <<sessVars, peerVars, toPeer, wrote, taken, cdata,
                   faults, fails>>

(* The length in the header is 0, above the limit, or more than scratch    *)
(* can hold: the header has been read and the rest of the record has not.  *)
BadLength(rec) == \/ rec.form = "badLength"
                  \/ /\ rec.form = "sealed" /\ rec.ctype = "appdata"
                     /\ rec.body.len > ScratchCap

(* The code of the wn_Recv loop body before the content type is looked at. *)
RecordError(rec) ==
    IF BadLength(rec) THEN "E_CRYPTO"
    ELSE IF rec.form = "badCcs" THEN "E_DECODE"
    ELSE IF rec.form = "ccs" THEN "E_UNEXPECTED_MSG"
    ELSE Unprotect(s, rec)

RecvBadRecord ==
    /\ pc = "recv"
    /\ sync /\ toClient # <<>>
    /\ LET rec == Head(toClient) IN
          /\ RecordError(rec) # "SUCCESS"
          /\ Return(RecordError(rec))
          /\ IF BadLength(rec) THEN sync' = FALSE /\ UNCHANGED toClient
                             ELSE toClient' = Tail(toClient) /\ UNCHANGED sync
    /\ UNCHANGED <<sessVars, peerVars, toPeer, wrote, taken, cdata,
                   faults, fails>>

(* The record authenticates: what wn_Recv does by content type. *)
RecvOpened(ctype) ==
    /\ pc = "recv"
    /\ sync /\ toClient # <<>>
    /\ RecordError(Head(toClient)) = "SUCCESS"
    /\ Head(toClient).ctype = ctype
    /\ toClient' = Tail(toClient)
    /\ s' = Bump(s)

RecvAppData ==
    /\ RecvOpened("appdata")
    /\ LET data == Head(toClient).body IN
          /\ taken' = Append(taken, [id |-> data.id,
                                     kept |-> data.len <= outCap])
          /\ Return(IF data.len <= outCap THEN "SUCCESS" ELSE "E_INVALID_ARG")
    /\ UNCHANGED <<flags, c, peerVars, toPeer, sync, wrote, cdata,
                   faults, fails>>

RecvHandshake ==
    /\ RecvOpened("handshake")
    /\ pc' = "posths"
    /\ msgs' = Head(toClient).body.msgs
    /\ UNCHANGED <<flags, c, outCap, ret, peerVars, toPeer, sync, wrote, taken,
                   cdata, faults, fails>>

(* Mutant: close_notify sets the flag and wn_Recv reads on. *)
RecvAlertReadsOn ==
    /\ RecvOpened("alert")
    /\ IF Head(toClient).body.msgs = <<"close_notify">>
       THEN flags' = flags \cup {"CLOSED"} /\ UNCHANGED callVars
       ELSE UNCHANGED flags /\ Return("E_CRYPTO")
    /\ UNCHANGED <<c, peerVars, toPeer, sync, wrote, taken, cdata, faults, fails>>

RecvAlert ==
    /\ RecvOpened("alert")
    /\ IF Head(toClient).body.msgs = <<"close_notify">>
       THEN flags' = flags \cup {"CLOSED"} /\ Return("E_CLOSED")
       ELSE UNCHANGED flags /\ Return("E_CRYPTO")
    /\ UNCHANGED <<c, peerVars, toPeer, sync, wrote, taken, cdata,
                   faults, fails>>

RecvUnknown ==
    /\ RecvOpened("unknown")
    /\ Return("E_UNEXPECTED_MSG")
    /\ UNCHANGED <<flags, c, peerVars, toPeer, sync, wrote, taken,
                   cdata, faults, fails>>

-----------------------------------------------------------------------------
(***************************************************************************)
(* wn_session_posths, one message per step.  The wn_Recv loop goes on to   *)
(* the next record when the messages are used up.                          *)
(***************************************************************************)
PostHsDone ==
    /\ pc = "posths" /\ msgs = <<>>
    /\ pc' = "recv"
    /\ UNCHANGED <<sessVars, outCap, msgs, ret, peerVars, wireVars, wrote,
                   taken, cdata, faults, fails>>

PostHsTicket ==
    /\ pc = "posths" /\ msgs # <<>> /\ Head(msgs) = "nst"
    /\ msgs' = Tail(msgs)
    /\ UNCHANGED <<sessVars, pc, outCap, ret, peerVars, wireVars,
                   wrote, taken, cdata, faults, fails>>

(* The reader runs out of bytes, or the bytes are no message it knows. *)
PostHsError ==
    /\ pc = "posths" /\ msgs # <<>>
    /\ \/ Head(msgs) \in {"kuBad", "nstFirst", "nstRest"} /\ Return("E_DECODE")
       \/ Head(msgs) \in {"other", "nstRest"} /\ Return("E_UNEXPECTED_MSG")
    /\ UNCHANGED <<sessVars, peerVars, wireVars, wrote, taken, cdata,
                   faults, fails>>

(* Mutant: update_requested is not answered. *)
PostHsKeyUpdateUnanswered ==
    /\ pc = "posths" /\ msgs # <<>> /\ Head(msgs) \in {"ku0", "ku1"}
    /\ s' = [KeyUpdated(s) EXCEPT !.seq = 0]
    /\ msgs' = Tail(msgs)
    /\ UNCHANGED <<flags, c, pc, outCap, ret, peerVars, wireVars, wrote, taken,
                   cdata, faults, fails>>

PostHsKeyUpdate ==
    /\ pc = "posths" /\ msgs # <<>> /\ Head(msgs) \in {"ku0", "ku1"}
    /\ s' = [KeyUpdated(s) EXCEPT !.seq = 0]
    /\ pc' = IF Head(msgs) = "ku1" THEN "answer" ELSE "posths"
    /\ msgs' = Tail(msgs)
    /\ UNCHANGED <<flags, c, outCap, ret, peerVars, wireVars, wrote,
                   taken, cdata, faults, fails>>

(* Mutant: sSeq is reset before the new key is known to be in place. *)
PostHsKeyUpdateFailsReset ==
    /\ pc = "posths" /\ msgs # <<>> /\ Head(msgs) \in {"ku0", "ku1"}
    /\ CryptoFail
    /\ s' \in KeyUpdateFailures([s EXCEPT !.seq = 0])
    /\ Return("E_CRYPTO")
    /\ UNCHANGED <<flags, c, peerVars, wireVars, wrote, taken, cdata, faults>>

PostHsKeyUpdateFails ==
    /\ pc = "posths" /\ msgs # <<>> /\ Head(msgs) \in {"ku0", "ku1"}
    /\ CryptoFail
    /\ s' \in KeyUpdateFailures(s)
    /\ Return("E_CRYPTO")
    /\ UNCHANGED <<flags, c, peerVars, wireVars, wrote, taken, cdata,
                   faults>>

(***************************************************************************)
(* wn_session_send_key_update.  The KeyUpdate goes out under the old key;  *)
(* cSeq advances before ioSend, and returns to 0 only once the new key and *)
(* iv are in place.                                                        *)
(***************************************************************************)
KuRecord == Protect(c, "handshake", Messages(<<"ku0">>))

(* Mutant: cSeq is not reset under the new key. *)
AnswerKeyUpdateKeepsSeq ==
    /\ pc = "answer"
    /\ Emit(KuRecord, TRUE)
    /\ c' = KeyUpdated(Bump(c))
    /\ pc' = "posths"
    /\ UNCHANGED <<flags, s, outCap, msgs, ret, peerVars, toClient, sync, taken,
                   cdata, fails>>

AnswerKeyUpdate ==
    /\ pc = "answer"
    /\ Emit(KuRecord, TRUE)
    /\ c' = [KeyUpdated(c) EXCEPT !.seq = 0]
    /\ pc' = "posths"
    /\ UNCHANGED <<flags, s, outCap, msgs, ret, peerVars, toClient,
                   sync, taken, cdata, fails>>

AnswerIoFails ==
    /\ pc = "answer"
    /\ Emit(KuRecord, FALSE)
    /\ c' = Bump(c)
    /\ Return("E_CRYPTO")
    /\ UNCHANGED <<flags, s, peerVars, toClient, sync, taken, cdata,
                   fails>>

(* Mutant: cSeq is reset although the key update failed. *)
AnswerCryptoFailsReset ==
    /\ pc = "answer"
    /\ CryptoFail
    /\ Emit(KuRecord, TRUE)
    /\ c' \in KeyUpdateFailures([c EXCEPT !.seq = 0])
    /\ Return("E_CRYPTO")
    /\ UNCHANGED <<flags, s, peerVars, toClient, sync, taken, cdata>>

AnswerCryptoFails ==
    /\ pc = "answer"
    /\ CryptoFail
    /\ \/ UNCHANGED <<c, wrote, toPeer, faults>>             \* Protect failed
       \/ /\ Emit(KuRecord, TRUE)
          /\ c' \in KeyUpdateFailures(Bump(c))
    /\ Return("E_CRYPTO")
    /\ UNCHANGED <<flags, s, peerVars, toClient, sync, taken, cdata>>

-----------------------------------------------------------------------------
(***************************************************************************)
(* wn_Close: close_notify on a session that is open both ways (cSeq stays, *)
(* ioSend's result is ignored), then ForceZero over the whole session.     *)
(***************************************************************************)
ForceZeroSession == flags' = {} /\ c' = ForceZeroed /\ s' = ForceZeroed

CloseWithNotify ==
    /\ pc = "idle"
    /\ "ESTABLISHED" \in flags /\ "CLOSED" \notin flags
    /\ \E ok \in BOOLEAN : Emit(Protect(c, "alert", Messages(<<"close_notify">>)), ok)
    /\ ForceZeroSession
    /\ Return("SUCCESS")
    /\ UNCHANGED <<peerVars, toClient, sync, taken, cdata, fails>>

CloseCryptoFails ==
    /\ pc = "idle"
    /\ "ESTABLISHED" \in flags /\ "CLOSED" \notin flags
    /\ CryptoFail
    /\ ForceZeroSession
    /\ Return("E_CRYPTO")
    /\ UNCHANGED <<peerVars, wireVars, wrote, taken, cdata, faults>>

CloseQuietly ==
    /\ pc = "idle"
    /\ "ESTABLISHED" \notin flags \/ "CLOSED" \in flags
    /\ ForceZeroSession
    /\ Return("SUCCESS")
    /\ UNCHANGED <<peerVars, wireVars, wrote, taken, cdata, faults,
                   fails>>

wn_Close == CloseWithNotify \/ CloseCryptoFails \/ CloseQuietly

-----------------------------------------------------------------------------
(***************************************************************************)
(* The peer (external).  It writes application data, post-handshake        *)
(* messages and alerts, rekeys its write direction after a KeyUpdate it    *)
(* sends and its read direction after one it receives, writes nothing      *)
(* after close_notify, and gives up at the first record that does not      *)
(* authenticate in order.                                                  *)
(***************************************************************************)
PeerEmit(ctype, body) ==
    /\ peer = "open"
    /\ Len(plog) < MaxPeerRecords
    /\ plog' = Append(plog, Protect(pw, ctype, body))
    /\ toClient' = Append(toClient, Protect(pw, ctype, body))

PeerData(len) ==
    /\ pdata' = pdata + 1
    /\ PeerEmit("appdata", Data(pdata', len))
    /\ pw' = Bump(pw)
    /\ UNCHANGED <<sessVars, callVars, pr, pEof, peer, pgot, toPeer, sync, wrote,
                   taken, cdata, faults, fails>>

PeerHandshake(body) ==
    /\ PeerEmit("handshake", Messages(body))
    /\ pw' = IF body # <<>> /\ body[Len(body)] \in {"ku0", "ku1"}
             THEN [KeyUpdated(pw) EXCEPT !.seq = 0] ELSE Bump(pw)
    /\ UNCHANGED <<sessVars, callVars, pr, pEof, peer, pgot, pdata, toPeer, sync,
                   wrote, taken, cdata, faults, fails>>

PeerAlert(body) ==
    /\ PeerEmit("alert", Messages(<<body>>))
    /\ pw' = Bump(pw)
    /\ peer' = IF body = "close_notify" THEN "closed" ELSE "dead"
    /\ UNCHANGED <<sessVars, callVars, pr, pEof, pgot, pdata, toPeer, sync, wrote,
                   taken, cdata, faults, fails>>

(* A record whose inner plaintext names no known content type, or none. *)
PeerOddContent(ctype) ==
    /\ faults < MaxFaults /\ faults' = faults + 1
    /\ PeerEmit(ctype, Messages(<<>>))
    /\ pw' = Bump(pw)
    /\ UNCHANGED <<sessVars, callVars, pr, pEof, peer, pgot, pdata, toPeer, sync,
                   wrote, taken, cdata, fails>>

PeerOpens(rec) == peer # "dead" /\ Unprotect(pr, rec) = "SUCCESS"

PeerRecv ==
    /\ toPeer # <<>> /\ peer # "dead"
    /\ toPeer' = Tail(toPeer)
    /\ LET rec == Head(toPeer) IN
          IF PeerOpens(rec)
          THEN /\ pr' = IF rec.ctype = "handshake"
                        THEN [KeyUpdated(pr) EXCEPT !.seq = 0] ELSE Bump(pr)
               /\ pgot' = IF rec.ctype = "appdata"
                          THEN Append(pgot, rec.body.id) ELSE pgot
               /\ pEof' = (pEof \/ rec.ctype = "alert")
               /\ UNCHANGED peer
          ELSE peer' = "dead" /\ UNCHANGED <<pr, pEof, pgot>>
    /\ UNCHANGED <<sessVars, callVars, pw, plog, pdata, toClient, sync, wrote,
                   taken, cdata, faults, fails>>

-----------------------------------------------------------------------------
(***************************************************************************)
(* The transport (external) loses, repeats, reorders or damages a record   *)
(* on its way to the client, or a plaintext record turns up there.         *)
(***************************************************************************)
Without(q, i) == SubSeq(q, 1, i - 1) \o SubSeq(q, i + 1, Len(q))
Insert(q, i, rec) == SubSeq(q, 1, i) \o <<rec>> \o SubSeq(q, i + 1, Len(q))

TransportFault ==
    /\ faults < MaxFaults
    /\ faults' = faults + 1
    /\ \/ \E i \in DOMAIN toClient : toClient' = Without(toClient, i)
       \/ \E i \in DOMAIN toClient :
             toClient' = Append(toClient, toClient[i])
       \/ \E i \in DOMAIN toClient, j \in DOMAIN toClient :
             /\ i < j
             /\ toClient' = [toClient EXCEPT ![i] = toClient[j],
                                             ![j] = toClient[i]]
       \/ \E i \in DOMAIN toClient :
             /\ toClient[i].form = "sealed"
             /\ toClient' = [toClient EXCEPT ![i] = Torn(toClient[i])]
       \/ \E i \in 0 .. Len(toClient), form \in PlainForms :
             toClient' = Insert(toClient, i, Plain(form))
    /\ UNCHANGED <<sessVars, callVars, peerVars, toPeer, sync, wrote, taken,
                   cdata, fails>>

-----------------------------------------------------------------------------
(* The steps of a call in progress, and what the caller may start. *)
RecvStep == \/ IoRecvFails \/ RecvMisaligned \/ RecvBadRecord
            \/ RecvAppData \/ RecvHandshake \/ RecvAlert \/ RecvUnknown

PostHsStep == \/ PostHsDone \/ PostHsTicket \/ PostHsError
              \/ PostHsKeyUpdate \/ PostHsKeyUpdateFails
              \/ AnswerKeyUpdate \/ AnswerIoFails \/ AnswerCryptoFails

CallStep == RecvStep \/ PostHsStep

Caller == \/ \E len \in DataLens : wn_Send(len)
          \/ wn_Recv
          \/ wn_Close

PeerStep == \/ \E len \in DataLens : PeerData(len)
            \/ \E body \in HsBodies : PeerHandshake(body)
            \/ \E body \in Alerts : PeerAlert(body)
            \/ \E ctype \in {"unknown", "padding"} : PeerOddContent(ctype)
            \/ PeerRecv

Next == Caller \/ CallStep \/ PeerStep \/ TransportFault

Spec == Init /\ [][Next]_vars

(***************************************************************************)
(* A call in progress goes on: the session code never waits except in      *)
(* ioRecv, and ioRecv returns, with data or with an error.                 *)
(***************************************************************************)
FairSpec == Spec /\ WF_vars(CallStep)

-----------------------------------------------------------------------------
(***************************************************************************)
(* Properties                                                              *)
(***************************************************************************)
CTypes == {"appdata", "handshake", "alert", "padding", "unknown"}
Sealed == [form: {"sealed"}, key: Nat, iv: Nat, seq: 0 .. Word64 - 1,
           ctype: CTypes, body: Body, intact: BOOLEAN]
OnWire == Sealed \cup {Plain(form) : form \in PlainForms}

CallTypeOK ==
    /\ flags \subseteq {"ESTABLISHED", "CLOSED"}
    /\ c \in Direction /\ s \in Direction
    /\ pc \in Pcs /\ outCap \in Nat /\ ret \in Codes
    /\ msgs \in Seq(HsMsg \cup Alerts)
    /\ pc # "idle" => flags = {"ESTABLISHED"}
    /\ pc \in {"idle", "recv"} => msgs = <<>>

WireTypeOK ==
    /\ toPeer \in Seq(Sealed)
    /\ toClient \in Seq(OnWire)
    /\ sync \in BOOLEAN

PeerTypeOK ==
    /\ pw \in Direction /\ pr \in Direction
    /\ pEof \in BOOLEAN /\ peer \in {"open", "closed", "dead"}
    /\ plog \in Seq(Sealed)
    /\ pgot \in Seq(Nat)
    /\ pdata \in Nat

HistoryTypeOK ==
    /\ wrote \in Seq(Sealed)
    /\ taken \in Seq([id: Nat, kept: BOOLEAN])
    /\ cdata \in Nat
    /\ faults \in 0 .. MaxFaults /\ fails \in 0 .. MaxCryptoFails

(* Types of the session struct, the call in progress, the wires and the    *)
(* histories; a call is only ever in progress on an established session    *)
(* that is not closed, and only wn_session_posths holds unread messages.   *)
TypeOK == CallTypeOK /\ WireTypeOK /\ PeerTypeOK /\ HistoryTypeOK

(* No AES-GCM nonce is used twice: two records the client protects under   *)
(* one key have one iv and different sequence numbers, whatever ioSend     *)
(* returned in between and whichever step of a key update failed (the      *)
(* order of cSeq++, ioSend, wn_Tls13_KeyUpdate and cSeq = 0 in wn_Send and *)
(* wn_session_send_key_update, and wn_Close's use of cSeq).                *)
NonceUnique ==
    \A i, j \in 1 .. Len(wrote) :
        (i < j /\ wrote[i].key = wrote[j].key)
            => wrote[i].iv = wrote[j].iv /\ wrote[i].seq # wrote[j].seq

(* Why NonceUnique holds: as long as the session is not wiped, no record   *)
(* was sealed under a later key than cKey, and those sealed under cKey     *)
(* have its iv and a sequence number below cSeq; cKey never runs ahead of  *)
(* cAppSecret, so the next key update leaves all used keys behind; and     *)
(* cSeq counts no more than the records sealed, so it has not wrapped.     *)
NonceInv ==
    /\ TypeOK
    /\ c.key <= c.secret
    /\ c.seq <= Len(wrote) /\ Len(wrote) <= MaxRecords
    /\ flags # {} =>
          \A i \in 1 .. Len(wrote) :
              /\ wrote[i].key <= c.key
              /\ wrote[i].key = c.key => /\ wrote[i].iv = c.iv
                                         /\ wrote[i].seq < c.seq
    /\ NonceUnique

(* No record of the peer was too long for scratch, which costs the        *)
(* alignment of the stream.                                               *)
AllFit == \A i \in 1 .. Len(plog) : ~BadLength(plog[i])

(* Only tickets stand in front of a KeyUpdate in its record: at a message  *)
(* it refuses, wn_session_posths leaves, and never gets to the KeyUpdate.  *)
KeyUpdatesReached ==
    \A m \in 1 .. Len(plog) :
        LET q == plog[m].body.msgs IN
            (q # <<>> /\ q[Len(q)] \in {"ku0", "ku1"})
                => \A i \in 1 .. Len(q) - 1 : q[i] = "nst"

Undisturbed == faults = 0 /\ fails = 0 /\ AllFit /\ KeyUpdatesReached

(* Without a fault the two ends agree on keys and counters: what the       *)
(* client is about to read opens under its read direction, and what the    *)
(* peer is about to read under the peer's, also while KeyUpdates cross     *)
(* application data in flight (rekeying in wn_session_posths and           *)
(* wn_session_send_key_update).                                            *)
KeysInStep ==
    Undisturbed =>
        /\ (toClient # <<>> /\ pc \in {"idle", "recv"}
              /\ flags = {"ESTABLISHED"})
              => Unprotect(s, Head(toClient)) = "SUCCESS"
        /\ toPeer # <<>> => Unprotect(pr, Head(toPeer)) = "SUCCESS"

Asks(rec) == /\ rec.ctype = "handshake" /\ rec.body.msgs # <<>>
             /\ rec.body.msgs[Len(rec.body.msgs)] = "ku1"

KeyUpdatesAsked == {i \in 1 .. Len(plog) : Asks(plog[i])}
KeyUpdatesSent == {i \in 1 .. Len(wrote) : wrote[i].ctype = "handshake"}

(* Each KeyUpdate with update_requested is answered by one KeyUpdate of    *)
(* our own and never by two, and none is sent unasked, even when records   *)
(* are repeated (the req == WN_KU_REQUESTED branch of wn_session_posths).  *)
(* Without a fault none is left unanswered once all has been read.         *)
KeyUpdatesAnswered ==
    /\ Cardinality(KeyUpdatesSent) <= Cardinality(KeyUpdatesAsked)
    /\ (Undisturbed /\ flags = {"ESTABLISHED"}
          /\ pc = "idle" /\ toClient = <<>>)
          => Cardinality(KeyUpdatesSent) = Cardinality(KeyUpdatesAsked)

(* Once the peer has closed the session, or wn_Close has wiped it, no call *)
(* protects another record: neither wn_Send nor a second wn_Close writes   *)
(* under a zeroed key (the flag tests at the head of the three calls).     *)
ClosedIsFinal ==
    [][flags # {"ESTABLISHED"} => wrote' = wrote]_vars

(* From the peer to the caller of wn_Recv: payloads are taken in order,    *)
(* without gap or repetition, under any loss, repetition, reordering or    *)
(* damage of records and after any failed call; and wn_Recv reports        *)
(* E_CLOSED only when the peer's last payload has been taken.  Taken off   *)
(* the channel, that is: a payload larger than outCap is taken too, and    *)
(* the call reports it (wn_session.c:193).                                 *)
In == INSTANCE WnChannel WITH
        sent <- pdata,
        got <- [i \in 1 .. Len(taken) |-> taken[i].id],
        reader <- IF flags = {} THEN "gone"
                  ELSE IF "CLOSED" \in flags THEN "eof" ELSE "open"

RecvIsChannel == In!ChannelSpec

(* From wn_Send to the peer: the peer accepts the payloads in order and    *)
(* without gap, also when a wn_Send failed half-way and the caller went    *)
(* on, and sees close_notify only behind the last payload.                 *)
Out == INSTANCE WnChannel WITH
        sent <- cdata,
        got <- pgot,
        reader <- IF pEof THEN "eof" ELSE IF peer = "dead" THEN "gone"
                  ELSE "open"

SendIsChannel == Out!ChannelSpec

(* A wn_Recv in progress returns: the loop ends once the peer's stream of  *)
(* post-handshake messages does, and an ioRecv that reports end of stream  *)
(* or an error ends it too.                                                *)
RecvReturns == pc # "idle" ~> pc = "idle"
=============================================================================
