----------------------------- MODULE WnRecordIo -----------------------------
(***************************************************************************)
(* Reading records from a byte stream, once ClientHello is out: the        *)
(* io_recv_exact and wn_RecvRecord of src/wn_record.c, called again and    *)
(* again, over a transport that hands out the bytes in pieces of any size  *)
(* and may fail between any two.                                           *)
(*                                                                         *)
(* WnSession and WnConnect take a record as a unit that arrives whole or   *)
(* fails; this is the code that makes it one.                              *)
(***************************************************************************)
EXTENDS WnClientHello, SequencesExt

CONSTANTS
    Answers(_),     \* given the job: what the peer may send, sequences of [type, body]
    Cap,            \* cap: the size of the caller's buffer
    MaxFragment,    \* WN_MAX_PLAINTEXT + 256
    MaxFails        \* bound: how often the transport fails

(* Every caller's buffer has room for a header. *)
ASSUME RecordIoAssumption ==
    /\ Cap \in Nat /\ Cap >= 5 /\ MaxFragment \in Nat /\ MaxFails \in Nat
    /\ \A j \in Jobs : \A s \in Answers(j) : s \in Seq([type : Byte, body : Seq(Byte)])

VARIABLES
    records,    \* the records sent
    pos,        \* the bytes of them the transport has handed out
    rec,        \* rec: the buffer, as far as it is filled
    need,       \* the bytes io_recv_exact is to have, in all
    got,        \* what wn_RecvRecord has returned so far; ret is its last code
    fails       \* how often the transport has failed

recvVars == <<records, pos, rec, need, got, fails>>
vars == <<helloVars, recvVars, ret>>

ChangeCipher == 20
HeaderSz == 5

Wire(r) == <<r.type, 3, 3>> \o U16(Len(r.body)) \o r.body
stream == FlattenSeq([k \in DOMAIN records |-> Wire(records[k])])

Init ==
    /\ HelloInit
    /\ records \in Answers(job)
    /\ pos = 0
    /\ rec = <<>>
    /\ need = HeaderSz
    /\ got = <<>>
    /\ fails = 0

(* Mutant: what comes first of a body is taken for all of it. *)
ReadOnce(k) == need > HeaderSz \/ Len(rec) + k = need

(* The loop of io_recv_exact is over. *)
Complete(k) == Len(rec) + k = need

(* Mutant: a fragment that leaves no room for its header is let in. *)
LengthOkNoHeader(frag) == frag # 0 /\ frag <= Cap /\ frag <= MaxFragment

LengthOk(frag) == frag # 0 /\ frag + HeaderSz <= Cap /\ frag <= MaxFragment

(* wn_RecvRecord returns and is called anew. *)
Return(code) == ret' = code /\ rec' = <<>> /\ need' = HeaderSz

Frag(r) == 256 * r[4] + r[5]
Body(r) == SubSeq(r, HeaderSz + 1, Len(r))

(* Mutant: the loop goes on until there is one byte too many. *)
WholeOneMore(r) == HeaderSz + Frag(r) + 1

(* The record's length with its header *)
Whole(r) == HeaderSz + Frag(r)

(* recv hands out k bytes; with the last of the header the length is judged,
   with the last of the body the record. *)
RecvSome(k) ==
    LET r2 == rec \o SubSeq(stream, pos + 1, pos + k) IN
    /\ pc = "recv"
    /\ Len(rec) + k <= need /\ pos + k <= Len(stream)
    /\ pos' = pos + k
    /\ IF ~Complete(k) THEN rec' = r2 /\ UNCHANGED <<need, got, ret>>
       ELSE IF need = HeaderSz
       THEN /\ IF LengthOk(Frag(r2)) THEN rec' = r2 /\ need' = Whole(r2) /\ UNCHANGED ret
               ELSE Return("E_CRYPTO")
            /\ UNCHANGED got
       ELSE IF r2[1] = ChangeCipher /\ Body(r2) # <<1>>
       THEN Return("E_DECODE") /\ UNCHANGED got
       ELSE /\ Return("SUCCESS")
            /\ got' = Append(got, [type |-> r2[1], body |-> Body(r2)])
    /\ UNCHANGED <<helloVars, records, fails>>

(* recv returns 0 or less: the bytes read so far are lost. *)
RecvFails ==
    /\ pc = "recv"
    /\ fails < MaxFails
    /\ fails' = fails + 1
    /\ Return("E_CRYPTO")
    /\ UNCHANGED <<helloVars, records, pos, got>>

Recv == \E k \in 1 .. Cap : RecvSome(k)

Next == (HelloNext /\ UNCHANGED recvVars) \/ Recv \/ RecvFails

(* The transport hands out what the peer has sent. *)
Spec == Init /\ [][Next]_vars /\ WF_vars(Recv)

-----------------------------------------------------------------------------
WellFormed(r) ==
    /\ LengthOk(Len(r.body))
    /\ r.type = ChangeCipher => r.body = <<1>>

Kept(s) == FlattenSeq([k \in DOMAIN s |-> IF WellFormed(s[k]) THEN <<s[k]>> ELSE <<>>])

(* No call writes behind a buffer: not the builder's, whatever its capacity and
   however often the builder goes on after an error (wn_msg.c: err is sticky);
   nor that for records, whatever length a record announces. *)
WithinBuffer == w.len <= job.cap /\ Len(rec) <= need /\ need <= Cap

(* Until a call has failed with E_CRYPTO, what is returned are the peer's
   records, whole and in order, however the transport cuts them; only an ill
   formed ChangeCipherSpec is left out, and the stream stays in step over it. *)
Framed ==
    (fails = 0 /\ \A k \in DOMAIN records : LengthOk(Len(records[k].body))) =>
        IsPrefix(got, Kept(records))

(* When every record is well formed and the transport does not fail, all of
   them are returned. *)
AllReturned ==
    (pc = "recv" /\ \A k \in DOMAIN records : WellFormed(records[k]))
        ~> (fails > 0 \/ got = records)
=============================================================================
