--------------------------- MODULE WnClientHello ----------------------------
(***************************************************************************)
(* The two ClientHello builders, wn_ClientHello_Build_ex and the PSK       *)
(* path's build_client_hello, and the records that carry what they build.  *)
(* WnRecordIo adds the records that come back.                             *)
(*                                                                         *)
(* A builder is a list of writer calls.  Of the bytes only their number is *)
(* kept and, of the length fields, the number they hold.  A length is      *)
(* filled in behind its content (start, end) or computed before it (pre);  *)
(* then `end' only marks where its content ends.                           *)
(***************************************************************************)
EXTENDS WnMsg, FiniteSets

CONSTANTS Jobs      \* calls: [path, cap, nameLen, sidLen, pubLen, nAlgs]

(* path "cert": nameLen is that of serverName (0 for NULL); path "psk":
   nameLen is that of the identity.  nAlgs: signature schemes compiled in;
   the PSK path has two lists, with and without ML-DSA. *)
ASSUME JobsAssumption ==
    \A j \in Jobs : /\ j.path \in {"cert", "psk"}
                    /\ {j.cap, j.nameLen, j.sidLen, j.pubLen, j.nAlgs} \subseteq Nat
                    /\ j.path = "psk" => j.nAlgs \in {2, 3}

VARIABLES
    job,
    pc,         \* "check", "build", "send", then "recv" or "done"
    i,          \* the calls made
    w,          \* the writer
    open,       \* [a length not closed -> [at, n, val]]
    fields,     \* the lengths closed: [name, val, span]
    trunc,      \* truncOff and binderOff
    wire,       \* bytes sent, as [announced, body] for each record
    ret

helloVars == <<job, pc, i, w, open, fields, trunc, wire>>

HelloInit ==
    /\ job \in Jobs
    /\ pc = "check"
    /\ i = 0
    /\ w = WriterInit(job.cap)
    /\ open = << >>
    /\ fields = {}
    /\ trunc = [truncOff |-> 0, binderOff |-> 0]
    /\ wire = << >>
    /\ ret = "SUCCESS"

Put(n) == [op |-> "put", n |-> n, name |-> "none", val |-> 0]
Start(name, n) == [op |-> "start", n |-> n, name |-> name, val |-> 0]
Pre(name, n, val) == [op |-> "pre", n |-> n, name |-> name, val |-> val]
End(name) == [op |-> "end", n |-> 0, name |-> name, val |-> 0]
Note(name) == [op |-> "note", n |-> 0, name |-> name, val |-> 0]

(* An extension whose length is computed: type, length, content *)
Ext(name, len, content) == <<Put(2), Pre(name, 2, len)>> \o content \o <<End(name)>>

Versions == Ext("versions", 3, <<Pre("versionList", 1, 2), Put(2), End("versionList")>>)
Groups == Ext("groups", 4, <<Pre("groupList", 2, 2), Put(2), End("groupList")>>)

KeyShareExt(pubLen) ==
    Ext("keyShare", 6 + pubLen,
        <<Pre("shares", 2, 4 + pubLen), Put(2), Pre("share", 2, pubLen), Put(pubLen),
          End("share"), End("shares")>>)

(* type, version, random, session id, suites and compression *)
HelloHead(sidLen) ==
    <<Put(1), Start("hs", 3), Put(2), Put(32),
      Pre("sid", 1, sidLen), Put(sidLen), End("sid"),
      Pre("suites", 2, 2), Put(2), End("suites"),
      Pre("comp", 1, 1), Put(1), End("comp"), Start("exts", 2)>>

ServerNameExt(nameLen) ==
    IF nameLen = 0 THEN << >>
    ELSE Ext("sni", 5 + nameLen,
             <<Pre("names", 2, 3 + nameLen), Put(1), Pre("name", 2, nameLen),
               Put(nameLen), End("name"), End("names")>>)

CertScript(j) ==
    HelloHead(j.sidLen) \o ServerNameExt(j.nameLen) \o Versions \o Groups
      \o <<Put(2), Start("algs", 2), Start("algList", 2), Put(2 * j.nAlgs),
           End("algList"), End("algs")>>
      \o KeyShareExt(j.pubLen) \o <<End("exts"), End("hs")>>

(* Mutant: the boundary is noted behind the length of the binders. *)
PskExtLateBoundary(idLen) ==
    <<Put(2), Start("psk", 2), Start("ids", 2), Pre("id", 2, idLen % 65536), Put(idLen),
      End("id"), Put(4), End("ids"), Pre("binders", 2, 33), Note("truncOff"),
      Pre("binder", 1, 32), Note("binderOff"), Put(32), End("binder"), End("binders"),
      End("psk")>>

PskExt(idLen) ==
    <<Put(2), Start("psk", 2), Start("ids", 2), Pre("id", 2, idLen % 65536), Put(idLen),
      End("id"), Put(4), End("ids"), Note("truncOff"), Pre("binders", 2, 33),
      Pre("binder", 1, 32), Note("binderOff"), Put(32), End("binder"), End("binders"),
      End("psk")>>

PskScript(j) ==
    HelloHead(32) \o Versions \o Groups
      \o Ext("algs", IF j.nAlgs = 3 THEN 8 ELSE 6,
             <<Pre("algList", 2, IF j.nAlgs = 3 THEN 6 ELSE 4), Put(2 * j.nAlgs),
               End("algList")>>)
      \o KeyShareExt(j.pubLen)
      \o Ext("modes", 2, <<Pre("modeList", 1, 1), Put(1), End("modeList")>>)
      \o PskExt(j.nameLen) \o <<End("exts"), End("hs")>>

Script == IF job.path = "psk" THEN PskScript(job) ELSE CertScript(job)

(* WN_DEFAULT_PUB_SZ in the builds with X25519, P-256 and the hybrid group *)
PubSz == {32, 65, 1216}

(* The arguments: each path has its own limits. *)
Valid == IF job.path = "psk" THEN job.cap >= 2048 /\ job.nameLen <= 65535
         ELSE job.pubLen \in PubSz /\ job.sidLen <= 32 /\ job.nameLen <= 255

Check ==
    /\ pc = "check"
    /\ IF Valid THEN pc' = "build" /\ UNCHANGED ret
       ELSE pc' = "done" /\ ret' = "E_INVALID_ARG"
    /\ UNCHANGED <<job, i, w, open, fields, trunc, wire>>

Step(op) ==
    /\ pc = "build" /\ i < Len(Script) /\ Script[i + 1].op = op
    /\ i' = i + 1
    /\ UNCHANGED <<job, pc, wire, ret>>

Call == Script[i + 1]

PutBytes == /\ Step("put")
            /\ w' = Write(w, Call.n)
            /\ UNCHANGED <<open, fields, trunc>>

Opened(name, at, n, val) ==
    [x \in DOMAIN open \cup {name} |->
        IF x = name THEN [at |-> at, n |-> n, val |-> val] ELSE open[x]]

LenStart == /\ Step("start")
            /\ w' = Write(w, Call.n)
            /\ open' = Opened(Call.name, w'.len, Call.n, -1)
            /\ UNCHANGED <<fields, trunc>>

LenBefore == /\ Step("pre")
             /\ w' = Write(w, Call.n)
             /\ open' = Opened(Call.name, w'.len, Call.n, Call.val)
             /\ UNCHANGED <<fields, trunc>>

Closing == /\ Step("end")
           /\ LET o == open[Call.name]
                  val == IF o.val # -1 THEN o.val
                         ELSE IF w.err THEN 0 ELSE LenEnd(w, o.at, o.n)
              IN fields' = fields \cup {[name |-> Call.name, span |-> w.len - o.at, val |-> val]}
           /\ open' = [x \in DOMAIN open \ {Call.name} |-> open[x]]
           /\ UNCHANGED <<w, trunc>>

NoteOffset == /\ Step("note")
              /\ trunc' = [trunc EXCEPT ![Call.name] = w.len]
              /\ UNCHANGED <<w, open, fields>>

BuildEnds ==
    /\ pc = "build" /\ i = Len(Script)
    /\ IF w.err
       THEN /\ ret' = IF job.path = "psk" THEN "E_CRYPTO" ELSE "E_INVALID_ARG"
            /\ pc' = "done"
       ELSE pc' = "send" /\ UNCHANGED ret
    /\ UNCHANGED <<job, i, w, open, fields, trunc, wire>>

(* Mutant: the two calls of the transport are not looked at. *)
SendRecordUnchecked(len) ==
    \E hdr \in {0, 5}, body \in {0, len} :
        wire' = Append(wire, [announced |-> len % 65536, hdr |-> hdr, body |-> body])
          /\ UNCHANGED ret

(* send_plain_record: the header, then the body; the transport may take less
   than it is given of either. *)
SendRecord(len) ==
    \E hdr \in {0, 5}, body \in {0, len} :
        /\ hdr # 5 => body = 0
        /\ wire' = Append(wire, [announced |-> len % 65536, hdr |-> hdr, body |-> body])
        /\ ret' = IF hdr = 5 /\ body = len THEN ret ELSE "E_CRYPTO"

(* ClientHello and, behind it, the compatibility ChangeCipherSpec. *)
Send ==
    /\ pc = "send"
    /\ SendRecord(IF wire = << >> THEN w.len ELSE 1)
    /\ pc' = IF ret' # "SUCCESS" THEN "done" ELSE IF wire = << >> THEN "send" ELSE "recv"
    /\ UNCHANGED <<job, i, w, open, fields, trunc>>

HelloNext == Check \/ PutBytes \/ LenStart \/ LenBefore \/ Closing \/ NoteOffset
               \/ BuildEnds \/ Send

-----------------------------------------------------------------------------
(* Every length of a ClientHello that is sent is that of its content, and the
   record announces what it carries (wn_msg.h:53 "span everything written
   since"). *)
LengthsMatch ==
    pc = "send" =>
        /\ \A f \in fields : f.val = f.span
        /\ DOMAIN open = {}
        /\ wire # << >> => wire[1].announced = w.len

(* The binder is the end of the message, and what is hashed for it is the
   message up to the binders' list (RFC 8446 4.2.11.2): the hash must not
   cover, nor miss, any byte the server's hash does. *)
BinderAtEnd ==
    (pc = "send" /\ job.path = "psk") =>
        /\ trunc.binderOff + 32 = w.len
        /\ trunc.truncOff + 3 = trunc.binderOff

(* A driver goes on only if both records went out whole; a hello that did not
   fit the buffer is not sent at all. *)
SentWholeOrFailed ==
    /\ pc = "recv" =>
          /\ Len(wire) = 2
          /\ \A r \in DOMAIN wire : wire[r].hdr = 5 /\ wire[r].body = wire[r].announced
    /\ w.err => wire = << >>
=============================================================================
