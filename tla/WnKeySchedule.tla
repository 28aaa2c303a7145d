--------------------------- MODULE WnKeySchedule ----------------------------
(***************************************************************************)
(* The keys of a handshake: the calls of src/wn_keyschedule.c and          *)
(* src/wn_transcript.c and those of the key share in the order in which    *)
(* the two drivers of src/wn_connect.c make them, each of which may fail.  *)
(*                                                                         *)
(* Within a block the codes are combined with |= and the calls go on after *)
(* a failure, working on what the failed call has left in its buffer; only *)
(* a new block is guarded by ret.  HKDF, HMAC and the hash are free: a     *)
(* value is the term it was computed by.                                   *)
(***************************************************************************)
EXTENDS WnKeyShare

VARIABLES
    path,       \* the driver: "psk", wn_Connect_Psk_ex, or "cert", wn_connect_cert_impl
    i,          \* the calls made
    buf,        \* [buffer -> the term in it]
    tc,         \* tc: the messages hashed
    pc,         \* "run", "done"
    wire,       \* what is sent: [kind, terms]
    flags,      \* sess->flags
    keysReady   \* keysReady, of a build with WOLFNANO_SEND_ALERTS

driverVars == <<path, i, buf, tc, pc, wire, flags, keysReady>>
vars == <<ksVars, driverVars>>

(* A term: how it was made, of what, and whether it depends on a secret. *)
Term(op, args, secret) == <<op, args, secret>>
Depends(t) == t[3]
Public(name) == Term(name, <<>>, FALSE)

Zeros == Public("zeros")
Nil == Public("nil")
EmptyHash == Public("empty hash")
Junk == Public("junk")
Psk == Term("psk", <<>>, TRUE)
Ecdhe(secret) == Term("ecdhe", <<secret>>, TRUE)

Extract(salt, ikm) == Term("extract", <<salt, ikm>>, Depends(salt) \/ Depends(ikm))
ExpandLabel(secret, label, info) == Term(label, <<secret, info>>, Depends(secret))
FinishedMac(key, th) ==
    Term("hmac", <<ExpandLabel(key, "finished", Nil), th>>, Depends(key))
Hash(msgs) == Term("hash", msgs, FALSE)

(* The hellos with their share and binder, and what the binder is over *)
Hello(binder, sh) == Term("CH", <<binder, sh>>, FALSE)
ServerHelloOf(sh) == Term("SH", <<sh>>, FALSE)
Truncated == Public("CH to binders")

-----------------------------------------------------------------------------
(* A call: its operation, the buffer it writes, those it reads, its label.  It
   begins a block or is combined with the one before it. *)
Do(op, out, from, label) ==
    [op |-> op, out |-> out, from |-> from, label |-> label, first |-> FALSE]
Derive(out, secret, label, th) == Do("expand", out, <<secret, th>>, label)
Keys(key, iv, secret) ==
    <<Derive(key, secret, "key", "nil"), Derive(iv, secret, "iv", "nil")>>
Extracts(out, salt, ikm) == Do("extract", out, <<salt, ikm>>, "none")
Mac(out, key, th) == Do("mac", out, <<key, th>>, "none")
GetHash(out) == Do("hash", out, <<>>, "none")
Update(msg) == Do("update", "none", <<>>, msg)
Wipe(names) == Do("wipe", "none", names, "none")

First(c) == <<[c EXCEPT !.first = TRUE]>>

(* Mutant: the intermediate secret stays on the stack. *)
DeriveHsKeysUnwiped ==
    <<Derive("derived", "early", "derived", "emptyHash"),
      Extracts("hs", "derived", "ecdhe"),
      Derive("cHs", "hs", "c hs traffic", "th"), Derive("sHs", "hs", "s hs traffic", "th")>>
      \o Keys("cKey", "cIv", "cHs") \o Keys("sKey", "sIv", "sHs")

DeriveHsKeys ==
    <<Derive("derived", "early", "derived", "emptyHash"),
      Extracts("hs", "derived", "ecdhe"),
      Derive("cHs", "hs", "c hs traffic", "th"), Derive("sHs", "hs", "s hs traffic", "th")>>
      \o Keys("cKey", "cIv", "cHs") \o Keys("sKey", "sIv", "sHs")
      \o <<Wipe(<<"derived">>)>>

(* Mutant: the two directions are exchanged. *)
SessionEstablishCrossed ==
    First(Derive("derived", "hs", "derived", "emptyHash"))
      \o <<Extracts("master", "derived", "zeros"),
           Derive("cAppSecret", "master", "s ap traffic", "th"),
           Derive("sAppSecret", "master", "c ap traffic", "th")>>
      \o Keys("sess.cKey", "sess.cIv", "cAppSecret")
      \o Keys("sess.sKey", "sess.sIv", "sAppSecret")
      \o <<Do("establish", "none", <<>>, "none"), Wipe(<<"derived", "master">>)>>

SessionEstablish ==
    First(Derive("derived", "hs", "derived", "emptyHash"))
      \o <<Extracts("master", "derived", "zeros"),
           Derive("cAppSecret", "master", "c ap traffic", "th"),
           Derive("sAppSecret", "master", "s ap traffic", "th")>>
      \o Keys("sess.cKey", "sess.cIv", "cAppSecret")
      \o Keys("sess.sKey", "sess.sIv", "sAppSecret")
      \o <<Do("establish", "none", <<>>, "none"), Wipe(<<"derived", "master">>)>>

(* A function of the key share is called; WnKeyShare has its steps. *)
KeyShareFn(f) == First(Do("keyshare", "none", <<>>, f))

(* wn_KeyShare_Init is followed by wn_KeyShare_Generate. *)
KeyGeneration ==
    First(Do("empty", "emptyHash", <<>>, "none")) \o KeyShareFn("Init")

(* ClientHello, hashed whole; the binder is computed over its beginning. *)
PskHello ==
    KeyGeneration
      \o First(Extracts("early", "nil", "psk"))
      \o <<Derive("binderKey", "early", "ext binder", "emptyHash")>>
      \o First(Do("hash truncated", "th", <<>>, "none")) \o First(Mac("binder", "binderKey", "th"))
      \o First(Update("CH")) \o First(Do("send", "none", <<"binder">>, "hello"))

CertHello ==
    KeyGeneration \o First(Update("CH")) \o First(Do("send", "none", <<>>, "hello"))

ServerHello ==
    First(Do("receive", "none", <<>>, "none")) \o First(Update("SH"))
      \o First(Do("params", "none", <<>>, "none")) \o KeyShareFn("Shared") \o First(GetHash("th"))
      \o IF path = "psk" THEN DeriveHsKeys
         ELSE <<Extracts("early", "nil", "zeros")>> \o DeriveHsKeys
                \o <<Do("ready", "none", <<>>, "none")>>

(* The flight: Finished is checked against the transcript before it, and so is
   CertificateVerify; the server is one that has the same secrets. *)
PskFlight ==
    First(Update("EE")) \o First(GetHash("th")) \o First(Mac("mac", "sHs", "th"))
      \o First(Do("finished", "recvMac", <<"mac">>, "none")) \o First(Update("FIN"))

(* Mutant: the transcript is taken with CertificateVerify in it. *)
CertFlightLate ==
    First(Update("EE")) \o First(Update("CERT"))
      \o First(Update("CV")) \o First(GetHash("thCert"))
      \o First(Do("verify", "none", <<"thCert">>, "none"))
      \o First(GetHash("th")) \o First(Update("FIN"))
      \o First(Mac("mac", "sHs", "th"))
      \o First(Do("finished", "recvMac", <<"mac">>, "none"))

CertFlight ==
    First(Update("EE")) \o First(Update("CERT"))
      \o First(GetHash("thCert")) \o First(Update("CV"))
      \o First(Do("verify", "none", <<"thCert">>, "none"))
      \o First(GetHash("th")) \o First(Update("FIN"))
      \o First(Mac("mac", "sHs", "th"))
      \o First(Do("finished", "recvMac", <<"mac">>, "none"))

ClientFinished ==
    First(GetHash("th")) \o First(Mac("mac", "cHs", "th"))
      \o First(Do("send", "fin", <<"mac", "cKey", "cIv">>, "finished"))

Program ==
    IF path = "psk"
    THEN PskHello \o ServerHello \o PskFlight \o ClientFinished \o SessionEstablish
    ELSE CertHello \o ServerHello \o CertFlight \o ClientFinished \o SessionEstablish

(* What a driver zeroes on its way out; recvMac stands for plain and hsacc too. *)
Locals == {"early", "binderKey", "hs", "cHs", "sHs", "cKey", "cIv", "sKey", "sIv", "binder",
           "mac", "recvMac", "fin"}
Others == {"derived", "master", "th", "thCert", "zeros", "nil", "emptyHash", "psk"}
SessionFields == {"cAppSecret", "sAppSecret", "sess.cKey", "sess.cIv", "sess.sKey", "sess.sIv"}

Init ==
    /\ KsInit
    /\ path \in {"psk", "cert"}
    /\ i = 0
    /\ buf = [b \in Locals \cup Others \cup SessionFields |->
                CASE b = "psk" -> Psk [] b = "nil" -> Nil
                  [] b \in SessionFields \cup {"zeros"} -> Zeros
                  [] OTHER -> Junk]
    /\ tc = <<>>
    /\ pc = "run"
    /\ wire = <<>> /\ flags = {} /\ keysReady = FALSE

-----------------------------------------------------------------------------
(* The reference, RFC 8446 7.1, 4.4.4 and 4.2.11.2, for a view v of the
   exchange: the two shares and the secret. *)
RefEarly == Extract(Nil, IF path = "psk" THEN Psk ELSE Zeros)
RefBinder == FinishedMac(ExpandLabel(RefEarly, "ext binder", EmptyHash), Hash(<<Truncated>>))
RefCh(sh) == Hello(IF path = "psk" THEN RefBinder ELSE Nil, sh)
RefMsgs(v) ==
    <<RefCh(v.ch), ServerHelloOf(v.sh)>>
      \o (IF path = "psk" THEN <<Public("EE")>>
          ELSE <<Public("EE"), Public("CERT"), Public("CV")>>)
      \o <<Public("FIN")>>
N == IF path = "psk" THEN 4 ELSE 6
Upto(v, m) == Hash(SubSeq(RefMsgs(v), 1, m))
RefHs(v) == Extract(ExpandLabel(RefEarly, "derived", EmptyHash), Ecdhe(v.secret))
RefMaster(v) == Extract(ExpandLabel(RefHs(v), "derived", EmptyHash), Zeros)
HsTraffic == [c |-> "c hs traffic", s |-> "s hs traffic"]
ApTraffic == [c |-> "c ap traffic", s |-> "s ap traffic"]
RefTraffic(v, side) == ExpandLabel(RefHs(v), HsTraffic[side], Upto(v, 2))
RefApp(v, side) == ExpandLabel(RefMaster(v), ApTraffic[side], Upto(v, N))
RefKey(secret) == ExpandLabel(secret, "key", Nil)
RefIv(secret) == ExpandLabel(secret, "iv", Nil)

(* What the server has seen and sent, and what the client has. *)
ServerView == [ch |-> share["client"], secret |-> ss["server"],
               sh |-> [Genuine EXCEPT !.kem = share["client"].kem]]
ClientView == [ch |-> Genuine, sh |-> share["server"],
               secret |-> [kem |-> IF Hybrid THEN KemSecret("client") ELSE <<"unused">>,
                           x |-> XSecret("client")]]

-----------------------------------------------------------------------------
c == Program[i + 1]

(* What a call that succeeds computes, and what it must find. *)
Value ==
    LET a(n) == IF c.from[n] = "ecdhe" THEN Ecdhe(ss["client"]) ELSE buf[c.from[n]] IN
    CASE c.op = "extract" -> Extract(a(1), a(2))
      [] c.op = "expand" -> ExpandLabel(a(1), c.label, a(2))
      [] c.op = "mac" -> FinishedMac(a(1), a(2))
      [] c.op = "hash" -> Hash(tc)
      [] c.op = "empty" -> EmptyHash
      [] c.op = "hash truncated" -> Hash(<<Truncated>>)
      [] c.op = "send" /\ c.out = "fin" -> a(1)
      [] c.op = "finished" -> FinishedMac(RefTraffic(ServerView, "s"), Upto(ServerView, N - 1))

Mismatch ==
    CASE c.op = "finished" /\ buf[c.from[1]] # Value -> "E_BAD_MAC"
      [] c.op = "verify" /\ buf[c.from[1]] # Upto(ServerView, N - 2) -> "E_BAD_CERT"
      [] c.op = "receive" /\ ~share["server"].sent -> "E_CRYPTO"
      [] c.op = "params" /\ share["server"].short -> "E_ILLEGAL_PARAM"
      [] OTHER -> "SUCCESS"

(* Mutant: the last code of a block wins. *)
CombineLast(code) == code

(* ret |= code: the calls of a block fail with one and the same code. *)
Combine(code) == IF ret["client"] = "SUCCESS" THEN code ELSE ret["client"]

Message ==
    CASE c.label = "CH" -> Hello(IF path = "psk" THEN buf["binder"] ELSE Nil, Genuine)
      [] c.label = "SH" -> ServerHelloOf(share["server"])
      [] OTHER -> Public(c.label)

Sent(kind, from) == [kind |-> kind, terms |-> [n \in DOMAIN from |-> buf[from[n]]]]

Idle == pc = "run" /\ ~Running("client")
Guarded == Idle /\ i < Len(Program) /\ (c.first => ret["client"] = "SUCCESS")
Returns(code) == ret' = [ret EXCEPT !["client"] = Combine(code)]

(* ClientHello leaves with the share and the server begins; the server has
   answered or will not; a function of the key share begins. *)
ShareMoves ==
    CASE c.op = "send" /\ c.label = "hello" ->
            /\ fn' = [client |-> "Recv", server |-> "Respond"]
            /\ share' = [share EXCEPT !["client"] = Genuine]
      [] c.op = "receive" ->
            /\ share["server"].sent \/ fn["server"] = "Done"
            /\ fn' = [fn EXCEPT !["client"] = "Got"]
            /\ UNCHANGED share
      [] c.op = "keyshare" -> fn' = [fn EXCEPT !["client"] = c.label] /\ UNCHANGED share
      [] OTHER -> UNCHANGED <<fn, share>>

StepSucceeds ==
    /\ Guarded /\ c.op # "wipe"
    /\ ShareMoves
    /\ buf' = IF c.out = "none" THEN buf ELSE [buf EXCEPT ![c.out] = Value]
    /\ tc' = IF c.op = "update" THEN Append(tc, Message) ELSE tc
    /\ wire' = IF c.op = "send"
               THEN Append(wire, Sent(c.label, c.from))
               ELSE wire
    /\ flags' = IF c.op = "establish" /\ ret["client"] = "SUCCESS" THEN {"ESTABLISHED"} ELSE flags
    /\ keysReady' = (keysReady \/ (c.op = "ready" /\ ret["client"] = "SUCCESS"))
    /\ Returns(Mismatch)
    /\ i' = i + 1
    /\ UNCHANGED <<build, k, group, st, inited, ss, fails, path, pc>>

(* The buffer keeps its old content or is left with anything. *)
StepFails ==
    /\ Guarded
    /\ c.op \notin {"wipe", "establish", "ready", "finished", "keyshare", "params"}
    /\ fails < MaxFails /\ fails' = fails + 1
    /\ Returns("E_CRYPTO")
    /\ buf' \in {buf, IF c.out = "none" THEN buf ELSE [buf EXCEPT ![c.out] = Junk]}
    /\ i' = i + 1
    /\ UNCHANGED <<build, fn, k, group, st, inited, ss, share, path, tc, pc, wire, flags,
                   keysReady>>

ForceZero(S) == [b \in DOMAIN buf |-> IF b \in S THEN Zeros ELSE buf[b]]

WipeCall ==
    /\ Guarded /\ c.op = "wipe"
    /\ buf' = ForceZero({c.from[n] : n \in DOMAIN c.from})
    /\ i' = i + 1
    /\ UNCHANGED <<ksVars, path, tc, pc, wire, flags, keysReady>>

(* No further block is entered; the certificate driver sends its alert; then
   wn_KeyShare_Free and ForceZero, on every way out. *)
Ends ==
    /\ Idle /\ ~Guarded
    /\ wire' = IF ret["client"] # "SUCCESS" /\ keysReady
               THEN Append(wire, Sent("alert", <<"cKey", "cIv">>)) ELSE wire
    /\ st' = FreeAll(KsToFree)
    /\ inited' = inited \ KsToFree
    /\ ss' = [ss EXCEPT !["client"] = NoSecret]
    /\ fn' = [fn EXCEPT !["client"] = "Done"]
    /\ buf' = ForceZero(Locals)
    /\ pc' = "done"
    /\ UNCHANGED <<build, k, ret, group, share, fails, path, i, tc, flags, keysReady>>

Driver == StepSucceeds \/ StepFails \/ WipeCall \/ Ends

Next == Driver \/ (KsNext /\ UNCHANGED driverVars)

Spec == Init /\ [][Next]_vars

-----------------------------------------------------------------------------
(* Whatever fails and whatever is changed on the way, what goes out is what
   RFC 8446 has: a binder and a Finished are never computed from a buffer that
   a failed call has left behind, Finished is the one the server expects, and
   Finished and alerts are sealed with the client's handshake key. *)
WireIsRfc8446 ==
    LET sealing(v) == <<RefKey(RefTraffic(v, "c")), RefIv(RefTraffic(v, "c"))>> IN
    \A n \in DOMAIN wire :
        wire[n].terms =
            CASE wire[n].kind = "finished" ->
                    <<FinishedMac(RefTraffic(ServerView, "c"), Upto(ServerView, N))>>
                      \o sealing(ServerView)
              [] wire[n].kind = "alert" -> sealing(ClientView)
              [] OTHER -> IF path = "psk" THEN <<RefBinder>> ELSE <<>>

(* A session is established exactly when the driver succeeds, which it does
   exactly if no call has failed and both shares have arrived as they were sent
   (a changed share is no error in ML-KEM or X25519 but gives two different
   secrets, which the Finished messages tell apart); and then it holds the
   application secrets, keys and ivs of RFC 8446 that the server has, each in
   its direction and over the transcript to the server's Finished. *)
SessionIsRfc8446 ==
    LET undisturbed == fails = 0 /\ share["client"] = Genuine /\ share["server"] = Genuine
        app(side) == RefApp(ServerView, side)
    IN pc = "done" =>
        /\ (flags # {}) = (ret["client"] = "SUCCESS")
        /\ (flags # {}) = undisturbed
        /\ flags # {} =>
             /\ buf["cAppSecret"] = app("c") /\ buf["sAppSecret"] = app("s")
             /\ buf["sess.cKey"] = RefKey(app("c")) /\ buf["sess.sKey"] = RefKey(app("s"))
             /\ buf["sess.cIv"] = RefIv(app("c")) /\ buf["sess.sIv"] = RefIv(app("s"))

(* When a driver returns, no buffer on its stack or on that of a function it
   called holds anything that depends on the PSK or the shared secret. *)
SecretsWiped ==
    pc = "done" => \A b \in Locals \cup Others : b # "psk" => ~Depends(buf[b])

(* Nothing is left behind, at whatever call a function stops: every key object
   is freed, a hybrid secret is never seen by half, and no intermediate secret
   stays on the stack. *)
NothingLeft == KeysFreed /\ NoPartialSecret /\ SecretsWiped
=============================================================================
