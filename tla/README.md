# wolfNanoTLS in TLA+

TLA+ models of the wolfNanoTLS client: the two handshake drivers, the
application-data session, the record layer and key schedule beneath them, the
parsers and builders, and the checks of certificates, names and signatures. TLC
checks them on small instances; TLAPS proves most of the safety properties for
every value of the constants: of the session and its refinement of an ideal
channel, the handshake, the parsers and builders, the verification of certificates
and signatures, the life of the keys, the framing of records. Paths below are relative to the repository.

## The system

wolfNanoTLS is a TLS 1.3 client for small devices. It allocates nothing, has no
threads, and owns no connection: the caller passes a `wn_Session`, a scratch
buffer and two callbacks, `ioSend` and `ioRecv`. A session is single-threaded
by contract (`src/wn_session.h:58`). What runs concurrently is the far side: the
server, and whatever lies between it and the callbacks.

| Component | State | Operations | Correct when |
|---|---|---|---|
| Session, `wn_session.c` | flags; per direction a traffic secret, key, iv, word64 counter | `wn_Send`, `wn_Recv`, `wn_Close`, post-handshake messages | no nonce repeats; payloads are taken in order, once, without gap; end of stream is not confused with truncation; nothing is sealed after close |
| Record layer, `wn_record.c` | none (position in the stream) | `wn_RecvRecord`, `wn_Record_Protect`, `wn_Record_Unprotect` | a record opens only in its place; records come out whole however the bytes arrive |
| Key schedule, `wn_keyschedule.c` | the buffers it writes | derivations, `wn_Tls13_FinishedMac`, `wn_Tls13_KeyUpdate` | the keys are those of RFC 8446; a step that fails leaves nothing that is used, reuses a nonce or stays behind |
| Transcript, `wn_transcript.c` | running hash | Init, Update, GetHash, Free | both ends hash the same messages |
| PSK driver, `wn_connect.c` | locals of one call, the caller's session | `wn_Connect_Psk_ex` | a session only with a holder of the PSK, only from EE, Finished |
| Certificate driver, `wn_connect.c` | the same and the flags `gotEE`, `gotCert`, `gotCv` | `wn_connect_cert_impl` and wrappers | a session only with a certified key, only from EE, Certificate, CertificateVerify, Finished |
| Flight order, `wn_flight.h` | those flags | `wn_FlightOrder` | exactly one order is accepted |
| Alerts, `wn_alert.h` | none | `wn_ErrToAlert`, `wn_SendAlert` | an alert never reuses the nonce of Finished |
| Parsers, `wn_serverhello.c`, `wn_connect.c`, `wn_msg.c` | cursor with a sticky error | `wn_ServerHello_Parse`, `wn_CheckEncExt`, Certificate list, CertificateVerify | never outside the message; exactly the encodings of the grammar are taken |
| Builders, `wn_clienthello.c`, `wn_connect.c`, `wn_msg.c` | length, capacity, sticky error | the two ClientHello builders, `send_plain_record` | never outside the buffer; every length right; the binder over the right prefix |
| Key share, hybrid, `wn_keyshare.c`, `wn_hybrid.c` | key objects of one handshake | Init, Generate, Shared, Free, ServerRespond | each key freed once on each path; no half of a secret |
| Chain and name checks, `wn_connect.c` | none | `wn_VerifyChain`, `wn_CheckServerName`, `wn_DnsNameMatch` | agree with RFC 5280 / 6125 |
| Signature schemes, `wn_connect.c`, `wn_clienthello.c` | key object of one call | `wn_CertVerify` | bound to key, curve and transcript; what is offered is what is accepted |
| Build configuration, `wolfnano_config.h` | macros | | combinations that compile are consistent |

How they interact: a driver calls the key share, builder, transcript, key
schedule and record layer in sequence, and on success `wn_SessionEstablish`
fills in the caller's session. From then on only `wn_session.c` touches it,
through the record layer and `wn_Tls13_KeyUpdate`.

What is hard here is not concurrency inside the library but failure half-way:
an `ioSend` that fails after the record has left, a key update that stops after
its first or second field, an `ioRecv` that fails inside a record, a caller that
carries on after any of these because the session is still established; and the
freedom of the far side: how a flight is cut into records, when KeyUpdates cross
data, which record is lost, repeated, swapped or damaged, how its messages nest
their lengths, in which order it lists its certificates. `PROJECT.json` lists
these hazards at their lines.

## Modules

| Module | Models |
|---|---|
| `WnRecord` | record protection and `wn_Tls13_KeyUpdate`, symbolically |
| `WnChannel` | abstract: what one direction of a session promises |
| `WnSession` | `wn_session.c`, `wn_RecvRecord`, with peer and transport |
| `WnConnect` | both drivers of `wn_connect.c`, `wn_flight.h`, `wn_alert.h`, with server and transport |
| `WnKeyShare` | `wn_keyshare.c`, `wn_hybrid.c`, and a server's share |
| `WnKeySchedule` | `WnKeyShare` within the derivations of both drivers: `wn_keyschedule.c`, `wn_transcript.c` |
| `WnMsg` | reader and writer of `wn_msg.c` |
| `WnServerHello` | `wn_ServerHello_Parse` and the drivers' checks of its result |
| `WnFlightMsgs` | with it, the parsers of EncryptedExtensions, Certificate, CertificateVerify |
| `WnClientHello` | both ClientHello builders and the records that carry them |
| `WnRecordIo` | with it, `wn_RecvRecord` and `io_recv_exact` on the answer, byte by byte |
| `WnBuild` | what a build defines, offers and accepts |
| `WnDnsName`, `WnChain` | `wn_CheckServerName`; `wn_VerifyChain` with the caller's identity |
| `WnSchemes` | with these, `wn_CertVerify` |
| `WnSessionProofs`, `WnChannelProofs` | theorems about `WnSession`; that it implements `WnChannel` |
| `WnConnectProofs` | theorems about `WnConnect` |
| `WnKeyScheduleProofs` | theorems about `WnKeyShare` and `WnKeySchedule` |
| `WnFlightMsgsProofs` | theorems about `WnServerHello` and `WnFlightMsgs` |
| `WnRecordIoProofs` | theorems about `WnClientHello` and `WnRecordIo` |
| `WnSchemesProofs` | theorems about `WnBuild`, `WnChain` and `WnSchemes` |
| `WnLemmas` | induction over numbers, concatenation, sequences |
| `MCWn...` | sets of messages, flights, chains, builds and jobs for TLC |

`WnSession` and `WnConnect` put a peer, a transport and the code between them
together, and take the components below by their outcome (a record that arrives
or fails, the code a message's check returns, a key as the term it stands for).
The other modules open these boxes. Where the code runs one part after another
in the same call, the later module EXTENDS the earlier one and goes on where it
ends: `WnKeySchedule` calls the key share of `WnKeyShare`, `WnFlightMsgs` follows
`WnServerHello`, `WnRecordIo` reads the answer to the hello `WnClientHello` has
sent, `WnSchemes` verifies with the key of the leaf that `WnChain` has accepted.
`WnRecordIo` shows that records are units, `WnFlightMsgs` when a check returns
success, `WnKeySchedule` that the terms are the right ones, `WnSchemes` what
"certified" and "signed" mean.

### WnRecord

A traffic secret is its generation: 1 from the handshake, n + 1 from "traffic
upd" of n, 0 for zeroed memory. Key and iv carry the generation they were
expanded from, so a torn update shows as a direction whose three fields differ.
AES-GCM is ideal: a sealed record names the key, iv and sequence number it was
sealed with, and opens only under these and unchanged. `Unprotect` returns the
code `wn_Record_Unprotect` returns. `KeyUpdateFailures` is the set of directions
a failing `wn_Tls13_KeyUpdate` can leave behind.

### WnSession

`flags`, `c` and `s` are the struct's `flags` and its client and server fields.
A call is one step where nothing can intervene (`wn_Send`, `wn_Close`), and
several for `wn_Recv`: the call, each record, each post-handshake message, each
answer to a KeyUpdate.

| Code | Actions |
|---|---|
| `wn_Send` | `SendRefused`, `SendCryptoFails`, `SendRecord` |
| `wn_Recv` | `RecvRefused`, `RecvCall`; `IoRecvFails`, `RecvMisaligned`, `RecvBadRecord`; `RecvAppData`, `RecvHandshake`, `RecvAlert`, `RecvUnknown` |
| `wn_session_posths` | `PostHsTicket`, `PostHsError`, `PostHsKeyUpdate`, `PostHsKeyUpdateFails`, `PostHsDone` |
| `wn_session_send_key_update` | `AnswerKeyUpdate`, `AnswerIoFails`, `AnswerCryptoFails` |
| `wn_Close` | `CloseWithNotify`, `CloseCryptoFails`, `CloseQuietly` |

A failing `ioSend` may have put the whole record, a part of it or nothing on
the wire. `sync` says whether `ioRecv` stands at the start of a record: it is
lost when a read fails inside a record, or when a length is refused after the
header was consumed, and a read out of step yields an error and ends anywhere.
A payload larger than the caller's buffer is taken off the channel and refused with
E_INVALID_ARG (`src/wn_session.c:193`), and the session goes on; `RecvIsChannel`
counts it as taken, so "without gap" is about the records consumed.
The peer and the transport are external; the peer is modelled after
`tests/session_test.c`. Variables marked "history" exist only for properties.

### WnConnect

One module for both drivers, since they differ in few places. `setup`, chosen in
the initial state from `Setups`, says which driver runs (`Path`), what the build
sends (`SendAlerts`), the sizes, and what server and transport may do.
A transcript is the sequence of messages hashed, a handshake secret is the PSK
(if any) with the transcript it is derived over, a Finished MAC is the secret
and the transcript it covers. The server's flight is a stream of bytes in which
each byte names its message, cut into records at will; the client's reassembly
buffer, its offsets and bounds are those of the code with `HdrSz` for 4 and
`AccSz` for `sizeof(plain)` or `WN_HS_ACC_SZ`. The contents of a message enter
as the code its check returns (`wn_CheckEncExt`, the Certificate parse with
`wn_VerifyChain`, the CertificateVerify parse, the length of Finished); whether
a signature or MAC is right is computed from the two transcripts.

| Code | Actions |
|---|---|
| arguments, session cleared, ClientHello, CCS | `ConnectRefused`, `SendClientHello`, `SendClientHelloFails` |
| ServerHello and handshake keys | `SkipCcs`, `RecvServerHello` |
| records of the flight | `SkipCcs`, `RecvFlight`, `IoRecvEnds` |
| messages of the flight | `ParseMore`, `ParseNeverFits`, `ParseMessage` |
| Finished and `wn_SessionEstablish` | `Establish`, `FinishFails`, `EstablishFails` |
| the way out: alert, ForceZero | `Leave`, `Fail` in each of these |

The server (with the credential or without), lost, repeated and damaged
records, and hellos altered on the way are external.

### WnKeyShare, WnKeySchedule

Each function of the key share is a script of wolfCrypt calls in the order of
the code, stopping at the first that fails. A key object is zeroed,
uninitialised stack, initialised or freed; using or freeing it in the wrong
state makes it "corrupt". A secret names the keys its halves come from, and a
share may be changed on its way.

A driver is the list of its calls to key share, key schedule and transcript. A
call starts a block, entered only while `ret` is SUCCESS, or is combined with
the one before by `|=` and made in any case. A call that fails leaves its buffer
as it was or with anything in it. HKDF, HMAC and the hash are free functions: a
buffer holds the term it was computed by, and each term knows whether it depends
on a secret. All calls of a block fail with one code (E_CRYPTO), so that `|=` of
two failures is that code. The reference (`RefEarly`, `RefHs`, ...) is written
from RFC 8446, and the server uses it. When a driver fails, the application
secrets that `wn_SessionEstablish` has already derived stay in the caller's
session, with flags 0; `NothingLeft` is about key objects and the stack.

### WnMsg, WnServerHello, WnFlightMsgs

These work on bytes, since lengths and bounds are their subject. The reader is
its position and error. A parser is one action for what comes before its loop,
one for each turn, one for what follows. The reference is the encoder: a message
is taken exactly if it is an encoding of what comes out, except that a Certificate
list longer than `WN_MAX_CHAIN` is read so far and no further. Random, session id and
key share are one byte long.

### WnClientHello, WnRecordIo

A builder is the list of its writer calls. Bytes are counted, and a length field
is kept with the number written into it and the number of bytes it spans. Sizes
are those of the code (32-byte random, `WN_DEFAULT_PUB_SZ` of the three groups,
scratch from 2048). On the way back the transport hands out any number of bytes
at a time; `need` is what `io_recv_exact` is waiting for.

### WnBuild, WnDnsName, WnChain, WnSchemes

A build is the set of macros an integrator selects; operators give what
`wolfnano_config.h` derives, which combinations stop in `#error` or do not
compile, and the lists of schemes. Names are sequences of characters, compared
with a reference that splits them into labels. A certificate is a record of what
wolfCrypt reports: whether it parses, its key, the key its signature verifies
under, CA flag, dates, usages, names. The reference for `wn_VerifyChain` is the
least set of keys the anchor vouches for, whatever the order of the list. Once
the list has passed, `wn_CertVerify` runs on the leaf's key with a scheme and a
signature that are chosen freely.

Definitions whose comment begins "Mutant" are not used by any specification:
each is a plausible slip in the definition after it, and substituting it makes
the property named in `PROJECT.json` fail.

## Runs

| Run | Shows |
|---|---|
| `session` | one fault and one failing wolfCrypt call anywhere: each direction refines `WnChannel`, no nonce repeats, nothing is sealed after close; where nothing fails both ends keep in step across crossing KeyUpdates, every request answered once |
| `session_odd` | the same refinement of the read direction under empty, oversized and unwanted payloads, tickets over two records, malformed KeyUpdates, unknown content types; `wn_Recv` returns |
| `connect` | both drivers: agreement on keys and transcript, exact flight (all orders of up to four messages of six types, and of five of the four legal ones), faithful reassembly, honest servers succeed, no session on failure, distinct nonces for Finished and alert |
| `connect_live` | the certificate driver returns; the server completes a session the driver returned |
| `keys` | with up to two failing calls and shares changed on the way, whatever is sent or put into a session is what RFC 8446 computes and the server has; no key object is used or freed wrongly, none is left, nor a secret or half of one |
| `server_msgs` | the parsers stay in the message, end, take exactly the encodings; a driver goes on only with the one answer to its hello |
| `authentication` | only vouched-for leaves with the wanted name and pin pass, proper paths do pass, and a server is believed only by a signature bound to key, curve and transcript, in every build |
| `hello_and_records` | capacity, lengths, binder offsets, partial writes; records come out whole and in order for every way of cutting the stream |
| `connect_alert`, `connect_trailing`, `schemes_offered`, `client_hello_long` | disagreements with documentation and comments, below |

Bounds.

* `session`: two sends, three peer records, one fault, one crypto failure. A
  KeyUpdate with data before and after it takes three records; reuse of a nonce
  takes two records with a failure in between; loss, repetition and reordering
  take two records. A second fault adds little: after a record that is lost,
  swapped or damaged the counters differ and no later record opens. `Word64` is
  16 in the runs and arbitrary in the proofs. `session_odd`: one send and two
  records, payloads of 0, 2 and 3 against an output of 1 and a scratch of 2.
* `connect`: headers of two bytes, bodies of none or one, so that every cut (in a
  header, between header and body, between messages, several messages in one
  record) occurs; the buffer is the size the legal flight just fits (with padding
  for the PSK driver, which counts it), and flights that do not fit are included.
  The orders need no cuts and use one-byte messages.
* `keys`: two failing calls, one for a block's code to be combined from, one for
  the next, in each of the three builds and on both paths.
* `server_msgs`: hellos with every set and order of the three extensions, and
  each of these cut at every byte, lengthened, and with every byte replaced by
  values that shift a length or a type; the same for the messages of the flight,
  and all bodies of up to four bytes from four values. `MaxChain` is 2 instead of
  4, with lists one longer, so that the cut happens.
* `authentication`: lists of a leaf and up to three more from two roots, with
  `MaxChain` 3; names of up to four characters, enough for `*.b` against a label,
  two labels, an empty label and a leading dot; every subset of the macros that
  select an algorithm, and every kind of leaf key, scheme and hash.
* `hello_and_records`: every capacity up to one that suffices, so that each
  writer call is once the first that does not fit; up to three records of eight
  kinds, the buffer one byte short of the longest; one failure.

Deadlock checking is on for `WnSession`; the other modules model one call (a
handshake, a parse, a check) and end with it, or with the stream.

Fairness. `session_odd`: weak fairness of the steps of a call in progress. The
code never waits except in `ioRecv`, and `ioRecv` is taken to return, with
data or with an error, as the callbacks' contract (`include/wolfnano/wolfnano.h`)
has it; a transport without a timeout under a silent peer is outside this.
`connect_live`: weak fairness of the client, and of a server that writes the
flight it began and reads what it is sent; nothing is assumed about CCS records
or faults, which are bounded. `server_msgs`: weak fairness of the next step, since
parsers are straight code that never waits. `hello_and_records`: the transport
hands out what the peer has sent; a failure of it is never forced.

### Disagreements with the documentation

Each with a run that ends in a counterexample:

* `connect_alert`: with `WOLFNANO_SEND_ALERTS` the PSK driver still sends no
  alert; `docs/Macros.md:30` makes no exception for it.
* `connect_trailing`: the certificate driver stops parsing at Finished and does
  not look at what follows in its buffer (`src/wn_connect.c:1265`);
  `src/wn_flight.h:22` wants "nothing else" in the flight.
* `schemes_offered`: the certificate path offers Ed25519 in every build that is
  not `WOLFNANO_FIPS` (`src/wn_clienthello.c:122`), also where `wn_CertVerify`
  cannot check it, as in the shipped certificate configurations; the comment
  above it says otherwise.
* `client_hello_long`: an identity of the greatest length `wn_Connect_Psk_ex`
  admits (`src/wn_connect.c:341`) makes the lengths around it wrap, given a
  scratch buffer large enough to hold it.

Also in the models, without a run of their own:

* `wn_Close` sends no close_notify when the peer has closed first
  (`src/wn_session.c:238`, `CloseQuietly`); `src/wn_session.h:70` says that it
  does.
* A `WOLFNANO_FIPS` build with Ed25519 compiled in accepts it
  (`src/wn_connect.c:836`) without having offered it; the comment at line 823
  says that only offered schemes are accepted.
* The PSK path offers Ed25519 in a `WOLFNANO_FIPS` build (`src/wn_connect.c:186`);
  `docs/Macros.md:29` says that it is dropped from the offers.

## Proofs

Every theorem holds for all values of the constants that satisfy the named
assumptions, so for any number of servers, records, faults, jobs and lists,
and for messages and buffers of any length. Each rests on an inductive
invariant, proved action by action.

### Session (WnSessionProofs, WnChannelProofs)

* `TypeCorrect`: `Spec => []TypeOK`. `TypeOK` carries two facts that are not
  types: a call is in progress only while flags are exactly ESTABLISHED, and
  unread messages exist only in `wn_session_posths`.
* `NoncesNeverRepeat`: `Spec => []NonceUnique`, which speaks of records already
  sealed and is not inductive. `NonceInv` adds why it stays true: until the
  session is wiped, no record was sealed under a key of a later generation than
  `c.key`, and those sealed under `c.key` have its iv and a sequence number below
  `c.seq`; `c.key <= c.secret`, so that the next update gives a key never used;
  and `c.seq` has not wrapped. The interesting steps are those that seal, and
  `AnswerCryptoFails`, where an update stops half-way: if only the secret is new,
  key, iv and counter go on as they were; if the key is new and the iv is old, no
  record has that key yet.
* `ClosedSealsNothing`: `Spec => ClosedIsFinal`, from `TypeOK`.
* `RecvImplementsChannel`, `SendImplementsChannel`: `Spec` implies `RecvIsChannel`
  and `SendIsChannel`, each step of the session being a step of `WnChannel` or a
  stutter. Both use that a log of sealed records numbers its payloads in order
  and holds no two records sealed at one place (key, iv and number). `RecvInv`:
  the reader stands at the place of the next record of the peer's log, whose
  payloads so far are those taken, or at the place of no record, as after a torn
  update, and then takes nothing more. `SendInv`: the records on the way to the
  peer are of the log and in its order, and none is left out before the first
  under a new key, since the client rekeys only when `ioSend` took the whole
  KeyUpdate; it needs `NonceInv`.
* `KeysStayInStep`: `Spec => []KeysInStep`, by `AgreeInv`. Records are a stretch if
  each was sealed at the place (key, iv, number) where the one before it leaves off:
  at the next number, or at number 0 of the next key behind a KeyUpdate. While
  nothing has failed, what is under way in a direction is a stretch, the reader
  stands at the place of its first record, and its writer goes on behind the last. A
  KeyUpdate the client has read and not yet carried out leaves it one key behind.
  So both ends agree however many updates cross each other. The client's direction
  is about sessions that are undisturbed (`Undisturbed`) and open: one that has
  ended, or that an error has stopped in the middle of a record, reads no further.
* `KeyUpdatesAreAnswered`: `Spec => []KeyUpdatesAnswered`. No two of the peer's
  KeyUpdates are sealed under one key, so those the client has carried out are the
  ones under a key below its own (`Carried`). `TallyInv`: the KeyUpdates sent, with
  the one being answered, are at most these, and in an undisturbed session exactly
  these.

### Handshake (WnConnectProofs)

`HandshakeInvariant`: `Spec => []HsInv`. Its parts are about what has been sealed
with the client's handshake key (`SealedOK`), how the flight is cut into records
(`CutOK`: record n holds the bytes between two of a rising sequence of offsets, and
the client has those of the first `sSeq` records), where the client has got to in
them (`ParseOK`: a message begins at `accOff`, those before it are the ones hashed,
and they are a beginning of the legal flight), which transcript a Finished on the
wire covers (`FinishedOK`) and what both have when they end (`SessionOK`). From it:
`ConnectTypes`, `HandshakeAgreement`, `LegalFlightOnly`, `Reassembly`,
`HandshakeNonces`, `NothingHalfOpen`. The bytes of a flight are taken by what
is needed of them (`WellCut`: where a message begins and the next one), since
each byte names its message.

`HonestAreServed`: `Spec => []HonestSucceeds`, by `SmoothInv` on top of `HsInv`. With
an honest server and no fault, the records on their way are those sealed and not
yet read, each once and in order, with CCS records anywhere between; the transcript
begins with the two hellos the server has; and the driver goes back to `ioRecv`
only when the message at `accOff` is not all there, so that something is still to
come. Then no guard of a step can refuse: the buffer holds the flight, each message
is the next legal one, its check passes, and the MACs are of one transcript.

### Parsers (WnFlightMsgsProofs)

`ParseInvariant`: `Spec => []ParseInv`. What the reader has passed is the encoding
of what has been noted down, for a ServerHello and its extensions, for
EncryptedExtensions, for a Certificate list; with it, positions and ends lie
within the message. From it: `NothingOutOfBounds`, `ParsedExactly` and
`OnlyTheAnswer`. This is soundness. What `ParsedExactly` says differs with the
message. A ServerHello that is accepted (a HelloRetryRequest, on which no driver
goes on, aside) is an encoding of the fields handed on:
no byte is left over, no length disagrees, no extension is unknown or comes twice.
EncryptedExtensions are the encoding of the extensions gone through, each one asked
for, and end where their length says; but `wn_CheckEncExt` (`src/wn_connect.c:85`)
does not look for repetitions, so supported_groups may come several times. A
Certificate begins with the entries handed on, in order, and has nothing behind
them as long as `certs[]` is not full; once it is, the rest of the list is not read,
and nothing is said of it.

`HonestAreParsed`: `Spec => []HonestIsParsed` is completeness, by a second inductive
invariant, `HonestInv`, which looks the other way. On a well-formed message, what the
reader has before it (`Ahead`) is the encoding of the items not taken yet
(`After(order, n)`, with n the number of turns made), and what has been taken is equal
to what was sent. Three lemmas carry it: a read finds the field that is next in the
encoding and leaves the rest ahead (`AheadReads`, and `AheadNumber` since equal digits
are equal numbers); the encoding of the items from the n-th on is the encoding of the
n-th followed by that of the others (`FlatMapAfter`); and an item is not empty, so the
loop ends exactly when none is left. That the types of a hello differ, which
`WellFormedHello` says, is what keeps an extension from being refused as a duplicate.

### Builders and records (WnRecordIoProofs)

* `BuffersHold`: `Spec => []WithinBuffer`, by what `Write` keeps and by the length
  being judged before the bytes it announces are read.
* `BinderIsLast`: `Spec => []BinderAtEnd`. `BinderInv` counts what has been written
  since the boundary the hash ends at: by the calls that are left.
* `SentWhole`: `Fits16 => (Spec => []SentWholeOrFailed)`. `Fits16` says that every
  scratch buffer is shorter than 2^16 bytes. It is needed: run
  `client_hello_long` is the counterexample with a larger one.
* `LengthsAreRight`: `Fits16 => (Spec => []LengthsMatch)`. A script is laid out
  (`Layout`) over positions: each call begins where the one before it ends, a
  length is opened once and closed behind its opening, and a computed length is the
  distance to its end. That both scripts are, for every name, identity and key
  share, is shown by joining them from their extensions. `LengthInv` ties what is
  executed to it: after `i` calls the writer stands at the position of the next one
  or has latched an error; what is open are the lengths opened and not yet closed,
  each with its position; and those closed have the value of their span. While
  nothing is latched the hello fits its buffer, so that no length is cut to its
  field (`ShortHeld`). `AnnouncedInv`: the record carries the hello's length.
* `RecordsAreFramed`: `Spec => []Framed`. `RecvInv`: the reader stands behind a
  whole number of the records sent, with the bytes it has of the next; that
  number and these bytes are all that a partial read leaves behind.

### Certificates and signatures (WnSchemesProofs)

`CertInvariant`: `Spec => []CertInv`. All links before the one the loop is at hold;
the list has been cut at `MaxChain`; the key `wn_CertVerify` works with is the
leaf's; what has passed so far fits scheme, kind of key and curve. From it:
`ChainIsVouched` (an induction along the list, from the anchor down to the leaf,
into the least set of vouched keys), `SignatureIsBound`, `KeyAlwaysReleased`.

`HonestVerified`: an honest server that uses an offered scheme with a key for it
is believed unless a key could not be set up, in every build, with one exception that
the theorem names: Ed25519 in a build without `HAVE_ED25519`, which `wn_CertVerify`
answers with `E_UNSUPPORTED` (run `schemes_offered`). That every other scheme that is
offered has its branch and its primitives compiled in is part of the proof and not a
hypothesis.

`FipsApproved` is about builds, and about the certificate path: the group is P-256,
and the schemes offered there are approved and ones that `wn_CertVerify` can check.
It does not hold of the offers of the PSK path, which has Ed25519 among them in
this build too (see the divergences above).

`ProperPathIsAccepted`: each guard that refuses a list is shown to contradict a
proper path (`RefusedOK`); the cut at `MaxChain` takes away the anchor at most.
`IdentityIsBound` rests on
`DnsNameMatch` being the reference `RefMatch` for names of any length: the code looks
for a first dot and compares from there without regard to case, the reference cuts
both names at their dots and compares label by label. The cutting points of a name
exist and are unique, two names that agree up to case are cut at the same places,
and what follows the first dot of a name has the labels that follow its first.

### Keys (WnKeyScheduleProofs)

`KeysInvariant`: `Spec => []DriverInv`, for both drivers and the three builds, with
any number of failing calls. `KsInv`: what a script has initialised so far, what
a function finds when it is entered, and that a half of a secret is only there
while its function runs; `StageOK`: where the driver is in its program follows
from where the key share is; `BufOK`, `SecretsWiped`: which buffers may hold a
secret, and that none does at the end. From it: `NoKeyCorrupted`, `NothingStays`.

`WireConforms` and `SessionConforms`: `Spec` implies `[]WireIsRfc8446` and
`[]SessionIsRfc8446`, for any number of failing calls and any change of a share on
its way. They follow from `ScheduleInvariant`, whose parts are:

* the layout of both programs (`WrittenAt`, `Ref`): every buffer but four is written
  by one call, whose place in the program and whose term are given; `th`, `mac`,
  `derived` and `master` are used again, and each has its stretches of calls. While
  no call has failed a buffer holds its term from that call on (`OnceOK`, `ThOK`,
  `MacOK`, `MidOK`), and the transcript is the reference's up to there (`TcOK`);
* where the two key shares stand to one another (`Exchange`: `MeetOK` and which half
  of either secret is there);
* agreement (`AgreeOK`): the terms are free, so a server's Finished that verifies was
  computed from the client's own view; the two views are equal exactly if neither
  share was changed. Behind that call the client's terms are the server's;
* what is sent (`WireOK`) and when the session opens (`FlagsOK`). A call that fails
  ends the blocks, but a block that has begun may go on; none of these sends, and
  alert keys are kept only once they are whole (`KeysOK`);
* `FaultOK`: a code other than success without a failed call is the answer to a
  changed share, which is why an undisturbed exchange ends in a session.

### WnLemmas

The induction theorems of the library take a predicate as parameter, which no
installed prover can instantiate. `SetInduction` is induction over a set of
numbers instead, derived from well-foundedness of `Nat`: a proof names the set of
numbers with the property wanted. It gives what is needed of `FlattenSeq` (what a
concatenation is, how it grows at its end, where it is cut), on which streams of
records, flights and lists of extensions rest.

### Assumptions

Either side protects fewer than `Word64` records (the code does not test the
counters) and the peer at most `MaxPeerRecords`; a KeyUpdate is the last message
of its record; `pads` of a set-up have a greatest one (a record has a greatest
length); a record buffer holds a header (`Cap >= 5`); in the cases of `WnChain`, an
entry point without name and pin has neither; a PSK job has two or three signature
schemes (`nAlgs`), the two forms the build compiles. `HonestHellosAssumption` and
`HonestBodiesAssumption` say what the well-formed messages of `HonestIsParsed` are: the
encodings of fields and items of the right types (RFC 8446 4.1.3, 4.3.1, 4.4.2, 4.4.3).
The others are types of constants.

### Only model-checked

* Liveness (`RecvReturns`, `ConnectReturns`, `ServerCompletes`, `Terminates`,
  `AllReturned`): fairness is out of the provers' reach.
* The four disagreements above are counterexamples.

## What is not modelled

Cryptographic strength and wolfCrypt, which enters as ideal primitives that may
fail; decoding of DER; NULL arguments; error strings; macros that choose an
implementation rather than a behaviour; examples and benchmarks.
`wn_Transcript_Free` exists but no driver calls it. A decoded issuer is not freed
when its parse fails, and what that holds is wolfCrypt's. Sums of positions and
lengths in the parsers do not wrap, a record being at most 2^14 + 256 bytes. Of
the peer: bytes of a ticket's second record are never taken for a KeyUpdate, a
KeyUpdate is the last message of its record (RFC 8446 5.1), and records towards
the peer are disturbed only through `ioSend`. In a driver that fails, locals of
`WnConnect` that are not read again keep their values; that the code clears them
is `NothingLeft` of `WnKeySchedule`. Connecting again with a used session is the
initial state of `WnConnect` (`NoSessionOnFailure`), not a composition of its own.

## Plan

Done: all components with behaviour of their own; proofs of the safety properties
above; the refinement of `WnChannel` in both directions; completeness of the
handshake, of the chain and of the parsers.

No safety property of a passing run is left to TLC alone; what is left is liveness,
which the provers do not reach.
