--------------------------- MODULE MCWnFlightMsgs ---------------------------
(* TLC instance of WnFlightMsgs: hellos with all sets and orders of their
   extensions and well-formed messages of the flight, whole, cut, lengthened,
   and with one byte changed; and short bodies of any bytes. *)
EXTENDS WnFlightMsgs

MCHrr == <<207>>
MCSid == <<7>>

Fields ==
    {[sid |-> s, cipher |-> c, group |-> 29, share |-> <<9>>,
      version |-> IF SupportedVersions \in ToSet(o) THEN TLS13 ELSE 0,
      psk |-> IF PreShared \in ToSet(o) THEN 0 ELSE -1,
      random |-> rnd, order |-> o] :
        s \in {<<>>, <<7>>, <<8>>}, c \in {Aes128Gcm, 4866}, rnd \in {<<1>>, MCHrr},
        o \in {q \in SetToAllKPermutations({KeyShare, SupportedVersions, PreShared}) :
                 KeyShare \in ToSet(q)}}

(* Extension lists the grammar excludes: repeated and unknown types. *)
OddLists ==
    {<<KeyShare, SupportedVersions, KeyShare>>, <<PreShared, PreShared>>,
     <<KeyShare, SupportedVersions, SupportedVersions>>}
OddHellos ==
    {Encode([h EXCEPT !.version = TLS13, !.psk = 0], h.random, o) :
        h \in {x \in Fields : x.sid = <<7>> /\ x.cipher = Aes128Gcm
                                  /\ x.random = <<1>>}, o \in OddLists}

MCHellos == {[fields |-> f, bytes |-> Encode(f, f.random, f.order)] : f \in Fields}

(* One byte changed, with the values that shift a length or a type. *)
Damaged(m) ==
    {ReplaceAt(m, i, b) : i \in DOMAIN m, b \in {0, 1, 2, 3, 5, 41, 43, 51, 255}}
      \cup {SubSeq(m, 1, n) : n \in 0 .. Len(m)}
      \cup {Append(m, b) : b \in {0, 41}}

MCMessages ==
    LET bases == OddHellos \cup {h.bytes : h \in {x \in MCHellos :
                    x.fields.cipher = Aes128Gcm /\ x.fields.sid = <<7>>}}
    IN {h.bytes : h \in MCHellos} \cup UNION {Damaged(m) : m \in bases}

-----------------------------------------------------------------------------
Upto(S, n) == UNION {[1 .. k -> S] : k \in 0 .. n}

Exts == {[type |-> SupportedGroups, data |-> <<>>],
         [type |-> SupportedGroups, data |-> <<1, 2>>],
         [type |-> ServerName, data |-> <<>>]}
Ees == {[kind |-> "EE", items |-> es, msg |-> EncodeEe(es),
         sni |-> \E i \in DOMAIN es : es[i].type = ServerName] : es \in Upto(Exts, 2)}

Chain(es) == [kind |-> "CERT", items |-> es, sni |-> FALSE, msg |-> EncodeCert(es)]
Certs == {Chain([i \in DOMAIN cs |-> [data |-> cs[i], exts |-> x]]) :
             cs \in Upto({<<21>>, <<22, 23>>}, MaxChain + 1), x \in {<<>>, <<5>>}}

Cv(e) == [kind |-> "CV", items |-> <<e>>, sni |-> FALSE, msg |-> EncodeCv(e)]
Cvs == {Cv([type |-> 1027, data |-> [i \in 1 .. n |-> 9]]) : n \in 0 .. 2}

MCHonest == Ees \cup Certs \cup Cvs

Damage(m) ==
    {ReplaceAt(m, i, b) : i \in DOMAIN m, b \in {0, 1, 2, 3, 5, 10, 255}}
      \cup {SubSeq(m, 1, n) : n \in 0 .. Len(m)} \cup {Append(m, b) : b \in {0, 10}}

MCBodies ==
    UNION {{[kind |-> h.kind, msg |-> m] : m \in {h.msg} \cup Damage(h.msg)} :
              h \in MCHonest}
      \cup {[kind |-> k, msg |-> b] : k \in {"EE", "CERT", "CV"},
                                      b \in Upto({0, 1, 4, 10}, 4)}
=============================================================================
