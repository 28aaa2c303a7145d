---------------------------- MODULE MCWnSchemes -----------------------------
(***************************************************************************)
(* TLC instances of WnSchemes: an anchor that has expired, two CAs under   *)
(* it, a CA of another root, an end entity that signs, leaves of every     *)
(* kind, every short pattern and host, and every selection of macros that  *)
(* touches the certificate path.                                           *)
(***************************************************************************)
EXTENDS WnSchemes

Upto(S, m) == UNION {[1 .. k -> S] : k \in 0 .. m}

Host == <<"a", ".", "b">>
AltName(t, nm) == [type |-> t, name |-> nm]
Name(nm) == <<AltName("DNS", nm)>>

Ca(k, signer) ==
    [parses |-> TRUE, key |-> k, kind |-> "p256", signer |-> signer, isCA |-> TRUE,
     dated |-> TRUE, notBefore |-> 1, notAfter |-> 3, ku |-> "other", eku |-> "unset",
     keySz |-> 1, altNames |-> <<>>, subjectCN |-> <<>>]
Leaf(k, signer) ==
    [Ca(k, signer) EXCEPT !.isCA = FALSE, !.ku = "sign", !.altNames = Name(Host)]

Cert == {"SHA384", "ECC", "ECC384", "ECDHE_P256", "RSA_VERIFY", "X509"}
Build(sel, level) == [sel |-> sel, mldsaLevel |-> level]

Want(entry, name, pin) == [entry |-> entry, serverName |-> name, pinnedKey |-> pin]
Anyone == Want("Cert", <<>>, "NULL")
Case(bs, ls, ws, ts) == [builds |-> bs, lists |-> ls, wants |-> ws, times |-> ts]

-----------------------------------------------------------------------------
MCAnchor == [Ca("root", "root") EXCEPT !.notAfter = 0]
Mid == Ca("mid", "root")
CAs == {MCAnchor, Mid, [Ca("low", "mid") EXCEPT !.notAfter = 2], Ca("root2", "root2"),
        Ca("mid", "root2"), [Mid EXCEPT !.parses = FALSE]}
Leaves ==
    {Leaf("k", s) : s \in {"root", "mid", "low", "root2", "k2"}}
      \cup {Leaf("k2", "mid"),
            [Leaf("k", "mid") EXCEPT !.keySz = 2],
            [Leaf("k", "mid") EXCEPT !.ku = "other"],
            [Leaf("k", "mid") EXCEPT !.eku = "other"],
            [Leaf("k", "mid") EXCEPT !.eku = "server", !.ku = "unset"],
            [Leaf("k", "mid") EXCEPT !.dated = FALSE],
            [Leaf("k", "mid") EXCEPT !.notBefore = 3],
            [Leaf("k", "mid") EXCEPT !.parses = FALSE],
            [Leaf("k", "mid") EXCEPT !.altNames = Name(<<"b">>), !.subjectCN = <<Host>>],
            [Leaf("k", "mid") EXCEPT !.altNames = <<>>, !.subjectCN = <<Host>>]}
Chains == {<<>>} \cup {<<l>> \o t : l \in Leaves,
                                    t \in Upto(CAs \cup {Leaf("k2", "mid")}, 3)}
Wants == {Anyone} \cup {Want("CertName", nm, pin) : nm \in {<<>>, <<Host>>, <<<<>>>>},
                                                    pin \in {"NULL", "k", "k2", "EMPTY"}}

(* Chains, for every caller, with a clock and host names and without *)
ChainCases ==
    {Case({Build(Cert, 0)}, Chains, Wants, {2, 3}),
     Case({Build(Cert \cup {"NO_X509_TIME", "X509_HOSTNAME_0"}, 0)}, Chains, Wants, {2})}

(* Names: the only alternative name, or one of two and a common name *)
Patterns == Upto({"A", "b", ".", "*"}, 4) \cup {<<"a", "NUL", ".">>, <<"a", "NUL">>}
Few == {<<>>, <<"a">>, <<"b">>, <<"*", ".", "b">>}
Named(alt, cn) == [Leaf("k", "root") EXCEPT !.altNames = alt, !.subjectCN = cn]
NamedLeaves ==
    {Named(Name(p), <<>>) : p \in Patterns}
      \cup {Named(a, c) : a \in Upto([type : {"DNS", "IP"}, name : Few], 2),
                          c \in {<<>>} \cup {<<p>> : p \in Few}}
Hosts == Upto({"a", "B", "."}, 4)
NameCase == Case({Build(Cert, 0)}, {<<l>> : l \in NamedLeaves},
                 {Want("CertName", <<h>>, "NULL") : h \in Hosts}, {2})

(* Builds, for a leaf of every kind *)
AllBuilds ==
    {Build({"ECC", "X509"} \cup s, 0) :
        s \in SUBSET {"SHA384", "ECC384", "ED25519", "RSA_VERIFY", "ECDHE_P256",
                      "MLKEM_HYBRID", "FIPS"}}
      \cup {Build(Cert \cup {"MLDSA"} \cup s, l) : s \in SUBSET {"ED25519", "FIPS"},
                                                  l \in {2, 3, 4, 5}}
BuildCase(builds) ==
    Case(builds, {<<[Leaf("k", "root") EXCEPT !.kind = kd]>> : kd \in Kinds}, {Anyone}, {2})

MCCases == ChainCases \cup {NameCase, BuildCase(AllBuilds)}

(* configs/user_settings_cert.h, _cert_pin.h and _cert_mldsa.h *)
Shipped == {Build(Cert, 2), Build(Cert \cup {"X509_HOSTNAME_0"}, 2),
            Build({"SHA384", "ECC", "ECDHE_P256", "X509", "MLDSA"}, 2)}
ShippedCases == {BuildCase(Shipped)}

-----------------------------------------------------------------------------
(* Signatures: by the leaf with any hash, over another content, by another *)
Signed(by, hash, content) == [by |-> by, hash |-> hash, content |-> content]
Signatures(s) ==
    {Signed("k", h, Tbs) : h \in {"sha256", "sha384", "sha512", "none"}}
      \cup {Signed("k", HashOf[s], c) : c \in {[Tbs EXCEPT !.label = "client"],
                                               [Tbs EXCEPT !.th = "another"]}}
      \cup {Signed("mid", HashOf[s], Tbs)}

(* To a longer list, or one about names, an answer by each of its keys. *)
MCVerifies(list) ==
    IF Len(list) = 1 /\ list[1].altNames = Name(Host)
    THEN UNION {{[scheme |-> s, sig |-> g] : g \in Signatures(s)} : s \in Schemes}
    ELSE {[scheme |-> "ecdsa256", sig |-> Signed(c.key, "sha256", Tbs)] : c \in ToSet(list)}
=============================================================================
