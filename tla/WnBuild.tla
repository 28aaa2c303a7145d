------------------------------ MODULE WnBuild -------------------------------
(***************************************************************************)
(* The build: what wolfnano_config.h makes of the WOLFNANO_ macros an      *)
(* integrator selects, and what the ClientHello builders and the key share *)
(* make of that.  A build is a record: sel, the set of macros selected,    *)
(* and mldsaLevel, WOLFNANO_MLDSA_LEVEL.  Only macros that change what is  *)
(* offered, accepted or checked are kept; the prefixes are dropped.        *)
(***************************************************************************)
EXTENDS Integers, FiniteSets

Macros == {"SHA384", "ECC", "ECC384", "CURVE25519", "ED25519", "RSA_VERIFY", "X509",
           "NO_X509_TIME", "X509_HOSTNAME_0", "ECDHE_P256", "MLKEM_HYBRID", "MLDSA", "FIPS"}

When(b, S, implied) == IF S \subseteq b.sel THEN implied ELSE {}

(* The selection after the adders have pulled in what they need. *)
Selected(b) ==
    b.sel \cup When(b, {"MLKEM_HYBRID"}, {"MLKEM", "CURVE25519"})
          \cup When(b, {"FIPS"}, {"ECDHE_P256"})

(* What wolfSSL is told, by the names the sources test. *)
CertMacros(b) ==
    (IF "RSA_VERIFY" \in b.sel THEN {} ELSE {"NO_RSA"})
      \cup (IF "X509" \in b.sel /\ "NO_X509_TIME" \notin b.sel THEN {} ELSE {"NO_ASN_TIME"})
      \cup (IF "X509" \in b.sel /\ "X509_HOSTNAME_0" \notin b.sel
            THEN {"WOLFNANO_X509_HOSTNAME"} ELSE {})

HashMacros(b) == When(b, {"SHA384"}, {"WOLFSSL_SHA384", "WOLFSSL_SHA512"})

CurveMacros(b) ==
    When(b, {"ECC"}, {"HAVE_ECC"}) \cup When(b, {"ECC", "ECC384"}, {"HAVE_ECC384"})
      \cup (IF "CURVE25519" \in Selected(b) THEN {"HAVE_CURVE25519"} ELSE {})

Ed25519Macros(b) == When(b, {"ED25519"}, {"HAVE_ED25519", "WOLFSSL_SHA512"})

Defined(b) ==
    CertMacros(b) \cup HashMacros(b) \cup CurveMacros(b) \cup Ed25519Macros(b)
      \cup When(b, {"MLDSA"}, {"WOLFSSL_HAVE_MLDSA"})

(* Mutant: the approved build does not exclude the hybrid group. *)
ConfigErrorLevelOnly(b) == "MLDSA" \in b.sel /\ b.mldsaLevel \notin {2, 3, 5}

(* The two #error of wolfnano_config.h. *)
ConfigError(b) ==
    \/ {"FIPS", "MLKEM_HYBRID"} \subseteq b.sel
    \/ "MLDSA" \in b.sel /\ b.mldsaLevel \notin {2, 3, 5}

(* WN_DEFAULT_GROUP *)
DefaultGroup(b) ==
    IF "MLKEM_HYBRID" \in b.sel THEN "X25519MLKEM768"
    ELSE IF "ECDHE_P256" \in Selected(b) THEN "SECP256R1" ELSE "X25519"

(* The types and functions the sources name are there to compile: those of the
   group, and ECDSA for the certificate path, which has it in every build. *)
Compiles(b) ==
    /\ ~ConfigError(b)
    /\ DefaultGroup(b) = "SECP256R1" => "HAVE_ECC" \in Defined(b)
    /\ DefaultGroup(b) # "SECP256R1" => "HAVE_CURVE25519" \in Defined(b)
    /\ "X509" \in b.sel => "HAVE_ECC" \in Defined(b)

(* WN_MLDSA_SCHEME *)
MldsaScheme(b) == CASE b.mldsaLevel = 2 -> "mldsa44"
                    [] b.mldsaLevel = 3 -> "mldsa65"
                    [] b.mldsaLevel = 5 -> "mldsa87"

Has(b, S) == S \subseteq Defined(b)

Mldsa(b) == IF Has(b, {"WOLFSSL_HAVE_MLDSA"}) THEN {MldsaScheme(b)} ELSE {}

(* RSA-PSS with the hashes that are compiled in *)
RsaSchemes(b) ==
    IF Has(b, {"NO_RSA"}) THEN {}
    ELSE {"pss256"} \cup (IF Has(b, {"WOLFSSL_SHA384"}) THEN {"pss384"} ELSE {})
                    \cup (IF Has(b, {"WOLFSSL_SHA512"}) THEN {"pss512"} ELSE {})

P384(b) == IF Has(b, {"HAVE_ECC384", "WOLFSSL_SHA384"}) THEN {"ecdsa384"} ELSE {}

(* signature_algorithms of wn_ClientHello_Build_ex *)
OfferedCert(b) ==
    (IF "FIPS" \in b.sel THEN {} ELSE Mldsa(b) \cup {"ed25519"})
      \cup P384(b) \cup {"ecdsa256"} \cup RsaSchemes(b)

(* signature_algorithms of the PSK path's build_client_hello *)
OfferedPsk(b) == Mldsa(b) \cup {"ed25519", "ecdsa256"}

(* Mutant: there is no branch for RSA-PSS with SHA-512. *)
AcceptedSchemesNoPss512(b) ==
    {"ecdsa256"} \cup P384(b) \cup (RsaSchemes(b) \ {"pss512"}) \cup Mldsa(b)
      \cup (IF Has(b, {"HAVE_ED25519"}) THEN {"ed25519"} ELSE {})

(* The branches of wn_CertVerify *)
AcceptedSchemes(b) ==
    {"ecdsa256"} \cup P384(b) \cup RsaSchemes(b) \cup Mldsa(b)
      \cup (IF Has(b, {"HAVE_ED25519"}) THEN {"ed25519"} ELSE {})
=============================================================================
