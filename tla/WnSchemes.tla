----------------------------- MODULE WnSchemes ------------------------------
(***************************************************************************)
(* CertificateVerify, once the chain of WnChain has passed: wn_CertVerify  *)
(* of src/wn_connect.c and the four functions it hands to.  Signatures are *)
(* ideal: one verifies under the key that made it, with the hash it was    *)
(* made with and over the content it was made over.                        *)
(***************************************************************************)
EXTENDS WnChain

CONSTANT Verifies(_)    \* given the list: the messages, [scheme, sig], a server may send

VARIABLES
    scheme,     \* scheme of the message
    sig,        \* its signature: [by, hash, content]
    key         \* the key object: "none", "init", "freed"

vars == <<chainVars, scheme, sig, key>>

Kinds == {"p256", "p384", "ed25519", "rsa", "mldsa44", "mldsa65", "mldsa87"}
Schemes == {"ecdsa256", "ecdsa384", "ed25519", "pss256", "pss384", "pss512",
            "mldsa44", "mldsa65", "mldsa87", "rsa_pkcs1"}

HashOf == [s \in Schemes |->
    CASE s \in {"ecdsa256", "pss256"} -> "sha256" [] s \in {"ecdsa384", "pss384"} -> "sha384"
      [] s = "pss512" -> "sha512" [] OTHER -> "none"]

(* wn_BuildCvTbs: 64 blanks, the server's label, and the transcript hash. *)
Tbs == [label |-> "server", th |-> "this"]

NoSig == [by |-> "none", hash |-> "none", content |-> "none"]

Init ==
    /\ ChainInit
    /\ scheme = "none" /\ sig = NoSig /\ key = "none"

Family(s) == CASE s \in {"ecdsa256", "ecdsa384"} -> "ecdsa"
               [] s \in {"pss256", "pss384", "pss512"} -> "rsa"
               [] OTHER -> s

(* wn_CertVerify chooses by scheme; any other is refused. *)
Dispatch ==
    /\ pc = "cv"
    /\ \E m \in Verifies(presented) :
          /\ scheme' = m.scheme /\ sig' = m.sig
          /\ IF m.scheme \in AcceptedSchemes(build) THEN pc' = "init" /\ UNCHANGED ret
             ELSE pc' = "done" /\ ret' = "E_UNSUPPORTED"
    /\ UNCHANGED <<given, i, spki, key>>

cvGiven == <<given, i, spki, scheme, sig>>
Then(next) == /\ pc' = next /\ UNCHANGED <<cvGiven, key, ret>>
Fail(code) == /\ ret' = code /\ pc' = "free" /\ UNCHANGED <<cvGiven, key>>

(* Hashing and wc_*_init; without the key there is nothing to free. *)
InitKey ==
    /\ pc = "init"
    /\ \/ key' = "init" /\ pc' = "decode" /\ UNCHANGED <<cvGiven, ret>>
       \/ Fail("E_CRYPTO")
       \/ /\ scheme \in Mldsa(build) /\ key' = "init"    \* wc_MlDsaKey_SetParams
          /\ ret' = "E_CRYPTO" /\ pc' = "free" /\ UNCHANGED cvGiven

(* The key is of the scheme's algorithm, and compiled in. *)
Decodes ==
    CASE Family(scheme) = "ecdsa" ->
            spki.kind = "p256" \/ (spki.kind = "p384" /\ Has(build, {"HAVE_ECC384"}))
      [] OTHER -> spki.kind = Family(scheme)

Decode ==
    /\ pc = "decode"
    /\ IF Decodes THEN Then("curve") ELSE Fail("E_BAD_CERT")

(* Mutant: any curve will do for an ECDSA scheme. *)
OnCurveAny == TRUE

(* dp->size: the curve the scheme names *)
OnCurve == /\ scheme = "ecdsa256" => spki.kind = "p256"
           /\ scheme = "ecdsa384" => spki.kind = "p384"

(* Mutant: a key on the wrong curve is refused at once. *)
CheckCurveAtOnce ==
    /\ pc = "curve"
    /\ IF OnCurve THEN Then("verify")
       ELSE /\ ret' = "E_BAD_CERT" /\ pc' = "done"
            /\ UNCHANGED <<cvGiven, key>>

CheckCurve ==
    /\ pc = "curve"
    /\ IF OnCurve THEN Then("verify") ELSE Fail("E_BAD_CERT")

(* The signature; the calls report an error or a result that is not 1. *)
Verify ==
    /\ pc = "verify"
    /\ IF sig = [by |-> spki.key, hash |-> HashOf[scheme], content |-> Tbs]
       THEN Then("free") ELSE Fail("E_BAD_CERT")

Free ==
    /\ pc = "free"
    /\ key' = IF key = "init" THEN "freed" ELSE key
    /\ pc' = "done"
    /\ UNCHANGED <<cvGiven, ret>>

CvNext == Dispatch \/ InitKey \/ Decode \/ CheckCurve \/ Verify \/ Free

Next == (ChainNext /\ UNCHANGED <<scheme, sig, key>>) \/ CvNext

Spec == Init /\ [][Next]_vars

-----------------------------------------------------------------------------
Done == pc = "done"

(* RFC 8446 4.2.3: the kind of key a scheme is for *)
KindOf == [s \in Schemes |->
    CASE s = "ecdsa256" -> "p256" [] s = "ecdsa384" -> "p384"
      [] s \in {"pss256", "pss384", "pss512", "rsa_pkcs1"} -> "rsa" [] OTHER -> s]

(* A server is believed only if it has signed this very transcript, as a
   server, with the key of the leaf it presented, by a scheme for that kind of
   key, its curve included; and that leaf is one the anchor vouches for
   (wn_connect.c:662, 1004). *)
VerifiedIsBound ==
    (Done /\ ret = "SUCCESS") =>
        /\ presented[1].kind = KindOf[scheme] /\ scheme # "rsa_pkcs1"
        /\ sig = [by |-> presented[1].key, hash |-> HashOf[scheme], content |-> Tbs]
        /\ presented[1].signer \in Vouched

(* The key object is freed on every way out, once it is initialised. *)
KeyReleased == Done => key # "init"

(* No honest server is turned away: one that signs with a scheme ClientHello
   offered, with a key for that scheme, is believed unless a key could not be
   set up.  There is one exception, and no other in any build: Ed25519, offered
   (wn_clienthello.c:122) by a build that does not have it, is refused for want
   of a branch in wn_CertVerify (wn_connect.c:836). *)
HonestIsVerified ==
    (Done /\ scheme \in OfferedCert(build) /\ presented[1].kind = KindOf[scheme]
       /\ sig = [by |-> presented[1].key, hash |-> HashOf[scheme], content |-> Tbs])
        => IF scheme = "ed25519" /\ ~Has(build, {"HAVE_ED25519"})
           THEN ret = "E_UNSUPPORTED"
           ELSE ret \in {"SUCCESS", "E_CRYPTO"}

(* An approved build negotiates the approved group; and on the certificate
   path it offers approved schemes only, each of which wn_CertVerify can check
   (wolfnano_config.h:166, wn_clienthello.c:112).  Not so on the PSK path,
   which offers Ed25519 in this build too (wn_connect.c:186). *)
FipsOffersApproved ==
    "FIPS" \in build.sel =>
        /\ DefaultGroup(build) = "SECP256R1"
        /\ OfferedCert(build) \subseteq {"ecdsa256", "ecdsa384", "pss256", "pss384", "pss512"}
        /\ OfferedCert(build) \subseteq AcceptedSchemes(build)

(* wn_clienthello.c:114: a scheme is offered only when wn_CertVerify can check
   it. *)
OfferedIsAccepted ==
    (Done /\ scheme \in OfferedCert(build)) => ret # "E_UNSUPPORTED"
=============================================================================
