------------------------------ MODULE WnChain -------------------------------
(***************************************************************************)
(* Verification of the certificates a server presents: wn_VerifyChain of   *)
(* src/wn_connect.c, from the entry point that asks for it, in a given     *)
(* build.  One step for the arguments, one for each turn of the loop over  *)
(* the links, one for the leaf.  WnSchemes adds the CertificateVerify that *)
(* follows.                                                                *)
(*                                                                         *)
(* A certificate is what wolfCrypt's decoder and signature check say of    *)
(* it: its key, the key its signature verifies under, its flags and dates. *)
(***************************************************************************)
EXTENDS WnDnsName, WnBuild

CONSTANTS
    Cases,          \* what may meet, as sets of builds, of lists of certificates (leaf
                    \* first), of callers' wants and of times
    Anchor,         \* the trusted certificate
    MaxChain,       \* WN_MAX_CHAIN
    SpkiSz          \* WN_LEAF_SPKI_SZ

Certificate ==
    [parses: BOOLEAN, key: STRING, kind: STRING, signer: STRING, isCA: BOOLEAN,
     dated: BOOLEAN, notBefore: Nat, notAfter: Nat, ku: {"unset", "sign", "other"},
     eku: {"unset", "server", "other"}, keySz: Nat,
     altNames: Seq([type: {"DNS", "IP"}, name: Seq(STRING)]), subjectCN: Seq(Seq(STRING))]

(* want is [entry, serverName, pinnedKey]; serverName is <<>> for NULL, else
   <<the name>>.  wn_Connect_Cert_ex has neither. *)
ASSUME ChainAssumption ==
    /\ MaxChain \in Nat \ {0} /\ SpkiSz \in Nat
    /\ Anchor \in Certificate
    /\ \A c \in Cases :
          /\ c.lists \subseteq Seq(Certificate)
          /\ \A b \in c.builds : b.sel \subseteq Macros /\ b.mldsaLevel \in Nat
          /\ \A w \in c.wants :
                /\ w.serverName \in Seq(Seq(STRING)) /\ Len(w.serverName) <= 1
                /\ w.entry = "Cert" => w.serverName = <<>> /\ w.pinnedKey = "NULL"
          /\ c.times \subseteq Nat

VARIABLES
    build,
    presented,      \* all certificates of the message
    want,           \* the caller's entry point and arguments
    now,            \* the time, read once
    pc,             \* "call", "links", "leaf", then "cv" or "refused"
    i,              \* i: the links verified so far
    spki,           \* leafSpki: the key for CertificateVerify, [key, kind]
    ret

given == <<build, presented, want, now>>
chainVars == <<given, pc, i, spki, ret>>

NoKey == [key |-> "none", kind |-> "none"]

ChainInit ==
    /\ \E c \in Cases :
          /\ build \in {b \in c.builds : Compiles(b) /\ "X509" \in b.sel}
          /\ presented \in c.lists /\ want \in c.wants /\ now \in c.times
    /\ pc = "call"
    /\ i = 0
    /\ spki = NoKey
    /\ ret = "SUCCESS"

HasHostname == Has(build, {"WOLFNANO_X509_HOSTNAME"})
HasTime == ~Has(build, {"NO_ASN_TIME"})

(* certs[]: the list is read up to WN_MAX_CHAIN entries. *)
certs == SubSeq(presented, 1, IF Len(presented) < MaxChain THEN Len(presented) ELSE MaxChain)
n == Len(certs)

Refuse(code) == ret' = code /\ pc' = "refused" /\ UNCHANGED <<given, i, spki>>

(* wn_Connect_CertName_ex asks for an identity; wn_Connect_Cert_ex has none. *)
Call ==
    /\ pc = "call"
    /\ IF \/ want.entry = "CertName" /\ want.serverName = <<>> /\ want.pinnedKey = "NULL"
          \/ n < 1
       THEN Refuse("E_INVALID_ARG")
       ELSE pc' = "links" /\ UNCHANGED <<given, i, spki, ret>>

TimeValid(c) == HasTime => c.dated /\ c.notBefore <= now /\ now <= c.notAfter

(* Mutant: an issuer that is presented need not be a CA. *)
LinkHoldsAnyIssuer(c, issuer, isLast) ==
    /\ issuer.parses /\ c.signer = issuer.key
    /\ isLast \/ issuer = Anchor \/ TimeValid(issuer)

(* Mutant: the dates of the anchor count when the server sends it along. *)
LinkHoldsTimed(c, issuer, isLast) ==
    /\ issuer.parses /\ c.signer = issuer.key
    /\ isLast \/ (issuer.isCA /\ TimeValid(issuer))

(* Certificate c is signed by issuer, which is the next one presented or, for
   the last, the anchor. *)
LinkHolds(c, issuer, isLast) ==
    /\ issuer.parses
    /\ c.signer = issuer.key
    /\ isLast \/ (issuer.isCA /\ (issuer = Anchor \/ TimeValid(issuer)))

VerifyLink ==
    LET isLast == i + 1 = n
        issuer == IF isLast THEN Anchor ELSE certs[i + 2]
    IN /\ pc = "links"
       /\ IF LinkHolds(certs[i + 1], issuer, isLast)
          THEN /\ i' = i + 1
               /\ pc' = IF isLast THEN "leaf" ELSE "links"
               /\ UNCHANGED <<given, spki, ret>>
          ELSE Refuse("E_BAD_CERT")

(* A pin of length 0 matches no key. *)
CheckKeyPin(leaf) == want.pinnedKey = leaf.key

(* Mutant: a pin that matches makes the name superfluous. *)
IdentityEither(leaf) ==
    IF want.pinnedKey # "NULL" THEN IF CheckKeyPin(leaf) THEN "SUCCESS" ELSE "E_BAD_CERT"
    ELSE IF want.serverName = <<>> THEN "SUCCESS"
    ELSE IF HasHostname THEN (IF CheckServerName(leaf, want.serverName[1]) THEN "SUCCESS"
                              ELSE "E_BAD_CERT")
    ELSE "E_UNSUPPORTED"

Identity(leaf) ==
    IF want.pinnedKey # "NULL" /\ ~CheckKeyPin(leaf) THEN "E_BAD_CERT"
    ELSE IF want.serverName = <<>> THEN "SUCCESS"
    ELSE IF ~HasHostname THEN "E_UNSUPPORTED"
    ELSE IF CheckServerName(leaf, want.serverName[1]) THEN "SUCCESS" ELSE "E_BAD_CERT"

(* keyUsage and extendedKeyUsage restrict the leaf where they are present. *)
UsageOk(leaf) == leaf.ku \in {"unset", "sign"} /\ leaf.eku \in {"unset", "server"}

CheckLeaf ==
    LET leaf == certs[1] IN
    /\ pc = "leaf"
    /\ spki' = IF leaf.parses /\ leaf.keySz <= SpkiSz
               THEN [key |-> leaf.key, kind |-> leaf.kind] ELSE spki
    /\ ret' = IF ~leaf.parses THEN "E_BAD_CERT"
              ELSE IF leaf.keySz > SpkiSz THEN "E_CRYPTO"
              ELSE IF ~UsageOk(leaf) THEN "E_BAD_CERT"
              ELSE IF Identity(leaf) # "SUCCESS" THEN Identity(leaf)
              ELSE IF ~TimeValid(leaf) THEN "E_BAD_CERT" ELSE "SUCCESS"
    /\ pc' = IF ret' = "SUCCESS" THEN "cv" ELSE "refused"
    /\ UNCHANGED <<given, i>>

ChainNext == Call \/ VerifyLink \/ CheckLeaf

-----------------------------------------------------------------------------
(* Keys is closed under certification: it has the anchor's key and the key of
   every presented CA in date whose signature verifies under one of its own. *)
Closed(Keys) ==
    /\ Anchor.key \in Keys
    /\ \A c \in ToSet(presented) :
          (c.isCA /\ c.signer \in Keys /\ (c = Anchor \/ TimeValid(c))) => c.key \in Keys

(* The keys the anchor vouches for: the least closed set. *)
Vouched ==
    LET all == {Anchor.key} \cup {c.key : c \in ToSet(presented)} IN
    {k \in all : \A Keys \in SUBSET all : Closed(Keys) => k \in Keys}

(* A leaf that is accepted is one the anchor vouches for through CAs that are
   in date, however the server has ordered, repeated or padded its list and
   wherever the list was cut (wn_connect.c:1004, 1304); and the key that
   CertificateVerify will be checked with is that leaf's. *)
AcceptedIsVouched ==
    pc = "cv" => /\ presented[1].signer \in Vouched
                 /\ TimeValid(presented[1]) /\ UsageOk(presented[1])
                 /\ spki.key = presented[1].key

(* The list is a path to the anchor, which may itself end it. *)
ProperPath(cs) ==
    /\ cs # <<>>
    /\ Anchor.parses /\ \A k \in DOMAIN cs : cs[k].parses
    /\ \A k \in 1 .. Len(cs) - 1 :
          /\ cs[k].signer = cs[k + 1].key
          /\ cs[k + 1].isCA /\ (cs[k + 1] = Anchor \/ TimeValid(cs[k + 1]))
    /\ Last(cs).signer = Anchor.key

(* What the caller has asked the leaf to be. *)
IsWanted(leaf) ==
    /\ want.pinnedKey \in {"NULL", leaf.key}
    /\ \/ want.serverName = <<>>
       \/ /\ HasHostname
          /\ LET dns == {a.name : a \in {b \in ToSet(leaf.altNames) : b.type = "DNS"}}
                 names == IF dns # {} THEN dns ELSE ToSet(leaf.subjectCN)
             IN \E nm \in names : RefMatch(nm, want.serverName[1])

(* The whole list is read, but for an anchor that is one too many. *)
FitsArray ==
    \/ Len(presented) <= MaxChain
    \/ Len(presented) = MaxChain + 1 /\ Last(presented) = Anchor

AsksForOne == want.entry = "CertName" => want.serverName # <<>> \/ want.pinnedKey # "NULL"

ProperCase ==
    LET leaf == presented[1] IN
    /\ ProperPath(presented) /\ FitsArray
    /\ TimeValid(leaf) /\ UsageOk(leaf) /\ leaf.keySz <= SpkiSz
    /\ AsksForOne /\ IsWanted(leaf)

(* A server that sends a proper path is not refused: not when it adds the
   anchor, be it expired, nor when that makes the list one longer than
   WN_MAX_CHAIN (wn_connect.c:1056). *)
ProperPathAccepted == ProperCase => pc # "refused"

(* wn_Connect_CertName comes to a session only with the key that was pinned
   and under the name that was given, with both when both were, and with
   neither never; a build without host names refuses the name.  A name is that
   of the leaf if one of its dNSNames is, or the common name where it has none;
   a wildcard spans one whole label, never none and never two
   (wn_connect.c:907, 934). *)
IdentityBound ==
    (pc = "cv" /\ want.entry = "CertName") => AsksForOne /\ IsWanted(presented[1])
=============================================================================
