----------------------------- MODULE WnDnsName ------------------------------
(***************************************************************************)
(* Matching a host against the names of a certificate: wn_DnsNameMatch and *)
(* wn_CheckServerName of src/wn_connect.c.  A name is a sequence of        *)
(* characters; those of a certificate come with a length, so a NUL in one  *)
(* is a character like any other.                                          *)
(***************************************************************************)
EXTENDS Integers, Sequences, SequencesExt

Lower == [c \in {"A", "B"} |-> IF c = "A" THEN "a" ELSE "b"]

AsciiLower(c) == IF c \in DOMAIN Lower THEN Lower[c] ELSE c

DnsCaseEq(a, b) ==
    /\ Len(a) = Len(b)
    /\ \A i \in DOMAIN a : AsciiLower(a[i]) = AsciiLower(b[i])

(* Mutant: the dot is looked for but its position is not: k may be 0. *)
DnsNameMatchEmptyLabel(pat, host) ==
    /\ pat # <<>> /\ host # <<>>
    /\ IF Len(pat) > 2 /\ pat[1] = "*" /\ pat[2] = "."
       THEN \E k \in 1 .. Len(host) :
               /\ host[k] = "." /\ \A j \in 1 .. k - 1 : host[j] # "."
               /\ DnsCaseEq(Tail(pat), SubSeq(host, k, Len(host)))
       ELSE DnsCaseEq(pat, host)

(* With a leading "*." the pattern is compared from its dot with the host from
   its first dot, which must not be its first character. *)
DnsNameMatch(pat, host) ==
    /\ pat # <<>> /\ host # <<>>
    /\ IF Len(pat) > 2 /\ pat[1] = "*" /\ pat[2] = "."
       THEN \E k \in 2 .. Len(host) :
               /\ host[k] = "." /\ \A j \in 1 .. k - 1 : host[j] # "."
               /\ DnsCaseEq(Tail(pat), SubSeq(host, k, Len(host)))
       ELSE DnsCaseEq(pat, host)

(* The dNSName entries decide; the common name (at most one) only where there
   is none. *)
CheckServerName(leaf, host) ==
    LET dns == {i \in DOMAIN leaf.altNames : leaf.altNames[i].type = "DNS"} IN
    \/ \E i \in dns : DnsNameMatch(leaf.altNames[i].name, host)
    \/ /\ dns = {}
       /\ \E i \in DOMAIN leaf.subjectCN : DnsNameMatch(leaf.subjectCN[i], host)

-----------------------------------------------------------------------------
(* The reference (RFC 6125 6.4): names are compared label by label, and "*"
   as the whole first label of a pattern stands for any one non-empty label. *)
Ends(name) ==
    LET at == {i \in DOMAIN name : name[i] = "."} \cup {Len(name) + 1} IN
    CHOOSE e \in [1 .. Cardinality(at) -> at] :
        \A j, k \in 1 .. Cardinality(at) : j < k => e[j] < e[k]

Labels(name) ==
    LET from(j) == IF j = 1 THEN 1 ELSE Ends(name)[j - 1] + 1
    IN [j \in DOMAIN Ends(name) |-> SubSeq(name, from(j), Ends(name)[j] - 1)]

SameLabel(p, h) == DnsCaseEq(p, h)

(* An empty rest ("*.") is no domain: such a pattern stands for itself. *)
RefMatch(pat, host) ==
    LET p == Labels(pat)
        h == Labels(host)
        wild == p[1] = <<"*">> /\ Len(p) > 1 /\ Tail(p) # <<<<>>>>
    IN /\ pat # <<>> /\ host # <<>>
       /\ Len(p) = Len(h)
       /\ \A i \in 2 .. Len(p) : SameLabel(p[i], h[i])
       /\ IF wild THEN h[1] # <<>> ELSE SameLabel(p[1], h[1])
=============================================================================
