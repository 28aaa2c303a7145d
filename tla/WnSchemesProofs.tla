--------------------------- MODULE WnSchemesProofs --------------------------
(***************************************************************************)
(* Proofs about the verification of a server's certificates and of its     *)
(* CertificateVerify, for every list of certificates, every build and      *)
(* every anchor, however long the lists and the array are.                 *)
(***************************************************************************)
EXTENDS WnSchemes, WnLemmas, FiniteSetTheorems

-----------------------------------------------------------------------------
(* A finite set of numbers can be listed in order. *)
Listing(S, f) ==
    /\ f \in [1 .. Cardinality(S) -> S]
    /\ \A j, k \in 1 .. Cardinality(S) : j < k => f[j] < f[k]

LEMMA ListingExists ==
    ASSUME NEW S, S \subseteq Nat, IsFiniteSet(S)
    PROVE  \E f : Listing(S, f)
<1> DEFINE T == {m \in Nat : \A R \in SUBSET Nat :
                    (IsFiniteSet(R) /\ Cardinality(R) = m) => \E f : Listing(R, f)}
<1>1. 0 \in T
  <2> SUFFICES ASSUME NEW R \in SUBSET Nat, IsFiniteSet(R), Cardinality(R) = 0
               PROVE  \E f : Listing(R, f)
    OBVIOUS
  <2> WITNESS [x \in {} |-> 0]
  <2> QED BY DEF Listing
<1>2. ASSUME NEW m \in Nat, m \in T PROVE m + 1 \in T
  <2> SUFFICES ASSUME NEW R \in SUBSET Nat, IsFiniteSet(R), Cardinality(R) = m + 1
               PROVE  \E f : Listing(R, f)
    OBVIOUS
  <2>1. R # {}
    BY FS_EmptySet
  <2>2. PICK x \in R : \A y \in R : x <= y
    BY <2>1, LeastNumber
  <2>3. /\ R \ {x} \in SUBSET Nat /\ IsFiniteSet(R \ {x}) /\ Cardinality(R \ {x}) = m
    <3>1. /\ IsFiniteSet(R \ {x})
          /\ Cardinality(R \ {x}) = IF x \in R THEN Cardinality(R) - 1 ELSE Cardinality(R)
      BY FS_RemoveElement
    <3>2. Cardinality(R \ {x}) = (m + 1) - 1
      BY <3>1
    <3> QED BY <3>1, <3>2
  <2>4. PICK g : Listing(R \ {x}, g)
    BY <1>2, <2>3
  <2>5. /\ g \in [1 .. m -> R \ {x}]
        /\ \A j, k \in 1 .. m : j < k => g[j] < g[k]
    BY <2>3, <2>4 DEF Listing
  <2> DEFINE h == [j \in 1 .. m + 1 |-> IF j = 1 THEN x ELSE g[j - 1]]
  <2>6. h \in [1 .. m + 1 -> R]
    <3> SUFFICES ASSUME NEW j \in 1 .. m + 1 PROVE h[j] \in R
      OBVIOUS
    <3>1. j # 1 => j - 1 \in 1 .. m
      OBVIOUS
    <3> QED BY <2>5, <3>1
  <2>7. ASSUME NEW j \in 1 .. m + 1, NEW k \in 1 .. m + 1, j < k PROVE h[j] < h[k]
    <3>1. k - 1 \in 1 .. m /\ g[k - 1] \in R \ {x} /\ h[k] = g[k - 1]
      BY <2>5, <2>7
    <3>2. CASE j = 1
      <4>1. g[k - 1] \in Nat /\ x \in Nat /\ x <= g[k - 1] /\ x # g[k - 1]
        BY <2>2, <3>1
      <4> QED BY <3>1, <3>2, <4>1
    <3>3. CASE j # 1
      BY <2>5, <2>7, <3>1, <3>3
    <3> QED BY <3>2, <3>3
  <2> HIDE DEF h
  <2> QED BY <2>6, <2>7 DEF Listing
<1> HIDE DEF T
<1>3. \A m \in Nat : m \in T
  BY <1>1, <1>2, SetInduction
<1>4. Cardinality(S) \in Nat
  BY FS_CardinalityType
<1> QED BY <1>3, <1>4 DEF T

(* Such a list leaves no member out. *)
LEMMA ListingFull ==
    ASSUME NEW S, S \subseteq Nat, IsFiniteSet(S), NEW f, Listing(S, f)
    PROVE  \A x \in S : \E j \in 1 .. Cardinality(S) : f[j] = x
<1> DEFINE c == Cardinality(S)
<1>1. c \in Nat
  BY FS_CardinalityType
<1>2. f \in [1 .. c -> S] /\ \A j, k \in 1 .. c : j < k => f[j] < f[k]
  BY DEF Listing
<1>3. IsFiniteSet(1 .. c) /\ Cardinality(1 .. c) = c
  BY <1>1, FS_Interval
<1> HIDE DEF c
<1>4. ASSUME NEW j \in 1 .. c, NEW k \in 1 .. c, f[j] = f[k] PROVE j = k
  <2>1. f[j] \in Nat /\ f[k] \in Nat
    BY <1>2
  <2> QED BY <1>1, <1>2, <1>4, <2>1
<1>5. f \in Injection(1 .. c, S)
  BY <1>2, <1>4 DEF Injection, IsInjective
<1>6. f \in Surjection(1 .. c, S)
  BY <1>3, <1>5, FS_Injection DEF c
<1> QED BY <1>6 DEF Surjection, c

-----------------------------------------------------------------------------
(* The places where the labels of a name end: its dots, and one past its end. *)
EndSet(nm) == {x \in DOMAIN nm : nm[x] = "."} \cup {Len(nm) + 1}
Count(nm) == Cardinality(EndSet(nm))
EndAt(nm, j) == IF j = 0 THEN 0 ELSE Ends(nm)[j]

EndsOK(nm) ==
    /\ Count(nm) \in Nat /\ Count(nm) >= 1
    /\ DOMAIN Ends(nm) = 1 .. Count(nm)
    /\ \A j \in 0 .. Count(nm) : EndAt(nm, j) \in 0 .. Len(nm) + 1
    /\ \A j \in 1 .. Count(nm) : EndAt(nm, j) \in EndSet(nm)
    /\ \A j, k \in 0 .. Count(nm) : j < k => EndAt(nm, j) < EndAt(nm, k)
    /\ \A x \in EndSet(nm) : \E j \in 1 .. Count(nm) : EndAt(nm, j) = x
    /\ EndAt(nm, Count(nm)) = Len(nm) + 1

LEMMA EndsAre == ASSUME NEW nm \in Seq(STRING) PROVE EndsOK(nm)
<1>1. Len(nm) \in Nat /\ DOMAIN nm = 1 .. Len(nm)
  OBVIOUS
<1>2. EndSet(nm) \subseteq 1 .. Len(nm) + 1 /\ EndSet(nm) \subseteq Nat
  BY <1>1 DEF EndSet
<1>3. IsFiniteSet(EndSet(nm))
  <2>1. IsFiniteSet(1 .. Len(nm) + 1)
    BY <1>1, FS_Interval
  <2>2. EndSet(nm) \in SUBSET (1 .. Len(nm) + 1)
    BY <1>2
  <2> QED BY <2>1, <2>2, FS_Subset
<1>4. Count(nm) \in Nat
  BY <1>3, FS_CardinalityType DEF Count
<1>5. Listing(EndSet(nm), Ends(nm))
  <2>1. Ends(nm) = CHOOSE e \in [1 .. Cardinality(EndSet(nm)) -> EndSet(nm)] :
                       \A j, k \in 1 .. Cardinality(EndSet(nm)) : j < k => e[j] < e[k]
    BY DEF Ends, EndSet
  <2>2. PICK f : Listing(EndSet(nm), f)
    BY <1>2, <1>3, ListingExists
  <2>3. \E e \in [1 .. Cardinality(EndSet(nm)) -> EndSet(nm)] :
            \A j, k \in 1 .. Cardinality(EndSet(nm)) : j < k => e[j] < e[k]
    BY <2>2 DEF Listing
  <2> QED BY <2>1, <2>3 DEF Listing
<1>6. /\ Ends(nm) \in [1 .. Count(nm) -> EndSet(nm)]
      /\ \A j, k \in 1 .. Count(nm) : j < k => Ends(nm)[j] < Ends(nm)[k]
  BY <1>5 DEF Listing, Count
<1>7. \A x \in EndSet(nm) : \E j \in 1 .. Count(nm) : Ends(nm)[j] = x
  BY <1>2, <1>3, <1>5, ListingFull DEF Count
<1>8. \A j \in 1 .. Count(nm) : EndAt(nm, j) = Ends(nm)[j] /\ Ends(nm)[j] \in 1 .. Len(nm) + 1
  BY <1>2, <1>4, <1>6 DEF EndAt
<1>9. EndAt(nm, 0) = 0
  BY DEF EndAt
<1>10. PICK k \in 1 .. Count(nm) : Ends(nm)[k] = Len(nm) + 1
  BY <1>7 DEF EndSet
<1>11. k = Count(nm)
  <2> SUFFICES ASSUME k < Count(nm) PROVE FALSE
    BY <1>4
  <2>1. Count(nm) \in 1 .. Count(nm)
    BY <1>4
  <2>2. Ends(nm)[k] < Ends(nm)[Count(nm)]
    BY <1>6, <2>1
  <2> QED BY <1>1, <1>8, <1>10, <2>1, <2>2
<1>12. ASSUME NEW j \in 0 .. Count(nm), NEW l \in 0 .. Count(nm), j < l
       PROVE  EndAt(nm, j) < EndAt(nm, l)
  <2>1. l \in 1 .. Count(nm) /\ EndAt(nm, l) \in 1 .. Len(nm) + 1
    BY <1>4, <1>8, <1>12
  <2>2. CASE j = 0
    BY <1>9, <2>1, <2>2
  <2>3. CASE j # 0
    BY <1>6, <1>8, <1>12, <2>1, <2>3
  <2> QED BY <2>2, <2>3
<1>13. \A j \in 0 .. Count(nm) : EndAt(nm, j) \in 0 .. Len(nm) + 1
  <2> SUFFICES ASSUME NEW j \in 0 .. Count(nm) PROVE EndAt(nm, j) \in 0 .. Len(nm) + 1
    OBVIOUS
  <2>1. CASE j = 0
    BY <1>1, <1>9, <2>1
  <2>2. CASE j # 0
    <3>1. j \in 1 .. Count(nm)
      BY <1>4, <2>2
    <3>2. EndAt(nm, j) \in 1 .. Len(nm) + 1
      BY <1>8, <3>1
    <3> QED BY <1>1, <3>2
  <2> QED BY <2>1, <2>2
<1>14. \A j \in 1 .. Count(nm) : EndAt(nm, j) \in EndSet(nm)
  BY <1>6, <1>8
<1>15. \A x \in EndSet(nm) : \E j \in 1 .. Count(nm) : EndAt(nm, j) = x
  BY <1>7, <1>8
<1>16. DOMAIN Ends(nm) = 1 .. Count(nm)
  BY <1>6
<1>17. EndAt(nm, Count(nm)) = Len(nm) + 1 /\ Count(nm) >= 1
  BY <1>4, <1>8, <1>10, <1>11
<1> QED BY <1>4, <1>12, <1>13, <1>14, <1>15, <1>16, <1>17 DEF EndsOK

(* What a label is. *)
LabelsOK(nm) ==
    /\ Labels(nm) \in Seq(Seq(STRING)) /\ Len(Labels(nm)) = Count(nm)
    /\ \A j \in 1 .. Count(nm) :
          /\ Labels(nm)[j] \in Seq(STRING)
          /\ Len(Labels(nm)[j]) = EndAt(nm, j) - EndAt(nm, j - 1) - 1
          /\ \A x \in 1 .. EndAt(nm, j) - EndAt(nm, j - 1) - 1 :
                Labels(nm)[j][x] = nm[EndAt(nm, j - 1) + x]

LEMMA LabelsAre == ASSUME NEW nm \in Seq(STRING) PROVE LabelsOK(nm)
<1>1. EndsOK(nm)
  BY EndsAre
<1> DEFINE lab(j) == SubSeq(nm, EndAt(nm, j - 1) + 1, EndAt(nm, j) - 1)
<1>2. Count(nm) \in Nat /\ DOMAIN Ends(nm) = 1 .. Count(nm)
  BY <1>1 DEF EndsOK
<1>3. ASSUME NEW j \in 1 .. Count(nm)
      PROVE  lab(j) = SubSeq(nm, IF j = 1 THEN 1 ELSE Ends(nm)[j - 1] + 1, Ends(nm)[j] - 1)
  <2>1. EndAt(nm, j) = Ends(nm)[j]
    BY <1>2 DEF EndAt
  <2>2. EndAt(nm, j - 1) + 1 = IF j = 1 THEN 1 ELSE Ends(nm)[j - 1] + 1
    BY <1>2 DEF EndAt
  <2> QED BY <2>1, <2>2
<1>4. Labels(nm) = [j \in 1 .. Count(nm) |-> lab(j)]
  BY <1>2, <1>3 DEF Labels
<1>5. ASSUME NEW j \in 1 .. Count(nm)
      PROVE  /\ lab(j) \in Seq(STRING)
             /\ Len(lab(j)) = EndAt(nm, j) - EndAt(nm, j - 1) - 1
             /\ \A x \in 1 .. EndAt(nm, j) - EndAt(nm, j - 1) - 1 :
                   lab(j)[x] = nm[EndAt(nm, j - 1) + x]
  <2> DEFINE p == EndAt(nm, j - 1)
             q == EndAt(nm, j)
  <2>1. j \in 0 .. Count(nm) /\ j - 1 \in 0 .. Count(nm) /\ j - 1 < j
    BY <1>2
  <2>2. p \in 0 .. Len(nm) + 1 /\ q \in 0 .. Len(nm) + 1 /\ p < q
    BY <1>1, <2>1 DEF EndsOK
  <2> HIDE DEF p, q
  <2>3. Len(nm) \in Nat
    OBVIOUS
  <2>4. /\ SubSeq(nm, p + 1, q - 1) \in Seq(STRING)
        /\ Len(SubSeq(nm, p + 1, q - 1)) = q - p - 1
        /\ \A x \in 1 .. q - p - 1 : SubSeq(nm, p + 1, q - 1)[x] = nm[p + x]
    <3>1. \A x \in 1 .. Len(nm) : nm[x] \in STRING
      OBVIOUS
    <3>2. p + 1 \in Nat /\ q - 1 \in Nat /\ p + 1 >= 1 /\ q - 1 <= Len(nm)
      BY <2>2, <2>3
    <3> QED BY <2>2, <2>3, <3>1, <3>2
  <2> QED BY <2>4 DEF p, q
<1> HIDE DEF lab
<1>6. Labels(nm) \in Seq(Seq(STRING)) /\ Len(Labels(nm)) = Count(nm)
  BY <1>2, <1>4, <1>5
<1>7. \A j \in 1 .. Count(nm) : Labels(nm)[j] = lab(j)
  BY <1>4
<1> QED BY <1>5, <1>6, <1>7 DEF LabelsOK
-----------------------------------------------------------------------------
(* Two names from their m-th ends on: as labels, and as text. *)
SameLabels(a, b, m) ==
    /\ Count(a) = Count(b)
    /\ \A j \in m + 1 .. Count(a) : DnsCaseEq(Labels(a)[j], Labels(b)[j])

SameText(a, b, m) ==
    LET p == EndAt(a, m)
        q == EndAt(b, m)
    IN /\ Len(a) - p = Len(b) - q
       /\ \A x \in 1 .. Len(a) - p : AsciiLower(a[p + x]) = AsciiLower(b[q + x])

TwoNames(a, b, m) ==
    /\ a \in Seq(STRING) /\ b \in Seq(STRING)
    /\ m \in Nat /\ m < Count(a) /\ m < Count(b)

LEMMA DotsAreKept == \A c, d : AsciiLower(c) = AsciiLower(d) => (c = "." <=> d = ".")
BY DEF AsciiLower, Lower

(* The same text from the m-th ends on has its ends at the same places. *)
LEMMA TextEnds ==
    ASSUME NEW a, NEW b, NEW m, TwoNames(a, b, m), SameText(a, b, m)
    PROVE  /\ Count(a) = Count(b)
           /\ \A j \in m .. Count(a) : EndAt(b, j) - EndAt(b, m) = EndAt(a, j) - EndAt(a, m)
<1> DEFINE p == EndAt(a, m)
           q == EndAt(b, m)
           T == {t \in Nat : m + t <= Count(a) =>
                    m + t <= Count(b) /\ EndAt(b, m + t) - q = EndAt(a, m + t) - p}
<1>1. EndsOK(a) /\ EndsOK(b) /\ a \in Seq(STRING) /\ b \in Seq(STRING)
  BY EndsAre DEF TwoNames
<1>2. /\ m \in Nat /\ Count(a) \in Nat /\ Count(b) \in Nat /\ m < Count(a) /\ m < Count(b)
      /\ Len(a) \in Nat /\ Len(b) \in Nat
  BY <1>1 DEF TwoNames, EndsOK
<1>3. /\ \A j \in 0 .. Count(a) : EndAt(a, j) \in Nat /\ EndAt(a, j) <= Len(a) + 1
      /\ \A j \in 0 .. Count(b) : EndAt(b, j) \in Nat /\ EndAt(b, j) <= Len(b) + 1
  BY <1>1, <1>2 DEF EndsOK
<1>4. p \in Nat /\ q \in Nat
  BY <1>2, <1>3
<1>5. /\ Len(a) - p = Len(b) - q
      /\ \A x \in 1 .. Len(a) - p : AsciiLower(a[p + x]) = AsciiLower(b[q + x])
  BY DEF SameText
<1>6. \A x \in 1 .. Len(a) - p : a[p + x] = "." <=> b[q + x] = "."
  BY <1>5, DotsAreKept
<1>7. 0 \in T
  BY <1>2, <1>4
<1> HIDE DEF p, q
<1>8. ASSUME NEW t \in Nat, t \in T PROVE t + 1 \in T
  <2> SUFFICES ASSUME m + (t + 1) <= Count(a)
               PROVE  /\ m + (t + 1) <= Count(b)
                      /\ EndAt(b, m + (t + 1)) - q = EndAt(a, m + (t + 1)) - p
    OBVIOUS
  <2> DEFINE u == m + t
  <2>1. /\ u \in Nat /\ m <= u /\ u < Count(a) /\ u <= Count(b)
        /\ EndAt(b, u) - q = EndAt(a, u) - p /\ m + (t + 1) = u + 1
    BY <1>2, <1>8
  <2> HIDE DEF u
  <2> DEFINE e == EndAt(a, u + 1)
             f == (e - p) + q
  <2>2. u + 1 \in 1 .. Count(a) /\ u \in 0 .. Count(a) /\ m \in 0 .. Count(a)
    BY <1>2, <2>1
  <2>3. e \in Nat /\ e <= Len(a) + 1 /\ EndAt(a, u) < e /\ p < e /\ p <= EndAt(a, u)
    <3>1. m < u \/ m = u
      BY <1>2, <2>1
    <3>2. EndAt(a, u) < e
      BY <1>1, <2>1, <2>2 DEF EndsOK
    <3>3. p <= EndAt(a, u)
      <4>1. CASE m = u
        BY <1>3, <2>2, <4>1 DEF p
      <4>2. CASE m < u
        <5>1. p < EndAt(a, u)
          BY <1>1, <2>2, <4>2 DEF EndsOK, p
        <5> QED BY <1>3, <1>4, <2>2, <5>1
      <4> QED BY <3>1, <4>1, <4>2
    <3> QED BY <1>2, <1>3, <1>4, <2>2, <3>2, <3>3
  <2>4. e \in EndSet(a)
    BY <1>1, <2>2 DEF EndsOK
  <2> HIDE DEF e
  <2>5. f \in EndSet(b)
    <3>1. CASE e = Len(a) + 1
      BY <1>2, <1>4, <1>5, <3>1 DEF EndSet
    <3>2. CASE e # Len(a) + 1
      <4>1. e - p \in 1 .. Len(a) - p /\ a[p + (e - p)] = "."
        BY <1>2, <1>4, <2>3, <2>4, <3>2 DEF EndSet
      <4>2. b[q + (e - p)] = "." /\ q + (e - p) \in 1 .. Len(b)
        <5> DEFINE x == e - p
        <5>1. x \in 1 .. Len(a) - p /\ a[p + x] = "."
          BY <4>1
        <5> HIDE DEF x
        <5>2. b[q + x] = "." /\ q + x \in 1 .. Len(b)
          BY <1>2, <1>4, <1>5, <1>6, <5>1
        <5> QED BY <5>2 DEF x
      <4>3. f = q + (e - p)
        BY <1>4, <2>3
      <4> QED BY <1>1, <4>2, <4>3 DEF EndSet
    <3> QED BY <3>1, <3>2
  <2>6. PICK j \in 1 .. Count(b) : EndAt(b, j) = f
    BY <1>1, <2>5 DEF EndsOK
  <2>7. EndAt(b, u) < f /\ EndAt(a, u) \in Nat /\ EndAt(b, u) \in Nat /\ f \in Nat
    <3>1. EndAt(a, u) \in Nat /\ EndAt(b, u) \in Nat
      BY <1>2, <1>3, <2>1, <2>2
    <3> QED BY <1>4, <2>1, <2>3, <3>1
  <2>8. u < j
    <3> SUFFICES ASSUME j <= u PROVE FALSE
      BY <2>1
    <3>1. EndAt(b, j) < EndAt(b, u) \/ j = u
      BY <1>1, <1>2, <2>1 DEF EndsOK
    <3> QED BY <1>3, <1>2, <2>1, <2>6, <2>7, <3>1
  <2>9. u + 1 <= Count(b) /\ u + 1 \in 1 .. Count(b)
    BY <1>2, <2>1, <2>8
  <2>10. EndAt(b, u + 1) = f
    <3> DEFINE g == EndAt(b, u + 1)
               h == (g - q) + p
    <3> SUFFICES ASSUME g # f PROVE FALSE
      OBVIOUS
    <3>1. g < f /\ g \in Nat /\ EndAt(b, u) < g
      <4>1. j = u + 1 \/ u + 1 < j
        BY <2>1, <2>8
      <4>2. g < f
        <5>1. CASE j = u + 1
          BY <2>6, <5>1
        <5>2. CASE u + 1 < j
          <6>1. u + 1 \in 0 .. Count(b) /\ j \in 0 .. Count(b)
            BY <1>2, <2>1, <2>9
          <6>2. EndAt(b, u + 1) < EndAt(b, j)
            BY <1>1, <5>2, <6>1 DEF EndsOK
          <6> QED BY <2>6, <6>2
        <5> QED BY <4>1, <5>1, <5>2
      <4>3. EndAt(b, u) < g
        BY <1>1, <2>1, <2>9 DEF EndsOK
      <4> QED BY <1>2, <1>3, <2>9, <4>2, <4>3
    <3>2. g \in EndSet(b)
      BY <1>1, <2>9 DEF EndsOK
    <3> HIDE DEF g
    <3>3. EndAt(a, u) < h /\ h < e
      BY <1>4, <2>1, <2>3, <2>7, <3>1
    <3>4. h \in EndSet(a)
      <4>1. g - q \in 1 .. Len(a) - p /\ g \in 1 .. Len(b)
        <5>1. q <= EndAt(b, u) /\ f <= Len(b) + 1
          BY SMTT(60), <1>2, <1>4, <1>5, <2>1, <2>3, <2>7
        <5> HIDE DEF f
        <5>2. g <= Len(b)
          BY <1>2, <2>7, <3>1, <5>1
        <5>3. q < g
          BY <1>4, <2>7, <3>1, <5>1
        <5> QED BY <1>2, <1>4, <1>5, <3>1, <5>2, <5>3
      <4>2. b[q + (g - q)] = "."
        BY SMTT(60), <1>2, <1>4, <3>2, <4>1 DEF EndSet
      <4>3. a[p + (g - q)] = "." /\ p + (g - q) \in 1 .. Len(a)
        <5> DEFINE x == g - q
        <5>1. x \in 1 .. Len(a) - p /\ b[q + x] = "."
          BY <4>1, <4>2
        <5> HIDE DEF x
        <5>2. a[p + x] = "." /\ p + x \in 1 .. Len(a)
          BY <1>2, <1>4, <1>6, <5>1
        <5> QED BY <5>2 DEF x
      <4>4. h = p + (g - q)
        BY <1>4, <3>1
      <4> QED BY <1>1, <4>3, <4>4 DEF EndSet
    <3>5. PICK l \in 1 .. Count(a) : EndAt(a, l) = h
      BY <1>1, <3>4 DEF EndsOK
    <3>6. u < l
      <4> SUFFICES ASSUME l <= u PROVE FALSE
        BY <2>1
      <4>1. EndAt(a, l) < EndAt(a, u) \/ l = u
        BY <1>1, <1>2, <2>1 DEF EndsOK
      <4>2. EndAt(a, l) \in Nat
        BY <1>2, <1>3
      <4> QED BY <2>7, <3>3, <3>5, <4>1, <4>2
    <3>7. l < u + 1
      <4> SUFFICES ASSUME u + 1 <= l PROVE FALSE
        BY <2>1
      <4>1. e < EndAt(a, l) \/ l = u + 1
        BY <1>1, <1>2, <2>2, <2>1 DEF EndsOK, e
      <4>2. EndAt(a, l) \in Nat /\ (l = u + 1 => EndAt(a, l) = e)
        BY <1>2, <1>3 DEF e
      <4> QED BY <2>3, <3>3, <3>5, <4>1, <4>2
    <3> QED BY <2>1, <3>6, <3>7
  <2> QED BY <1>4, <2>1, <2>3, <2>9, <2>10 DEF e
<1> HIDE DEF T
<1>9. \A t \in Nat : t \in T
  BY <1>7, <1>8, SetInduction
<1>10. ASSUME NEW j \in m .. Count(a)
       PROVE  j <= Count(b) /\ EndAt(b, j) - q = EndAt(a, j) - p
  <2>1. j - m \in Nat /\ m + (j - m) = j /\ j <= Count(a)
    BY <1>2
  <2>2. j - m \in T
    BY <1>9, <2>1
  <2> QED BY <2>1, <2>2 DEF T
<1>11. Count(a) = Count(b)
  <2>1. Count(a) \in m .. Count(a)
    BY <1>2
  <2>2. Count(a) <= Count(b) /\ EndAt(b, Count(a)) - q = EndAt(a, Count(a)) - p
    BY <1>10, <2>1
  <2>3. EndAt(a, Count(a)) = Len(a) + 1 /\ EndAt(b, Count(b)) = Len(b) + 1
    BY <1>1 DEF EndsOK
  <2>4. EndAt(b, Count(a)) = Len(b) + 1
    BY <1>2, <1>3, <1>4, <1>5, <2>2, <2>3
  <2>5. Count(a) \in 0 .. Count(b) /\ Count(b) \in 0 .. Count(b)
    BY <1>2, <2>2
  <2> SUFFICES ASSUME Count(a) < Count(b) PROVE FALSE
    BY <1>2, <2>2
  <2>6. EndAt(b, Count(a)) < EndAt(b, Count(b))
    BY <1>1, <2>5 DEF EndsOK
  <2> QED BY <1>2, <2>3, <2>4, <2>6
<1> QED BY <1>10, <1>11 DEF p, q

(* The text that two names share from their m-th ends on is the labels they
   share from there on. *)
LEMMA TextIsLabels ==
    ASSUME NEW a, NEW b, NEW m, TwoNames(a, b, m), SameText(a, b, m)
    PROVE  SameLabels(a, b, m)
<1> DEFINE p == EndAt(a, m)
           q == EndAt(b, m)
<1>1. EndsOK(a) /\ EndsOK(b) /\ LabelsOK(a) /\ LabelsOK(b)
  BY EndsAre, LabelsAre DEF TwoNames
<1>2. /\ m \in Nat /\ Count(a) \in Nat /\ m < Count(a)
      /\ Len(a) \in Nat /\ Len(b) \in Nat
  BY <1>1 DEF TwoNames, EndsOK
<1>3. /\ Len(a) - p = Len(b) - q
      /\ \A x \in 1 .. Len(a) - p : AsciiLower(a[p + x]) = AsciiLower(b[q + x])
  BY DEF SameText
<1>4. /\ Count(a) = Count(b)
      /\ \A j \in m .. Count(a) : EndAt(b, j) - q = EndAt(a, j) - p
  BY TextEnds
<1>5. /\ \A j \in 0 .. Count(a) : EndAt(a, j) \in Nat /\ EndAt(a, j) <= Len(a) + 1
      /\ \A j \in 0 .. Count(a) : EndAt(b, j) \in Nat
      /\ p \in Nat /\ q \in Nat
      /\ \A j \in m .. Count(a) : p <= EndAt(a, j)
  <2>1. /\ \A j \in 0 .. Count(a) : EndAt(a, j) \in 0 .. Len(a) + 1
        /\ \A j \in 0 .. Count(a) : EndAt(b, j) \in 0 .. Len(b) + 1
    BY <1>1, <1>4 DEF EndsOK
  <2>2. m \in 0 .. Count(a)
    BY <1>2
  <2>3. ASSUME NEW j \in m .. Count(a) PROVE p <= EndAt(a, j)
    <3>1. m = j \/ (m < j /\ j \in 0 .. Count(a))
      BY <1>2
    <3>2. m < j /\ j \in 0 .. Count(a) => p < EndAt(a, j)
      BY <1>1, <2>2 DEF EndsOK
    <3>3. p \in Nat /\ (j \in 0 .. Count(a) => EndAt(a, j) \in Nat)
      BY <1>2, <2>1, <2>2
    <3> QED BY <3>1, <3>2, <3>3
  <2> QED BY <1>2, <2>1, <2>2, <2>3
<1> HIDE DEF p, q
<1> SUFFICES ASSUME NEW j \in m + 1 .. Count(a)
             PROVE  DnsCaseEq(Labels(a)[j], Labels(b)[j])
  BY <1>4 DEF SameLabels
<1> DEFINE d == EndAt(a, j - 1)
           e == EndAt(a, j)
           dd == EndAt(b, j - 1)
           ee == EndAt(b, j)
<1>6. j \in 1 .. Count(a) /\ j - 1 \in m .. Count(a) /\ j \in m .. Count(a) /\ j - 1 \in 0 .. Count(a)
         /\ j \in 0 .. Count(a)
  BY <1>2
<1>7. /\ d \in Nat /\ e \in Nat /\ dd \in Nat /\ ee \in Nat /\ p <= d /\ e <= Len(a) + 1
      /\ dd - q = d - p /\ ee - q = e - p
  BY <1>4, <1>5, <1>6
<1>8. /\ Labels(a)[j] \in Seq(STRING) /\ Labels(b)[j] \in Seq(STRING)
      /\ Len(Labels(a)[j]) = e - d - 1
      /\ Len(Labels(b)[j]) = ee - dd - 1
      /\ \A x \in 1 .. e - d - 1 : Labels(a)[j][x] = a[d + x]
      /\ \A x \in 1 .. ee - dd - 1 : Labels(b)[j][x] = b[dd + x]
  BY <1>1, <1>4, <1>6 DEF LabelsOK
<1> HIDE DEF d, e, dd, ee
<1>9. ee - dd - 1 = e - d - 1
  BY <1>5, <1>7
<1>10. ASSUME NEW x \in 1 .. e - d - 1
       PROVE  AsciiLower(Labels(a)[j][x]) = AsciiLower(Labels(b)[j][x])
  <2> DEFINE y == (d - p) + x
  <2>1. y \in 1 .. Len(a) - p /\ p + y = d + x /\ q + y = dd + x
    BY <1>2, <1>5, <1>7
  <2> HIDE DEF y
  <2>2. AsciiLower(a[p + y]) = AsciiLower(b[q + y])
    BY <1>3, <2>1
  <2> QED BY <1>8, <1>9, <2>1, <2>2
<1>11. DOMAIN Labels(a)[j] = 1 .. e - d - 1
  BY <1>8
<1> QED BY <1>8, <1>9, <1>10, <1>11 DEF DnsCaseEq

LEMMA LabelsAreText ==
    ASSUME NEW a, NEW b, NEW m, TwoNames(a, b, m), SameLabels(a, b, m)
    PROVE  SameText(a, b, m)
<1> DEFINE p == EndAt(a, m)
           q == EndAt(b, m)
           c == Count(a)
           T == {t \in Nat : m + t <= c => EndAt(b, m + t) - q = EndAt(a, m + t) - p}
<1>1. EndsOK(a) /\ EndsOK(b) /\ LabelsOK(a) /\ LabelsOK(b)
  BY EndsAre, LabelsAre DEF TwoNames
<1>2. /\ m \in Nat /\ c \in Nat /\ m < c /\ Count(b) = c
      /\ Len(a) \in Nat /\ Len(b) \in Nat
  <2>1. Count(b) = c
    BY DEF SameLabels
  <2>2. m \in Nat /\ m < c /\ Len(a) \in Nat /\ Len(b) \in Nat
    BY DEF TwoNames
  <2>3. c \in Nat
    BY <1>1 DEF EndsOK
  <2> QED BY <2>1, <2>2, <2>3
<1>3. \A j \in 0 .. c : EndAt(a, j) \in Nat /\ EndAt(b, j) \in Nat
  <2>1. /\ \A j \in 0 .. c : EndAt(a, j) \in 0 .. Len(a) + 1
        /\ \A j \in 0 .. c : EndAt(b, j) \in 0 .. Len(b) + 1
    BY <1>1, <1>2 DEF EndsOK
  <2> QED BY <1>2, <2>1
<1>4. p \in Nat /\ q \in Nat
  BY <1>2, <1>3
<1>5. ASSUME NEW j \in m + 1 .. c
      PROVE  /\ j - 1 \in 0 .. c /\ j \in 0 .. c /\ j \in 1 .. c
             /\ EndAt(b, j) - EndAt(b, j - 1) = EndAt(a, j) - EndAt(a, j - 1)
             /\ \A x \in 1 .. EndAt(a, j) - EndAt(a, j - 1) - 1 :
                   AsciiLower(a[EndAt(a, j - 1) + x]) = AsciiLower(b[EndAt(b, j - 1) + x])
  <2>1. j - 1 \in 0 .. c /\ j \in 0 .. c /\ j \in 1 .. c
    BY <1>2
  <2> DEFINE la == Labels(a)[j]
             lb == Labels(b)[j]
             d == EndAt(a, j - 1)
             e == EndAt(a, j)
             dd == EndAt(b, j - 1)
             ee == EndAt(b, j)
  <2>2. DnsCaseEq(la, lb)
    BY DEF SameLabels
  <2>3. /\ la \in Seq(STRING) /\ Len(la) = e - d - 1
        /\ Len(lb) = ee - dd - 1
        /\ \A x \in 1 .. e - d - 1 : la[x] = a[d + x]
        /\ \A x \in 1 .. ee - dd - 1 : lb[x] = b[dd + x]
    BY <1>1, <1>2, <2>1 DEF LabelsOK
  <2>4. d \in Nat /\ e \in Nat /\ dd \in Nat /\ ee \in Nat
    BY <1>3, <2>1
  <2> HIDE DEF la, lb, d, e, dd, ee
  <2>5. e - d - 1 = ee - dd - 1 /\ \A x \in 1 .. e - d - 1 : AsciiLower(la[x]) = AsciiLower(lb[x])
    <3>1. Len(la) = Len(lb) /\ \A x \in DOMAIN la : AsciiLower(la[x]) = AsciiLower(lb[x])
      BY <2>2 DEF DnsCaseEq
    <3>2. DOMAIN la = 1 .. e - d - 1
      BY <2>3
    <3> QED BY <2>3, <3>1, <3>2
  <2>6. ee - dd = e - d
    BY <2>4, <2>5
  <2>7. \A x \in 1 .. e - d - 1 : AsciiLower(a[d + x]) = AsciiLower(b[dd + x])
    BY <2>3, <2>5
  <2> QED BY <2>1, <2>6, <2>7 DEF d, e, dd, ee
<1>6. 0 \in T
  BY <1>2, <1>4
<1> HIDE DEF p, q, c
<1>7. ASSUME NEW t \in Nat, t \in T PROVE t + 1 \in T
  <2> SUFFICES ASSUME m + (t + 1) <= c
               PROVE  EndAt(b, m + (t + 1)) - q = EndAt(a, m + (t + 1)) - p
    OBVIOUS
  <2> DEFINE j == m + (t + 1)
  <2>1. j \in m + 1 .. c /\ j - 1 = m + t /\ m + t <= c /\ m + t \in 0 .. c /\ j \in 0 .. c
    BY <1>2
  <2>2. EndAt(b, m + t) - q = EndAt(a, m + t) - p
    BY <1>7, <2>1
  <2> HIDE DEF j
  <2>3. EndAt(b, j) - EndAt(b, m + t) = EndAt(a, j) - EndAt(a, m + t)
    BY <1>5, <2>1
  <2>4. EndAt(b, j) \in Nat /\ EndAt(a, j) \in Nat /\ EndAt(b, m + t) \in Nat /\ EndAt(a, m + t) \in Nat
    BY <1>3, <2>1
  <2>5. EndAt(b, j) - q = EndAt(a, j) - p
    BY <1>4, <2>2, <2>3, <2>4
  <2> QED BY <2>5 DEF j
<1>8. \A t \in Nat : t \in T
  <2> HIDE DEF T
  <2> QED BY <1>6, <1>7, SetInduction
<1>9. ASSUME NEW j \in m .. c PROVE EndAt(b, j) - q = EndAt(a, j) - p
  <2>1. j - m \in Nat /\ m + (j - m) = j /\ j <= c
    BY <1>2
  <2>2. j - m \in T
    BY <1>8, <2>1
  <2> QED BY <2>1, <2>2
<1> HIDE DEF T
<1>10. Len(a) - p = Len(b) - q
  <2>1. EndAt(a, c) = Len(a) + 1 /\ EndAt(b, c) = Len(b) + 1
    BY <1>1, <1>2 DEF EndsOK, c
  <2>2. c \in m .. c
    BY <1>2
  <2>3. EndAt(b, c) - q = EndAt(a, c) - p
    BY <1>9, <2>2
  <2> QED BY <1>2, <1>4, <2>1, <2>3
<1>11. ASSUME NEW x \in 1 .. Len(a) - p
       PROVE  AsciiLower(a[p + x]) = AsciiLower(b[q + x])
  <2> DEFINE J == {j \in m + 1 .. c : p + x <= EndAt(a, j)}
  <2>1. J \subseteq Nat /\ J # {}
    <3>1. EndAt(a, c) = Len(a) + 1 /\ c \in m + 1 .. c
      <4>1. EndAt(a, c) = Len(a) + 1
        BY <1>1 DEF EndsOK, c
      <4> QED BY <1>2, <4>1
    <3> QED BY <1>2, <1>4, <3>1
  <2>2. PICK j \in J : \A k \in J : j <= k
    <3> HIDE DEF J
    <3> QED BY <2>1, LeastNumber
  <2>3. j \in m + 1 .. c /\ p + x <= EndAt(a, j) /\ j \in m .. c /\ j - 1 \in m .. c
    BY <1>2
  <2>4. EndAt(a, j - 1) < p + x
    <3>1. CASE j - 1 = m
      BY <1>2, <1>4, <3>1 DEF p
    <3>2. CASE j - 1 # m
      <4>1. j - 1 \in m + 1 .. c /\ j - 1 < j
        BY <1>2, <2>3, <3>2
      <4>2. j - 1 \notin J
        BY <2>2, <2>3, <4>1, <1>2
      <4>3. EndAt(a, j - 1) \in Nat
        BY <1>3, <1>5, <2>3
      <4> QED BY <1>4, <4>1, <4>2, <4>3
    <3> QED BY <3>1, <3>2
  <2> HIDE DEF J
  <2> DEFINE d == EndAt(a, j - 1)
             e == EndAt(a, j)
             dd == EndAt(b, j - 1)
             ee == EndAt(b, j)
  <2>5. /\ d \in Nat /\ e \in Nat /\ dd \in Nat /\ ee \in Nat
        /\ ee - q = e - p /\ dd - q = d - p /\ e \in EndSet(a) /\ ee \in EndSet(b)
    <3>1. j \in 1 .. c /\ j - 1 \in 0 .. c /\ j \in 0 .. c
      BY <1>5, <2>3
    <3>2. e \in EndSet(a) /\ ee \in EndSet(b)
      BY <1>1, <1>2, <3>1 DEF EndsOK, c
    <3> QED BY <1>3, <1>9, <2>3, <3>1, <3>2
  <2>6. \A y \in 1 .. e - d - 1 : AsciiLower(a[d + y]) = AsciiLower(b[dd + y])
    BY <1>5, <2>3
  <2>7. p + x <= e /\ d < p + x
    BY <2>3, <2>4
  <2> HIDE DEF d, e, dd, ee
  <2>8. CASE p + x = e
    <3>1. e <= Len(a) /\ ee = q + x /\ ee <= Len(b)
      BY <1>2, <1>4, <1>10, <2>5, <2>8
    <3>2. a[e] = "." /\ b[ee] = "."
      BY <1>2, <2>5, <3>1 DEF EndSet
    <3> QED BY <2>8, <3>1, <3>2
  <2>9. CASE p + x # e
    <3> DEFINE y == (p + x) - d
    <3>1. y \in 1 .. e - d - 1 /\ d + y = p + x /\ dd + y = q + x
      BY <1>4, <2>5, <2>7, <2>9
    <3> HIDE DEF y
    <3>2. AsciiLower(a[d + y]) = AsciiLower(b[dd + y])
      BY <2>6, <3>1
    <3> QED BY <3>1, <3>2
  <2> QED BY <2>8, <2>9
<1> QED BY <1>10, <1>11 DEF SameText, p, q

-----------------------------------------------------------------------------
(* The whole of two names, compared as text or label by label. *)
LEMMA WholeNames ==
    ASSUME NEW a \in Seq(STRING), NEW b \in Seq(STRING)
    PROVE  DnsCaseEq(a, b) <=>
               /\ Len(Labels(a)) = Len(Labels(b))
               /\ \A j \in 1 .. Len(Labels(a)) : DnsCaseEq(Labels(a)[j], Labels(b)[j])
<1>1. EndsOK(a) /\ EndsOK(b) /\ LabelsOK(a) /\ LabelsOK(b)
  BY EndsAre, LabelsAre
<1>2. TwoNames(a, b, 0)
  BY <1>1 DEF TwoNames, EndsOK
<1>3. SameText(a, b, 0) <=> SameLabels(a, b, 0)
  BY <1>2, TextIsLabels, LabelsAreText
<1>4. SameText(a, b, 0) <=> DnsCaseEq(a, b)
  <2>1. Len(a) \in Nat /\ Len(b) \in Nat /\ DOMAIN a = 1 .. Len(a) /\ EndAt(a, 0) = 0 /\ EndAt(b, 0) = 0
    BY DEF EndAt
  <2>2. Len(a) - 0 = Len(a) /\ Len(b) - 0 = Len(b) /\ \A x \in 1 .. Len(a) : 0 + x = x
    BY <2>1
  <2> QED BY <2>1, <2>2 DEF SameText, DnsCaseEq
<1>5. SameLabels(a, b, 0) <=>
         /\ Len(Labels(a)) = Len(Labels(b))
         /\ \A j \in 1 .. Len(Labels(a)) : DnsCaseEq(Labels(a)[j], Labels(b)[j])
  <2>1. Len(Labels(a)) = Count(a) /\ Len(Labels(b)) = Count(b)
    BY <1>1 DEF LabelsOK
  <2> QED BY <2>1 DEF SameLabels
<1> QED BY <1>3, <1>4, <1>5

(* The first label ends at the first dot, and a name of one label has none. *)
LEMMA FirstEnd ==
    ASSUME NEW nm \in Seq(STRING)
    PROVE  /\ EndAt(nm, 1) \in 1 .. Len(nm) + 1
           /\ \A x \in 1 .. Len(nm) : nm[x] = "." => EndAt(nm, 1) <= x
           /\ EndAt(nm, 1) <= Len(nm) <=> Count(nm) > 1
           /\ EndAt(nm, 1) <= Len(nm) => nm[EndAt(nm, 1)] = "."
<1>1. EndsOK(nm) /\ Len(nm) \in Nat /\ DOMAIN nm = 1 .. Len(nm)
  BY EndsAre
<1>2. Count(nm) \in Nat /\ Count(nm) >= 1 /\ 1 \in 1 .. Count(nm) /\ 0 \in 0 .. Count(nm)
         /\ 1 \in 0 .. Count(nm) /\ Count(nm) \in 0 .. Count(nm)
  BY <1>1 DEF EndsOK
<1>3. EndAt(nm, 1) \in 1 .. Len(nm) + 1 /\ EndAt(nm, 1) \in EndSet(nm)
  <2>1. EndAt(nm, 1) \in EndSet(nm)
    BY <1>1, <1>2 DEF EndsOK
  <2> QED BY <1>1, <2>1 DEF EndSet
<1>4. ASSUME NEW x \in 1 .. Len(nm), nm[x] = "." PROVE EndAt(nm, 1) <= x
  <2>1. x \in EndSet(nm)
    BY <1>1, <1>4 DEF EndSet
  <2>2. PICK j \in 1 .. Count(nm) : EndAt(nm, j) = x
    BY <1>1, <2>1 DEF EndsOK
  <2>3. j \in 0 .. Count(nm) /\ (j = 1 \/ 1 < j)
    BY <1>2
  <2>4. 1 < j => EndAt(nm, 1) < EndAt(nm, j)
    BY <1>1, <1>2, <2>3 DEF EndsOK
  <2> QED BY <1>1, <1>3, <2>2, <2>3, <2>4
<1>5. EndAt(nm, Count(nm)) = Len(nm) + 1
  BY <1>1 DEF EndsOK
<1>6. 1 < Count(nm) => EndAt(nm, 1) < EndAt(nm, Count(nm))
  BY <1>1, <1>2 DEF EndsOK
<1>7. EndAt(nm, 1) <= Len(nm) <=> Count(nm) > 1
  BY <1>1, <1>2, <1>3, <1>5, <1>6
<1>8. EndAt(nm, 1) <= Len(nm) => nm[EndAt(nm, 1)] = "."
  BY <1>1, <1>3 DEF EndSet
<1> QED BY <1>3, <1>4, <1>7, <1>8

(* A sequence of two, and its tail of one. *)
LEMMA TailIs ==
    ASSUME NEW S, NEW s \in Seq(S), Len(s) > 1
    PROVE  /\ Len(Tail(s)) = Len(s) - 1 /\ Tail(s)[1] = s[2]
           /\ Len(s) = 2 => Tail(s) = <<s[2]>>
           /\ \A x : Tail(s) = <<x>> => Len(s) = 2 /\ s[2] = x
<1>1. Tail(s) \in Seq(S) /\ Len(Tail(s)) = Len(s) - 1 /\ Tail(s)[1] = s[2]
  OBVIOUS
<1>2. Len(s) = 2 => Tail(s) = <<s[2]>>
  <2> SUFFICES ASSUME Len(s) = 2 PROVE Tail(s) = <<s[2]>>
    OBVIOUS
  <2>1. s[2] \in S
    <3>1. 2 \in 1 .. Len(s)
      OBVIOUS
    <3> QED BY <3>1, ElementOfSeq
  <2>2. <<s[2]>> \in Seq(S) /\ Len(<<s[2]>>) = 1 /\ <<s[2]>>[1] = s[2]
    BY <2>1
  <2>3. Len(Tail(s)) = 1
    BY <1>1
  <2>4. Len(Tail(s)) = Len(<<s[2]>>) /\ \A j \in 1 .. Len(Tail(s)) : Tail(s)[j] = <<s[2]>>[j]
    <3>1. \A j \in 1 .. 1 : j = 1
      OBVIOUS
    <3> QED BY <1>1, <2>2, <2>3, <3>1, Zenon
  <2> QED BY <1>1, <2>2, <2>4, SeqEqual
<1>3. ASSUME NEW x, Tail(s) = <<x>> PROVE Len(s) = 2 /\ s[2] = x
  <2>1. Len(<<x>>) = 1 /\ <<x>>[1] = x
    OBVIOUS
  <2>2. Len(Tail(s)) = 1 /\ Tail(s)[1] = x
    BY <1>3, <2>1
  <2>3. Len(s) \in Nat
    OBVIOUS
  <2>4. Len(s) = 2
    <3> DEFINE l == Len(s)
    <3>1. l - 1 = 1
      BY <1>1, <2>2, Zenon
    <3>3. l \in Nat
      BY <2>3
    <3> HIDE DEF l
    <3>2. l = 2
      BY <3>1, <3>3
    <3> QED BY <3>2 DEF l
  <2> QED BY <1>1, <2>2, <2>4
<1> QED BY <1>1, <1>2, <1>3

(* A wildcard that the code takes for one is a label "*" and a rest. *)
IsWild(pat) == Len(pat) > 2 /\ pat[1] = "*" /\ pat[2] = "."
WildLabels(p) == p[1] = <<"*">> /\ Len(p) > 1 /\ Tail(p) # <<<<>>>>

LEMMA WildIsLabels ==
    ASSUME NEW pat \in Seq(STRING)
    PROVE  IsWild(pat) <=> WildLabels(Labels(pat))
<1>1. EndsOK(pat) /\ LabelsOK(pat) /\ Len(pat) \in Nat /\ DOMAIN pat = 1 .. Len(pat)
  BY EndsAre, LabelsAre
<1>2. /\ Count(pat) \in Nat /\ Count(pat) >= 1 /\ EndAt(pat, 0) = 0
      /\ EndAt(pat, Count(pat)) = Len(pat) + 1
  BY <1>1 DEF EndsOK, EndAt
<1> DEFINE p == Labels(pat)
           e == EndAt(pat, 1)
<1>3. /\ p \in Seq(Seq(STRING)) /\ Len(p) = Count(pat)
      /\ p[1] \in Seq(STRING) /\ Len(p[1]) = e - 1
      /\ \A x \in 1 .. e - 1 : p[1][x] = pat[x]
  <2>1. 1 \in 1 .. Count(pat) /\ 1 - 1 = 0
    BY <1>2
  <2>2. /\ Len(p[1]) = EndAt(pat, 1) - EndAt(pat, 1 - 1) - 1
        /\ \A x \in 1 .. EndAt(pat, 1) - EndAt(pat, 1 - 1) - 1 :
              p[1][x] = pat[EndAt(pat, 1 - 1) + x]
        /\ p[1] \in Seq(STRING)
    BY <1>1, <2>1 DEF LabelsOK
  <2>3. e - 0 - 1 = e - 1 /\ \A x \in 1 .. e - 1 : 0 + x = x
    BY FirstEnd
  <2> QED BY <1>1, <1>2, <2>1, <2>2, <2>3 DEF LabelsOK
<1>4. /\ e \in 1 .. Len(pat) + 1
      /\ \A x \in 1 .. Len(pat) : pat[x] = "." => e <= x
      /\ e <= Len(pat) <=> Count(pat) > 1
      /\ e <= Len(pat) => pat[e] = "."
  BY FirstEnd
<1>5. Count(pat) = 2 => Len(p[2]) = Len(pat) - e /\ p[2] \in Seq(STRING)
  <2>1. SUFFICES ASSUME Count(pat) = 2
                 PROVE  Len(p[2]) = Len(pat) - e /\ p[2] \in Seq(STRING)
    OBVIOUS
  <2>2. 2 \in 1 .. Count(pat) /\ 2 - 1 = 1
    BY <2>1
  <2>3. Len(p[2]) = EndAt(pat, 2) - EndAt(pat, 2 - 1) - 1 /\ p[2] \in Seq(STRING)
    BY <1>1, <2>2 DEF LabelsOK
  <2> QED BY <1>1, <1>2, <1>4, <2>1, <2>2, <2>3
<1> HIDE DEF p, e
<1>6. ASSUME IsWild(pat) PROVE WildLabels(p)
  <2>1. Len(pat) > 2 /\ pat[1] = "*" /\ pat[2] = "."
    BY <1>6 DEF IsWild
  <2>2. e = 2
    <3>1. e <= 2
      BY <1>1, <1>4, <2>1
    <3>2. e # 1
      BY <1>1, <1>4, <2>1
    <3> QED BY <1>4, <3>1, <3>2
  <2>3. p[1] = <<"*">>
    BY <1>3, <2>1, <2>2
  <2>4. Len(p) > 1
    BY <1>3, <1>4, <2>1, <2>2, <1>1
  <2>5. ASSUME Tail(p) = <<<<>>>> PROVE FALSE
    <3>1. \A x : Tail(p) = <<x>> => Len(p) = 2 /\ p[2] = x
      BY <1>3, <2>4, TailIs
    <3>2. p[2] = <<>> /\ Count(pat) = 2
      BY <1>3, <2>5, <3>1
    <3>3. Len(p[2]) = Len(pat) - 2
      BY <1>5, <2>2, <3>2
    <3>4. Len(p[2]) = 0
      BY <3>2
    <3>5. Len(pat) - 2 = 0
      BY <3>3, <3>4
    <3> DEFINE l == Len(pat)
    <3>6. l - 2 = 0 /\ l \in Nat /\ l > 2
      BY <1>1, <2>1, <3>5
    <3> HIDE DEF l
    <3> QED BY <3>6
  <2> QED BY <2>3, <2>4, <2>5 DEF WildLabels
<1>7. ASSUME WildLabels(p) PROVE IsWild(pat)
  <2>1. p[1] = <<"*">> /\ Len(p) > 1 /\ Tail(p) # <<<<>>>>
    BY <1>7 DEF WildLabels
  <2>2. e = 2
    <3>1. Len(p[1]) = 1
      BY <2>1
    <3>2. e - 1 = 1
      BY <1>3, <3>1
    <3>3. e \in Nat
      BY <1>1, <1>4
    <3> QED BY <3>2, <3>3
  <2>3. 2 <= Len(pat) /\ pat[1] = "*" /\ pat[2] = "."
    <3>1. e <= Len(pat)
      BY <1>3, <1>4, <2>1
    <3>2. p[1][1] = pat[1] /\ p[1][1] = "*"
      BY <1>3, <2>1, <2>2
    <3> QED BY <1>4, <2>2, <3>1, <3>2
  <2>4. Len(pat) # 2
    <3> SUFFICES ASSUME Len(pat) = 2 PROVE FALSE
      OBVIOUS
    <3>1. Count(pat) = 2
      <4> SUFFICES ASSUME Count(pat) > 2 PROVE FALSE
        BY <1>2, <1>3, <2>1
      <4>1. /\ 2 \in 0 .. Count(pat) /\ 1 \in 0 .. Count(pat) /\ Count(pat) \in 0 .. Count(pat)
        BY <1>2
      <4>2. EndAt(pat, 1) < EndAt(pat, 2) /\ EndAt(pat, 2) < EndAt(pat, Count(pat))
        BY <1>1, <4>1 DEF EndsOK
      <4>3. EndAt(pat, 2) \in 0 .. Len(pat) + 1
        BY <1>1, <4>1 DEF EndsOK
      <4> QED BY <1>2, <2>2, <4>2, <4>3 DEF e
    <3>2. Len(p[2]) = 0 /\ p[2] \in Seq(STRING)
      BY <1>5, <2>2, <3>1
    <3>3. p[2] = <<>>
      BY <3>2
    <3>4. Tail(p) = <<p[2]>>
      <4>1. Len(p) = 2 /\ Len(p) > 1
        BY <1>3, <2>1, <3>1
      <4> QED BY <1>3, <4>1, TailIs, Zenon
    <3> QED BY <2>1, <3>3, <3>4
  <2> QED BY <1>1, <2>3, <2>4 DEF IsWild
<1> QED BY <1>6, <1>7 DEF p

(* Behind a wildcard: the rest of the pattern is the host from its first dot. *)
LEMMA WildMatch ==
    ASSUME NEW pat \in Seq(STRING), NEW host \in Seq(STRING), IsWild(pat)
    PROVE  (\E k \in 2 .. Len(host) :
               /\ host[k] = "." /\ \A j \in 1 .. k - 1 : host[j] # "."
               /\ DnsCaseEq(Tail(pat), SubSeq(host, k, Len(host))))
           <=> /\ Len(Labels(pat)) = Len(Labels(host))
               /\ \A j \in 2 .. Len(Labels(pat)) : DnsCaseEq(Labels(pat)[j], Labels(host)[j])
               /\ EndAt(host, 1) > 1
<1> DEFINE e == EndAt(host, 1)
           Suffix(k) == DnsCaseEq(Tail(pat), SubSeq(host, k, Len(host)))
<1>1. EndsOK(pat) /\ EndsOK(host) /\ LabelsOK(pat) /\ LabelsOK(host)
  BY EndsAre, LabelsAre
<1>2. Len(pat) \in Nat /\ Len(host) \in Nat /\ Len(pat) > 2 /\ pat[1] = "*" /\ pat[2] = "."
  BY DEF IsWild
<1>3. Len(Labels(pat)) = Count(pat) /\ Len(Labels(host)) = Count(host)
         /\ Count(pat) \in Nat /\ Count(host) \in Nat /\ Count(host) >= 1
  BY <1>1 DEF LabelsOK, EndsOK
<1>4. EndAt(pat, 1) = 2 /\ Count(pat) > 1
  <2>1. EndAt(pat, 1) \in 1 .. Len(pat) + 1 /\ EndAt(pat, 1) <= 2
    BY <1>2, FirstEnd
  <2>2. pat[EndAt(pat, 1)] = "." /\ Count(pat) > 1
    BY <1>2, <2>1, FirstEnd
  <2>3. EndAt(pat, 1) # 1
    BY <1>2, <2>2
  <2> QED BY <1>2, <2>1, <2>2, <2>3
<1>5. /\ e \in 1 .. Len(host) + 1
      /\ \A x \in 1 .. Len(host) : host[x] = "." => e <= x
      /\ e <= Len(host) <=> Count(host) > 1
      /\ e <= Len(host) => host[e] = "."
  BY FirstEnd
<1>6. SameLabels(pat, host, 1) <=>
         /\ Len(Labels(pat)) = Len(Labels(host))
         /\ \A j \in 2 .. Len(Labels(pat)) : DnsCaseEq(Labels(pat)[j], Labels(host)[j])
  <2>1. 1 + 1 = 2
    OBVIOUS
  <2> QED BY <1>3, <2>1 DEF SameLabels
<1>7. ASSUME e <= Len(host) PROVE SameText(pat, host, 1) <=> SameLabels(pat, host, 1)
  <2>1. TwoNames(pat, host, 1)
    BY <1>3, <1>4, <1>5, <1>7 DEF TwoNames
  <2> QED BY <2>1, TextIsLabels, LabelsAreText
<1>8. ASSUME e <= Len(host) PROVE Suffix(e) <=> SameText(pat, host, 1)
  <2> DEFINE a == Tail(pat)
             b == SubSeq(host, e, Len(host))
  <2>1. /\ a \in Seq(STRING) /\ Len(a) = Len(pat) - 1
        /\ \A x \in 1 .. Len(pat) - 1 : a[x] = pat[x + 1]
    BY <1>2
  <2>2. Len(b) = Len(host) - e + 1 /\ \A x \in 1 .. Len(host) - e + 1 : b[x] = host[e + x - 1]
    BY SMTT(60), <1>2, <1>5, <1>8
  <2>3. DOMAIN a = 1 .. Len(pat) - 1
    BY <2>1
  <2>4. SameText(pat, host, 1) <=>
           /\ Len(pat) - 2 = Len(host) - e
           /\ \A x \in 1 .. Len(pat) - 2 : AsciiLower(pat[2 + x]) = AsciiLower(host[e + x])
    BY <1>4 DEF SameText
  <2>5. DnsCaseEq(a, b) <=>
           /\ Len(pat) - 1 = Len(host) - e + 1
           /\ \A x \in 1 .. Len(pat) - 1 : AsciiLower(a[x]) = AsciiLower(b[x])
    BY <2>1, <2>2, <2>3 DEF DnsCaseEq
  <2> HIDE DEF a, b, e
  <2>6. Len(pat) - 1 = Len(host) - e + 1 <=> Len(pat) - 2 = Len(host) - e
    BY <1>2, <1>5
  <2>7. ASSUME Len(pat) - 2 = Len(host) - e
        PROVE  (\A x \in 1 .. Len(pat) - 1 : AsciiLower(a[x]) = AsciiLower(b[x])) <=>
               \A x \in 1 .. Len(pat) - 2 : AsciiLower(pat[2 + x]) = AsciiLower(host[e + x])
    <3>1. 1 \in 1 .. Len(pat) - 1 /\ 1 \in 1 .. Len(host) - e + 1 /\ e + 1 - 1 = e /\ 1 + 1 = 2
      BY <1>2, <1>5, <2>7
    <3>2. a[1] = pat[2] /\ b[1] = host[e]
      BY <2>1, <2>2, <3>1
    <3>3. AsciiLower(a[1]) = AsciiLower(b[1])
      BY <1>2, <1>5, <1>8, <3>2
    <3>4. ASSUME NEW x \in 1 .. Len(pat) - 2
          PROVE  /\ x + 1 \in 1 .. Len(pat) - 1
                 /\ a[x + 1] = pat[2 + x] /\ b[x + 1] = host[e + x]
      <4>1. /\ x + 1 \in 1 .. Len(pat) - 1 /\ x + 1 \in 1 .. Len(host) - e + 1
            /\ (x + 1) + 1 = 2 + x /\ e + (x + 1) - 1 = e + x
        BY <1>2, <1>5, <2>7
      <4>2. a[x + 1] = pat[(x + 1) + 1] /\ b[x + 1] = host[e + (x + 1) - 1]
        BY <2>1, <2>2, <4>1
      <4> QED BY <4>1, <4>2
    <3>5. ASSUME NEW x \in 1 .. Len(pat) - 1, x # 1
          PROVE  \E y \in 1 .. Len(pat) - 2 : x = y + 1
      <4>1. x - 1 \in 1 .. Len(pat) - 2 /\ x = (x - 1) + 1
        BY <1>2, <3>5
      <4> QED BY <4>1
    <3>6. ASSUME \A x \in 1 .. Len(pat) - 1 : AsciiLower(a[x]) = AsciiLower(b[x]),
                 NEW x \in 1 .. Len(pat) - 2
          PROVE  AsciiLower(pat[2 + x]) = AsciiLower(host[e + x])
      BY <3>4, <3>6, Zenon
    <3>7. ASSUME \A x \in 1 .. Len(pat) - 2 : AsciiLower(pat[2 + x]) = AsciiLower(host[e + x]),
                 NEW x \in 1 .. Len(pat) - 1
          PROVE  AsciiLower(a[x]) = AsciiLower(b[x])
      <4>1. CASE x = 1
        BY <3>3, <4>1
      <4>2. CASE x # 1
        <5>1. PICK y \in 1 .. Len(pat) - 2 : x = y + 1
          BY <3>5, <4>2
        <5> QED BY <3>4, <3>7, <5>1, Zenon
      <4> QED BY <4>1, <4>2
    <3> QED BY <3>6, <3>7, Zenon
  <2>8. DnsCaseEq(a, b) <=> SameText(pat, host, 1)
    BY <2>4, <2>5, <2>6, <2>7, Zenon
  <2> QED BY <2>8 DEF a, b, e
<1> HIDE DEF Suffix
<1>9. ASSUME NEW k \in 2 .. Len(host), host[k] = ".", \A j \in 1 .. k - 1 : host[j] # "."
      PROVE  k = e
  <2>1. e <= k /\ e <= Len(host) /\ host[e] = "."
    BY <1>2, <1>5, <1>9
  <2> HIDE DEF e
  <2>2. ~(e < k)
    BY <1>2, <1>5, <1>9, <2>1
  <2> QED BY <1>2, <1>5, <2>1, <2>2
<1>10. ASSUME e <= Len(host), e > 1
       PROVE  e \in 2 .. Len(host) /\ host[e] = "." /\ \A j \in 1 .. e - 1 : host[j] # "."
  <2> HIDE DEF e
  <2> QED BY <1>2, <1>5, <1>10
<1>11. (\E k \in 2 .. Len(host) :
           host[k] = "." /\ (\A j \in 1 .. k - 1 : host[j] # ".") /\ Suffix(k))
       <=> e <= Len(host) /\ e > 1 /\ Suffix(e)
  <2>1. ASSUME NEW k \in 2 .. Len(host), host[k] = ".", \A j \in 1 .. k - 1 : host[j] # ".",
               Suffix(k)
        PROVE  e <= Len(host) /\ e > 1 /\ Suffix(e)
    <3>1. k = e
      BY <1>9, <2>1
    <3>2. k <= Len(host) /\ k > 1
      BY <1>2
    <3> QED BY <2>1, <3>1, <3>2
  <2> QED BY <1>10, <2>1, Zenon
<1>12. Len(Labels(pat)) = Len(Labels(host)) => e <= Len(host)
  BY <1>3, <1>4, <1>5
<1>13. (e <= Len(host) /\ e > 1 /\ Suffix(e)) <=> (SameLabels(pat, host, 1) /\ e > 1)
  <2>1. SameLabels(pat, host, 1) => e <= Len(host)
    BY <1>6, <1>12
  <2> QED BY <1>7, <1>8, <2>1, Zenon
<1> QED BY <1>6, <1>11, <1>13, Zenon DEF Suffix

(* wn_DnsNameMatch is the comparison label by label, with a wildcard for the
   whole of the first. *)
LEMMA MatchIsRef ==
    ASSUME NEW pat \in Seq(STRING), NEW host \in Seq(STRING)
    PROVE  DnsNameMatch(pat, host) <=> RefMatch(pat, host)
<1> DEFINE p == Labels(pat)
           h == Labels(host)
<1>1. LabelsOK(pat) /\ LabelsOK(host) /\ EndsOK(pat) /\ EndsOK(host)
  BY LabelsAre, EndsAre
<1>2. /\ Len(p) \in Nat /\ Len(p) >= 1 /\ Len(h) \in Nat /\ Len(h) >= 1
      /\ h[1] \in Seq(STRING) /\ Len(h[1]) = EndAt(host, 1) - 1
  <2>1. 1 \in 1 .. Count(host) /\ 1 - 1 = 0 /\ EndAt(host, 0) = 0 /\ EndAt(host, 1) \in Nat
    BY <1>1, FirstEnd DEF EndsOK, EndAt
  <2>2. h[1] \in Seq(STRING) /\ Len(h[1]) = EndAt(host, 1) - EndAt(host, 1 - 1) - 1
    BY <1>1, <2>1 DEF LabelsOK
  <2> QED BY <1>1, <2>1, <2>2 DEF LabelsOK, EndsOK
<1>3. h[1] # <<>> <=> EndAt(host, 1) > 1
  <2>1. EndAt(host, 1) \in Nat
    BY FirstEnd
  <2>2. h[1] # <<>> <=> Len(h[1]) # 0
    BY <1>2, EmptySeq, Zenon
  <2>3. Len(h[1]) \in Nat
    BY <1>2
  <2> DEFINE u == EndAt(host, 1)
             v == Len(h[1])
  <2>4. u \in Nat /\ v \in Nat /\ v = u - 1
    BY <1>2, <2>1, <2>3
  <2> HIDE DEF u, v
  <2>5. v # 0 <=> u > 1
    BY <2>4
  <2> QED BY <2>2, <2>5, Zenon DEF u, v
<1>4. RefMatch(pat, host) <=>
         /\ pat # <<>> /\ host # <<>> /\ Len(p) = Len(h)
         /\ \A j \in 2 .. Len(p) : DnsCaseEq(p[j], h[j])
         /\ IF WildLabels(p) THEN h[1] # <<>> ELSE DnsCaseEq(p[1], h[1])
  BY DEF RefMatch, SameLabel, WildLabels
<1>5. IsWild(pat) <=> WildLabels(p)
  BY WildIsLabels
<1>6. ASSUME IsWild(pat) PROVE DnsNameMatch(pat, host) <=> RefMatch(pat, host)
  <2>1. DnsNameMatch(pat, host) <=>
           /\ pat # <<>> /\ host # <<>>
           /\ \E k \in 2 .. Len(host) :
                 /\ host[k] = "." /\ \A j \in 1 .. k - 1 : host[j] # "."
                 /\ DnsCaseEq(Tail(pat), SubSeq(host, k, Len(host)))
    BY <1>6 DEF DnsNameMatch, IsWild
  <2>2. RefMatch(pat, host) <=>
           /\ pat # <<>> /\ host # <<>> /\ Len(p) = Len(h)
           /\ \A j \in 2 .. Len(p) : DnsCaseEq(p[j], h[j])
           /\ EndAt(host, 1) > 1
    BY <1>3, <1>4, <1>5, <1>6, Zenon
  <2> QED BY <1>6, <2>1, <2>2, WildMatch, Zenon
<1>7. ASSUME ~IsWild(pat) PROVE DnsNameMatch(pat, host) <=> RefMatch(pat, host)
  <2>1. DnsNameMatch(pat, host) <=> pat # <<>> /\ host # <<>> /\ DnsCaseEq(pat, host)
    BY <1>7 DEF DnsNameMatch, IsWild
  <2>2. \A j : j \in 1 .. Len(p) <=> (j = 1 \/ j \in 2 .. Len(p))
    BY <1>2
  <2>3. DnsCaseEq(pat, host) <=>
           Len(p) = Len(h) /\ DnsCaseEq(p[1], h[1])
             /\ \A j \in 2 .. Len(p) : DnsCaseEq(p[j], h[j])
    BY <2>2, WholeNames, Zenon
  <2> QED BY <1>4, <1>5, <1>7, <2>1, <2>3, Zenon
<1> QED BY <1>6, <1>7

-----------------------------------------------------------------------------
(* The names of a leaf, and the caller's. *)
WantOK == want.serverName \in Seq(Seq(STRING)) /\ Len(want.serverName) <= 1

LEMMA NamesAreRef ==
    ASSUME NEW leaf \in Certificate, NEW host \in Seq(STRING)
    PROVE  CheckServerName(leaf, host) <=>
               LET dns == {a.name : a \in {b \in ToSet(leaf.altNames) : b.type = "DNS"}}
                   names == IF dns # {} THEN dns ELSE ToSet(leaf.subjectCN)
               IN \E nm \in names : RefMatch(nm, host)
<1> DEFINE alt == leaf.altNames
           cn == leaf.subjectCN
           is == {x \in DOMAIN alt : alt[x].type = "DNS"}
           dns == {a.name : a \in {b \in ToSet(alt) : b.type = "DNS"}}
<1>1. /\ alt \in Seq([type: {"DNS", "IP"}, name: Seq(STRING)])
      /\ cn \in Seq(Seq(STRING))
  BY DEF Certificate
<1> HIDE DEF alt, cn
<1>2. ToSet(alt) = {alt[x] : x \in DOMAIN alt} /\ ToSet(cn) = {cn[x] : x \in DOMAIN cn}
  BY DEF ToSet
<1>3. ASSUME NEW x \in DOMAIN alt PROVE alt[x].name \in Seq(STRING)
  <2> DEFINE S == [type: {"DNS", "IP"}, name: Seq(STRING)]
  <2>1. alt \in Seq(S)
    BY <1>1
  <2> HIDE DEF S
  <2>2. alt[x] \in S
    BY <2>1
  <2> QED BY <2>2 DEF S
<1>4. ASSUME NEW x \in DOMAIN cn PROVE cn[x] \in Seq(STRING)
  BY <1>1
<1>5. dns = {alt[x].name : x \in is}
  BY <1>2, ZenonT(60)
<1>6. dns = {} <=> is = {}
  BY <1>5, Zenon
<1>7. (\E x \in is : DnsNameMatch(alt[x].name, host)) <=> \E nm \in dns : RefMatch(nm, host)
  <2>1. \A x \in is : DnsNameMatch(alt[x].name, host) <=> RefMatch(alt[x].name, host)
    BY <1>3, MatchIsRef
  <2> QED BY <1>5, <2>1, Zenon
<1>8. (\E x \in DOMAIN cn : DnsNameMatch(cn[x], host)) <=> \E nm \in ToSet(cn) : RefMatch(nm, host)
  <2>1. \A x \in DOMAIN cn : DnsNameMatch(cn[x], host) <=> RefMatch(cn[x], host)
    BY <1>4, MatchIsRef
  <2> QED BY <1>2, <2>1, Zenon
<1>9. CheckServerName(leaf, host) <=>
         \/ \E x \in is : DnsNameMatch(alt[x].name, host)
         \/ is = {} /\ \E x \in DOMAIN cn : DnsNameMatch(cn[x], host)
  BY DEF CheckServerName, alt, cn
<1> HIDE DEF dns, is
<1>10. CheckServerName(leaf, host) <=> \E nm \in IF dns # {} THEN dns ELSE ToSet(cn) : RefMatch(nm, host)
  <2>1. CASE is = {}
    BY <1>6, <1>7, <1>8, <1>9, <2>1
  <2>2. CASE is # {}
    BY <1>6, <1>7, <1>8, <1>9, <2>2
  <2> QED BY <2>1, <2>2
<1> QED BY <1>10, Zenon DEF dns, alt, cn

(* The leaf passes exactly when it is what the caller asked for. *)
LEMMA IdentityIsWanted ==
    ASSUME NEW leaf \in Certificate, WantOK
    PROVE  Identity(leaf) = "SUCCESS" <=> IsWanted(leaf)
<1> DEFINE Named == LET dns == {a.name : a \in {b \in ToSet(leaf.altNames) : b.type = "DNS"}}
                        names == IF dns # {} THEN dns ELSE ToSet(leaf.subjectCN)
                    IN \E nm \in names : RefMatch(nm, want.serverName[1])
<1>1. IsWanted(leaf) <=> /\ want.pinnedKey = "NULL" \/ want.pinnedKey = leaf.key
                         /\ want.serverName = <<>> \/ (HasHostname /\ Named)
  BY Zenon DEF IsWanted
<1>2. ASSUME want.serverName # <<>>
      PROVE  CheckServerName(leaf, want.serverName[1]) <=> Named
  <2> DEFINE s == want.serverName
  <2>1. s \in Seq(Seq(STRING)) /\ s # <<>>
    BY <1>2 DEF WantOK
  <2> HIDE DEF s
  <2>2. s[1] \in Seq(STRING)
    BY <2>1
  <2>3. want.serverName[1] \in Seq(STRING)
    BY <2>2 DEF s
  <2> QED BY <2>3, NamesAreRef, Zenon
<1> HIDE DEF Named
<1>3. Identity(leaf) = "SUCCESS" <=>
         /\ want.pinnedKey = "NULL" \/ want.pinnedKey = leaf.key
         /\ want.serverName = <<>> \/ (HasHostname /\ CheckServerName(leaf, want.serverName[1]))
  BY DEF Identity, CheckKeyPin
<1> QED BY <1>1, <1>2, <1>3, Zenon

-----------------------------------------------------------------------------
(***************************************************************************)
(* The inductive invariant.  LinksOK is about the loop over the links: all *)
(* links before i hold.  LeafOK is what CheckLeaf has found; RefusedOK is  *)
(* that a refusal has its reason; CvOK is how far wn_CertVerify has come   *)
(* with the key of the leaf.                                               *)
(***************************************************************************)
GivenOK ==
    /\ presented \in Seq(Certificate)
    /\ Compiles(build) /\ "X509" \in build.sel
    /\ WantOK

Issuer(m) == IF m = n THEN Anchor ELSE certs[m + 1]
LinkOK(m) == LinkHolds(certs[m], Issuer(m), m = n)

CvStages == {"cv", "init", "decode", "curve", "verify", "free", "done"}

LinksOK ==
    /\ i \in 0 .. n
    /\ \A m \in 1 .. i : LinkOK(m)
    /\ pc = "call" => i = 0
    /\ pc = "links" => i < n
    /\ pc \in {"leaf"} \cup CvStages => i = n /\ n >= 1

LeafOK ==
    pc \in CvStages =>
        /\ spki = [key |-> presented[1].key, kind |-> presented[1].kind]
        /\ TimeValid(presented[1]) /\ UsageOk(presented[1])
        /\ AsksForOne /\ IsWanted(presented[1])

(* Nobody is refused who has sent a proper path. *)
RefusedOK ==
    /\ pc \in {"links", "leaf"} => AsksForOne
    /\ pc = "refused" => ~ProperCase

(* The checks of CertificateVerify come one after the other. *)
Verified ==
    /\ Decodes /\ OnCurve
    /\ sig = [by |-> spki.key, hash |-> HashOf[scheme], content |-> Tbs]

CvOK ==
    /\ pc \in {"call", "links", "leaf", "cv", "refused", "init", "decode", "curve", "verify",
               "free", "done"}
    /\ pc \in {"call", "links", "leaf", "cv", "refused", "init"} => key = "none"
    /\ key \in {"none", "init", "freed"} /\ (pc = "done" => key # "init")
    /\ pc \in {"init", "decode", "curve", "verify", "free"} => scheme \in AcceptedSchemes(build)
    /\ (pc = "done" /\ scheme \notin AcceptedSchemes(build)) => ret = "E_UNSUPPORTED"
    /\ pc \in {"call", "links", "leaf", "cv", "init", "decode", "curve", "verify"} =>
          ret = "SUCCESS"
    /\ pc \in {"curve", "verify"} => Decodes
    /\ pc = "verify" => OnCurve
    /\ (pc \in {"free", "done"} /\ ret = "SUCCESS") => Verified
    /\ (pc \in {"free", "done"} /\ ret \notin {"SUCCESS", "E_CRYPTO"}
            /\ scheme \in AcceptedSchemes(build)) => ~Verified

CertInv == GivenOK /\ LinksOK /\ LeafOK /\ RefusedOK /\ CvOK

-----------------------------------------------------------------------------
(* The array has the first certificates of the list. *)
LEMMA CertsAre ==
    ASSUME presented \in Seq(Certificate)
    PROVE  /\ n \in Nat /\ n <= Len(presented)
           /\ n >= 1 => Len(presented) >= 1
           /\ \A m \in 1 .. n : certs[m] = presented[m] /\ certs[m] \in ToSet(presented)
<1> DEFINE top == IF Len(presented) < MaxChain THEN Len(presented) ELSE MaxChain
<1>1. top \in 0 .. Len(presented)
  BY ChainAssumption
<1>2. certs = SubSeq(presented, 1, top)
  BY DEF certs
<1> HIDE DEF top
<1>3. Len(certs) = top /\ \A m \in 1 .. top : certs[m] = presented[m]
  BY <1>1, <1>2
<1>4. \A m \in 1 .. top : presented[m] \in ToSet(presented)
  BY <1>1 DEF ToSet
<1> QED BY <1>1, <1>3, <1>4 DEF n

(* If every link of the array holds, the issuer of the leaf is one the anchor
   vouches for: the keys of the array belong to every closed set, from the last
   certificate to the first. *)
LEMMA LinksVouch ==
    ASSUME presented \in Seq(Certificate), n >= 1, \A m \in 1 .. n : LinkOK(m)
    PROVE  presented[1].signer \in Vouched
<1> DEFINE all == {Anchor.key} \cup {x.key : x \in ToSet(presented)}
<1> USE CertsAre
<1>1. n \in Nat /\ n >= 1
  OBVIOUS
<1>2. \A m \in 1 .. n : certs[m].signer = Issuer(m).key
  BY DEF LinkOK, LinkHolds
<1>3. certs[n].signer = Anchor.key
  BY <1>1, <1>2 DEF Issuer
<1>4. ASSUME NEW m \in 1 .. n, m # n
      PROVE  /\ m + 1 \in 1 .. n
             /\ certs[m].signer = certs[m + 1].key
             /\ certs[m + 1].isCA /\ (certs[m + 1] = Anchor \/ TimeValid(certs[m + 1]))
             /\ certs[m + 1] \in ToSet(presented)
  <2>1. LinkHolds(certs[m], certs[m + 1], FALSE)
    BY <1>4 DEF LinkOK, Issuer
  <2>2. m + 1 \in 1 .. n
    BY <1>1, <1>4
  <2> QED BY <2>1, <2>2 DEF LinkHolds
<1>5. presented[1].signer \in all
  <2>1. presented[1] = certs[1]
    BY <1>1
  <2>2. CASE n = 1
    BY <2>1, <2>2, <1>3
  <2>3. CASE n # 1
    <3>1. certs[1].signer = certs[1 + 1].key /\ certs[1 + 1] \in ToSet(presented)
      BY <1>1, <1>4, <2>3
    <3> QED BY <2>1, <3>1
  <2> QED BY <2>2, <2>3
<1>6. ASSUME NEW Keys \in SUBSET all, Closed(Keys)
      PROVE  presented[1].signer \in Keys
  <2> DEFINE T == {d \in Nat : d < n => certs[n - d].signer \in Keys}
  <2>1. 0 \in T
    BY <1>1, <1>3, <1>6 DEF Closed
  <2>2. ASSUME NEW d \in Nat, d \in T PROVE d + 1 \in T
    <3> SUFFICES ASSUME d + 1 < n PROVE certs[n - (d + 1)].signer \in Keys
      BY <2>2
    <3> DEFINE m == n - (d + 1)
    <3>1. m \in 1 .. n /\ m # n /\ m + 1 = n - d /\ d < n
      BY <1>1
    <3>2. certs[m + 1].signer \in Keys
      BY <2>2, <3>1
    <3> HIDE DEF m
    <3>3. certs[m + 1].key \in Keys
      BY <1>4, <1>6, <3>1, <3>2 DEF Closed
    <3>4. certs[m].signer \in Keys
      BY <1>4, <3>1, <3>3
    <3> QED BY <3>4 DEF m
  <2> HIDE DEF T
  <2>3. \A d \in Nat : d \in T
    BY <2>1, <2>2, SetInduction
  <2>4. n - 1 \in T /\ n - 1 \in Nat
    BY <1>1, <2>3
  <2> QED BY <1>1, <2>4 DEF T
<1> QED BY <1>5, <1>6 DEF Vouched

-----------------------------------------------------------------------------
LEMMA CertInvInit == Init => CertInv
<1> SUFFICES ASSUME Init PROVE CertInv
  OBVIOUS
<1>1. GivenOK
  BY ChainAssumption DEF Init, ChainInit, GivenOK, WantOK
<1>2. n \in Nat
  BY <1>1, CertsAre DEF GivenOK
<1> QED BY <1>1, <1>2 DEF Init, ChainInit, CertInv, LinksOK, LeafOK, RefusedOK, CvOK, CvStages

(* What is given stays, and what is said of it. *)
LEMMA GivenKept ==
    ASSUME GivenOK, UNCHANGED given
    PROVE  /\ GivenOK' /\ certs' = certs /\ n' = n
           /\ \A m : LinkOK(m)' = LinkOK(m)
           /\ AcceptedSchemes(build)' = AcceptedSchemes(build)
           /\ \A x : TimeValid(x)' = TimeValid(x)
           /\ AsksForOne' = AsksForOne /\ ProperCase' = ProperCase
           /\ \A x : IsWanted(x)' = IsWanted(x) /\ UsageOk(x)' = UsageOk(x)
<1>1. build' = build /\ presented' = presented /\ now' = now /\ want' = want
  BY DEF given
<1>2. certs' = certs /\ n' = n
  BY <1>1 DEF certs, n
<1>3. \A x : TimeValid(x)' = TimeValid(x)
  BY <1>1 DEF TimeValid, HasTime
<1>4. ASSUME NEW m PROVE LinkOK(m)' = LinkOK(m)
  BY <1>2, <1>3 DEF LinkOK, LinkHolds, Issuer
<1>5. AsksForOne' = AsksForOne /\ \A x : UsageOk(x)' = UsageOk(x)
  BY <1>1 DEF AsksForOne, UsageOk
<1>6. ASSUME NEW x PROVE IsWanted(x)' = IsWanted(x)
  BY <1>1 DEF IsWanted, HasHostname
<1>7. ProperCase' = ProperCase
  <2>1. ProperPath(presented)' = ProperPath(presented) /\ FitsArray' = FitsArray
    BY <1>1, <1>3 DEF ProperPath, FitsArray
  <2> QED BY <1>1, <1>3, <1>5, <1>6, <2>1 DEF ProperCase
<1>8. GivenOK' /\ AcceptedSchemes(build)' = AcceptedSchemes(build)
  BY <1>1 DEF GivenOK, WantOK
<1> QED BY <1>2, <1>3, <1>4, <1>5, <1>6, <1>7, <1>8

(* In a proper path that fits every link of the array holds. *)
LEMMA ProperLinks ==
    ASSUME presented \in Seq(Certificate), ProperPath(presented), FitsArray
    PROVE  n >= 1 /\ \A m \in 1 .. n : LinkOK(m)
<1> DEFINE l == Len(presented)
<1>1. l \in Nat /\ l >= 1 /\ DOMAIN presented = 1 .. l /\ Last(presented) = presented[l]
  BY DEF ProperPath, Last
<1>2. n = IF l < MaxChain THEN l ELSE MaxChain
  BY <1>1, ChainAssumption DEF n, certs
<1>3. n \in 1 .. l /\ MaxChain \in Nat \ {0}
  BY <1>1, <1>2, ChainAssumption
<1>4. \A m \in 1 .. n : certs[m] = presented[m]
  BY CertsAre
<1>5. \/ l = n
      \/ l = n + 1 /\ presented[l] = Anchor
  <2>1. \/ l <= MaxChain
        \/ l = MaxChain + 1 /\ presented[l] = Anchor
    BY <1>1 DEF FitsArray
  <2> HIDE DEF l
  <2>2. CASE l <= MaxChain
    BY <1>1, <1>2, <1>3, <2>2
  <2>3. CASE l = MaxChain + 1 /\ presented[l] = Anchor
    BY <1>1, <1>2, <1>3, <2>3
  <2> QED BY <2>1, <2>2, <2>3
<1>6. /\ Anchor.parses /\ \A k \in 1 .. l : presented[k].parses
      /\ \A k \in 1 .. l - 1 :
            /\ presented[k].signer = presented[k + 1].key
            /\ presented[k + 1].isCA
            /\ presented[k + 1] = Anchor \/ TimeValid(presented[k + 1])
      /\ presented[l].signer = Anchor.key
  BY <1>1 DEF ProperPath
<1> HIDE DEF l
<1>7. ASSUME NEW m \in 1 .. n PROVE LinkOK(m)
  <2>1. CASE m = n
    <3>1. presented[m].signer = Anchor.key
      <4>1. CASE l = n
        BY <1>6, <2>1, <4>1
      <4>2. CASE l = n + 1 /\ presented[l] = Anchor
        <5>1. m \in 1 .. l - 1 /\ m + 1 = l
          BY <1>1, <1>3, <2>1, <4>2
        <5>2. presented[m].signer = presented[m + 1].key
          BY <1>6, <5>1
        <5> QED BY <4>2, <5>1, <5>2
      <4> QED BY <1>5, <4>1, <4>2
    <3> QED BY <1>4, <1>6, <2>1, <3>1 DEF LinkOK, LinkHolds, Issuer
  <2>2. CASE m # n
    <3>1. m \in 1 .. l - 1 /\ m + 1 \in 1 .. l /\ m + 1 \in 1 .. n
      BY <1>1, <1>3, <2>2
    <3>2. /\ presented[m].signer = presented[m + 1].key
          /\ presented[m + 1].isCA /\ presented[m + 1].parses
          /\ presented[m + 1] = Anchor \/ TimeValid(presented[m + 1])
      BY <1>6, <3>1
    <3>3. certs[m] = presented[m] /\ certs[m + 1] = presented[m + 1] /\ Issuer(m) = certs[m + 1]
      BY <1>4, <2>2, <3>1 DEF Issuer
    <3> QED BY <3>2, <3>3 DEF LinkOK, LinkHolds
  <2> QED BY <2>1, <2>2
<1> QED BY <1>3, <1>7

LEMMA ChainStep ==
    ASSUME CertInv, ChainNext, UNCHANGED <<scheme, sig, key>>
    PROVE  CertInv'
<1> USE DEF CertInv
<1>1. n \in Nat /\ (n >= 1 => certs[1] = presented[1])
  BY CertsAre DEF GivenOK
<1>2. CASE Call
  <2>1. UNCHANGED <<given, i, spki>>
    BY <1>2 DEF Call, Refuse
  <2>2. pc = "call" /\ i = 0 /\ pc' \in {"links", "refused"} /\ (pc' = "links" => 0 < n)
             /\ (pc' = "links" => ret' = ret)
    BY <1>1, <1>2 DEF Call, Refuse, LinksOK
  <2>3. LinksOK'
    BY <1>1, <2>1, <2>2, GivenKept DEF LinksOK, CvStages
  <2>4. RefusedOK'
    <3>1. pc' = "links" => AsksForOne
      BY <1>2 DEF Call, Refuse, AsksForOne
    <3>2. pc' = "refused" => ~ProperCase
      <4> SUFFICES ASSUME pc' = "refused", ProperCase PROVE FALSE
        OBVIOUS
      <4>1. n >= 1 /\ AsksForOne
        BY ProperLinks DEF ProperCase, GivenOK
      <4> QED BY <1>1, <1>2, <4>1 DEF Call, AsksForOne
    <3> QED BY <2>1, <2>2, <3>1, <3>2, GivenKept DEF RefusedOK
  <2> QED BY <2>1, <2>2, <2>3, <2>4, GivenKept DEF LeafOK, CvOK, CvStages
<1>3. CASE VerifyLink
  <2>1. UNCHANGED <<given, spki>> /\ pc = "links" /\ i < n /\ i \in 0 .. n
    BY <1>3 DEF VerifyLink, Refuse, LinksOK
  <2>2. CASE i' = i
    <3>1. pc' = "refused" /\ ~LinkOK(i + 1)
      BY <1>1, <1>3, <2>1, <2>2 DEF VerifyLink, Refuse, LinkOK, Issuer
    <3>2. i + 1 \in 1 .. n
      BY <1>1, <2>1
    <3>3. RefusedOK'
      BY <2>1, <3>1, <3>2, GivenKept, ProperLinks DEF RefusedOK, ProperCase, GivenOK
    <3> QED BY <1>1, <2>1, <2>2, <3>1, <3>3, GivenKept DEF LinksOK, LeafOK, CvOK, CvStages
  <2>3. CASE i' = i + 1
    <3>1. LinkOK(i + 1)
      BY <1>1, <1>3, <2>1, <2>3 DEF VerifyLink, Refuse, LinkOK, Issuer
    <3>2. \A m \in 1 .. i' : LinkOK(m)
      BY <2>1, <2>3, <3>1 DEF LinksOK
    <3>3. i' \in 0 .. n /\ (pc' = "links" => i' < n) /\ (pc' = "leaf" => i' = n)
             /\ pc' \in {"links", "leaf"} /\ ret' = ret
      BY <1>1, <1>3, <2>1, <2>3 DEF VerifyLink, Refuse
    <3> QED BY <1>1, <2>1, <3>2, <3>3, GivenKept DEF LinksOK, LeafOK, RefusedOK, CvOK, CvStages
  <2> QED BY <1>3, <2>2, <2>3 DEF VerifyLink, Refuse
<1>4. CASE CheckLeaf
  <2>1. /\ UNCHANGED <<given, i>> /\ pc = "leaf" /\ pc' \in {"cv", "refused"}
        /\ i = n /\ n >= 1 /\ (pc' = "cv" => ret' = "SUCCESS")
    BY <1>4 DEF CheckLeaf, LinksOK
  <2>2. certs[1] = presented[1]
    BY <1>1, <2>1
  <2>3. pc' = "cv" => /\ TimeValid(presented[1]) /\ UsageOk(presented[1])
                      /\ Identity(presented[1]) = "SUCCESS"
                      /\ spki' = [key |-> presented[1].key, kind |-> presented[1].kind]
    <3> SUFFICES ASSUME pc' = "cv"
                 PROVE  /\ TimeValid(presented[1]) /\ UsageOk(presented[1])
                        /\ Identity(presented[1]) = "SUCCESS"
                        /\ spki' = [key |-> presented[1].key, kind |-> presented[1].kind]
      OBVIOUS
    <3>1. ret' = "SUCCESS"
      BY <1>4 DEF CheckLeaf
    <3>2. /\ certs[1].parses /\ ~(certs[1].keySz > SpkiSz) /\ UsageOk(certs[1])
          /\ TimeValid(certs[1]) /\ Identity(certs[1]) = "SUCCESS"
      BY <1>4, <3>1 DEF CheckLeaf
    <3>3. certs[1].keySz <= SpkiSz
      <4>1. certs[1] \in Certificate
        BY <1>1, <2>1, <2>2, CertsAre DEF GivenOK
      <4> QED BY <3>2, <4>1, ChainAssumption DEF Certificate
    <3> QED BY <1>4, <2>2, <3>2, <3>3 DEF CheckLeaf
  <2>4. presented' = presented /\ presented[1] \in Certificate /\ AsksForOne
    <3>1. certs[1] \in Certificate
      BY <1>1, <2>1, <2>2, CertsAre DEF GivenOK
    <3> QED BY <2>1, <2>2, <3>1 DEF given, RefusedOK
  <2>5. Identity(presented[1]) = "SUCCESS" <=> IsWanted(presented[1])
    BY <2>4, IdentityIsWanted DEF GivenOK
  <2>6. LeafOK'
    BY <2>1, <2>3, <2>4, <2>5, GivenKept DEF LeafOK, CvStages
  <2>7. RefusedOK'
    <3> SUFFICES ASSUME pc' = "refused", ProperCase PROVE FALSE
      BY <2>1, GivenKept DEF RefusedOK
    <3>1. /\ ~(presented[1].keySz > SpkiSz) /\ presented[1].parses
          /\ UsageOk(presented[1]) /\ TimeValid(presented[1])
          /\ Identity(presented[1]) = "SUCCESS"
      <4>1. presented[1].keySz <= SpkiSz /\ presented[1].keySz \in Nat
        BY <2>4 DEF ProperCase, Certificate
      <4>2. ~(presented[1].keySz > SpkiSz)
        BY <4>1, ChainAssumption
      <4>3. presented[1].parses
        <5>1. 1 \in DOMAIN presented
          BY <1>1, <2>1, CertsAre DEF GivenOK
        <5> QED BY <5>1 DEF ProperCase, ProperPath
      <4> QED BY <2>5, <4>2, <4>3 DEF ProperCase
    <3>2. ret' = "SUCCESS"
      BY <1>4, <2>2, <3>1 DEF CheckLeaf
    <3> QED BY <1>4, <3>2 DEF CheckLeaf
  <2> QED BY <1>1, <2>1, <2>6, <2>7, GivenKept DEF LinksOK, CvOK, CvStages
<1> QED BY <1>2, <1>3, <1>4 DEF ChainNext

(* In a build that compiles the ML-DSA level is one of the three. *)
LEMMA SchemesKnown ==
    ASSUME GivenOK
    PROVE  /\ AcceptedSchemes(build) \subseteq Schemes \ {"rsa_pkcs1"}
           /\ Mldsa(build) \subseteq {"mldsa44", "mldsa65", "mldsa87"}
           /\ OfferedCert(build) \subseteq Schemes \ {"rsa_pkcs1"}
           /\ OfferedCert(build) \subseteq AcceptedSchemes(build) \cup {"ed25519"}
<1>1. Mldsa(build) \subseteq {"mldsa44", "mldsa65", "mldsa87"}
  <2>1. CASE Has(build, {"WOLFSSL_HAVE_MLDSA"})
    <3>1. "WOLFSSL_HAVE_MLDSA" \in Defined(build)
      BY <2>1 DEF Has
    <3>2. "MLDSA" \in build.sel
      BY <3>1 DEF Defined, When, CertMacros, HashMacros, CurveMacros, Ed25519Macros
    <3>3. build.mldsaLevel \in {2, 3, 5}
      BY <3>2 DEF GivenOK, Compiles, ConfigError
    <3> QED BY <3>3 DEF Mldsa, MldsaScheme
  <2> QED BY <2>1 DEF Mldsa
<1>2. RsaSchemes(build) \subseteq {"pss256", "pss384", "pss512"} /\ P384(build) \subseteq {"ecdsa384"}
  BY DEF RsaSchemes, P384
<1> QED BY <1>1, <1>2 DEF AcceptedSchemes, OfferedCert, Schemes

LEMMA CvStep ==
    ASSUME CertInv, CvNext
    PROVE  CertInv'
<1> USE DEF CertInv
<1>1. UNCHANGED <<given, i, spki>>
  BY DEF CvNext, Dispatch, InitKey, Decode, CheckCurve, Verify, Free, Then, Fail, cvGiven
<1>2. /\ pc \in CvStages /\ pc' \in CvStages /\ n \in Nat
      /\ AcceptedSchemes(build)' = AcceptedSchemes(build)
  BY <1>1, CertsAre, GivenKept DEF CvNext, Dispatch, InitKey, Decode, CheckCurve, Verify, Free,
     Then, Fail, CvStages, GivenOK
<1>3. GivenOK' /\ LinksOK'
  BY <1>1, <1>2, GivenKept DEF LinksOK, CvStages
<1>4. LeafOK' /\ RefusedOK'
  <2>1. presented' = presented
    BY <1>1 DEF given
  <2> QED BY <1>1, <1>2, <2>1, GivenKept DEF LeafOK, RefusedOK, CvStages
<1>5. ASSUME Dispatch PROVE CvOK'
  BY <1>2, <1>5 DEF Dispatch, CvOK, CvStages
<1>6. ASSUME UNCHANGED <<scheme, sig>>
      PROVE  Decodes' = Decodes /\ OnCurve' = OnCurve /\ Verified' = Verified
  BY <1>1, <1>6 DEF Decodes, OnCurve, Verified, given
<1>7. ASSUME InitKey PROVE CvOK'
  BY <1>2, <1>6, <1>7 DEF InitKey, Fail, cvGiven, CvOK, CvStages
<1>8. ASSUME Decode PROVE CvOK'
  <2>1. CASE Decodes
    BY <1>2, <1>6, <1>8, <2>1 DEF Decode, Then, cvGiven, CvOK, CvStages
  <2>2. CASE ~Decodes
    BY <1>2, <1>6, <1>8, <2>2 DEF Decode, Fail, cvGiven, CvOK, CvStages, Verified
  <2> QED BY <2>1, <2>2
<1>9. ASSUME CheckCurve PROVE CvOK'
  <2>1. CASE OnCurve
    BY <1>2, <1>6, <1>9, <2>1 DEF CheckCurve, Then, cvGiven, CvOK, CvStages
  <2>2. CASE ~OnCurve
    BY <1>2, <1>6, <1>9, <2>2 DEF CheckCurve, Fail, cvGiven, CvOK, CvStages, Verified
  <2> QED BY <2>1, <2>2
<1>10. ASSUME Verify PROVE CvOK'
  <2>1. CASE Verified
    BY <1>2, <1>6, <1>10, <2>1 DEF Verify, Then, cvGiven, CvOK, CvStages, Verified
  <2>2. CASE ~Verified
    BY <1>2, <1>6, <1>10, <2>2 DEF Verify, Fail, cvGiven, CvOK, CvStages, Verified
  <2> QED BY <2>1, <2>2
<1>11. ASSUME Free PROVE CvOK'
  BY <1>2, <1>6, <1>11 DEF Free, cvGiven, CvOK, CvStages
<1> QED BY <1>3, <1>4, <1>5, <1>7, <1>8, <1>9, <1>10, <1>11 DEF CvNext

(* The invariant holds in every state of every verification. *)
THEOREM CertInvariant == Spec => []CertInv
<1>1. Init => CertInv
  BY CertInvInit
<1>2. CertInv /\ [Next]_vars => CertInv'
  <2> SUFFICES ASSUME CertInv, [Next]_vars PROVE CertInv'
    OBVIOUS
  <2>1. CASE Next
    BY <2>1, ChainStep, CvStep DEF Next
  <2>2. CASE UNCHANGED vars
    <3>1. UNCHANGED <<given, pc, i, spki, ret, scheme, sig, key>>
      BY <2>2 DEF vars, chainVars
    <3>2. GivenOK' /\ LinksOK'
      BY <3>1, GivenKept DEF CertInv, LinksOK
    <3>3. LeafOK' /\ RefusedOK'
      <4>1. presented' = presented
        BY <3>1 DEF given
      <4> QED BY <3>1, <4>1, GivenKept DEF CertInv, LeafOK, RefusedOK
    <3>4. CvOK'
      BY <3>1 DEF CertInv, CvOK, Decodes, OnCurve, Verified, given
    <3> QED BY <3>2, <3>3, <3>4 DEF CertInv
  <2> QED BY <2>1, <2>2
<1> QED BY <1>1, <1>2, PTL DEF Spec

-----------------------------------------------------------------------------
(* A leaf that wn_VerifyChain accepts is one the anchor vouches for, in date and
   of the right usage, for every list a server may send and wherever the array
   cuts it; CertificateVerify is checked with that leaf's key. *)
THEOREM ChainIsVouched == Spec => []AcceptedIsVouched
<1>1. CertInv => AcceptedIsVouched
  <2> SUFFICES ASSUME CertInv, pc = "cv"
               PROVE  /\ presented[1].signer \in Vouched
                      /\ TimeValid(presented[1]) /\ UsageOk(presented[1])
                      /\ spki.key = presented[1].key
    BY DEF AcceptedIsVouched
  <2>1. presented[1].signer \in Vouched
    BY LinksVouch DEF CertInv, GivenOK, LinksOK, CvStages
  <2> QED BY <2>1 DEF CertInv, LeafOK, CvStages
<1> QED BY <1>1, CertInvariant, PTL

(* wn_CertVerify succeeds only on a signature over this transcript, in the role
   of the server, by the key of a leaf the anchor vouches for, with a scheme for
   that kind of key: in every build that compiles. *)
THEOREM SignatureIsBound == Spec => []VerifiedIsBound
<1>1. CertInv => VerifiedIsBound
  <2> SUFFICES ASSUME CertInv, pc = "done", ret = "SUCCESS"
               PROVE  /\ presented[1].kind = KindOf[scheme] /\ scheme # "rsa_pkcs1"
                      /\ sig = [by |-> presented[1].key, hash |-> HashOf[scheme],
                                content |-> Tbs]
                      /\ presented[1].signer \in Vouched
    BY DEF VerifiedIsBound, Done
  <2>1. presented[1].signer \in Vouched
    BY LinksVouch DEF CertInv, GivenOK, LinksOK, CvStages
  <2>2. spki = [key |-> presented[1].key, kind |-> presented[1].kind]
    BY DEF CertInv, LeafOK, CvStages
  <2>3. Verified /\ scheme \in AcceptedSchemes(build)
    BY DEF CertInv, CvOK
  <2>4. scheme \in Schemes \ {"rsa_pkcs1"}
    BY <2>3, SchemesKnown DEF CertInv
  <2>5. spki.kind = KindOf[scheme]
    BY <2>3, <2>4 DEF Verified, Decodes, OnCurve, Family, KindOf, Schemes
  <2> QED BY <2>1, <2>2, <2>3, <2>4, <2>5 DEF Verified
<1> QED BY <1>1, CertInvariant, PTL

(* The key object that wn_CertVerify initialises is freed on every way out. *)
THEOREM KeyAlwaysReleased == Spec => []KeyReleased
<1>1. CertInv => KeyReleased
  BY DEF CertInv, CvOK, KeyReleased, Done
<1> QED BY <1>1, CertInvariant, PTL

(* In every build, a server that signs by an offered scheme with a key for it is
   believed by wn_CertVerify unless a key could not be set up; except that
   Ed25519 is refused where it is offered and not compiled in. *)
THEOREM HonestVerified == Spec => []HonestIsVerified
<1>1. CertInv => HonestIsVerified
  <2> SUFFICES ASSUME CertInv, pc = "done", scheme \in OfferedCert(build),
                      presented[1].kind = KindOf[scheme],
                      sig = [by |-> presented[1].key, hash |-> HashOf[scheme], content |-> Tbs]
               PROVE  IF scheme = "ed25519" /\ ~Has(build, {"HAVE_ED25519"})
                      THEN ret = "E_UNSUPPORTED"
                      ELSE ret \in {"SUCCESS", "E_CRYPTO"}
    BY DEF HonestIsVerified, Done
  <2>1. spki = [key |-> presented[1].key, kind |-> presented[1].kind]
    BY DEF CertInv, LeafOK, CvStages
  <2>2. scheme \in Schemes \ {"rsa_pkcs1"}
    BY SchemesKnown DEF CertInv
  <2>3. ASSUME scheme = "ed25519", ~Has(build, {"HAVE_ED25519"})
        PROVE  ret = "E_UNSUPPORTED"
    <3>1. scheme \notin AcceptedSchemes(build)
      BY <2>3, SchemesKnown DEF CertInv, AcceptedSchemes, P384, RsaSchemes
    <3> QED BY <3>1 DEF CertInv, CvOK
  <2>4. ASSUME ~(scheme = "ed25519" /\ ~Has(build, {"HAVE_ED25519"})),
               ret \notin {"SUCCESS", "E_CRYPTO"}
        PROVE  FALSE
    <3>1. scheme \in AcceptedSchemes(build)
      <4>1. CASE scheme = "ed25519"
        BY <2>4, <4>1 DEF AcceptedSchemes
      <4>2. CASE scheme # "ed25519"
        BY <4>2, SchemesKnown DEF CertInv
      <4> QED BY <4>1, <4>2
    <3>2. spki.kind = KindOf[scheme]
      BY <2>1
    <3>3. OnCurve
      BY <3>2 DEF OnCurve, KindOf, Schemes
    <3>4. Decodes
      <4>1. CASE scheme = "ecdsa256"
        BY <3>2, <4>1 DEF Decodes, Family, KindOf, Schemes
      <4>2. CASE scheme = "ecdsa384"
        <5>1. spki.kind = "p384"
          BY <3>2, <4>2 DEF KindOf, Schemes
        <5>2. scheme \in P384(build)
          BY <4>2, SchemesKnown DEF CertInv, OfferedCert, RsaSchemes
        <5>3. Has(build, {"HAVE_ECC384"})
          BY <5>2 DEF P384, Has
        <5> QED BY <4>2, <5>1, <5>3 DEF Decodes, Family
      <4>3. CASE scheme \notin {"ecdsa256", "ecdsa384"}
        BY <2>2, <3>2, <4>3 DEF Decodes, Family, KindOf, Schemes
      <4> QED BY <4>1, <4>2, <4>3
    <3>5. Verified
      BY <2>1, <3>3, <3>4 DEF Verified
    <3> QED BY <3>1, <3>5, <2>4 DEF CertInv, CvOK
  <2> QED BY <2>3, <2>4
<1> QED BY <1>1, CertInvariant, PTL

(* An approved build that compiles negotiates P-256, and its certificate path
   offers approved schemes only, whatever else is selected, and none that
   wn_CertVerify cannot check.  The PSK path, which offers Ed25519 in this build
   too (wn_connect.c:186), is not part of this. *)
THEOREM FipsApproved == Spec => []FipsOffersApproved
<1>1. CertInv => FipsOffersApproved
  <2> SUFFICES ASSUME CertInv, "FIPS" \in build.sel
               PROVE  /\ DefaultGroup(build) = "SECP256R1"
                      /\ OfferedCert(build) \subseteq
                            {"ecdsa256", "ecdsa384", "pss256", "pss384", "pss512"}
                      /\ OfferedCert(build) \subseteq AcceptedSchemes(build)
    BY DEF FipsOffersApproved
  <2>1. "MLKEM_HYBRID" \notin build.sel
    BY DEF CertInv, GivenOK, Compiles, ConfigError
  <2>2. "ECDHE_P256" \in Selected(build)
    BY DEF Selected, When
  <2>3. DefaultGroup(build) = "SECP256R1"
    BY <2>1, <2>2 DEF DefaultGroup
  <2>4. OfferedCert(build) = P384(build) \cup {"ecdsa256"} \cup RsaSchemes(build)
    BY DEF OfferedCert
  <2>5. OfferedCert(build) \subseteq AcceptedSchemes(build)
    BY <2>4 DEF AcceptedSchemes
  <2> QED BY <2>3, <2>4, <2>5 DEF P384, RsaSchemes
<1> QED BY <1>1, CertInvariant, PTL

(* wn_Connect_CertName comes to a session only under the name and with the key
   the caller gave, a name being that of the leaf when it is so label by label;
   with neither never. *)
THEOREM IdentityIsBound == Spec => []IdentityBound
<1>1. CertInv => IdentityBound
  BY DEF CertInv, LeafOK, CvStages, IdentityBound
<1> QED BY <1>1, CertInvariant, PTL

(* A server that sends a proper path to the anchor is not refused, however long
   the path is as long as the array has room for all but the anchor. *)
THEOREM ProperPathIsAccepted == Spec => []ProperPathAccepted
<1>1. CertInv => ProperPathAccepted
  BY DEF CertInv, RefusedOK, ProperPathAccepted
<1> QED BY <1>1, CertInvariant, PTL
=============================================================================
