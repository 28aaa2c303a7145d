------------------------------ MODULE WnLemmas ------------------------------
(***************************************************************************)
(* Facts about natural numbers and sequences that the proofs of several    *)
(* components rest on.  Induction is stated over a set of numbers rather   *)
(* than over a predicate, so that the provers can instantiate it.          *)
(***************************************************************************)
EXTENDS SequencesExt, SequenceTheorems, WellFoundedInduction, TLAPS

(* A set that holds 0 and the successor of each of its numbers holds them  *)
(* all: otherwise take the least number that is missing.                   *)
LEMMA SetInduction ==
    ASSUME NEW T, 0 \in T, \A n \in Nat : n \in T => n + 1 \in T
    PROVE  \A n \in Nat : n \in T
<1> SUFFICES ASSUME ~(\A n \in Nat : n \in T) PROVE FALSE
  OBVIOUS
<1> DEFINE Less == {p \in Nat \X Nat : p[1] < p[2]}
           Missing == Nat \ T
<1>1. IsWellFoundedOn(Less, Nat)
  BY NatLessThanWellFounded DEF OpToRel
<1>2. Missing \subseteq Nat /\ Missing # {}
  OBVIOUS
<1>3. \E x \in Missing : \A y \in Missing : ~(<<y, x>> \in Less)
  <2> HIDE DEF Less, Missing
  <2> QED BY <1>1, <1>2, WFMin
<1>4. PICK x \in Missing : \A y \in Missing : ~(<<y, x>> \in Less)
  BY <1>3
<1>5. x # 0 /\ x \in Nat
  OBVIOUS
<1>6. x - 1 \in Nat /\ x - 1 < x
  BY <1>5
<1>7. <<x - 1, x>> \in Less
  BY <1>5, <1>6
<1>8. x - 1 \in T
  BY <1>4, <1>6, <1>7
<1> QED BY <1>5, <1>6, <1>8

(* A nonempty set of numbers has a least one. *)
LEMMA LeastNumber ==
    ASSUME NEW T, T \subseteq Nat, T # {}
    PROVE  \E x \in T : \A y \in T : x <= y
<1> DEFINE Less == {p \in Nat \X Nat : p[1] < p[2]}
<1>1. IsWellFoundedOn(Less, Nat)
  BY NatLessThanWellFounded DEF OpToRel
<1>2. \E x \in T : \A y \in T : ~(<<y, x>> \in Less)
  <2> HIDE DEF Less
  <2> QED BY <1>1, WFMin
<1>3. PICK x \in T : \A y \in T : ~(<<y, x>> \in Less)
  BY <1>2
<1>4. ASSUME NEW y \in T PROVE x <= y
  <2>1. ~(<<y, x>> \in Less)
    BY <1>3
  <2>2. x \in Nat /\ y \in Nat
    OBVIOUS
  <2> QED BY <2>1, <2>2
<1> QED BY <1>4

-----------------------------------------------------------------------------
(* Prefixes, and pieces of a sequence put together again. *)
LEMMA SubSeqFromOne ==
    ASSUME NEW S, NEW b \in Seq(S), NEW n \in 0 .. Len(b)
    PROVE  /\ SubSeq(b, 1, n) \in Seq(S)
           /\ Len(SubSeq(b, 1, n)) = n
           /\ \A p \in 1 .. n : SubSeq(b, 1, n)[p] = b[p]
OBVIOUS

LEMMA ShortSeqs ==
    ASSUME NEW S, NEW a \in S, NEW b \in S
    PROVE  {<<>>, <<a>>, <<b>>, <<a, b>>} \subseteq Seq(S)
<1>1. <<>> \in Seq(S) /\ <<a>> \in Seq(S) /\ <<b>> \in Seq(S) /\ <<a, b>> \in Seq(S)
  OBVIOUS
<1> QED BY <1>1, Zenon

LEMMA PairSeq ==
    ASSUME NEW S, NEW q \in Seq(S), Len(q) = 2
    PROVE  q = <<q[1], q[2]>>
<1>1. q[1] \in S /\ q[2] \in S
  <2>1. 1 \in 1 .. Len(q) /\ 2 \in 1 .. Len(q)
    OBVIOUS
  <2> QED BY <2>1, ElementOfSeq
<1>2. <<q[1], q[2]>> \in Seq(S)
  BY <1>1
<1> QED BY <1>2, SeqEqual

LEMMA FirstSeqs ==
    ASSUME NEW S, NEW a \in S, NEW b \in S
    PROVE  /\ Append(<<>>, a) = <<a>>
           /\ <<>> \o (<<a>> \o <<>>) = <<a>>
           /\ <<>> \o (<<a>> \o <<b>>) = <<a, b>>
           /\ <<a>> \o <<b>> = <<a, b>>
<1>1. <<>> \in Seq(S) /\ <<a>> \in Seq(S) /\ <<b>> \in Seq(S)
  OBVIOUS
<1>2. <<a>> \o <<>> = <<a>> /\ <<a>> \o <<b>> = <<a, b>>
  <2>1. <<a>> \o <<>> = <<a>>
    BY <1>1, ConcatEmptySeq
  <2>2. <<a>> \o <<b>> = Append(<<a>>, b)
    BY <1>1, AppendIsConcat
  <2>3. /\ Append(<<a>>, b) \in Seq(S) /\ Len(Append(<<a>>, b)) = Len(<<a>>) + 1
        /\ Append(<<a>>, b)[1] = a /\ Append(<<a>>, b)[2] = b
    BY <1>1, AppendProperties
  <2>4. Len(Append(<<a>>, b)) = 2
    BY <2>3
  <2>5. Append(<<a>>, b) = <<a, b>>
    BY <2>3, <2>4, PairSeq
  <2> QED BY <2>1, <2>2, <2>5
<1>3. <<a, b>> \in Seq(S)
  OBVIOUS
<1>4. <<>> \o <<a>> = <<a>> /\ <<>> \o <<a, b>> = <<a, b>>
  BY <1>1, <1>3, ConcatEmptySeq
<1>5. Append(<<>>, a) = <<a>>
  OBVIOUS
<1> QED BY <1>2, <1>4, <1>5

LEMMA SubSeqConcat ==
    ASSUME NEW S, NEW b \in Seq(S), NEW m \in 0 .. Len(b), NEW n \in m .. Len(b)
    PROVE  SubSeq(b, 1, m) \o SubSeq(b, m + 1, n) = SubSeq(b, 1, n)
<1>1. Len(b) \in Nat /\ 1 \in 1 .. Len(b) + 1
  OBVIOUS
<1>2. m \in 1 - 1 .. Len(b)
  OBVIOUS
<1> QED BY <1>1, <1>2, ConcatAdjacentSubSeq

LEMMA SubSeqPiece ==
    ASSUME NEW S, NEW b \in Seq(S), NEW m \in 0 .. Len(b), NEW n \in m .. Len(b)
    PROVE  /\ SubSeq(b, m + 1, n) \in Seq(S) /\ Len(SubSeq(b, m + 1, n)) = n - m
           /\ \A i \in 1 .. n - m : SubSeq(b, m + 1, n)[i] = b[m + i]
OBVIOUS

LEMMA RemoveAtType ==
    ASSUME NEW S, NEW q \in Seq(S), NEW i \in DOMAIN q
    PROVE  RemoveAt(q, i) \in Seq(S)
<1>1. i \in 1 .. Len(q) /\ Len(q) \in Nat
  BY LenProperties
<1>2. SubSeq(q, 1, i - 1) \in Seq(S)
  BY <1>1, SubSeqProperties, ElementOfSeq
<1>3. SubSeq(q, i + 1, Len(q)) \in Seq(S)
  BY <1>1, SubSeqProperties, ElementOfSeq
<1> QED BY <1>2, <1>3, ConcatProperties DEF RemoveAt

(* Where the elements of a sequence come from when one is added or taken   *)
(* away.                                                                   *)
LEMMA AppendElements ==
    ASSUME NEW S, NEW q \in Seq(S), NEW e \in S
    PROVE  \A i \in DOMAIN Append(q, e) :
              Append(q, e)[i] = e \/ \E j \in DOMAIN q : Append(q, e)[i] = q[j]
<1> SUFFICES ASSUME NEW i \in DOMAIN Append(q, e)
             PROVE  Append(q, e)[i] = e \/ \E j \in DOMAIN q : Append(q, e)[i] = q[j]
  OBVIOUS
<1>1. i \in 1 .. Len(q) + 1 /\ DOMAIN q = 1 .. Len(q) /\ Len(q) \in Nat
  BY AppendProperties, LenProperties
<1>2. CASE i = Len(q) + 1
  BY <1>2, AppendProperties
<1>3. CASE i \in 1 .. Len(q)
  BY <1>1, <1>3, AppendProperties
<1> QED BY <1>1, <1>2, <1>3

LEMMA ConcatElements ==
    ASSUME NEW S, NEW p \in Seq(S), NEW q \in Seq(S)
    PROVE  \A i \in DOMAIN (p \o q) : \/ \E j \in DOMAIN p : (p \o q)[i] = p[j]
                                     \/ \E j \in DOMAIN q : (p \o q)[i] = q[j]
<1> SUFFICES ASSUME NEW i \in DOMAIN (p \o q)
             PROVE  \/ \E j \in DOMAIN p : (p \o q)[i] = p[j]
                    \/ \E j \in DOMAIN q : (p \o q)[i] = q[j]
  OBVIOUS
<1>1. /\ i \in 1 .. Len(p) + Len(q) /\ Len(p) \in Nat /\ Len(q) \in Nat
      /\ DOMAIN p = 1 .. Len(p) /\ DOMAIN q = 1 .. Len(q)
  BY ConcatProperties, LenProperties
<1>2. CASE i <= Len(p)
  <2>1. i \in 1 .. Len(p) /\ (p \o q)[i] = p[i]
    BY <1>1, <1>2, ConcatProperties
  <2> QED BY <1>1, <2>1
<1>3. CASE i > Len(p)
  <2>1. i - Len(p) \in 1 .. Len(q) /\ (p \o q)[i] = q[i - Len(p)]
    BY <1>1, <1>3, ConcatProperties
  <2> QED BY <1>1, <2>1
<1> QED BY <1>1, <1>2, <1>3

LEMMA TailElements ==
    ASSUME NEW S, NEW q \in Seq(S), q # <<>>
    PROVE  \A i \in DOMAIN Tail(q) : \E j \in DOMAIN q : Tail(q)[i] = q[j]
<1> SUFFICES ASSUME NEW i \in DOMAIN Tail(q)
             PROVE  \E j \in DOMAIN q : Tail(q)[i] = q[j]
  OBVIOUS
<1>1. i \in 1 .. Len(Tail(q)) /\ DOMAIN q = 1 .. Len(q) /\ Len(q) \in Nat
      /\ Len(Tail(q)) = Len(q) - 1
  BY HeadTailProperties, LenProperties
<1>2. i + 1 \in DOMAIN q
  BY <1>1
<1>3. Tail(q)[i] = q[i + 1]
  BY <1>1, HeadTailProperties
<1> QED BY <1>2, <1>3

LEMMA RemoveAtElements ==
    ASSUME NEW S, NEW q \in Seq(S), NEW k \in DOMAIN q
    PROVE  \A i \in DOMAIN RemoveAt(q, k) : \E j \in DOMAIN q : RemoveAt(q, k)[i] = q[j]
<1> DEFINE a == SubSeq(q, 1, k - 1)
           b == SubSeq(q, k + 1, Len(q))
<1>1. k \in 1 .. Len(q) /\ Len(q) \in Nat /\ DOMAIN q = 1 .. Len(q)
  BY LenProperties
<1>2. a \in Seq(S) /\ Len(a) = k - 1 /\ \A i \in 1 .. k - 1 : a[i] = q[i]
  <2>1. k - 1 \in 0 .. Len(q)
    BY <1>1
  <2> QED BY <2>1, SubSeqFromOne
<1>3. b \in Seq(S) /\ Len(b) = Len(q) - k /\ \A i \in 1 .. Len(q) - k : b[i] = q[k + i]
  <2>1. k \in 0 .. Len(q) /\ Len(q) \in k .. Len(q)
    BY <1>1
  <2> QED BY <1>1, <2>1, SubSeqPiece
<1> SUFFICES ASSUME NEW i \in DOMAIN (a \o b)
             PROVE  \E j \in DOMAIN q : (a \o b)[i] = q[j]
  BY DEF RemoveAt
<1> HIDE DEF a, b
<1>4. i \in 1 .. Len(a) + Len(b)
      /\ (a \o b)[i] = IF i <= Len(a) THEN a[i] ELSE b[i - Len(a)]
  BY <1>2, <1>3, ConcatProperties, LenProperties
<1>5. CASE i <= k - 1
  <2>1. i \in 1 .. k - 1 /\ i \in DOMAIN q
    BY <1>1, <1>2, <1>3, <1>4, <1>5
  <2> QED BY <1>2, <1>4, <1>5, <2>1
<1>6. CASE i > k - 1
  <2>0. i \in 1 .. Len(q) - 1
    BY <1>1, <1>2, <1>3, <1>4
  <2>1. i - (k - 1) \in 1 .. Len(q) - k /\ k + (i - (k - 1)) \in 1 .. Len(q)
    BY <1>1, <1>6, <2>0
  <2>2. (a \o b)[i] = b[i - (k - 1)]
    BY <1>1, <1>2, <1>4, <1>6
  <2> QED BY <1>1, <1>3, <2>1, <2>2
<1> QED BY <1>1, <1>2, <1>3, <1>4, <1>5, <1>6

-----------------------------------------------------------------------------
(***************************************************************************)
(* FlattenSeq takes its value from a function defined by recursion over    *)
(* the prefixes of the sequence: IsFlattening says what that function is.  *)
(***************************************************************************)
IsFlattening(g, q, n) ==
    g = [i \in 1 .. n |-> IF i = 1 THEN q[i] ELSE g[i - 1] \o q[i]]

LEMMA FlatteningAt ==
    ASSUME NEW g, NEW q, NEW n, IsFlattening(g, q, n), NEW i \in 1 .. n
    PROVE  g[i] = IF i = 1 THEN q[i] ELSE g[i - 1] \o q[i]
<1> DEFINE e == [j \in 1 .. n |-> IF j = 1 THEN q[j] ELSE g[j - 1] \o q[j]]
<1>1. g = e
  BY DEF IsFlattening
<1>2. e[i] = IF i = 1 THEN q[i] ELSE g[i - 1] \o q[i]
  OBVIOUS
<1> HIDE DEF e
<1> QED BY <1>1, <1>2

LEMMA FlatteningExists ==
    ASSUME NEW q, NEW n \in Nat
    PROVE  \E g : IsFlattening(g, q, n)
<1> DEFINE T == {m \in Nat : \E g : IsFlattening(g, q, m)}
<1>1. 0 \in T
  <2>1. IsFlattening([i \in 1 .. 0 |-> 0], q, 0)
    BY DEF IsFlattening
  <2> QED BY <2>1
<1>2. ASSUME NEW m \in Nat, m \in T
      PROVE  m + 1 \in T
  <2>1. PICK g : IsFlattening(g, q, m)
    BY <1>2
  <2> DEFINE h == [i \in 1 .. m + 1 |->
                     IF i <= m THEN g[i]
                     ELSE IF i = 1 THEN q[i] ELSE g[i - 1] \o q[i]]
  <2>2. ASSUME NEW i \in 1 .. m + 1
        PROVE  h[i] = IF i = 1 THEN q[i] ELSE h[i - 1] \o q[i]
    <3>1. CASE i <= m
      <4>1. h[i] = g[i]
        BY <3>1
      <4>2. g[i] = IF i = 1 THEN q[i] ELSE g[i - 1] \o q[i]
        BY <2>1, <3>1, FlatteningAt
      <4>3. i # 1 => h[i - 1] = g[i - 1]
        BY <3>1
      <4> QED BY <4>1, <4>2, <4>3
    <3>2. CASE ~(i <= m)
      <4>1. i = m + 1
        BY <3>2
      <4>2. i # 1 => i - 1 \in 1 .. m /\ h[i - 1] = g[i - 1]
        BY <4>1
      <4> QED BY <4>1, <4>2, <3>2
    <3> QED BY <3>1, <3>2
  <2>3. IsFlattening(h, q, m + 1)
    <3>1. h = [i \in 1 .. m + 1 |-> h[i]]
      OBVIOUS
    <3> HIDE DEF h
    <3> QED BY <2>2, <3>1 DEF IsFlattening
  <2> QED BY <2>3
<1>3. \A m \in Nat : m \in T
  <2> HIDE DEF T
  <2> QED BY <1>1, <1>2, SetInduction
<1> QED BY <1>3

(* A flattening of a sequence continues that of its front. *)
LEMMA FlatteningUnique ==
    ASSUME NEW q, NEW r, NEW g, NEW h, NEW k \in Nat,
           IsFlattening(g, q, k), IsFlattening(h, r, k + 1),
           \A i \in 1 .. k : q[i] = r[i]
    PROVE  \A i \in 1 .. k : g[i] = h[i]
<1> DEFINE T == {j \in Nat : j \in 1 .. k => g[j] = h[j]}
<1>1. 0 \in T
  OBVIOUS
<1>2. ASSUME NEW j \in Nat, j \in T
      PROVE  j + 1 \in T
  <2>1. CASE j + 1 > k
    BY <2>1
  <2>2. CASE j + 1 <= k
    <3>1. g[j + 1] = IF j + 1 = 1 THEN q[j + 1] ELSE g[j] \o q[j + 1]
      BY <2>2, FlatteningAt
    <3>2. h[j + 1] = IF j + 1 = 1 THEN r[j + 1] ELSE h[j] \o r[j + 1]
      BY <2>2, FlatteningAt
    <3>3. j # 0 => g[j] = h[j]
      BY <1>2, <2>2
    <3>4. q[j + 1] = r[j + 1]
      BY <2>2
    <3>5. g[j + 1] = h[j + 1]
      BY <3>1, <3>2, <3>3, <3>4
    <3> QED BY <3>5
  <2> QED BY <2>1, <2>2
<1>3. \A j \in Nat : j \in T
  <2> HIDE DEF T
  <2> QED BY <1>1, <1>2, SetInduction
<1> QED BY <1>3

LEMMA FlattenIsFlattening ==
    ASSUME NEW q, Len(q) \in Nat, Len(q) # 0
    PROVE  \E g : IsFlattening(g, q, Len(q)) /\ FlattenSeq(q) = g[Len(q)]
<1> DEFINE flatten == CHOOSE g : IsFlattening(g, q, Len(q))
<1>1. IsFlattening(flatten, q, Len(q))
  BY FlatteningExists
<1>2. FlattenSeq(q) = flatten[Len(q)]
  BY DEF FlattenSeq, IsFlattening
<1> QED BY <1>1, <1>2

(***************************************************************************)
(* What FlattenSeq computes: nothing of the empty sequence, and of a       *)
(* longer one the flattening of the rest followed by the last piece.       *)
(***************************************************************************)
LEMMA FlattenEmpty == FlattenSeq(<<>>) = <<>>
BY DEF FlattenSeq

LEMMA FlattenAppend ==
    ASSUME NEW S, NEW q \in Seq(Seq(S)), NEW e \in Seq(S)
    PROVE  FlattenSeq(Append(q, e)) = FlattenSeq(q) \o e
<1> DEFINE n == Len(q)
           r == Append(q, e)
<1>1. /\ n \in Nat /\ n + 1 \in Nat /\ Len(r) = n + 1 /\ n + 1 # 0
      /\ n + 1 \in 1 .. n + 1
      /\ r[n + 1] = e /\ \A i \in 1 .. n : q[i] = r[i]
  OBVIOUS
<1>2. \E h : IsFlattening(h, r, n + 1) /\ FlattenSeq(r) = h[n + 1]
  <2>1. Len(r) \in Nat /\ Len(r) # 0
    BY <1>1
  <2> HIDE DEF n, r
  <2>2. \E h : IsFlattening(h, r, Len(r)) /\ FlattenSeq(r) = h[Len(r)]
    BY <2>1, FlattenIsFlattening
  <2> QED BY <1>1, <2>2
<1>3. PICK h : IsFlattening(h, r, n + 1) /\ FlattenSeq(r) = h[n + 1]
  BY <1>2
<1>4. h[n + 1] = IF n = 0 THEN e ELSE h[n] \o e
  <2> HIDE DEF n, r
  <2>1. h[n + 1] = IF n + 1 = 1 THEN r[n + 1] ELSE h[(n + 1) - 1] \o r[n + 1]
    BY <1>1, <1>3, FlatteningAt
  <2> QED BY <1>1, <2>1
<1>5. CASE n = 0
  <2>1. q = <<>>
    BY <1>5
  <2>2. FlattenSeq(q) = <<>>
    BY <2>1, FlattenEmpty
  <2> QED BY <1>3, <1>4, <1>5, <2>2
<1>6. CASE n # 0
  <2>1. PICK g : IsFlattening(g, q, n) /\ FlattenSeq(q) = g[n]
    BY <1>1, <1>6, FlattenIsFlattening
  <2>2. \A i \in 1 .. n : g[i] = h[i]
    <3>1. IsFlattening(g, q, n) /\ IsFlattening(h, r, n + 1)
      BY <1>3, <2>1
    <3> HIDE DEF n, r
    <3> QED BY <1>1, <3>1, FlatteningUnique
  <2>3. g[n] = h[n]
    BY <1>1, <1>6, <2>2
  <2> QED BY <1>1, <1>3, <1>4, <1>6, <2>1, <2>3
<1> QED BY <1>5, <1>6

LEMMA FlattenType ==
    ASSUME NEW S, NEW q \in Seq(Seq(S))
    PROVE  FlattenSeq(q) \in Seq(S)
<1>1. CASE Len(q) = 0
  <2>1. q = <<>>
    BY <1>1
  <2>2. FlattenSeq(q) = <<>>
    BY <2>1, FlattenEmpty
  <2> QED BY <2>2
<1>2. CASE Len(q) # 0
  <2>1. Len(q) \in Nat
    OBVIOUS
  <2>2. PICK g : IsFlattening(g, q, Len(q)) /\ FlattenSeq(q) = g[Len(q)]
    BY <1>2, <2>1, FlattenIsFlattening
  <2> DEFINE T == {j \in Nat : j \in 1 .. Len(q) => g[j] \in Seq(S)}
  <2>3. 0 \in T
    OBVIOUS
  <2>4. ASSUME NEW j \in Nat, j \in T
        PROVE  j + 1 \in T
    <3>1. CASE j + 1 > Len(q)
      BY <2>1, <3>1
    <3>2. CASE j + 1 <= Len(q)
      <4>1. j + 1 \in 1 .. Len(q) /\ q[j + 1] \in Seq(S)
        BY <2>1, <3>2, ElementOfSeq
      <4>2. g[j + 1] = IF j + 1 = 1 THEN q[j + 1] ELSE g[j] \o q[j + 1]
        BY <2>2, <4>1, FlatteningAt
      <4>3. CASE j = 0
        BY <4>1, <4>2, <4>3
      <4>4. CASE j # 0
        <5>1. g[j] \in Seq(S)
          BY <2>1, <2>4, <3>2, <4>4
        <5>2. g[j] \o q[j + 1] \in Seq(S)
          BY <4>1, <5>1, ConcatProperties
        <5>3. g[j + 1] = g[j] \o q[j + 1]
          <6>1. j + 1 # 1
            BY <4>4
          <6> QED BY <4>2, <6>1, Zenon
        <5>4. g[j + 1] \in Seq(S)
          BY <5>2, <5>3
        <5> QED BY <5>4
      <4> QED BY <4>3, <4>4
    <3> QED BY <2>1, <3>1, <3>2
  <2>5. \A j \in Nat : j \in T
    <3> HIDE DEF T
    <3> QED BY <2>3, <2>4, SetInduction
  <2>6. Len(q) \in T /\ Len(q) \in 1 .. Len(q)
    <3>1. Len(q) \in T
      <4> HIDE DEF T
      <4> QED BY <2>1, <2>5
    <3> QED BY <1>2, <2>1, <3>1
  <2> QED BY <2>2, <2>6
<1> QED BY <1>1, <1>2

(* The same when the pieces are what a function makes of the elements.     *)
MapsTo(f, R, S) == f \in [R -> Seq(S)]

FlatMap(f, q) == FlattenSeq([i \in DOMAIN q |-> f[q[i]]])

LEMMA FlatMapAppend ==
    ASSUME NEW R, NEW S, NEW f, MapsTo(f, R, S), NEW q \in Seq(R), NEW e \in R
    PROVE  /\ FlatMap(f, q) \in Seq(S)
           /\ FlatMap(f, Append(q, e)) = FlatMap(f, q) \o f[e]
<1> DEFINE p == [i \in DOMAIN q |-> f[q[i]]]
           p2 == [i \in DOMAIN Append(q, e) |-> f[Append(q, e)[i]]]
<1>1. Len(q) \in Nat /\ DOMAIN q = 1 .. Len(q) /\ \A i \in 1 .. Len(q) : q[i] \in R
  BY ElementOfSeq, LenProperties
<1>2. p \in Seq(Seq(S)) /\ Len(p) = Len(q) /\ \A i \in 1 .. Len(q) : p[i] = f[q[i]]
  BY <1>1 DEF MapsTo
<1>3. /\ Append(q, e) \in Seq(R) /\ Len(Append(q, e)) = Len(q) + 1
      /\ \A i \in 1 .. Len(q) : Append(q, e)[i] = q[i]
      /\ Append(q, e)[Len(q) + 1] = e
      /\ DOMAIN Append(q, e) = 1 .. Len(q) + 1
  BY AppendProperties, LenProperties
<1>4. f[e] \in Seq(S)
  BY DEF MapsTo
<1>5. /\ p2 = [i \in 1 .. Len(q) + 1 |-> p2[i]]
      /\ \A i \in 1 .. Len(q) : p2[i] = f[q[i]]
      /\ p2[Len(q) + 1] = f[e]
  BY <1>1, <1>3
<1>6. /\ Append(p, f[e]) \in Seq(Seq(S)) /\ Len(Append(p, f[e])) = Len(q) + 1
      /\ \A i \in 1 .. Len(q) : Append(p, f[e])[i] = p[i]
      /\ Append(p, f[e])[Len(q) + 1] = f[e]
  <2> HIDE DEF p
  <2> QED BY <1>2, <1>4, AppendProperties
<1>7. p2 \in Seq(Seq(S)) /\ Len(p2) = Len(q) + 1
  <2>1. \A i \in 1 .. Len(q) + 1 : p2[i] \in Seq(S)
    <3> HIDE DEF p2
    <3>1. \A i \in 1 .. Len(q) : p2[i] \in Seq(S)
      BY <1>1, <1>5 DEF MapsTo
    <3>2. p2[Len(q) + 1] \in Seq(S)
      BY <1>4, <1>5
    <3>3. \A i \in 1 .. Len(q) + 1 : i \in 1 .. Len(q) \/ i = Len(q) + 1
      BY <1>1
    <3> QED BY <3>1, <3>2, <3>3
  <2> HIDE DEF p2
  <2> QED BY <1>1, <1>5, <2>1
<1>8. p2 = Append(p, f[e])
  <2> HIDE DEF p, p2
  <2>1. \A i \in 1 .. Len(q) + 1 : p2[i] = Append(p, f[e])[i]
    <3>1. \A i \in 1 .. Len(q) : p2[i] = Append(p, f[e])[i]
      BY <1>2, <1>5, <1>6
    <3>2. p2[Len(q) + 1] = Append(p, f[e])[Len(q) + 1]
      BY <1>5, <1>6
    <3>3. \A i \in 1 .. Len(q) + 1 : i \in 1 .. Len(q) \/ i = Len(q) + 1
      BY <1>1
    <3> QED BY <3>1, <3>2, <3>3
  <2> QED BY <1>6, <1>7, <2>1, SeqEqual
<1> HIDE DEF p, p2
<1>9. FlattenSeq(p) \in Seq(S) /\ FlattenSeq(p2) = FlattenSeq(p) \o f[e]
  BY <1>2, <1>4, <1>8, FlattenAppend, FlattenType
<1> QED BY <1>9 DEF p, p2, FlatMap

(* Element by element, and what of it stands before and behind a place.     *)
LEMMA FlatMapEmpty == \A f : FlatMap(f, <<>>) = <<>>
BY FlattenEmpty DEF FlatMap

MapsAt(f, R, S, q, n) ==
    MapsTo(f, R, S) /\ q \in Seq(R) /\ n \in Nat /\ n < Len(q)

MapsNext(f, R, S, q, n) ==
    /\ SubSeq(q, 1, n) \in Seq(R) /\ q[n + 1] \in R
    /\ FlatMap(f, SubSeq(q, 1, n)) \in Seq(S)
    /\ FlatMap(f, SubSeq(q, 1, n + 1)) = FlatMap(f, SubSeq(q, 1, n)) \o f[q[n + 1]]

LEMMA FlatMapNext ==
    ASSUME NEW R, NEW S, NEW f, NEW q, NEW n, MapsAt(f, R, S, q, n)
    PROVE  MapsNext(f, R, S, q, n)
<1>0. MapsTo(f, R, S) /\ q \in Seq(R) /\ n \in Nat /\ n < Len(q)
  BY DEF MapsAt
<1>1. Len(q) \in Nat /\ n \in 0 .. Len(q) /\ n + 1 \in 0 .. Len(q) /\ n + 1 \in 1 .. Len(q)
  BY <1>0, LenProperties
<1>2. PICK p \in Seq(R) : p = SubSeq(q, 1, n)
  BY <1>0, <1>1, SubSeqFromOne
<1>3. q[n + 1] \in R
  BY <1>0, <1>1, ElementOfSeq
<1>4. SubSeq(q, 1, n + 1) = Append(p, q[n + 1])
  <2>1. /\ SubSeq(q, 1, n + 1) \in Seq(R) /\ Len(SubSeq(q, 1, n + 1)) = n + 1
        /\ \A i \in 1 .. n + 1 : SubSeq(q, 1, n + 1)[i] = q[i]
    BY <1>0, <1>1, SubSeqFromOne
  <2>2. Len(p) = n /\ \A i \in 1 .. n : p[i] = q[i]
    BY <1>0, <1>1, <1>2, SubSeqFromOne
  <2>3. PICK e \in R : e = q[n + 1]
    BY <1>3
  <2>4. /\ Append(p, e) \in Seq(R) /\ Len(Append(p, e)) = n + 1
        /\ \A i \in 1 .. n : Append(p, e)[i] = p[i]
        /\ Append(p, e)[n + 1] = e
    BY <1>0, <2>2, AppendProperties
  <2>5. \A i \in 1 .. n + 1 : SubSeq(q, 1, n + 1)[i] = Append(p, e)[i]
    <3>1. \A i \in 1 .. n + 1 : i \in 1 .. n \/ i = n + 1
      BY <1>0
    <3> QED BY <1>0, <2>1, <2>2, <2>3, <2>4, <3>1
  <2> QED BY <2>1, <2>3, <2>4, <2>5, SeqEqual
<1>5. PICK e \in R : e = q[n + 1]
  BY <1>3
<1>6. FlatMap(f, p) \in Seq(S) /\ FlatMap(f, Append(p, e)) = FlatMap(f, p) \o f[e]
  BY <1>0, FlatMapAppend
<1> QED BY <1>2, <1>3, <1>4, <1>5, <1>6 DEF MapsNext

SplitsAt(f, R, S, q, n) ==
    MapsTo(f, R, S) /\ q \in Seq(R) /\ n \in Nat /\ n <= Len(q)

Splits(f, S, q, n) ==
    /\ FlatMap(f, SubSeq(q, 1, n)) \in Seq(S)
    /\ \E t \in Seq(S) : FlatMap(f, q) = FlatMap(f, SubSeq(q, 1, n)) \o t

LEMMA FlatMapSplit ==
    ASSUME NEW R, NEW S, NEW f, NEW q, NEW n, SplitsAt(f, R, S, q, n)
    PROVE  Splits(f, S, q, n)
<1>0. MapsTo(f, R, S) /\ q \in Seq(R) /\ n \in Nat /\ n <= Len(q)
  BY DEF SplitsAt
<1> DEFINE M(k) == FlatMap(f, SubSeq(q, 1, k))
           T == {k \in Nat : (n <= k /\ k <= Len(q)) =>
                    \E t \in Seq(S) : M(k) = M(n) \o t}
<1>1. Len(q) \in Nat
  BY <1>0, LenProperties
<1>2. ASSUME NEW k \in Nat, k <= Len(q)
      PROVE  M(k) \in Seq(S)
  <2>1. CASE k < Len(q)
    <3>1. MapsAt(f, R, S, q, k)
      BY <1>0, <2>1 DEF MapsAt
    <3>2. MapsNext(f, R, S, q, k)
      BY <3>1, FlatMapNext
    <3> QED BY <3>2 DEF MapsNext
  <2>2. CASE k = 0
    <3>1. SubSeq(q, 1, 0) = <<>>
      OBVIOUS
    <3>2. FlatMap(f, <<>>) = <<>>
      BY FlatMapEmpty
    <3>3. M(k) = FlatMap(f, SubSeq(q, 1, 0))
      BY <2>2
    <3>4. <<>> \in Seq(S)
      OBVIOUS
    <3> QED BY <3>1, <3>2, <3>3, <3>4
  <2>3. CASE k = Len(q) /\ k # 0
    <3>1. k - 1 \in Nat /\ k - 1 < Len(q) /\ (k - 1) + 1 = k
      BY <1>1, <2>3
    <3>2. PICK j \in Nat : j = k - 1 /\ j < Len(q)
      BY <3>1
    <3>3. /\ M(j) \in Seq(S) /\ q[j + 1] \in R /\ M(j + 1) = M(j) \o f[q[j + 1]]
      <4>1. MapsAt(f, R, S, q, j)
        BY <1>0, <3>2 DEF MapsAt
      <4>2. MapsNext(f, R, S, q, j)
        BY <4>1, FlatMapNext
      <4> QED BY <4>2 DEF MapsNext
    <3>4. f[q[j + 1]] \in Seq(S)
      BY <1>0, <3>3 DEF MapsTo
    <3> HIDE DEF M
    <3>5. M(j) \o f[q[j + 1]] \in Seq(S)
      BY <3>3, <3>4, ConcatProperties
    <3> QED BY <3>1, <3>2, <3>3, <3>5
  <2> QED BY <1>1, <1>2, <2>1, <2>2, <2>3
<1>3. 0 \in T
  <2> SUFFICES ASSUME n <= 0 PROVE \E t \in Seq(S) : M(0) = M(n) \o t
    OBVIOUS
  <2>1. n = 0 /\ M(0) \in Seq(S)
    BY <1>0, <1>1, <1>2
  <2> HIDE DEF M
  <2>2. M(0) = M(n) \o <<>> /\ <<>> \in Seq(S)
    BY <2>1, ConcatEmptySeq
  <2> QED BY <2>2
<1>4. ASSUME NEW k \in Nat, k \in T
      PROVE  k + 1 \in T
  <2> SUFFICES ASSUME n <= k + 1, k + 1 <= Len(q)
               PROVE  \E t \in Seq(S) : M(k + 1) = M(n) \o t
    OBVIOUS
  <2>1. M(n) \in Seq(S) /\ M(k + 1) \in Seq(S)
    BY <1>0, <1>2
  <2>2. CASE n = k + 1
    <3> HIDE DEF M
    <3>1. M(k + 1) = M(n) \o <<>> /\ <<>> \in Seq(S)
      BY <2>1, <2>2, ConcatEmptySeq
    <3> QED BY <3>1
  <2>3. CASE n <= k
    <3>1. k < Len(q) /\ k <= Len(q)
      BY <1>1
    <3>2. PICK t \in Seq(S) : M(k) = M(n) \o t
      BY <1>4, <2>3, <3>1
    <3>3. q[k + 1] \in R /\ M(k + 1) = M(k) \o f[q[k + 1]]
      <4>1. MapsAt(f, R, S, q, k)
        BY <1>0, <3>1 DEF MapsAt
      <4>2. MapsNext(f, R, S, q, k)
        BY <4>1, FlatMapNext
      <4> QED BY <4>2 DEF MapsNext
    <3>4. f[q[k + 1]] \in Seq(S)
      BY <1>0, <3>3 DEF MapsTo
    <3> HIDE DEF M
    <3>5. PICK e \in Seq(S) : e = f[q[k + 1]]
      BY <3>4
    <3>6. PICK m \in Seq(S) : m = M(n)
      BY <2>1
    <3>7. (m \o t) \o e = m \o (t \o e) /\ t \o e \in Seq(S)
      BY SMTT(60), <1>0, ConcatAssociative, ConcatProperties
    <3> QED BY <3>2, <3>3, <3>5, <3>6, <3>7
  <2> QED BY SMTT(60), <1>0, <2>2, <2>3
<1>5. \A k \in Nat : k \in T
  <2> HIDE DEF T
  <2> QED BY <1>3, <1>4, SetInduction
<1>6. Len(q) \in T
  <2> HIDE DEF T
  <2> QED BY <1>1, <1>5
<1>7. \E t \in Seq(S) : M(Len(q)) = M(n) \o t
  <2> HIDE DEF M
  <2> QED BY <1>0, <1>1, <1>6
<1>8. SubSeq(q, 1, Len(q)) = q
  BY <1>0, SubSeqFull
<1> QED BY <1>0, <1>2, <1>7, <1>8 DEF Splits
=============================================================================
