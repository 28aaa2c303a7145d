-------------------------- MODULE WnChannelProofs ---------------------------
(***************************************************************************)
(* A session implements WnChannel, in either direction: proofs of          *)
(* RecvIsChannel and SendIsChannel, step by step.                          *)
(*                                                                         *)
(* Both rest on what a log of sealed records is: it numbers its payloads   *)
(* in order, and no two of its records are sealed at one place, the key    *)
(* and the sequence number.  A reader opens what is sealed at the place it *)
(* stands at, so if that is the place of the next record of the log, it    *)
(* can only ever take the next payload.                                    *)
(*                                                                         *)
(* The second half is about the two ends' keys: without a fault what is    *)
(* under way in a direction is a stretch of that log from the reader's     *)
(* place to the writer's (KeysInStep), and a KeyUpdate of the log is       *)
(* carried out exactly when the reader's key is past it, which counts the  *)
(* answers (KeyUpdatesAnswered).                                           *)
(***************************************************************************)
EXTENDS WnSessionProofs, WnLemmas, FiniteSetTheorems

-----------------------------------------------------------------------------
(* A log of records and its payloads *)
Payloads(log) == {m \in 1 .. Len(log) : log[m].ctype = "appdata"}

(* The payloads are numbered 1 to n, in the order of the records. *)
Numbered(log, n) ==
    /\ \A m \in Payloads(log) : log[m].body.id \in 1 .. n
    /\ \A x \in 1 .. n : \E m \in Payloads(log) : log[m].body.id = x
    /\ \A l, m \in Payloads(log) : l < m => log[l].body.id < log[m].body.id

(* Those of the first n records are the first x payloads. *)
Through(log, n, x) == \A m \in Payloads(log) : m <= n <=> log[m].body.id <= x

-----------------------------------------------------------------------------
(***************************************************************************)
(* The peer's log.  What seals its (n + 1)st record: that record, or the   *)
(* peer's write direction when it is not sealed yet.                       *)
(***************************************************************************)
At(n) == IF n < Len(plog) THEN plog[n + 1] ELSE pw

Rekeying == {"ku0", "ku1"}
Rekeys(q) == q # <<>> /\ q[Len(q)] \in Rekeying

Before(a, b) == a.key < b.key \/ (a.key = b.key /\ a.seq < b.seq)

PeerLog ==
    /\ pw.secret = pw.key /\ pw.iv = pw.key
    /\ Len(plog) <= MaxPeerRecords
    /\ \A n \in 0 .. Len(plog) : At(n).iv = At(n).key /\ At(n).seq <= n
    /\ \A m \in 1 .. Len(plog) :
          /\ plog[m].ctype = "handshake" => plog[m].body.msgs \in HsBodies
          /\ plog[m].ctype = "alert" => m = Len(plog) /\ peer # "open"
          /\ IF plog[m].ctype = "handshake" /\ Rekeys(plog[m].body.msgs)
             THEN At(m).key = plog[m].key + 1 /\ At(m).seq = 0
             ELSE At(m).key = plog[m].key /\ At(m).seq = plog[m].seq + 1
    /\ \A l, m \in 0 .. Len(plog) : l < m => Before(At(l), At(m))
    /\ Numbered(plog, pdata)

(* What the transport hands the client and has not damaged is the peer's. *)
Honest == {rec \in OnWire : (rec.form = "sealed" /\ rec.intact) =>
              \E m \in 1 .. Len(plog) : rec = plog[m]}

(* The read direction after n records of the log: at the place of the next; or
   it opens none, now or later; or a KeyUpdate is still to be carried out. *)
Aligned(n) == /\ s.key = At(n).key /\ s.seq = At(n).seq
              /\ s.iv = s.key /\ s.secret = s.key
Blind == \/ s.iv # s.key
         \/ /\ s.key < pw.key
            /\ \A m \in 1 .. Len(plog) : ~(plog[m].key = s.key /\ plog[m].seq = s.seq)
Pending(n) == /\ Blind /\ s.iv = s.key /\ s.secret = s.key
              /\ At(n).key = s.key + 1 /\ At(n).seq = 0

Reading(n) ==
    /\ Through(plog, n, Len(taken))
    /\ Aligned(n) \/ Blind
    /\ pc \in {"posths", "answer"} =>
          \/ Aligned(n) /\ \A l \in 1 .. Len(msgs) : msgs[l] \notin Rekeying
          \/ /\ pc = "posths" /\ Pending(n) /\ Rekeys(msgs)
             /\ \A l \in 1 .. Len(msgs) - 1 : msgs[l] \notin Rekeying

RecvInv ==
    /\ PeerLog
    /\ toClient \in Seq(Honest)
    /\ \A l \in 1 .. Len(taken) : taken[l].id = l
    /\ Len(taken) <= pdata
    /\ "CLOSED" \in flags => Len(taken) = pdata /\ peer # "open"
    /\ flags # {} => \E n \in 0 .. Len(plog) : Reading(n)
-----------------------------------------------------------------------------
(* Lemmas about logs *)
LEMMA LogAppend ==
    ASSUME NEW log \in Seq(Sealed), NEW rec \in Sealed
    PROVE  /\ Append(log, rec) \in Seq(Sealed) /\ Len(Append(log, rec)) = Len(log) + 1
           /\ Len(log) \in Nat
           /\ \A m \in 1 .. Len(log) : Append(log, rec)[m] = log[m]
           /\ Append(log, rec)[Len(log) + 1] = rec
           /\ Payloads(Append(log, rec)) =
                 Payloads(log) \cup (IF rec.ctype = "appdata" THEN {Len(log) + 1} ELSE {})
<1> DEFINE new == Append(log, rec)
<1>1. /\ new \in Seq(Sealed) /\ Len(new) = Len(log) + 1 /\ Len(log) \in Nat
      /\ \A m \in 1 .. Len(log) : new[m] = log[m]
      /\ new[Len(log) + 1] = rec
  OBVIOUS
<1> HIDE DEF new
<1>2. \A m : m \in 1 .. Len(new) <=> m \in 1 .. Len(log) \/ m = Len(log) + 1
  BY <1>1
<1>3. Payloads(new) = Payloads(log) \cup (IF rec.ctype = "appdata" THEN {Len(log) + 1} ELSE {})
  BY <1>1, <1>2 DEF Payloads
<1> QED BY <1>1, <1>3 DEF new

(* A record that is no payload leaves the numbering; the next payload extends
   it by one. *)
LEMMA NumberedAppend ==
    ASSUME NEW log \in Seq(Sealed), NEW n \in Nat, Numbered(log, n), NEW rec \in Sealed
    PROVE  /\ rec.ctype # "appdata" => Numbered(Append(log, rec), n)
           /\ (rec.ctype = "appdata" /\ rec.body.id = n + 1) =>
                 Numbered(Append(log, rec), n + 1)
<1> DEFINE new == Append(log, rec)
<1>1. /\ Len(log) \in Nat
      /\ \A m \in 1 .. Len(log) : new[m] = log[m]
      /\ new[Len(log) + 1] = rec
      /\ Payloads(new) = Payloads(log) \cup (IF rec.ctype = "appdata" THEN {Len(log) + 1} ELSE {})
  BY LogAppend
<1> HIDE DEF new
<1>2. \A m \in Payloads(log) : m \in 1 .. Len(log) /\ new[m] = log[m]
  BY <1>1 DEF Payloads
<1>3. ASSUME rec.ctype # "appdata" PROVE Numbered(new, n)
  BY <1>1, <1>2, <1>3 DEF Numbered
<1>4. ASSUME rec.ctype = "appdata", rec.body.id = n + 1 PROVE Numbered(new, n + 1)
  <2>1. Payloads(new) = Payloads(log) \cup {Len(log) + 1}
    BY <1>1, <1>4
  <2>2. \A m \in Payloads(new) : new[m].body.id \in 1 .. n + 1
    BY <1>1, <1>2, <1>4, <2>1 DEF Numbered
  <2>3. ASSUME NEW x \in 1 .. n + 1 PROVE \E m \in Payloads(new) : new[m].body.id = x
    <3>1. CASE x = n + 1
      BY <1>1, <1>4, <2>1, <3>1
    <3>2. CASE x \in 1 .. n
      BY <1>2, <2>1, <3>2 DEF Numbered
    <3> QED BY <3>1, <3>2
  <2>4. ASSUME NEW l \in Payloads(new), NEW m \in Payloads(new), l < m
        PROVE  new[l].body.id < new[m].body.id
    <3>1. CASE m \in Payloads(log)
      <4>1. l \in Payloads(log)
        BY <1>1, <1>2, <2>1, <2>4, <3>1
      <4> QED BY <1>2, <2>4, <3>1, <4>1 DEF Numbered
    <3>2. CASE m = Len(log) + 1
      <4>1. l \in Payloads(log)
        BY <1>1, <2>1, <2>4, <3>2
      <4>2. new[l].body.id \in 1 .. n
        BY <1>2, <4>1 DEF Numbered
      <4> QED BY <1>1, <1>4, <3>2, <4>2
    <3> QED BY <2>1, <3>1, <3>2
  <2> QED BY <2>2, <2>3, <2>4 DEF Numbered
<1> QED BY <1>3, <1>4 DEF new

(* The next record of the log: if it is a payload, it is the next payload. *)
LEMMA NextPayload ==
    ASSUME NEW log \in Seq(Sealed), NEW n \in Nat, Numbered(log, n),
           NEW l \in 0 .. Len(log) - 1, NEW x \in Nat, x <= n, Through(log, l, x)
    PROVE  /\ log[l + 1].ctype = "appdata" =>
                 log[l + 1].body.id = x + 1 /\ x < n /\ Through(log, l + 1, x + 1)
           /\ log[l + 1].ctype # "appdata" => Through(log, l + 1, x)
<1>0. l \in Nat /\ Len(log) \in Nat /\ l + 1 \in 1 .. Len(log)
  OBVIOUS
<1>1. \A m \in Payloads(log) : m \in Nat /\ log[m].body.id \in 1 .. n /\ log[m].body.id \in Nat
  BY DEF Payloads, Numbered
<1>2. ASSUME log[l + 1].ctype = "appdata"
      PROVE  log[l + 1].body.id = x + 1 /\ x < n /\ Through(log, l + 1, x + 1)
  <2>1. l + 1 \in Payloads(log)
    BY <1>0, <1>2 DEF Payloads
  <2> DEFINE id == log[l + 1].body.id
  <2>2. id \in Nat /\ id <= n /\ id > x
    <3>1. ~(l + 1 <= l)
      BY <1>0
    <3>2. id \in 1 .. n /\ ~(id <= x)
      BY <1>1, <2>1, <3>1 DEF Through
    <3> QED BY <3>2
  <2>3. x < n /\ x + 1 \in 1 .. n
    BY <2>2
  <2>4. id = x + 1
    <3> SUFFICES ASSUME id # x + 1 PROVE FALSE
      OBVIOUS
    <3>1. PICK m \in Payloads(log) : log[m].body.id = x + 1
      BY <2>3 DEF Numbered
    <3>2. ~(m <= l)
      BY <3>1 DEF Through
    <3>3. m # l + 1 /\ m > l + 1
      BY <1>0, <1>1, <3>1, <3>2
    <3>4. id < x + 1
      BY <2>1, <3>1, <3>3 DEF Numbered
    <3> QED BY <2>2, <3>4
  <2>5. ASSUME NEW m \in Payloads(log) PROVE m <= l + 1 <=> log[m].body.id <= x + 1
    <3>1. CASE m <= l
      <4>1. log[m].body.id <= x
        BY <3>1 DEF Through
      <4> QED BY <1>0, <1>1, <3>1, <4>1
    <3>2. CASE m = l + 1
      BY <1>0, <2>4, <3>2
    <3>3. CASE m > l + 1
      <4>1. x + 1 < log[m].body.id
        BY <2>1, <2>4, <3>3 DEF Numbered
      <4> QED BY <1>0, <1>1, <3>3, <4>1
    <3> QED BY <1>0, <1>1, <3>1, <3>2, <3>3
  <2> QED BY <2>3, <2>4, <2>5 DEF Through
<1>3. ASSUME log[l + 1].ctype # "appdata" PROVE Through(log, l + 1, x)
  <2>1. \A m \in Payloads(log) : m # l + 1
    BY <1>3 DEF Payloads
  <2>2. \A m \in Payloads(log) : m <= l + 1 <=> m <= l
    BY <1>0, <1>1, <2>1
  <2> QED BY <2>2 DEF Through
<1> QED BY <1>2, <1>3

(* When all records are read, all payloads are. *)
LEMMA AllRead ==
    ASSUME NEW log \in Seq(Sealed), NEW n \in Nat, Numbered(log, n),
           NEW x \in Nat, x <= n, Through(log, Len(log), x)
    PROVE  x = n
<1> SUFFICES ASSUME x < n PROVE FALSE
  OBVIOUS
<1>1. n \in 1 .. n
  OBVIOUS
<1>2. PICK m \in Payloads(log) : log[m].body.id = n
  BY <1>1 DEF Numbered
<1>3. m <= Len(log)
  BY DEF Payloads
<1> QED BY <1>2, <1>3 DEF Through

(* A record that is sealed later is not among the first ones. *)
LEMMA ThroughAppend ==
    ASSUME NEW log \in Seq(Sealed), NEW n \in 0 .. Len(log), NEW x \in Nat,
           Through(log, n, x), NEW rec \in Sealed,
           rec.ctype = "appdata" => rec.body.id > x
    PROVE  Through(Append(log, rec), n, x)
<1> DEFINE new == Append(log, rec)
<1>1. /\ Len(log) \in Nat
      /\ \A m \in 1 .. Len(log) : new[m] = log[m]
      /\ new[Len(log) + 1] = rec
      /\ Payloads(new) = Payloads(log) \cup (IF rec.ctype = "appdata" THEN {Len(log) + 1} ELSE {})
  BY LogAppend
<1> HIDE DEF new
<1>2. \A m \in Payloads(log) : m \in 1 .. Len(log) /\ new[m] = log[m]
  BY <1>1 DEF Payloads
<1>3. rec.ctype = "appdata" => ~(Len(log) + 1 <= n) /\ ~(rec.body.id <= x)
  <2>1. rec.ctype = "appdata" => rec.body.id \in Nat
    BY DEF Sealed, Body
  <2> QED BY <1>1, <2>1
<1>4. \A m \in Payloads(new) : m <= n <=> new[m].body.id <= x
  BY <1>1, <1>2, <1>3 DEF Through
<1> QED BY <1>4 DEF Through, new

-----------------------------------------------------------------------------
(* The peer's log grows by a record and its write direction goes on. *)
LEMMA PeerWrites ==
    ASSUME TypeOK, PeerLog, NEW ctype \in CTypes, NEW body \in Body,
           PeerEmit(ctype, body),
           pw' = IF ctype = "handshake" /\ Rekeys(body.msgs)
                 THEN [KeyUpdated(pw) EXCEPT !.seq = 0] ELSE Bump(pw)
    PROVE  /\ plog \in Seq(Sealed) /\ Len(plog) \in Nat
           /\ plog' = Append(plog, Protect(pw, ctype, body)) /\ Protect(pw, ctype, body) \in Sealed
           /\ Len(plog') = Len(plog) + 1
           /\ \A m \in 1 .. Len(plog) : plog'[m] = plog[m]
           /\ plog'[Len(plog) + 1] = Protect(pw, ctype, body)
           /\ \A n \in 0 .. Len(plog) : /\ At(n)'.key = At(n).key /\ At(n)'.seq = At(n).seq
                                        /\ At(n)'.iv = At(n).iv
           /\ \A n : n = Len(plog) + 1 => At(n)' = pw'
           /\ At(Len(plog)) = pw
           /\ pw'.secret = pw'.key /\ pw'.iv = pw'.key
           /\ Before(pw, pw') /\ pw'.seq <= Len(plog) + 1 /\ pw.key <= pw'.key
           /\ IF ctype = "handshake" /\ Rekeys(body.msgs)
              THEN pw'.key = pw.key + 1 /\ pw'.seq = 0
              ELSE pw'.key = pw.key /\ pw'.seq = pw.seq + 1
<1> DEFINE rec == Protect(pw, ctype, body)
<1>0. plog' = Append(plog, rec) /\ Len(plog) < MaxPeerRecords
  BY DEF PeerEmit
<1>1. pw \in Direction /\ plog \in Seq(Sealed)
  BY DEF TypeOK, PeerTypeOK
<1>2. rec \in Sealed /\ rec.key = pw.key /\ rec.iv = pw.iv /\ rec.seq = pw.seq
  BY <1>1, ProtectType DEF Protect
<1> HIDE DEF rec
<1>3. /\ Len(plog) \in Nat /\ Len(plog') = Len(plog) + 1
      /\ \A m \in 1 .. Len(plog) : plog'[m] = plog[m]
      /\ plog'[Len(plog) + 1] = rec
  BY <1>0, <1>1, <1>2, LogAppend
<1>4. At(Len(plog)) = pw
  BY <1>3 DEF At
<1>5. pw.secret = pw.key /\ pw.iv = pw.key /\ pw.seq <= Len(plog)
  BY <1>3, <1>4 DEF PeerLog
<1>6. pw.key \in Nat /\ pw.seq \in Nat /\ pw.secret \in Nat
  BY <1>1, Word64Assumption DEF Direction
<1>7. Bump(pw) = [pw EXCEPT !.seq = pw.seq + 1]
  <2>1. pw.seq + 1 < Word64
    BY <1>0, <1>3, <1>5, <1>6, PeerRecordsAssumption, SessionAssumption, Word64Assumption
       DEF MaxRecords
  <2>2. \A x \in Nat, w \in Nat \ {0} : x < w => x % w = x
    OBVIOUS
  <2>3. (pw.seq + 1) % Word64 = pw.seq + 1
    <3>1. PICK x : x = pw.seq + 1
      OBVIOUS
    <3>2. x \in Nat /\ x < Word64
      BY <1>6, <2>1, <3>1
    <3>3. x % Word64 = x
      BY <2>2, <3>2, Word64Assumption
    <3> QED BY <3>1, <3>3
  <2> QED BY <2>3 DEF Bump
<1>8. /\ pw'.secret = pw'.key /\ pw'.iv = pw'.key
      /\ IF ctype = "handshake" /\ Rekeys(body.msgs)
         THEN pw'.key = pw.key + 1 /\ pw'.seq = 0
         ELSE pw'.key = pw.key /\ pw'.seq = pw.seq + 1
  <2>1. CASE ctype = "handshake" /\ Rekeys(body.msgs)
    <3>1. pw' = [KeyUpdated(pw) EXCEPT !.seq = 0]
      BY <2>1
    <3>2. pw'.secret = pw.secret + 1 /\ pw'.key = pw.secret + 1 /\ pw'.iv = pw.secret + 1
             /\ pw'.seq = 0
      BY <1>1, <3>1 DEF KeyUpdated, Direction
    <3> QED BY <1>5, <2>1, <3>2
  <2>2. CASE ~(ctype = "handshake" /\ Rekeys(body.msgs))
    <3>1. pw' = [pw EXCEPT !.seq = pw.seq + 1]
      BY <1>7, <2>2
    <3> QED BY <1>1, <1>5, <2>2, <3>1 DEF Direction
  <2> QED BY <2>1, <2>2
<1>9. Before(pw, pw') /\ pw'.seq <= Len(plog) + 1 /\ pw.key <= pw'.key
  BY <1>3, <1>5, <1>6, <1>8 DEF Before
<1>10. \A n : n = Len(plog) + 1 => At(n)' = pw'
  BY <1>3 DEF At
<1>11. ASSUME NEW n \in 0 .. Len(plog)
       PROVE  /\ At(n)'.key = At(n).key /\ At(n)'.seq = At(n).seq /\ At(n)'.iv = At(n).iv
  <2>1. CASE n < Len(plog)
    <3>1. n + 1 \in 1 .. Len(plog) /\ n < Len(plog')
      BY <1>3, <2>1
    <3>2. At(n)' = plog'[n + 1] /\ At(n) = plog[n + 1]
      BY <2>1, <3>1 DEF At
    <3> QED BY <1>3, <3>1, <3>2
  <2>2. CASE n = Len(plog)
    <3>1. n < Len(plog')
      BY <1>3, <2>2
    <3>2. At(n)' = rec
      BY <1>3, <2>2, <3>1 DEF At
    <3> QED BY <1>2, <1>4, <2>2, <3>2
  <2> QED BY <1>3, <2>1, <2>2
<1> QED BY <1>0, <1>1, <1>2, <1>3, <1>4, <1>8, <1>9, <1>10, <1>11 DEF rec

LEMMA AtType ==
    ASSUME TypeOK, NEW n \in 0 .. Len(plog)
    PROVE  At(n).key \in Nat /\ At(n).seq \in Nat /\ At(n).iv \in Nat
<1>1. plog \in Seq(Sealed) /\ pw \in Direction
  BY DEF TypeOK, PeerTypeOK
<1>2. n < Len(plog) => plog[n + 1] \in Sealed
  BY <1>1
<1> QED BY SMTT(60), <1>1, <1>2, Word64Assumption DEF At, Sealed, Direction

LEMMA PeerLogGrows ==
    ASSUME TypeOK, PeerLog, NEW ctype \in CTypes, NEW body \in Body,
           PeerEmit(ctype, body),
           pw' = IF ctype = "handshake" /\ Rekeys(body.msgs)
                 THEN [KeyUpdated(pw) EXCEPT !.seq = 0] ELSE Bump(pw),
           ctype = "handshake" => body.msgs \in HsBodies,
           ctype = "alert" => peer' # "open",
           IF ctype = "appdata" THEN body.id = pdata + 1 /\ pdata' = pdata + 1
                                ELSE pdata' = pdata
    PROVE  PeerLog'
<1> DEFINE rec == Protect(pw, ctype, body)
<1>n. PICK N : N = Len(plog)
  OBVIOUS
<1>1. /\ plog \in Seq(Sealed) /\ N \in Nat
      /\ plog' = Append(plog, rec) /\ rec \in Sealed /\ Len(plog') = N + 1
      /\ \A m \in 1 .. N : plog'[m] = plog[m]
      /\ plog'[N + 1] = rec
      /\ \A n \in 0 .. N : /\ At(n)'.key = At(n).key /\ At(n)'.seq = At(n).seq
                           /\ At(n)'.iv = At(n).iv
      /\ At(N + 1)' = pw' /\ At(N) = pw
      /\ pw'.secret = pw'.key /\ pw'.iv = pw'.key
      /\ Before(pw, pw') /\ pw'.seq <= N + 1 /\ pw.key <= pw'.key
      /\ IF ctype = "handshake" /\ Rekeys(body.msgs)
         THEN pw'.key = pw.key + 1 /\ pw'.seq = 0
         ELSE pw'.key = pw.key /\ pw'.seq = pw.seq + 1
  BY <1>n, PeerWrites
<1>2. rec.ctype = ctype /\ rec.body = body /\ rec.key = pw.key /\ rec.seq = pw.seq
  BY DEF Protect
<1>3. peer = "open" /\ pdata \in Nat
  BY DEF PeerEmit, TypeOK, PeerTypeOK
<1> HIDE DEF rec
<1>4. ASSUME NEW n \in 0 .. N + 1 PROVE At(n)'.iv = At(n)'.key /\ At(n)'.seq <= n
  <2>1. CASE n \in 0 .. N
    BY <1>n, <1>1, <2>1 DEF PeerLog
  <2>2. CASE n = N + 1
    BY <1>1, <2>2
  <2> QED BY <1>1, <2>1, <2>2
<1>5. ASSUME NEW m \in 1 .. N + 1
      PROVE  /\ plog'[m].ctype = "handshake" => plog'[m].body.msgs \in HsBodies
             /\ plog'[m].ctype = "alert" => m = N + 1 /\ peer' # "open"
             /\ IF plog'[m].ctype = "handshake" /\ Rekeys(plog'[m].body.msgs)
                THEN At(m)'.key = plog'[m].key + 1 /\ At(m)'.seq = 0
                ELSE At(m)'.key = plog'[m].key /\ At(m)'.seq = plog'[m].seq + 1
  <2>1. CASE m \in 1 .. N
    <3>1. plog'[m] = plog[m] /\ m \in 0 .. N
      BY <1>1, <2>1
    <3>2. plog[m].ctype # "alert"
      BY <1>n, <1>3, <2>1 DEF PeerLog
    <3> QED BY <1>n, <1>1, <2>1, <3>1, <3>2 DEF PeerLog
  <2>2. CASE m = N + 1
    BY <1>1, <1>2, <2>2
  <2> QED BY <1>1, <2>1, <2>2
<1>6. ASSUME NEW l \in 0 .. N + 1, NEW m \in 0 .. N + 1, l < m PROVE Before(At(l)', At(m)')
  <2>1. CASE m \in 0 .. N
    <3>1. l \in 0 .. N
      BY <1>1, <1>6, <2>1
    <3>2. Before(At(l), At(m))
      BY <1>n, <1>6, <2>1, <3>1 DEF PeerLog
    <3> QED BY <1>1, <2>1, <3>1, <3>2 DEF Before
  <2>2. CASE m = N + 1
    <3>1. l \in 0 .. N
      BY <1>1, <1>6, <2>2
    <3>2. l = N \/ Before(At(l), At(N))
      BY <1>n, <1>1, <3>1 DEF PeerLog
    <3>3. At(l).key \in Nat /\ At(l).seq \in Nat /\ pw.key \in Nat /\ pw.seq \in Nat
      <4>1. N \in 0 .. N
        BY <1>1
      <4> QED BY <1>1, <3>1, <4>1, <1>n, AtType
    <3>4. pw'.key \in Nat /\ pw'.seq \in Nat
      BY SMTT(60), <1>1, <3>3
    <3>5. At(l)'.key = At(l).key /\ At(l)'.seq = At(l).seq
      BY <1>1, <3>1
    <3>6. Before(At(l), pw')
      BY <1>1, <3>2, <3>3, <3>4 DEF Before
    <3> QED BY <1>1, <2>2, <3>5, <3>6 DEF Before
  <2> QED BY <1>1, <2>1, <2>2
<1>7. Numbered(plog, pdata)'
  <2>1. Numbered(plog, pdata)
    BY DEF PeerLog
  <2>2. /\ ctype # "appdata" => Numbered(Append(plog, rec), pdata)
        /\ (ctype = "appdata" /\ body.id = pdata + 1) => Numbered(Append(plog, rec), pdata + 1)
    BY <1>1, <1>2, <1>3, <2>1, NumberedAppend
  <2>3. Numbered(plog', pdata')
    BY <1>1, <2>2
  <2> QED BY <2>3 DEF Numbered, Payloads
<1>8. pw'.secret = pw'.key /\ pw'.iv = pw'.key /\ Len(plog') = N + 1
  BY <1>1
<1>9. Len(plog') <= MaxPeerRecords
  BY <1>n, <1>1, PeerRecordsAssumption, SessionAssumption DEF PeerEmit
<1> QED BY <1>9, <1>4, <1>5, <1>6, <1>7, <1>8 DEF PeerLog

-----------------------------------------------------------------------------
(* Reading while the peer's log stays as it is. *)
LEMMA AtStays ==
    ASSUME UNCHANGED <<plog, pw>>, NEW n
    PROVE  At(n)' = At(n)
BY DEF At

LEMMA PeerLogStays ==
    ASSUME PeerLog, UNCHANGED <<plog, pw, pdata>>, peer # "open" => peer' # "open"
    PROVE  PeerLog'
<1>1. \A n : At(n)' = At(n)
  BY AtStays
<1>2. /\ pw'.secret = pw'.key /\ pw'.iv = pw'.key /\ Len(plog') <= MaxPeerRecords
      /\ \A m \in 1 .. Len(plog') :
          /\ plog'[m].ctype = "handshake" => plog'[m].body.msgs \in HsBodies
          /\ plog'[m].ctype = "alert" => m = Len(plog') /\ peer' # "open"
          /\ IF plog'[m].ctype = "handshake" /\ Rekeys(plog'[m].body.msgs)
             THEN At(m)'.key = plog'[m].key + 1 /\ At(m)'.seq = 0
             ELSE At(m)'.key = plog'[m].key /\ At(m)'.seq = plog'[m].seq + 1
  BY <1>1 DEF PeerLog
<1>3. \A n \in 0 .. Len(plog') : At(n)'.iv = At(n)'.key /\ At(n)'.seq <= n
  BY <1>1 DEF PeerLog
<1>4. \A l, m \in 0 .. Len(plog') : l < m => Before(At(l)', At(m)')
  BY <1>1 DEF PeerLog
<1>5. Numbered(plog, pdata)'
  BY DEF PeerLog, Numbered, Payloads
<1> QED BY <1>2, <1>3, <1>4, <1>5 DEF PeerLog, Before

LEMMA ReadingStays ==
    ASSUME UNCHANGED <<plog, pw, s, taken>>, NEW n, Reading(n),
           UNCHANGED <<pc, msgs>> \/ pc' \notin {"posths", "answer"}
    PROVE  Reading(n)'
<1>1. At(n)' = At(n)
  BY AtStays
<1>2. /\ Aligned(n) => Aligned(n)'
      /\ Blind => Blind'
      /\ Pending(n) => Pending(n)'
  BY <1>1 DEF Aligned, Blind, Pending
<1>3. Through(plog, n, Len(taken))'
  BY DEF Reading, Through, Payloads
<1>4. Aligned(n)' \/ Blind'
  BY <1>2 DEF Reading
<1>5. ASSUME UNCHANGED <<pc, msgs>>, pc' \in {"posths", "answer"}
      PROVE  \/ Aligned(n)' /\ \A l \in 1 .. Len(msgs') : msgs'[l] \notin Rekeying
             \/ /\ pc' = "posths" /\ Pending(n)' /\ Rekeys(msgs')
                /\ \A l \in 1 .. Len(msgs') - 1 : msgs'[l] \notin Rekeying
  BY <1>2, <1>5 DEF Reading
<1> QED BY <1>3, <1>4, <1>5 DEF Reading, Rekeys

(* Steps that take nothing off the channel and leave the read direction
   alone, or wipe it. *)
Quiet ==
    /\ UNCHANGED <<plog, pw, pdata, taken>>
    /\ peer # "open" => peer' # "open"
    /\ toClient' \in Seq(Honest)
    /\ \/ UNCHANGED <<flags, s>>
       \/ flags' = {}
    /\ \/ UNCHANGED <<pc, msgs>>
       \/ pc' \notin {"posths", "answer"}

LEMMA QuietRecv ==
    ASSUME RecvInv, Quiet
    PROVE  RecvInv'
<1>1. PeerLog'
  BY PeerLogStays DEF RecvInv, Quiet
<1>2. toClient' \in Seq(Honest')
  BY DEF Quiet, Honest
<1>3. /\ \A l \in 1 .. Len(taken') : taken'[l].id = l
      /\ Len(taken') <= pdata'
      /\ "CLOSED" \in flags' => Len(taken') = pdata' /\ peer' # "open"
  BY DEF RecvInv, Quiet
<1>4. ASSUME flags' # {} PROVE \E n \in 0 .. Len(plog') : Reading(n)'
  <2>1. UNCHANGED <<flags, s>> /\ flags # {}
    BY <1>4 DEF Quiet
  <2>2. PICK n \in 0 .. Len(plog) : Reading(n)
    BY <2>1 DEF RecvInv
  <2>3. Reading(n)'
    BY <2>1, <2>2, ReadingStays DEF Quiet
  <2> QED BY <2>2, <2>3 DEF Quiet
<1> QED BY <1>1, <1>2, <1>3, <1>4 DEF RecvInv

-----------------------------------------------------------------------------
(* The peer writes a record: it is the next, and the reader stays where it is. *)
LEMMA PeerWritesRecv ==
    ASSUME TypeOK, RecvInv, NEW ctype \in CTypes, NEW body \in Body,
           PeerEmit(ctype, body),
           pw' = IF ctype = "handshake" /\ Rekeys(body.msgs)
                 THEN [KeyUpdated(pw) EXCEPT !.seq = 0] ELSE Bump(pw),
           ctype = "handshake" => body.msgs \in HsBodies,
           ctype = "alert" => peer' # "open",
           IF ctype = "appdata" THEN body.id = pdata + 1 /\ pdata' = pdata + 1
                                ELSE pdata' = pdata,
           UNCHANGED <<flags, s, pc, msgs, taken>>
    PROVE  RecvInv'
<1> DEFINE rec == Protect(pw, ctype, body)
<1>n. PICK N : N = Len(plog)
  OBVIOUS
<1>0. PeerLog /\ peer = "open" /\ toClient' = Append(toClient, rec)
  BY DEF RecvInv, PeerEmit
<1>1. PeerLog'
  BY <1>0, PeerLogGrows
<1>2. /\ plog \in Seq(Sealed) /\ N \in Nat
      /\ plog' = Append(plog, rec) /\ rec \in Sealed /\ Len(plog') = N + 1
      /\ \A m \in 1 .. N : plog'[m] = plog[m]
      /\ plog'[N + 1] = rec
      /\ \A n \in 0 .. N : /\ At(n)'.key = At(n).key /\ At(n)'.seq = At(n).seq
                           /\ At(n)'.iv = At(n).iv
      /\ pw.key <= pw'.key
      /\ pw'.key = pw.key + 1 \/ pw'.key = pw.key
  BY <1>n, <1>0, PeerWrites
<1>3. rec.ctype = ctype /\ rec.body = body /\ rec.key = pw.key
  BY DEF Protect
<1>4. pdata \in Nat /\ Len(taken) \in Nat /\ pw.key \in Nat /\ s.key \in Nat
  BY DEF TypeOK, PeerTypeOK, HistoryTypeOK, CallTypeOK, Direction
<1> HIDE DEF rec
<1>5. toClient' \in Seq(Honest')
  <2>1. Honest \subseteq Honest'
    <3> SUFFICES ASSUME NEW r \in Honest, r.form = "sealed", r.intact
                 PROVE  \E m \in 1 .. Len(plog') : r = plog'[m]
      BY DEF Honest
    <3>1. PICK m \in 1 .. N : r = plog[m]
      BY <1>n DEF Honest
    <3>2. m \in 1 .. Len(plog') /\ plog'[m] = plog[m]
      BY <1>2
    <3> QED BY <3>1, <3>2
  <2>2. rec \in Honest'
    <3>1. rec \in OnWire
      BY <1>2 DEF OnWire
    <3>2. N + 1 \in 1 .. Len(plog') /\ rec = plog'[N + 1]
      BY <1>2
    <3>3. \E m \in 1 .. Len(plog') : rec = plog'[m]
      BY <3>2
    <3> QED BY <3>1, <3>3 DEF Honest
  <2>3. toClient \in Seq(Honest')
    BY <2>1 DEF RecvInv
  <2> QED BY <1>0, <2>2, <2>3
<1>6. /\ \A l \in 1 .. Len(taken') : taken'[l].id = l
      /\ Len(taken') <= pdata'
      /\ "CLOSED" \in flags' => Len(taken') = pdata' /\ peer' # "open"
  BY <1>0, <1>4 DEF RecvInv
<1>7. ASSUME flags' # {} PROVE \E n \in 0 .. Len(plog') : Reading(n)'
  <2>1. PICK n \in 0 .. N : Reading(n)
    BY <1>n, <1>7 DEF RecvInv
  <2>2. Through(plog, n, Len(taken))'
    <3>1. Through(plog, n, Len(taken))
      BY <2>1 DEF Reading
    <3>2. rec.ctype = "appdata" => rec.body.id > Len(taken)
      BY <1>3, <1>4 DEF RecvInv
    <3>3. Through(plog', n, Len(taken))
      BY <1>n, <1>2, <1>4, <3>1, <3>2, ThroughAppend
    <3> QED BY <3>3 DEF Through, Payloads
  <2>3. At(n)'.key = At(n).key /\ At(n)'.seq = At(n).seq
    BY <1>2
  <2>4. Aligned(n) => Aligned(n)'
    BY <2>3 DEF Aligned
  <2>5. Blind => Blind'
    <3>1. ASSUME s.key < pw.key,
                 \A m \in 1 .. N : ~(plog[m].key = s.key /\ plog[m].seq = s.seq)
          PROVE  /\ s.key < pw'.key
                 /\ \A m \in 1 .. Len(plog') : ~(plog'[m].key = s.key /\ plog'[m].seq = s.seq)
      <4>1. s.key < pw'.key
        BY <1>2, <1>4, <3>1
      <4>2. ASSUME NEW m \in 1 .. N + 1
            PROVE  ~(plog'[m].key = s.key /\ plog'[m].seq = s.seq)
        <5>1. CASE m \in 1 .. N
          BY <1>2, <3>1, <5>1
        <5>2. CASE m = N + 1
          BY <1>2, <1>3, <1>4, <3>1, <5>2
        <5> QED BY <1>2, <5>1, <5>2
      <4> QED BY <1>2, <4>1, <4>2
    <3> QED BY <1>n, <3>1 DEF Blind
  <2>6. Pending(n) => Pending(n)'
    BY <2>3, <2>5 DEF Pending
  <2>7. Reading(n)'
    BY <2>1, <2>2, <2>4, <2>5, <2>6 DEF Reading, Rekeys
  <2>8. n \in 0 .. Len(plog')
    BY <1>2
  <2> QED BY <2>7, <2>8
<1> QED BY <1>1, <1>5, <1>6, <1>7 DEF RecvInv

-----------------------------------------------------------------------------
(* The place of the writer moves on with each record. *)
LEMMA PlacesApart ==
    ASSUME TypeOK, PeerLog, NEW m \in 0 .. Len(plog), NEW n \in 0 .. Len(plog),
           At(m).key = At(n).key, At(m).seq = At(n).seq
    PROVE  m = n
<1>1. /\ At(m).key \in Nat /\ At(m).seq \in Nat
      /\ At(n).key \in Nat /\ At(n).seq \in Nat
  BY AtType
<1>2. ~Before(At(m), At(n)) /\ ~Before(At(n), At(m))
  BY <1>1 DEF Before
<1>3. ~(m < n) /\ ~(n < m)
  BY <1>2 DEF PeerLog
<1> QED BY <1>3

(***************************************************************************)
(* A record that opens is the next one of the peer's log.  After it the    *)
(* read direction stands at the place of the one after that, unless it was *)
(* a KeyUpdate: then it waits to be rekeyed.                               *)
(***************************************************************************)
LEMMA OpenedIsNext ==
    ASSUME TypeOK, RecvInv, NEW ctype, RecvOpened(ctype),
           NEW n \in 0 .. Len(plog), Reading(n), UNCHANGED <<plog, pw>>
    PROVE  /\ n < Len(plog) /\ n + 1 \in 1 .. Len(plog)
           /\ Head(toClient) = plog[n + 1] /\ plog[n + 1].ctype = ctype
           /\ IF ctype = "handshake" /\ Rekeys(plog[n + 1].body.msgs)
              THEN Pending(n + 1)' ELSE Aligned(n + 1)'
<1> DEFINE rec == Head(toClient)
<1>0. PeerLog /\ plog \in Seq(Sealed) /\ Len(plog) \in Nat /\ pw \in Direction
  BY DEF RecvInv, TypeOK, PeerTypeOK
<1>1. /\ rec \in Honest /\ rec \in Sealed /\ rec.form = "sealed"
      /\ s' = Bump(s) /\ rec.ctype = ctype
  <2>1. rec \in Sealed
    BY OpenedIsSealed
  <2>2. rec \in Honest
    BY DEF RecvInv, RecvOpened
  <2> QED BY <2>1, <2>2 DEF Sealed, RecvOpened
<1>2. rec.intact /\ rec.key = s.key /\ rec.iv = s.iv /\ rec.seq = s.seq
  <2>1. RecordError(rec) = "SUCCESS"
    BY DEF RecvOpened
  <2>2. Unprotect(s, rec) = "SUCCESS"
    BY <2>1 DEF RecordError
  <2> QED BY <2>2 DEF Unprotect
<1>3. PICK m \in 1 .. Len(plog) : rec = plog[m]
  BY <1>1, <1>2 DEF Honest
<1> HIDE DEF rec
<1>4. m - 1 \in 0 .. Len(plog) /\ m - 1 < Len(plog) /\ At(m - 1) = plog[m]
  BY <1>0 DEF At
<1>5. s.iv = s.key
  BY <1>0, <1>2, <1>3, <1>4 DEF PeerLog
<1>6. Aligned(n)
  BY <1>2, <1>3, <1>5 DEF Reading, Blind
<1>7. m - 1 = n
  BY <1>0, <1>2, <1>3, <1>4, <1>6, PlacesApart DEF Aligned
<1>8. n < Len(plog) /\ n + 1 \in 1 .. Len(plog) /\ rec = plog[n + 1] /\ n + 1 \in 0 .. Len(plog)
  BY <1>0, <1>3, <1>4, <1>7
<1>9. /\ s \in Direction /\ s.secret = s.key /\ s.iv = s.key
      /\ s.key \in Nat /\ s.seq \in Nat /\ s.seq <= n
  BY <1>0, <1>6, Word64Assumption DEF Aligned, TypeOK, CallTypeOK, Direction, PeerLog
<1>10. s' = [s EXCEPT !.seq = s.seq + 1]
  <2>1. s.seq + 1 < Word64 /\ s.seq + 1 \in Nat
    BY <1>0, <1>8, <1>9, PeerRecordsAssumption, SessionAssumption, Word64Assumption
       DEF MaxRecords, PeerLog
  <2>2. \A x \in Nat, w \in Nat \ {0} : x < w => x % w = x
    OBVIOUS
  <2>3. (s.seq + 1) % Word64 = s.seq + 1
    <3>1. PICK x : x = s.seq + 1
      OBVIOUS
    <3> QED BY <2>1, <2>2, <3>1, Word64Assumption
  <2> QED BY <1>1, <2>3 DEF Bump
<1>11. s'.key = s.key /\ s'.iv = s.key /\ s'.secret = s.key /\ s'.seq = s.seq + 1
  BY <1>9, <1>10 DEF Direction
<1>12. \A l : At(l)' = At(l)
  BY AtStays
<1>13. CASE ~(ctype = "handshake" /\ Rekeys(plog[n + 1].body.msgs))
  <2>1. At(n + 1).key = s.key /\ At(n + 1).seq = s.seq + 1
    BY <1>0, <1>1, <1>2, <1>8, <1>13 DEF PeerLog
  <2>2. Aligned(n + 1)'
    BY <1>11, <1>12, <2>1 DEF Aligned
  <2> QED BY <1>1, <1>8, <1>13, <2>2 DEF rec
<1>14. CASE ctype = "handshake" /\ Rekeys(plog[n + 1].body.msgs)
  <2>1. At(n + 1).key = s.key + 1 /\ At(n + 1).seq = 0
    BY <1>0, <1>1, <1>2, <1>8, <1>14 DEF PeerLog
  <2>2. s.key < pw.key
    <3>1. Len(plog) \in 0 .. Len(plog) /\ At(Len(plog)) = pw
      BY <1>0 DEF At
    <3>2. n + 1 = Len(plog) \/ Before(At(n + 1), pw)
      BY <1>0, <1>8, <3>1 DEF PeerLog
    <3>3. pw.key \in Nat
      BY <1>0 DEF Direction
    <3> QED BY <1>9, <2>1, <3>1, <3>2, <3>3 DEF Before
  <2>3. ASSUME NEW l \in 1 .. Len(plog), plog[l].key = s.key, plog[l].seq = s.seq + 1
        PROVE  FALSE
    <3>1. l - 1 \in 0 .. Len(plog) /\ At(l - 1) = plog[l]
      BY <1>0 DEF At
    <3>2. CASE l - 1 < n + 1
      <4>1. l - 1 = n \/ Before(At(l - 1), At(n))
        BY <1>0, <1>8, <3>1, <3>2 DEF PeerLog
      <4> QED BY <1>6, <1>9, <2>3, <3>1, <4>1 DEF Before, Aligned
    <3>3. CASE n + 1 < l - 1
      <4>1. Before(At(n + 1), At(l - 1))
        BY <1>0, <1>8, <3>1, <3>3 DEF PeerLog
      <4> QED BY <1>9, <2>1, <2>3, <3>1, <4>1 DEF Before
    <3>4. CASE l - 1 = n + 1
      BY <1>9, <2>1, <2>3, <3>1, <3>4
    <3> QED BY <3>2, <3>3, <3>4, <1>8
  <2>4. Blind'
    BY <1>11, <2>2, <2>3 DEF Blind
  <2>5. Pending(n + 1)'
    BY <1>11, <1>12, <2>1, <2>4 DEF Pending
  <2> QED BY <1>1, <1>8, <1>14, <2>5 DEF rec
<1> QED BY <1>13, <1>14

-----------------------------------------------------------------------------
(* One lemma per kind of step that moves the reader on. *)

(* What is left of a step that opens a record besides Reading. *)
LEMMA OpenedRest ==
    ASSUME TypeOK, RecvInv, NEW ctype, RecvOpened(ctype), UNCHANGED peerVars
    PROVE  /\ PeerLog' /\ toClient' \in Seq(Honest') /\ flags = {"ESTABLISHED"}
           /\ UNCHANGED <<plog, pw, pdata, peer>>
           /\ \E n \in 0 .. Len(plog) : Reading(n)
<1>1. UNCHANGED <<plog, pw, pdata, peer>>
  BY DEF peerVars
<1>2. PeerLog'
  BY <1>1, PeerLogStays DEF RecvInv
<1>3. toClient' \in Seq(Honest')
  BY <1>1 DEF RecvInv, RecvOpened, Honest
<1>4. flags = {"ESTABLISHED"}
  BY DEF RecvOpened, TypeOK, CallTypeOK
<1> QED BY <1>1, <1>2, <1>3, <1>4 DEF RecvInv

(* The next record, if it opens, is the next payload or none. *)
LEMMA OpenedPayload ==
    ASSUME TypeOK, RecvInv, NEW n \in 0 .. Len(plog), Reading(n), n < Len(plog)
    PROVE  /\ plog[n + 1].ctype = "appdata" =>
                 /\ plog[n + 1].body.id = Len(taken) + 1 /\ Len(taken) < pdata
                 /\ Through(plog, n + 1, Len(taken) + 1)
           /\ plog[n + 1].ctype # "appdata" => Through(plog, n + 1, Len(taken))
<1>1. /\ plog \in Seq(Sealed) /\ pdata \in Nat /\ Numbered(plog, pdata)
      /\ Len(taken) \in Nat /\ Len(taken) <= pdata
  BY DEF TypeOK, PeerTypeOK, HistoryTypeOK, RecvInv, PeerLog
<1>2. n \in 0 .. Len(plog) - 1 /\ Through(plog, n, Len(taken))
  BY <1>1 DEF Reading
<1> QED BY <1>1, <1>2, NextPayload

LEMMA RecvAppDataRecv ==
    ASSUME TypeOK, RecvInv, RecvAppData
    PROVE  /\ RecvInv'
           /\ Len(taken) < pdata /\ flags = {"ESTABLISHED"}
           /\ \E kept : taken' = Append(taken, [id |-> Len(taken) + 1, kept |-> kept])
<1>0. RecvOpened("appdata") /\ UNCHANGED peerVars /\ pc' = "idle" /\ UNCHANGED flags
  BY DEF RecvAppData, Return
<1>1. /\ PeerLog' /\ toClient' \in Seq(Honest') /\ flags = {"ESTABLISHED"}
      /\ UNCHANGED <<plog, pw, pdata, peer>>
      /\ \E n \in 0 .. Len(plog) : Reading(n)
  BY <1>0, OpenedRest
<1>2. PICK n \in 0 .. Len(plog) : Reading(n)
  BY <1>1
<1>3. /\ n < Len(plog) /\ n + 1 \in 1 .. Len(plog)
      /\ Head(toClient) = plog[n + 1] /\ plog[n + 1].ctype = "appdata"
      /\ Aligned(n + 1)'
  BY <1>0, <1>1, <1>2, OpenedIsNext
<1>4. /\ plog[n + 1].body.id = Len(taken) + 1 /\ Len(taken) < pdata
      /\ Through(plog, n + 1, Len(taken) + 1)
  BY <1>2, <1>3, OpenedPayload
<1>5. PICK kept : taken' = Append(taken, [id |-> Len(taken) + 1, kept |-> kept])
  <2>1. taken' = Append(taken, [id |-> Head(toClient).body.id,
                                kept |-> Head(toClient).body.len <= outCap])
    BY DEF RecvAppData
  <2> QED BY <1>3, <1>4, <2>1
<1>6. /\ Len(taken) \in Nat /\ Len(taken') = Len(taken) + 1
      /\ \A l \in 1 .. Len(taken) : taken'[l] = taken[l]
      /\ taken'[Len(taken) + 1].id = Len(taken) + 1
      /\ pdata \in Nat
  <2> DEFINE t == [id |-> Len(taken) + 1, kept |-> kept]
  <2>1. t.id = Len(taken) + 1 /\ taken' = Append(taken, t)
    BY <1>5
  <2>2. Len(taken) \in Nat /\ pdata \in Nat /\ taken \in Seq([id: Nat, kept: BOOLEAN])
    BY DEF TypeOK, HistoryTypeOK, PeerTypeOK
  <2> HIDE DEF t
  <2> QED BY <2>1, <2>2
<1>7. Reading(n + 1)'
  <2>1. Through(plog, n + 1, Len(taken))'
    BY <1>1, <1>4, <1>6 DEF Through, Payloads
  <2> QED BY <1>0, <1>3, <2>1 DEF Reading
<1>8. n + 1 \in 0 .. Len(plog')
  BY <1>1, <1>3
<1>9. \A l \in 1 .. Len(taken') : taken'[l].id = l
  BY <1>6 DEF RecvInv
<1>10. Len(taken') <= pdata' /\ "CLOSED" \notin flags'
  BY <1>0, <1>1, <1>4, <1>6
<1>11. RecvInv'
  BY <1>1, <1>7, <1>8, <1>9, <1>10 DEF RecvInv
<1> QED BY <1>1, <1>4, <1>5, <1>11

LEMMA RecvHandshakeRecv ==
    ASSUME TypeOK, RecvInv, RecvHandshake
    PROVE  RecvInv'
<1>0. /\ RecvOpened("handshake") /\ UNCHANGED peerVars /\ UNCHANGED <<flags, taken>>
      /\ pc' = "posths" /\ msgs' = Head(toClient).body.msgs
  BY DEF RecvHandshake
<1>1. /\ PeerLog' /\ toClient' \in Seq(Honest') /\ flags = {"ESTABLISHED"}
      /\ UNCHANGED <<plog, pw, pdata, peer>>
      /\ \E n \in 0 .. Len(plog) : Reading(n)
  BY <1>0, OpenedRest
<1>2. PICK n \in 0 .. Len(plog) : Reading(n)
  BY <1>1
<1>3. /\ n < Len(plog) /\ n + 1 \in 1 .. Len(plog)
      /\ Head(toClient) = plog[n + 1] /\ plog[n + 1].ctype = "handshake"
      /\ IF Rekeys(plog[n + 1].body.msgs) THEN Pending(n + 1)' ELSE Aligned(n + 1)'
  BY <1>0, <1>1, <1>2, OpenedIsNext
<1>4. Through(plog, n + 1, Len(taken))
  BY <1>2, <1>3, OpenedPayload
<1>5. msgs' \in HsBodies /\ msgs' = plog[n + 1].body.msgs
  BY <1>0, <1>3 DEF RecvInv, PeerLog
<1>6. \A l \in 1 .. Len(msgs') - 1 : msgs'[l] \notin Rekeying
  BY <1>5, KeyUpdateLastAssumption DEF Rekeying
<1>7. Reading(n + 1)'
  <2>1. Through(plog, n + 1, Len(taken))'
    BY <1>0, <1>1, <1>4 DEF Through, Payloads
  <2>2. CASE Rekeys(msgs')
    <3>1. Pending(n + 1)' /\ Blind'
      BY <1>3, <1>5, <2>2 DEF Pending
    <3> QED BY <1>0, <1>6, <2>1, <2>2, <3>1 DEF Reading, Rekeys
  <2>3. CASE ~Rekeys(msgs')
    <3>1. Aligned(n + 1)'
      BY <1>3, <1>5, <2>3
    <3>2. \A l \in 1 .. Len(msgs') : msgs'[l] \notin Rekeying
      <4>1. msgs' \in Seq(HsMsg)
        BY <1>5, SessionAssumption
      <4>2. msgs' # <<>> => msgs'[Len(msgs')] \notin Rekeying
        BY <2>3 DEF Rekeys
      <4> QED BY <1>6, <4>1, <4>2
    <3> QED BY <1>0, <2>1, <3>1, <3>2 DEF Reading
  <2> QED BY <2>2, <2>3
<1>8. n + 1 \in 0 .. Len(plog')
  BY <1>1, <1>3
<1>9. /\ \A l \in 1 .. Len(taken') : taken'[l].id = l
      /\ Len(taken') <= pdata' /\ "CLOSED" \notin flags'
  BY <1>0, <1>1 DEF RecvInv
<1> QED BY <1>1, <1>7, <1>8, <1>9 DEF RecvInv

(* An alert is the peer's last record: at close_notify all payloads have been
   taken. *)
LEMMA RecvAlertRecv ==
    ASSUME TypeOK, RecvInv, RecvAlert \/ RecvUnknown
    PROVE  /\ RecvInv' /\ flags = {"ESTABLISHED"} /\ UNCHANGED <<taken, pdata>>
           /\ flags' = flags \/ (flags' = flags \cup {"CLOSED"} /\ Len(taken) = pdata)
<1>0. PICK ctype \in {"alert", "unknown"} :
        /\ RecvOpened(ctype) /\ UNCHANGED peerVars /\ UNCHANGED taken /\ pc' = "idle"
        /\ flags' = flags \/ (flags' = flags \cup {"CLOSED"} /\ ctype = "alert")
  BY DEF RecvAlert, RecvUnknown, Return
<1>1. /\ PeerLog' /\ toClient' \in Seq(Honest') /\ flags = {"ESTABLISHED"}
      /\ UNCHANGED <<plog, pw, pdata, peer>>
      /\ \E n \in 0 .. Len(plog) : Reading(n)
  BY <1>0, OpenedRest
<1>2. PICK n \in 0 .. Len(plog) : Reading(n)
  BY <1>1
<1>3. /\ n < Len(plog) /\ n + 1 \in 1 .. Len(plog) /\ plog[n + 1].ctype = ctype
      /\ Aligned(n + 1)'
  BY <1>0, <1>1, <1>2, OpenedIsNext
<1>4. Through(plog, n + 1, Len(taken))
  BY <1>0, <1>2, <1>3, OpenedPayload
<1>5. Reading(n + 1)'
  <2>1. Through(plog, n + 1, Len(taken))'
    BY <1>0, <1>1, <1>4 DEF Through, Payloads
  <2> QED BY <1>0, <1>3, <2>1 DEF Reading
<1>6. n + 1 \in 0 .. Len(plog')
  BY <1>1, <1>3
<1>7. ASSUME ctype = "alert" PROVE Len(taken) = pdata /\ peer # "open"
  <2>1. n + 1 = Len(plog) /\ peer # "open"
    BY <1>3, <1>7 DEF RecvInv, PeerLog
  <2>2. /\ plog \in Seq(Sealed) /\ pdata \in Nat /\ Numbered(plog, pdata)
        /\ Len(taken) \in Nat /\ Len(taken) <= pdata
    BY DEF TypeOK, PeerTypeOK, HistoryTypeOK, RecvInv, PeerLog
  <2> QED BY <1>4, <2>1, <2>2, AllRead
<1>8. /\ \A l \in 1 .. Len(taken') : taken'[l].id = l
      /\ Len(taken') <= pdata'
      /\ "CLOSED" \in flags' => Len(taken') = pdata' /\ peer' # "open"
  BY <1>0, <1>1, <1>7 DEF RecvInv
<1>9. RecvInv'
  BY <1>1, <1>5, <1>6, <1>8 DEF RecvInv
<1> QED BY <1>0, <1>1, <1>7, <1>9

-----------------------------------------------------------------------------
(* Steps of wn_session_posths that stay in the call. *)
LEMMA PostHsRecv ==
    ASSUME TypeOK, RecvInv,
           PostHsTicket \/ PostHsKeyUpdate \/ PostHsKeyUpdateFails \/ AnswerKeyUpdate
    PROVE  RecvInv' /\ UNCHANGED <<flags, taken, pdata>>
<1>0. /\ UNCHANGED <<plog, pw, pdata, peer, flags, taken, toClient>>
      /\ pc \in {"posths", "answer"}
  BY DEF PostHsTicket, PostHsKeyUpdate, PostHsKeyUpdateFails, AnswerKeyUpdate,
     peerVars, sessVars, wireVars
<1>1. PeerLog'
  BY <1>0, PeerLogStays DEF RecvInv
<1>2. toClient' \in Seq(Honest')
  BY <1>0 DEF RecvInv, Honest
<1>3. flags = {"ESTABLISHED"} /\ s \in Direction /\ msgs \in Seq(HsMsg \cup Alerts)
  BY <1>0 DEF TypeOK, CallTypeOK
<1>4. /\ \A l \in 1 .. Len(taken') : taken'[l].id = l
      /\ Len(taken') <= pdata'
      /\ "CLOSED" \in flags' => Len(taken') = pdata' /\ peer' # "open"
  BY <1>0 DEF RecvInv
<1>5. PICK n \in 0 .. Len(plog) : Reading(n)
  BY <1>3 DEF RecvInv
<1>6. Through(plog, n, Len(taken))'
  BY <1>0, <1>5 DEF Reading, Through, Payloads
<1>7. At(n)' = At(n)
  BY <1>0, AtStays
<1>8. UNCHANGED s => /\ Aligned(n) => Aligned(n)'
                     /\ Blind => Blind'
                     /\ Pending(n) => Pending(n)'
  BY <1>0, <1>7 DEF Aligned, Blind, Pending
<1>9. ASSUME Head(msgs) \in Rekeying, msgs # <<>>
      PROVE  pc = "posths" /\ Pending(n) /\ Len(msgs) = 1
  <2>1. Len(msgs) \in Nat /\ 1 \in 1 .. Len(msgs) /\ msgs[1] = Head(msgs)
    BY <1>3, <1>9
  <2>2. pc = "posths" /\ Pending(n) /\ \A l \in 1 .. Len(msgs) - 1 : msgs[l] \notin Rekeying
    BY <1>0, <1>5, <1>9, <2>1 DEF Reading
  <2>3. 1 \notin 1 .. Len(msgs) - 1
    BY <1>9, <2>1, <2>2
  <2>4. PICK k : k = Len(msgs)
    OBVIOUS
  <2>5. k \in Nat /\ k >= 1 /\ 1 \notin 1 .. k - 1
    BY <2>1, <2>3, <2>4
  <2>6. k = 1
    BY <2>5
  <2> QED BY <2>2, <2>4, <2>6
<1>10. ASSUME PostHsTicket PROVE Reading(n)'
  <2>1. /\ msgs # <<>> /\ Head(msgs) = "nst" /\ msgs' = Tail(msgs)
        /\ pc = "posths" /\ UNCHANGED <<s, pc>>
    BY <1>10 DEF PostHsTicket, sessVars
  <2>2. /\ Len(msgs) \in Nat \ {0} /\ Len(msgs') = Len(msgs) - 1
        /\ \A l \in 1 .. Len(msgs) - 1 : msgs'[l] = msgs[l + 1]
        /\ msgs[1] \notin Rekeying
    BY <1>3, <2>1 DEF Rekeying
  <2>3. CASE Aligned(n) /\ \A l \in 1 .. Len(msgs) : msgs[l] \notin Rekeying
    <3>1. \A l \in 1 .. Len(msgs') : msgs'[l] \notin Rekeying
      BY <2>2, <2>3
    <3> QED BY <1>6, <1>8, <2>1, <2>3, <3>1 DEF Reading
  <2>4. CASE /\ Pending(n) /\ Rekeys(msgs)
             /\ \A l \in 1 .. Len(msgs) - 1 : msgs[l] \notin Rekeying
    <3>1. Len(msgs) # 1
      BY <2>2, <2>4 DEF Rekeys
    <3>2. \A l \in 1 .. Len(msgs') - 1 : msgs'[l] \notin Rekeying
      BY <2>2, <2>4
    <3>3. msgs' # <<>> /\ msgs'[Len(msgs')] = msgs[Len(msgs)]
      BY <2>2, <3>1
    <3>4. Rekeys(msgs')
      BY <2>4, <3>3 DEF Rekeys
    <3>5. Pending(n)' /\ Blind'
      BY <1>8, <2>1, <2>4 DEF Pending
    <3> QED BY <1>6, <2>1, <3>2, <3>4, <3>5 DEF Reading, Rekeys
  <2> QED BY <1>5, <2>1, <2>3, <2>4 DEF Reading
<1>11. ASSUME PostHsKeyUpdate PROVE Reading(n)'
  <2>1. /\ msgs # <<>> /\ Head(msgs) \in Rekeying /\ msgs' = Tail(msgs)
        /\ s' = [KeyUpdated(s) EXCEPT !.seq = 0]
    BY <1>11 DEF PostHsKeyUpdate, Rekeying
  <2>2. Pending(n) /\ Len(msgs) = 1
    BY <1>9, <2>1
  <2>3. /\ s'.secret = s.secret + 1 /\ s'.key = s.secret + 1 /\ s'.iv = s.secret + 1
        /\ s'.seq = 0
    BY <1>3, <2>1 DEF KeyUpdated, Direction
  <2>4. Aligned(n)'
    BY <1>7, <2>2, <2>3 DEF Pending, Aligned
  <2>5. \A l \in 1 .. Len(msgs') : msgs'[l] \notin Rekeying
    BY <1>3, <2>1, <2>2
  <2> QED BY <1>6, <2>4, <2>5 DEF Reading
<1>12. ASSUME PostHsKeyUpdateFails PROVE Reading(n)'
  <2>1. /\ msgs # <<>> /\ Head(msgs) \in Rekeying /\ pc' = "idle"
        /\ s' \in KeyUpdateFailures(s)
    BY <1>12 DEF PostHsKeyUpdateFails, Rekeying, Return
  <2>2. Pending(n)
    BY <1>9, <2>1
  <2>3. \/ s'.key = s.key /\ s'.iv = s.iv /\ s'.seq = s.seq
        \/ s'.key = s.secret + 1 /\ s'.iv = s.iv
    BY <1>3, <2>1 DEF KeyUpdateFailures, Direction
  <2>4. s.secret \in Nat
    BY <1>3 DEF Direction
  <2>5. Blind'
    BY <1>0, <2>2, <2>3, <2>4 DEF Pending, Blind
  <2> QED BY <1>6, <2>1, <2>5 DEF Reading
<1>13. ASSUME AnswerKeyUpdate PROVE Reading(n)'
  <2>1. pc = "answer" /\ UNCHANGED <<s, msgs>>
    BY <1>13 DEF AnswerKeyUpdate
  <2>2. Aligned(n) /\ \A l \in 1 .. Len(msgs) : msgs[l] \notin Rekeying
    BY <1>5, <2>1 DEF Reading
  <2> QED BY <1>6, <1>8, <2>1, <2>2 DEF Reading
<1>14. Reading(n)'
  BY <1>10, <1>11, <1>12, <1>13
<1>15. n \in 0 .. Len(plog')
  BY <1>0
<1> QED BY <1>0, <1>1, <1>2, <1>4, <1>14, <1>15 DEF RecvInv

(* What the transport does to what is under way leaves it the peer's. *)
LEMMA TransportHonest ==
    ASSUME TypeOK, RecvInv, TransportFault
    PROVE  toClient' \in Seq(Honest)
<1>1. toClient \in Seq(Honest)
  BY DEF RecvInv
<1>2. DOMAIN toClient = 1 .. Len(toClient) /\ Len(toClient) \in Nat
  BY <1>1
<1>3. \A i \in DOMAIN toClient : toClient[i] \in Honest
  BY <1>1, <1>2
<1>4. ASSUME NEW i \in DOMAIN toClient, toClient' = Without(toClient, i)
      PROVE  toClient' \in Seq(Honest)
  BY <1>1, <1>4, WithoutType
<1>5. ASSUME NEW i \in DOMAIN toClient, toClient' = Append(toClient, toClient[i])
      PROVE  toClient' \in Seq(Honest)
  BY <1>1, <1>3, <1>5, AppendType
<1>6. ASSUME NEW i \in DOMAIN toClient, NEW j \in DOMAIN toClient,
             toClient' = [toClient EXCEPT ![i] = toClient[j], ![j] = toClient[i]]
      PROVE  toClient' \in Seq(Honest)
  <2>1. [toClient EXCEPT ![i] = toClient[j]] \in Seq(Honest)
    BY <1>1, <1>3, ExceptSeq
  <2>2. i \in 1 .. Len([toClient EXCEPT ![i] = toClient[j]]) /\
        j \in 1 .. Len([toClient EXCEPT ![i] = toClient[j]])
    BY <1>1, <1>2, <1>3, ExceptSeq
  <2>3. [[toClient EXCEPT ![i] = toClient[j]] EXCEPT ![j] = toClient[i]] \in Seq(Honest)
    BY <1>3, <2>1, <2>2, ExceptSeq
  <2> QED BY <1>6, <2>3
<1>7. ASSUME NEW i \in DOMAIN toClient, toClient[i].form = "sealed",
             toClient' = [toClient EXCEPT ![i] = Torn(toClient[i])]
      PROVE  toClient' \in Seq(Honest)
  <2>1. toClient[i] \in Sealed
    <3>1. toClient[i] \in OnWire
      BY <1>3 DEF Honest
    <3> QED BY <1>7, <3>1 DEF OnWire, Plain, PlainForms
  <2>2. Torn(toClient[i]) \in Sealed /\ ~Torn(toClient[i]).intact
    BY <2>1, TornType DEF Torn, Sealed
  <2>3. Torn(toClient[i]) \in Honest
    BY <2>2 DEF Honest, OnWire
  <2> QED BY <1>1, <1>7, <2>3, ExceptSeq
<1>8. ASSUME NEW i \in 0 .. Len(toClient), NEW form \in PlainForms,
             toClient' = Insert(toClient, i, Plain(form))
      PROVE  toClient' \in Seq(Honest)
  <2>1. Plain(form) \in Honest
    BY DEF Honest, OnWire, Plain, PlainForms
  <2> QED BY <1>1, <1>8, <2>1, InsertType
<1> QED BY <1>4, <1>5, <1>6, <1>7, <1>8 DEF TransportFault

-----------------------------------------------------------------------------
(* The invariant, and every step as a step of the channel. *)
LEMMA RecvInvInit == Init => RecvInv
<1> SUFFICES ASSUME Init PROVE RecvInv
  OBVIOUS
<1>1. /\ plog = <<>> /\ Len(plog) = 0 /\ toClient = <<>> /\ taken = <<>> /\ Len(taken) = 0
      /\ pdata = 0 /\ pc = "idle" /\ flags = {"ESTABLISHED"}
      /\ pw = FreshDirection /\ s = FreshDirection
  BY DEF Init
<1>2. \A n \in 0 .. Len(plog) : n = 0 /\ At(n) = FreshDirection
  BY <1>1 DEF At
<1>3. /\ FreshDirection.key = 1 /\ FreshDirection.secret = 1 /\ FreshDirection.iv = 1
      /\ FreshDirection.seq = 0
  BY DEF FreshDirection
<1>4. Payloads(plog) = {}
  BY <1>1 DEF Payloads
<1>5. PeerLog
  <2>1. pw.secret = pw.key /\ pw.iv = pw.key /\ Len(plog) <= MaxPeerRecords
    BY <1>1, <1>3, SessionAssumption
  <2>2. \A n \in 0 .. Len(plog) : At(n).iv = At(n).key /\ At(n).seq <= n
    BY <1>1, <1>2, <1>3
  <2>3. \A m \in 1 .. Len(plog) : FALSE
    BY <1>1
  <2>4. \A l, m \in 0 .. Len(plog) : ~(l < m)
    BY <1>1
  <2>5. Numbered(plog, pdata)
    BY <1>1, <1>4 DEF Numbered
  <2> QED BY <2>1, <2>2, <2>3, <2>4, <2>5 DEF PeerLog
<1>6. toClient \in Seq(Honest)
  BY <1>1
<1>7. Reading(0) /\ 0 \in 0 .. Len(plog)
  <2>1. 0 \in 0 .. Len(plog)
    BY <1>1
  <2>2. Aligned(0)
    BY <1>1, <1>2, <1>3, <2>1 DEF Aligned
  <2> QED BY <1>1, <1>4, <2>1, <2>2 DEF Reading, Through
<1> QED BY <1>1, <1>5, <1>6, <1>7 DEF RecvInv

(* The channel's view of a step: nothing, or one of its four steps. *)
ChannelStep ==
    \/ UNCHANGED <<pdata, taken, flags>>
    \/ pdata' = pdata + 1 /\ "CLOSED" \notin flags /\ UNCHANGED <<taken, flags>>
    \/ /\ flags = {"ESTABLISHED"} /\ Len(taken) < pdata /\ UNCHANGED <<pdata, flags>>
       /\ \E kept : taken' = Append(taken, [id |-> Len(taken) + 1, kept |-> kept])
    \/ /\ flags = {"ESTABLISHED"} /\ Len(taken) = pdata /\ UNCHANGED <<pdata, taken>>
       /\ flags' = {"ESTABLISHED", "CLOSED"}
    \/ flags' = {} /\ UNCHANGED <<pdata, taken>>

(* Steps of the call that leave what is under way alone or read it away. *)
LEMMA ReadAway ==
    ASSUME TypeOK, RecvInv,
           \/ UNCHANGED toClient
           \/ toClient # <<>> /\ toClient' = Tail(toClient)
           \/ \E k \in 1 .. Len(toClient) : toClient' = SubSeq(toClient, k + 1, Len(toClient))
    PROVE  toClient' \in Seq(Honest)
<1>1. toClient \in Seq(Honest)
  BY DEF RecvInv
<1>2. ASSUME NEW k \in 1 .. Len(toClient), toClient' = SubSeq(toClient, k + 1, Len(toClient))
      PROVE  toClient' \in Seq(Honest)
  BY <1>1, <1>2
<1> QED BY SMTT(60), <1>1, <1>2

LEMMA RecvNext ==
    ASSUME TypeOK, RecvInv, [Next]_vars
    PROVE  RecvInv' /\ ChannelStep
<1> DEFINE Goal == RecvInv' /\ ChannelStep
<1>q. ASSUME Quiet, UNCHANGED <<pdata, taken>> PROVE Goal
  <2>1. ChannelStep
    BY <1>q DEF Quiet, ChannelStep
  <2> QED BY <1>q, <2>1, QuietRecv
<1>c. ASSUME UNCHANGED toClient PROVE toClient' \in Seq(Honest)
  BY <1>c DEF RecvInv
<1> HIDE DEF Goal
<1>1. ASSUME NEW len \in DataLens, wn_Send(len) PROVE Goal
  <2>1. Quiet /\ UNCHANGED <<pdata, taken>>
    BY <1>1, <1>c DEF wn_Send, SendRefused, SendCryptoFails, SendRecord, Return, Quiet,
       sessVars, peerVars, wireVars
  <2> QED BY <1>q, <2>1
<1>2. ASSUME wn_Recv PROVE Goal
  <2>1. Quiet /\ UNCHANGED <<pdata, taken>>
    BY <1>2, <1>c DEF wn_Recv, RecvRefused, RecvCall, Quiet, sessVars, peerVars, wireVars
  <2> QED BY <1>q, <2>1
<1>3. ASSUME wn_Close PROVE Goal
  <2>1. Quiet /\ UNCHANGED <<pdata, taken>>
    BY <1>3, <1>c DEF wn_Close, CloseWithNotify, CloseCryptoFails, CloseQuietly,
       ForceZeroSession, Return, Quiet, peerVars, wireVars
  <2> QED BY <1>q, <2>1
<1>4. ASSUME IoRecvFails \/ PostHsDone \/ PostHsError \/ AnswerIoFails \/ AnswerCryptoFails
      PROVE  Goal
  <2>1. UNCHANGED <<plog, pw, pdata, taken, peer, flags, s, toClient>>
    BY <1>4 DEF IoRecvFails, PostHsDone, PostHsError, AnswerIoFails, AnswerCryptoFails,
       sessVars, peerVars, wireVars
  <2>2. pc' \notin {"posths", "answer"}
    BY <1>4 DEF IoRecvFails, PostHsDone, PostHsError, AnswerIoFails, AnswerCryptoFails, Return
  <2>3. Quiet
    BY <1>c, <2>1, <2>2 DEF Quiet
  <2> QED BY <1>q, <2>1, <2>3
<1>5. ASSUME RecvMisaligned \/ RecvBadRecord PROVE Goal
  <2>1. UNCHANGED <<plog, pw, pdata, taken, peer, flags, s>>
    BY <1>5 DEF RecvMisaligned, RecvBadRecord, sessVars, peerVars
  <2>2. pc' \notin {"posths", "answer"}
    BY <1>5 DEF RecvMisaligned, RecvBadRecord, Return
  <2>3. toClient' \in Seq(Honest)
    BY <1>5, ReadAway DEF RecvMisaligned, RecvBadRecord
  <2> QED BY <1>q, <2>1, <2>2, <2>3 DEF Quiet
<1>6. ASSUME RecvAppData PROVE Goal
  <2>1. UNCHANGED <<pdata, flags>>
    BY <1>6 DEF RecvAppData, peerVars
  <2> QED BY <1>6, <2>1, RecvAppDataRecv DEF Goal, ChannelStep
<1>7. ASSUME RecvHandshake PROVE Goal
  <2>1. UNCHANGED <<pdata, taken, flags>>
    BY <1>7 DEF RecvHandshake, peerVars
  <2> QED BY <1>7, <2>1, RecvHandshakeRecv DEF Goal, ChannelStep
<1>8. ASSUME RecvAlert \/ RecvUnknown PROVE Goal
  <2>1. /\ RecvInv' /\ flags = {"ESTABLISHED"} /\ UNCHANGED <<taken, pdata>>
        /\ flags' = flags \/ (flags' = flags \cup {"CLOSED"} /\ Len(taken) = pdata)
    BY <1>8, RecvAlertRecv
  <2> QED BY <2>1 DEF Goal, ChannelStep
<1>9. ASSUME PostHsTicket \/ PostHsKeyUpdate \/ PostHsKeyUpdateFails \/ AnswerKeyUpdate
      PROVE  Goal
  BY <1>9, PostHsRecv DEF Goal, ChannelStep
<1>o. ASSUME NEW ctype, NEW body, PeerEmit(ctype, body) PROVE "CLOSED" \notin flags
  BY <1>o DEF PeerEmit, RecvInv
<1>10. ASSUME NEW len \in DataLens, PeerData(len) PROVE Goal
  <2> DEFINE body == Data(pdata + 1, len)
  <2>1. /\ PeerEmit("appdata", body) /\ pdata' = pdata + 1 /\ pw' = Bump(pw)
        /\ UNCHANGED <<flags, s, pc, msgs, taken>>
    BY <1>10 DEF PeerData, sessVars, callVars
  <2>2. body \in Body /\ body.id = pdata + 1
    BY BodyTypes, SessionAssumption DEF TypeOK, PeerTypeOK, Data
  <2> HIDE DEF body
  <2>3. RecvInv'
    BY <2>1, <2>2, PeerWritesRecv DEF CTypes
  <2> QED BY <1>o, <2>1, <2>3 DEF Goal, ChannelStep
<1>11. ASSUME NEW q \in HsBodies, PeerHandshake(q) PROVE Goal
  <2> DEFINE body == Messages(q)
  <2>1. /\ PeerEmit("handshake", body) /\ UNCHANGED <<flags, s, pc, msgs, taken, pdata>>
        /\ pw' = IF Rekeys(q) THEN [KeyUpdated(pw) EXCEPT !.seq = 0] ELSE Bump(pw)
    BY <1>11 DEF PeerHandshake, sessVars, callVars, Rekeys, Rekeying
  <2>2. body \in Body /\ body.msgs = q
    BY BodyTypes, HsBodyType DEF Messages
  <2> HIDE DEF body
  <2>3. RecvInv'
    BY <2>1, <2>2, PeerWritesRecv DEF CTypes
  <2> QED BY <2>1, <2>3 DEF Goal, ChannelStep
<1>12. ASSUME NEW alert \in Alerts, PeerAlert(alert) PROVE Goal
  <2> DEFINE body == Messages(<<alert>>)
  <2>1. /\ PeerEmit("alert", body) /\ UNCHANGED <<flags, s, pc, msgs, taken, pdata>>
        /\ pw' = Bump(pw) /\ peer' # "open"
    BY <1>12 DEF PeerAlert, sessVars, callVars
  <2>2. body \in Body
    BY BodyTypes
  <2> HIDE DEF body
  <2>3. RecvInv'
    BY <2>1, <2>2, PeerWritesRecv DEF CTypes
  <2> QED BY <2>1, <2>3 DEF Goal, ChannelStep
<1>13. ASSUME NEW ctype \in {"unknown", "padding"}, PeerOddContent(ctype) PROVE Goal
  <2> DEFINE body == Messages(<<>>)
  <2>1. /\ PeerEmit(ctype, body) /\ UNCHANGED <<flags, s, pc, msgs, taken, pdata>>
        /\ pw' = Bump(pw)
    BY <1>13 DEF PeerOddContent, sessVars, callVars
  <2>2. body \in Body
    BY BodyTypes
  <2> HIDE DEF body
  <2>3. RecvInv'
    BY <2>1, <2>2, PeerWritesRecv DEF CTypes
  <2> QED BY <2>1, <2>3 DEF Goal, ChannelStep
<1>14. ASSUME PeerRecv PROVE Goal
  <2>1. UNCHANGED <<plog, pw, pdata, taken, flags, s, toClient, pc, msgs>>
    BY <1>14 DEF PeerRecv, sessVars, callVars
  <2>2. peer' = peer \/ peer' = "dead"
    BY <1>14 DEF PeerRecv
  <2> QED BY <1>c, <1>q, <2>1, <2>2 DEF Quiet
<1>15. ASSUME TransportFault PROVE Goal
  <2>1. UNCHANGED <<plog, pw, pdata, taken, flags, s, peer, pc, msgs>>
    BY <1>15 DEF TransportFault, sessVars, callVars, peerVars
  <2> QED BY <1>15, <1>q, <2>1, TransportHonest DEF Quiet
<1>16. ASSUME UNCHANGED vars PROVE Goal
  <2>1. UNCHANGED <<plog, pw, pdata, taken, flags, s, peer, pc, msgs, toClient>>
    BY <1>16 DEF vars, sessVars, callVars, peerVars, wireVars
  <2> QED BY <1>c, <1>q, <2>1 DEF Quiet
<1>17. Goal
  BY Zenon, <1>1, <1>2, <1>3, <1>4, <1>5, <1>6, <1>7, <1>8, <1>9, <1>10, <1>11,
           <1>12, <1>13, <1>14, <1>15, <1>16
     DEF Next, Caller, CallStep, RecvStep, PostHsStep, PeerStep
<1> QED BY <1>17 DEF Goal

(* What has been taken, as the channel sees it. *)
Got == [i \in 1 .. Len(taken) |-> taken[i].id]

LEMMA GotGrows ==
    ASSUME TypeOK, NEW kept, taken' = Append(taken, [id |-> Len(taken) + 1, kept |-> kept])
    PROVE  Got' = Append(Got, Len(Got) + 1) /\ Len(Got) = Len(taken)
<1> DEFINE t == [id |-> Len(taken) + 1, kept |-> kept]
<1>1. t.id = Len(taken) + 1 /\ taken' = Append(taken, t) /\ Len(taken) \in Nat
  BY DEF TypeOK, HistoryTypeOK
<1>2. taken \in Seq([id: Nat, kept: BOOLEAN])
  BY DEF TypeOK, HistoryTypeOK
<1> HIDE DEF t
<1>3. /\ Len(taken') = Len(taken) + 1
      /\ \A i \in 1 .. Len(taken) : taken'[i] = taken[i]
      /\ taken'[Len(taken) + 1] = t
  BY <1>1, <1>2
<1>4. \A i \in 1 .. Len(taken) : taken[i].id \in Nat
  <2>1. \A i \in 1 .. Len(taken) : taken[i] \in [id: Nat, kept: BOOLEAN]
    BY <1>2, ElementOfSeq
  <2> QED BY <2>1
<1>5. Got \in Seq(Nat) /\ Len(Got) = Len(taken)
  BY <1>1, <1>4 DEF Got
<1>6. Got' = [i \in 1 .. Len(taken) + 1 |-> taken'[i].id]
  BY <1>3 DEF Got
<1>7. Append(Got, Len(Got) + 1) = [i \in 1 .. Len(Got) + 1 |->
                                     IF i = Len(Got) + 1 THEN Len(Got) + 1 ELSE Got[i]]
  BY <1>5
<1>8. \A i \in 1 .. Len(taken) + 1 :
        taken'[i].id = IF i = Len(Got) + 1 THEN Len(Got) + 1 ELSE Got[i]
  BY <1>1, <1>3, <1>5 DEF Got
<1> QED BY <1>5, <1>6, <1>7, <1>8

(***************************************************************************)
(* From the peer to the caller of wn_Recv, under any loss, repetition,     *)
(* reordering and damage of records, any failed call and any key updates:  *)
(* wn_Recv implements WnChannel.                                           *)
(***************************************************************************)
THEOREM RecvImplementsChannel == Spec => RecvIsChannel
<1>1. Init => TypeOK /\ RecvInv
  BY TypeInit, RecvInvInit
<1>2. TypeOK /\ RecvInv /\ [Next]_vars => (TypeOK /\ RecvInv)'
  BY TypeStep, RecvNext
<1>3. Init => In!ChannelInit
  BY DEF Init, In!ChannelInit
<1>4. TypeOK /\ RecvInv /\ [Next]_vars => [In!ChannelNext]_In!cvars
  <2> SUFFICES ASSUME TypeOK, RecvInv, [Next]_vars PROVE [In!ChannelNext]_In!cvars
    OBVIOUS
  <2>1. ChannelStep
    BY RecvNext
  <2>2. CASE UNCHANGED <<pdata, taken, flags>>
    BY <2>2 DEF In!cvars
  <2>3. CASE pdata' = pdata + 1 /\ "CLOSED" \notin flags /\ UNCHANGED <<taken, flags>>
    <3>1. In!Put
      BY <2>3 DEF In!Put
    <3> QED BY <3>1 DEF In!ChannelNext
  <2>4. CASE /\ flags = {"ESTABLISHED"} /\ Len(taken) < pdata /\ UNCHANGED <<pdata, flags>>
             /\ \E kept : taken' = Append(taken, [id |-> Len(taken) + 1, kept |-> kept])
    <3>1. Got' = Append(Got, Len(Got) + 1) /\ Len(Got) = Len(taken)
      BY <2>4, GotGrows
    <3>2. In!Take
      BY <2>4, <3>1 DEF In!Take, Got
    <3> QED BY <3>2 DEF In!ChannelNext
  <2>5. CASE /\ flags = {"ESTABLISHED"} /\ Len(taken) = pdata /\ UNCHANGED <<pdata, taken>>
             /\ flags' = {"ESTABLISHED", "CLOSED"}
    <3>1. Len(Got) = Len(taken)
      BY DEF Got, TypeOK, HistoryTypeOK
    <3>2. In!EndOfStream
      BY <2>5, <3>1 DEF In!EndOfStream, Got
    <3> QED BY <3>2 DEF In!ChannelNext
  <2>6. CASE flags' = {} /\ UNCHANGED <<pdata, taken>>
    <3>1. In!LetGo
      BY <2>6 DEF In!LetGo
    <3> QED BY <3>1 DEF In!ChannelNext
  <2> QED BY <2>1, <2>2, <2>3, <2>4, <2>5, <2>6 DEF ChannelStep
<1> QED BY <1>1, <1>2, <1>3, <1>4, PTL DEF Spec, RecvIsChannel, In!ChannelSpec

-----------------------------------------------------------------------------
(***************************************************************************)
(* The other direction.  The wire to the peer keeps the order but may lose *)
(* or tear what a failed ioSend was given, and the peer gives up at the    *)
(* first record that does not open.  What seals the client's (n + 1)st     *)
(* record: that record, or the client's write direction.                   *)
(***************************************************************************)
CAt(n) == IF n < Len(wrote) THEN wrote[n + 1] ELSE c

Places == IF flags = {} THEN 0 .. Len(wrote) - 1 ELSE 0 .. Len(wrote)

ClientLog ==
    /\ \A m \in 1 .. Len(wrote) :
          /\ wrote[m].ctype \in {"appdata", "handshake", "alert"}
          /\ wrote[m].seq < m
          /\ wrote[m].ctype = "alert" => m = Len(wrote) /\ flags = {}
    /\ \A n \in Places :
          /\ n = 0 => CAt(n).key = 1 /\ CAt(n).seq = 0
          /\ n > 0 /\ wrote[n].ctype = "appdata" =>
                CAt(n).key = wrote[n].key /\ CAt(n).seq = wrote[n].seq + 1
    /\ Numbered(wrote, cdata)

(* The peer's read direction after it has accepted the first n records. *)
PeerAt(n) ==
    IF n = 0 THEN pr.key = 1 /\ pr.seq = 0
    ELSE IF wrote[n].ctype = "handshake" THEN pr.seq = 0
    ELSE pr.key = wrote[n].key /\ pr.seq = wrote[n].seq + 1

(***************************************************************************)
(* The peer has accepted the first at[0] records, and record at[j] is the  *)
(* jth on the wire to it.  The first record under a new key never gets     *)
(* there without the KeyUpdate before it: wn_session_send_key_update       *)
(* rekeys only when ioSend took the whole KeyUpdate.                       *)
(***************************************************************************)
UnderWay(at) ==
    /\ \A j \in 0 .. Len(toPeer) : at[j] \in 0 .. Len(wrote)
    /\ \A j \in 1 .. Len(toPeer) :
          /\ at[j - 1] < at[j]
          /\ toPeer[j] \in {wrote[at[j]], Torn(wrote[at[j]])}
          /\ wrote[at[j]].seq = 0 /\ at[j] > 1 => at[j - 1] = at[j] - 1
    /\ flags # {} /\ c.seq = 0 => at[Len(toPeer)] = Len(wrote)
    /\ PeerAt(at[0])
    /\ Through(wrote, at[0], Len(pgot))
    /\ pEof => at[0] = Len(wrote)

SendInv ==
    /\ ClientLog
    /\ Len(pgot) <= cdata
    /\ pEof => flags = {} /\ Len(pgot) = cdata
    /\ peer # "dead" => \E at \in [0 .. Len(toPeer) -> 0 .. Len(wrote)] : UnderWay(at)

-----------------------------------------------------------------------------
(* Steps that seal nothing and that the peer does not read in. *)
SendQuiet ==
    /\ UNCHANGED <<wrote, toPeer, pr, pgot, pEof, cdata>>
    /\ \/ UNCHANGED c /\ (flags' = {} <=> flags = {})
       \/ flags' = {}
    /\ peer' # "dead" => peer # "dead"

LEMMA ClientLogStays ==
    ASSUME ClientLog, UNCHANGED <<wrote, cdata>>,
           (UNCHANGED c /\ (flags' = {} <=> flags = {})) \/ flags' = {}
    PROVE  ClientLog'
<1>1. Places' \subseteq Places /\ \A n \in Places' : CAt(n)' = CAt(n)
  <2>1. CASE UNCHANGED c /\ (flags' = {} <=> flags = {})
    BY <2>1 DEF Places, CAt
  <2>2. CASE flags' = {}
    <3>1. Places' = 0 .. Len(wrote) - 1
      BY <2>2 DEF Places
    <3>2. 0 .. Len(wrote) - 1 \subseteq Places
      BY DEF Places
    <3>3. \A n \in 0 .. Len(wrote) - 1 : n < Len(wrote)
      OBVIOUS
    <3> QED BY <3>1, <3>2, <3>3 DEF CAt
  <2> QED BY <2>1, <2>2
<1>2. \A m \in 1 .. Len(wrote') :
          /\ wrote'[m].ctype \in {"appdata", "handshake", "alert"}
          /\ wrote'[m].seq < m
          /\ wrote'[m].ctype = "alert" => m = Len(wrote') /\ flags' = {}
  BY DEF ClientLog
<1>3. \A n \in Places' :
          /\ n = 0 => CAt(n)'.key = 1 /\ CAt(n)'.seq = 0
          /\ n > 0 /\ wrote'[n].ctype = "appdata" =>
                CAt(n)'.key = wrote'[n].key /\ CAt(n)'.seq = wrote'[n].seq + 1
  BY <1>1 DEF ClientLog
<1>4. Numbered(wrote, cdata)'
  BY DEF ClientLog, Numbered, Payloads
<1> QED BY <1>2, <1>3, <1>4 DEF ClientLog

LEMMA QuietSend ==
    ASSUME SendInv, SendQuiet
    PROVE  SendInv'
<1>1. ClientLog'
  BY ClientLogStays DEF SendInv, SendQuiet
<1>2. Len(pgot') <= cdata' /\ (pEof' => flags' = {} /\ Len(pgot') = cdata')
  BY DEF SendInv, SendQuiet
<1>3. ASSUME peer' # "dead"
      PROVE  \E at \in [0 .. Len(toPeer') -> 0 .. Len(wrote')] : UnderWay(at)'
  <2>1. PICK at \in [0 .. Len(toPeer) -> 0 .. Len(wrote)] : UnderWay(at)
    BY <1>3 DEF SendInv, SendQuiet
  <2>2. UNCHANGED <<wrote, toPeer, pr, pgot, pEof>>
    BY DEF SendQuiet
  <2>3. PeerAt(at[0])' /\ Through(wrote, at[0], Len(pgot))'
    BY <2>1, <2>2 DEF UnderWay, PeerAt, Through, Payloads
  <2>4. flags' # {} /\ c'.seq = 0 => at[Len(toPeer')] = Len(wrote')
    BY <2>1, <2>2 DEF UnderWay, SendQuiet
  <2>5. UnderWay(at)'
    BY <2>1, <2>2, <2>3, <2>4 DEF UnderWay
  <2> QED BY <2>1, <2>2, <2>5
<1> QED BY <1>1, <1>2, <1>3 DEF SendInv

(* The client seals a record and hands it to ioSend. *)
Seals(ctype, body, ok) ==
    /\ flags # {}
    /\ Emit(Protect(c, ctype, body), ok)
    /\ IF ctype = "appdata" THEN body.id = cdata + 1 /\ cdata' = cdata + 1
                            ELSE cdata' = cdata
    /\ IF ctype = "alert" THEN flags' = {} ELSE flags' = flags
    /\ ctype = "appdata" => c'.key = c.key /\ c'.seq = c.seq + 1
    /\ flags' # {} /\ c'.seq = 0 => ok
    /\ UNCHANGED <<pr, pEof, pgot, peer>>

LEMMA SealedLog ==
    ASSUME NonceInv, SendInv, NEW ctype \in {"appdata", "handshake", "alert"},
           NEW body \in Body, NEW ok \in BOOLEAN, Seals(ctype, body, ok)
    PROVE  ClientLog'
<1> DEFINE rec == Protect(c, ctype, body)
<1>0. TypeOK /\ wrote \in Seq(Sealed) /\ c \in Direction /\ cdata \in Nat
  BY DEF NonceInv, TypeOK, HistoryTypeOK, CallTypeOK
<1>1. /\ rec \in Sealed /\ rec.ctype = ctype /\ rec.body = body
      /\ rec.key = c.key /\ rec.seq = c.seq
  BY <1>0, ProtectType DEF Protect, CTypes
<1>2. wrote' = Append(wrote, rec)
  BY DEF Seals, Emit
<1> HIDE DEF rec
<1>n. PICK N : N = Len(wrote)
  OBVIOUS
<1>3. /\ N \in Nat /\ Len(wrote') = N + 1 /\ wrote'[N + 1] = rec
      /\ \A m \in 1 .. N : wrote'[m] = wrote[m]
  BY <1>n, <1>0, <1>1, <1>2, LogAppend
<1>4. c.seq \in Nat /\ c.seq <= N
  BY <1>n, <1>0, Word64Assumption DEF NonceInv, Direction
<1>5. ASSUME NEW m \in 1 .. N + 1
      PROVE  /\ wrote'[m].ctype \in {"appdata", "handshake", "alert"}
             /\ wrote'[m].seq < m
             /\ wrote'[m].ctype = "alert" => m = N + 1 /\ flags' = {}
  <2>1. CASE m \in 1 .. N
    BY <1>n, <1>3, <2>1 DEF SendInv, ClientLog, Seals
  <2>2. CASE m = N + 1
    BY <1>1, <1>3, <1>4, <2>2 DEF Seals
  <2> QED BY <1>3, <2>1, <2>2
<1>6. ASSUME NEW n \in Places'
      PROVE  /\ n = 0 => CAt(n)'.key = 1 /\ CAt(n)'.seq = 0
             /\ n > 0 /\ wrote'[n].ctype = "appdata" =>
                   CAt(n)'.key = wrote'[n].key /\ CAt(n)'.seq = wrote'[n].seq + 1
  <2>1. n \in 0 .. N + 1
    BY <1>3 DEF Places
  <2>2. CASE n \in 0 .. N
    <3>1. n \in Places
      BY <1>n, <2>2 DEF Places, Seals
    <3>2. CAt(n)'.key = CAt(n).key /\ CAt(n)'.seq = CAt(n).seq
      <4>1. CASE n < N
        <5>1. n + 1 \in 1 .. N /\ n < Len(wrote')
          BY <1>3, <2>2, <4>1
        <5>2. CAt(n)' = wrote'[n + 1] /\ CAt(n) = wrote[n + 1]
          BY <1>n, <4>1, <5>1 DEF CAt
        <5> QED BY <1>3, <5>1, <5>2
      <4>2. CASE n = N
        <5>1. CAt(n)' = rec /\ CAt(n) = c
          BY <1>n, <1>3, <4>2 DEF CAt
        <5> QED BY <1>1, <5>1
      <4> QED BY <1>3, <2>2, <4>1, <4>2
    <3>3. n > 0 => wrote'[n] = wrote[n]
      BY <1>3, <2>2
    <3> QED BY <3>1, <3>2, <3>3 DEF SendInv, ClientLog
  <2>3. CASE n = N + 1
    <3>1. CAt(n)' = c' /\ wrote'[n] = rec
      BY <1>3, <2>3 DEF CAt
    <3> QED BY <1>1, <1>3, <2>3, <3>1 DEF Seals
  <2> QED BY <1>3, <2>1, <2>2, <2>3
<1>7. Numbered(wrote, cdata)'
  <2>1. Numbered(wrote, cdata)
    BY DEF SendInv, ClientLog
  <2>2. /\ ctype # "appdata" => Numbered(Append(wrote, rec), cdata)
        /\ (ctype = "appdata" /\ body.id = cdata + 1) => Numbered(Append(wrote, rec), cdata + 1)
    BY <1>0, <1>1, <2>1, NumberedAppend
  <2>3. Numbered(wrote', cdata')
    BY <1>2, <2>2 DEF Seals
  <2> QED BY <2>3 DEF Numbered, Payloads
<1> QED BY <1>3, <1>5, <1>6, <1>7 DEF ClientLog

LEMMA SealSend ==
    ASSUME NonceInv, SendInv, NEW ctype \in {"appdata", "handshake", "alert"},
           NEW body \in Body, NEW ok \in BOOLEAN, Seals(ctype, body, ok)
    PROVE  SendInv' /\ ~pEof
<1> DEFINE rec == Protect(c, ctype, body)
<1>0. /\ TypeOK /\ wrote \in Seq(Sealed) /\ c \in Direction /\ cdata \in Nat
      /\ toPeer \in Seq(Sealed) /\ Len(pgot) \in Nat
  BY DEF NonceInv, TypeOK, HistoryTypeOK, CallTypeOK, WireTypeOK, PeerTypeOK
<1>1. /\ rec \in Sealed /\ rec.ctype = ctype /\ rec.body = body
      /\ rec.key = c.key /\ rec.seq = c.seq /\ Torn(rec) \in Sealed
  BY <1>0, ProtectType, TornType DEF Protect, CTypes
<1>2. /\ wrote' = Append(wrote, rec)
      /\ \/ ok /\ toPeer' = Append(toPeer, rec)
         \/ ~ok /\ toPeer' = toPeer
         \/ ~ok /\ toPeer' = Append(toPeer, rec)
         \/ ~ok /\ toPeer' = Append(toPeer, Torn(rec))
  BY DEF Seals, Emit, IoSend
<1> HIDE DEF rec
<1>3. PICK N, K : N = Len(wrote) /\ K = Len(toPeer)
  OBVIOUS
<1>4. /\ N \in Nat /\ Len(wrote') = N + 1 /\ wrote'[N + 1] = rec
      /\ \A m \in 1 .. N : wrote'[m] = wrote[m]
  BY <1>0, <1>1, <1>2, <1>3, LogAppend
<1>5. ~pEof
  BY DEF SendInv, Seals
<1>6. ClientLog'
  BY SealedLog
<1>7. Len(pgot') <= cdata'
  BY <1>0 DEF SendInv, Seals
<1>8. ASSUME peer' # "dead"
      PROVE  \E at \in [0 .. Len(toPeer') -> 0 .. Len(wrote')] : UnderWay(at)'
  <2>1. PICK at \in [0 .. K -> 0 .. N] : UnderWay(at)
    BY <1>3, <1>8 DEF SendInv, Seals
  <2>2. K \in Nat /\ at[0] \in 0 .. N /\ at[K] \in 0 .. N
    BY <1>0, <1>3, <2>1
  <2>3. /\ \A j \in 0 .. K : at[j] \in 0 .. N
        /\ \A j \in 1 .. K : /\ at[j - 1] < at[j]
                             /\ toPeer[j] \in {wrote[at[j]], Torn(wrote[at[j]])}
                             /\ wrote[at[j]].seq = 0 /\ at[j] > 1 => at[j - 1] = at[j] - 1
        /\ c.seq = 0 => at[K] = N
        /\ PeerAt(at[0]) /\ Through(wrote, at[0], Len(pgot))
    BY <1>3, <2>1 DEF UnderWay, Seals
  <2>4. \A j \in 1 .. K : at[j] \in 1 .. N /\ wrote'[at[j]] = wrote[at[j]]
    <3> SUFFICES ASSUME NEW j \in 1 .. K PROVE at[j] \in 1 .. N /\ wrote'[at[j]] = wrote[at[j]]
      OBVIOUS
    <3>1. at[j - 1] \in 0 .. N /\ at[j] \in 0 .. N /\ at[j - 1] < at[j]
      BY <2>2, <2>3
    <3>2. at[j] \in 1 .. N
      BY <1>4, <3>1
    <3> QED BY <1>4, <3>2
  <2>5. PeerAt(at[0])'
    <3>1. at[0] # 0 => wrote'[at[0]] = wrote[at[0]]
      BY <1>4, <2>2
    <3> QED BY <2>3, <3>1 DEF PeerAt, Seals
  <2>6. Through(wrote, at[0], Len(pgot))'
    <3>1. rec.ctype = "appdata" => rec.body.id > Len(pgot)
      BY <1>0, <1>1 DEF SendInv, Seals
    <3>2. Through(wrote', at[0], Len(pgot))
      BY <1>0, <1>1, <1>2, <1>3, <2>2, <2>3, <3>1, ThroughAppend
    <3> QED BY <3>2 DEF Through, Payloads, Seals
  <2>7. ~pEof'
    BY <1>5 DEF Seals
  <2>8. CASE ~ok /\ toPeer' = toPeer
    <3>1. \A j \in 0 .. K : at[j] \in 0 .. N + 1
      BY <1>4, <2>3
    <3>2. at \in [0 .. K -> 0 .. N + 1]
      BY <2>1, <3>1
    <3>3. ~(flags' # {} /\ c'.seq = 0)
      BY <2>8 DEF Seals
    <3>4. Len(toPeer') = K /\ Len(wrote') = N + 1
      BY <1>3, <1>4, <2>8
    <3>5. \A j \in 1 .. K : toPeer'[j] \in {wrote'[at[j]], Torn(wrote'[at[j]])}
      BY <2>3, <2>4, <2>8
    <3>6. UnderWay(at)'
      BY <2>3, <2>4, <2>5, <2>6, <2>7, <3>1, <3>3, <3>4, <3>5 DEF UnderWay
    <3> QED BY <3>2, <3>4, <3>6
  <2>9. ASSUME NEW x \in {rec, Torn(rec)}, toPeer' = Append(toPeer, x)
        PROVE  \E new \in [0 .. Len(toPeer') -> 0 .. Len(wrote')] : UnderWay(new)'
    <3> DEFINE new == [j \in 0 .. K + 1 |-> IF j = K + 1 THEN N + 1 ELSE at[j]]
    <3>1. x \in Sealed
      BY <1>1, <2>9
    <3>2. /\ Len(toPeer') = K + 1 /\ toPeer'[K + 1] = x
          /\ \A j \in 1 .. K : toPeer'[j] = toPeer[j]
      BY <1>0, <1>3, <2>9, <3>1, LogAppend
    <3>3. /\ new[K + 1] = N + 1 /\ \A j \in 0 .. K : new[j] = at[j]
          /\ new \in [0 .. K + 1 -> 0 .. N + 1]
      <4>1. \A j \in 0 .. K + 1 : (IF j = K + 1 THEN N + 1 ELSE at[j]) \in 0 .. N + 1
        <5> SUFFICES ASSUME NEW j \in 0 .. K + 1
                     PROVE (IF j = K + 1 THEN N + 1 ELSE at[j]) \in 0 .. N + 1
          OBVIOUS
        <5>1. CASE j = K + 1
          BY <1>4, <5>1
        <5>2. CASE j \in 0 .. K
          <6>1. at[j] \in 0 .. N /\ j # K + 1
            BY <2>2, <2>3, <5>2
          <6> QED BY <1>4, <6>1
        <5> QED BY <2>2, <5>1, <5>2
      <4>2. K + 1 \in 0 .. K + 1 /\ \A j \in 0 .. K : j \in 0 .. K + 1 /\ j # K + 1
        BY <2>2
      <4> QED BY <4>1, <4>2
    <3> HIDE DEF new
    <3>4. \A j \in 0 .. K + 1 : new[j] \in 0 .. N + 1
      BY <3>3
    <3>5. ASSUME NEW j \in 1 .. K + 1
          PROVE  /\ new[j - 1] < new[j]
                 /\ toPeer'[j] \in {wrote'[new[j]], Torn(wrote'[new[j]])}
                 /\ wrote'[new[j]].seq = 0 /\ new[j] > 1 => new[j - 1] = new[j] - 1
      <4>1. CASE j \in 1 .. K
        <5>1. j \in 0 .. K /\ j - 1 \in 0 .. K
          BY <2>2, <4>1
        <5>2. new[j] = at[j] /\ new[j - 1] = at[j - 1]
          BY <3>3, <5>1
        <5> QED BY <2>3, <2>4, <3>2, <4>1, <5>2
      <4>2. CASE j = K + 1
        <5>1. new[j] = N + 1 /\ j - 1 = K /\ K \in 0 .. K
          BY <2>2, <3>3, <4>2
        <5>2. new[j - 1] = at[K] /\ at[K] \in 0 .. N
          BY <2>2, <3>3, <5>1
        <5>3. toPeer'[j] \in {wrote'[new[j]], Torn(wrote'[new[j]])}
          BY <1>4, <2>9, <3>2, <4>2, <5>1
        <5>4. wrote'[new[j]].seq = c.seq
          BY <1>1, <1>4, <5>1
        <5>5. new[j - 1] < new[j]
          BY <1>4, <5>1, <5>2
        <5>6. c.seq = 0 => new[j - 1] = new[j] - 1
          BY <1>4, <2>3, <5>1, <5>2
        <5> QED BY <5>3, <5>4, <5>5, <5>6
      <4> QED BY <2>2, <4>1, <4>2
    <3>6. new[0] = at[0] /\ new[Len(toPeer')] = Len(wrote')
      <4>1. 0 \in 0 .. K
        BY <2>2
      <4> QED BY <1>4, <3>2, <3>3, <4>1
    <3>7. PeerAt(new[0])' /\ Through(wrote, new[0], Len(pgot))'
      BY <2>5, <2>6, <3>6 DEF PeerAt, Through
    <3>8. UnderWay(new)'
      BY <1>4, <2>7, <3>2, <3>4, <3>5, <3>6, <3>7 DEF UnderWay
    <3> QED BY <1>4, <3>2, <3>3, <3>8
  <2> QED BY <1>2, <2>8, <2>9
<1>9. ~pEof'
  BY <1>5 DEF Seals
<1> QED BY <1>5, <1>6, <1>7, <1>8, <1>9 DEF SendInv

-----------------------------------------------------------------------------
(* What the peer accepts is the next record the client sealed. *)
LEMMA AcceptedIsNext ==
    ASSUME NonceInv, SendInv, NEW at, UnderWay(at), toPeer # <<>>, PeerOpens(Head(toPeer))
    PROVE  /\ at[1] = at[0] + 1 /\ at[0] \in 0 .. Len(wrote) - 1
           /\ Head(toPeer) = wrote[at[1]]
           /\ Head(toPeer).key = pr.key /\ Head(toPeer).seq = pr.seq
<1> DEFINE rec == Head(toPeer)
<1>0. wrote \in Seq(Sealed) /\ toPeer \in Seq(Sealed) /\ Len(wrote) \in Nat
  BY DEF NonceInv, TypeOK, HistoryTypeOK, WireTypeOK
<1>1. Len(toPeer) \in Nat \ {0} /\ rec = toPeer[1] /\ rec \in Sealed
  BY <1>0
<1>2. rec.intact /\ rec.key = pr.key /\ rec.seq = pr.seq
  <2>1. Unprotect(pr, rec) = "SUCCESS"
    BY DEF PeerOpens
  <2> QED BY <2>1 DEF Unprotect
<1> HIDE DEF rec
<1>3. PICK m, n : m = at[1] /\ n = at[0]
  OBVIOUS
<1>4. /\ m \in 1 .. Len(wrote) /\ n \in 0 .. Len(wrote) - 1 /\ n < m
      /\ rec \in {wrote[m], Torn(wrote[m])}
      /\ wrote[m].seq = 0 /\ m > 1 => n = m - 1
      /\ PeerAt(n)
  <2>1. 1 \in 1 .. Len(toPeer) /\ 0 \in 0 .. Len(toPeer) /\ 1 \in 0 .. Len(toPeer)
    BY <1>1
  <2>2. at[1] \in 0 .. Len(wrote) /\ at[0] \in 0 .. Len(wrote) /\ at[1 - 1] = at[0]
    BY <2>1 DEF UnderWay
  <2>3. /\ n < m /\ rec \in {wrote[m], Torn(wrote[m])}
        /\ wrote[m].seq = 0 /\ m > 1 => n = m - 1
    BY <1>1, <1>3, <2>1, <2>2 DEF UnderWay
  <2>4. PeerAt(n)
    BY <1>3 DEF UnderWay
  <2> QED BY <1>0, <1>3, <2>2, <2>3, <2>4
<1>5. rec = wrote[m]
  <2>1. wrote[m] \in Sealed
    BY <1>0, <1>4
  <2>2. ~Torn(wrote[m]).intact
    BY <2>1 DEF Torn, Sealed
  <2> QED BY <1>2, <1>4, <2>2
<1>6. ASSUME NEW k \in 1 .. Len(wrote), wrote[k].key = pr.key, wrote[k].seq = pr.seq
      PROVE  k = m
  <2>1. wrote[k].key = wrote[m].key /\ wrote[k].seq = wrote[m].seq
    BY <1>2, <1>5, <1>6
  <2>2. ~(k < m) /\ ~(m < k)
    BY <1>4, <2>1 DEF NonceInv, NonceUnique
  <2> QED BY <1>4, <2>2
<1>7. n \in Places /\ CAt(n) = wrote[n + 1] /\ n + 1 \in 1 .. Len(wrote)
  BY <1>0, <1>4 DEF Places, CAt
<1>8. m = n + 1
  <2>1. CASE n = 0
    <3>1. wrote[n + 1].key = 1 /\ wrote[n + 1].seq = 0
      BY <1>7, <2>1 DEF SendInv, ClientLog
    <3> QED BY <1>4, <1>6, <1>7, <2>1, <3>1 DEF PeerAt
  <2>2. CASE n # 0 /\ wrote[n].ctype = "handshake"
    <3>1. wrote[m].seq = 0 /\ m > 1
      BY <1>2, <1>4, <1>5, <2>2 DEF PeerAt
    <3> QED BY <1>4, <3>1
  <2>3. CASE n # 0 /\ wrote[n].ctype = "appdata"
    <3>1. wrote[n + 1].key = wrote[n].key /\ wrote[n + 1].seq = wrote[n].seq + 1
      BY <1>4, <1>7, <2>3 DEF SendInv, ClientLog
    <3> QED BY <1>4, <1>6, <1>7, <2>3, <3>1 DEF PeerAt
  <2>4. n # 0 => n \in 1 .. Len(wrote) /\ n # Len(wrote)
    BY <1>0, <1>4
  <2>5. n # 0 => wrote[n].ctype \in {"appdata", "handshake"}
    BY <2>4 DEF SendInv, ClientLog
  <2> QED BY <2>1, <2>2, <2>3, <2>5
<1> QED BY <1>2, <1>3, <1>4, <1>5, <1>8 DEF rec

(* The channel's view of a step, from wn_Send to the peer. *)
SendStep ==
    \/ UNCHANGED <<cdata, pgot, pEof>> /\ (peer = "dead" => peer' = "dead")
    \/ ~pEof /\ cdata' = cdata + 1 /\ UNCHANGED <<pgot, pEof, peer>>
    \/ /\ ~pEof /\ peer # "dead" /\ Len(pgot) < cdata
       /\ pgot' = Append(pgot, Len(pgot) + 1) /\ UNCHANGED <<cdata, pEof, peer>>
    \/ /\ ~pEof /\ peer # "dead" /\ Len(pgot) = cdata
       /\ pEof' /\ UNCHANGED <<cdata, pgot, peer>>

LEMMA PeerRecvSend ==
    ASSUME NonceInv, SendInv, PeerRecv
    PROVE  SendInv' /\ SendStep
<1> DEFINE rec == Head(toPeer)
<1>0. /\ wrote \in Seq(Sealed) /\ toPeer \in Seq(Sealed) /\ Len(wrote) \in Nat
      /\ pr \in Direction /\ pgot \in Seq(Nat) /\ Len(pgot) \in Nat /\ cdata \in Nat
  BY DEF NonceInv, TypeOK, HistoryTypeOK, WireTypeOK, PeerTypeOK
<1>1. /\ toPeer # <<>> /\ peer # "dead" /\ toPeer' = Tail(toPeer)
      /\ UNCHANGED <<wrote, c, flags, cdata>>
  BY DEF PeerRecv, sessVars
<1>2. ClientLog'
  BY <1>1, ClientLogStays DEF SendInv
<1>3. CASE ~PeerOpens(rec)
  <2>1. peer' = "dead" /\ UNCHANGED <<pr, pEof, pgot>>
    BY <1>3 DEF PeerRecv
  <2>2. SendInv'
    BY <1>1, <1>2, <2>1 DEF SendInv
  <2>3. SendStep
    BY <1>1, <2>1 DEF SendStep
  <2> QED BY <2>2, <2>3
<1>4. CASE PeerOpens(rec)
  <2>1. PICK at \in [0 .. Len(toPeer) -> 0 .. Len(wrote)] : UnderWay(at)
    BY <1>1 DEF SendInv
  <2>2. PICK K, m : K = Len(toPeer) /\ m = at[1]
    OBVIOUS
  <2>3. /\ m = at[0] + 1 /\ at[0] \in 0 .. Len(wrote) - 1 /\ rec = wrote[m]
        /\ rec.key = pr.key /\ rec.seq = pr.seq
    BY <1>1, <1>4, <2>1, <2>2, AcceptedIsNext
  <2>4. m \in 1 .. Len(wrote) /\ rec \in Sealed /\ m - 1 = at[0] /\ m # 0
    <3>1. PICK n, L : n = at[0] /\ L = Len(wrote)
      OBVIOUS
    <3>2. L \in Nat /\ n \in 0 .. L - 1 /\ m = n + 1
      BY <1>0, <2>3, <3>1
    <3>3. m \in 1 .. L /\ m - 1 = n /\ m # 0
      BY <3>2
    <3>4. wrote[m] \in Sealed
      BY <1>0, <3>1, <3>3
    <3> QED BY <2>3, <3>1, <3>3, <3>4
  <2>5. /\ pr' = IF rec.ctype = "handshake"
                 THEN [KeyUpdated(pr) EXCEPT !.seq = 0] ELSE Bump(pr)
        /\ pgot' = IF rec.ctype = "appdata" THEN Append(pgot, rec.body.id) ELSE pgot
        /\ UNCHANGED peer
    BY <1>4 DEF PeerRecv
  <2>6. ~pEof /\ (pEof' <=> rec.ctype = "alert")
    <3>1. pEof' = (pEof \/ rec.ctype = "alert")
      BY Zenon, <1>4 DEF PeerRecv
    <3>2. pEof => at[0] = Len(wrote)
      BY <2>1 DEF UnderWay
    <3>3. at[0] # Len(wrote)
      BY <1>0, <2>3
    <3> QED BY Zenon, <3>1, <3>2, <3>3
  <2> HIDE DEF rec
  <2>7. PeerAt(m)'
    <3>1. CASE rec.ctype = "handshake"
      <4>1. pr'.seq = 0
        BY <1>0, <2>5, <3>1 DEF KeyUpdated, Direction
      <4> QED BY <1>1, <2>3, <2>4, <3>1, <4>1 DEF PeerAt
    <3>2. CASE rec.ctype # "handshake"
      <4>1. pr.seq \in Nat /\ pr.seq + 1 < Word64 /\ pr.seq + 1 \in Nat
        <5>1. wrote[m].seq < m
          BY <2>4 DEF SendInv, ClientLog
        <5>2. Len(wrote) <= Word64 - 1
          BY DEF NonceInv, MaxRecords
        <5>3. pr.seq \in Nat
          BY <1>0, Word64Assumption DEF Direction
        <5> QED BY SMTT(60), <1>0, <2>3, <2>4, <5>1, <5>2, <5>3, Word64Assumption
      <4>2. \A x \in Nat, w \in Nat \ {0} : x < w => x % w = x
        OBVIOUS
      <4>3. (pr.seq + 1) % Word64 = pr.seq + 1
        <5>1. PICK x : x = pr.seq + 1
          OBVIOUS
        <5> QED BY <4>1, <4>2, <5>1, Word64Assumption
      <4>4. pr'.seq = pr.seq + 1 /\ pr'.key = pr.key
        BY <1>0, <2>5, <3>2, <4>3 DEF Bump, Direction
      <4> QED BY <1>1, <2>3, <2>4, <3>2, <4>4 DEF PeerAt
    <3> QED BY <3>1, <3>2
  <2>8. /\ rec.ctype = "appdata" =>
             rec.body.id = Len(pgot) + 1 /\ Len(pgot) < cdata /\ Through(wrote, m, Len(pgot) + 1)
        /\ rec.ctype # "appdata" => Through(wrote, m, Len(pgot))
    <3>1. Numbered(wrote, cdata) /\ Len(pgot) <= cdata /\ Through(wrote, at[0], Len(pgot))
      BY <2>1 DEF SendInv, ClientLog, UnderWay
    <3>2. PICK l \in 0 .. Len(wrote) - 1 : l = at[0] /\ m = l + 1
      BY <2>3
    <3>3. Through(wrote, l, Len(pgot))
      BY <3>1, <3>2
    <3>4. /\ wrote[l + 1].ctype = "appdata" =>
               /\ wrote[l + 1].body.id = Len(pgot) + 1 /\ Len(pgot) < cdata
               /\ Through(wrote, l + 1, Len(pgot) + 1)
          /\ wrote[l + 1].ctype # "appdata" => Through(wrote, l + 1, Len(pgot))
      BY <1>0, <3>1, <3>3, NextPayload
    <3> QED BY <2>3, <3>2, <3>4
  <2>9. Through(wrote, m, Len(pgot))' /\ Len(pgot') <= cdata'
    <3>1. rec.ctype = "appdata" => Len(pgot') = Len(pgot) + 1
      BY <1>0, <2>5, <2>8
    <3>2. Len(pgot) <= cdata
      BY DEF SendInv
    <3>3. Len(pgot') <= cdata
      BY <1>0, <2>5, <2>8, <3>1, <3>2
    <3>4. Through(wrote, m, Len(pgot'))
      BY <2>5, <2>8, <3>1
    <3> QED BY <1>1, <3>3, <3>4 DEF Through, Payloads
  <2>10. ASSUME rec.ctype = "alert"
         PROVE  m = Len(wrote) /\ flags = {} /\ Len(pgot) = cdata
    <3>1. m = Len(wrote) /\ flags = {}
      BY <2>3, <2>4, <2>10 DEF SendInv, ClientLog
    <3>2. Numbered(wrote, cdata) /\ Len(pgot) <= cdata
      BY DEF SendInv, ClientLog
    <3>3. Through(wrote, Len(wrote), Len(pgot))
      BY <2>8, <2>10, <3>1
    <3> QED BY <1>0, <3>1, <3>2, <3>3, AllRead
  <2>11. \E new \in [0 .. Len(toPeer') -> 0 .. Len(wrote')] : UnderWay(new)'
    <3> DEFINE new == [j \in 0 .. K - 1 |-> at[j + 1]]
    <3>1. /\ K \in Nat \ {0} /\ Len(toPeer') = K - 1
          /\ \A j \in 1 .. K - 1 : toPeer'[j] = toPeer[j + 1]
      BY <1>0, <1>1, <2>2
    <3>2. \A j \in 0 .. K : at[j] \in 0 .. Len(wrote)
      BY <2>1, <2>2
    <3>3. /\ new \in [0 .. K - 1 -> 0 .. Len(wrote)]
          /\ \A j \in 0 .. K - 1 : new[j] = at[j + 1]
      BY <3>1, <3>2
    <3> HIDE DEF new
    <3>4. ASSUME NEW j \in 1 .. K - 1
          PROVE  /\ new[j - 1] < new[j]
                 /\ toPeer'[j] \in {wrote[new[j]], Torn(wrote[new[j]])}
                 /\ wrote[new[j]].seq = 0 /\ new[j] > 1 => new[j - 1] = new[j] - 1
      <4>1. j \in 0 .. K - 1 /\ j - 1 \in 0 .. K - 1 /\ j + 1 \in 1 .. K /\ (j + 1) - 1 = j
            /\ (j - 1) + 1 = j
        BY <3>1
      <4>2. new[j] = at[j + 1] /\ new[j - 1] = at[j]
        BY <3>3, <4>1
      <4>3. /\ at[(j + 1) - 1] < at[j + 1]
            /\ toPeer[j + 1] \in {wrote[at[j + 1]], Torn(wrote[at[j + 1]])}
            /\ wrote[at[j + 1]].seq = 0 /\ at[j + 1] > 1 => at[(j + 1) - 1] = at[j + 1] - 1
        BY <2>1, <2>2, <4>1 DEF UnderWay
      <4> QED BY <3>1, <4>1, <4>2, <4>3
    <3>5. flags # {} /\ c.seq = 0 => new[K - 1] = Len(wrote)
      <4>1. K - 1 \in 0 .. K - 1 /\ (K - 1) + 1 = K
        BY <3>1
      <4>2. new[K - 1] = at[K]
        BY <3>3, <4>1
      <4> QED BY <2>1, <2>2, <4>2 DEF UnderWay
    <3>6. new[0] = m
      <4>1. 0 \in 0 .. K - 1
        BY <3>1
      <4> QED BY <2>2, <3>3, <4>1
    <3>7. PeerAt(new[0])' /\ Through(wrote, new[0], Len(pgot))'
      BY <2>7, <2>9, <3>6 DEF PeerAt, Through
    <3>8. pEof' => new[0] = Len(wrote)
      BY <2>6, <2>10, <3>6
    <3>9. \A j \in 0 .. K - 1 : new[j] \in 0 .. Len(wrote)
      BY <3>3
    <3>10. UnderWay(new)'
      BY <1>1, <3>1, <3>4, <3>5, <3>7, <3>8, <3>9 DEF UnderWay
    <3> QED BY <1>1, <3>1, <3>3, <3>10
  <2>12. pEof' => flags' = {} /\ Len(pgot') = cdata'
    BY <1>1, <2>5, <2>6, <2>10
  <2>13. SendInv'
    BY <1>2, <2>9, <2>11, <2>12 DEF SendInv
  <2>14. SendStep
    <3>1. CASE rec.ctype = "appdata"
      <4>1. pEof' = pEof
        <5>1. pEof \in BOOLEAN /\ pEof' \in BOOLEAN
          BY Zenon, TypeStep DEF NonceInv, TypeOK, PeerTypeOK, Next, PeerStep
        <5>2. ~pEof'
          BY <2>6, <3>1
        <5> QED BY Zenon, <2>6, <5>1, <5>2
      <4> QED BY <1>1, <2>5, <2>6, <2>8, <3>1, <4>1 DEF SendStep
    <3>2. CASE rec.ctype = "alert"
      BY <1>1, <2>5, <2>6, <2>10, <3>2 DEF SendStep
    <3>3. CASE rec.ctype \notin {"appdata", "alert"}
      <4>1. pEof' = pEof
        <5>1. pEof \in BOOLEAN /\ pEof' \in BOOLEAN
          BY Zenon, TypeStep DEF NonceInv, TypeOK, PeerTypeOK, Next, PeerStep
        <5>2. ~pEof'
          BY <2>6, <3>3
        <5> QED BY Zenon, <2>6, <5>1, <5>2
      <4> QED BY <1>1, <2>5, <3>3, <4>1 DEF SendStep
    <3> QED BY <3>1, <3>2, <3>3
  <2> QED BY <2>13, <2>14
<1> QED BY <1>3, <1>4

LEMMA SendInvInit == Init => SendInv
<1> SUFFICES ASSUME Init PROVE SendInv
  OBVIOUS
<1>1. /\ wrote = <<>> /\ Len(wrote) = 0 /\ toPeer = <<>> /\ Len(toPeer) = 0
      /\ pgot = <<>> /\ Len(pgot) = 0 /\ cdata = 0 /\ flags = {"ESTABLISHED"}
      /\ c = FreshDirection /\ pr = FreshDirection
  BY DEF Init
<1>2. ~pEof
  BY Zenon DEF Init
<1>3. FreshDirection.key = 1 /\ FreshDirection.seq = 0
  BY DEF FreshDirection
<1>4. Payloads(wrote) = {}
  BY <1>1 DEF Payloads
<1>5. ClientLog
  <2>1. \A n \in Places : n = 0 /\ CAt(n) = FreshDirection
    BY <1>1 DEF Places, CAt
  <2>2. Numbered(wrote, cdata)
    BY <1>1, <1>4 DEF Numbered
  <2>3. \A m \in 1 .. Len(wrote) : FALSE
    BY <1>1
  <2> QED BY <1>3, <2>1, <2>2, <2>3 DEF ClientLog
<1>6. \E at \in [0 .. Len(toPeer) -> 0 .. Len(wrote)] : UnderWay(at)
  <2> DEFINE at == [j \in 0 .. 0 |-> 0]
  <2>1. at \in [0 .. 0 -> 0 .. 0] /\ at[0] = 0
    OBVIOUS
  <2> HIDE DEF at
  <2>2. PeerAt(at[0]) /\ Through(wrote, at[0], Len(pgot))
    BY <1>1, <1>3, <1>4, <2>1 DEF PeerAt, Through
  <2>3. \A j \in 1 .. Len(toPeer) : FALSE
    BY <1>1
  <2>4. \A j \in 0 .. Len(toPeer) : at[j] \in 0 .. Len(wrote)
    BY <1>1, <2>1
  <2>5. at[Len(toPeer)] = Len(wrote) /\ at[0] = Len(wrote)
    BY <1>1, <2>1
  <2>6. UnderWay(at)
    BY <2>2, <2>3, <2>4, <2>5 DEF UnderWay
  <2> QED BY <1>1, <2>1, <2>6
<1> QED BY <1>1, <1>2, <1>5, <1>6 DEF SendInv

LEMMA SendNext ==
    ASSUME NonceInv, SendInv, [Next]_vars
    PROVE  SendInv' /\ SendStep
<1> DEFINE Goal == SendInv' /\ SendStep
<1>t. TypeOK
  BY DEF NonceInv
<1>q. ASSUME SendQuiet, peer = "dead" => peer' = "dead" PROVE Goal
  <2>1. SendStep
    BY <1>q DEF SendQuiet, SendStep
  <2> QED BY <1>q, <2>1, QuietSend
<1>s. ASSUME NEW ctype \in {"appdata", "handshake", "alert"}, NEW body \in Body,
             NEW ok \in BOOLEAN, Seals(ctype, body, ok)
      PROVE  Goal
  <2>1. SendInv' /\ ~pEof
    BY <1>s, SealSend
  <2>2. SendStep
    BY <1>s, <2>1 DEF Seals, SendStep
  <2> QED BY <2>1, <2>2
<1>b. ASSUME Len(wrote) < MaxRecords PROVE Bump(c).key = c.key /\ Bump(c).seq = c.seq + 1
  <2>1. Bump(c) = [c EXCEPT !.seq = c.seq + 1]
    BY <1>b, NoWrap
  <2> QED BY <1>t, <2>1 DEF TypeOK, CallTypeOK, Direction
<1>d. c \in Direction /\ c.seq \in Nat
  BY <1>t, Word64Assumption DEF TypeOK, CallTypeOK, Direction
<1> HIDE DEF Goal
<1>1. ASSUME NEW len \in DataLens, SendRecord(len) PROVE Goal
  <2> DEFINE body == Data(cdata + 1, len)
  <2>1. PICK ok \in BOOLEAN : Emit(Protect(c, "appdata", body), ok)
    BY <1>1 DEF SendRecord
  <2>2. flags = {"ESTABLISHED"} /\ UNCHANGED <<flags, pr, pEof, pgot, peer>>
    BY <1>t, <1>1, OpenFlags DEF SendRecord, peerVars
  <2>3. c' = Bump(c) /\ cdata' = cdata + 1
    BY <1>1 DEF SendRecord
  <2>4. c'.key = c.key /\ c'.seq = c.seq + 1 /\ c'.seq # 0
    BY <1>b, <1>d, <2>1, <2>3 DEF Emit
  <2>5. body \in Body /\ body.id = cdata + 1
    BY <1>t, BodyTypes, SessionAssumption DEF TypeOK, HistoryTypeOK, Data
  <2> HIDE DEF body
  <2>6. Seals("appdata", body, ok)
    BY <2>1, <2>2, <2>3, <2>4, <2>5 DEF Seals
  <2> QED BY <1>s, <2>1, <2>5, <2>6
<1>2. ASSUME CloseWithNotify PROVE Goal
  <2> DEFINE body == Messages(<<"close_notify">>)
  <2>1. PICK ok \in BOOLEAN : Emit(Protect(c, "alert", body), ok)
    BY <1>2 DEF CloseWithNotify
  <2>2. flags # {} /\ flags' = {} /\ UNCHANGED <<cdata, pr, pEof, pgot, peer>>
    BY <1>2 DEF CloseWithNotify, ForceZeroSession, peerVars
  <2>3. body \in Body
    BY BodyTypes
  <2> HIDE DEF body
  <2>4. Seals("alert", body, ok)
    BY <2>1, <2>2 DEF Seals
  <2> QED BY <1>s, <2>1, <2>3, <2>4
<1>3. ASSUME NEW ok \in BOOLEAN, Emit(KuRecord, ok), pc = "answer",
             UNCHANGED <<flags, cdata, pr, pEof, pgot, peer>>, c'.seq = 0 => ok
      PROVE  Goal
  <2>1. flags # {}
    BY <1>t, <1>3 DEF TypeOK, CallTypeOK
  <2>2. Messages(<<"ku0">>) \in Body
    BY BodyTypes
  <2>3. Seals("handshake", Messages(<<"ku0">>), ok)
    BY <1>3, <2>1 DEF Seals, KuRecord
  <2> QED BY <1>s, <1>3, <2>2, <2>3
<1>4. ASSUME AnswerKeyUpdate PROVE Goal
  <2>1. Emit(KuRecord, TRUE) /\ pc = "answer" /\ UNCHANGED <<flags, cdata, pr, pEof, pgot, peer>>
    BY <1>4 DEF AnswerKeyUpdate, peerVars
  <2> QED BY <1>3, <2>1
<1>5. ASSUME AnswerIoFails PROVE Goal
  <2>1. /\ Emit(KuRecord, FALSE) /\ pc = "answer" /\ c' = Bump(c)
        /\ UNCHANGED <<flags, cdata, pr, pEof, pgot, peer>>
    BY <1>5 DEF AnswerIoFails, peerVars
  <2>2. c'.seq # 0
    BY <1>b, <1>d, <2>1 DEF Emit
  <2> QED BY <1>3, <2>1, <2>2
<1>6. ASSUME AnswerCryptoFails PROVE Goal
  <2>1. pc = "answer" /\ UNCHANGED <<flags, cdata, pr, pEof, pgot, peer>>
    BY <1>6 DEF AnswerCryptoFails, peerVars
  <2>2. CASE UNCHANGED <<c, wrote, toPeer, faults>>
    <3>1. SendQuiet
      BY <2>1, <2>2 DEF SendQuiet
    <3> QED BY <1>q, <2>1, <3>1
  <2>3. CASE Emit(KuRecord, TRUE)
    BY <1>3, <2>1, <2>3
  <2> QED BY <1>6, <2>2, <2>3 DEF AnswerCryptoFails
<1>7. ASSUME CloseCryptoFails \/ CloseQuietly PROVE Goal
  <2>1. UNCHANGED <<wrote, toPeer, pr, pgot, pEof, cdata, peer>> /\ flags' = {}
    BY <1>7 DEF CloseCryptoFails, CloseQuietly, ForceZeroSession, peerVars, wireVars
  <2> QED BY <1>q, <2>1 DEF SendQuiet
<1>8. ASSUME NEW len \in DataLens, SendRefused(len) \/ SendCryptoFails(len) PROVE Goal
  <2>1. UNCHANGED <<wrote, toPeer, pr, pgot, pEof, cdata, peer, c, flags>>
    BY <1>8 DEF SendRefused, SendCryptoFails, sessVars, peerVars, wireVars
  <2> QED BY <1>q, <2>1 DEF SendQuiet
<1>9. ASSUME wn_Recv PROVE Goal
  <2>1. UNCHANGED <<wrote, toPeer, pr, pgot, pEof, cdata, peer, c, flags>>
    BY <1>9 DEF wn_Recv, RecvRefused, RecvCall, sessVars, peerVars, wireVars
  <2> QED BY <1>q, <2>1 DEF SendQuiet
<1>10. ASSUME RecvStep PROVE Goal
  <2>1. UNCHANGED <<wrote, toPeer, pr, pgot, pEof, cdata, peer, c>>
    BY <1>10 DEF RecvStep, IoRecvFails, RecvMisaligned, RecvBadRecord, RecvAppData,
       RecvHandshake, RecvAlert, RecvUnknown, sessVars, peerVars
  <2>2. flags' = {} <=> flags = {}
    <3>1. pc = "recv"
      BY <1>10 DEF RecvStep, IoRecvFails, RecvMisaligned, RecvBadRecord, RecvAppData,
         RecvHandshake, RecvAlert, RecvUnknown, RecvOpened
    <3>2. flags # {}
      BY <1>t, <3>1 DEF TypeOK, CallTypeOK
    <3>3. flags' = flags \/ flags' = flags \cup {"CLOSED"}
      BY <1>10 DEF RecvStep, IoRecvFails, RecvMisaligned, RecvBadRecord, RecvAppData,
         RecvHandshake, RecvAlert, RecvUnknown, sessVars
    <3> QED BY <3>2, <3>3
  <2> QED BY <1>q, <2>1, <2>2 DEF SendQuiet
<1>11. ASSUME PostHsDone \/ PostHsTicket \/ PostHsError \/ PostHsKeyUpdate
              \/ PostHsKeyUpdateFails
       PROVE  Goal
  <2>1. UNCHANGED <<wrote, toPeer, pr, pgot, pEof, cdata, peer, c, flags>>
    BY <1>11 DEF PostHsDone, PostHsTicket, PostHsError, PostHsKeyUpdate,
       PostHsKeyUpdateFails, sessVars, peerVars, wireVars
  <2> QED BY <1>q, <2>1 DEF SendQuiet
<1>p. ASSUME NEW ctype, NEW body, PeerEmit(ctype, body),
             UNCHANGED <<wrote, toPeer, pr, pgot, pEof, cdata, c, flags>>
      PROVE  Goal
  BY <1>p, <1>q DEF SendQuiet, PeerEmit
<1>12. ASSUME NEW len \in DataLens, PeerData(len) PROVE Goal
  BY <1>12, <1>p DEF PeerData, sessVars
<1>13. ASSUME NEW q \in HsBodies, PeerHandshake(q) PROVE Goal
  BY <1>13, <1>p DEF PeerHandshake, sessVars
<1>14. ASSUME NEW alert \in Alerts, PeerAlert(alert) PROVE Goal
  BY <1>14, <1>p DEF PeerAlert, sessVars
<1>15. ASSUME NEW ctype \in {"unknown", "padding"}, PeerOddContent(ctype) PROVE Goal
  BY <1>15, <1>p DEF PeerOddContent, sessVars
<1>16. ASSUME PeerRecv PROVE Goal
  BY <1>16, PeerRecvSend DEF Goal
<1>17. ASSUME TransportFault PROVE Goal
  <2>1. UNCHANGED <<wrote, toPeer, pr, pgot, pEof, cdata, peer, c, flags>>
    BY <1>17 DEF TransportFault, sessVars, peerVars
  <2> QED BY <1>q, <2>1 DEF SendQuiet
<1>18. ASSUME UNCHANGED vars PROVE Goal
  <2>1. UNCHANGED <<wrote, toPeer, pr, pgot, pEof, cdata, peer, c, flags>>
    BY <1>18 DEF vars, sessVars, peerVars, wireVars
  <2> QED BY <1>q, <2>1 DEF SendQuiet
<1>19. Goal
  BY Zenon, <1>1, <1>2, <1>4, <1>5, <1>6, <1>7, <1>8, <1>9, <1>10, <1>11,
           <1>12, <1>13, <1>14, <1>15, <1>16, <1>17, <1>18
     DEF Next, Caller, CallStep, PostHsStep, PeerStep, wn_Send, wn_Close
<1> QED BY <1>19 DEF Goal

(***************************************************************************)
(* From wn_Send to the peer, when ioSend may fail and deliver nothing, a   *)
(* part or all of a record, the caller goes on after failed calls, and any *)
(* step of a key update fails: wn_Send and wn_Close implement WnChannel.   *)
(***************************************************************************)
THEOREM SendImplementsChannel == Spec => SendIsChannel
<1>1. Init => NonceInv /\ SendInv
  BY NonceInit, SendInvInit
<1>2. NonceInv /\ SendInv /\ [Next]_vars => (NonceInv /\ SendInv)'
  BY NonceStep, SendNext
<1>3. Init => Out!ChannelInit
  <2> SUFFICES ASSUME Init PROVE Out!ChannelInit
    OBVIOUS
  <2>1. ~pEof /\ peer = "open"
    BY Zenon DEF Init
  <2>2. cdata = 0 /\ pgot = <<>>
    BY DEF Init
  <2> QED BY <2>1, <2>2 DEF Out!ChannelInit
<1>4. NonceInv /\ SendInv /\ [Next]_vars => [Out!ChannelNext]_(Out!cvars)
  <2> SUFFICES ASSUME NonceInv, SendInv, [Next]_vars PROVE [Out!ChannelNext]_(Out!cvars)
    OBVIOUS
  <2>1. SendStep
    BY SendNext
  <2>2. CASE UNCHANGED <<cdata, pgot, pEof>> /\ (peer = "dead" => peer' = "dead")
    <3>1. CASE ~pEof /\ peer' = "dead"
      <4>1. Out!LetGo
        BY <2>2, <3>1 DEF Out!LetGo
      <4> QED BY <4>1 DEF Out!ChannelNext
    <3>2. CASE pEof \/ peer' # "dead"
      BY <2>2, <3>2 DEF Out!cvars
    <3> QED BY <3>1, <3>2
  <2>3. CASE ~pEof /\ cdata' = cdata + 1 /\ UNCHANGED <<pgot, pEof, peer>>
    <3>1. Out!Put
      BY <2>3 DEF Out!Put
    <3> QED BY <3>1 DEF Out!ChannelNext
  <2>4. CASE /\ ~pEof /\ peer # "dead" /\ Len(pgot) < cdata
             /\ pgot' = Append(pgot, Len(pgot) + 1) /\ UNCHANGED <<cdata, pEof, peer>>
    <3>1. Out!Take
      BY <2>4 DEF Out!Take
    <3> QED BY <3>1 DEF Out!ChannelNext
  <2>5. CASE /\ ~pEof /\ peer # "dead" /\ Len(pgot) = cdata
             /\ pEof' /\ UNCHANGED <<cdata, pgot, peer>>
    <3>1. Out!EndOfStream
      BY <2>5 DEF Out!EndOfStream
    <3> QED BY <3>1 DEF Out!ChannelNext
  <2> QED BY <2>1, <2>2, <2>3, <2>4, <2>5 DEF SendStep
<1> QED BY <1>1, <1>2, <1>3, <1>4, PTL DEF Spec, SendIsChannel, Out!ChannelSpec

-----------------------------------------------------------------------------
(***************************************************************************)
(* Without a fault the two ends stay in step.  What is under way in one    *)
(* direction is a stretch of records that were sealed one after the other: *)
(* the reader stands at the place of the first, and behind the last the    *)
(* writer, d, goes on.                                                     *)
(***************************************************************************)
NextSeq(x) == (x + 1) % Word64

SamePlace(a, b) == a.key = b.key /\ a.iv = b.iv /\ a.seq = b.seq
Whole(d) == d.secret = d.key /\ d.iv = d.key

RekeysAfter(rec) == rec.ctype = "handshake" /\ Rekeys(rec.body.msgs)

(* Where the next record is sealed. *)
Follows(rec, next) ==
    IF RekeysAfter(rec)
    THEN next.key = rec.key + 1 /\ next.iv = rec.key + 1 /\ next.seq = 0
    ELSE next.key = rec.key /\ next.iv = rec.key /\ next.seq = NextSeq(rec.seq)

First(q, d) == IF q = <<>> THEN d ELSE Head(q)

Known == {"appdata", "handshake", "alert"}
Unhurt(rec) == rec.intact /\ rec.iv = rec.key /\ rec.ctype \in Known

Stretch(q, d) ==
    /\ Whole(d)
    /\ \A j \in 1 .. Len(q) : /\ Unhurt(q[j])
                              /\ Follows(q[j], IF j < Len(q) THEN q[j + 1] ELSE d)

(* A KeyUpdate is the last message, and is got to. *)
LastOnly(q) == \A l \in 1 .. Len(q) - 1 : q[l] \notin Rekeying
Reached(q) == Rekeys(q) => \A l \in 1 .. Len(q) - 1 : q[l] = "nst"

Readable(rec) ==
    /\ ~BadLength(rec)
    /\ rec.ctype = "handshake" => LastOnly(rec.body.msgs) /\ Reached(rec.body.msgs)

(* The client's read direction: a KeyUpdate it has read and not yet carried
   out puts it one key behind. *)
ReadInStep ==
    /\ toClient \in Seq(Sealed) /\ Stretch(toClient, pw) /\ sync /\ Whole(s)
    /\ \A j \in 1 .. Len(toClient) : Readable(toClient[j])
    /\ LastOnly(msgs) /\ Reached(msgs)
    /\ IF Rekeys(msgs)
       THEN LET next == First(toClient, pw) IN
               next.key = s.key + 1 /\ next.iv = s.key + 1 /\ next.seq = 0
       ELSE SamePlace(s, First(toClient, pw))

(* The peer's. *)
WriteInStep(d) ==
    /\ Stretch(toPeer, d) /\ Whole(pr) /\ SamePlace(pr, First(toPeer, d))
    /\ flags # {} => d = c
    /\ \A j \in 1 .. Len(toPeer) :
          toPeer[j].ctype = "handshake" => toPeer[j].body.msgs = <<"ku0">>

AgreeInv ==
    /\ Undisturbed /\ flags = {"ESTABLISHED"} => ReadInStep
    /\ faults = 0 /\ fails = 0 => \E d \in Direction : WriteInStep(d)

-----------------------------------------------------------------------------
(* Lemmas about stretches *)
LEMMA SamePlaceFollows ==
    ASSUME NEW rec, NEW a, NEW b, SamePlace(a, b), Follows(rec, b)
    PROVE  Follows(rec, a)
BY DEF SamePlace, Follows

LEMMA StretchAppend ==
    ASSUME NEW S, NEW q \in Seq(S), NEW rec \in S, NEW d, NEW e,
           Stretch(q, d), SamePlace(rec, d), Unhurt(rec), Whole(e), Follows(rec, e)
    PROVE  /\ Stretch(Append(q, rec), e)
           /\ SamePlace(First(Append(q, rec), e), First(q, d))
<1> DEFINE new == Append(q, rec)
<1>1. /\ Len(q) \in Nat /\ Len(new) = Len(q) + 1
      /\ \A m \in 1 .. Len(q) : new[m] = q[m]
      /\ new[Len(q) + 1] = rec /\ new # <<>> /\ Head(new) = new[1]
  OBVIOUS
<1>2. q # <<>> => 1 \in 1 .. Len(q) /\ Head(q) = q[1]
  OBVIOUS
<1>3. q = <<>> => Len(q) = 0
  OBVIOUS
<1> HIDE DEF new
<1>4. ASSUME NEW j \in 1 .. Len(new)
      PROVE  /\ Unhurt(new[j])
             /\ Follows(new[j], IF j < Len(new) THEN new[j + 1] ELSE e)
  <2>1. CASE j = Len(q) + 1
    <3>1. ~(j < Len(new)) /\ new[j] = rec
      BY <1>1, <2>1
    <3> QED BY <3>1
  <2>2. CASE j \in 1 .. Len(q)
    <3>1. Unhurt(q[j]) /\ Follows(q[j], IF j < Len(q) THEN q[j + 1] ELSE d) /\ new[j] = q[j]
      BY <1>1, <2>2 DEF Stretch
    <3>2. j < Len(new)
      BY <1>1, <2>2
    <3>3. CASE j < Len(q)
      <4>1. j + 1 \in 1 .. Len(q)
        BY <1>1, <2>2, <3>3
      <4>2. new[j + 1] = q[j + 1]
        BY <1>1, <4>1
      <4> QED BY <3>1, <3>2, <3>3, <4>2
    <3>4. CASE ~(j < Len(q))
      <4>1. j = Len(q)
        BY <1>1, <2>2, <3>4
      <4>2. new[j + 1] = rec
        BY <1>1, <4>1
      <4>3. Follows(q[j], rec)
        BY <3>1, <3>4, SamePlaceFollows
      <4> QED BY <3>1, <3>2, <4>2, <4>3
    <3> QED BY <3>3, <3>4
  <2> QED BY <1>1, <2>1, <2>2
<1>5. SamePlace(First(new, e), First(q, d))
  <2>1. First(new, e) = new[1]
    BY <1>1 DEF First
  <2>2. CASE q = <<>>
    <3>1. new[1] = rec /\ First(q, d) = d
      BY <1>1, <1>3, <2>2 DEF First
    <3> QED BY <2>1, <3>1
  <2>3. CASE q # <<>>
    <3>1. new[1] = q[1] /\ First(q, d) = q[1]
      BY <1>1, <1>2, <2>3 DEF First
    <3> QED BY <2>1, <3>1 DEF SamePlace
  <2> QED BY <2>2, <2>3
<1>6. Whole(e)
  OBVIOUS
<1>7. Stretch(new, e)
  BY <1>4, <1>6 DEF Stretch
<1> QED BY <1>5, <1>7 DEF new

LEMMA StretchTail ==
    ASSUME NEW S, NEW q \in Seq(S), NEW d, Stretch(q, d), q # <<>>
    PROVE  /\ Stretch(Tail(q), d) /\ Follows(Head(q), First(Tail(q), d))
           /\ Unhurt(Head(q)) /\ Head(q) = q[1] /\ 1 \in 1 .. Len(q)
           /\ Tail(q) \in Seq(S) /\ Len(Tail(q)) = Len(q) - 1
           /\ \A j \in 1 .. Len(Tail(q)) : Tail(q)[j] = q[j + 1] /\ j + 1 \in 1 .. Len(q)
<1> DEFINE t == Tail(q)
<1>1. /\ Len(q) \in Nat /\ Len(q) >= 1 /\ t \in Seq(S) /\ Len(t) = Len(q) - 1
      /\ \A j \in 1 .. Len(q) - 1 : t[j] = q[j + 1]
      /\ Head(q) = q[1] /\ 1 \in 1 .. Len(q)
  <2>1. Len(q) \in Nat \ {0} /\ Head(q) = q[1]
    BY EmptySeq
  <2>2. t \in Seq(S) /\ Len(t) = Len(q) - 1 /\ \A j \in 1 .. Len(t) : t[j] = q[j + 1]
    BY HeadTailProperties
  <2> QED BY <2>1, <2>2
<1>2. (t = <<>> <=> Len(t) = 0) /\ (t # <<>> => Head(t) = t[1])
  <2>1. t \in Seq(S)
    BY <1>1
  <2> HIDE DEF t
  <2> QED BY <2>1, EmptySeq
<1> HIDE DEF t
<1>3. \A j \in 1 .. Len(t) : t[j] = q[j + 1] /\ j + 1 \in 1 .. Len(q)
  BY <1>1
<1>4. ASSUME NEW j \in 1 .. Len(t)
      PROVE  Unhurt(t[j]) /\ Follows(t[j], IF j < Len(t) THEN t[j + 1] ELSE d)
  <2>1. /\ t[j] = q[j + 1] /\ j + 1 \in 1 .. Len(q)
        /\ Unhurt(q[j + 1])
        /\ Follows(q[j + 1], IF j + 1 < Len(q) THEN q[(j + 1) + 1] ELSE d)
    BY <1>3 DEF Stretch
  <2>2. CASE j < Len(t)
    <3>1. j + 1 < Len(q) /\ j + 1 \in 1 .. Len(t)
      BY <1>1, <2>2
    <3>2. t[j + 1] = q[(j + 1) + 1]
      BY <1>3, <3>1
    <3> QED BY <2>1, <2>2, <3>1, <3>2
  <2>3. CASE ~(j < Len(t))
    <3>1. ~(j + 1 < Len(q))
      BY <1>1, <2>3
    <3> QED BY <2>1, <2>3, <3>1
  <2> QED BY <2>2, <2>3
<1>5. Unhurt(q[1]) /\ Follows(q[1], IF 1 < Len(q) THEN q[1 + 1] ELSE d)
  BY <1>1 DEF Stretch
<1>6. First(t, d) = IF 1 < Len(q) THEN q[1 + 1] ELSE d
  <2>1. CASE 1 < Len(q)
    <3>1. 1 \in 1 .. Len(t) /\ Len(t) # 0
      BY <1>1, <2>1
    <3>2. First(t, d) = t[1] /\ t[1] = q[1 + 1]
      BY <1>2, <1>3, <3>1 DEF First
    <3> QED BY <2>1, <3>2
  <2>2. CASE ~(1 < Len(q))
    <3>1. Len(t) = 0
      BY <1>1, <2>2
    <3> QED BY <1>2, <2>2, <3>1 DEF First
  <2> QED BY <2>1, <2>2
<1>7. Whole(d)
  BY DEF Stretch
<1>8. Stretch(t, d)
  BY <1>4, <1>7 DEF Stretch
<1> QED BY <1>1, <1>3, <1>5, <1>6, <1>8 DEF t

(* The reader after it has opened a record: at the next place, unless it has
   a KeyUpdate to carry out; and after that. *)
LEMMA ReaderMoves ==
    ASSUME NEW d \in Direction, Whole(d), NEW rec, SamePlace(d, rec), NEW next, Follows(rec, next)
    PROVE  /\ Whole(Bump(d)) /\ Bump(d).key = d.key
           /\ ~RekeysAfter(rec) => SamePlace(Bump(d), next)
           /\ RekeysAfter(rec) => next.key = d.key + 1 /\ next.iv = d.key + 1 /\ next.seq = 0
<1>1. /\ Bump(d).secret = d.secret /\ Bump(d).key = d.key /\ Bump(d).iv = d.iv
      /\ Bump(d).seq = NextSeq(d.seq)
  BY DEF Bump, Direction, NextSeq
<1>2. Whole(Bump(d))
  BY <1>1 DEF Whole
<1> QED BY <1>1, <1>2 DEF Whole, SamePlace, Follows

LEMMA KeyUpdateMoves ==
    ASSUME NEW d \in Direction, Whole(d)
    PROVE  LET e == [KeyUpdated(d) EXCEPT !.seq = 0] IN
              Whole(e) /\ e.key = d.key + 1 /\ e.iv = d.key + 1 /\ e.seq = 0
<1> DEFINE e == [KeyUpdated(d) EXCEPT !.seq = 0]
<1>1. /\ e.secret = d.secret + 1 /\ e.key = d.secret + 1 /\ e.iv = d.secret + 1 /\ e.seq = 0
  BY DEF KeyUpdated, Direction
<1> HIDE DEF e
<1>2. Whole(e) /\ e.key = d.key + 1 /\ e.iv = d.key + 1
  BY <1>1 DEF Whole
<1> QED BY <1>1, <1>2 DEF e

(* The writer after it has sealed a record: a stretch that grows. *)
LEMMA WriterMoves ==
    ASSUME NEW d \in Direction, Whole(d), NEW ctype \in Known, NEW body, NEW e,
           e = IF ctype = "handshake" /\ Rekeys(body.msgs)
               THEN [KeyUpdated(d) EXCEPT !.seq = 0] ELSE Bump(d)
    PROVE  LET rec == Protect(d, ctype, body) IN
              SamePlace(rec, d) /\ Unhurt(rec) /\ Whole(e) /\ Follows(rec, e)
<1> DEFINE rec == Protect(d, ctype, body)
<1>1. /\ rec.key = d.key /\ rec.iv = d.iv /\ rec.seq = d.seq /\ rec.intact
      /\ rec.ctype = ctype /\ rec.body = body
  BY DEF Protect
<1> HIDE DEF rec
<1>2. SamePlace(rec, d) /\ SamePlace(d, rec) /\ Unhurt(rec)
  BY <1>1 DEF SamePlace, Unhurt, Whole
<1>3. CASE ctype = "handshake" /\ Rekeys(body.msgs)
  <2>1. e = [KeyUpdated(d) EXCEPT !.seq = 0]
    BY <1>3
  <2>2. Whole(e) /\ e.key = d.key + 1 /\ e.iv = d.key + 1 /\ e.seq = 0
    BY <2>1, KeyUpdateMoves
  <2>3. Follows(rec, e)
    BY <1>1, <1>3, <2>2 DEF Follows, RekeysAfter
  <2> QED BY <1>2, <2>2, <2>3 DEF rec
<1>4. CASE ~(ctype = "handshake" /\ Rekeys(body.msgs))
  <2>1. /\ e.secret = d.secret /\ e.key = d.key /\ e.iv = d.iv /\ e.seq = NextSeq(d.seq)
    BY <1>4 DEF Bump, Direction, NextSeq
  <2>2. Whole(e)
    BY <2>1 DEF Whole
  <2>3. Follows(rec, e)
    BY <1>1, <1>4, <2>1 DEF Follows, RekeysAfter, Whole
  <2> QED BY <1>2, <2>2, <2>3 DEF rec
<1> QED BY <1>3, <1>4

(* What opens. *)
LEMMA InStepOpens ==
    ASSUME NEW d, NEW rec \in Sealed, SamePlace(d, rec), Unhurt(rec)
    PROVE  Unprotect(d, rec) = "SUCCESS"
<1>1. rec.form = "sealed"
  BY DEF Sealed
<1> QED BY <1>1 DEF Unprotect, SamePlace, Unhurt, Known

(* The messages of a record, one after the other. *)
LEMMA MessagesTail ==
    ASSUME NEW S, NEW q \in Seq(S), q # <<>>, LastOnly(q)
    PROVE  /\ LastOnly(Tail(q)) /\ (Reached(q) => Reached(Tail(q)))
           /\ Head(q) \notin Rekeying =>
                 /\ Rekeys(Tail(q)) <=> Rekeys(q)
                 /\ Rekeys(q) => Tail(q)[Len(Tail(q))] = q[Len(q)]
           /\ Head(q) \in Rekeying => Tail(q) = <<>> /\ Rekeys(q) /\ q[Len(q)] = Head(q)
           /\ Reached(q) /\ Rekeys(q) => Head(q) \in {"nst"} \cup Rekeying
<1> DEFINE t == Tail(q)
<1>n. PICK n : n = Len(q)
  OBVIOUS
<1>1. n \in Nat \ {0} /\ Head(q) = q[1]
  BY <1>n, EmptySeq
<1>2. t \in Seq(S) /\ Len(t) = n - 1 /\ \A j \in 1 .. n - 1 : t[j] = q[j + 1]
  BY <1>n, HeadTailProperties
<1> HIDE DEF t
<1>3. t = <<>> <=> n = 1
  BY <1>1, <1>2, EmptySeq
<1>4. \A j \in 1 .. (n - 1) - 1 : t[j] = q[j + 1] /\ j + 1 \in 1 .. n - 1
  BY <1>1, <1>2
<1>5. LastOnly(t) /\ (Reached(q) /\ Rekeys(q) => \A l \in 1 .. Len(t) - 1 : t[l] = "nst")
  BY <1>n, <1>2, <1>4 DEF LastOnly, Reached
<1>6. ASSUME n # 1 PROVE t[n - 1] = q[n] /\ 1 \in 1 .. n - 1
  <2>1. n - 1 \in 1 .. n - 1 /\ (n - 1) + 1 = n /\ 1 \in 1 .. n - 1
    BY <1>1, <1>6
  <2> QED BY <1>2, <2>1
<1>7. n # 1 => t # <<>> /\ (Rekeys(t) <=> Rekeys(q)) /\ t[Len(t)] = q[n] /\ Head(q) \notin Rekeying
  BY <1>n, <1>1, <1>2, <1>3, <1>6 DEF Rekeys, LastOnly
<1>8. n = 1 => /\ t = <<>> /\ ~Rekeys(t) /\ (Rekeys(q) <=> Head(q) \in Rekeying)
               /\ q[n] = Head(q)
  BY <1>n, <1>1, <1>3 DEF Rekeys
<1>9. Reached(q) => Reached(t)
  BY <1>5, <1>7, <1>8 DEF Reached
<1>10. Reached(q) /\ Rekeys(q) => Head(q) \in {"nst"} \cup Rekeying
  BY <1>n, <1>1, <1>6, <1>8 DEF Reached
<1> QED BY <1>n, <1>5, <1>7, <1>8, <1>9, <1>10 DEF t

-----------------------------------------------------------------------------
(* A session that is undisturbed has been so before. *)
Calm == faults = 0 /\ fails = 0

LEMMA HistoriesGrow ==
    ASSUME TypeOK, [Next]_vars
    PROVE  /\ Calm' => Calm
           /\ plog' = plog \/ \E ctype \in CTypes, body \in Body : PeerEmit(ctype, body)
           /\ flags' = flags \/ flags' = flags \cup {"CLOSED"} \/ flags' = {}
<1> DEFINE Goal == /\ faults' = faults \/ faults' = faults + 1
                   /\ fails' = fails \/ fails' = fails + 1
                   /\ plog' = plog \/ \E ctype \in CTypes, body \in Body : PeerEmit(ctype, body)
                   /\ flags' = flags \/ flags' = flags \cup {"CLOSED"} \/ flags' = {}
<1>e. ASSUME NEW rec, NEW ok, Emit(rec, ok) PROVE faults' = faults \/ faults' = faults + 1
  BY <1>e DEF Emit, IoSend
<1>p. ASSUME NEW ctype \in CTypes, NEW body \in Body, PeerEmit(ctype, body)
      PROVE  \E t \in CTypes, b \in Body : PeerEmit(t, b)
  BY Zenon, <1>p
<1>1. ASSUME NEW len \in DataLens, wn_Send(len) PROVE Goal
  BY <1>1, <1>e DEF wn_Send, SendRefused, SendCryptoFails, SendRecord, CryptoFail,
     sessVars, peerVars
<1>2. ASSUME wn_Recv PROVE Goal
  BY <1>2 DEF wn_Recv, RecvRefused, RecvCall, sessVars, peerVars
<1>3. ASSUME wn_Close PROVE Goal
  BY <1>3, <1>e DEF wn_Close, CloseWithNotify, CloseCryptoFails, CloseQuietly,
     ForceZeroSession, CryptoFail, peerVars
<1>4. ASSUME RecvStep PROVE Goal
  BY <1>4 DEF RecvStep, IoRecvFails, RecvMisaligned, RecvBadRecord, RecvAppData,
     RecvHandshake, RecvAlert, RecvUnknown, sessVars, peerVars
<1>5. ASSUME PostHsDone \/ PostHsTicket \/ PostHsError \/ PostHsKeyUpdate
             \/ PostHsKeyUpdateFails
      PROVE  Goal
  BY <1>5 DEF PostHsDone, PostHsTicket, PostHsError, PostHsKeyUpdate,
     PostHsKeyUpdateFails, CryptoFail, sessVars, peerVars
<1>6. ASSUME AnswerKeyUpdate \/ AnswerIoFails \/ AnswerCryptoFails PROVE Goal
  BY <1>6, <1>e DEF AnswerKeyUpdate, AnswerIoFails, AnswerCryptoFails, CryptoFail, peerVars
<1>7. ASSUME NEW len \in DataLens, PeerData(len) PROVE Goal
  <2>1. Data(pdata + 1, len) \in Body
    BY BodyTypes, SessionAssumption DEF TypeOK, PeerTypeOK
  <2>2. PeerEmit("appdata", Data(pdata + 1, len)) /\ UNCHANGED <<faults, fails, flags>>
    BY <1>7 DEF PeerData, sessVars
  <2> QED BY <1>p, <2>1, <2>2 DEF CTypes
<1>8. ASSUME NEW q \in HsBodies, PeerHandshake(q) PROVE Goal
  <2>1. Messages(q) \in Body
    BY BodyTypes, HsBodyType
  <2>2. PeerEmit("handshake", Messages(q)) /\ UNCHANGED <<faults, fails, flags>>
    BY <1>8 DEF PeerHandshake, sessVars
  <2> QED BY <1>p, <2>1, <2>2 DEF CTypes
<1>9. ASSUME NEW alert \in Alerts, PeerAlert(alert) PROVE Goal
  <2>1. Messages(<<alert>>) \in Body
    BY BodyTypes
  <2>2. PeerEmit("alert", Messages(<<alert>>)) /\ UNCHANGED <<faults, fails, flags>>
    BY <1>9 DEF PeerAlert, sessVars
  <2> QED BY <1>p, <2>1, <2>2 DEF CTypes
<1>10. ASSUME NEW ctype \in {"unknown", "padding"}, PeerOddContent(ctype) PROVE Goal
  <2>1. Messages(<<>>) \in Body /\ ctype \in CTypes
    BY BodyTypes DEF CTypes
  <2>2. /\ PeerEmit(ctype, Messages(<<>>)) /\ UNCHANGED <<fails, flags>>
        /\ faults' = faults + 1
    BY <1>10 DEF PeerOddContent, sessVars
  <2> QED BY <1>p, <2>1, <2>2
<1>11. ASSUME PeerRecv \/ TransportFault PROVE Goal
  BY <1>11 DEF PeerRecv, TransportFault, sessVars, peerVars
<1>12. ASSUME UNCHANGED vars PROVE Goal
  BY <1>12 DEF vars, sessVars, peerVars
<1> HIDE DEF Goal
<1>13. Goal
  BY Zenon, <1>1, <1>2, <1>3, <1>4, <1>5, <1>6, <1>7, <1>8, <1>9, <1>10, <1>11, <1>12
     DEF Next, Caller, CallStep, PostHsStep, PeerStep
<1>14. faults \in Nat /\ fails \in Nat
  BY SessionAssumption DEF TypeOK, HistoryTypeOK
<1> QED BY <1>13, <1>14 DEF Goal, Calm

LEMMA UndisturbedBefore ==
    ASSUME TypeOK, [Next]_vars, Undisturbed'
    PROVE  Undisturbed
<1>1. Calm
  BY HistoriesGrow DEF Undisturbed, Calm
<1>2. Len(plog) \in Nat /\ plog \in Seq(Sealed)
  BY DEF TypeOK, PeerTypeOK
<1>3. \A m \in 1 .. Len(plog) : m \in 1 .. Len(plog') /\ plog'[m] = plog[m]
  <2>1. CASE plog' = plog
    BY <2>1
  <2>2. ASSUME NEW ctype \in CTypes, NEW body \in Body, PeerEmit(ctype, body)
        PROVE  \A m \in 1 .. Len(plog) : m \in 1 .. Len(plog') /\ plog'[m] = plog[m]
    <3> DEFINE rec == Protect(pw, ctype, body)
    <3>1. rec \in Sealed /\ plog' = Append(plog, rec)
      BY <2>2, ProtectType DEF PeerEmit, TypeOK, PeerTypeOK
    <3> HIDE DEF rec
    <3>2. Len(plog') = Len(plog) + 1 /\ \A m \in 1 .. Len(plog) : plog'[m] = plog[m]
      BY <1>2, <3>1, LogAppend
    <3> QED BY <1>2, <3>2
  <2> QED BY <2>1, <2>2, HistoriesGrow
<1>4. AllFit
  <2>1. \A m \in 1 .. Len(plog') : ~BadLength(plog'[m])
    BY DEF Undisturbed, AllFit
  <2>2. \A m \in 1 .. Len(plog) : ~BadLength(plog[m])
    BY <1>3, <2>1
  <2> QED BY <2>2 DEF AllFit
<1>5. KeyUpdatesReached
  <2>1. \A m \in 1 .. Len(plog') : Reached(plog'[m].body.msgs)
    BY DEF Undisturbed, KeyUpdatesReached, Reached, Rekeys, Rekeying
  <2>2. \A m \in 1 .. Len(plog) : Reached(plog[m].body.msgs)
    BY <1>3, <2>1
  <2> QED BY <2>2 DEF KeyUpdatesReached, Reached, Rekeys, Rekeying
<1> QED BY <1>1, <1>4, <1>5 DEF Undisturbed, Calm

-----------------------------------------------------------------------------
(* The client stays in step with what the peer writes. *)
ReadQuiet ==
    /\ UNCHANGED <<toClient, pw, sync, s>>
    /\ msgs' = msgs \/ (msgs' = <<>> /\ ~Rekeys(msgs))

LEMMA ReadQuietStep ==
    ASSUME ReadInStep, ReadQuiet
    PROVE  ReadInStep'
<1>1. UNCHANGED <<toClient, pw, sync, s>>
  BY DEF ReadQuiet
<1>2. /\ toClient' \in Seq(Sealed) /\ Stretch(toClient', pw') /\ sync' /\ Whole(s')
      /\ \A j \in 1 .. Len(toClient') : Readable(toClient'[j])
  BY <1>1 DEF ReadInStep
<1>3. CASE msgs' = msgs
  BY <1>1, <1>2, <1>3 DEF ReadInStep
<1>4. CASE msgs' = <<>> /\ ~Rekeys(msgs)
  <2>1. ~Rekeys(msgs') /\ LastOnly(msgs') /\ Reached(msgs')
    BY <1>4 DEF Rekeys, LastOnly, Reached
  <2>2. SamePlace(s', First(toClient', pw'))
    BY <1>1, <1>4 DEF ReadInStep
  <2> QED BY <1>2, <2>1, <2>2 DEF ReadInStep
<1> QED BY <1>3, <1>4 DEF ReadQuiet

(* The peer writes one more record. *)
LEMMA ReadGrows ==
    ASSUME TypeOK, ReadInStep, Undisturbed', NEW ctype \in Known, NEW body \in Body,
           PeerEmit(ctype, body),
           pw' = IF ctype = "handshake" /\ Rekeys(body.msgs)
                 THEN [KeyUpdated(pw) EXCEPT !.seq = 0] ELSE Bump(pw),
           ctype = "handshake" => body.msgs \in HsBodies,
           UNCHANGED <<s, sync, msgs>>
    PROVE  ReadInStep'
<1> DEFINE rec == Protect(pw, ctype, body)
<1>1. pw \in Direction /\ plog \in Seq(Sealed) /\ ctype \in CTypes
  BY DEF TypeOK, PeerTypeOK, CTypes, Known
<1>2. /\ plog' = Append(plog, rec) /\ toClient' = Append(toClient, rec)
  BY DEF PeerEmit
<1>3. rec \in Sealed /\ rec.ctype = ctype /\ rec.body = body
  BY <1>1, ProtectType DEF Protect
<1>4. Stretch(toClient, pw) /\ toClient \in Seq(Sealed) /\ Whole(pw)
  BY DEF ReadInStep, Stretch
<1>5. SamePlace(rec, pw) /\ Unhurt(rec) /\ Whole(pw') /\ Follows(rec, pw')
  BY <1>1, <1>4, WriterMoves
<1> HIDE DEF rec
<1>6. Stretch(toClient', pw') /\ SamePlace(First(toClient', pw'), First(toClient, pw))
  BY <1>2, <1>3, <1>4, <1>5, StretchAppend
<1>7. Readable(rec)
  <2>1. Len(plog) + 1 \in 1 .. Len(plog') /\ plog'[Len(plog) + 1] = rec
    <3>1. Len(plog') = Len(plog) + 1 /\ Len(plog) \in Nat /\ plog'[Len(plog) + 1] = rec
      BY <1>1, <1>2, <1>3, LogAppend
    <3> QED BY <3>1
  <2>2. ~BadLength(rec)
    BY <2>1 DEF Undisturbed, AllFit
  <2>3. Reached(rec.body.msgs)
    BY <2>1 DEF Undisturbed, KeyUpdatesReached, Reached, Rekeys, Rekeying
  <2>4. ctype = "handshake" => LastOnly(body.msgs)
    BY KeyUpdateLastAssumption DEF LastOnly, Rekeying
  <2> QED BY <1>3, <2>2, <2>3, <2>4 DEF Readable
<1>8. toClient' \in Seq(Sealed) /\ \A j \in 1 .. Len(toClient') : Readable(toClient'[j])
  <2>1. /\ toClient' \in Seq(Sealed) /\ Len(toClient') = Len(toClient) + 1
        /\ Len(toClient) \in Nat
        /\ \A m \in 1 .. Len(toClient) : toClient'[m] = toClient[m]
        /\ toClient'[Len(toClient) + 1] = rec
    BY <1>2, <1>3, <1>4, LogAppend
  <2>2. ASSUME NEW j \in 1 .. Len(toClient') PROVE Readable(toClient'[j])
    <3>1. j \in 1 .. Len(toClient) \/ j = Len(toClient) + 1
      BY <2>1
    <3> QED BY <1>7, <2>1, <3>1 DEF ReadInStep
  <2> QED BY <2>1, <2>2
<1>9. IF Rekeys(msgs)
      THEN LET next == First(toClient', pw') IN
              next.key = s.key + 1 /\ next.iv = s.key + 1 /\ next.seq = 0
      ELSE SamePlace(s, First(toClient', pw'))
  BY <1>6 DEF ReadInStep, SamePlace
<1>10. sync' /\ Whole(s') /\ LastOnly(msgs') /\ Reached(msgs')
  BY DEF ReadInStep
<1> QED BY <1>6, <1>8, <1>9, <1>10 DEF ReadInStep

(* The client opens the next record. *)
LEMMA ReadOpens ==
    ASSUME TypeOK, ReadInStep, NEW ctype, RecvOpened(ctype), UNCHANGED <<pw, sync>>,
           IF ctype = "handshake" THEN msgs' = Head(toClient).body.msgs ELSE msgs' = <<>>
    PROVE  ReadInStep'
<1> DEFINE rec == Head(toClient)
           t == Tail(toClient)
<1>1. /\ toClient # <<>> /\ toClient' = t /\ s' = Bump(s) /\ rec.ctype = ctype /\ msgs = <<>>
      /\ s \in Direction
  BY DEF RecvOpened, TypeOK, CallTypeOK
<1>2. toClient \in Seq(Sealed) /\ Stretch(toClient, pw) /\ Whole(s) /\ sync
  BY DEF ReadInStep
<1>3. /\ Stretch(t, pw) /\ Follows(rec, First(t, pw))
      /\ rec = toClient[1] /\ 1 \in 1 .. Len(toClient)
      /\ t \in Seq(Sealed) /\ Len(t) = Len(toClient) - 1
      /\ \A j \in 1 .. Len(t) : t[j] = toClient[j + 1] /\ j + 1 \in 1 .. Len(toClient)
  BY <1>1, <1>2, StretchTail
<1>4. SamePlace(s, rec)
  <2>1. ~Rekeys(msgs)
    BY <1>1 DEF Rekeys
  <2>2. First(toClient, pw) = rec
    BY <1>1 DEF First
  <2> QED BY <2>1, <2>2 DEF ReadInStep
<1> HIDE DEF rec, t
<1>5. Readable(rec) /\ \A j \in 1 .. Len(t) : Readable(t[j])
  BY <1>3 DEF ReadInStep
<1>6. /\ Whole(s') /\ s'.key = s.key
      /\ ~RekeysAfter(rec) => SamePlace(s', First(t, pw))
      /\ RekeysAfter(rec) => LET next == First(t, pw) IN
            next.key = s.key + 1 /\ next.iv = s.key + 1 /\ next.seq = 0
  BY <1>1, <1>2, <1>3, <1>4, ReaderMoves
<1>7. /\ LastOnly(msgs') /\ Reached(msgs') /\ (Rekeys(msgs') <=> RekeysAfter(rec))
  <2>1. CASE ctype = "handshake"
    BY <1>1, <1>5, <2>1 DEF Readable, RekeysAfter, rec
  <2>2. CASE ctype # "handshake"
    <3>1. msgs' = <<>> /\ ~RekeysAfter(rec)
      BY <1>1, <2>2 DEF RekeysAfter
    <3> QED BY <3>1 DEF LastOnly, Reached, Rekeys
  <2> QED BY <2>1, <2>2
<1>8. /\ toClient' \in Seq(Sealed) /\ Stretch(toClient', pw') /\ sync' /\ Whole(s')
      /\ \A j \in 1 .. Len(toClient') : Readable(toClient'[j])
  BY <1>1, <1>2, <1>3, <1>5, <1>6
<1>9. IF Rekeys(msgs')
      THEN LET next == First(toClient', pw') IN
              next.key = s'.key + 1 /\ next.iv = s'.key + 1 /\ next.seq = 0
      ELSE SamePlace(s', First(toClient', pw'))
  BY <1>1, <1>6, <1>7
<1> QED BY <1>7, <1>8, <1>9 DEF ReadInStep

(* What ioRecv hands over opens. *)
LEMMA ReadNotRefused ==
    ASSUME TypeOK, ReadInStep, pc \in {"idle", "recv"}, toClient # <<>>
    PROVE  Unprotect(s, Head(toClient)) = "SUCCESS" /\ RecordError(Head(toClient)) = "SUCCESS"
<1> DEFINE rec == Head(toClient)
<1>1. toClient \in Seq(Sealed) /\ Stretch(toClient, pw)
  BY DEF ReadInStep
<1>2. Unhurt(rec) /\ rec = toClient[1] /\ 1 \in 1 .. Len(toClient)
  BY <1>1, StretchTail
<1>3. rec \in Sealed /\ Readable(rec)
  BY <1>1, <1>2 DEF ReadInStep
<1>4. SamePlace(s, rec)
  <2>1. ~Rekeys(msgs)
    BY DEF Rekeys, TypeOK, CallTypeOK
  <2>2. First(toClient, pw) = rec
    BY DEF First
  <2> QED BY <2>1, <2>2 DEF ReadInStep
<1> HIDE DEF rec
<1>5. Unprotect(s, rec) = "SUCCESS"
  BY <1>2, <1>3, <1>4, InStepOpens
<1>6. rec.form = "sealed" /\ ~BadLength(rec)
  BY <1>3 DEF Sealed, Readable
<1> QED BY <1>5, <1>6 DEF rec, RecordError

(* wn_session_posths goes through the messages of a record. *)
LEMMA ReadPostHs ==
    ASSUME TypeOK, ReadInStep, Calm', PostHsStep
    PROVE  ReadInStep'
<1>1. msgs \in Seq(HsMsg \cup Alerts) /\ s \in Direction /\ LastOnly(msgs) /\ Reached(msgs)
  BY DEF ReadInStep, TypeOK, CallTypeOK
<1>0. fails \in Nat /\ faults \in Nat
  BY SessionAssumption DEF TypeOK, HistoryTypeOK
<1>2. ASSUME msgs # <<>>
      PROVE  /\ LastOnly(Tail(msgs)) /\ Reached(Tail(msgs))
             /\ Head(msgs) \notin Rekeying => (Rekeys(Tail(msgs)) <=> Rekeys(msgs))
             /\ Head(msgs) \in Rekeying => Tail(msgs) = <<>> /\ Rekeys(msgs)
             /\ Rekeys(msgs) => Head(msgs) \in {"nst"} \cup Rekeying
  BY <1>1, <1>2, MessagesTail
<1>3. ASSUME PostHsDone PROVE ReadInStep'
  BY <1>3, ReadQuietStep DEF PostHsDone, ReadQuiet, sessVars, peerVars, wireVars
<1>4. ASSUME PostHsTicket PROVE ReadInStep'
  <2>1. /\ msgs # <<>> /\ Head(msgs) \notin Rekeying /\ msgs' = Tail(msgs)
        /\ UNCHANGED <<toClient, pw, sync, s>>
    BY <1>4 DEF PostHsTicket, sessVars, peerVars, wireVars, Rekeying
  <2>2. /\ toClient' \in Seq(Sealed) /\ Stretch(toClient', pw') /\ sync' /\ Whole(s')
        /\ \A j \in 1 .. Len(toClient') : Readable(toClient'[j])
    BY <2>1 DEF ReadInStep
  <2>3. LastOnly(msgs') /\ Reached(msgs') /\ (Rekeys(msgs') <=> Rekeys(msgs))
    BY <1>2, <2>1
  <2> QED BY <2>1, <2>2, <2>3 DEF ReadInStep
<1>5. ASSUME PostHsError PROVE ReadInStep'
  <2>1. /\ msgs # <<>> /\ Head(msgs) \notin {"nst"} \cup Rekeying /\ msgs' = <<>>
        /\ UNCHANGED <<toClient, pw, sync, s>>
    BY <1>5 DEF PostHsError, Return, sessVars, peerVars, wireVars, Rekeying
  <2>2. ~Rekeys(msgs)
    BY <1>2, <2>1
  <2> QED BY <2>1, <2>2, ReadQuietStep DEF ReadQuiet
<1>6. ASSUME PostHsKeyUpdate PROVE ReadInStep'
  <2>1. /\ msgs # <<>> /\ Head(msgs) \in Rekeying /\ msgs' = Tail(msgs)
        /\ UNCHANGED <<toClient, pw, sync>>
        /\ s' = [KeyUpdated(s) EXCEPT !.seq = 0]
    BY <1>6 DEF PostHsKeyUpdate, peerVars, wireVars, Rekeying
  <2>2. msgs' = <<>> /\ Rekeys(msgs)
    BY <1>2, <2>1
  <2>3. LET next == First(toClient, pw) IN
           next.key = s.key + 1 /\ next.iv = s.key + 1 /\ next.seq = 0
    BY <2>2 DEF ReadInStep
  <2>4. Whole(s')  /\ s'.key = s.key + 1 /\ s'.iv = s.key + 1 /\ s'.seq = 0
    BY <1>1, <2>1, KeyUpdateMoves DEF ReadInStep
  <2>5. SamePlace(s', First(toClient', pw'))
    BY <2>1, <2>3, <2>4 DEF SamePlace
  <2>6. ~Rekeys(msgs') /\ LastOnly(msgs') /\ Reached(msgs')
    BY <2>2 DEF Rekeys, LastOnly, Reached
  <2>7. /\ toClient' \in Seq(Sealed) /\ Stretch(toClient', pw') /\ sync'
        /\ \A j \in 1 .. Len(toClient') : Readable(toClient'[j])
    BY <2>1 DEF ReadInStep
  <2> QED BY <2>4, <2>5, <2>6, <2>7 DEF ReadInStep
<1>7. ASSUME PostHsKeyUpdateFails \/ AnswerCryptoFails PROVE FALSE
  <2>1. fails' = fails + 1
    BY <1>7 DEF PostHsKeyUpdateFails, AnswerCryptoFails, CryptoFail
  <2>2. fails' = 0
    BY DEF Calm
  <2> QED BY <1>0, <2>1, <2>2
<1>8. ASSUME AnswerIoFails PROVE FALSE
  BY <1>0, <1>8 DEF AnswerIoFails, Emit, IoSend, Calm
<1>9. ASSUME AnswerKeyUpdate PROVE ReadInStep'
  BY <1>9, ReadQuietStep DEF AnswerKeyUpdate, ReadQuiet, peerVars
<1> QED BY <1>3, <1>4, <1>5, <1>6, <1>7, <1>8, <1>9 DEF PostHsStep

LEMMA ReadStep ==
    ASSUME TypeOK, AgreeInv, [Next]_vars, Undisturbed', flags' = {"ESTABLISHED"}
    PROVE  ReadInStep'
<1>0. /\ fails \in Nat /\ faults \in Nat
  BY SessionAssumption DEF TypeOK, HistoryTypeOK
<1>1. Undisturbed /\ flags = {"ESTABLISHED"} /\ Calm'
  <2>1. Undisturbed /\ Calm'
    BY UndisturbedBefore DEF Undisturbed, Calm
  <2>2. flags' = flags \/ flags' = flags \cup {"CLOSED"} \/ flags' = {}
    BY HistoriesGrow
  <2> QED BY <2>1, <2>2
<1>2. ReadInStep
  BY <1>1 DEF AgreeInv
<1>q. ASSUME ReadQuiet PROVE ReadInStep'
  BY <1>2, <1>q, ReadQuietStep
<1>m. pc \in {"idle", "recv"} => msgs = <<>> /\ ~Rekeys(msgs)
  BY DEF TypeOK, CallTypeOK, Rekeys
<1>3. ASSUME NEW len \in DataLens, wn_Send(len) PROVE ReadInStep'
  <2>1. ReadQuiet
    BY <1>3, <1>m DEF wn_Send, SendRefused, SendCryptoFails, SendRecord, Return, ReadQuiet,
       sessVars, peerVars, wireVars
  <2> QED BY <1>q, <2>1
<1>4. ASSUME wn_Recv PROVE ReadInStep'
  BY <1>4, <1>q DEF wn_Recv, RecvRefused, RecvCall, ReadQuiet, sessVars, peerVars, wireVars
<1>5. ~wn_Close
  <2>1. wn_Close => flags' = {}
    BY DEF wn_Close, CloseWithNotify, CloseCryptoFails, CloseQuietly, ForceZeroSession
  <2> QED BY <2>1
<1>6. ASSUME IoRecvFails PROVE ReadInStep'
  <2>1. /\ UNCHANGED <<toClient, pw, s>> /\ msgs' = <<>> /\ pc = "recv"
        /\ UNCHANGED sync \/ faults' = faults + 1
    BY <1>6 DEF IoRecvFails, Return, sessVars, peerVars
  <2>2. faults' = 0
    BY <1>1 DEF Calm
  <2>3. UNCHANGED sync
    BY <1>0, <2>1, <2>2
  <2> QED BY <1>m, <1>q, <2>1, <2>3 DEF ReadQuiet
<1>7. ~RecvMisaligned
  BY <1>2 DEF RecvMisaligned, ReadInStep
<1>8. ~RecvBadRecord
  BY <1>2, ReadNotRefused DEF RecvBadRecord
<1>9. ASSUME RecvAppData PROVE ReadInStep'
  BY <1>2, <1>9, ReadOpens DEF RecvAppData, Return, peerVars
<1>10. ASSUME RecvHandshake PROVE ReadInStep'
  BY <1>2, <1>10, ReadOpens DEF RecvHandshake, peerVars
<1>11. ASSUME RecvAlert PROVE ReadInStep'
  BY <1>2, <1>11, ReadOpens DEF RecvAlert, Return, peerVars
<1>12. ASSUME RecvUnknown PROVE ReadInStep'
  BY <1>2, <1>12, ReadOpens DEF RecvUnknown, Return, peerVars
<1>13. ASSUME PostHsStep PROVE ReadInStep'
  BY <1>1, <1>2, <1>13, ReadPostHs
<1>14. ASSUME NEW len \in DataLens, PeerData(len) PROVE ReadInStep'
  <2> DEFINE body == Data(pdata + 1, len)
  <2>1. /\ PeerEmit("appdata", body) /\ pw' = Bump(pw) /\ UNCHANGED <<s, sync, msgs>>
    BY <1>14 DEF PeerData, sessVars, callVars
  <2>2. body \in Body
    BY BodyTypes, SessionAssumption DEF TypeOK, PeerTypeOK
  <2> HIDE DEF body
  <2> QED BY <1>2, <2>1, <2>2, ReadGrows DEF Known
<1>15. ASSUME NEW q \in HsBodies, PeerHandshake(q) PROVE ReadInStep'
  <2> DEFINE body == Messages(q)
  <2>1. /\ PeerEmit("handshake", body) /\ UNCHANGED <<s, sync, msgs>>
        /\ pw' = IF Rekeys(q) THEN [KeyUpdated(pw) EXCEPT !.seq = 0] ELSE Bump(pw)
    BY <1>15 DEF PeerHandshake, sessVars, callVars, Rekeys, Rekeying
  <2>2. body \in Body /\ body.msgs = q
    BY BodyTypes, HsBodyType DEF Messages
  <2> HIDE DEF body
  <2> QED BY <1>2, <2>1, <2>2, ReadGrows DEF Known
<1>16. ASSUME NEW alert \in Alerts, PeerAlert(alert) PROVE ReadInStep'
  <2> DEFINE body == Messages(<<alert>>)
  <2>1. /\ PeerEmit("alert", body) /\ UNCHANGED <<s, sync, msgs>> /\ pw' = Bump(pw)
    BY <1>16 DEF PeerAlert, sessVars, callVars
  <2>2. body \in Body
    BY BodyTypes
  <2> HIDE DEF body
  <2> QED BY <1>2, <2>1, <2>2, ReadGrows DEF Known
<1>17. ASSUME (\E ctype \in {"unknown", "padding"} : PeerOddContent(ctype)) \/ TransportFault
       PROVE  FALSE
  BY <1>0, <1>1, <1>17 DEF PeerOddContent, TransportFault, Calm
<1>18. ASSUME PeerRecv PROVE ReadInStep'
  BY <1>18, <1>q DEF PeerRecv, ReadQuiet, sessVars, callVars
<1>19. ASSUME UNCHANGED vars PROVE ReadInStep'
  BY <1>19, <1>q DEF vars, ReadQuiet, sessVars, callVars, peerVars, wireVars
<1> QED BY Zenon, <1>3, <1>4, <1>5, <1>6, <1>7, <1>8, <1>9, <1>10, <1>11, <1>12, <1>13,
                <1>14, <1>15, <1>16, <1>17, <1>18, <1>19
        DEF Next, Caller, CallStep, RecvStep, PeerStep

-----------------------------------------------------------------------------
(* The peer stays in step with what the client writes. *)
WriteQuiet ==
    /\ UNCHANGED <<toPeer, pr>>
    /\ (UNCHANGED c /\ (flags' = {} <=> flags = {})) \/ flags' = {}

LEMMA WriteQuietStep ==
    ASSUME NEW d, WriteInStep(d), WriteQuiet
    PROVE  WriteInStep(d)'
BY DEF WriteInStep, WriteQuiet

(* The client seals a record, ioSend takes all of it and the write direction
   goes on. *)
LEMMA WriteGrows ==
    ASSUME TypeOK, NEW d \in Direction, WriteInStep(d), flags # {},
           NEW ctype \in Known, NEW body \in Body, NEW e \in Direction,
           Emit(Protect(c, ctype, body), TRUE), UNCHANGED pr,
           e = IF ctype = "handshake" THEN [KeyUpdated(c) EXCEPT !.seq = 0] ELSE Bump(c),
           ctype = "handshake" => body.msgs = <<"ku0">>,
           flags' # {} => c' = e
    PROVE  WriteInStep(e)'
<1> DEFINE rec == Protect(c, ctype, body)
<1>1. /\ toPeer \in Seq(Sealed) /\ c \in Direction /\ ctype \in CTypes
      /\ d = c /\ Stretch(toPeer, c) /\ Whole(c)
  BY DEF TypeOK, CallTypeOK, WireTypeOK, CTypes, Known, WriteInStep, Stretch
<1>2. rec \in Sealed /\ rec.ctype = ctype /\ rec.body = body
  BY <1>1, ProtectType DEF Protect
<1>3. toPeer' = Append(toPeer, rec)
  BY DEF Emit, IoSend
<1>4. e = IF ctype = "handshake" /\ Rekeys(body.msgs)
          THEN [KeyUpdated(c) EXCEPT !.seq = 0] ELSE Bump(c)
  <2>1. Rekeys(<<"ku0">>)
    BY DEF Rekeys, Rekeying
  <2> QED BY <2>1
<1>5. SamePlace(rec, c) /\ Unhurt(rec) /\ Whole(e) /\ Follows(rec, e)
  BY <1>1, <1>4, WriterMoves
<1> HIDE DEF rec
<1>6. Stretch(toPeer', e) /\ SamePlace(First(toPeer', e), First(toPeer, c))
  BY <1>1, <1>2, <1>3, <1>5, StretchAppend
<1>7. Whole(pr') /\ SamePlace(pr', First(toPeer', e))
  BY <1>1, <1>6 DEF WriteInStep, SamePlace
<1>8. ASSUME NEW j \in 1 .. Len(toPeer'), toPeer'[j].ctype = "handshake"
      PROVE  toPeer'[j].body.msgs = <<"ku0">>
  <2>1. /\ Len(toPeer') = Len(toPeer) + 1 /\ Len(toPeer) \in Nat
        /\ \A m \in 1 .. Len(toPeer) : toPeer'[m] = toPeer[m]
        /\ toPeer'[Len(toPeer) + 1] = rec
    BY <1>1, <1>2, <1>3, LogAppend
  <2>2. CASE j = Len(toPeer) + 1
    BY <1>2, <1>8, <2>1, <2>2
  <2>3. CASE j \in 1 .. Len(toPeer)
    BY <1>8, <2>1, <2>3 DEF WriteInStep
  <2> QED BY <2>1, <2>2, <2>3
<1> QED BY <1>6, <1>7, <1>8 DEF WriteInStep

(* The peer reads: every record opens. *)
LEMMA WriteRead ==
    ASSUME TypeOK, NEW d, WriteInStep(d), PeerRecv
    PROVE  WriteInStep(d)'
<1> DEFINE rec == Head(toPeer)
           t == Tail(toPeer)
<1>1. /\ toPeer # <<>> /\ peer # "dead" /\ toPeer' = t /\ UNCHANGED <<flags, c>>
      /\ toPeer \in Seq(Sealed) /\ pr \in Direction
  BY DEF PeerRecv, sessVars, TypeOK, WireTypeOK, PeerTypeOK
<1>2. /\ Stretch(t, d) /\ Follows(rec, First(t, d)) /\ Unhurt(rec)
      /\ rec = toPeer[1] /\ 1 \in 1 .. Len(toPeer)
      /\ t \in Seq(Sealed) /\ Len(t) = Len(toPeer) - 1
      /\ \A j \in 1 .. Len(t) : t[j] = toPeer[j + 1] /\ j + 1 \in 1 .. Len(toPeer)
  BY <1>1, StretchTail DEF WriteInStep
<1>3. SamePlace(pr, rec) /\ Whole(pr)
  <2>1. First(toPeer, d) = rec
    BY <1>1 DEF First
  <2> QED BY <2>1 DEF WriteInStep
<1>4. rec \in Sealed /\ (rec.ctype = "handshake" => rec.body.msgs = <<"ku0">>)
  BY <1>1, <1>2 DEF WriteInStep
<1> HIDE DEF rec, t
<1>5. PeerOpens(rec)
  BY <1>1, <1>2, <1>3, <1>4, InStepOpens DEF PeerOpens
<1>6. pr' = IF rec.ctype = "handshake" THEN [KeyUpdated(pr) EXCEPT !.seq = 0] ELSE Bump(pr)
  BY <1>5 DEF PeerRecv, rec
<1>7. RekeysAfter(rec) <=> rec.ctype = "handshake"
  <2>1. Rekeys(<<"ku0">>)
    BY DEF Rekeys, Rekeying
  <2> QED BY <1>4, <2>1 DEF RekeysAfter
<1>8. Whole(pr') /\ SamePlace(pr', First(t, d))
  <2>1. CASE RekeysAfter(rec)
    <3>1. LET next == First(t, d) IN
             next.key = pr.key + 1 /\ next.iv = pr.key + 1 /\ next.seq = 0
      BY <1>1, <1>2, <1>3, <2>1, ReaderMoves
    <3>2. pr' = [KeyUpdated(pr) EXCEPT !.seq = 0]
      BY <1>6, <1>7, <2>1
    <3>3. Whole(pr') /\ pr'.key = pr.key + 1 /\ pr'.iv = pr.key + 1 /\ pr'.seq = 0
      BY <1>1, <1>3, <3>2, KeyUpdateMoves
    <3> QED BY <3>1, <3>3 DEF SamePlace
  <2>2. CASE ~RekeysAfter(rec)
    <3>1. pr' = Bump(pr)
      BY <1>6, <1>7, <2>2
    <3> QED BY <1>1, <1>2, <1>3, <2>2, <3>1, ReaderMoves
  <2> QED BY <2>1, <2>2
<1>9. \A j \in 1 .. Len(toPeer') : toPeer'[j].ctype = "handshake" => toPeer'[j].body.msgs = <<"ku0">>
  BY <1>1, <1>2 DEF WriteInStep
<1>10. flags' # {} => d = c'
  BY <1>1 DEF WriteInStep
<1> QED BY <1>1, <1>2, <1>8, <1>9, <1>10 DEF WriteInStep

LEMMA WriteStep ==
    ASSUME TypeOK, AgreeInv, [Next]_vars, Calm'
    PROVE  \E d \in Direction : WriteInStep(d)'
<1> DEFINE Goal == \E d \in Direction : WriteInStep(d)'
<1>0. fails \in Nat /\ faults \in Nat /\ c \in Direction
  BY SessionAssumption DEF TypeOK, HistoryTypeOK, CallTypeOK
<1>1. PICK d \in Direction : WriteInStep(d)
  BY HistoriesGrow DEF AgreeInv, Calm
<1>q. ASSUME WriteQuiet PROVE Goal
  BY <1>1, <1>q, WriteQuietStep
<1>e. ASSUME NEW rec, NEW ok, Emit(rec, ok) PROVE Emit(rec, TRUE)
  <2>1. CASE ok
    BY <1>e, <2>1 DEF Emit, IoSend
  <2>2. CASE ~ok
    <3>1. faults' = faults + 1
      BY <1>e, <2>2 DEF Emit, IoSend
    <3>2. faults' = 0
      BY DEF Calm
    <3> QED BY <1>0, <3>1, <3>2
  <2> QED BY <2>1, <2>2
<1>f. ~CryptoFail
  <2>1. CryptoFail => fails' = fails + 1
    BY DEF CryptoFail
  <2>2. fails' = 0
    BY DEF Calm
  <2> QED BY <1>0, <2>1, <2>2
<1> HIDE DEF Goal
<1>2. ASSUME NEW len \in DataLens, SendRecord(len) PROVE Goal
  <2> DEFINE body == Data(cdata + 1, len)
  <2>1. /\ Emit(Protect(c, "appdata", body), TRUE) /\ c' = Bump(c) /\ UNCHANGED pr
        /\ StateError = "SUCCESS"
    BY <1>2, <1>e DEF SendRecord, peerVars
  <2>2. body \in Body /\ flags # {}
    <3>1. cdata + 1 \in Nat /\ len \in Nat
      BY SessionAssumption DEF TypeOK, HistoryTypeOK
    <3>2. flags = {"ESTABLISHED"}
      BY <2>1, OpenFlags
    <3> QED BY <3>1, <3>2, BodyTypes
  <2> HIDE DEF body
  <2>3. PICK e \in Direction : e = Bump(c)
    BY <1>0, BumpType
  <2>4. /\ e = IF "appdata" = "handshake" THEN [KeyUpdated(c) EXCEPT !.seq = 0] ELSE Bump(c)
        /\ flags' # {} => c' = e
    BY <2>1, <2>3
  <2>5. WriteInStep(e)'
    BY <1>1, <2>1, <2>2, <2>4, WriteGrows DEF Known
  <2> QED BY <2>5 DEF Goal
<1>3. ASSUME CloseWithNotify PROVE Goal
  <2> DEFINE body == Messages(<<"close_notify">>)
  <2>1. /\ Emit(Protect(c, "alert", body), TRUE) /\ flags' = {} /\ flags # {} /\ UNCHANGED pr
    BY <1>3, <1>e DEF CloseWithNotify, ForceZeroSession, peerVars
  <2>2. body \in Body
    BY BodyTypes
  <2> HIDE DEF body
  <2>3. PICK e \in Direction : e = Bump(c)
    BY <1>0, BumpType
  <2>4. /\ e = IF "alert" = "handshake" THEN [KeyUpdated(c) EXCEPT !.seq = 0] ELSE Bump(c)
        /\ flags' # {} => c' = e
    BY <2>1, <2>3
  <2>5. WriteInStep(e)'
    BY <1>1, <2>1, <2>2, <2>4, WriteGrows DEF Known
  <2> QED BY <2>5 DEF Goal
<1>4. ASSUME AnswerKeyUpdate PROVE Goal
  <2> DEFINE body == Messages(<<"ku0">>)
  <2>1. PICK e \in Direction : e = [KeyUpdated(c) EXCEPT !.seq = 0]
    BY <1>0, KeyUpdatedType
  <2>2. /\ Emit(Protect(c, "handshake", body), TRUE) /\ c' = e /\ UNCHANGED pr
        /\ pc = "answer"
    BY <1>4, <2>1 DEF AnswerKeyUpdate, KuRecord, peerVars
  <2>3. body \in Body /\ flags # {} /\ body.msgs = <<"ku0">>
    BY <2>2, BodyTypes DEF TypeOK, CallTypeOK, Messages
  <2>4. e = IF "handshake" = "handshake" THEN [KeyUpdated(c) EXCEPT !.seq = 0] ELSE Bump(c)
    BY <2>1
  <2> HIDE DEF body
  <2>5. WriteInStep(e)'
    BY <1>1, <2>2, <2>3, <2>4, WriteGrows DEF Known
  <2> QED BY <2>5 DEF Goal
<1>5. ~AnswerIoFails
  <2>1. AnswerIoFails => faults' = faults + 1
    BY DEF AnswerIoFails, Emit, IoSend
  <2>2. faults' = 0
    BY DEF Calm
  <2> QED BY <1>0, <2>1, <2>2
<1>6. ~AnswerCryptoFails /\ ~CloseCryptoFails /\ \A len : ~SendCryptoFails(len)
  BY <1>f DEF AnswerCryptoFails, CloseCryptoFails, SendCryptoFails
<1>7. ASSUME CloseQuietly PROVE Goal
  BY <1>7, <1>q DEF CloseQuietly, ForceZeroSession, WriteQuiet, peerVars, wireVars
<1>8. ASSUME NEW len, SendRefused(len) PROVE Goal
  BY <1>8, <1>q DEF SendRefused, WriteQuiet, sessVars, peerVars, wireVars
<1>9. ASSUME wn_Recv PROVE Goal
  BY <1>9, <1>q DEF wn_Recv, RecvRefused, RecvCall, WriteQuiet, sessVars, peerVars, wireVars
<1>10. ASSUME RecvStep PROVE Goal
  <2>1. UNCHANGED <<toPeer, pr, c>> /\ pc = "recv"
    BY <1>10 DEF RecvStep, IoRecvFails, RecvMisaligned, RecvBadRecord, RecvAppData,
       RecvHandshake, RecvAlert, RecvUnknown, RecvOpened, sessVars, peerVars
  <2>2. flags # {}
    BY <2>1 DEF TypeOK, CallTypeOK
  <2>3. flags' = flags \/ flags' = flags \cup {"CLOSED"} \/ flags' = {}
    BY HistoriesGrow
  <2> QED BY <1>q, <2>1, <2>2, <2>3 DEF WriteQuiet
<1>11. ASSUME PostHsDone \/ PostHsTicket \/ PostHsError \/ PostHsKeyUpdate
              \/ PostHsKeyUpdateFails
       PROVE  Goal
  BY <1>11, <1>q DEF PostHsDone, PostHsTicket, PostHsError, PostHsKeyUpdate,
     PostHsKeyUpdateFails, WriteQuiet, sessVars, peerVars, wireVars
<1>12. ASSUME \/ \E len \in DataLens : PeerData(len)
              \/ \E q \in HsBodies : PeerHandshake(q)
              \/ \E alert \in Alerts : PeerAlert(alert)
              \/ \E ctype \in {"unknown", "padding"} : PeerOddContent(ctype)
       PROVE  Goal
  BY <1>12, <1>q DEF PeerData, PeerHandshake, PeerAlert, PeerOddContent, WriteQuiet, sessVars
<1>13. ASSUME PeerRecv PROVE Goal
  BY <1>1, <1>13, WriteRead DEF Goal
<1>14. ASSUME TransportFault PROVE Goal
  BY <1>14, <1>q DEF TransportFault, WriteQuiet, sessVars, peerVars
<1>15. ASSUME UNCHANGED vars PROVE Goal
  BY <1>15, <1>q DEF vars, WriteQuiet, sessVars, peerVars, wireVars
<1>16. Goal
  BY Zenon, <1>2, <1>3, <1>4, <1>5, <1>6, <1>7, <1>8, <1>9, <1>10, <1>11, <1>12, <1>13,
            <1>14, <1>15
     DEF Next, Caller, CallStep, PostHsStep, PeerStep, wn_Send, wn_Close
<1> QED BY <1>16 DEF Goal

LEMMA AgreeInit == Init => AgreeInv
<1> SUFFICES ASSUME Init PROVE AgreeInv
  OBVIOUS
<1>1. /\ toClient = <<>> /\ Len(toClient) = 0 /\ toPeer = <<>> /\ Len(toPeer) = 0 /\ msgs = <<>>
      /\ pw = FreshDirection /\ pr = FreshDirection /\ s = FreshDirection /\ c = FreshDirection
  BY DEF Init
<1>2. sync
  BY Zenon DEF Init
<1>3. Whole(FreshDirection) /\ FreshDirection \in Direction
  BY ConstantDirections DEF Whole, FreshDirection
<1>4. ReadInStep
  <2>1. toClient \in Seq(Sealed) /\ Stretch(toClient, pw) /\ Whole(s)
    BY <1>1, <1>3 DEF Stretch
  <2>2. \A j \in 1 .. Len(toClient) : Readable(toClient[j])
    BY <1>1
  <2>3. ~Rekeys(msgs) /\ LastOnly(msgs) /\ Reached(msgs)
    BY <1>1 DEF Rekeys, LastOnly, Reached
  <2>4. SamePlace(s, First(toClient, pw))
    BY <1>1 DEF SamePlace, First
  <2> QED BY <1>2, <2>1, <2>2, <2>3, <2>4 DEF ReadInStep
<1>5. WriteInStep(FreshDirection)
  BY <1>1, <1>3 DEF WriteInStep, Stretch, SamePlace, First
<1> QED BY <1>3, <1>4, <1>5 DEF AgreeInv

LEMMA AgreeStep == TypeOK /\ AgreeInv /\ [Next]_vars => AgreeInv'
<1> SUFFICES ASSUME TypeOK, AgreeInv, [Next]_vars PROVE AgreeInv'
  OBVIOUS
<1>1. Undisturbed' /\ flags' = {"ESTABLISHED"} => ReadInStep'
  BY ReadStep
<1>2. Calm' => \E d \in Direction : WriteInStep(d)'
  BY WriteStep
<1> QED BY <1>1, <1>2 DEF AgreeInv, Calm

(***************************************************************************)
(* Without a fault, what either end is about to read opens: the client's   *)
(* and the peer's keys and counters agree across every key update.         *)
(***************************************************************************)
THEOREM KeysStayInStep == Spec => []KeysInStep
<1>1. Init => TypeOK /\ AgreeInv
  BY TypeInit, AgreeInit
<1>2. TypeOK /\ AgreeInv /\ [Next]_vars => (TypeOK /\ AgreeInv)'
  BY TypeStep, AgreeStep
<1>3. TypeOK /\ AgreeInv => KeysInStep
  <2> SUFFICES ASSUME TypeOK, AgreeInv, Undisturbed PROVE
         /\ (toClient # <<>> /\ pc \in {"idle", "recv"} /\ flags = {"ESTABLISHED"})
               => Unprotect(s, Head(toClient)) = "SUCCESS"
         /\ toPeer # <<>> => Unprotect(pr, Head(toPeer)) = "SUCCESS"
    BY DEF KeysInStep
  <2>1. ASSUME toClient # <<>>, pc \in {"idle", "recv"}, flags = {"ESTABLISHED"}
        PROVE  Unprotect(s, Head(toClient)) = "SUCCESS"
    BY <2>1, ReadNotRefused DEF AgreeInv
  <2>2. ASSUME toPeer # <<>> PROVE Unprotect(pr, Head(toPeer)) = "SUCCESS"
    <3>1. PICK d \in Direction : WriteInStep(d)
      BY DEF AgreeInv, Undisturbed
    <3>2. toPeer \in Seq(Sealed)
      BY DEF TypeOK, WireTypeOK
    <3>3. Unhurt(Head(toPeer)) /\ Head(toPeer) = toPeer[1] /\ 1 \in 1 .. Len(toPeer)
      BY <2>2, <3>1, <3>2, StretchTail DEF WriteInStep
    <3>4. SamePlace(pr, Head(toPeer)) /\ Head(toPeer) \in Sealed
      BY <2>2, <3>1, <3>2, <3>3 DEF WriteInStep, First
    <3> QED BY <3>3, <3>4, InStepOpens
  <2> QED BY <2>1, <2>2
<1> QED BY <1>1, <1>2, <1>3, PTL DEF Spec

-----------------------------------------------------------------------------
(***************************************************************************)
(* How many KeyUpdates the client owes the peer.  No two of the peer's     *)
(* rekey under one key, so those the client has carried out are the ones   *)
(* sealed under a key below sKey; an answer is owed for each that asks for *)
(* one, at most one of them not yet sent.                                  *)
(***************************************************************************)
Owed == IF pc = "answer" THEN 1 ELSE 0
Carried == {i \in 1 .. Len(plog) : Asks(plog[i]) /\ plog[i].key < s.key}

(* The KeyUpdate wn_session_posths will come to is the peer's. *)
Received(rec) ==
    /\ rec.key = s.key /\ RekeysAfter(rec)
    /\ rec.body.msgs[Len(rec.body.msgs)] = msgs[Len(msgs)]

TallyOpen ==
    /\ s.key <= s.secret /\ LastOnly(msgs)
    /\ Cardinality(KeyUpdatesSent) + Owed <= Cardinality(Carried)
    /\ Rekeys(msgs) => \E i \in 1 .. Len(plog) : Received(plog[i])

TallyEven ==
    Undisturbed /\ flags = {"ESTABLISHED"} =>
        Cardinality(KeyUpdatesSent) + Owed = Cardinality(Carried)

TallyInv ==
    /\ Cardinality(KeyUpdatesSent) <= Cardinality(KeyUpdatesAsked)
    /\ flags # {} => TallyOpen
    /\ TallyEven

(* Lemmas about the counts *)
LEMMA Counted ==
    ASSUME NEW n \in Nat, NEW A, A \subseteq 1 .. n
    PROVE  IsFiniteSet(A) /\ Cardinality(A) \in Nat
<1>1. IsFiniteSet(1 .. n)
  BY FS_Interval
<1>2. IsFiniteSet(A)
  BY <1>1, FS_Subset
<1> QED BY <1>2, FS_CardinalityType

LEMMA Counts ==
    ASSUME TypeOK
    PROVE  /\ IsFiniteSet(KeyUpdatesSent) /\ Cardinality(KeyUpdatesSent) \in Nat
           /\ IsFiniteSet(KeyUpdatesAsked) /\ Cardinality(KeyUpdatesAsked) \in Nat
           /\ IsFiniteSet(Carried) /\ Cardinality(Carried) \in Nat
           /\ Cardinality(Carried) <= Cardinality(KeyUpdatesAsked)
           /\ Owed \in {0, 1} /\ Owed \in Nat
<1>1. Len(wrote) \in Nat /\ Len(plog) \in Nat
  BY DEF TypeOK, HistoryTypeOK, PeerTypeOK
<1>2. /\ KeyUpdatesSent \subseteq 1 .. Len(wrote) /\ KeyUpdatesAsked \subseteq 1 .. Len(plog)
      /\ Carried \subseteq 1 .. Len(plog) /\ Carried \subseteq KeyUpdatesAsked
  BY DEF KeyUpdatesSent, KeyUpdatesAsked, Carried
<1>3. /\ IsFiniteSet(KeyUpdatesSent) /\ Cardinality(KeyUpdatesSent) \in Nat
      /\ IsFiniteSet(KeyUpdatesAsked) /\ Cardinality(KeyUpdatesAsked) \in Nat
      /\ IsFiniteSet(Carried) /\ Cardinality(Carried) \in Nat
  BY <1>1, <1>2, Counted
<1>4. Cardinality(Carried) <= Cardinality(KeyUpdatesAsked)
  BY <1>2, <1>3, FS_Subset
<1> QED BY <1>3, <1>4 DEF Owed

(* The client writes a record: one more KeyUpdate, or none. *)
LEMMA SentAppend ==
    ASSUME TypeOK, NEW rec \in Sealed, wrote' = Append(wrote, rec)
    PROVE  /\ rec.ctype = "handshake" =>
                 Cardinality(KeyUpdatesSent') = Cardinality(KeyUpdatesSent) + 1
           /\ rec.ctype # "handshake" => KeyUpdatesSent' = KeyUpdatesSent
<1>1. /\ wrote \in Seq(Sealed) /\ Len(wrote) \in Nat
  BY DEF TypeOK, HistoryTypeOK
<1>2. /\ Len(wrote') = Len(wrote) + 1 /\ wrote'[Len(wrote) + 1] = rec
      /\ \A m \in 1 .. Len(wrote) : wrote'[m] = wrote[m]
  BY <1>1, LogAppend
<1>3. \A m : m \in 1 .. Len(wrote') <=> m \in 1 .. Len(wrote) \/ m = Len(wrote) + 1
  BY <1>1, <1>2
<1>4. ASSUME rec.ctype = "handshake"
      PROVE  Cardinality(KeyUpdatesSent') = Cardinality(KeyUpdatesSent) + 1
  <2>1. KeyUpdatesSent' = KeyUpdatesSent \cup {Len(wrote) + 1}
    BY <1>2, <1>3, <1>4 DEF KeyUpdatesSent
  <2>2. Len(wrote) + 1 \notin KeyUpdatesSent
    BY <1>1 DEF KeyUpdatesSent
  <2> QED BY <2>1, <2>2, Counts, FS_AddElement
<1>5. ASSUME rec.ctype # "handshake" PROVE KeyUpdatesSent' = KeyUpdatesSent
  BY <1>2, <1>3, <1>5 DEF KeyUpdatesSent
<1> QED BY <1>4, <1>5

(* The peer rekeys under each key at most once. *)
LEMMA RekeyedOnce ==
    ASSUME TypeOK, PeerLog, NEW i \in 1 .. Len(plog), RekeysAfter(plog[i])
    PROVE  /\ plog[i].key < pw.key
           /\ \A j \in 1 .. Len(plog) : plog[j].key = plog[i].key => j <= i
<1>0. Len(plog) \in Nat /\ plog \in Seq(Sealed)
  BY DEF TypeOK, PeerTypeOK
<1>1. i \in 0 .. Len(plog) /\ At(i).key = plog[i].key + 1 /\ plog[i].key \in Nat
  <2>1. plog[i] \in Sealed
    BY <1>0
  <2> QED BY <2>1 DEF PeerLog, RekeysAfter, Sealed
<1>2. ASSUME NEW m \in 0 .. Len(plog), i <= m PROVE At(i).key <= At(m).key
  <2>1. i = m \/ Before(At(i), At(m))
    BY <1>1, <1>2 DEF PeerLog
  <2>2. At(i).key \in Nat /\ At(m).key \in Nat
    BY <1>1, AtType
  <2> QED BY <2>1, <2>2 DEF Before
<1>3. plog[i].key < pw.key
  <2>1. Len(plog) \in 0 .. Len(plog) /\ i <= Len(plog) /\ At(Len(plog)) = pw
    BY <1>0 DEF At
  <2>2. At(i).key <= pw.key /\ pw.key \in Nat
    BY <1>2, <2>1 DEF TypeOK, PeerTypeOK, Direction
  <2> QED BY <1>1, <2>2
<1>4. ASSUME NEW j \in 1 .. Len(plog), plog[j].key = plog[i].key PROVE j <= i
  <2> SUFFICES ASSUME i < j PROVE FALSE
    BY <1>0
  <2>1. j - 1 \in 0 .. Len(plog) /\ i <= j - 1 /\ At(j - 1) = plog[j]
    BY <1>0 DEF At
  <2>2. At(i).key <= At(j - 1).key
    BY <1>2, <2>1
  <2> QED BY <1>1, <1>4, <2>1, <2>2
<1> QED BY <1>3, <1>4

-----------------------------------------------------------------------------
(* One lemma per kind of step. *)
LEMMA TallyQuietStep ==
    ASSUME TypeOK, TallyOpen, TallyEven, Undisturbed' => Undisturbed,
           flags' = {"ESTABLISHED"} => flags = {"ESTABLISHED"},
           plog' = plog, KeyUpdatesSent' = KeyUpdatesSent,
           s'.key = s.key, s'.secret = s.secret, msgs' = msgs \/ msgs' = <<>>,
           Owed' = Owed \/ (Owed' = 0 /\ ~Undisturbed')
    PROVE  TallyOpen' /\ TallyEven'
<1>1. Carried' = Carried
  BY DEF Carried
<1>2. LastOnly(msgs')
  BY DEF TallyOpen, LastOnly
<1>3. ASSUME Rekeys(msgs') PROVE \E i \in 1 .. Len(plog') : Received(plog[i])'
  <2>1. msgs' = msgs
    BY <1>3 DEF Rekeys
  <2>2. PICK i \in 1 .. Len(plog) : Received(plog[i])
    BY <1>3, <2>1 DEF TallyOpen
  <2>3. Received(plog[i])'
    BY <2>1, <2>2 DEF Received
  <2> QED BY <2>3
<1>4. Cardinality(KeyUpdatesSent') + Owed' <= Cardinality(Carried')
  BY <1>1, Counts DEF TallyOpen
<1>5. TallyEven'
  BY <1>1 DEF TallyEven
<1>6. s'.key <= s'.secret
  BY DEF TallyOpen
<1> QED BY <1>2, <1>3, <1>4, <1>5, <1>6 DEF TallyOpen

(* The peer writes a record: under a key the client has not left. *)
LEMMA TallyGrows ==
    ASSUME TypeOK, RecvInv, AgreeInv, TallyOpen, TallyEven, Undisturbed' => Undisturbed,
           NEW ctype \in CTypes, NEW body \in Body, PeerEmit(ctype, body),
           UNCHANGED <<flags, s, wrote, msgs, pc>>
    PROVE  TallyOpen' /\ TallyEven'
<1> DEFINE rec == Protect(pw, ctype, body)
<1>1. plog \in Seq(Sealed) /\ rec \in Sealed /\ plog' = Append(plog, rec) /\ rec.key = pw.key
      /\ Len(plog) \in Nat
  BY ProtectType DEF PeerEmit, Protect, TypeOK, PeerTypeOK
<1> HIDE DEF rec
<1>2. /\ Len(plog') = Len(plog) + 1 /\ plog'[Len(plog) + 1] = rec
      /\ \A m \in 1 .. Len(plog) : plog'[m] = plog[m]
  BY <1>1, LogAppend
<1>3. \A m : m \in 1 .. Len(plog') <=> m \in 1 .. Len(plog) \/ m = Len(plog) + 1
  BY <1>1, <1>2
<1>4. KeyUpdatesSent' = KeyUpdatesSent /\ Owed' = Owed
  BY DEF KeyUpdatesSent, Owed
<1>5. /\ Carried \subseteq Carried' /\ Carried' \subseteq 1 .. Len(plog')
      /\ ~(rec.key < s.key) => Carried' = Carried
  BY <1>2, <1>3 DEF Carried
<1>6. Cardinality(Carried) <= Cardinality(Carried') /\ Cardinality(Carried') \in Nat
  <2>1. Len(plog') \in Nat
    BY <1>1, <1>2
  <2>2. IsFiniteSet(Carried') /\ Cardinality(Carried') \in Nat
    BY <1>5, <2>1, Counted
  <2> QED BY <1>5, <2>2, FS_Subset
<1>7. Cardinality(KeyUpdatesSent') + Owed' <= Cardinality(Carried')
  BY <1>4, <1>6, Counts DEF TallyOpen
<1>8. ASSUME Rekeys(msgs') PROVE \E i \in 1 .. Len(plog') : Received(plog[i])'
  <2>1. PICK i \in 1 .. Len(plog) : Received(plog[i])
    BY <1>8 DEF TallyOpen
  <2>2. i \in 1 .. Len(plog') /\ plog'[i] = plog[i]
    BY <1>2, <1>3
  <2>3. Received(plog[i])'
    BY <2>1, <2>2 DEF Received
  <2> QED BY <2>2, <2>3
<1>9. TallyEven'
  <2> SUFFICES ASSUME Undisturbed', flags = {"ESTABLISHED"}
               PROVE  Cardinality(KeyUpdatesSent') + Owed' = Cardinality(Carried')
    BY DEF TallyEven
  <2>1. Cardinality(KeyUpdatesSent) + Owed = Cardinality(Carried)
    BY DEF TallyEven
  <2>2. ~(pw.key < s.key)
    <3>1. s.iv = s.key
      BY DEF AgreeInv, ReadInStep, Whole
    <3>2. PICK n \in 0 .. Len(plog) : Reading(n)
      BY DEF RecvInv
    <3>3. Aligned(n) \/ s.key < pw.key
      BY <3>1, <3>2 DEF Reading, Blind
    <3>4. s.key \in Nat /\ pw.key \in Nat
      BY DEF TypeOK, CallTypeOK, PeerTypeOK, Direction
    <3>5. CASE Aligned(n)
      <4>1. Len(plog) \in 0 .. Len(plog) /\ At(Len(plog)) = pw
        BY <1>1 DEF At
      <4>2. n = Len(plog) \/ Before(At(n), pw)
        BY <1>1, <4>1 DEF RecvInv, PeerLog
      <4> QED BY <3>4, <3>5, <4>1, <4>2 DEF Aligned, Before
    <3> QED BY <3>3, <3>4, <3>5
  <2>3. Carried' = Carried
    BY <1>1, <1>5, <2>2
  <2> QED BY <1>4, <2>1, <2>3
<1>10. s'.key <= s'.secret /\ LastOnly(msgs')
  BY DEF TallyOpen
<1> QED BY <1>7, <1>8, <1>9, <1>10 DEF TallyOpen

(* The client opens a handshake record: it is one of the peer's. *)
LEMMA TallyHandshake ==
    ASSUME TypeOK, RecvInv, TallyOpen, TallyEven, Undisturbed' => Undisturbed, RecvHandshake
    PROVE  TallyOpen' /\ TallyEven'
<1> DEFINE rec == Head(toClient)
<1>1. /\ RecvOpened("handshake") /\ UNCHANGED <<flags, plog, wrote>> /\ msgs' = rec.body.msgs
      /\ s' = Bump(s) /\ s \in Direction /\ pc = "recv" /\ pc' = "posths"
      /\ rec.ctype = "handshake"
  BY DEF RecvHandshake, RecvOpened, peerVars, TypeOK, CallTypeOK
<1>2. rec \in Sealed /\ rec \in Honest
  <2>1. rec \in Sealed
    BY <1>1, OpenedIsSealed
  <2> QED BY <1>1, <2>1 DEF RecvInv, RecvOpened
<1>3. rec.intact /\ rec.key = s.key /\ rec.form = "sealed"
  <2>1. RecordError(rec) = "SUCCESS"
    BY <1>1 DEF RecvOpened
  <2>2. Unprotect(s, rec) = "SUCCESS"
    BY <1>2, <2>1 DEF RecordError, Sealed
  <2> QED BY <1>2, <2>2 DEF Unprotect, Sealed
<1>4. PICK i \in 1 .. Len(plog) : rec = plog[i]
  BY <1>2, <1>3 DEF Honest
<1> HIDE DEF rec
<1>5. s'.key = s.key /\ s'.secret = s.secret
  BY <1>1 DEF Bump, Direction
<1>6. msgs' \in HsBodies
  BY <1>1, <1>4 DEF RecvInv, PeerLog
<1>7. LastOnly(msgs')
  BY <1>6, KeyUpdateLastAssumption DEF LastOnly, Rekeying
<1>8. Carried' = Carried /\ KeyUpdatesSent' = KeyUpdatesSent /\ Owed' = Owed
  BY <1>1, <1>5 DEF Carried, KeyUpdatesSent, Owed
<1>9. ASSUME Rekeys(msgs') PROVE \E j \in 1 .. Len(plog') : Received(plog[j])'
  <2>1. plog'[i].key = s'.key /\ RekeysAfter(plog'[i]) /\ plog'[i].body.msgs = msgs'
    BY <1>1, <1>3, <1>4, <1>5, <1>9 DEF RekeysAfter
  <2>2. Received(plog[i])'
    BY <2>1 DEF Received
  <2> QED BY <1>1, <2>2
<1>10. Cardinality(KeyUpdatesSent') + Owed' <= Cardinality(Carried')
  BY <1>8 DEF TallyOpen
<1>11. TallyEven'
  BY <1>1, <1>8 DEF TallyEven
<1>12. s'.key <= s'.secret
  BY <1>5 DEF TallyOpen
<1> QED BY <1>7, <1>9, <1>10, <1>11, <1>12 DEF TallyOpen

LEMMA TallyTicket ==
    ASSUME TypeOK, TallyOpen, TallyEven, Undisturbed' => Undisturbed, PostHsTicket
    PROVE  TallyOpen' /\ TallyEven'
<1>1. /\ msgs # <<>> /\ Head(msgs) \notin Rekeying /\ msgs' = Tail(msgs)
      /\ UNCHANGED <<flags, plog, wrote, s, pc>>
  BY DEF PostHsTicket, sessVars, peerVars, Rekeying
<1>2. /\ LastOnly(msgs')
      /\ Rekeys(msgs') <=> Rekeys(msgs)
      /\ Rekeys(msgs) => msgs'[Len(msgs')] = msgs[Len(msgs)]
  <2>1. msgs \in Seq(HsMsg \cup Alerts) /\ LastOnly(msgs)
    BY DEF TypeOK, CallTypeOK, TallyOpen
  <2> QED BY <1>1, <2>1, MessagesTail
<1>3. Carried' = Carried /\ KeyUpdatesSent' = KeyUpdatesSent /\ Owed' = Owed
  BY <1>1 DEF Carried, KeyUpdatesSent, Owed
<1>4. ASSUME Rekeys(msgs') PROVE \E i \in 1 .. Len(plog') : Received(plog[i])'
  <2>1. PICK i \in 1 .. Len(plog) : Received(plog[i])
    BY <1>2, <1>4 DEF TallyOpen
  <2>2. Received(plog[i])'
    BY <1>1, <1>2, <1>4, <2>1 DEF Received
  <2> QED BY <1>1, <2>2
<1>5. Cardinality(KeyUpdatesSent') + Owed' <= Cardinality(Carried') /\ s'.key <= s'.secret
  BY <1>1, <1>3 DEF TallyOpen
<1>6. TallyEven'
  BY <1>1, <1>3 DEF TallyEven
<1> QED BY <1>2, <1>4, <1>5, <1>6 DEF TallyOpen

(* The read direction is rekeyed: of the KeyUpdates carried out there is one
   more, and if it asks for an answer, one is owed. *)
LEMMA TallyKeyUpdate ==
    ASSUME TypeOK, RecvInv, AgreeInv, TallyOpen, TallyEven, Undisturbed' => Undisturbed,
           PostHsKeyUpdate
    PROVE  TallyOpen' /\ TallyEven'
<1>1. /\ msgs # <<>> /\ Head(msgs) \in Rekeying /\ msgs' = Tail(msgs) /\ pc = "posths"
      /\ pc' = IF Head(msgs) = "ku1" THEN "answer" ELSE "posths"
      /\ s' = [KeyUpdated(s) EXCEPT !.seq = 0]
      /\ UNCHANGED <<flags, plog, wrote>>
  BY DEF PostHsKeyUpdate, peerVars, Rekeying
<1>2. msgs' = <<>> /\ Rekeys(msgs) /\ msgs[Len(msgs)] = Head(msgs)
  <2>1. msgs \in Seq(HsMsg \cup Alerts) /\ LastOnly(msgs)
    BY DEF TypeOK, CallTypeOK, TallyOpen
  <2> QED BY <1>1, <2>1, MessagesTail
<1>3. PICK i \in 1 .. Len(plog) : Received(plog[i])
  BY <1>2 DEF TallyOpen
<1>4. /\ plog[i].key = s.key /\ RekeysAfter(plog[i])
      /\ Asks(plog[i]) <=> Head(msgs) = "ku1"
  BY <1>2, <1>3 DEF Received, Asks, RekeysAfter, Rekeys
<1>5. /\ s'.key = s.secret + 1 /\ s'.secret = s.secret + 1
      /\ s.key \in Nat /\ s.secret \in Nat /\ s.key <= s.secret
  BY <1>1 DEF KeyUpdated, Direction, TypeOK, CallTypeOK, TallyOpen
<1>6. Len(plog) \in Nat /\ \A j \in 1 .. Len(plog) : plog[j].key \in Nat
  <2>1. plog \in Seq(Sealed)
    BY DEF TypeOK, PeerTypeOK
  <2>2. \A j \in 1 .. Len(plog) : plog[j] \in Sealed
    BY <2>1
  <2> QED BY <2>1, <2>2 DEF Sealed
<1>7. Carried \subseteq Carried' /\ Carried' \subseteq 1 .. Len(plog)
  <2>1. \A j \in 1 .. Len(plog) : plog[j].key < s.key => plog[j].key < s'.key
    BY <1>5, <1>6
  <2> QED BY <1>1, <2>1 DEF Carried
<1>8. i \notin Carried /\ (Asks(plog[i]) => i \in Carried')
  <2>1. ~(plog[i].key < s.key) /\ plog[i].key < s'.key
    BY <1>4, <1>5, <1>6
  <2> QED BY <1>1, <2>1 DEF Carried
<1>9. /\ IsFiniteSet(Carried) /\ Cardinality(Carried) \in Nat
      /\ Cardinality(KeyUpdatesSent) \in Nat
  BY Counts
<1>10. KeyUpdatesSent' = KeyUpdatesSent /\ Owed = 0
       /\ Owed' = IF Head(msgs) = "ku1" THEN 1 ELSE 0
  BY <1>1 DEF KeyUpdatesSent, Owed
<1>11. Cardinality(Carried \cup {i}) = Cardinality(Carried) + 1
  BY <1>8, <1>9, FS_AddElement
<1>12. Cardinality(KeyUpdatesSent') + Owed' <= Cardinality(Carried')
  <2>1. IsFiniteSet(Carried') /\ Cardinality(Carried') \in Nat
    BY <1>6, <1>7, Counted
  <2>2. Cardinality(KeyUpdatesSent) <= Cardinality(Carried)
    BY <1>9, <1>10 DEF TallyOpen
  <2>3. CASE Head(msgs) = "ku1"
    <3>1. Carried \cup {i} \subseteq Carried'
      BY <1>4, <1>7, <1>8, <2>3
    <3>2. Cardinality(Carried \cup {i}) <= Cardinality(Carried')
      BY <2>1, <3>1, FS_Subset
    <3> QED BY <1>9, <1>10, <1>11, <2>1, <2>2, <2>3, <3>2
  <2>4. CASE Head(msgs) # "ku1"
    <3>1. Cardinality(Carried) <= Cardinality(Carried')
      BY <1>7, <2>1, FS_Subset
    <3> QED BY <1>9, <1>10, <2>1, <2>2, <2>4, <3>1
  <2> QED BY <2>3, <2>4
<1>13. TallyEven'
  <2> SUFFICES ASSUME Undisturbed', flags = {"ESTABLISHED"}
               PROVE  Cardinality(KeyUpdatesSent') + Owed' = Cardinality(Carried')
    BY <1>1 DEF TallyEven
  <2>1. Cardinality(KeyUpdatesSent) = Cardinality(Carried)
    BY <1>9, <1>10 DEF TallyEven
  <2>2. s.secret = s.key
    BY DEF AgreeInv, ReadInStep, Whole
  <2>3. ASSUME NEW j \in 1 .. Len(plog), Asks(plog[j]), plog[j].key < s'.key
        PROVE  plog[j].key < s.key \/ j = i
    <3> SUFFICES ASSUME ~(plog[j].key < s.key) PROVE j = i
      OBVIOUS
    <3>1. plog[j].key = plog[i].key
      BY <1>4, <1>5, <1>6, <2>2, <2>3
    <3>2. RekeysAfter(plog[j])
      BY <2>3 DEF Asks, RekeysAfter, Rekeys, Rekeying
    <3>3. j <= i /\ i <= j
      BY <1>4, <3>1, <3>2, RekeyedOnce DEF RecvInv
    <3> QED BY <1>6, <3>3
  <2>4. Carried' \subseteq Carried \cup {i}
    BY <1>1, <2>3 DEF Carried
  <2>5. CASE Head(msgs) = "ku1"
    <3>1. Carried' = Carried \cup {i}
      BY <1>4, <1>7, <1>8, <2>4, <2>5
    <3> QED BY <1>10, <1>11, <2>1, <2>5, <3>1
  <2>6. CASE Head(msgs) # "ku1"
    <3>1. i \notin Carried'
      BY <1>1, <1>4, <2>6 DEF Carried
    <3>2. Carried' = Carried
      BY <1>7, <2>4, <3>1
    <3> QED BY <1>9, <1>10, <2>1, <2>6, <3>2
  <2> QED BY <2>5, <2>6
<1>14. s'.key <= s'.secret /\ LastOnly(msgs') /\ ~Rekeys(msgs')
  BY <1>2, <1>5 DEF LastOnly, Rekeys
<1> QED BY <1>12, <1>13, <1>14 DEF TallyOpen

LEMMA TallyKeyUpdateFails ==
    ASSUME TypeOK, TallyOpen, PostHsKeyUpdateFails
    PROVE  TallyOpen' /\ TallyEven'
<1>1. /\ s' \in KeyUpdateFailures(s) /\ pc = "posths" /\ pc' = "idle" /\ msgs' = <<>>
      /\ fails' = fails + 1 /\ UNCHANGED <<plog, wrote>>
  BY DEF PostHsKeyUpdateFails, CryptoFail, Return, peerVars
<1>2. fails \in Nat /\ s \in Direction /\ s.key \in Nat /\ s.secret \in Nat /\ s.key <= s.secret
  BY SessionAssumption DEF TypeOK, HistoryTypeOK, CallTypeOK, Direction, TallyOpen
<1>3. TallyEven'
  BY <1>1, <1>2 DEF TallyEven, Undisturbed
<1>4. s.key <= s'.key /\ s'.key <= s'.secret /\ s'.key \in Nat
  <2>1. \/ s'.key = s.key /\ s'.secret = s.secret
        \/ s'.key = s.key /\ s'.secret = s.secret + 1
        \/ s'.key = s.secret + 1 /\ s'.secret = s.secret + 1
    BY <1>1, <1>2 DEF KeyUpdateFailures, Direction
  <2> QED BY <1>2, <2>1
<1>5. Len(plog) \in Nat /\ \A j \in 1 .. Len(plog) : plog[j].key \in Nat
  <2>1. plog \in Seq(Sealed)
    BY DEF TypeOK, PeerTypeOK
  <2>2. \A j \in 1 .. Len(plog) : plog[j] \in Sealed
    BY <2>1
  <2> QED BY <2>1, <2>2 DEF Sealed
<1>6. Carried \subseteq Carried' /\ Carried' \subseteq 1 .. Len(plog)
  <2>1. \A j \in 1 .. Len(plog) : plog[j].key < s.key => plog[j].key < s'.key
    BY <1>2, <1>4, <1>5
  <2> QED BY <1>1, <2>1 DEF Carried
<1>7. Cardinality(KeyUpdatesSent') + Owed' <= Cardinality(Carried')
  <2>1. IsFiniteSet(Carried') /\ Cardinality(Carried') \in Nat
    BY <1>5, <1>6, Counted
  <2>2. Cardinality(Carried) <= Cardinality(Carried')
    BY <1>6, <2>1, FS_Subset
  <2>3. KeyUpdatesSent' = KeyUpdatesSent /\ Owed' = 0 /\ Owed = 0
    BY <1>1 DEF KeyUpdatesSent, Owed
  <2> QED BY <2>1, <2>2, <2>3, Counts DEF TallyOpen
<1>8. LastOnly(msgs') /\ ~Rekeys(msgs')
  BY <1>1 DEF LastOnly, Rekeys
<1> QED BY <1>3, <1>4, <1>7, <1>8 DEF TallyOpen

(* The answer is sealed: it is owed no longer. *)
LEMMA TallyAnswer ==
    ASSUME TypeOK, TallyOpen, TallyEven, Undisturbed' => Undisturbed, pc = "answer",
           NEW ok, Emit(KuRecord, ok), pc' # "answer", msgs' = msgs \/ msgs' = <<>>,
           UNCHANGED <<s, plog, flags>>
    PROVE  TallyOpen' /\ TallyEven'
<1>1. Messages(<<"ku0">>) \in Body /\ c \in Direction
  BY BodyTypes DEF TypeOK, CallTypeOK
<1>2. KuRecord \in Sealed /\ KuRecord.ctype = "handshake"
  BY <1>1, ProtectType DEF KuRecord, Protect, CTypes
<1>3. Cardinality(KeyUpdatesSent') = Cardinality(KeyUpdatesSent) + 1
  <2>1. wrote' = Append(wrote, KuRecord)
    BY DEF Emit
  <2> QED BY <1>2, <2>1, SentAppend
<1>4. Owed = 1 /\ Owed' = 0 /\ Carried' = Carried
  BY DEF Owed, Carried
<1>5. Cardinality(KeyUpdatesSent') + Owed' = Cardinality(KeyUpdatesSent) + Owed
  BY <1>3, <1>4, Counts
<1>6. LastOnly(msgs')
  BY DEF TallyOpen, LastOnly
<1>7. ASSUME Rekeys(msgs') PROVE \E i \in 1 .. Len(plog') : Received(plog[i])'
  <2>1. msgs' = msgs
    BY <1>7 DEF Rekeys
  <2>2. PICK i \in 1 .. Len(plog) : Received(plog[i])
    BY <1>7, <2>1 DEF TallyOpen
  <2>3. Received(plog[i])'
    BY <2>1, <2>2 DEF Received
  <2> QED BY <2>3
<1>8. Cardinality(KeyUpdatesSent') + Owed' <= Cardinality(Carried') /\ s'.key <= s'.secret
  BY <1>4, <1>5 DEF TallyOpen
<1>9. TallyEven'
  BY <1>4, <1>5 DEF TallyEven
<1> QED BY <1>6, <1>7, <1>8, <1>9 DEF TallyOpen

LEMMA TallyOpenStep ==
    ASSUME TypeOK, RecvInv, AgreeInv, TallyOpen, TallyEven, [Next]_vars, flags # {}
    PROVE  (TallyOpen' /\ TallyEven') \/ (flags' = {} /\ KeyUpdatesSent' = KeyUpdatesSent)
<1> DEFINE Goal == \/ TallyOpen' /\ TallyEven'
                   \/ flags' = {} /\ KeyUpdatesSent' = KeyUpdatesSent
<1>u. Undisturbed' => Undisturbed
  BY UndisturbedBefore
<1>f. flags' = {"ESTABLISHED"} => flags = {"ESTABLISHED"}
  BY HistoriesGrow
<1>0. fails \in Nat /\ c \in Direction /\ s \in Direction
  BY SessionAssumption DEF TypeOK, HistoryTypeOK, CallTypeOK
<1>q. ASSUME plog' = plog, KeyUpdatesSent' = KeyUpdatesSent,
             s'.key = s.key, s'.secret = s.secret, msgs' = msgs \/ msgs' = <<>>,
             Owed' = Owed \/ (Owed' = 0 /\ ~Undisturbed')
      PROVE  Goal
  BY <1>u, <1>f, <1>q, TallyQuietStep
<1>s. ASSUME NEW ctype \in {"appdata", "alert"}, NEW body \in Body, NEW ok,
             Emit(Protect(c, ctype, body), ok)
      PROVE  KeyUpdatesSent' = KeyUpdatesSent
  <2> DEFINE rec == Protect(c, ctype, body)
  <2>1. rec \in Sealed /\ rec.ctype # "handshake" /\ wrote' = Append(wrote, rec)
    BY <1>0, <1>s, ProtectType DEF Emit, Protect, CTypes
  <2> HIDE DEF rec
  <2> QED BY <2>1, SentAppend
<1>w. UNCHANGED wrote => KeyUpdatesSent' = KeyUpdatesSent
  BY DEF KeyUpdatesSent
<1>o. /\ UNCHANGED pc => Owed' = Owed
      /\ pc # "answer" /\ pc' # "answer" => Owed' = Owed
      /\ pc' # "answer" => Owed' = 0
  BY DEF Owed
<1>b. Bump(s).key = s.key /\ Bump(s).secret = s.secret
  BY <1>0 DEF Bump, Direction
<1> HIDE DEF Goal
<1>1. ASSUME NEW len \in DataLens, SendRecord(len) PROVE Goal
  <2> DEFINE body == Data(cdata + 1, len)
  <2>1. PICK ok \in BOOLEAN : Emit(Protect(c, "appdata", body), ok)
    BY <1>1 DEF SendRecord
  <2>2. body \in Body
    BY BodyTypes, SessionAssumption DEF TypeOK, HistoryTypeOK
  <2> HIDE DEF body
  <2>3. KeyUpdatesSent' = KeyUpdatesSent
    BY <1>s, <2>1, <2>2
  <2>4. UNCHANGED <<plog, s>> /\ msgs' = <<>> /\ pc = "idle" /\ pc' = "idle"
    BY <1>1 DEF SendRecord, Return, peerVars
  <2> QED BY <1>o, <1>q, <2>3, <2>4
<1>2. ASSUME CloseWithNotify PROVE Goal
  <2> DEFINE body == Messages(<<"close_notify">>)
  <2>1. PICK ok \in BOOLEAN : Emit(Protect(c, "alert", body), ok)
    BY <1>2 DEF CloseWithNotify
  <2>2. body \in Body /\ flags' = {}
    BY <1>2, BodyTypes DEF CloseWithNotify, ForceZeroSession
  <2> HIDE DEF body
  <2> QED BY <1>s, <2>1, <2>2 DEF Goal
<1>3. ASSUME CloseCryptoFails \/ CloseQuietly PROVE Goal
  BY <1>3, <1>w DEF CloseCryptoFails, CloseQuietly, ForceZeroSession, Goal
<1>4. ASSUME NEW len \in DataLens, SendRefused(len) \/ SendCryptoFails(len) PROVE Goal
  <2>1. /\ UNCHANGED <<plog, s, wrote>> /\ (msgs' = msgs \/ msgs' = <<>>)
        /\ pc = "idle" /\ pc' = "idle"
    BY <1>4 DEF SendRefused, SendCryptoFails, Return, sessVars, peerVars
  <2> QED BY <1>o, <1>q, <1>w, <2>1
<1>5. ASSUME wn_Recv PROVE Goal
  <2>1. UNCHANGED <<plog, s, wrote, msgs>> /\ pc = "idle" /\ pc' # "answer"
    BY <1>5 DEF wn_Recv, RecvRefused, RecvCall, sessVars, peerVars
  <2> QED BY <1>o, <1>q, <1>w, <2>1
<1>6. ASSUME RecvStep, ~RecvHandshake PROVE Goal
  <2>1. UNCHANGED <<plog, wrote>> /\ msgs' = <<>> /\ pc = "recv" /\ pc' = "idle"
    BY <1>6 DEF RecvStep, IoRecvFails, RecvMisaligned, RecvBadRecord, RecvAppData,
       RecvAlert, RecvUnknown, RecvOpened, Return, peerVars
  <2>2. s' = s \/ s' = Bump(s)
    BY <1>6 DEF RecvStep, IoRecvFails, RecvMisaligned, RecvBadRecord, RecvAppData,
       RecvAlert, RecvUnknown, RecvOpened, sessVars
  <2>3. s'.key = s.key /\ s'.secret = s.secret
    BY <1>b, <2>2
  <2> QED BY <1>o, <1>q, <1>w, <2>1, <2>3
<1>7. ASSUME RecvHandshake PROVE Goal
  BY <1>7, <1>u, TallyHandshake DEF Goal
<1>8. ASSUME PostHsDone \/ PostHsError PROVE Goal
  <2>1. /\ UNCHANGED <<plog, s, wrote>> /\ (msgs' = msgs \/ msgs' = <<>>)
        /\ pc = "posths" /\ pc' # "answer"
    BY <1>8 DEF PostHsDone, PostHsError, Return, sessVars, peerVars
  <2> QED BY <1>o, <1>q, <1>w, <2>1
<1>9. ASSUME PostHsTicket PROVE Goal
  BY <1>9, <1>u, TallyTicket DEF Goal
<1>10. ASSUME PostHsKeyUpdate PROVE Goal
  BY <1>10, <1>u, TallyKeyUpdate DEF Goal
<1>11. ASSUME PostHsKeyUpdateFails PROVE Goal
  BY <1>11, TallyKeyUpdateFails DEF Goal
<1>a. ASSUME pc = "answer", NEW ok, Emit(KuRecord, ok), pc' # "answer",
             msgs' = msgs \/ msgs' = <<>>, UNCHANGED <<s, plog, flags>>
      PROVE  Goal
  BY <1>a, <1>u, TallyAnswer DEF Goal
<1>12. ASSUME AnswerKeyUpdate \/ AnswerIoFails PROVE Goal
  <2>1. /\ pc = "answer" /\ pc' # "answer" /\ (msgs' = msgs \/ msgs' = <<>>)
        /\ UNCHANGED <<s, plog, flags>>
        /\ Emit(KuRecord, TRUE) \/ Emit(KuRecord, FALSE)
    BY <1>12 DEF AnswerKeyUpdate, AnswerIoFails, Return, peerVars
  <2> QED BY <1>a, <2>1
<1>13. ASSUME AnswerCryptoFails PROVE Goal
  <2>1. /\ pc = "answer" /\ pc' # "answer" /\ (msgs' = msgs \/ msgs' = <<>>)
        /\ UNCHANGED <<s, plog, flags>> /\ fails' = fails + 1
        /\ UNCHANGED wrote \/ Emit(KuRecord, TRUE)
    BY <1>13 DEF AnswerCryptoFails, CryptoFail, Return, peerVars
  <2>2. ~Undisturbed'
    BY <1>0, <2>1 DEF Undisturbed
  <2> QED BY <1>a, <1>o, <1>q, <1>w, <2>1, <2>2
<1>p. ASSUME NEW ctype \in CTypes, NEW body \in Body, PeerEmit(ctype, body),
             UNCHANGED <<flags, s, wrote, msgs, pc>>
      PROVE  Goal
  BY <1>p, <1>u, TallyGrows DEF Goal
<1>14. ASSUME NEW len \in DataLens, PeerData(len) PROVE Goal
  <2>1. Data(pdata + 1, len) \in Body
    BY BodyTypes, SessionAssumption DEF TypeOK, PeerTypeOK
  <2>2. /\ PeerEmit("appdata", Data(pdata + 1, len))
        /\ UNCHANGED <<flags, s, wrote, msgs, pc>>
    BY <1>14 DEF PeerData, sessVars, callVars
  <2> QED BY <1>p, <2>1, <2>2 DEF CTypes
<1>15. ASSUME NEW q \in HsBodies, PeerHandshake(q) PROVE Goal
  <2>1. Messages(q) \in Body
    BY BodyTypes, HsBodyType
  <2>2. PeerEmit("handshake", Messages(q)) /\ UNCHANGED <<flags, s, wrote, msgs, pc>>
    BY <1>15 DEF PeerHandshake, sessVars, callVars
  <2> QED BY <1>p, <2>1, <2>2 DEF CTypes
<1>16. ASSUME NEW alert \in Alerts, PeerAlert(alert) PROVE Goal
  <2>1. Messages(<<alert>>) \in Body
    BY BodyTypes
  <2>2. PeerEmit("alert", Messages(<<alert>>)) /\ UNCHANGED <<flags, s, wrote, msgs, pc>>
    BY <1>16 DEF PeerAlert, sessVars, callVars
  <2> QED BY <1>p, <2>1, <2>2 DEF CTypes
<1>17. ASSUME NEW ctype \in {"unknown", "padding"}, PeerOddContent(ctype) PROVE Goal
  <2>1. Messages(<<>>) \in Body /\ ctype \in CTypes
    BY BodyTypes DEF CTypes
  <2>2. PeerEmit(ctype, Messages(<<>>)) /\ UNCHANGED <<flags, s, wrote, msgs, pc>>
    BY <1>17 DEF PeerOddContent, sessVars, callVars
  <2> QED BY <1>p, <2>1, <2>2
<1>18. ASSUME PeerRecv \/ TransportFault \/ UNCHANGED vars PROVE Goal
  <2>1. UNCHANGED <<plog, s, wrote, msgs, pc>>
    BY <1>18 DEF PeerRecv, TransportFault, vars, sessVars, callVars, peerVars
  <2> QED BY <1>o, <1>q, <1>w, <2>1
<1>19. Goal
  BY Zenon, <1>1, <1>2, <1>3, <1>4, <1>5, <1>6, <1>7, <1>8, <1>9, <1>10, <1>11, <1>12,
            <1>13, <1>14, <1>15, <1>16, <1>17, <1>18
     DEF Next, Caller, CallStep, PostHsStep, PeerStep, wn_Send, wn_Close
<1> QED BY <1>19 DEF Goal

(* A wiped session stays wiped. *)
LEMMA WipedForGood ==
    ASSUME TypeOK, [Next]_vars, flags = {}
    PROVE  flags' = {}
<1>1. pc = "idle"
  BY OpenFlags DEF TypeOK, CallTypeOK
<1>2. ~CallStep
  BY <1>1 DEF CallStep, RecvStep, IoRecvFails, RecvMisaligned, RecvBadRecord, RecvAppData,
     RecvHandshake, RecvAlert, RecvUnknown, RecvOpened, PostHsStep, PostHsDone, PostHsTicket,
     PostHsError, PostHsKeyUpdate, PostHsKeyUpdateFails, AnswerKeyUpdate, AnswerIoFails,
     AnswerCryptoFails
<1>3. ASSUME Caller PROVE flags' = {}
  BY <1>3 DEF Caller, wn_Send, wn_Recv, wn_Close, SendRefused, SendCryptoFails, SendRecord,
     RecvRefused, RecvCall, CloseWithNotify, CloseCryptoFails, CloseQuietly,
     ForceZeroSession, sessVars
<1>4. ASSUME PeerStep \/ TransportFault \/ UNCHANGED vars PROVE flags' = {}
  BY <1>4 DEF PeerStep, PeerData, PeerHandshake, PeerAlert, PeerOddContent, PeerRecv,
     TransportFault, vars, sessVars
<1> QED BY <1>2, <1>3, <1>4 DEF Next

CountsOK ==
    /\ Cardinality(KeyUpdatesSent) \in Nat /\ Cardinality(KeyUpdatesAsked) \in Nat
    /\ Cardinality(Carried) \in Nat
    /\ Cardinality(Carried) <= Cardinality(KeyUpdatesAsked)
    /\ Owed \in Nat

LEMMA CountsHold == TypeOK => CountsOK
BY Counts DEF CountsOK

LEMMA TallyStep ==
    TypeOK /\ RecvInv /\ AgreeInv /\ TallyInv /\ [Next]_vars => TallyInv'
<1> SUFFICES ASSUME TypeOK, RecvInv, AgreeInv, TallyInv, [Next]_vars PROVE TallyInv'
  OBVIOUS
<1>0. TypeOK'
  BY TypeStep
<1>1. /\ Cardinality(KeyUpdatesSent) \in Nat /\ Cardinality(KeyUpdatesAsked) \in Nat
      /\ Cardinality(Carried) \in Nat /\ Cardinality(Carried) <= Cardinality(KeyUpdatesAsked)
      /\ Owed \in Nat
  BY Counts
<1>2. /\ Cardinality(KeyUpdatesSent') \in Nat /\ Cardinality(KeyUpdatesAsked') \in Nat
      /\ Cardinality(Carried') \in Nat
      /\ Cardinality(Carried') <= Cardinality(KeyUpdatesAsked')
      /\ Owed' \in Nat
  <2>1. CountsOK'
    BY <1>0, CountsHold, PTL
  <2> QED BY <2>1 DEF CountsOK
<1>3. Cardinality(KeyUpdatesAsked) <= Cardinality(KeyUpdatesAsked')
  <2>1. KeyUpdatesAsked \subseteq KeyUpdatesAsked'
    <3>1. CASE plog' = plog
      BY <3>1 DEF KeyUpdatesAsked
    <3>2. ASSUME NEW ctype \in CTypes, NEW body \in Body, PeerEmit(ctype, body)
          PROVE  KeyUpdatesAsked \subseteq KeyUpdatesAsked'
      <4> DEFINE rec == Protect(pw, ctype, body)
      <4>1. plog \in Seq(Sealed) /\ rec \in Sealed /\ plog' = Append(plog, rec)
        BY <3>2, ProtectType DEF PeerEmit, TypeOK, PeerTypeOK
      <4> HIDE DEF rec
      <4>2. /\ Len(plog') = Len(plog) + 1 /\ Len(plog) \in Nat
            /\ \A m \in 1 .. Len(plog) : plog'[m] = plog[m]
        BY <4>1, LogAppend
      <4>3. \A m \in 1 .. Len(plog) : m \in 1 .. Len(plog')
        BY <4>2
      <4> QED BY <4>2, <4>3 DEF KeyUpdatesAsked
    <3> QED BY <3>1, <3>2, HistoriesGrow
  <2>2. Len(plog') \in Nat
    BY <1>0 DEF TypeOK, PeerTypeOK
  <2>3. KeyUpdatesAsked' \subseteq 1 .. Len(plog')
    BY DEF KeyUpdatesAsked
  <2>4. IsFiniteSet(KeyUpdatesAsked')
    BY <2>2, <2>3, Counted
  <2> QED BY <2>1, <2>4, FS_Subset
<1>4. CASE flags = {}
  <2>1. wrote' = wrote
    BY <1>4, WriteOnlyOpen
  <2>2. KeyUpdatesSent' = KeyUpdatesSent
    BY <2>1 DEF KeyUpdatesSent
  <2>3. flags' = {}
    BY <1>4, WipedForGood
  <2> QED BY <1>1, <1>2, <1>3, <1>4, <2>2, <2>3 DEF TallyInv, TallyEven
<1>5. CASE flags # {}
  <2>1. (TallyOpen' /\ TallyEven') \/ (flags' = {} /\ KeyUpdatesSent' = KeyUpdatesSent)
    BY <1>5, TallyOpenStep DEF TallyInv
  <2>2. CASE TallyOpen' /\ TallyEven'
    <3>1. Cardinality(KeyUpdatesSent') + Owed' <= Cardinality(Carried')
      BY <2>2 DEF TallyOpen
    <3> QED BY <1>2, <2>2, <3>1 DEF TallyInv
  <2>3. CASE flags' = {} /\ KeyUpdatesSent' = KeyUpdatesSent
    BY <1>1, <1>2, <1>3, <2>3 DEF TallyInv, TallyEven
  <2> QED BY <2>1, <2>2, <2>3
<1> QED BY <1>4, <1>5

LEMMA TallyInit == Init => TallyInv
<1> SUFFICES ASSUME Init PROVE TallyInv
  OBVIOUS
<1>1. /\ plog = <<>> /\ wrote = <<>> /\ msgs = <<>> /\ pc = "idle" /\ s = FreshDirection
      /\ Len(plog) = 0 /\ Len(wrote) = 0
  BY DEF Init
<1>2. KeyUpdatesSent = {} /\ KeyUpdatesAsked = {} /\ Carried = {}
  BY <1>1 DEF KeyUpdatesSent, KeyUpdatesAsked, Carried
<1>3. Cardinality({}) = 0
  BY FS_EmptySet
<1>4. Owed = 0 /\ s.key <= s.secret
  BY <1>1 DEF Owed, FreshDirection
<1>5. LastOnly(msgs) /\ ~Rekeys(msgs)
  BY <1>1 DEF LastOnly, Rekeys
<1> QED BY <1>2, <1>3, <1>4, <1>5 DEF TallyInv, TallyOpen, TallyEven

(* When all that is under way has been read, all the peer's KeyUpdates are *)
(* carried out.                                                            *)
LEMMA AllCarried ==
    ASSUME TypeOK, RecvInv, AgreeInv, Undisturbed, flags = {"ESTABLISHED"}, pc = "idle",
           toClient = <<>>
    PROVE  Carried = KeyUpdatesAsked
<1>1. msgs = <<>>
  BY DEF TypeOK, CallTypeOK
<1>2. s.key = pw.key
  <2>1. ~Rekeys(msgs)
    BY <1>1 DEF Rekeys
  <2> QED BY <2>1 DEF AgreeInv, ReadInStep, First, SamePlace
<1>3. ASSUME NEW i \in 1 .. Len(plog), Asks(plog[i]) PROVE plog[i].key < s.key
  <2>1. RekeysAfter(plog[i])
    BY <1>3 DEF Asks, RekeysAfter, Rekeys, Rekeying
  <2> QED BY <1>2, <2>1, RekeyedOnce DEF RecvInv
<1> QED BY <1>3 DEF Carried, KeyUpdatesAsked

(***************************************************************************)
(* Each KeyUpdate that asks for one is answered by one KeyUpdate, none is  *)
(* sent unasked, and without a fault none is left unanswered.              *)
(***************************************************************************)
THEOREM KeyUpdatesAreAnswered == Spec => []KeyUpdatesAnswered
<1> DEFINE TallyIInv == TypeOK /\ RecvInv /\ AgreeInv /\ TallyInv
<1>1. Init => TallyIInv
  BY TypeInit, RecvInvInit, AgreeInit, TallyInit
<1>2. TallyIInv /\ [Next]_vars => TallyIInv'
  BY TypeStep, RecvNext, AgreeStep, TallyStep
<1>3. TallyIInv => KeyUpdatesAnswered
  <2> SUFFICES ASSUME TallyIInv PROVE KeyUpdatesAnswered
    OBVIOUS
  <2>1. Cardinality(KeyUpdatesSent) <= Cardinality(KeyUpdatesAsked)
    BY DEF TallyInv
  <2>2. ASSUME Undisturbed, flags = {"ESTABLISHED"}, pc = "idle", toClient = <<>>
        PROVE  Cardinality(KeyUpdatesSent) = Cardinality(KeyUpdatesAsked)
    <3>1. Cardinality(KeyUpdatesSent) + Owed = Cardinality(Carried) /\ Owed = 0
      BY <2>2 DEF TallyInv, TallyEven, Owed
    <3>2. Carried = KeyUpdatesAsked
      BY <2>2, AllCarried
    <3> QED BY <3>1, <3>2, Counts
  <2> QED BY <2>1, <2>2 DEF KeyUpdatesAnswered
<1> QED BY <1>1, <1>2, <1>3, PTL DEF Spec
=============================================================================
