------------------------------ MODULE WnRecord ------------------------------
(***************************************************************************)
(* The TLS 1.3 record protection of src/wn_record.c and the traffic-key    *)
(* derivation of src/wn_keyschedule.c, symbolically.                       *)
(*                                                                         *)
(* A traffic secret is the generation number of the application traffic    *)
(* secret it stands for: 1 is the secret the handshake left behind, n + 1  *)
(* is what "traffic upd" makes of n, and 0 is memory that ForceZero has    *)
(* cleared.  The key and the iv expanded from secret n are both n.  AES-GCM *)
(* (external) is ideal: a record opens only under the key, the iv and the  *)
(* sequence number that sealed it, and only when not a byte has changed.   *)
(***************************************************************************)
EXTENDS Naturals, Sequences

CONSTANT Word64          \* 2^64: the record counters are word64

ASSUME Word64Assumption == Word64 \in Nat \ {0}

(* The codes of wolfnano.h the modelled functions return. *)
Codes == {"SUCCESS", "E_INVALID_ARG", "E_CRYPTO", "E_DECODE", "E_BAD_MAC",
          "E_UNEXPECTED_MSG", "E_BAD_STATE", "E_CLOSED", "E_UNSUPPORTED",
          "E_ILLEGAL_PARAM", "E_BAD_CERT"}

(***************************************************************************)
(* One direction of a session: the traffic secret, the key and the iv in   *)
(* use and the record counter.                                             *)
(***************************************************************************)
Direction == [secret: Nat, key: Nat, iv: Nat, seq: 0 .. Word64 - 1]

FreshDirection == [secret |-> 1, key |-> 1, iv |-> 1, seq |-> 0]

ForceZeroed == [secret |-> 0, key |-> 0, iv |-> 0, seq |-> 0]

(* seq++ on a word64. *)
Bump(d) == [d EXCEPT !.seq = (d.seq + 1) % Word64]

(***************************************************************************)
(* wn_Record_Protect: what goes on the wire carries the key and the nonce  *)
(* (iv, seq) it was sealed with.  `intact' turns FALSE when a byte is lost *)
(* or changed on the way.                                                  *)
(***************************************************************************)
Protect(d, ctype, body) ==
    [form |-> "sealed", key |-> d.key, iv |-> d.iv, seq |-> d.seq,
     ctype |-> ctype, body |-> body, intact |-> TRUE]

(* A byte of it lost or changed. *)
Torn(rec) == [rec EXCEPT !.intact = FALSE]

(* A record that is not sealed: of an outer type or a length of its own. *)
Plain(form) == [form |-> form, intact |-> TRUE]

(* Mutant: any sequence number will do. *)
UnprotectAnySeq(d, rec) ==
    IF rec.form = "short" THEN "E_INVALID_ARG"
    ELSE IF ~(rec.intact /\ rec.key = d.key /\ rec.iv = d.iv) THEN "E_BAD_MAC"
    ELSE IF rec.ctype = "padding" THEN "E_DECODE"
    ELSE "SUCCESS"

(***************************************************************************)
(* wn_Record_Unprotect: the code it returns for a sealed record.  A record *)
(* that authenticates but holds nothing but padding has no content type.   *)
(***************************************************************************)
Unprotect(d, rec) ==
    IF rec.form = "short" THEN "E_INVALID_ARG"
    ELSE IF ~(rec.intact /\ rec.key = d.key /\ rec.iv = d.iv /\ rec.seq = d.seq)
         THEN "E_BAD_MAC"
    ELSE IF rec.ctype = "padding" THEN "E_DECODE"
    ELSE "SUCCESS"

(***************************************************************************)
(* wn_Tls13_KeyUpdate: the secret is overwritten first, then the key, then *)
(* the iv, and each of the three expansions may fail, which leaves the     *)
(* later fields as they were.                                              *)
(***************************************************************************)
KeyUpdated(d) == [d EXCEPT !.secret = d.secret + 1, !.key = d.secret + 1,
                           !.iv = d.secret + 1]

KeyUpdateFailures(d) ==
    {d, [d EXCEPT !.secret = d.secret + 1],
        [d EXCEPT !.secret = d.secret + 1, !.key = d.secret + 1]}
=============================================================================
