----------------------------- MODULE WnKeyShare -----------------------------
(***************************************************************************)
(* The key share of src/wn_keyshare.c in its three builds, the hybrid of   *)
(* src/wn_hybrid.c with both its halves, and the peer's.  WnKeySchedule    *)
(* adds the driver that calls them.                                        *)
(*                                                                         *)
(* Each function is a script of wolfCrypt calls that stops at the first    *)
(* failure and then cleans up.  What matters of a key object is whether it *)
(* is initialised; of a secret, what it was computed from.                 *)
(***************************************************************************)
EXTENDS Integers, Sequences

CONSTANTS
    Builds,     \* which of "hybrid", "p256", "x25519" to look at
    MaxFails    \* bound: calls that fail, on both sides

ASSUME KeysAssumption ==
    Builds \subseteq {"hybrid", "p256", "x25519"} /\ MaxFails \in Nat

VARIABLES
    build,      \* WOLFNANO_HAVE_MLKEM_HYBRID, WOLFNANO_HAVE_ECDHE_P256 or neither
    fn,         \* [side -> the function it is in or about to enter]
    k,          \* [side -> the calls of it made so far]
    ret,        \* [side -> return code]
    group,      \* ks->group is the default group (0 before Init)
    st,         \* [object -> "zero", "garbage", "init", "freed", "corrupt"]
    inited,     \* kemInit, xInit, peerInit, srvInit: the objects to be freed
    ss,         \* [side -> the shared secret's two halves]
    share,      \* [side -> its share as the other side sees it]
    fails       \* history: the calls that have failed

ksVars == <<build, fn, k, ret, group, st, inited, ss, share, fails>>

(* "own" is ks->ecc or ks->x25519; skem, srv and speer are ServerRespond's. *)
KsObjects == {"own", "kem", "x"}
LocalKeys == {"peer", "skem", "srv", "speer"}
Objects == KsObjects \cup LocalKeys

(* The halves of a secret: what the ML-KEM half is encapsulated to, and the
   two public keys of the other. *)
NoSecret == [kem |-> <<>>, x |-> {}]
Partial(s) == (s.kem = <<>>) # (s.x = {})

(* A share's parts, "own" where they are the sender's; kem of the server's
   share says whose key it is encapsulated to. *)
Unsent == [sent |-> FALSE, kem |-> "own", x |-> "own", short |-> FALSE]
Genuine == [Unsent EXCEPT !.sent = TRUE]

(* The driver clears ks; what is on the stack is not initialised. *)
KsInit ==
    /\ build \in Builds
    /\ fn = [client |-> "Start", server |-> "Wait"]
    /\ k = [client |-> 0, server |-> 0]
    /\ ret = [client |-> "SUCCESS", server |-> "SUCCESS"]
    /\ group = FALSE
    /\ st = [o \in Objects |-> IF o \in KsObjects THEN "zero" ELSE "garbage"]
    /\ inited = {}
    /\ ss = [client |-> NoSecret, server |-> NoSecret]
    /\ share = [client |-> Unsent, server |-> Unsent]
    /\ fails = 0

InitKey(o) == [op |-> "init", obj |-> o]
Use(o) == [op |-> "use", obj |-> o]

Hybrid == build = "hybrid"

(***************************************************************************)
(* The calls of each function in their order.  A simple group's server is  *)
(* not in this repository: it computes its half without failing.           *)
(***************************************************************************)
HybridGenerate == <<InitKey("kem"), Use("kem"), InitKey("x"), Use("x")>>
HybridShared == <<Use("kem"), InitKey("peer"), Use("peer"), Use("x")>>
HybridRespond == <<InitKey("skem"), Use("skem"), InitKey("srv"), Use("srv"),
                   InitKey("speer"), Use("speer"), Use("srv")>>

InitCalls == IF Hybrid THEN <<>> ELSE <<InitKey("own")>>
GenerateCalls == CASE Hybrid           -> HybridGenerate
                   [] build = "p256"   -> <<Use("own"), Use("own"), Use("own")>>
                   [] build = "x25519" -> <<Use("own"), Use("own")>>
SharedCalls == IF Hybrid THEN HybridShared ELSE <<InitKey("peer"), Use("peer"), Use("own")>>
RespondCalls == IF Hybrid THEN HybridRespond ELSE <<>>

Script(f) == CASE f = "Init" -> InitCalls
               [] f = "Generate" -> GenerateCalls
               [] f = "Shared" -> SharedCalls
               [] f = "Respond" -> RespondCalls

(* wn_Hybrid_ServerRespond refuses a share of another length. *)
Refused(s) == fn[s] = "Respond" /\ share["client"].short /\ ret[s] = "SUCCESS"

Running(s) == fn[s] \in {"Init", "Generate", "Shared", "Respond"} /\ ~Refused(s)
More(s) == Running(s) /\ ret[s] = "SUCCESS" /\ k[s] < Len(Script(fn[s]))
Call(s) == Script(fn[s])[k[s] + 1]

(***************************************************************************)
(* What the secret computations yield.  Each part of a share is genuine or *)
(* another's; decapsulation of a ciphertext that is not for this key is no *)
(* error but another secret (implicit rejection).                          *)
(***************************************************************************)
KemSecret(s) ==
    IF s = "server" THEN <<"enc", share["client"].kem>>
    ELSE IF share["server"].kem = "own" THEN <<"enc", "own">> ELSE <<"rejected">>

(* Mutant: the server imports the share it has just exported. *)
XSecretOwnShare(s) ==
    IF s = "server" THEN {<<"server", "own">>}
    ELSE {<<"client", "own">>, <<"server", share["server"].x>>}

XSecret(s) ==
    IF s = "server" THEN {<<"server", "own">>, <<"client", share["client"].x>>}
    ELSE {<<"client", "own">>, <<"server", share["server"].x>>}

(* The half of the secret that the last call of the function's script writes,
   or the first for ML-KEM (the second, once the key is set up, in Respond). *)
Written(s) ==
    CASE fn[s] \in {"Shared", "Respond"} /\ Hybrid /\ Call(s) \in {Use("kem"), Use("skem")} ->
            [ss[s] EXCEPT !.kem = KemSecret(s)]
      [] fn[s] \in {"Shared", "Respond"} /\ k[s] + 1 = Len(Script(fn[s])) ->
            [ss[s] EXCEPT !.x = XSecret(s), !.kem = IF Hybrid THEN @ ELSE <<"unused">>]
      [] OTHER -> ss[s]

CallSucceeds(s) ==
    /\ More(s)
    /\ LET c == Call(s) IN
       /\ st' = [st EXCEPT ![c.obj] =
                    IF c.op = "init" THEN "init"
                    ELSE IF @ = "init" THEN "init" ELSE "corrupt"]
       /\ inited' = IF c.op = "init" THEN inited \cup {c.obj} ELSE inited
    /\ ss' = [ss EXCEPT ![s] = Written(s)]
    /\ k' = [k EXCEPT ![s] = @ + 1]
    /\ UNCHANGED <<build, fn, ret, group, share, fails>>

(* A call that fails; the first half of a secret may be written by then. *)
CallFails(s) ==
    /\ More(s)
    /\ fails < MaxFails /\ fails' = fails + 1
    /\ ret' = [ret EXCEPT ![s] = "E_CRYPTO"]
    /\ UNCHANGED <<build, fn, k, group, st, inited, ss, share>>

(***************************************************************************)
(* Return: the local keys whose flag is up are freed, a hybrid secret of a *)
(* call that failed is cleared, and the caller goes on or, after a         *)
(* failure, to its end.                                                    *)
(***************************************************************************)
FreeKey(o) == IF st[o] \in {"init", "zero"} THEN "freed" ELSE "corrupt"
FreeAll(S) == [o \in Objects |-> IF o \in S THEN FreeKey(o) ELSE st[o]]

Following == [Init |-> "Generate", Generate |-> "Send", Shared |-> "Use"]

(* Mutant: all local keys are freed, initialised or not. *)
LocalsToFreeAlways(s) ==
    IF fn[s] \notin {"Shared", "Respond"} THEN {}
    ELSE IF s = "client" THEN {"peer"} ELSE {"skem", "srv", "speer"}

LocalsToFree(s) ==
    inited \cap IF s = "client" THEN {"peer"} ELSE {"skem", "srv", "speer"}

(* Mutant: a call that fails leaves the half of the secret it has. *)
SecretReturnedAsIs(s) == ss[s]

SecretReturned(s) ==
    IF ret[s] # "SUCCESS" /\ Hybrid /\ fn[s] \in {"Shared", "Respond"} THEN NoSecret ELSE ss[s]

Return(s) ==
    /\ Running(s) /\ ~More(s)
    /\ st' = FreeAll(LocalsToFree(s))
    /\ inited' = inited \ LocalsToFree(s)
    /\ ss' = [ss EXCEPT ![s] = IF fn[s] = "Respond" /\ ~Hybrid
                               THEN [kem |-> <<"unused">>, x |-> XSecret("server")]
                               ELSE SecretReturned(s)]
    /\ group' = (group \/ fn[s] = "Init")
    /\ fn' = [fn EXCEPT ![s] = IF s = "server" THEN "Done"
                               ELSE IF ret[s] = "SUCCESS" THEN Following[@] ELSE "Free"]
    /\ share' = IF fn[s] = "Respond" /\ ret[s] = "SUCCESS"
                THEN [share EXCEPT !["server"] =
                        [Genuine EXCEPT !.kem = share["client"].kem]]
                ELSE share
    /\ k' = [k EXCEPT ![s] = 0]
    /\ UNCHANGED <<build, ret, fails>>

-----------------------------------------------------------------------------
(* A share is changed on its way: a part of it, or its length.  A ServerHello
   that is changed reaches the driver as if the server had sent it. *)
Tamper(s) ==
    LET reader == IF s = "client" THEN "server" ELSE "client" IN
    /\ share[s].sent /\ k[reader] = 0 /\ fn[reader] \in {"Respond", "Recv"}
    /\ ret[reader] = "SUCCESS"
    /\ \/ \E f \in IF Hybrid THEN {"kem", "x"} ELSE {"x"} :
             share' = [share EXCEPT ![s][f] = "other"]
       \/ share' = [share EXCEPT ![s].short = TRUE]
    /\ UNCHANGED <<build, fn, k, ret, group, st, inited, ss, fails>>

ServerRefuses ==
    /\ Refused("server") /\ k["server"] = 0
    /\ ret' = [ret EXCEPT !["server"] = "E_INVALID_ARG"]
    /\ UNCHANGED <<build, fn, k, group, st, inited, ss, share, fails>>

(* Mutant: the second key of the hybrid is freed only with the first. *)
KsToFreeTogether ==
    IF ~group THEN {}
    ELSE IF ~Hybrid THEN {"own"}
    ELSE IF {"kem", "x"} \subseteq inited THEN {"kem", "x"} ELSE {}

(* wn_Hybrid_Free looks at kemInit and xInit, the simple groups at the group
   only. *)
KsToFree ==
    IF ~group THEN {} ELSE IF Hybrid THEN inited \cap {"kem", "x"} ELSE {"own"}

KsNext == \/ \E s \in {"client", "server"} :
                CallSucceeds(s) \/ CallFails(s) \/ Return(s) \/ Tamper(s)
          \/ ServerRefuses

-----------------------------------------------------------------------------
(* No call uses a key that is not initialised, and none frees one that is
   neither initialised nor cleared, or frees it twice, at whatever call a
   function stops (wn_keyshare.c:40 "zero so Free is safe before then"). *)
NoCorruption == \A o \in Objects : st[o] # "corrupt"

(* When a side has ended nothing is left: every key it initialised is freed
   and the driver's secret is cleared, wherever the calls stopped. *)
KeysFreed ==
    /\ fn["client"] = "Done" =>
          (\A o \in KsObjects \cup {"peer"} : st[o] # "init") /\ ss["client"] = NoSecret
    /\ fn["server"] = "Done" => \A o \in {"skem", "srv", "speer"} : st[o] # "init"

(* A caller never sees half of a hybrid secret: both halves, or neither after
   a failure (wn_hybrid.c:120, 202 "no partial secret on failure"). *)
NoPartialSecret ==
    /\ fn["client"] = "Use" => ~(Hybrid /\ Partial(ss["client"]))
    /\ (fn["client"] = "Free" /\ Hybrid) => ss["client"] = NoSecret
    /\ (fn["server"] = "Done" /\ Hybrid /\ ret["server"] # "SUCCESS") =>
          ss["server"] = NoSecret
=============================================================================
