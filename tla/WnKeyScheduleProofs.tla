------------------------ MODULE WnKeyScheduleProofs -------------------------
(***************************************************************************)
(* Proofs about what a handshake leaves behind: key objects, half secrets  *)
(* and buffers, wherever the calls of the two sides fail and however often;*)
(* and about what it computes: what is sent and what a session has is what *)
(* RFC 8446 has.                                                           *)
(***************************************************************************)
EXTENDS WnKeySchedule, WnLemmas

Sides == {"client", "server"}
Functions4 == {"Init", "Generate", "Shared", "Respond"}
Needed == IF Hybrid THEN {"kem", "x"} ELSE {"own"}

(* The objects a function finds initialised when it is entered *)
Found(f) == CASE f = "Shared" -> Needed
              [] f = "Generate" /\ ~Hybrid -> Needed
              [] OTHER -> {}

(* The objects it may touch *)
Touched(f) == CASE f = "Respond" -> {"skem", "srv", "speer"}
                [] f = "Shared" -> Needed \cup {"peer"}
                [] OTHER -> Needed

-----------------------------------------------------------------------------
(* The scripts: a call is init or use of an object the function may touch; what
   is used has been found or is initialised by an earlier call; and when Init
   and Generate are through, the keys of the share are there. *)
CallOK(f, j) ==
    /\ Script(f)[j].op \in {"init", "use"}
    /\ Script(f)[j].obj \in Touched(f)
    /\ Script(f)[j].op = "use" =>
          \/ Script(f)[j].obj \in Found(f)
          \/ \E m \in 1 .. j - 1 : Script(f)[m] = InitKey(Script(f)[j].obj)

Builder(f) == IF Hybrid THEN f = "Generate" ELSE f = "Init"

LEMMA ScriptShape ==
    ASSUME NEW f \in Functions4, build \in {"hybrid", "p256", "x25519"}
    PROVE  /\ Len(Script(f)) \in Nat
           /\ \A j \in 1 .. Len(Script(f)) : CallOK(f, j)
           /\ Builder(f) => \A o \in Needed :
                 \E m \in 1 .. Len(Script(f)) : Script(f)[m] = InitKey(o)
<1>1. CASE f = "Init"
  <2>1. CASE Hybrid
    BY <1>1, <2>1 DEF Script, InitCalls, Builder
  <2>2. CASE ~Hybrid
    <3>1. Script(f) = <<InitKey("own")>> /\ Needed = {"own"}
      BY <1>1, <2>2 DEF Script, InitCalls, Needed
    <3> QED BY <1>1, <3>1 DEF CallOK, InitKey, Touched
  <2> QED BY <2>1, <2>2
<1>2. CASE f = "Generate"
  <2>1. CASE Hybrid
    <3>1. Script(f) = <<InitKey("kem"), Use("kem"), InitKey("x"), Use("x")>>
             /\ Needed = {"kem", "x"}
      BY <1>2, <2>1 DEF Script, GenerateCalls, HybridGenerate, Needed, Hybrid
    <3>2. Len(Script(f)) = 4
      BY <3>1
    <3> QED BY <1>2, <3>1, <3>2 DEF CallOK, InitKey, Use, Touched
  <2>2. CASE build = "p256"
    <3>1. Script(f) = <<Use("own"), Use("own"), Use("own")>> /\ Needed = {"own"}
      BY <1>2, <2>2 DEF Script, GenerateCalls, Needed, Hybrid
    <3>2. Found(f) = {"own"} /\ Touched(f) = {"own"} /\ ~Builder(f)
      BY <1>2, <2>2, <3>1 DEF Found, Touched, Hybrid, Builder
    <3> QED BY <3>1, <3>2 DEF CallOK, Use
  <2>3. CASE build = "x25519"
    <3>1. Script(f) = <<Use("own"), Use("own")>> /\ Needed = {"own"}
      BY <1>2, <2>3 DEF Script, GenerateCalls, Needed, Hybrid
    <3>2. Found(f) = {"own"} /\ Touched(f) = {"own"} /\ ~Builder(f)
      BY <1>2, <2>3, <3>1 DEF Found, Touched, Hybrid, Builder
    <3> QED BY <3>1, <3>2 DEF CallOK, Use
  <2> QED BY <2>1, <2>2, <2>3 DEF Hybrid
<1>3. CASE f = "Shared"
  <2>1. CASE Hybrid
    <3>1. Script(f) = <<Use("kem"), InitKey("peer"), Use("peer"), Use("x")>>
             /\ Needed = {"kem", "x"}
      BY <1>3, <2>1 DEF Script, SharedCalls, HybridShared, Needed
    <3>2. /\ Len(Script(f)) = 4 /\ Found(f) = {"kem", "x"} /\ Touched(f) = {"kem", "x", "peer"}
          /\ ~Builder(f)
      BY <1>3, <3>1 DEF Found, Touched, Builder
    <3> QED BY <3>1, <3>2 DEF CallOK, InitKey, Use
  <2>2. CASE ~Hybrid
    <3>1. Script(f) = <<InitKey("peer"), Use("peer"), Use("own")>> /\ Needed = {"own"}
      BY <1>3, <2>2 DEF Script, SharedCalls, Needed
    <3>2. /\ Len(Script(f)) = 3 /\ Found(f) = {"own"} /\ Touched(f) = {"own", "peer"}
          /\ ~Builder(f)
      BY <1>3, <3>1 DEF Found, Touched, Builder
    <3> QED BY <3>1, <3>2 DEF CallOK, InitKey, Use
  <2> QED BY <2>1, <2>2
<1>4. CASE f = "Respond"
  <2>1. CASE Hybrid
    <3>1. Script(f) = <<InitKey("skem"), Use("skem"), InitKey("srv"), Use("srv"),
                        InitKey("speer"), Use("speer"), Use("srv")>>
      BY <1>4, <2>1 DEF Script, RespondCalls, HybridRespond
    <3>2. Len(Script(f)) = 7 /\ Touched(f) = {"skem", "srv", "speer"} /\ ~Builder(f)
      BY <1>4, <3>1 DEF Touched, Builder
    <3>3. \A j \in 1 .. 7 : CallOK(f, j)
      BY <3>1, <3>2 DEF CallOK, InitKey, Use
    <3> QED BY <3>2, <3>3
  <2>2. CASE ~Hybrid
    BY <1>4, <2>2 DEF Script, RespondCalls, Builder
  <2> QED BY <2>1, <2>2
<1> QED BY <1>1, <1>2, <1>3, <1>4 DEF Functions4

-----------------------------------------------------------------------------
(***************************************************************************)
(* The key objects.  inited is exactly the objects that are initialised, a *)
(* local key is only there while its function runs, and what a function is *)
(* to find is there: KeysIn says what a side has when it is at f.          *)
(***************************************************************************)
LocalsOf(s) == IF s = "client" THEN {"peer"} ELSE {"skem", "srv", "speer"}
ClientStages == {"Start", "Init", "Generate", "Send", "Recv", "Got", "Shared", "Use", "Free",
                 "Done"}
ServerStages == {"Wait", "Respond", "Done"}

KsTypeOK ==
    /\ build \in {"hybrid", "p256", "x25519"}
    /\ fn \in [Sides -> ClientStages \cup ServerStages]
    /\ fn["client"] \in ClientStages /\ fn["server"] \in ServerStages
    /\ k \in [Sides -> Nat]
    /\ DOMAIN ret = Sides
    /\ group \in BOOLEAN
    /\ DOMAIN st = Objects
    /\ inited \subseteq Objects
    /\ DOMAIN ss = Sides /\ DOMAIN share = Sides

ObjectsOK ==
    /\ \A o \in Objects : st[o] # "corrupt" /\ (st[o] = "init" <=> o \in inited)
    /\ fn["client"] # "Done" => (st["own"] = "zero" \/ "own" \in inited)
    /\ inited \cap KsObjects \subseteq Needed
    /\ fn["client"] \notin {"Start", "Init", "Done"} => group
    /\ fn["client"] = "Start" => inited \cap KsObjects = {}
    /\ \A s \in Sides : inited \cap LocalsOf(s) # {} => Running(s) /\ k[s] > 0
    /\ fn["client"] = "Done" => inited \cap KsObjects = {}

ScriptOK ==
    /\ \A s \in Sides :
          /\ Running(s) => /\ k[s] <= Len(Script(fn[s]))
                           /\ Found(fn[s]) \subseteq inited
                           /\ \A m \in 1 .. k[s] : Script(fn[s])[m].op = "init" =>
                                 Script(fn[s])[m].obj \in inited
          /\ ~Running(s) => k[s] = 0
    /\ fn["client"] \in {"Send", "Recv", "Got"} => Needed \subseteq inited
    /\ fn["client"] = "Free" => ret["client"] # "SUCCESS"

(* The halves of a hybrid secret, as far as the calls have come *)
HalvesOK ==
    /\ fn["client"] \in {"Start", "Init", "Generate", "Send", "Recv", "Got"} =>
          ss["client"] = NoSecret
    /\ fn["client"] = "Done" => ss["client"] = NoSecret
    /\ Hybrid =>
         /\ fn["client"] = "Shared" =>
               /\ k["client"] >= 1 => ss["client"].kem # <<>>
               /\ k["client"] >= 4 => ss["client"].x # {}
         /\ fn["client"] \in {"Shared", "Use"} => DOMAIN ss["client"] = {"kem", "x"}
         /\ fn["client"] = "Use" => ss["client"].kem # <<>> /\ ss["client"].x # {}
         /\ fn["client"] = "Free" => ss["client"] = NoSecret
         /\ (fn["server"] = "Done" /\ ret["server"] # "SUCCESS") => ss["server"] = NoSecret

(* The key share's part of the invariant *)
KsInv == KsTypeOK /\ ObjectsOK /\ ScriptOK /\ HalvesOK

LEMMA ClientTouches ==
    ASSUME NEW f \in {"Init", "Generate", "Shared"}
    PROVE  /\ Touched(f) \subseteq Needed \cup LocalsOf("client")
           /\ f # "Shared" => Touched(f) = Needed
           /\ Needed \subseteq KsObjects /\ KsObjects \subseteq Objects
           /\ LocalsOf("client") \cup LocalsOf("server") \subseteq Objects \ KsObjects
           /\ LocalsOf("client") \cap LocalsOf("server") = {}
BY DEF Touched, LocalsOf, Needed, KsObjects, LocalKeys, Objects

LEMMA NamesApart ==
    /\ Needed \subseteq KsObjects /\ KsObjects \subseteq Objects
    /\ \A s \in Sides : LocalsOf(s) \subseteq Objects \ KsObjects
    /\ LocalsOf("client") \cap LocalsOf("server") = {}
    /\ "own" \in KsObjects /\ ("own" \in Needed => Needed = {"own"})
BY DEF LocalsOf, Needed, KsObjects, LocalKeys, Objects, Sides

(* Which side runs which function *)
LEMMA WhoRuns ==
    ASSUME KsTypeOK, NEW s \in Sides, Running(s)
    PROVE  /\ fn[s] \in Functions4
           /\ s = "client" => fn[s] \in {"Init", "Generate", "Shared"}
           /\ s = "server" => fn[s] = "Respond"
           /\ Touched(fn[s]) \subseteq Needed \cup LocalsOf(s)
           /\ (s = "server" \/ fn[s] # "Shared") => Touched(fn[s]) \cap LocalsOf("client") = {}
           /\ s = "server" => Touched(fn[s]) = LocalsOf(s)
BY DEF KsTypeOK, Running, Functions4, ClientStages, ServerStages, Sides, Touched, LocalsOf, Needed

(* A call finds the key it uses. *)
LEMMA UsesInitialised ==
    ASSUME KsTypeOK, ScriptOK, NEW s \in Sides, More(s)
    PROVE  /\ Call(s).op \in {"init", "use"} /\ Call(s).obj \in Touched(fn[s])
           /\ Call(s).op = "use" => Call(s).obj \in inited
<1>1. Running(s) /\ k[s] < Len(Script(fn[s])) /\ k[s] \in Nat
  BY DEF More, KsTypeOK
<1>2. fn[s] \in Functions4 /\ build \in {"hybrid", "p256", "x25519"}
  BY <1>1, WhoRuns DEF KsTypeOK
<1>3. Len(Script(fn[s])) \in Nat /\ \A j \in 1 .. Len(Script(fn[s])) : CallOK(fn[s], j)
  BY <1>2, ScriptShape
<1>4. k[s] + 1 \in 1 .. Len(Script(fn[s]))
  BY <1>1, <1>3
<1>5. CallOK(fn[s], k[s] + 1)
  BY <1>3, <1>4
<1>6. ASSUME Call(s).op = "use" PROVE Call(s).obj \in inited
  <2>1. CASE Call(s).obj \in Found(fn[s])
    BY <1>1, <2>1 DEF ScriptOK
  <2>2. CASE \E m \in 1 .. k[s] : Script(fn[s])[m] = InitKey(Call(s).obj)
    <3>1. PICK m \in 1 .. k[s] : Script(fn[s])[m] = InitKey(Call(s).obj)
      BY <2>2
    <3>2. Script(fn[s])[m].op = "init" /\ Script(fn[s])[m].obj = Call(s).obj
      BY <3>1 DEF InitKey
    <3> QED BY <1>1, <3>1, <3>2 DEF ScriptOK
  <2>3. \A m \in 1 .. (k[s] + 1) - 1 : m \in 1 .. k[s]
    BY <1>1
  <2>4. Call(s) = Script(fn[s])[k[s] + 1]
    BY DEF Call
  <2>5. \/ Call(s).obj \in Found(fn[s])
        \/ \E m \in 1 .. (k[s] + 1) - 1 : Script(fn[s])[m] = InitKey(Call(s).obj)
    BY <1>5, <1>6, <2>4 DEF CallOK
  <2> QED BY <2>1, <2>2, <2>3, <2>5
<1> QED BY <1>5, <1>6 DEF CallOK, Call

LEMMA KsInvInit == KsInit => KsInv
<1> SUFFICES ASSUME KsInit PROVE KsInv
  OBVIOUS
<1>1. KsTypeOK
  <2>1. /\ build \in {"hybrid", "p256", "x25519"} /\ group \in BOOLEAN
        /\ DOMAIN st = Objects /\ inited \subseteq Objects
    BY KeysAssumption DEF KsInit
  <2>2. fn \in [Sides -> ClientStages \cup ServerStages] /\ k \in [Sides -> Nat]
    BY DEF KsInit, Sides, ClientStages, ServerStages
  <2>3. fn["client"] \in ClientStages /\ fn["server"] \in ServerStages
    BY DEF KsInit, ClientStages, ServerStages
  <2>4. DOMAIN ret = Sides /\ DOMAIN ss = Sides /\ DOMAIN share = Sides
    BY DEF KsInit, Sides
  <2> QED BY <2>1, <2>2, <2>3, <2>4 DEF KsTypeOK
<1>2. \A o \in Objects : st[o] \in {"zero", "garbage"}
  BY DEF KsInit
<1>3. inited = {} /\ fn["client"] = "Start" /\ fn["server"] = "Wait" /\ st["own"] = "zero"
  BY DEF KsInit, Objects, KsObjects
<1>4. ObjectsOK
  BY <1>2, <1>3 DEF ObjectsOK
<1>5. \A s \in Sides : ~Running(s) /\ k[s] = 0
  BY <1>3 DEF Running, Sides, KsInit
<1>6. ScriptOK
  BY <1>3, <1>5 DEF ScriptOK
<1>7. HalvesOK
  BY <1>3 DEF KsInit, HalvesOK
<1> QED BY <1>1, <1>4, <1>6, <1>7 DEF KsInv

-----------------------------------------------------------------------------
(* In the hybrid's SharedSecret the ML-KEM half is written first, the other
   last. *)
LEMMA HybridSharedCalls ==
    ASSUME KsTypeOK, Hybrid, fn["client"] = "Shared", More("client")
    PROVE  /\ Len(Script(fn["client"])) = 4 /\ k["client"] \in 0 .. 3
           /\ k["client"] = 0 => Call("client") = Use("kem")
           /\ Call("client") # Use("skem")
           /\ k["client"] = 3 => Call("client") # Use("kem")
<1>1. Script("Shared") = <<Use("kem"), InitKey("peer"), Use("peer"), Use("x")>>
  BY DEF Script, SharedCalls, HybridShared
<1>2. Len(Script("Shared")) = 4
  BY <1>1
<1>3. k["client"] \in 0 .. 3
  <2>1. k["client"] \in Nat
    BY DEF KsTypeOK, Sides
  <2>2. k["client"] < 4
    BY <1>2 DEF More
  <2> QED BY <2>1, <2>2
<1> QED BY <1>1, <1>2, <1>3 DEF Call, Use, InitKey

LEMMA SucceedsKeeps ==
    ASSUME KsInv, NEW s \in Sides, CallSucceeds(s)
    PROVE  KsInv'
<1> USE DEF KsInv
<1> DEFINE o == Call(s).obj
<1>0. /\ UNCHANGED <<build, fn, ret, group, share>> /\ More(s)
      /\ k' = [k EXCEPT ![s] = @ + 1] /\ ss' = [ss EXCEPT ![s] = Written(s)]
  BY DEF CallSucceeds
<1>1. /\ Running(s) /\ k[s] < Len(Script(fn[s])) /\ k[s] \in Nat /\ k'[s] = k[s] + 1
      /\ \A t \in Sides : t # s => k'[t] = k[t]
      /\ fn[s] \in Functions4
  BY <1>0, WhoRuns DEF More, KsTypeOK
<1>2. Needed' = Needed /\ (\A t : Running(t)' = Running(t)) /\ Hybrid' = Hybrid
         /\ (\A f : Script(f)' = Script(f)) /\ \A f : Found(f)' = Found(f)
  BY <1>0 DEF Needed, Running, Refused, Hybrid, Script, Found, InitCalls, GenerateCalls,
     SharedCalls, RespondCalls
<1>3. /\ o \in Needed \cup LocalsOf(s) /\ o \in Objects
      /\ (s = "server" => o \in LocalsOf(s))
      /\ (s = "client" /\ fn[s] # "Shared") => o \in Needed
  <2>1. o \in Touched(fn[s])
    BY <1>0, UsesInitialised
  <2>2. Touched(fn[s]) \subseteq Needed \cup LocalsOf(s)
    BY <1>1, WhoRuns
  <2>3. s = "server" => Touched(fn[s]) = LocalsOf(s)
    BY <1>1, WhoRuns
  <2>4. (s = "client" /\ fn[s] # "Shared") => Touched(fn[s]) = Needed
    BY <1>1, WhoRuns, ClientTouches
  <2>5. Needed \cup LocalsOf(s) \subseteq Objects
    BY NamesApart
  <2> HIDE DEF o
  <2> QED BY <2>1, <2>2, <2>3, <2>4, <2>5
<1>4. /\ inited \subseteq inited' /\ inited' = inited \cup {o}
      /\ st' = [st EXCEPT ![o] = "init"]
  <2>1. Call(s).op = "use" => o \in inited /\ st[o] = "init"
    BY <1>0, UsesInitialised, <1>3 DEF ObjectsOK
  <2>2. Call(s).op \in {"init", "use"}
    BY <1>0, UsesInitialised
  <2> QED BY <2>1, <2>2 DEF CallSucceeds
<1> HIDE DEF o
<1>5. KsTypeOK'
  <2>1. fn' = fn /\ k' \in [Sides -> Nat]
    BY <1>0, <1>1 DEF KsTypeOK
  <2> QED BY <1>0, <1>3, <1>4, <2>1 DEF KsTypeOK
<1>6. ObjectsOK'
  <2>1. \A x \in Objects : st'[x] # "corrupt" /\ (st'[x] = "init" <=> x \in inited')
    BY <1>3, <1>4 DEF ObjectsOK, KsTypeOK
  <2>2. "own" \in Objects
    BY NamesApart
  <2>3. fn'["client"] # "Done" => (st'["own"] = "zero" \/ "own" \in inited')
    BY <1>0, <1>3, <1>4, <2>2 DEF ObjectsOK, KsTypeOK
  <2>4. inited' \cap KsObjects \subseteq Needed'
    BY <1>2, <1>3, <1>4, NamesApart DEF ObjectsOK
  <2>5. CASE s = "client"
    <3>1. fn["client"] \in {"Init", "Generate", "Shared"}
      BY <1>1, <2>5, WhoRuns
    <3>2. ASSUME NEW t \in Sides, inited' \cap LocalsOf(t) # {} PROVE Running(t)' /\ k'[t] > 0
      <4>1. CASE t = s
        BY <1>1, <1>2, <4>1
      <4>2. CASE t # s
        <5>1. o \notin LocalsOf(t)
          BY <1>3, <2>5, <4>2, NamesApart DEF Sides
        <5> QED BY <1>1, <1>2, <1>4, <3>2, <4>2, <5>1 DEF ObjectsOK
      <4> QED BY <4>1, <4>2
    <3> QED BY <1>0, <2>1, <2>3, <2>4, <3>1, <3>2 DEF ObjectsOK
  <2>6. CASE s = "server"
    <3>1. inited' \cap KsObjects = inited \cap KsObjects
      BY <1>3, <1>4, <2>6, NamesApart
    <3>2. ASSUME NEW t \in Sides, inited' \cap LocalsOf(t) # {} PROVE Running(t)' /\ k'[t] > 0
      <4>1. CASE t = s
        BY <1>1, <1>2, <4>1
      <4>2. CASE t # s
        <5>1. o \notin LocalsOf(t)
          BY <1>3, <2>6, <4>2, NamesApart DEF Sides
        <5> QED BY <1>1, <1>2, <1>4, <3>2, <4>2, <5>1 DEF ObjectsOK
      <4> QED BY <4>1, <4>2
    <3> QED BY <1>0, <2>1, <2>3, <2>4, <3>1, <3>2 DEF ObjectsOK
  <2> QED BY <2>5, <2>6 DEF Sides
<1>7. ScriptOK'
  <2>1. ASSUME NEW t \in Sides
        PROVE  /\ Running(t)' => /\ k'[t] <= Len(Script(fn[t])')
                                 /\ Found(fn[t])' \subseteq inited'
                                 /\ \A m \in 1 .. k'[t] : Script(fn[t])'[m].op = "init" =>
                                       Script(fn[t])'[m].obj \in inited'
               /\ ~Running(t)' => k'[t] = 0
    <3>0. Script(fn[t])' = Script(fn[t]) /\ Found(fn[t])' = Found(fn[t])
      BY <1>0, <1>2
    <3>1. CASE t # s
      BY <1>1, <1>2, <1>4, <3>0, <3>1 DEF ScriptOK
    <3>2. CASE t = s
      <4>1. Len(Script(fn[s])) \in Nat
        BY <1>1, ScriptShape DEF KsTypeOK
      <4>2. k'[t] <= Len(Script(fn[t]))
        BY <1>1, <3>2, <4>1
      <4>3. ASSUME NEW m \in 1 .. k'[t], Script(fn[t])[m].op = "init"
            PROVE  Script(fn[t])[m].obj \in inited'
        <5>1. CASE m = k[s] + 1
          BY <1>4, <3>2, <5>1 DEF Call, o
        <5>2. CASE m \in 1 .. k[s]
          BY <1>1, <1>4, <3>2, <4>3, <5>2 DEF ScriptOK
        <5> QED BY <1>1, <3>2, <5>1, <5>2
      <4> QED BY <1>1, <1>2, <1>4, <3>0, <3>2, <4>2, <4>3 DEF ScriptOK
    <3> QED BY <3>1, <3>2
  <2> QED BY <1>0, <1>2, <1>4, <2>1 DEF ScriptOK
<1>8. HalvesOK'
  <2>1. CASE s = "server"
    <3>1. ss'["client"] = ss["client"] /\ k'["client"] = k["client"] /\ fn["server"] = "Respond"
      BY <1>0, <1>1, <2>1, WhoRuns DEF KsTypeOK, Sides
    <3> QED BY <1>0, <1>2, <3>1 DEF HalvesOK
  <2>2. CASE s = "client" /\ fn["client"] # "Shared"
    <3>1. fn["client"] \in {"Init", "Generate"}
      BY <1>1, <2>2, WhoRuns
    <3>2. Written("client") = ss["client"]
      BY <3>1 DEF Written
    <3>3. ss'["client"] = ss["client"] /\ ss'["server"] = ss["server"]
      BY <1>0, <2>2, <3>2 DEF KsTypeOK, Sides
    <3> QED BY <1>0, <1>2, <3>1, <3>3 DEF HalvesOK
  <2>3. CASE s = "client" /\ fn["client"] = "Shared"
    <3>1. ss'["client"] = Written("client") /\ ss'["server"] = ss["server"]
      BY <1>0, <2>3 DEF KsTypeOK, Sides
    <3>2. CASE Hybrid
      <4>1. KemSecret("client") # <<>> /\ XSecret("client") # {}
        BY DEF KemSecret, XSecret
      <4>2. DOMAIN ss["client"] = {"kem", "x"}
        BY <2>3, <3>2 DEF HalvesOK
      <4>3. /\ k["client"] \in 0 .. 3
            /\ k["client"] = 0 => Call("client") = Use("kem")
            /\ Call("client") # Use("skem")
            /\ Len(Script(fn["client"])) = 4
            /\ k["client"] = 3 => Call("client") # Use("kem")
        BY <1>0, <2>3, <3>2, HybridSharedCalls
      <4>4. CASE Call("client") = Use("kem")
        <5>1. Written("client") = [ss["client"] EXCEPT !.kem = KemSecret("client")]
          BY SMTT(60), <2>3, <3>2, <4>3, <4>4 DEF Written
        <5>2. ~(k'["client"] >= 4)
          BY <1>1, <2>3, <4>3, <4>4
        <5>3. /\ DOMAIN Written("client") = {"kem", "x"}
              /\ Written("client").kem # <<>>
          BY <4>1, <4>2, <5>1
        <5> QED BY <1>0, <1>2, <2>3, <3>1, <3>2, <5>2, <5>3 DEF HalvesOK
      <4>5. CASE Call("client") # Use("kem") /\ k["client"] = 3
        <5>1. Written("client") = [ss["client"] EXCEPT !.x = XSecret("client"), !.kem = @]
          BY <2>3, <3>2, <4>3, <4>5 DEF Written
        <5>2. /\ DOMAIN Written("client") = {"kem", "x"} /\ Written("client").x # {}
              /\ Written("client").kem = ss["client"].kem
          BY <4>1, <4>2, <5>1
        <5>3. ss["client"].kem # <<>>
          BY <2>3, <3>2, <4>5 DEF HalvesOK
        <5> QED BY <1>0, <1>2, <2>3, <3>1, <3>2, <5>2, <5>3 DEF HalvesOK
      <4>6. CASE Call("client") # Use("kem") /\ k["client"] # 3
        <5>0. k["client"] + 1 # 4
          BY <4>3, <4>6
        <5>1. Written("client") = ss["client"]
          BY <2>3, <3>2, <4>3, <4>6, <5>0 DEF Written
        <5>2. k["client"] >= 1 /\ ~(k'["client"] >= 4)
          BY <1>1, <2>3, <4>3, <4>6
        <5> QED BY <1>0, <1>2, <2>3, <3>1, <3>2, <5>1, <5>2 DEF HalvesOK
      <4> QED BY <4>4, <4>5, <4>6
    <3>3. CASE ~Hybrid
      BY <1>0, <1>2, <2>3, <3>3 DEF HalvesOK
    <3> QED BY <3>2, <3>3
  <2> QED BY <2>1, <2>2, <2>3 DEF Sides
<1> QED BY <1>5, <1>6, <1>7, <1>8

(* What the scripts are depends on the build alone. *)
LEMMA SameBuild ==
    ASSUME build' = build
    PROVE  /\ Needed' = Needed /\ Hybrid' = Hybrid
           /\ \A f : Script(f)' = Script(f) /\ Found(f)' = Found(f)
BY DEF Needed, Hybrid, Script, Found, InitCalls, GenerateCalls, SharedCalls, RespondCalls

(* The keys, when neither they nor the scripts' progress change: a side may only
   begin or stop to run while it has made no call. *)
LEMMA KeysUntouched ==
    ASSUME KsInv, UNCHANGED <<build, group, st, inited, k, fn>>,
           \A s \in Sides : k[s] > 0 => Running(s)' = Running(s),
           \A s \in Sides : Running(s)' /\ ~Running(s) => Found(fn[s]) = {}
    PROVE  /\ ObjectsOK'
           /\ (fn["client"] = "Free" => ret'["client"] # "SUCCESS") => ScriptOK'
<1> USE DEF KsInv
<1>0. ObjectsOK'
  BY SameBuild DEF ObjectsOK
<1> SUFFICES ASSUME fn["client"] = "Free" => ret'["client"] # "SUCCESS"
             PROVE  ScriptOK'
  BY <1>0
<1>1. ASSUME NEW s \in Sides
      PROVE  /\ Running(s)' => /\ k'[s] <= Len(Script(fn[s])')
                               /\ Found(fn[s])' \subseteq inited'
                               /\ \A m \in 1 .. k'[s] : Script(fn[s])'[m].op = "init" =>
                                     Script(fn[s])'[m].obj \in inited'
             /\ ~Running(s)' => k'[s] = 0
  <2>1. k[s] \in Nat
    BY DEF KsTypeOK
  <2>2. Script(fn[s])' = Script(fn[s]) /\ Found(fn[s])' = Found(fn[s])
    BY SameBuild
  <2>3. CASE Running(s)' = Running(s)
    BY <2>2, <2>3 DEF ScriptOK
  <2>4. CASE Running(s)' # Running(s)
    <3>1. k[s] = 0
      BY <2>1, <2>4
    <3>2. Running(s)' => ~Running(s)
      BY <2>4 DEF Running
    <3>3. Running(s)' => fn[s] \in Functions4
      BY DEF Running, Functions4
    <3>4. Running(s)' => Len(Script(fn[s])) \in Nat
      BY <3>3, ScriptShape DEF KsTypeOK
    <3> QED BY <2>2, <3>1, <3>2, <3>4
  <2> QED BY <2>3, <2>4
<1> QED BY <1>0, <1>1, SameBuild DEF ScriptOK

LEMMA FailsKeeps ==
    ASSUME KsInv, NEW s \in Sides, CallFails(s)
    PROVE  KsInv'
<1> USE DEF KsInv
<1>0. /\ UNCHANGED <<build, fn, k, group, st, inited, ss, share>> /\ Running(s)
      /\ ret' = [ret EXCEPT ![s] = "E_CRYPTO"]
  BY DEF CallFails, More
<1>1. \A t \in Sides : Running(t)' = Running(t)
  BY <1>0 DEF Running, Refused, KsTypeOK
<1>2. KsTypeOK'
  BY <1>0 DEF KsTypeOK
<1>3. fn["client"] = "Free" => ret'["client"] # "SUCCESS"
  BY <1>0 DEF KsTypeOK, ScriptOK
<1>4. HalvesOK'
  <2>1. fn["server"] = "Done" => ret'["server"] = ret["server"]
    BY <1>0, WhoRuns DEF KsTypeOK, Sides
  <2> QED BY <1>0, <2>1, SameBuild DEF HalvesOK
<1> QED BY <1>0, <1>1, <1>2, <1>3, <1>4, KeysUntouched

LEMMA TamperKeeps ==
    ASSUME KsInv, NEW s \in Sides, Tamper(s)
    PROVE  KsInv'
<1> USE DEF KsInv
<1>0. UNCHANGED <<build, fn, k, ret, group, st, inited, ss>>
  BY DEF Tamper
<1>1. KsTypeOK' /\ HalvesOK'
  <2>1. DOMAIN share' = Sides
    BY DEF Tamper, KsTypeOK
  <2> QED BY <1>0, <2>1, SameBuild DEF KsTypeOK, HalvesOK
<1>2. Running("client")' = Running("client")
  BY <1>0 DEF Running, Refused, KsTypeOK, ClientStages
<1>3. CASE s = "server"
  <2>1. share'["client"] = share["client"]
    BY <1>3 DEF Tamper, KsTypeOK, Sides
  <2>2. Running("server")' = Running("server")
    BY <1>0, <2>1 DEF Running, Refused
  <2> QED BY <1>0, <1>1, <1>2, <2>2, KeysUntouched DEF Sides, ScriptOK
<1>4. CASE s = "client"
  <2>1. k["server"] = 0
    BY <1>4 DEF Tamper
  <2>2. Running("server")' => Found(fn["server"]) = {}
    BY <1>0 DEF Running, KsTypeOK, ServerStages, Found
  <2>3. ~(k["server"] > 0)
    BY <2>1
  <2> QED BY <1>0, <1>1, <1>2, <2>2, <2>3, KeysUntouched DEF Sides, ScriptOK
<1> QED BY <1>3, <1>4 DEF Sides

LEMMA RefusesKeeps ==
    ASSUME KsInv, ServerRefuses
    PROVE  KsInv'
<1> USE DEF KsInv
<1>0. /\ UNCHANGED <<build, fn, k, group, st, inited, ss, share>> /\ k["server"] = 0
      /\ fn["server"] = "Respond" /\ ret' = [ret EXCEPT !["server"] = "E_INVALID_ARG"]
  BY DEF ServerRefuses, Refused
<1>1. KsTypeOK' /\ HalvesOK'
  BY <1>0, SameBuild DEF KsTypeOK, HalvesOK
<1>2. Running("client")' = Running("client") /\ ret'["client"] = ret["client"]
  BY <1>0 DEF Running, Refused, KsTypeOK, ClientStages
<1>3. Found(fn["server"]) = {} /\ ~(k["server"] > 0)
  BY <1>0 DEF Found
<1> QED BY <1>0, <1>1, <1>2, <1>3, KeysUntouched DEF Sides, ScriptOK

(* What a function that has gone through its script has initialised *)
LEMMA ScriptDone ==
    ASSUME KsInv, NEW s \in Sides, Running(s), ~More(s), ret[s] = "SUCCESS"
    PROVE  /\ k[s] = Len(Script(fn[s]))
           /\ Builder(fn[s]) => Needed \subseteq inited
<1> USE DEF KsInv
<1>0. fn[s] \in Functions4 /\ build \in {"hybrid", "p256", "x25519"} /\ k[s] \in Nat
  BY WhoRuns DEF KsTypeOK
<1>1. Len(Script(fn[s])) \in Nat
  BY <1>0, ScriptShape
<1>2. k[s] = Len(Script(fn[s]))
  BY <1>0, <1>1 DEF More, ScriptOK
<1>3. ASSUME Builder(fn[s]), NEW o \in Needed PROVE o \in inited
  <2>1. PICK m \in 1 .. Len(Script(fn[s])) : Script(fn[s])[m] = InitKey(o)
    BY <1>0, <1>3, ScriptShape
  <2>2. Script(fn[s])[m].op = "init" /\ Script(fn[s])[m].obj = o
    BY <2>1 DEF InitKey
  <2> QED BY <1>2, <2>1, <2>2 DEF ScriptOK
<1> QED BY <1>2, <1>3

LEMMA ReturnKeeps ==
    ASSUME KsInv, NEW s \in Sides, Return(s)
    PROVE  KsInv'
<1> USE DEF KsInv
<1> DEFINE freed == LocalsToFree(s)
<1>0. /\ Running(s) /\ ~More(s) /\ UNCHANGED <<build, ret>>
      /\ st' = FreeAll(freed) /\ inited' = inited \ freed
      /\ fn' = [fn EXCEPT ![s] = IF s = "server" THEN "Done"
                                 ELSE IF ret[s] = "SUCCESS" THEN Following[@] ELSE "Free"]
      /\ group' = (group \/ fn[s] = "Init") /\ k' = [k EXCEPT ![s] = 0]
      /\ share'["client"] = share["client"]
  BY DEF Return
<1>1. freed = inited \cap LocalsOf(s)
  BY DEF LocalsToFree, LocalsOf
<1> HIDE DEF freed
<1>2. \A o \in freed : o \in Objects /\ st[o] = "init"
  BY <1>1 DEF ObjectsOK, KsTypeOK
<1>3. st' = [o \in Objects |-> IF o \in freed THEN "freed" ELSE st[o]]
  BY <1>0, <1>2 DEF FreeAll, FreeKey
<1>4. \A t \in Sides : t # s => fn'[t] = fn[t] /\ k'[t] = k[t]
  BY <1>0 DEF KsTypeOK
<1>5. k'[s] = 0
  BY <1>0 DEF KsTypeOK
<1>6. CASE s = "server"
  <2>1. fn'["server"] = "Done" /\ fn["server"] = "Respond" /\ group' = group
    BY <1>0, <1>6, WhoRuns DEF KsTypeOK, Sides
  <2>2. fn'["client"] = fn["client"] /\ k'["client"] = k["client"] /\ k'["server"] = 0
    BY <1>4, <1>5, <1>6 DEF Sides
  <2>3. Running("client")' = Running("client") /\ ~Running("server")'
    BY <1>0, <2>1, <2>2 DEF Running, Refused, KsTypeOK, ClientStages
  <2>4. KsTypeOK'
    <3>1. DOMAIN ss' = Sides /\ DOMAIN share' = Sides
      BY DEF Return, KsTypeOK
    <3>2. fn' \in [Sides -> ClientStages \cup ServerStages] /\ k' \in [Sides -> Nat]
      BY <1>0, <1>6 DEF KsTypeOK, ServerStages
    <3> QED BY <1>0, <1>3, <2>1, <2>2, <3>1, <3>2 DEF KsTypeOK, ServerStages
  <2>5. "own" \notin freed /\ inited' \cap KsObjects = inited \cap KsObjects
           /\ inited' \cap LocalsOf("server") = {}
           /\ inited' \cap LocalsOf("client") = inited \cap LocalsOf("client")
           /\ Needed \cap freed = {}
    BY <1>0, <1>1, <1>6, NamesApart DEF Sides
  <2>6. ObjectsOK'
    BY <1>0, <1>3, <2>1, <2>2, <2>3, <2>5, NamesApart, SameBuild DEF ObjectsOK, Sides
  <2>7. ScriptOK'
    <3>1. Running("client") => fn["client"] \in {"Init", "Generate", "Shared"}
      BY WhoRuns DEF Sides
    <3>2. Running("client") => /\ Found(fn["client"]) \subseteq inited'
                               /\ \A m \in 1 .. k["client"] :
                                     Script(fn["client"])[m].op = "init" =>
                                        Script(fn["client"])[m].obj \in inited'
      <4> SUFFICES ASSUME Running("client")
                   PROVE  /\ Found(fn["client"]) \subseteq inited'
                          /\ \A m \in 1 .. k["client"] :
                                Script(fn["client"])[m].op = "init" =>
                                   Script(fn["client"])[m].obj \in inited'
        OBVIOUS
      <4>1. fn["client"] \in {"Init", "Generate", "Shared"} /\ fn["client"] \in Functions4
        BY <3>1 DEF Functions4
      <4>2. Found(fn["client"]) \subseteq Needed
        BY <4>1 DEF Found
      <4>3. Touched(fn["client"]) \cap freed = {}
        BY <1>1, <1>6, <4>1, ClientTouches, NamesApart DEF Sides
      <4>4. \A m \in 1 .. k["client"] : Script(fn["client"])[m].obj \in Touched(fn["client"])
        <5>1. \A j \in 1 .. Len(Script(fn["client"])) : CallOK(fn["client"], j)
          BY <4>1, ScriptShape DEF KsTypeOK
        <5>2. k["client"] \in Nat /\ k["client"] <= Len(Script(fn["client"]))
                 /\ Len(Script(fn["client"])) \in Nat
          BY <4>1, ScriptShape DEF ScriptOK, Sides, KsTypeOK
        <5>3. \A m \in 1 .. k["client"] : CallOK(fn["client"], m)
          BY <5>1, <5>2
        <5> QED BY <5>3 DEF CallOK
      <4> QED BY <1>0, <2>5, <4>2, <4>3, <4>4 DEF ScriptOK, Sides
    <3> QED BY <1>0, <2>2, <2>3, <2>5, <3>2, SameBuild DEF ScriptOK, Sides
  <2>8. HalvesOK'
    <3>1. ss'["client"] = ss["client"]
      BY <1>6 DEF Return, KsTypeOK, Sides
    <3>2. (Hybrid /\ ret["server"] # "SUCCESS") => ss'["server"] = NoSecret
      BY <1>6, <2>1 DEF Return, SecretReturned, KsTypeOK, Sides
    <3> QED BY <1>0, <2>1, <2>2, <3>1, <3>2, SameBuild DEF HalvesOK
  <2> QED BY <2>4, <2>6, <2>7, <2>8
<1>7. CASE s = "client"
  <2>1. fn["client"] \in {"Init", "Generate", "Shared"}
    BY <1>0, <1>7, WhoRuns
  <2>2. /\ fn'["client"] = IF ret["client"] = "SUCCESS"
                           THEN (CASE fn["client"] = "Init" -> "Generate"
                                   [] fn["client"] = "Generate" -> "Send"
                                   [] fn["client"] = "Shared" -> "Use")
                           ELSE "Free"
        /\ fn'["server"] = fn["server"] /\ k'["server"] = k["server"] /\ k'["client"] = 0
    BY <1>0, <1>4, <1>5, <1>7, <2>1 DEF KsTypeOK, Sides, Following
  <2>3. Running("server")' = Running("server")
    BY <1>0, <1>4, <1>7, <2>2 DEF Running, Refused
  <2>4. fn'["client"] \in {"Generate", "Send", "Use", "Free"}
    BY <2>1, <2>2
  <2>5. Running("client")' => fn'["client"] = "Generate"
    BY <2>4 DEF Running
  <2>6. KsTypeOK'
    <3>1. DOMAIN ss' = Sides /\ DOMAIN share' = Sides
      BY DEF Return, KsTypeOK
    <3>2. fn' \in [Sides -> ClientStages \cup ServerStages] /\ k' \in [Sides -> Nat]
      <4>1. DOMAIN fn' = Sides /\ fn' = [t \in Sides |-> fn'[t]]
        BY <1>0 DEF KsTypeOK
      <4>2. \A t \in Sides : fn'[t] \in ClientStages \cup ServerStages
        BY <2>2, <2>4 DEF KsTypeOK, Sides, ClientStages
      <4> QED BY <1>0, <4>1, <4>2 DEF KsTypeOK
    <3> QED BY <1>0, <1>3, <2>2, <2>4, <3>1, <3>2 DEF KsTypeOK, ClientStages
  <2>7. /\ inited' \cap KsObjects = inited \cap KsObjects /\ inited' \cap LocalsOf("client") = {}
        /\ inited' \cap LocalsOf("server") = inited \cap LocalsOf("server")
        /\ "own" \notin freed /\ Needed \cap freed = {}
    BY <1>0, <1>1, <1>7, NamesApart DEF Sides
  <2>8. ObjectsOK'
    <3>1. group' \in BOOLEAN /\ group'
      BY <1>0, <1>7, <2>1 DEF ObjectsOK, KsTypeOK
    <3> QED BY <1>0, <1>3, <2>1, <2>2, <2>3, <2>4, <2>7, <3>1, NamesApart, SameBuild
            DEF ObjectsOK, Sides
  <2>9. ret["client"] = "SUCCESS" /\ Builder(fn["client"]) => Needed \subseteq inited
    BY <1>0, <1>7, ScriptDone
  <2>10. fn'["client"] = "Send" => Needed \subseteq inited'
    <3> SUFFICES ASSUME fn'["client"] = "Send" PROVE Needed \subseteq inited
      BY <1>0, <2>7
    <3>1. fn["client"] = "Generate" /\ ret["client"] = "SUCCESS"
      BY <2>1, <2>2
    <3>2. CASE Hybrid
      BY <2>9, <3>1, <3>2 DEF Builder
    <3>3. CASE ~Hybrid
      BY <1>0, <1>7, <3>1, <3>3 DEF ScriptOK, Found, Sides
    <3> QED BY <3>2, <3>3
  <2>11. fn'["client"] = "Generate" => Found("Generate") \subseteq inited'
    <3> SUFFICES ASSUME fn'["client"] = "Generate", ~Hybrid PROVE Needed \subseteq inited
      BY <1>0, <2>7 DEF Found
    <3>1. fn["client"] = "Init" /\ ret["client"] = "SUCCESS"
      BY <2>1, <2>2
    <3> QED BY <2>9, <3>1 DEF Builder
  <2>12. ScriptOK'
    <3>1. Running("server") => /\ fn["server"] = "Respond" /\ Found(fn["server"]) = {}
                               /\ \A m \in 1 .. k["server"] :
                                     Script(fn["server"])[m].op = "init" =>
                                        Script(fn["server"])[m].obj \in inited'
      <4> SUFFICES ASSUME Running("server")
                   PROVE  /\ fn["server"] = "Respond" /\ Found(fn["server"]) = {}
                          /\ \A m \in 1 .. k["server"] :
                                Script(fn["server"])[m].op = "init" =>
                                   Script(fn["server"])[m].obj \in inited'
        OBVIOUS
      <4>1. fn["server"] = "Respond"
        BY WhoRuns DEF Sides
      <4>2. \A m \in 1 .. k["server"] : Script(fn["server"])[m].obj \in LocalsOf("server")
        <5>1. \A j \in 1 .. Len(Script(fn["server"])) : CallOK(fn["server"], j)
          BY <4>1, ScriptShape DEF KsTypeOK, Functions4
        <5>2. k["server"] \in Nat /\ k["server"] <= Len(Script(fn["server"]))
                 /\ Len(Script(fn["server"])) \in Nat
          BY <4>1, ScriptShape DEF ScriptOK, Sides, KsTypeOK, Functions4
        <5>3. \A m \in 1 .. k["server"] : CallOK(fn["server"], m)
          BY <5>1, <5>2
        <5>4. Touched(fn["server"]) = LocalsOf("server")
          BY <4>1 DEF Touched, LocalsOf
        <5> QED BY <5>3, <5>4 DEF CallOK
      <4> QED BY <2>7, <4>1, <4>2 DEF Found, ScriptOK, Sides
    <3>2. Len(Script("Generate")) \in Nat
      BY ScriptShape DEF Functions4, KsTypeOK
    <3>3. k'["client"] <= Len(Script("Generate"))
      BY <2>2, <3>2
    <3>4. /\ Running("client")' =>
                /\ k'["client"] <= Len(Script(fn["client"])')
                /\ Found(fn["client"])' \subseteq inited'
                /\ \A m \in 1 .. k'["client"] : Script(fn["client"])'[m].op = "init" =>
                      Script(fn["client"])'[m].obj \in inited'
          /\ ~Running("client")' => k'["client"] = 0
      <4>1. Script(fn["client"])' = Script(fn'["client"])
                /\ Found(fn["client"])' = Found(fn'["client"])
        BY <1>0, SameBuild
      <4>2. CASE Running("client")'
        <5>1. fn'["client"] = "Generate"
          BY <2>5, <4>2
        <5>2. Script(fn["client"])' = Script("Generate")
                 /\ Found(fn["client"])' = Found("Generate")
          BY <4>1, <5>1
        <5>3. ~(\E m \in 1 .. k'["client"] : TRUE)
          BY <2>2
        <5> QED BY <2>11, <3>3, <4>2, <5>1, <5>2, <5>3
      <4>3. CASE ~Running("client")'
        BY <2>2, <4>3
      <4> QED BY <4>2, <4>3
    <3>5. /\ Running("server")' =>
                /\ k'["server"] <= Len(Script(fn["server"])')
                /\ Found(fn["server"])' \subseteq inited'
                /\ \A m \in 1 .. k'["server"] : Script(fn["server"])'[m].op = "init" =>
                      Script(fn["server"])'[m].obj \in inited'
          /\ ~Running("server")' => k'["server"] = 0
      <4>1. Script(fn["server"])' = Script(fn["server"])
                /\ Found(fn["server"])' = Found(fn["server"])
        BY <1>0, <2>2, SameBuild
      <4> QED BY <2>2, <2>3, <3>1, <4>1 DEF ScriptOK, Sides
    <3>6. fn'["client"] = "Free" => ret'["client"] # "SUCCESS"
      BY <1>0, <2>1, <2>2
    <3>7. Needed' = Needed
      BY <1>0, SameBuild
    <3> QED BY <2>4, <2>10, <3>4, <3>5, <3>6, <3>7 DEF ScriptOK, Sides
  <2>13. HalvesOK'
    <3>1. ss'["client"] = SecretReturned("client") /\ ss'["server"] = ss["server"]
      BY <1>7, <2>1 DEF Return, KsTypeOK, Sides
    <3>2. CASE fn["client"] # "Shared"
      <4>1. ss["client"] = NoSecret
        BY <2>1, <3>2 DEF HalvesOK
      <4>2. ss'["client"] = NoSecret
        BY <3>1, <4>1 DEF SecretReturned
      <4>3. fn'["client"] # "Use"
        BY <2>1, <2>2, <3>2
      <4> QED BY <1>0, <2>2, <2>4, <3>1, <4>2, <4>3, SameBuild DEF HalvesOK
    <3>3. CASE fn["client"] = "Shared" /\ ret["client"] = "SUCCESS"
      <4>1. fn'["client"] = "Use" /\ ss'["client"] = ss["client"]
        BY <2>2, <3>1, <3>3 DEF SecretReturned
      <4>2. Hybrid => k["client"] = 4
        <5>1. Hybrid => Len(Script("Shared")) = 4
          BY DEF Script, SharedCalls, HybridShared
        <5> QED BY <1>0, <1>7, <3>3, <5>1, ScriptDone
      <4>3. Hybrid => ss["client"].kem # <<>> /\ ss["client"].x # {}
        <5>1. 4 >= 1 /\ 4 >= 4
          OBVIOUS
        <5> QED BY <3>3, <4>2, <5>1 DEF HalvesOK
      <4>4. Hybrid => DOMAIN ss["client"] = {"kem", "x"}
        BY <3>3 DEF HalvesOK
      <4>5. Hybrid' = Hybrid /\ ret' = ret /\ fn'["server"] = fn["server"]
        BY <1>0, <2>2, SameBuild
      <4>6. (Hybrid /\ fn["server"] = "Done" /\ ret["server"] # "SUCCESS") =>
               ss["server"] = NoSecret
        BY DEF HalvesOK
      <4> QED BY <3>1, <4>1, <4>3, <4>4, <4>5, <4>6 DEF HalvesOK
    <3>4. CASE fn["client"] = "Shared" /\ ret["client"] # "SUCCESS"
      <4>1. fn'["client"] = "Free" /\ (Hybrid => ss'["client"] = NoSecret)
        BY <2>2, <3>1, <3>4 DEF SecretReturned
      <4> QED BY <1>0, <2>2, <3>1, <4>1, SameBuild DEF HalvesOK
    <3> QED BY <3>2, <3>3, <3>4
  <2> QED BY <2>6, <2>8, <2>12, <2>13
<1> QED BY <1>6, <1>7 DEF Sides

LEMMA KsStep ==
    ASSUME KsInv, KsNext
    PROVE  KsInv'
BY SucceedsKeeps, FailsKeeps, ReturnKeeps, TamperKeeps, RefusesKeeps DEF KsNext, Sides

-----------------------------------------------------------------------------
(***************************************************************************)
(* The programs of the two drivers.  Four things matter of them: who       *)
(* writes which buffer; that the key share is set up by the second call    *)
(* and the secret computed by one later call, SharedAt, with ClientHello   *)
(* sent and ServerHello received in between; and that behind a call that   *)
(* writes one of the intermediate secrets there is one that wipes it, with *)
(* no new block in between, so that no failure leads past it.              *)
(***************************************************************************)
Ops == {"expand", "extract", "mac", "hash", "hash truncated", "update", "wipe", "empty", "send",
        "receive", "params", "keyshare", "ready", "verify", "finished", "establish"}
Buffers == Locals \cup Others \cup SessionFields \cup {"none", "ecdhe"}
CallLabels == {"none", "derived", "c hs traffic", "s hs traffic", "key", "iv", "c ap traffic",
           "s ap traffic", "ext binder", "CH", "SH", "EE", "CERT", "CV", "FIN", "hello",
           "finished", "Init", "Shared"}
Calls == [op: Ops, out: Buffers, from: Seq(Buffers), label: CallLabels, first: BOOLEAN]

StaticCalls ==
    {x \in Calls : /\ x.out \in {"th", "thCert"} => x.op \in {"hash", "hash truncated"}
                   /\ x.out = "emptyHash" => x.op = "empty"
                   /\ x.out \notin {"zeros", "nil", "psk"}}
Meets(x) == \/ x.op = "receive"
            \/ x.op = "send" /\ x.label = "hello"
QuietCalls == {x \in StaticCalls : x.op # "keyshare" /\ ~Meets(x)}
Intermediate == {"derived", "master"}
NoKsCalls == {x \in StaticCalls : /\ x.op # "keyshare" /\ (Meets(x) => x.first)
                                  /\ x.out \notin Intermediate}
PlainCalls == {x \in QuietCalls : x.out \notin Intermediate}
LaterCalls == {x \in QuietCalls : ~x.first}

KsCall(f) == [Do("keyshare", "none", <<>>, f) EXCEPT !.first = TRUE]

(* Up to the call that computes the secret *)
Begun(p) ==
    /\ p \in Seq(StaticCalls) /\ Len(p) >= 2
    /\ p[1] \in PlainCalls /\ p[2] = KsCall("Init")
    /\ \A j \in 3 .. Len(p) : p[j] \in NoKsCalls

(* With that call, the a-th, and quiet calls behind it *)
Shape(p, a) ==
    /\ p \in Seq(StaticCalls) /\ a \in 3 .. Len(p)
    /\ p[1] \in QuietCalls /\ p[2] = KsCall("Init") /\ p[a] = KsCall("Shared")
    /\ \A j \in 3 .. a - 1 : p[j] \in NoKsCalls
    /\ \A j \in a + 1 .. Len(p) : p[j] \in QuietCalls

Wipes(x, b) == x.op = "wipe" /\ \E m \in DOMAIN x.from : x.from[m] = b
WipedBehind(p, b, j) ==
    \E w \in j + 1 .. Len(p) : Wipes(p[w], b) /\ \A m \in j + 1 .. w : ~p[m].first
SelfWiping(p) ==
    p \in Seq(Calls) /\ \A j \in 1 .. Len(p) : p[j].out \in Intermediate => WipedBehind(p, p[j].out, j)

LEMMA SeqSubset ==
    ASSUME NEW S, NEW T, S \subseteq T, NEW q \in Seq(S)
    PROVE  q \in Seq(T)
OBVIOUS

LEMMA ConcatAt ==
    ASSUME NEW S, NEW p \in Seq(S), NEW q \in Seq(S)
    PROVE  /\ p \o q \in Seq(S) /\ Len(p \o q) = Len(p) + Len(q)
           /\ \A j \in 1 .. Len(p) : (p \o q)[j] = p[j]
           /\ \A j \in 1 .. Len(q) : (p \o q)[Len(p) + j] = q[j]
           /\ \A j \in Len(p) + 1 .. Len(p \o q) :
                 j - Len(p) \in 1 .. Len(q) /\ (p \o q)[j] = q[j - Len(p)]
OBVIOUS

LEMMA BegunGrows ==
    ASSUME NEW p, Begun(p), NEW q \in Seq(NoKsCalls)
    PROVE  Begun(p \o q)
<1>1. p \in Seq(StaticCalls) /\ q \in Seq(StaticCalls)
  BY DEF Begun, NoKsCalls
<1>2. /\ p \o q \in Seq(StaticCalls) /\ Len(p \o q) = Len(p) + Len(q)
      /\ \A j \in 1 .. Len(p) : (p \o q)[j] = p[j]
      /\ \A j \in Len(p) + 1 .. Len(p \o q) :
            j - Len(p) \in 1 .. Len(q) /\ (p \o q)[j] = q[j - Len(p)]
  BY <1>1, ConcatAt
<1>3. Len(p) \in Nat /\ Len(q) \in Nat /\ Len(p) >= 2
  BY <1>1 DEF Begun
<1>4. ASSUME NEW j \in 3 .. Len(p \o q) PROVE (p \o q)[j] \in NoKsCalls
  <2>1. CASE j <= Len(p)
    BY <1>2, <1>3, <2>1 DEF Begun
  <2>2. CASE j > Len(p)
    BY <1>2, <1>3, <2>2
  <2> QED BY <1>3, <2>1, <2>2
<1> QED BY <1>2, <1>3, <1>4 DEF Begun

LEMMA DoInCalls ==
    ASSUME NEW op \in Ops, NEW out \in Buffers, NEW from \in Seq(Buffers), NEW label \in CallLabels
    PROVE  /\ Do(op, out, from, label) \in Calls
           /\ Do(op, out, from, label).op = op /\ Do(op, out, from, label).out = out
           /\ Do(op, out, from, label).from = from /\ Do(op, out, from, label).label = label
           /\ ~Do(op, out, from, label).first
<1>1. FALSE \in BOOLEAN
  OBVIOUS
<1>2. Do(op, out, from, label) \in Calls
  BY <1>1 DEF Do, Calls
<1> QED BY <1>2 DEF Do

(* The first call of a block differs in nothing else. *)
LEMMA FirstInCalls ==
    ASSUME NEW x \in Calls
    PROVE  /\ [x EXCEPT !.first = TRUE] \in Calls
           /\ [x EXCEPT !.first = TRUE].op = x.op /\ [x EXCEPT !.first = TRUE].out = x.out
           /\ [x EXCEPT !.first = TRUE].from = x.from /\ [x EXCEPT !.first = TRUE].label = x.label
           /\ [x EXCEPT !.first = TRUE].first
<1>1. [x EXCEPT !.first = TRUE] \in Calls
  BY DEF Calls
<1>2. [x EXCEPT !.first = TRUE].op = x.op /\ [x EXCEPT !.first = TRUE].out = x.out
  BY DEF Calls
<1>3. [x EXCEPT !.first = TRUE].from = x.from /\ [x EXCEPT !.first = TRUE].label = x.label
  BY DEF Calls
<1>4. [x EXCEPT !.first = TRUE].first
  BY DEF Calls
<1> QED BY <1>1, <1>2, <1>3, <1>4

LEMMA KsCallStatic ==
    ASSUME NEW f \in {"Init", "Shared"}
    PROVE  /\ KsCall(f) \in StaticCalls /\ KsCall(f).op = "keyshare" /\ KsCall(f).label = f
           /\ KsCall(f).out = "none" /\ KsCall(f).first
<1>1. /\ "keyshare" \in Ops /\ "none" \in Buffers
      /\ f \in CallLabels
  BY DEF Ops, Buffers, CallLabels
<1> DEFINE e == <<>>
           x == Do("keyshare", "none", e, f)
<1>1a. e \in Seq(Buffers)
  OBVIOUS
<1> HIDE DEF e
<1>2. x \in Calls /\ x.op = "keyshare" /\ x.label = f /\ x.out = "none"
  BY <1>1, <1>1a, DoInCalls
<1> HIDE DEF x
<1>3. LET y == [x EXCEPT !.first = TRUE] IN
        y \in Calls /\ y.op = "keyshare" /\ y.label = f /\ y.out = "none" /\ y.first
  BY <1>2, FirstInCalls
<1>4. KsCall(f) = [x EXCEPT !.first = TRUE]
  BY DEF KsCall, x, e
<1> QED BY <1>3, <1>4 DEF StaticCalls

LEMMA BegunShape ==
    ASSUME NEW p, Begun(p)
    PROVE  Shape(p \o <<KsCall("Shared")>>, Len(p) + 1)
<1> DEFINE q == <<KsCall("Shared")>>
<1>1. KsCall("Shared") \in StaticCalls
  BY KsCallStatic
<1>2. Len(q) = 1 /\ q[1] = KsCall("Shared")
  OBVIOUS
<1>2a. q \in Seq(StaticCalls)
  BY <1>1
<1>2b. p \in Seq(StaticCalls)
  BY DEF Begun
<1> HIDE DEF q
<1>3. /\ p \o q \in Seq(StaticCalls) /\ Len(p \o q) = Len(p) + Len(q)
      /\ \A j \in 1 .. Len(p) : (p \o q)[j] = p[j]
      /\ \A j \in 1 .. Len(q) : (p \o q)[Len(p) + j] = q[j]
  BY <1>2a, <1>2b, ConcatAt
<1>4. Len(p) \in Nat /\ Len(p) >= 2
  BY <1>2b DEF Begun
<1>5. PlainCalls \subseteq QuietCalls
  BY DEF PlainCalls
<1>6. Shape(p \o q, Len(p) + 1)
  BY <1>2, <1>3, <1>4, <1>5 DEF Begun, Shape
<1> QED BY <1>6 DEF q

LEMMA ShapeGrows ==
    ASSUME NEW p, NEW a, Shape(p, a), NEW q \in Seq(QuietCalls)
    PROVE  Shape(p \o q, a)
<1>1. p \in Seq(StaticCalls) /\ q \in Seq(StaticCalls)
  BY DEF Shape, QuietCalls
<1>2. /\ p \o q \in Seq(StaticCalls) /\ Len(p \o q) = Len(p) + Len(q)
      /\ \A j \in 1 .. Len(p) : (p \o q)[j] = p[j]
      /\ \A j \in Len(p) + 1 .. Len(p \o q) :
            j - Len(p) \in 1 .. Len(q) /\ (p \o q)[j] = q[j - Len(p)]
  BY <1>1, ConcatAt
<1>3. Len(p) \in Nat /\ Len(q) \in Nat /\ a \in 3 .. Len(p)
  BY <1>1 DEF Shape
<1>4. ASSUME NEW j \in a + 1 .. Len(p \o q) PROVE (p \o q)[j] \in QuietCalls
  <2>1. CASE j <= Len(p)
    BY <1>2, <1>3, <2>1 DEF Shape
  <2>2. CASE j > Len(p)
    BY <1>2, <1>3, <2>2
  <2> QED BY <1>3, <2>1, <2>2
<1>5. \A j \in 3 .. a - 1 : (p \o q)[j] \in NoKsCalls
  BY <1>2, <1>3 DEF Shape
<1>6. /\ (p \o q)[1] = p[1] /\ (p \o q)[2] = p[2] /\ (p \o q)[a] = p[a]
      /\ a \in 3 .. Len(p \o q)
  BY <1>2, <1>3
<1> QED BY <1>2, <1>4, <1>5, <1>6 DEF Shape

LEMMA WipingGrows ==
    ASSUME NEW p, NEW q, SelfWiping(p), SelfWiping(q)
    PROVE  SelfWiping(p \o q)
<1>1. p \in Seq(Calls) /\ q \in Seq(Calls)
  BY DEF SelfWiping
<1>2. /\ p \o q \in Seq(Calls) /\ Len(p \o q) = Len(p) + Len(q)
      /\ \A j \in 1 .. Len(p) : (p \o q)[j] = p[j]
      /\ \A j \in 1 .. Len(q) : (p \o q)[Len(p) + j] = q[j]
  BY <1>1, ConcatAt
<1>3. Len(p) \in Nat /\ Len(q) \in Nat
  BY <1>1
<1> DEFINE r == p \o q
<1> HIDE DEF r
<1>4. /\ r \in Seq(Calls) /\ Len(r) = Len(p) + Len(q)
      /\ \A j \in 1 .. Len(p) : r[j] = p[j]
      /\ \A j \in 1 .. Len(q) : r[Len(p) + j] = q[j]
  BY <1>2 DEF r
<1>5. ASSUME NEW j \in 1 .. Len(r), r[j].out \in Intermediate
      PROVE  WipedBehind(r, r[j].out, j)
  <2>1. CASE j <= Len(p)
    <3>1. r[j] = p[j] /\ j \in 1 .. Len(p)
      BY <1>3, <1>4, <2>1
    <3>2. WipedBehind(p, p[j].out, j)
      BY <1>5, <3>1 DEF SelfWiping
    <3>3. PICK w \in j + 1 .. Len(p) : Wipes(p[w], p[j].out) /\ \A m \in j + 1 .. w : ~p[m].first
      BY <3>2 DEF WipedBehind
    <3>4. w \in j + 1 .. Len(r) /\ r[w] = p[w] /\ \A m \in j + 1 .. w : r[m] = p[m]
      BY SMTT(60), <1>3, <1>4, <3>1, <3>3
    <3> QED BY <3>1, <3>3, <3>4 DEF WipedBehind
  <2>2. CASE j > Len(p)
    <3>1. PICK l \in 1 .. Len(q) : j = Len(p) + l
      <4>1. j - Len(p) \in 1 .. Len(q) /\ j = Len(p) + (j - Len(p))
        BY <1>3, <1>4, <2>2
      <4> QED BY <4>1
    <3>2. r[j] = q[l]
      BY <1>4, <3>1
    <3>3. WipedBehind(q, q[l].out, l)
      BY <1>5, <3>1, <3>2 DEF SelfWiping
    <3>4. PICK v \in l + 1 .. Len(q) : Wipes(q[v], q[l].out) /\ \A m \in l + 1 .. v : ~q[m].first
      BY <3>3 DEF WipedBehind
    <3>5. /\ Len(p) + v \in j + 1 .. Len(r) /\ r[Len(p) + v] = q[v]
      BY <1>3, <1>4, <3>1, <3>4
    <3>6. ASSUME NEW m \in j + 1 .. Len(p) + v PROVE ~r[m].first
      <4>1. m - Len(p) \in l + 1 .. v /\ m - Len(p) \in 1 .. Len(q) /\ m = Len(p) + (m - Len(p))
        BY <1>3, <3>1, <3>4
      <4>2. r[m] = q[m - Len(p)]
        BY <1>4, <4>1
      <4> QED BY <3>4, <4>1, <4>2
    <3> QED BY <3>2, <3>4, <3>5, <3>6 DEF WipedBehind
  <2> QED BY <1>3, <1>4, <2>1, <2>2
<1> QED BY <1>4, <1>5 DEF SelfWiping, r

LEMMA PlainWiping ==
    ASSUME NEW p \in Seq(PlainCalls)
    PROVE  SelfWiping(p) /\ p \in Seq(QuietCalls)
<1>1. PlainCalls \subseteq QuietCalls /\ PlainCalls \subseteq Calls
  BY DEF PlainCalls, QuietCalls, StaticCalls
<1>2. \A j \in 1 .. Len(p) : p[j].out \notin Intermediate
  BY DEF PlainCalls
<1> QED BY <1>1, <1>2, SeqSubset DEF SelfWiping

LEMMA LastOfConcat ==
    ASSUME NEW S, NEW x \in S, NEW q \in Seq(S)
    PROVE  /\ q \o <<x>> \in Seq(S) /\ Len(q \o <<x>>) = Len(q) + 1
           /\ (q \o <<x>>)[Len(q) + 1] = x
           /\ \A j \in 1 .. Len(q) : (q \o <<x>>)[j] = q[j]
<1> DEFINE p == <<x>>
<1>1. p \in Seq(S) /\ Len(p) = 1 /\ p[1] = x
  OBVIOUS
<1> HIDE DEF p
<1>2. /\ q \o p \in Seq(S) /\ Len(q \o p) = Len(q) + Len(p)
      /\ \A j \in 1 .. Len(q) : (q \o p)[j] = q[j]
      /\ \A j \in 1 .. Len(p) : (q \o p)[Len(q) + j] = p[j]
  BY SMTT(60), <1>1, ConcatAt
<1> QED BY <1>1, <1>2 DEF p

(* A block: what follows its first call does not begin another. *)
Tailed(p, S) == p \in Seq(S) /\ Len(p) >= 1 /\ \A m \in 2 .. Len(p) : ~p[m].first

LEMMA TailedGrows ==
    ASSUME NEW S, NEW p, Tailed(p, S), NEW q \in Seq(S), \A m \in 1 .. Len(q) : ~q[m].first
    PROVE  Tailed(p \o q, S)
<1>1. p \in Seq(S)
  BY DEF Tailed
<1>2. /\ p \o q \in Seq(S) /\ Len(p \o q) = Len(p) + Len(q)
      /\ \A j \in 1 .. Len(p) : (p \o q)[j] = p[j]
      /\ \A j \in Len(p) + 1 .. Len(p \o q) :
            j - Len(p) \in 1 .. Len(q) /\ (p \o q)[j] = q[j - Len(p)]
  BY <1>1, ConcatAt
<1>3. Len(p) \in Nat /\ Len(q) \in Nat /\ Len(p) >= 1
  BY <1>1 DEF Tailed
<1>4. ASSUME NEW m \in 2 .. Len(p \o q) PROVE ~(p \o q)[m].first
  <2>1. CASE m <= Len(p)
    BY <1>2, <1>3, <2>1 DEF Tailed
  <2>2. CASE m > Len(p)
    BY <1>2, <1>3, <2>2
  <2> QED BY <1>3, <2>1, <2>2
<1> QED BY <1>2, <1>3, <1>4 DEF Tailed

(* A block that ends in a call which wipes all it has written *)
LEMMA BlockWiping ==
    ASSUME NEW S, S \subseteq QuietCalls, NEW p, Tailed(p, S),
           NEW wipe \in LaterCalls, wipe.out = "none",
           \A x \in S : x.out \in Intermediate => Wipes(wipe, x.out)
    PROVE  /\ SelfWiping(p \o <<wipe>>)
           /\ p \o <<wipe>> \in Seq(QuietCalls)
<1>0. LaterCalls \subseteq QuietCalls /\ QuietCalls \subseteq Calls
  BY DEF LaterCalls, QuietCalls, StaticCalls
<1>1. p \in Seq(S) /\ p \in Seq(QuietCalls) /\ wipe \in QuietCalls
  BY <1>0, SeqSubset DEF Tailed
<1> DEFINE r == p \o <<wipe>>
<1>3. /\ r \in Seq(QuietCalls) /\ Len(r) = Len(p) + 1 /\ r[Len(p) + 1] = wipe
      /\ \A j \in 1 .. Len(p) : r[j] = p[j]
  BY <1>1, LastOfConcat
<1> HIDE DEF r
<1>4. Len(p) \in Nat
  BY <1>1
<1>5. ASSUME NEW m \in 2 .. Len(r) PROVE ~r[m].first
  <2>1. CASE m = Len(p) + 1
    BY <1>3, <2>1 DEF LaterCalls
  <2>2. CASE m \in 2 .. Len(p)
    BY <1>3, <1>4, <2>2 DEF Tailed
  <2> QED BY <1>3, <1>4, <2>1, <2>2
<1>6. ASSUME NEW j \in 1 .. Len(r), r[j].out \in Intermediate
      PROVE  WipedBehind(r, r[j].out, j)
  <2>1. j # Len(r)
    BY <1>3, <1>6 DEF Intermediate
  <2>2. j \in 1 .. Len(p) /\ r[j] = p[j]
    BY <1>3, <1>4, <2>1
  <2>3. r[j] \in S
    BY <1>1, <2>2
  <2>4. Wipes(wipe, r[j].out)
    BY <1>6, <2>3
  <2>5. Len(r) \in j + 1 .. Len(r) /\ \A m \in j + 1 .. Len(r) : m \in 2 .. Len(r)
    BY <1>3, <1>4, <2>2
  <2> QED BY <1>3, <1>5, <2>4, <2>5 DEF WipedBehind
<1>7. r \in Seq(Calls)
  BY <1>0, <1>3
<1> QED BY <1>3, <1>6, <1>7 DEF SelfWiping, r

-----------------------------------------------------------------------------
(* The calls one by one.  What a call of wolfCrypt's other functions may write *)
Free == Buffers \ {"th", "thCert", "emptyHash", "zeros", "nil", "psk"}

MayWrite(op, out) ==
    \/ out \in Free
    \/ out \in {"th", "thCert"} /\ op \in {"hash", "hash truncated"}
    \/ out = "emptyHash" /\ op = "empty"

LEMMA EmptyIn == ASSUME NEW S PROVE <<>> \in Seq(S)
OBVIOUS

LEMMA PairIn == ASSUME NEW S, NEW a \in S, NEW b \in S PROVE <<a, b>> \in Seq(S)
OBVIOUS

LEMMA CallIn ==
    ASSUME NEW op \in Ops \ {"keyshare", "receive"}, NEW out \in Buffers,
           NEW from \in Seq(Buffers), NEW label \in CallLabels,
           op = "send" => label # "hello", MayWrite(op, out)
    PROVE  /\ Do(op, out, from, label) \in LaterCalls
           /\ Do(op, out, from, label).out = out
           /\ [Do(op, out, from, label) EXCEPT !.first = TRUE] \in QuietCalls
           /\ out \notin Intermediate =>
                 /\ Do(op, out, from, label) \in PlainCalls
                 /\ [Do(op, out, from, label) EXCEPT !.first = TRUE] \in PlainCalls
<1> DEFINE x == Do(op, out, from, label)
           y == [x EXCEPT !.first = TRUE]
<1>0. op \in Ops
  OBVIOUS
<1>1. x \in Calls /\ x.op = op /\ x.out = out /\ x.label = label /\ ~x.first
  BY <1>0, DoInCalls
<1> HIDE DEF x
<1>2. y \in Calls /\ y.op = op /\ y.out = out /\ y.label = label
  BY <1>1, FirstInCalls
<1> HIDE DEF y
<1>3. \A z \in Calls : (z.op = op /\ z.out = out /\ z.label = label) =>
         z \in QuietCalls /\ (z.out \notin Intermediate => z \in PlainCalls)
  BY DEF QuietCalls, PlainCalls, StaticCalls, Meets, Free, MayWrite
<1> QED BY <1>1, <1>2, <1>3 DEF LaterCalls, x, y

(* A call whose operands are the buffers a and b *)
LEMMA DeriveIn ==
    ASSUME NEW out \in Free, NEW a \in Buffers, NEW label \in CallLabels, NEW b \in Buffers
    PROVE  /\ Derive(out, a, label, b) \in LaterCalls /\ Derive(out, a, label, b).out = out
           /\ [Derive(out, a, label, b) EXCEPT !.first = TRUE] \in QuietCalls
           /\ out \notin Intermediate => Derive(out, a, label, b) \in PlainCalls
<1> DEFINE from == <<a, b>>
<1>1. from \in Seq(Buffers)
  BY PairIn
<1> HIDE DEF from
<1>2. "expand" \in Ops \ {"keyshare", "receive"} /\ "expand" # "send" /\ out \in Buffers
         /\ MayWrite("expand", out)
  BY DEF Ops, Free, MayWrite
<1>3. Derive(out, a, label, b) = Do("expand", out, from, label)
  BY DEF Derive, from
<1> QED BY <1>1, <1>2, <1>3, CallIn

LEMMA ExtractsIn ==
    ASSUME NEW out \in Free, NEW a \in Buffers, NEW b \in Buffers
    PROVE  /\ Extracts(out, a, b) \in LaterCalls /\ Extracts(out, a, b).out = out
           /\ out \notin Intermediate =>
                 /\ Extracts(out, a, b) \in PlainCalls
                 /\ [Extracts(out, a, b) EXCEPT !.first = TRUE] \in PlainCalls
<1> DEFINE from == <<a, b>>
<1>1. from \in Seq(Buffers)
  BY PairIn
<1> HIDE DEF from
<1>2. /\ "extract" \in Ops \ {"keyshare", "receive"} /\ "extract" # "send" /\ out \in Buffers
      /\ "none" \in CallLabels /\ MayWrite("extract", out)
  BY DEF Ops, Free, CallLabels, MayWrite
<1>3. Extracts(out, a, b) = Do("extract", out, from, "none")
  BY DEF Extracts, from
<1> QED BY <1>1, <1>2, <1>3, CallIn

LEMMA MacIn ==
    ASSUME NEW out \in Free \ Intermediate, NEW a \in Buffers, NEW b \in Buffers
    PROVE  [Mac(out, a, b) EXCEPT !.first = TRUE] \in PlainCalls
<1> DEFINE from == <<a, b>>
<1>1. from \in Seq(Buffers)
  BY PairIn
<1> HIDE DEF from
<1>2. /\ "mac" \in Ops \ {"keyshare", "receive"} /\ "mac" # "send" /\ out \in Buffers
      /\ "none" \in CallLabels /\ out \in Free /\ out \notin Intermediate
      /\ MayWrite("mac", out)
  BY DEF Ops, Free, CallLabels, MayWrite
<1>3. Mac(out, a, b) = Do("mac", out, from, "none")
  BY DEF Mac, from
<1> QED BY <1>1, <1>2, <1>3, CallIn

(* A call without operands *)
LEMMA BareIn ==
    ASSUME NEW op \in {"hash", "hash truncated", "update", "empty", "params", "establish", "ready"},
           NEW out \in Buffers, NEW label \in CallLabels,
           out \notin Intermediate, MayWrite(op, out)
    PROVE  /\ Do(op, out, <<>>, label) \in LaterCalls
           /\ Do(op, out, <<>>, label) \in PlainCalls
           /\ Do(op, out, <<>>, label).out = out
           /\ [Do(op, out, <<>>, label) EXCEPT !.first = TRUE] \in PlainCalls
<1> DEFINE from == <<>>
<1>1. from \in Seq(Buffers)
  BY EmptyIn
<1> HIDE DEF from
<1>2. op \in Ops \ {"keyshare", "receive"} /\ op # "send"
  BY DEF Ops
<1>4. /\ Do(op, out, from, label) \in LaterCalls
      /\ Do(op, out, from, label) \in PlainCalls
      /\ Do(op, out, from, label).out = out
      /\ [Do(op, out, from, label) EXCEPT !.first = TRUE] \in PlainCalls
  BY <1>1, <1>2, CallIn
<1> QED BY <1>4 DEF from

(* A call that reads the buffers of a list and writes out *)
LEMMA ListIn ==
    ASSUME NEW op \in {"finished", "verify", "wipe", "send"}, NEW out \in Free \ Intermediate,
           NEW from \in Seq(Buffers), NEW label \in CallLabels,
           op = "send" => label # "hello"
    PROVE  /\ Do(op, out, from, label) \in LaterCalls
           /\ Do(op, out, from, label).out = out
           /\ [Do(op, out, from, label) EXCEPT !.first = TRUE] \in PlainCalls
<1>1. /\ op \in Ops \ {"keyshare", "receive"} /\ out \in Free /\ out \in Buffers
      /\ MayWrite(op, out) /\ out \notin Intermediate
  BY DEF Ops, Free, MayWrite
<1> QED BY <1>1, CallIn

(* The two directions' keys *)
LEMMA KeysIn ==
    ASSUME NEW key \in Free \ Intermediate, NEW iv \in Free \ Intermediate,
           NEW secret \in Buffers, NEW S,
           \A x \in LaterCalls : x.out \notin Intermediate => x \in S
    PROVE  Keys(key, iv, secret) \in Seq(S)
             /\ \A m \in 1 .. Len(Keys(key, iv, secret)) : ~Keys(key, iv, secret)[m].first
<1>1. "nil" \in Buffers /\ "key" \in CallLabels /\ "iv" \in CallLabels
  BY DEF Buffers, CallLabels, Others
<1> DEFINE a == Derive(key, secret, "key", "nil")
           b == Derive(iv, secret, "iv", "nil")
<1>2. a \in LaterCalls /\ a.out = key
  BY <1>1, DeriveIn
<1>3. b \in LaterCalls /\ b.out = iv
  BY <1>1, DeriveIn
<1>4. Keys(key, iv, secret) = <<a, b>>
  BY DEF Keys
<1> HIDE DEF a, b
<1>5. a \in S /\ b \in S /\ ~a.first /\ ~b.first
  BY <1>2, <1>3 DEF LaterCalls
<1> QED BY <1>4, <1>5

LEMMA NamesFree ==
    /\ {"early", "binderKey", "hs", "cHs", "sHs", "cKey", "cIv", "sKey", "sIv", "binder", "mac",
        "recvMac", "fin", "cAppSecret", "sAppSecret", "sess.cKey", "sess.cIv", "sess.sKey",
        "sess.sIv", "none"} \subseteq Free \ Intermediate
    /\ {"derived", "master"} \subseteq Free
    /\ Free \subseteq Buffers
    /\ {"th", "thCert", "emptyHash", "zeros", "nil", "psk", "ecdhe", "none"} \subseteq Buffers
BY DEF Free, Intermediate, Buffers, Locals, Others, SessionFields

(* Both blocks that compute an intermediate secret wipe it behind themselves. *)
LEMMA DeriveHsKeysWiping ==
    SelfWiping(DeriveHsKeys) /\ DeriveHsKeys \in Seq(QuietCalls)
<1> DEFINE S == {x \in QuietCalls : x.out \in Intermediate => x.out = "derived"}
           a1 == Derive("derived", "early", "derived", "emptyHash")
           a2 == Extracts("hs", "derived", "ecdhe")
           a3 == Derive("cHs", "hs", "c hs traffic", "th")
           a4 == Derive("sHs", "hs", "s hs traffic", "th")
           k1 == Keys("cKey", "cIv", "cHs")
           k2 == Keys("sKey", "sIv", "sHs")
           wipe == Wipe(<<"derived">>)
<1>0. {"derived", "c hs traffic", "s hs traffic", "none"} \subseteq CallLabels
  BY DEF CallLabels
<1>1. a1 \in LaterCalls /\ a1.out = "derived"
  <2>1. "derived" \in Free /\ "early" \in Buffers /\ "emptyHash" \in Buffers /\ "derived" \in CallLabels
    BY <1>0, NamesFree
  <2> QED BY <2>1, DeriveIn
<1>2. a2 \in LaterCalls /\ a2.out = "hs"
  BY NamesFree, ExtractsIn
<1>3. a3 \in LaterCalls /\ a3.out = "cHs"
  <2>1. "cHs" \in Free /\ "hs" \in Buffers /\ "th" \in Buffers /\ "c hs traffic" \in CallLabels
    BY <1>0, NamesFree
  <2> QED BY <2>1, DeriveIn
<1>4. a4 \in LaterCalls /\ a4.out = "sHs"
  <2>1. "sHs" \in Free /\ "hs" \in Buffers /\ "th" \in Buffers /\ "s hs traffic" \in CallLabels
    BY <1>0, NamesFree
  <2> QED BY <2>1, DeriveIn
<1>5. \A x \in LaterCalls : x.out \notin Intermediate => x \in S
  BY DEF LaterCalls
<1>6. k1 \in Seq(S) /\ \A m \in 1 .. Len(k1) : ~k1[m].first
  <2> HIDE DEF S
  <2> QED BY <1>5, NamesFree, KeysIn
<1>7. k2 \in Seq(S) /\ \A m \in 1 .. Len(k2) : ~k2[m].first
  <2> HIDE DEF S
  <2> QED BY <1>5, NamesFree, KeysIn
<1>8. /\ wipe \in LaterCalls /\ wipe.out = "none"
      /\ wipe.op = "wipe" /\ wipe.from = <<"derived">>
  <2> DEFINE from == <<"derived">>
  <2>1. from \in Seq(Buffers)
    BY NamesFree
  <2> HIDE DEF from
  <2>2. wipe = Do("wipe", "none", from, "none")
    BY DEF Wipe, from
  <2>2a. /\ "none" \in Free \ Intermediate /\ "none" \in CallLabels
         /\ "wipe" \in {"finished", "verify", "wipe", "send"} /\ "wipe" # "send"
    BY <1>0, NamesFree
  <2>2b. /\ Do("wipe", "none", from, "none") \in LaterCalls
         /\ Do("wipe", "none", from, "none").out = "none"
    BY <2>1, <2>2a, ListIn
  <2>3. wipe \in LaterCalls /\ wipe.out = "none"
    BY <2>2, <2>2b
  <2>4. wipe.op = "wipe" /\ wipe.from = <<"derived">>
    BY DEF Wipe, Do
  <2> QED BY <2>3, <2>4
<1>9. DeriveHsKeys = ((<<a1, a2, a3, a4>> \o k1) \o k2) \o <<wipe>>
  BY DEF DeriveHsKeys
<1> HIDE DEF a1, a2, a3, a4, k1, k2, wipe
<1>10. Tailed(<<a1, a2, a3, a4>>, S)
  <2>1. a1 \in S /\ a2 \in S /\ a3 \in S /\ a4 \in S
    BY <1>1, <1>2, <1>3, <1>4 DEF LaterCalls, Intermediate
  <2>2. ~a1.first /\ ~a2.first /\ ~a3.first /\ ~a4.first
    BY <1>1, <1>2, <1>3, <1>4 DEF LaterCalls
  <2> HIDE DEF S
  <2> DEFINE p == <<a1, a2, a3, a4>>
  <2>3. /\ p \in Seq(S) /\ Len(p) = 4
        /\ p[1] = a1 /\ p[2] = a2 /\ p[3] = a3 /\ p[4] = a4
    BY <2>1
  <2> HIDE DEF p
  <2>4. Tailed(p, S)
    BY <2>2, <2>3 DEF Tailed
  <2> QED BY <2>4 DEF p
<1>11. S \subseteq QuietCalls /\ \A x \in S : x.out \in Intermediate => Wipes(wipe, x.out)
  <2>1. Wipes(wipe, "derived")
    BY <1>8 DEF Wipes
  <2> QED BY <2>1
<1> HIDE DEF S
<1>12. Tailed((<<a1, a2, a3, a4>> \o k1) \o k2, S)
  BY <1>6, <1>7, <1>10, TailedGrows
<1> QED BY <1>8, <1>9, <1>11, <1>12, BlockWiping

LEMMA SessionEstablishWiping ==
    SelfWiping(SessionEstablish) /\ SessionEstablish \in Seq(QuietCalls)
<1> DEFINE a1 == Derive("derived", "hs", "derived", "emptyHash")
           f1 == [a1 EXCEPT !.first = TRUE]
           a2 == Extracts("master", "derived", "zeros")
           a3 == Derive("cAppSecret", "master", "c ap traffic", "th")
           a4 == Derive("sAppSecret", "master", "s ap traffic", "th")
           k1 == Keys("sess.cKey", "sess.cIv", "cAppSecret")
           k2 == Keys("sess.sKey", "sess.sIv", "sAppSecret")
           e == Do("establish", "none", <<>>, "none")
           wipe == Wipe(<<"derived", "master">>)
<1>0. {"derived", "c ap traffic", "s ap traffic", "none"} \subseteq CallLabels
  BY DEF CallLabels
<1>1. f1 \in QuietCalls
  BY <1>0, NamesFree, DeriveIn
<1>2. a2 \in LaterCalls
  BY NamesFree, ExtractsIn
<1>3. a3 \in LaterCalls
  BY <1>0, NamesFree, DeriveIn
<1>4. a4 \in LaterCalls
  BY <1>0, NamesFree, DeriveIn
<1>5. \A x \in LaterCalls : x.out \notin Intermediate => x \in QuietCalls
  BY DEF LaterCalls
<1>6. k1 \in Seq(QuietCalls) /\ \A m \in 1 .. Len(k1) : ~k1[m].first
  BY <1>5, NamesFree, KeysIn
<1>7. k2 \in Seq(QuietCalls) /\ \A m \in 1 .. Len(k2) : ~k2[m].first
  BY <1>5, NamesFree, KeysIn
<1>8. e \in LaterCalls
  <2>1. MayWrite("establish", "none") /\ "none" \notin Intermediate /\ "none" \in Buffers
    BY NamesFree DEF MayWrite, Intermediate
  <2> QED BY <1>0, <2>1, BareIn
<1>9. /\ wipe \in LaterCalls /\ wipe.out = "none"
      /\ wipe.op = "wipe" /\ wipe.from = <<"derived", "master">>
  <2> DEFINE from == <<"derived", "master">>
  <2>1. from \in Seq(Buffers)
    BY NamesFree, PairIn
  <2> HIDE DEF from
  <2>2. wipe = Do("wipe", "none", from, "none")
    BY DEF Wipe, from
  <2>2a. /\ "none" \in Free \ Intermediate /\ "none" \in CallLabels
         /\ "wipe" \in {"finished", "verify", "wipe", "send"} /\ "wipe" # "send"
    BY <1>0, NamesFree
  <2>2b. /\ Do("wipe", "none", from, "none") \in LaterCalls
         /\ Do("wipe", "none", from, "none").out = "none"
    BY <2>1, <2>2a, ListIn
  <2>3. wipe \in LaterCalls /\ wipe.out = "none"
    BY <2>2, <2>2b
  <2>4. wipe.op = "wipe" /\ wipe.from = <<"derived", "master">>
    BY DEF Wipe, Do
  <2> QED BY <2>3, <2>4
<1>10. SessionEstablish = (((<<f1>> \o <<a2, a3, a4>>) \o k1) \o k2) \o <<e, wipe>>
  <2>1. SessionEstablish = <<f1>> \o <<a2, a3, a4>> \o k1 \o k2 \o <<e, wipe>>
    BY DEF SessionEstablish, First
  <2> QED BY <2>1
<1> HIDE DEF f1, a1, a2, a3, a4, k1, k2, e, wipe
<1>11. \A x \in LaterCalls : x \in QuietCalls /\ ~x.first
  BY DEF LaterCalls
<1>12. Tailed(<<f1>>, QuietCalls)
  BY <1>1 DEF Tailed
<1>13. /\ <<a2, a3, a4>> \in Seq(QuietCalls)
       /\ \A m \in 1 .. Len(<<a2, a3, a4>>) : ~<<a2, a3, a4>>[m].first
  <2>1. /\ a2 \in QuietCalls /\ a3 \in QuietCalls /\ a4 \in QuietCalls
        /\ ~a2.first /\ ~a3.first /\ ~a4.first
    BY <1>2, <1>3, <1>4, <1>11
  <2> DEFINE p == <<a2, a3, a4>>
  <2>2. /\ p \in Seq(QuietCalls) /\ Len(p) = 3 /\ p[1] = a2 /\ p[2] = a3 /\ p[3] = a4
    BY <2>1
  <2> HIDE DEF p
  <2>3. p \in Seq(QuietCalls) /\ \A m \in 1 .. Len(p) : ~p[m].first
    BY <2>1, <2>2
  <2> QED BY <2>3 DEF p
<1>14. <<e>> \in Seq(QuietCalls) /\ \A m \in 1 .. Len(<<e>>) : ~<<e>>[m].first
  BY <1>8, <1>11
<1> DEFINE p == ((<<f1>> \o <<a2, a3, a4>>) \o k1) \o k2
<1>15. Tailed(p, QuietCalls)
  BY <1>6, <1>7, <1>12, <1>13, TailedGrows
<1> HIDE DEF p
<1>16. Tailed(p \o <<e>>, QuietCalls)
  BY <1>14, <1>15, TailedGrows
<1>17. SessionEstablish = (p \o <<e>>) \o <<wipe>>
  <2>1. wipe \in QuietCalls
    BY <1>9, <1>11
  <2>2. p \in Seq(QuietCalls) /\ <<wipe>> \in Seq(QuietCalls)
    BY <1>15, <2>1 DEF Tailed
  <2>3. (p \o <<e>>) \o <<wipe>> = p \o (<<e>> \o <<wipe>>)
    BY <1>14, <2>2, ConcatAssociative
  <2>4. <<e>> \o <<wipe>> = <<e, wipe>>
    BY <1>8, <1>11, <2>1, FirstSeqs
  <2> QED BY <1>10, <2>3, <2>4 DEF p
<1>18. \A b \in Intermediate : Wipes(wipe, b)
  BY <1>9 DEF Wipes, Intermediate
<1> QED BY <1>9, <1>16, <1>17, <1>18, BlockWiping
-----------------------------------------------------------------------------
(* Calls that write no intermediate secret owe no wipe. *)
LEMMA DryWiping ==
    ASSUME NEW p \in Seq(StaticCalls), \A j \in 1 .. Len(p) : p[j].out \notin Intermediate
    PROVE  SelfWiping(p)
<1>1. StaticCalls \subseteq Calls
  BY DEF StaticCalls
<1> QED BY <1>1, SeqSubset DEF SelfWiping

LEMMA BegunWiping ==
    ASSUME NEW p, Begun(p)
    PROVE  SelfWiping(p \o <<KsCall("Shared")>>)
<1>1. KsCall("Shared") \in StaticCalls /\ KsCall("Shared").out \notin Intermediate
  BY KsCallStatic DEF Intermediate
<1>2. KsCall("Init").out \notin Intermediate
  BY KsCallStatic DEF Intermediate
<1>3. p \in Seq(StaticCalls) /\ Len(p) \in Nat
  BY DEF Begun
<1> DEFINE r == p \o <<KsCall("Shared")>>
<1>4. /\ r \in Seq(StaticCalls) /\ Len(r) = Len(p) + 1
      /\ r[Len(p) + 1] = KsCall("Shared") /\ \A j \in 1 .. Len(p) : r[j] = p[j]
  BY <1>1, <1>3, LastOfConcat
<1> HIDE DEF r
<1>5. ASSUME NEW j \in 1 .. Len(r) PROVE r[j].out \notin Intermediate
  <2>1. CASE j = Len(p) + 1
    BY <1>1, <1>4, <2>1
  <2>2. CASE j \in 1 .. Len(p)
    <3>1. p[1].out \notin Intermediate /\ p[2].out \notin Intermediate
      BY <1>2 DEF Begun, PlainCalls
    <3>2. j \in 3 .. Len(p) => p[j].out \notin Intermediate
      BY DEF Begun, NoKsCalls
    <3> QED BY <1>3, <1>4, <2>2, <3>1, <3>2
  <2> QED BY <1>3, <1>4, <2>1, <2>2
<1> QED BY <1>4, <1>5, DryWiping DEF r

LEMMA OnePiece ==
    ASSUME NEW S, NEW x, [x EXCEPT !.first = TRUE] \in S
    PROVE  First(x) \in Seq(S)
BY DEF First

(* The calls of the programs that stand alone *)
LEMMA BarePieces ==
    /\ \A m \in {"CH", "SH", "EE", "CERT", "CV", "FIN"} : First(Update(m)) \in Seq(PlainCalls)
    /\ First(GetHash("th")) \in Seq(PlainCalls) /\ First(GetHash("thCert")) \in Seq(PlainCalls)
    /\ First(Do("hash truncated", "th", <<>>, "none")) \in Seq(PlainCalls)
    /\ First(Do("params", "none", <<>>, "none")) \in Seq(PlainCalls)
    /\ First(Do("empty", "emptyHash", <<>>, "none")) \in Seq(PlainCalls)
    /\ <<Do("ready", "none", <<>>, "none")>> \in Seq(PlainCalls)
<1>0. /\ {"none", "CH", "SH", "EE", "CERT", "CV", "FIN"} \subseteq CallLabels
      /\ {"none", "th", "thCert", "emptyHash"} \subseteq Buffers \ Intermediate
      /\ \A op : MayWrite(op, "none")
      /\ MayWrite("hash", "th") /\ MayWrite("hash", "thCert") /\ MayWrite("hash truncated", "th")
      /\ MayWrite("empty", "emptyHash")
  BY NamesFree DEF CallLabels, Intermediate, MayWrite
<1>1. ASSUME NEW m \in {"CH", "SH", "EE", "CERT", "CV", "FIN"}
      PROVE  First(Update(m)) \in Seq(PlainCalls)
  <2>0. m \in CallLabels
    BY <1>0
  <2>1. [Do("update", "none", <<>>, m) EXCEPT !.first = TRUE] \in PlainCalls
    BY <1>0, <2>0, BareIn
  <2> QED BY <2>1, OnePiece DEF Update
<1>2. [Do("hash", "th", <<>>, "none") EXCEPT !.first = TRUE] \in PlainCalls
  BY <1>0, BareIn
<1>3. [Do("hash", "thCert", <<>>, "none") EXCEPT !.first = TRUE] \in PlainCalls
  BY <1>0, BareIn
<1>4. [Do("hash truncated", "th", <<>>, "none") EXCEPT !.first = TRUE] \in PlainCalls
  BY <1>0, BareIn
<1>5. [Do("params", "none", <<>>, "none") EXCEPT !.first = TRUE] \in PlainCalls
  BY <1>0, BareIn
<1>6. [Do("empty", "emptyHash", <<>>, "none") EXCEPT !.first = TRUE] \in PlainCalls
  BY <1>0, BareIn
<1>7. Do("ready", "none", <<>>, "none") \in PlainCalls
  BY <1>0, BareIn
<1>8. First(GetHash("th")) \in Seq(PlainCalls) /\ First(GetHash("thCert")) \in Seq(PlainCalls)
  BY <1>2, <1>3, OnePiece DEF GetHash
<1>9. <<Do("ready", "none", <<>>, "none")>> \in Seq(PlainCalls)
  <2> DEFINE x == Do("ready", "none", <<>>, "none")
  <2>1. x \in PlainCalls
    BY <1>7
  <2> HIDE DEF x
  <2>2. <<x>> \in Seq(PlainCalls)
    BY <2>1
  <2> QED BY <2>2 DEF x
<1> QED BY <1>1, <1>4, <1>5, <1>6, <1>8, <1>9, OnePiece

LEMMA KeyedPieces ==
    /\ First(Mac("mac", "sHs", "th")) \in Seq(PlainCalls)
    /\ First(Mac("mac", "cHs", "th")) \in Seq(PlainCalls)
    /\ First(Mac("binder", "binderKey", "th")) \in Seq(PlainCalls)
    /\ First(Extracts("early", "nil", "psk")) \in Seq(PlainCalls)
    /\ <<Extracts("early", "nil", "zeros")>> \in Seq(PlainCalls)
    /\ <<Derive("binderKey", "early", "ext binder", "emptyHash")>> \in Seq(PlainCalls)
<1>0. /\ "ext binder" \in CallLabels
      /\ {"th", "nil", "zeros", "psk", "emptyHash", "early", "sHs", "cHs", "binderKey"} \subseteq Buffers
      /\ {"mac", "binder", "early", "binderKey"} \subseteq Free \ Intermediate
      /\ Free \ Intermediate \subseteq Free
  BY NamesFree DEF CallLabels
<1>1. [Mac("mac", "sHs", "th") EXCEPT !.first = TRUE] \in PlainCalls
  BY <1>0, MacIn
<1>2. [Mac("mac", "cHs", "th") EXCEPT !.first = TRUE] \in PlainCalls
  BY <1>0, MacIn
<1>3. [Mac("binder", "binderKey", "th") EXCEPT !.first = TRUE] \in PlainCalls
  BY <1>0, MacIn
<1>4. [Extracts("early", "nil", "psk") EXCEPT !.first = TRUE] \in PlainCalls
  BY <1>0, ExtractsIn
<1>5. Extracts("early", "nil", "zeros") \in PlainCalls
  BY <1>0, ExtractsIn
<1>6. Derive("binderKey", "early", "ext binder", "emptyHash") \in PlainCalls
  BY <1>0, DeriveIn
<1>7. \A x \in PlainCalls : <<x>> \in Seq(PlainCalls)
  OBVIOUS
<1> QED BY <1>1, <1>2, <1>3, <1>4, <1>5, <1>6, <1>7, OnePiece

LEMMA ListPieces ==
    /\ First(Do("finished", "recvMac", <<"mac">>, "none")) \in Seq(PlainCalls)
    /\ First(Do("verify", "none", <<"thCert">>, "none")) \in Seq(PlainCalls)
    /\ First(Do("send", "fin", <<"mac", "cKey", "cIv">>, "finished")) \in Seq(PlainCalls)
<1> DEFINE f1 == <<"mac">>
           f2 == <<"thCert">>
           f3 == <<"mac", "cKey", "cIv">>
<1>0. /\ {"none", "finished"} \subseteq CallLabels
      /\ {"recvMac", "none", "fin"} \subseteq Free \ Intermediate
  BY NamesFree DEF CallLabels
<1>1. f1 \in Seq(Buffers) /\ f2 \in Seq(Buffers)
  BY NamesFree
<1>2. f3 \in Seq(Buffers)
  <2>1. "mac" \in Buffers /\ "cKey" \in Buffers /\ "cIv" \in Buffers
    BY NamesFree
  <2> QED BY <2>1
<1> HIDE DEF f1, f2, f3
<1>3. [Do("finished", "recvMac", f1, "none") EXCEPT !.first = TRUE] \in PlainCalls
  BY <1>0, <1>1, ListIn
<1>4. [Do("verify", "none", f2, "none") EXCEPT !.first = TRUE] \in PlainCalls
  BY <1>0, <1>1, ListIn
<1>5. "send" \in {"finished", "verify", "wipe", "send"} /\ "finished" # "hello"
  OBVIOUS
<1>6. [Do("send", "fin", f3, "finished") EXCEPT !.first = TRUE] \in PlainCalls
  BY <1>0, <1>2, <1>5, ListIn
<1>7. /\ First(Do("finished", "recvMac", f1, "none")) \in Seq(PlainCalls)
      /\ First(Do("verify", "none", f2, "none")) \in Seq(PlainCalls)
      /\ First(Do("send", "fin", f3, "finished")) \in Seq(PlainCalls)
  BY <1>3, <1>4, <1>6, OnePiece
<1> QED BY <1>7 DEF f1, f2, f3

(* The two calls in which the sides meet *)
LEMMA MeetingPieces ==
    /\ First(Do("receive", "none", <<>>, "none")) \in Seq(NoKsCalls)
    /\ First(Do("send", "none", <<>>, "hello")) \in Seq(NoKsCalls)
    /\ First(Do("send", "none", <<"binder">>, "hello")) \in Seq(NoKsCalls)
<1>1. ASSUME NEW op \in {"receive", "send"}, NEW from \in Seq(Buffers), NEW label \in CallLabels
      PROVE  First(Do(op, "none", from, label)) \in Seq(NoKsCalls)
  <2> DEFINE x == Do(op, "none", from, label)
             y == [x EXCEPT !.first = TRUE]
  <2>0. op \in Ops /\ "none" \in Buffers
    BY NamesFree DEF Ops
  <2>1. x \in Calls /\ x.op = op /\ x.out = "none"
    BY <2>0, DoInCalls
  <2> HIDE DEF x
  <2>2. y \in Calls /\ y.op = op /\ y.out = "none" /\ y.first
    BY <2>1, FirstInCalls
  <2> HIDE DEF y
  <2>3. y \in NoKsCalls
    BY <2>2 DEF NoKsCalls, StaticCalls, Intermediate
  <2>4. First(x) \in Seq(NoKsCalls)
    BY <2>3, OnePiece DEF y
  <2> QED BY <2>4 DEF x
<1>2. "none" \in CallLabels /\ "hello" \in CallLabels
  BY DEF CallLabels
<1> DEFINE e == <<>>
           b == <<"binder">>
<1>3. e \in Seq(Buffers) /\ b \in Seq(Buffers)
  BY NamesFree
<1> HIDE DEF e, b
<1>4. /\ First(Do("receive", "none", e, "none")) \in Seq(NoKsCalls)
      /\ First(Do("send", "none", e, "hello")) \in Seq(NoKsCalls)
      /\ First(Do("send", "none", b, "hello")) \in Seq(NoKsCalls)
  BY <1>1, <1>2, <1>3
<1> QED BY <1>4 DEF e, b

LEMMA ConcatIn ==
    ASSUME NEW S, NEW p \in Seq(S), NEW q \in Seq(S)
    PROVE  p \o q \in Seq(S)
OBVIOUS

LEMMA PlainIsNoKs == Seq(PlainCalls) \subseteq Seq(NoKsCalls)
<1>1. PlainCalls \subseteq NoKsCalls
  BY DEF PlainCalls, NoKsCalls, QuietCalls
<1> QED BY <1>1, SeqSubset

(* Both hellos *)
LEMMA KeyGenerationBegun == Begun(KeyGeneration)
<1> DEFINE x == [Do("empty", "emptyHash", <<>>, "none") EXCEPT !.first = TRUE]
<1>1. x \in PlainCalls
  BY NamesFree, BareIn DEF CallLabels, Intermediate, MayWrite
<1>2. KeyGeneration = <<x>> \o <<KsCall("Init")>>
  BY DEF KeyGeneration, First, KeyShareFn, KsCall
<1> HIDE DEF x
<1>3. x \in StaticCalls /\ KsCall("Init") \in StaticCalls
  BY <1>1, KsCallStatic DEF PlainCalls, QuietCalls
<1>4. KeyGeneration = <<x, KsCall("Init")>>
  BY <1>2, <1>3, FirstSeqs
<1> QED BY <1>1, <1>3, <1>4 DEF Begun

LEMMA HelloBegun == Begun(PskHello) /\ Begun(CertHello)
<1>1. Begun(PskHello)
  <2>1. Begun(KeyGeneration \o First(Extracts("early", "nil", "psk")))
    BY KeyGenerationBegun, KeyedPieces, PlainIsNoKs, BegunGrows
  <2>2. Begun(KeyGeneration \o First(Extracts("early", "nil", "psk"))
                \o <<Derive("binderKey", "early", "ext binder", "emptyHash")>>)
    BY <2>1, KeyedPieces, PlainIsNoKs, BegunGrows
  <2> DEFINE p == KeyGeneration \o First(Extracts("early", "nil", "psk"))
                    \o <<Derive("binderKey", "early", "ext binder", "emptyHash")>>
  <2>3. PskHello = p \o First(Do("hash truncated", "th", <<>>, "none"))
                      \o First(Mac("binder", "binderKey", "th"))
                      \o First(Update("CH")) \o First(Do("send", "none", <<"binder">>, "hello"))
    BY DEF PskHello
  <2> HIDE DEF p
  <2>4. Begun(p \o First(Do("hash truncated", "th", <<>>, "none")))
    BY <2>2, BarePieces, PlainIsNoKs, BegunGrows DEF p
  <2>5. Begun(p \o First(Do("hash truncated", "th", <<>>, "none"))
                \o First(Mac("binder", "binderKey", "th")))
    BY <2>4, KeyedPieces, PlainIsNoKs, BegunGrows
  <2>6. Begun(p \o First(Do("hash truncated", "th", <<>>, "none"))
                \o First(Mac("binder", "binderKey", "th")) \o First(Update("CH")))
    BY <2>5, BarePieces, PlainIsNoKs, BegunGrows
  <2> QED BY <2>3, <2>6, MeetingPieces, BegunGrows
<1>2. Begun(CertHello)
  <2>1. Begun(KeyGeneration \o First(Update("CH")))
    BY KeyGenerationBegun, BarePieces, PlainIsNoKs, BegunGrows
  <2> QED BY <2>1, MeetingPieces, BegunGrows DEF CertHello
<1> QED BY <1>1, <1>2

(* A program that computes the secret in its a-th call and wipes what it owes *)
Sound(p, a) == Shape(p, a) /\ SelfWiping(p)

LEMMA SoundGrows ==
    ASSUME NEW p, NEW a, Sound(p, a), NEW q \in Seq(QuietCalls), SelfWiping(q)
    PROVE  Sound(p \o q, a)
BY ShapeGrows, WipingGrows DEF Sound

LEMMA PlainSound ==
    ASSUME NEW p, NEW a, Sound(p, a), NEW q \in Seq(PlainCalls)
    PROVE  Sound(p \o q, a)
BY PlainWiping, SoundGrows

LEMMA ServerHelloSound ==
    ASSUME NEW p, Begun(p)
    PROVE  \E a : Sound(p \o ServerHello, a)
<1> DEFINE f1 == First(Do("receive", "none", <<>>, "none"))
           f2 == First(Update("SH"))
           f3 == First(Do("params", "none", <<>>, "none"))
           s == KeyShareFn("Shared")
           h == First(GetHash("th"))
           x == IF path = "psk" THEN DeriveHsKeys
                ELSE <<Extracts("early", "nil", "zeros")>> \o DeriveHsKeys
                       \o <<Do("ready", "none", <<>>, "none")>>
           f == (f1 \o f2) \o f3
<1>1. ServerHello = ((f \o s) \o h) \o x
  BY DEF ServerHello
<1>2. f1 \in Seq(NoKsCalls) /\ f2 \in Seq(NoKsCalls) /\ f3 \in Seq(NoKsCalls)
  BY MeetingPieces, BarePieces, PlainIsNoKs
<1>3. f \in Seq(NoKsCalls)
  <2> HIDE DEF f1, f2, f3
  <2>1. f1 \o f2 \in Seq(NoKsCalls)
    BY <1>2, ConcatIn
  <2> QED BY <1>2, <2>1, ConcatIn
<1>4. s = <<KsCall("Shared")>>
  BY DEF KeyShareFn, First, KsCall
<1>5. h \in Seq(PlainCalls)
  BY BarePieces
<1>6. SelfWiping(x) /\ x \in Seq(QuietCalls)
  <2>1. CASE path = "psk"
    BY <2>1, DeriveHsKeysWiping
  <2>2. CASE path # "psk"
    <3> DEFINE e == <<Extracts("early", "nil", "zeros")>>
               r == <<Do("ready", "none", <<>>, "none")>>
    <3>1. e \in Seq(PlainCalls) /\ r \in Seq(PlainCalls)
      BY KeyedPieces, BarePieces
    <3>2. x = (e \o DeriveHsKeys) \o r
      BY <2>2
    <3> HIDE DEF e, r
    <3>3. /\ SelfWiping(e) /\ SelfWiping(r)
          /\ e \in Seq(QuietCalls) /\ r \in Seq(QuietCalls)
      BY <3>1, PlainWiping
    <3>4. SelfWiping(e \o DeriveHsKeys) /\ e \o DeriveHsKeys \in Seq(QuietCalls)
      BY <3>3, DeriveHsKeysWiping, WipingGrows, ConcatIn
    <3>5. SelfWiping((e \o DeriveHsKeys) \o r) /\ (e \o DeriveHsKeys) \o r \in Seq(QuietCalls)
      BY <3>3, <3>4, WipingGrows, ConcatIn
    <3> QED BY <3>2, <3>5
  <2> QED BY <2>1, <2>2
<1> HIDE DEF f, s, h, x
<1>7. /\ p \in Seq(StaticCalls) /\ f \in Seq(StaticCalls) /\ s \in Seq(StaticCalls)
      /\ h \in Seq(StaticCalls) /\ x \in Seq(StaticCalls)
  <2>1. p \in Seq(StaticCalls)
    BY DEF Begun
  <2>2. NoKsCalls \subseteq StaticCalls /\ QuietCalls \subseteq StaticCalls
           /\ PlainCalls \subseteq StaticCalls
    BY DEF NoKsCalls, QuietCalls, PlainCalls
  <2>3. f \in Seq(StaticCalls)
    BY <1>3, <2>2, SeqSubset
  <2>4. h \in Seq(StaticCalls)
    BY <1>5, <2>2, SeqSubset
  <2>5. x \in Seq(StaticCalls)
    BY <1>6, <2>2, SeqSubset
  <2>6. s \in Seq(StaticCalls)
    BY <1>4, KsCallStatic
  <2> QED BY <2>1, <2>3, <2>4, <2>5, <2>6
<1>8. p \o ServerHello = (((p \o f) \o s) \o h) \o x
  <2>0. \A a, b, d \in Seq(StaticCalls) : a \o (b \o d) = (a \o b) \o d
    BY SMTT(60), ConcatAssociative
  <2>1. f \o s \in Seq(StaticCalls) /\ (f \o s) \o h \in Seq(StaticCalls)
    BY <1>7, ConcatIn
  <2>2. p \o (((f \o s) \o h) \o x) = (p \o ((f \o s) \o h)) \o x
    <3> DEFINE g == (f \o s) \o h
    <3>1. g \in Seq(StaticCalls)
      BY <2>1
    <3> HIDE DEF g
    <3>2. p \o (g \o x) = (p \o g) \o x
      BY SMTT(60), <1>7, <2>0, <3>1
    <3> QED BY <3>2 DEF g
  <2>3. p \o ((f \o s) \o h) = (p \o (f \o s)) \o h
    BY SMTT(60), <1>7, <2>1, <2>0
  <2>4. p \o (f \o s) = (p \o f) \o s
    BY SMTT(60), <1>7, <2>0
  <2> QED BY <1>1, <2>2, <2>3, <2>4
<1>9. Sound((p \o f) \o s, Len(p \o f) + 1)
  <2>1. Begun(p \o f)
    BY <1>3, BegunGrows
  <2> QED BY <1>4, <2>1, BegunShape, BegunWiping DEF Sound
<1>10. Sound((((p \o f) \o s) \o h) \o x, Len(p \o f) + 1)
  <2>1. Sound(((p \o f) \o s) \o h, Len(p \o f) + 1)
    BY <1>5, <1>9, PlainSound
  <2> QED BY <1>6, <2>1, SoundGrows
<1> QED BY <1>8, <1>10

LEMMA FlightsPlain ==
    /\ PskFlight \in Seq(PlainCalls) /\ CertFlight \in Seq(PlainCalls)
    /\ ClientFinished \in Seq(PlainCalls)
<1> DEFINE ee == First(Update("EE"))
           cert == First(Update("CERT"))
           cv == First(Update("CV"))
           fin == First(Update("FIN"))
           th == First(GetHash("th"))
           thCert == First(GetHash("thCert"))
           sMac == First(Mac("mac", "sHs", "th"))
           cMac == First(Mac("mac", "cHs", "th"))
           finished == First(Do("finished", "recvMac", <<"mac">>, "none"))
           verify == First(Do("verify", "none", <<"thCert">>, "none"))
           send == First(Do("send", "fin", <<"mac", "cKey", "cIv">>, "finished"))
<1>1. /\ ee \in Seq(PlainCalls) /\ cert \in Seq(PlainCalls) /\ cv \in Seq(PlainCalls)
      /\ fin \in Seq(PlainCalls) /\ th \in Seq(PlainCalls) /\ thCert \in Seq(PlainCalls)
  BY BarePieces
<1>2. sMac \in Seq(PlainCalls) /\ cMac \in Seq(PlainCalls)
  BY KeyedPieces
<1>3. /\ finished \in Seq(PlainCalls) /\ verify \in Seq(PlainCalls) /\ send \in Seq(PlainCalls)
  BY ListPieces
<1>4. PskFlight = (((ee \o th) \o sMac) \o finished) \o fin
  BY DEF PskFlight
<1>5. CertFlight = ((((((((ee \o cert) \o thCert) \o cv) \o verify) \o th) \o fin) \o sMac)
                      \o finished)
  BY DEF CertFlight
<1>6. ClientFinished = (th \o cMac) \o send
  BY DEF ClientFinished
<1> HIDE DEF ee, cert, cv, fin, th, thCert, sMac, cMac, finished, verify, send
<1>7. PskFlight \in Seq(PlainCalls)
  <2>1. ee \o th \in Seq(PlainCalls)
    BY <1>1, ConcatIn
  <2>2. (ee \o th) \o sMac \in Seq(PlainCalls)
    BY <1>2, <2>1, ConcatIn
  <2>3. ((ee \o th) \o sMac) \o finished \in Seq(PlainCalls)
    BY <1>3, <2>2, ConcatIn
  <2> QED BY <1>1, <1>4, <2>3, ConcatIn
<1>8. CertFlight \in Seq(PlainCalls)
  <2>1. ee \o cert \in Seq(PlainCalls)
    BY <1>1, ConcatIn
  <2>2. (ee \o cert) \o thCert \in Seq(PlainCalls)
    BY <1>1, <2>1, ConcatIn
  <2>3. ((ee \o cert) \o thCert) \o cv \in Seq(PlainCalls)
    BY <1>1, <2>2, ConcatIn
  <2> DEFINE a == ((ee \o cert) \o thCert) \o cv
  <2>4. CertFlight = ((((a \o verify) \o th) \o fin) \o sMac) \o finished
    BY <1>5
  <2> HIDE DEF a
  <2>5. a \o verify \in Seq(PlainCalls)
    BY <1>3, <2>3, ConcatIn DEF a
  <2>6. (a \o verify) \o th \in Seq(PlainCalls)
    BY <1>1, <2>5, ConcatIn
  <2>7. ((a \o verify) \o th) \o fin \in Seq(PlainCalls)
    BY <1>1, <2>6, ConcatIn
  <2>8. (((a \o verify) \o th) \o fin) \o sMac \in Seq(PlainCalls)
    BY <1>2, <2>7, ConcatIn
  <2> QED BY <1>3, <2>4, <2>8, ConcatIn
<1>9. ClientFinished \in Seq(PlainCalls)
  <2>1. th \o cMac \in Seq(PlainCalls)
    BY <1>1, <1>2, ConcatIn
  <2> QED BY <1>3, <1>6, <2>1, ConcatIn
<1> QED BY <1>7, <1>8, <1>9

(* Both drivers' programs *)
LEMMA ProgramSound == \E a : Sound(Program, a)
<1> DEFINE p == IF path = "psk" THEN PskHello ELSE CertHello
           q == IF path = "psk" THEN PskFlight ELSE CertFlight
<1>1. Program = (((p \o ServerHello) \o q) \o ClientFinished) \o SessionEstablish
  BY DEF Program
<1>2. Begun(p) /\ q \in Seq(PlainCalls)
  BY HelloBegun, FlightsPlain
<1> HIDE DEF p, q
<1>3. PICK a : Sound(p \o ServerHello, a)
  BY <1>2, ServerHelloSound
<1>4. Sound((p \o ServerHello) \o q, a)
  BY <1>2, <1>3, PlainSound
<1>5. Sound(((p \o ServerHello) \o q) \o ClientFinished, a)
  BY <1>4, FlightsPlain, PlainSound
<1>6. Sound((((p \o ServerHello) \o q) \o ClientFinished) \o SessionEstablish, a)
  BY <1>5, SessionEstablishWiping, SoundGrows
<1> QED BY <1>1, <1>6

-----------------------------------------------------------------------------
(***************************************************************************)
(* The driver.  The client's stage and the calls made go together; a       *)
(* buffer that is never cleared never holds a secret, and one that holds   *)
(* an intermediate secret is wiped before the next block begins.           *)
(***************************************************************************)
SharedAt == CHOOSE a : Sound(Program, a)

Cleared == {"th", "thCert", "zeros", "nil", "emptyHash"}

WipeAhead(b) ==
    \E w \in i + 1 .. Len(Program) :
        Wipes(Program[w], b) /\ \A m \in i + 1 .. w : ~Program[m].first

StageOK ==
    /\ pc \in {"run", "done"} /\ (pc = "done" <=> fn["client"] = "Done")
    /\ i \in 0 .. Len(Program)
    /\ i < 2 => fn["client"] \in {"Start", "Done"}
    /\ i \in 2 .. SharedAt - 1 =>
          fn["client"] \in {"Init", "Generate", "Send", "Recv", "Got", "Free", "Done"}
    /\ i >= SharedAt => fn["client"] \in {"Shared", "Use", "Free", "Done"}

BufOK ==
    /\ DOMAIN buf = Locals \cup Others \cup SessionFields
    /\ \A b \in Cleared : ~Depends(buf[b])
    /\ \A b \in Intermediate : Depends(buf[b]) => WipeAhead(b)

DriverInv == KsInv /\ StageOK /\ BufOK /\ SecretsWiped

LEMMA ProgramFacts ==
    /\ Program \in Seq(StaticCalls) /\ SharedAt \in 3 .. Len(Program) /\ Len(Program) \in Nat
    /\ Program[1] \in QuietCalls /\ Program[2] = KsCall("Init")
    /\ Program[SharedAt] = KsCall("Shared")
    /\ \A j \in 3 .. SharedAt - 1 : Program[j] \in NoKsCalls
    /\ \A j \in SharedAt + 1 .. Len(Program) : Program[j] \in QuietCalls
    /\ \A j \in 1 .. Len(Program) :
          Program[j].out \in Intermediate => WipedBehind(Program, Program[j].out, j)
<1>1. Sound(Program, SharedAt)
  BY ProgramSound DEF SharedAt
<1> QED BY <1>1 DEF Sound, Shape, SelfWiping

LEMMA SameProgram ==
    ASSUME path' = path
    PROVE  Program' = Program /\ SharedAt' = SharedAt
<1>1. Program' = Program
  BY DEF Program, ServerHello
<1> QED BY <1>1 DEF SharedAt

(* The call that is next *)
LEMMA NextCall ==
    ASSUME i \in 0 .. Len(Program), i < Len(Program)
    PROVE  /\ c \in StaticCalls
           /\ i = 0 => c \in QuietCalls
           /\ i = 1 => c = KsCall("Init")
           /\ i \in 2 .. SharedAt - 2 => c \in NoKsCalls
           /\ i = SharedAt - 1 => c = KsCall("Shared")
           /\ i >= SharedAt => c \in QuietCalls
           /\ c.out \in Intermediate => WipedBehind(Program, c.out, i + 1)
<1>1. i + 1 \in 1 .. Len(Program) /\ i \in Nat /\ SharedAt \in Nat /\ Len(Program) \in Nat
  BY ProgramFacts
<1>2. c \in StaticCalls
  BY <1>1, ProgramFacts, ElementOfSeq DEF c
<1>3. i \in 2 .. SharedAt - 2 => c \in NoKsCalls
  <2>1. i \in 2 .. SharedAt - 2 => i + 1 \in 3 .. SharedAt - 1
    BY <1>1
  <2> QED BY <2>1, ProgramFacts DEF c
<1>4. i >= SharedAt => c \in QuietCalls
  <2>1. i >= SharedAt => i + 1 \in SharedAt + 1 .. Len(Program)
    BY <1>1
  <2> QED BY <2>1, ProgramFacts DEF c
<1>5. (i = 0 => i + 1 = 1) /\ (i = 1 => i + 1 = 2) /\ (i = SharedAt - 1 => i + 1 = SharedAt)
  BY <1>1
<1> QED BY <1>1, <1>2, <1>3, <1>4, <1>5, ProgramFacts DEF c

(* A code changes but nothing else of the keys. *)
LEMMA CodeChanges ==
    ASSUME KsInv, UNCHANGED <<build, fn, k, group, st, inited, ss, share>>,
           DOMAIN ret' = Sides, ret'["server"] = ret["server"],
           fn["client"] = "Free" => ret'["client"] # "SUCCESS"
    PROVE  KsInv'
<1> USE DEF KsInv
<1>1. \A s \in Sides : Running(s)' = Running(s)
  BY DEF Running, Refused, Sides, KsTypeOK, ClientStages
<1>2. KsTypeOK'
  BY DEF KsTypeOK
<1>3. HalvesOK'
  BY SameBuild DEF HalvesOK
<1> QED BY <1>1, <1>2, <1>3, KeysUntouched

(* The client goes on to a later stage, and the server may begin. *)
ServerGoesOn ==
    \/ fn'["server"] = fn["server"] /\ share'["client"] = share["client"]
    \/ fn'["server"] = "Respond" /\ ~share'["client"].short

LEMMA StageMoves ==
    ASSUME KsInv, UNCHANGED <<build, k, group, st, inited, ss>>, ~Running("client"),
           DOMAIN ret' = Sides, ret'["server"] = ret["server"], DOMAIN share' = Sides,
           DOMAIN fn' = Sides, ServerGoesOn,
           NEW f \in {"Init", "Recv", "Got", "Shared"}, fn' = [s \in Sides |-> fn'[s]],
           fn'["client"] = f,
           f = "Init" => fn["client"] = "Start",
           f # "Init" => fn["client"] \in {"Send", "Recv", "Got"}
    PROVE  KsInv'
<1> USE DEF KsInv
<1>0. fn'["server"] \in ServerStages
  BY DEF ServerGoesOn, ServerStages, KsTypeOK
<1>1. KsTypeOK'
  <2>1. f \in ClientStages
    BY DEF ClientStages
  <2>2. \A s \in Sides : fn'[s] \in ClientStages \cup ServerStages
    BY <1>0, <2>1 DEF Sides
  <2>3. fn' \in [Sides -> ClientStages \cup ServerStages]
    BY <2>2
  <2> QED BY <1>0, <2>1, <2>3 DEF KsTypeOK
<1>2. k["client"] = 0 /\ inited \cap LocalsOf("client") = {}
  BY DEF ScriptOK, ObjectsOK, Sides
<1>3. /\ Running("server") => Running("server")' /\ fn'["server"] = fn["server"]
      /\ Running("server")' /\ ~Running("server") => fn'["server"] = "Respond"
  <2>1. Running("server") => fn["server"] = "Respond"
    BY WhoRuns DEF Sides
  <2>2. CASE fn'["server"] = fn["server"] /\ share'["client"] = share["client"]
    <3>1. Running("server")' = Running("server")
      BY <2>2 DEF Running, Refused
    <3> QED BY <2>2, <3>1
  <2>3. CASE fn'["server"] = "Respond" /\ ~share'["client"].short
    <3>1. Running("server")'
      BY <2>3 DEF Running, Refused
    <3> QED BY <2>1, <2>3, <3>1
  <2> QED BY <2>2, <2>3 DEF ServerGoesOn
<1>4. ObjectsOK'
  <2>1. \A s \in Sides : inited \cap LocalsOf(s) # {} => Running(s)' /\ k[s] > 0
    BY <1>2, <1>3 DEF ObjectsOK, Sides
  <2> QED BY <2>1, SameBuild DEF ObjectsOK
<1>5. ScriptOK'
  <2>1. Needed \subseteq inited \/ f = "Init"
    BY DEF ScriptOK
  <2>2. Found(f) \subseteq inited
    BY <2>1 DEF Found
  <2>3. Len(Script(f)) \in Nat \/ f \notin Functions4
    BY ScriptShape DEF KsTypeOK
  <2>4. f \in Functions4 => f \in {"Init", "Shared"}
    BY DEF Functions4
  <2>5. /\ Running("client")' => /\ k'["client"] <= Len(Script(fn["client"])')
                                 /\ Found(fn["client"])' \subseteq inited'
                                 /\ \A m \in 1 .. k'["client"] :
                                       Script(fn["client"])'[m].op = "init" =>
                                          Script(fn["client"])'[m].obj \in inited'
        /\ ~Running("client")' => k'["client"] = 0
    <3>1. Script(fn["client"])' = Script(f) /\ Found(fn["client"])' = Found(f)
      BY SameBuild
    <3>2. Running("client")' => f \in Functions4
      BY DEF Running, Functions4
    <3>3. k'["client"] = 0 /\ inited' = inited
      BY <1>2
    <3> QED BY <2>2, <2>3, <3>1, <3>2, <3>3
  <2>6. /\ Running("server")' => /\ k'["server"] <= Len(Script(fn["server"])')
                                 /\ Found(fn["server"])' \subseteq inited'
                                 /\ \A m \in 1 .. k'["server"] :
                                       Script(fn["server"])'[m].op = "init" =>
                                          Script(fn["server"])'[m].obj \in inited'
        /\ ~Running("server")' => k'["server"] = 0
    <3>1. CASE Running("server")
      <4>1. Script(fn["server"])' = Script(fn["server"])
               /\ Found(fn["server"])' = Found(fn["server"])
        BY <1>3, <3>1, SameBuild
      <4> QED BY <1>3, <3>1, <4>1 DEF ScriptOK, Sides
    <3>2. CASE ~Running("server")
      <4>1. k'["server"] = 0
        BY <3>2 DEF ScriptOK, Sides
      <4>2. CASE Running("server")'
        <5>1. fn'["server"] = "Respond"
          BY <1>3, <3>2, <4>2
        <5>2. Script(fn["server"])' = Script("Respond") /\ Found(fn["server"])' = Found("Respond")
          BY <5>1, SameBuild
        <5>3. Len(Script("Respond")) \in Nat /\ Found("Respond") = {}
          BY ScriptShape DEF Functions4, KsTypeOK, Found
        <5> QED BY <4>1, <4>2, <5>2, <5>3
      <4> QED BY <4>1, <4>2
    <3> QED BY <3>1, <3>2
  <2>7. f \in {"Send", "Recv", "Got"} => Needed \subseteq inited
    BY <2>1
  <2> QED BY <2>5, <2>6, <2>7, SameBuild DEF ScriptOK, Sides
<1>6. HalvesOK'
  <2>1. ss["client"] = NoSecret
    BY DEF HalvesOK
  <2>2. DOMAIN NoSecret = {"kem", "x"}
    BY DEF NoSecret
  <2>3. fn'["server"] = "Done" => fn["server"] = "Done"
    BY DEF ServerGoesOn
  <2> QED BY <1>2, <2>1, <2>2, <2>3, SameBuild DEF HalvesOK
<1> QED BY <1>1, <1>4, <1>5, <1>6

(* A call that is made and is not of the key share's leaves the stage alone or
   is one in which the sides meet; what a failed call leads to was there. *)
LEMMA IdleStage ==
    ASSUME DriverInv, Guarded
    PROVE  /\ pc = "run" /\ ~Running("client") /\ fn["client"] # "Done"
           /\ i \in 0 .. Len(Program) /\ i < Len(Program) /\ i \in Nat /\ SharedAt \in Nat
           /\ i < 2 => fn["client"] = "Start"
           /\ i \in 2 .. SharedAt - 1 => fn["client"] \in {"Send", "Recv", "Got", "Free"}
           /\ i >= SharedAt => fn["client"] \in {"Use", "Free"}
           /\ (fn["client"] = "Free" /\ c.first) => FALSE
<1>1. Idle /\ i < Len(Program) /\ (c.first => ret["client"] = "SUCCESS")
  BY DEF Guarded
<1>2. pc = "run" /\ fn["client"] # "Done" /\ fn["client"] \notin {"Init", "Generate", "Shared"}
  BY <1>1 DEF Idle, Running, Refused, DriverInv, StageOK, KsInv, KsTypeOK
<1>3. fn["client"] = "Free" => ret["client"] # "SUCCESS"
  BY DEF DriverInv, KsInv, ScriptOK
<1> QED BY <1>1, <1>2, <1>3, ProgramFacts DEF DriverInv, StageOK, Idle

LEMMA CodeReturned ==
    ASSUME KsInv, NEW code, Returns(code)
    PROVE  /\ DOMAIN ret' = Sides /\ ret'["server"] = ret["server"]
           /\ fn["client"] = "Free" => ret'["client"] # "SUCCESS"
<1>1. ret' = [ret EXCEPT !["client"] = Combine(code)] /\ DOMAIN ret = Sides
  BY DEF Returns, KsInv, KsTypeOK
<1>2. fn["client"] = "Free" => ret["client"] # "SUCCESS"
  BY DEF KsInv, ScriptOK
<1> QED BY <1>1, <1>2 DEF Combine, Sides

LEMMA SucceedsKeys ==
    ASSUME DriverInv, StepSucceeds
    PROVE  /\ KsInv' /\ fn'["client"] # "Done"
           /\ i' < 2 => fn'["client"] = "Start"
           /\ i' \in 2 .. SharedAt - 1 =>
                 fn'["client"] \in {"Init", "Generate", "Send", "Recv", "Got", "Free"}
           /\ i' >= SharedAt => fn'["client"] \in {"Shared", "Use", "Free"}
<1>0. /\ Guarded /\ ShareMoves /\ Returns(Mismatch) /\ i' = i + 1
      /\ UNCHANGED <<build, k, group, st, inited, ss>> /\ KsInv
  BY DEF StepSucceeds, DriverInv
<1>1. /\ pc = "run" /\ ~Running("client") /\ fn["client"] # "Done"
      /\ i \in 0 .. Len(Program) /\ i < Len(Program) /\ i \in Nat /\ SharedAt \in Nat
      /\ i < 2 => fn["client"] = "Start"
      /\ i \in 2 .. SharedAt - 1 => fn["client"] \in {"Send", "Recv", "Got", "Free"}
      /\ i >= SharedAt => fn["client"] \in {"Use", "Free"}
      /\ (fn["client"] = "Free" /\ c.first) => FALSE
  BY <1>0, IdleStage
<1>2. /\ DOMAIN ret' = Sides /\ ret'["server"] = ret["server"]
      /\ fn["client"] = "Free" => ret'["client"] # "SUCCESS"
  BY <1>0, CodeReturned
<1>3. SharedAt >= 3
  BY ProgramFacts
<1>4. DOMAIN fn = Sides /\ DOMAIN share = Sides /\ Sides = {"client", "server"}
  BY <1>0 DEF KsInv, KsTypeOK, Sides
<1>5. /\ i = 0 => c \in QuietCalls
      /\ i = 1 => c = KsCall("Init")
      /\ i \in 2 .. SharedAt - 2 => c \in NoKsCalls
      /\ i = SharedAt - 1 => c = KsCall("Shared")
      /\ i >= SharedAt => c \in QuietCalls
  BY <1>1, NextCall
<1>6. CASE c.op # "keyshare" /\ ~Meets(c)
  <2>1. UNCHANGED <<fn, share>>
    BY <1>0, <1>6 DEF ShareMoves, Meets
  <2>2. i # 1 /\ i # SharedAt - 1
    BY <1>5, <1>6, KsCallStatic
  <2>3. KsInv'
    BY <1>0, <1>2, <2>1, CodeChanges
  <2> QED BY <1>0, <1>1, <1>3, <2>1, <2>2, <2>3
<1>7. CASE c.op # "keyshare" /\ Meets(c)
  <2>1. c \notin QuietCalls
    BY <1>7 DEF QuietCalls
  <2>2. i \in 2 .. SharedAt - 2
    BY <1>1, <1>3, <1>5, <1>7, <2>1, KsCallStatic
  <2>3. c.first /\ fn["client"] \in {"Send", "Recv", "Got"}
    <3>1. c \in NoKsCalls
      BY <1>5, <2>2
    <3>2. c.first
      BY <1>7, <3>1 DEF NoKsCalls
    <3>3. i \in 2 .. SharedAt - 1
      BY <1>1, <2>2
    <3> QED BY <1>1, <3>2, <3>3
  <2>4. /\ DOMAIN share' = Sides /\ DOMAIN fn' = Sides /\ fn' = [s \in Sides |-> fn'[s]]
        /\ fn'["client"] \in {"Recv", "Got"} /\ ServerGoesOn
    <3>1. CASE c.op = "send" /\ c.label = "hello"
      <4>1. /\ fn' = [client |-> "Recv", server |-> "Respond"]
            /\ share' = [share EXCEPT !["client"] = Genuine]
        BY <1>0, <3>1 DEF ShareMoves
      <4>2. share'["client"] = Genuine /\ ~Genuine.short
        BY <1>4, <4>1 DEF Genuine, Unsent
      <4> QED BY <1>4, <4>1, <4>2 DEF ServerGoesOn
    <3>2. CASE c.op = "receive"
      <4>1. fn' = [fn EXCEPT !["client"] = "Got"] /\ share' = share
        BY <1>0, <3>2 DEF ShareMoves
      <4> QED BY <1>4, <4>1 DEF ServerGoesOn
    <3> QED BY <1>7, <3>1, <3>2 DEF Meets
  <2>5. KsInv'
    BY <1>0, <1>1, <1>2, <2>3, <2>4, StageMoves
  <2> QED BY <1>0, <1>1, <2>2, <2>4, <2>5
<1>8. CASE c.op = "keyshare"
  <2>1. c \notin QuietCalls /\ c \notin NoKsCalls
    BY <1>8 DEF QuietCalls, NoKsCalls
  <2>2. i = 1 \/ i = SharedAt - 1
    <3>1. i # 0 /\ i \notin 2 .. SharedAt - 2 /\ ~(i >= SharedAt)
      BY <1>5, <2>1
    <3> QED BY <1>1, <1>3, <3>1
  <2>3. fn' = [fn EXCEPT !["client"] = c.label] /\ share' = share
    BY <1>0, <1>8 DEF ShareMoves
  <2>4. /\ DOMAIN share' = Sides /\ DOMAIN fn' = Sides /\ fn' = [s \in Sides |-> fn'[s]]
        /\ fn'["client"] = c.label /\ ServerGoesOn
    BY <1>4, <2>3 DEF ServerGoesOn
  <2>5. CASE i = 1
    <3>1. c.label = "Init" /\ fn["client"] = "Start"
      BY <1>1, <1>5, <2>5, KsCallStatic
    <3>2. KsInv'
      BY <1>0, <1>1, <1>2, <2>4, <3>1, StageMoves
    <3> QED BY <1>0, <1>1, <1>3, <2>4, <2>5, <3>1, <3>2
  <2>6. CASE i = SharedAt - 1
    <3>1. c.label = "Shared" /\ c.first
      BY <1>5, <2>6, KsCallStatic
    <3>2. fn["client"] \in {"Send", "Recv", "Got"}
      <4>1. i \in 2 .. SharedAt - 1
        BY <1>1, <1>3, <2>6
      <4> QED BY <1>1, <3>1, <4>1
    <3>3. KsInv'
      BY <1>0, <1>1, <1>2, <2>4, <3>1, <3>2, StageMoves
    <3>4. i' = SharedAt
      BY <1>0, <1>1, <2>6
    <3> QED BY <1>1, <1>3, <2>4, <3>1, <3>3, <3>4
  <2> QED BY <2>2, <2>5, <2>6
<1> QED BY <1>6, <1>7, <1>8

(* The buffers after a call that is not a wipe: the one it writes holds what no
   secret goes into, or has its wipe ahead. *)
LEMMA WrittenBuffers ==
    ASSUME DriverInv, Guarded, c.op # "wipe", i' = i + 1, path' = path,
           NEW v, buf' = buf \/ (c.out # "none" /\ buf' = [buf EXCEPT ![c.out] = v]),
           c.out \in Cleared => ~Depends(v)
    PROVE  BufOK'
<1>1. i \in Nat /\ Len(Program) \in Nat /\ i < Len(Program) /\ i \in 0 .. Len(Program)
  BY IdleStage, ProgramFacts
<1>2. Program' = Program
  BY SameProgram
<1>3. DOMAIN buf' = DOMAIN buf /\ \A b \in DOMAIN buf : b # c.out => buf'[b] = buf[b]
  OBVIOUS
<1>4. Cleared \cup Intermediate \subseteq DOMAIN buf
  BY DEF DriverInv, BufOK, Cleared, Intermediate, Others
<1>5. \A b \in DOMAIN buf : buf'[b] = buf[b] \/ (b = c.out /\ buf'[b] = v)
  OBVIOUS
<1>6. ASSUME NEW b \in Cleared PROVE ~Depends(buf'[b])
  <2>1. ~Depends(buf[b])
    BY DEF DriverInv, BufOK
  <2> QED BY <1>4, <1>5, <2>1
<1>7. ASSUME NEW b \in Intermediate, Depends(buf'[b]) PROVE WipeAhead(b)'
  <2>1. CASE b = c.out
    <3>1. WipedBehind(Program, b, i + 1)
      BY <1>1, <1>7, <2>1, NextCall
    <3> QED BY <1>2, <3>1 DEF WipedBehind, WipeAhead
  <2>2. CASE b # c.out
    <3>1. buf'[b] = buf[b]
      BY <1>3, <1>4, <2>2
    <3>2. WipeAhead(b)
      BY <1>7, <3>1 DEF DriverInv, BufOK
    <3>3. PICK w \in i + 1 .. Len(Program) :
             Wipes(Program[w], b) /\ \A m \in i + 1 .. w : ~Program[m].first
      BY <3>2 DEF WipeAhead
    <3>4. w # i + 1
      BY <3>3 DEF Wipes, c
    <3>5. w \in (i + 1) + 1 .. Len(Program) /\ \A m \in (i + 1) + 1 .. w : m \in i + 1 .. w
      BY <1>1, <3>3, <3>4
    <3> QED BY <1>2, <3>3, <3>5 DEF WipeAhead
  <2> QED BY <2>1, <2>2
<1> QED BY <1>3, <1>6, <1>7 DEF BufOK, DriverInv

(* A buffer that is never cleared is only written a hash. *)
LEMMA ClearedValue ==
    ASSUME DriverInv, Guarded, c.out \in Cleared
    PROVE  ~Depends(Value)
<1>1. c \in StaticCalls
  BY IdleStage, NextCall
<1>2. c.op \in {"hash", "hash truncated", "empty"}
  BY <1>1 DEF StaticCalls, Cleared
<1>3. CASE c.op = "hash"
  <2>1. Value = Hash(tc)
    BY <1>3 DEF Value
  <2> QED BY <2>1 DEF Hash, Term, Depends
<1>4. CASE c.op = "hash truncated"
  <2>1. Value = Hash(<<Truncated>>)
    BY <1>4 DEF Value
  <2> QED BY <2>1 DEF Hash, Term, Depends
<1>5. CASE c.op = "empty"
  <2>1. Value = EmptyHash
    BY <1>5 DEF Value
  <2> QED BY <2>1 DEF EmptyHash, Public, Term, Depends
<1> QED BY <1>2, <1>3, <1>4, <1>5

LEMMA SucceedsInv ==
    ASSUME DriverInv, StepSucceeds
    PROVE  DriverInv'
<1>0. /\ Guarded /\ c.op # "wipe" /\ i' = i + 1 /\ UNCHANGED <<path, pc>>
      /\ buf' = IF c.out = "none" THEN buf ELSE [buf EXCEPT ![c.out] = Value]
  BY DEF StepSucceeds
<1>1. BufOK'
  BY <1>0, ClearedValue, WrittenBuffers
<1>2. pc = "run" /\ i \in 0 .. Len(Program) /\ i < Len(Program)
  BY <1>0, IdleStage
<1>3. StageOK'
  BY <1>0, <1>2, SucceedsKeys, SameProgram, ProgramFacts DEF StageOK
<1>4. SecretsWiped'
  BY <1>0, <1>2 DEF SecretsWiped
<1> QED BY <1>1, <1>3, <1>4, SucceedsKeys DEF DriverInv

LEMMA FailsInv ==
    ASSUME DriverInv, StepFails
    PROVE  DriverInv'
<1>0. /\ Guarded /\ c.op \notin {"wipe", "keyshare"} /\ i' = i + 1 /\ UNCHANGED <<path, pc, fn>>
      /\ UNCHANGED <<build, k, group, st, inited, ss, share>> /\ Returns("E_CRYPTO")
      /\ buf' \in {buf, IF c.out = "none" THEN buf ELSE [buf EXCEPT ![c.out] = Junk]}
  BY DEF StepFails
<1>1. BufOK'
  <2>1. ~Depends(Junk)
    BY DEF Junk, Public, Term, Depends
  <2>2. buf' = buf \/ (c.out # "none" /\ buf' = [buf EXCEPT ![c.out] = Junk])
    BY <1>0
  <2> QED BY <1>0, <2>1, <2>2, WrittenBuffers
<1>2. KsInv'
  BY <1>0, CodeReturned, CodeChanges DEF DriverInv
<1>3. /\ pc = "run" /\ i \in 0 .. Len(Program) /\ i < Len(Program) /\ i \in Nat
      /\ SharedAt \in Nat /\ fn["client"] # "Done"
      /\ i < 2 => fn["client"] = "Start"
      /\ i \in 2 .. SharedAt - 1 => fn["client"] \in {"Send", "Recv", "Got", "Free"}
      /\ i >= SharedAt => fn["client"] \in {"Use", "Free"}
  BY <1>0, IdleStage
<1>4. i # 1 /\ i # SharedAt - 1
  BY <1>0, <1>3, NextCall, KsCallStatic
<1>5. SharedAt >= 3 /\ Len(Program) \in Nat
  BY ProgramFacts
<1>6. StageOK'
  BY <1>0, <1>3, <1>4, <1>5, SameProgram DEF StageOK
<1>7. SecretsWiped'
  BY <1>0, <1>3 DEF SecretsWiped
<1> QED BY <1>1, <1>2, <1>6, <1>7 DEF DriverInv

LEMMA ZeroNoSecret == ~Depends(Zeros)
BY DEF Zeros, Public, Term, Depends

LEMMA WipeInv ==
    ASSUME DriverInv, WipeCall
    PROVE  DriverInv'
<1> DEFINE S == {c.from[n] : n \in DOMAIN c.from}
<1>0. /\ Guarded /\ c.op = "wipe" /\ buf' = ForceZero(S) /\ i' = i + 1
      /\ UNCHANGED <<ksVars, path, tc, pc, wire, flags, keysReady>>
  BY DEF WipeCall
<1>1. KsInv'
  <2>1. KsInv
    BY DEF DriverInv
  <2>2. UNCHANGED <<build, fn, k, ret, group, st, inited, ss, share>>
    BY <1>0 DEF ksVars
  <2> QED BY <2>1, <2>2, CodeChanges DEF KsInv, KsTypeOK, ScriptOK
<1>2. /\ pc = "run" /\ i \in 0 .. Len(Program) /\ i < Len(Program) /\ i \in Nat
      /\ SharedAt \in Nat /\ fn["client"] # "Done"
      /\ i < 2 => fn["client"] = "Start"
      /\ i \in 2 .. SharedAt - 1 => fn["client"] \in {"Send", "Recv", "Got", "Free"}
      /\ i >= SharedAt => fn["client"] \in {"Use", "Free"}
  BY <1>0, IdleStage
<1>3. i # 1 /\ i # SharedAt - 1
  BY <1>0, <1>2, NextCall, KsCallStatic
<1>4. SharedAt >= 3 /\ Len(Program) \in Nat /\ Program' = Program
  BY <1>0, ProgramFacts, SameProgram
<1>5. StageOK'
  <2>1. fn' = fn
    BY <1>0 DEF ksVars
  <2> QED BY <1>0, <1>2, <1>3, <1>4, <2>1, SameProgram DEF StageOK
<1>6. \A b \in DOMAIN buf : buf'[b] = IF b \in S THEN Zeros ELSE buf[b]
  BY <1>0 DEF ForceZero
<1>7. Cleared \cup Intermediate \subseteq DOMAIN buf /\ DOMAIN buf' = DOMAIN buf
  BY <1>0 DEF DriverInv, BufOK, Cleared, Intermediate, Others, ForceZero
<1>8. BufOK'
  <2>1. ASSUME NEW b \in Cleared PROVE ~Depends(buf'[b])
    BY <1>6, <1>7, ZeroNoSecret DEF DriverInv, BufOK
  <2>2. ASSUME NEW b \in Intermediate, Depends(buf'[b]) PROVE WipeAhead(b)'
    <3>1. b \notin S /\ buf'[b] = buf[b]
      BY <1>6, <1>7, <2>2, ZeroNoSecret
    <3>2. WipeAhead(b)
      BY <2>2, <3>1 DEF DriverInv, BufOK
    <3>3. PICK w \in i + 1 .. Len(Program) :
             Wipes(Program[w], b) /\ \A m \in i + 1 .. w : ~Program[m].first
      BY <3>2 DEF WipeAhead
    <3>4. w # i + 1
      BY <3>1, <3>3 DEF Wipes, c
    <3>5. w \in (i + 1) + 1 .. Len(Program) /\ \A m \in (i + 1) + 1 .. w : m \in i + 1 .. w
      BY <1>2, <1>4, <3>3, <3>4
    <3> QED BY <1>0, <1>4, <3>3, <3>5 DEF WipeAhead
  <2> QED BY <1>7, <2>1, <2>2 DEF BufOK, DriverInv
<1>9. SecretsWiped'
  BY <1>0, <1>2 DEF SecretsWiped
<1> QED BY <1>1, <1>5, <1>8, <1>9 DEF DriverInv

(* The way out: what is to be freed is initialised, or cleared and never set
   up; and a wipe that is still ahead would not have let the driver stop. *)
LEMMA EndsKeys ==
    ASSUME DriverInv, Ends
    PROVE  KsInv' /\ fn'["client"] = "Done"
<1> USE DEF KsInv
<1> DEFINE freed == KsToFree
<1>0. /\ Idle /\ KsInv /\ st' = FreeAll(freed) /\ inited' = inited \ freed
      /\ ss' = [ss EXCEPT !["client"] = NoSecret] /\ fn' = [fn EXCEPT !["client"] = "Done"]
      /\ UNCHANGED <<build, k, ret, group, share>>
  BY DEF Ends, DriverInv
<1>1. ~Running("client") /\ fn["client"] # "Done" /\ fn["client"] # "Init"
  <2>1. ~Running("client") /\ pc = "run"
    BY <1>0 DEF Idle
  <2>2. fn["client"] # "Init"
    BY <2>1 DEF Running, Refused
  <2> QED BY <2>1, <2>2 DEF DriverInv, StageOK
<1>2. /\ freed \subseteq KsObjects /\ inited \cap KsObjects \subseteq freed
      /\ \A o \in freed : st[o] \in {"init", "zero"}
  <2>1. CASE ~group
    <3>1. freed = {} /\ inited \cap KsObjects = {}
      BY <1>0, <1>1, <2>1 DEF KsToFree, ObjectsOK
    <3> QED BY <3>1
  <2>2. CASE group /\ Hybrid
    <3>1. freed = inited \cap {"kem", "x"}
      BY <2>2 DEF KsToFree
    <3>2. inited \cap KsObjects \subseteq {"kem", "x"}
      BY <1>0, <2>2 DEF ObjectsOK, Needed
    <3>3. {"kem", "x"} \subseteq KsObjects /\ KsObjects \subseteq Objects
      BY DEF KsObjects, Objects
    <3>4. \A o \in Objects : o \in inited => st[o] = "init"
      BY <1>0 DEF ObjectsOK
    <3> HIDE DEF freed
    <3> QED BY <3>1, <3>2, <3>3, <3>4
  <2>3. CASE group /\ ~Hybrid
    <3>1. freed = {"own"}
      BY <2>3 DEF KsToFree
    <3>2. inited \cap KsObjects \subseteq {"own"}
      BY <1>0, <2>3 DEF ObjectsOK, Needed
    <3>3. "own" \in KsObjects /\ "own" \in Objects
      BY DEF KsObjects, Objects
    <3>4. st["own"] \in {"init", "zero"}
      BY <1>0, <1>1, <3>3 DEF ObjectsOK
    <3> HIDE DEF freed
    <3> QED BY <3>1, <3>2, <3>3, <3>4
  <2> QED BY <2>1, <2>2, <2>3
<1> HIDE DEF freed
<1>3. st' = [o \in Objects |-> IF o \in freed THEN "freed" ELSE st[o]]
  BY <1>0, <1>2 DEF FreeAll, FreeKey
<1>4. fn'["client"] = "Done" /\ fn'["server"] = fn["server"] /\ fn' = [s \in Sides |-> fn'[s]]
  BY <1>0 DEF KsTypeOK, Sides
<1>5. Running("server")' = Running("server") /\ ~Running("client")'
  BY <1>0, <1>4 DEF Running, Refused
<1>6. inited \cap LocalsOf("client") = {} /\ k["client"] = 0
  BY <1>0, <1>1 DEF ObjectsOK, ScriptOK, Sides
<1>7. /\ inited' \cap KsObjects = {} /\ inited' \cap LocalsOf("client") = {}
      /\ inited' \cap LocalsOf("server") = inited \cap LocalsOf("server")
  BY <1>0, <1>2, <1>6, NamesApart DEF Sides
<1>8. KsTypeOK'
  <2>1. DOMAIN ss' = Sides
    BY <1>0 DEF KsTypeOK
  <2>2. fn' \in [Sides -> ClientStages \cup ServerStages]
    BY <1>0, <1>4 DEF KsTypeOK, ClientStages, Sides
  <2> QED BY <1>0, <1>3, <1>4, <2>1, <2>2 DEF KsTypeOK, ClientStages
<1>9. ObjectsOK'
  <2>1. \A o \in Objects : st'[o] # "corrupt" /\ (st'[o] = "init" <=> o \in inited')
    BY <1>0, <1>3 DEF ObjectsOK
  <2>2. \A s \in Sides : inited' \cap LocalsOf(s) # {} => Running(s)' /\ k[s] > 0
    BY <1>0, <1>5, <1>7 DEF ObjectsOK, Sides
  <2> QED BY <1>0, <1>4, <1>7, <2>1, <2>2 DEF ObjectsOK
<1>10. ScriptOK'
  <2>1. Running("server") =>
           /\ fn["server"] = "Respond" /\ Found(fn["server"]) = {}
           /\ \A m \in 1 .. k["server"] : Script(fn["server"])[m].op = "init" =>
                 Script(fn["server"])[m].obj \in inited'
    <3> SUFFICES ASSUME Running("server")
                 PROVE  /\ fn["server"] = "Respond" /\ Found(fn["server"]) = {}
                        /\ \A m \in 1 .. k["server"] : Script(fn["server"])[m].op = "init" =>
                              Script(fn["server"])[m].obj \in inited'
      OBVIOUS
    <3>1. fn["server"] = "Respond"
      BY <1>0, WhoRuns DEF Sides
    <3>2. /\ \A j \in 1 .. Len(Script(fn["server"])) : CallOK(fn["server"], j)
          /\ Len(Script(fn["server"])) \in Nat
      BY <1>0, <3>1, ScriptShape DEF KsTypeOK, Functions4
    <3>3. k["server"] \in Nat /\ k["server"] <= Len(Script(fn["server"]))
      BY <1>0 DEF ScriptOK, Sides, KsTypeOK
    <3>4. \A m \in 1 .. k["server"] : CallOK(fn["server"], m)
      BY <3>2, <3>3
    <3>5. Touched(fn["server"]) = LocalsOf("server") /\ Found(fn["server"]) = {}
      BY <3>1 DEF Touched, LocalsOf, Found
    <3> QED BY <1>0, <1>7, <3>1, <3>4, <3>5 DEF CallOK, ScriptOK, Sides
  <2>2. Script(fn["server"])' = Script(fn["server"]) /\ Found(fn["server"])' = Found(fn["server"])
    BY <1>0, <1>4, SameBuild
  <2>3. /\ Running("server")' => /\ k'["server"] <= Len(Script(fn["server"])')
                                 /\ Found(fn["server"])' \subseteq inited'
                                 /\ \A m \in 1 .. k'["server"] :
                                       Script(fn["server"])'[m].op = "init" =>
                                          Script(fn["server"])'[m].obj \in inited'
        /\ ~Running("server")' => k'["server"] = 0
    BY <1>0, <1>5, <2>1, <2>2 DEF ScriptOK, Sides
  <2>4. k'["client"] = 0
    BY <1>0, <1>6
  <2> QED BY <1>4, <1>5, <2>3, <2>4 DEF ScriptOK, Sides
<1>11. HalvesOK'
  <2>1. ss'["client"] = NoSecret /\ ss'["server"] = ss["server"]
    BY <1>0 DEF KsTypeOK, Sides
  <2> QED BY <1>0, <1>4, <2>1, SameBuild DEF HalvesOK
<1> QED BY <1>4, <1>8, <1>9, <1>10, <1>11

LEMMA EndsInv ==
    ASSUME DriverInv, Ends
    PROVE  DriverInv'
<1>0. /\ Idle /\ ~Guarded /\ buf' = ForceZero(Locals) /\ pc' = "done" /\ UNCHANGED <<path, i>>
  BY DEF Ends
<1>1. DOMAIN buf' = DOMAIN buf /\ \A b \in DOMAIN buf : buf'[b] = IF b \in Locals THEN Zeros ELSE buf[b]
  BY <1>0 DEF ForceZero
<1>2. DOMAIN buf = Locals \cup Others \cup SessionFields
  BY DEF DriverInv, BufOK
<1>3. i \in 0 .. Len(Program) /\ Len(Program) \in Nat /\ i \in Nat
  BY ProgramFacts DEF DriverInv, StageOK
<1>4. ASSUME NEW b \in Intermediate PROVE ~Depends(buf[b])
  <2> SUFFICES ASSUME Depends(buf[b]) PROVE FALSE
    OBVIOUS
  <2>1. WipeAhead(b)
    BY DEF DriverInv, BufOK
  <2>2. PICK w \in i + 1 .. Len(Program) : \A m \in i + 1 .. w : ~Program[m].first
    BY <2>1 DEF WipeAhead
  <2>3. i < Len(Program) /\ i + 1 \in i + 1 .. w
    BY <1>3, <2>2
  <2>4. Guarded
    BY <1>0, <2>2, <2>3 DEF Guarded, c
  <2> QED BY <1>0, <2>4
<1>5. ASSUME NEW b \in Locals \cup Others, b # "psk" PROVE ~Depends(buf'[b])
  <2>1. CASE b \in Locals
    BY <1>1, <1>2, <2>1, ZeroNoSecret
  <2>2. CASE b \in Cleared
    BY <1>1, <1>2, <2>2, ZeroNoSecret DEF DriverInv, BufOK
  <2>3. CASE b \in Intermediate
    BY <1>1, <1>2, <1>4, <2>3, ZeroNoSecret
  <2> QED BY <1>5, <2>1, <2>2, <2>3 DEF Others, Cleared, Intermediate
<1>6. SecretsWiped'
  BY <1>5 DEF SecretsWiped
<1>7. BufOK'
  <2>1. \A b \in Cleared \cup Intermediate : b \in Locals \cup Others /\ b # "psk"
    BY DEF Cleared, Intermediate, Others
  <2> QED BY <1>1, <1>2, <1>5, <2>1 DEF BufOK
<1>8. fn'["client"] = "Done"
  BY EndsKeys
<1>9. StageOK'
  <2>1. Program' = Program /\ SharedAt' = SharedAt
    BY <1>0, SameProgram
  <2> QED BY <1>0, <1>3, <1>8, <2>1 DEF StageOK
<1> QED BY <1>6, <1>7, <1>9, EndsKeys DEF DriverInv

(* The key share's own steps *)
LEMMA KeysInv ==
    ASSUME DriverInv, KsNext, UNCHANGED driverVars
    PROVE  DriverInv'
<1>0. UNCHANGED <<path, i, buf, pc>>
  BY DEF driverVars
<1>1. Program' = Program /\ SharedAt' = SharedAt
  BY <1>0, SameProgram
<1>2. KsInv'
  BY KsStep DEF DriverInv
<1>3. \/ fn'["client"] = fn["client"]
      \/ fn["client"] \in {"Init", "Generate"} /\ fn'["client"] \in {"Generate", "Send", "Free"}
      \/ fn["client"] = "Shared" /\ fn'["client"] \in {"Use", "Free"}
  <2>0. KsInv /\ KsTypeOK
    BY DEF DriverInv, KsInv
  <2>1. ASSUME NEW s \in Sides, CallSucceeds(s) \/ CallFails(s) \/ Tamper(s)
        PROVE  fn'["client"] = fn["client"]
    BY <2>1 DEF CallSucceeds, CallFails, Tamper
  <2>2. ASSUME ServerRefuses PROVE fn'["client"] = fn["client"]
    BY <2>2 DEF ServerRefuses
  <2>3. ASSUME Return("server") PROVE fn'["client"] = fn["client"]
    BY <2>0, <2>3 DEF Return, KsTypeOK, Sides
  <2>4. ASSUME Return("client")
        PROVE  \/ fn["client"] \in {"Init", "Generate"} /\ fn'["client"] \in {"Generate", "Send", "Free"}
               \/ fn["client"] = "Shared" /\ fn'["client"] \in {"Use", "Free"}
    <3>1. Running("client")
      BY <2>4 DEF Return
    <3>2. fn["client"] \in {"Init", "Generate", "Shared"}
      BY <2>0, <3>1, WhoRuns DEF Sides
    <3>3. fn' = [fn EXCEPT !["client"] = IF ret["client"] = "SUCCESS" THEN Following[@] ELSE "Free"]
      BY <2>4 DEF Return
    <3>4. fn'["client"] = IF ret["client"] = "SUCCESS" THEN Following[fn["client"]] ELSE "Free"
      BY <2>0, <3>3 DEF KsTypeOK, Sides
    <3> QED BY <3>2, <3>4 DEF Following
  <2> QED BY <2>1, <2>2, <2>3, <2>4 DEF KsNext, Sides
<1>4. i \in Nat /\ SharedAt \in Nat /\ SharedAt >= 3
  BY ProgramFacts DEF DriverInv, StageOK
<1>5. StageOK'
  <2>1. StageOK
    BY DEF DriverInv
  <2>2. fn["client"] \in {"Init", "Generate"} => i \in 2 .. SharedAt - 1 /\ ~(i >= SharedAt) /\ ~(i < 2)
    <3>1. fn["client"] \in {"Init", "Generate"} => ~(i < 2) /\ ~(i >= SharedAt)
      BY <2>1 DEF StageOK
    <3> QED BY <1>4, <3>1
  <2>3. fn["client"] = "Shared" => i >= SharedAt /\ ~(i < 2) /\ i \notin 2 .. SharedAt - 1
    <3>1. fn["client"] = "Shared" => ~(i < 2) /\ i \notin 2 .. SharedAt - 1
      BY <2>1 DEF StageOK
    <3> QED BY <1>4, <3>1
  <2>4. CASE fn'["client"] = fn["client"]
    BY <1>0, <1>1, <2>1, <2>4 DEF StageOK
  <2>5. CASE fn["client"] \in {"Init", "Generate"} /\ fn'["client"] \in {"Generate", "Send", "Free"}
    BY <1>0, <1>1, <2>1, <2>2, <2>5 DEF StageOK
  <2>6. CASE fn["client"] = "Shared" /\ fn'["client"] \in {"Use", "Free"}
    BY <1>0, <1>1, <2>1, <2>3, <2>6 DEF StageOK
  <2> QED BY <1>3, <2>4, <2>5, <2>6
<1>6. BufOK'
  BY <1>0, <1>1 DEF DriverInv, BufOK, WipeAhead
<1>7. SecretsWiped'
  BY <1>0 DEF DriverInv, SecretsWiped
<1> QED BY <1>2, <1>5, <1>6, <1>7 DEF DriverInv

LEMMA DriverInvInit == Init => DriverInv
<1> SUFFICES ASSUME Init PROVE DriverInv
  OBVIOUS
<1>1. KsInv
  BY KsInvInit DEF Init
<1>2. StageOK
  BY ProgramFacts DEF Init, KsInit, StageOK
<1>3. /\ DOMAIN buf = Locals \cup Others \cup SessionFields
      /\ \A b \in Cleared \cup Intermediate : buf[b] \in {Nil, Zeros, Junk}
  <2>1. buf = [b \in Locals \cup Others \cup SessionFields |->
                 CASE b = "psk" -> Psk [] b = "nil" -> Nil
                   [] b \in SessionFields \cup {"zeros"} -> Zeros
                   [] OTHER -> Junk]
    BY DEF Init
  <2>2. \A b \in Cleared \cup Intermediate :
           b \in Others /\ b # "psk" /\ (b = "nil" => b \notin SessionFields \cup {"zeros"})
    BY DEF Cleared, Intermediate, Others, SessionFields
  <2> QED BY <2>1, <2>2
<1>4. ~Depends(Nil) /\ ~Depends(Zeros) /\ ~Depends(Junk)
  BY DEF Nil, Zeros, Junk, Public, Term, Depends
<1>5. \A b \in Cleared \cup Intermediate : ~Depends(buf[b])
  BY <1>3, <1>4
<1>6. BufOK
  BY <1>3, <1>5 DEF BufOK
<1>7. SecretsWiped
  BY DEF Init, SecretsWiped
<1> QED BY <1>1, <1>2, <1>6, <1>7 DEF DriverInv

(* The key schedule's driver and the key share keep their invariant: KsInv of
   the key objects, StageOK, BufOK and SecretsWiped. *)
THEOREM KeysInvariant == Spec => []DriverInv
<1>1. ASSUME DriverInv, [Next]_vars PROVE DriverInv'
  <2>1. CASE Next
    BY <1>1, <2>1, SucceedsInv, FailsInv, WipeInv, EndsInv, KeysInv DEF Next, Driver
  <2>2. CASE UNCHANGED vars
    <3>1. UNCHANGED <<ksVars, path, i, buf, pc>>
      BY <2>2 DEF vars, driverVars
    <3>2. UNCHANGED <<build, fn, k, ret, group, st, inited, ss, share>>
      BY <3>1 DEF ksVars
    <3>3. KsInv'
      BY <1>1, <3>2, CodeChanges DEF DriverInv, KsInv, KsTypeOK, ScriptOK
    <3>4. Program' = Program /\ SharedAt' = SharedAt
      BY <3>1, SameProgram
    <3>5. StageOK' /\ BufOK' /\ SecretsWiped'
      BY <1>1, <3>1, <3>2, <3>4 DEF DriverInv, StageOK, BufOK, WipeAhead, SecretsWiped
    <3> QED BY <3>3, <3>5 DEF DriverInv
  <2> QED BY <1>1, <2>1, <2>2
<1> QED BY <1>1, DriverInvInit, PTL DEF Spec

(* No call uses a key object that is not initialised and none is freed that is
   not there, or twice, wherever calls fail on either side (wn_keyshare.c:40). *)
THEOREM NoKeyCorrupted == Spec => []NoCorruption
<1>1. DriverInv => NoCorruption
  BY DEF DriverInv, KsInv, ObjectsOK, NoCorruption
<1> QED BY <1>1, KeysInvariant, PTL

(* When a side has ended its keys are freed, it never shows half of a hybrid
   secret, and a driver that returns has left no secret in a buffer
   (wn_connect.c's ForceZero on every way out). *)
THEOREM NothingStays == Spec => []NothingLeft
<1>1. ASSUME DriverInv PROVE KeysFreed
  <2>0. KsTypeOK /\ ObjectsOK /\ HalvesOK
    BY <1>1 DEF DriverInv, KsInv
  <2>1. ASSUME fn["client"] = "Done"
        PROVE  (\A o \in KsObjects \cup {"peer"} : st[o] # "init") /\ ss["client"] = NoSecret
    <3>1. ~Running("client")
      BY <2>1 DEF Running
    <3>2. inited \cap KsObjects = {} /\ inited \cap LocalsOf("client") = {}
      BY <2>0, <2>1, <3>1 DEF ObjectsOK, Sides
    <3>3. KsObjects \cup {"peer"} \subseteq Objects /\ "peer" \in LocalsOf("client")
      BY DEF Objects, LocalKeys, LocalsOf
    <3> QED BY <2>0, <2>1, <3>2, <3>3 DEF ObjectsOK, HalvesOK
  <2>2. ASSUME fn["server"] = "Done" PROVE \A o \in {"skem", "srv", "speer"} : st[o] # "init"
    <3>1. ~Running("server")
      BY <2>2 DEF Running
    <3>2. inited \cap LocalsOf("server") = {}
      BY <2>0, <3>1 DEF ObjectsOK, Sides
    <3>3. /\ {"skem", "srv", "speer"} \subseteq Objects
          /\ LocalsOf("server") = {"skem", "srv", "speer"}
      BY DEF Objects, LocalKeys, LocalsOf
    <3> QED BY <2>0, <3>2, <3>3 DEF ObjectsOK
  <2> QED BY <2>1, <2>2 DEF KeysFreed
<1>2. ASSUME DriverInv PROVE NoPartialSecret
  <2>1. HalvesOK
    BY <1>2 DEF DriverInv, KsInv
  <2> QED BY <2>1 DEF HalvesOK, NoPartialSecret, Partial
<1>3. DriverInv => NothingLeft
  BY <1>1, <1>2 DEF DriverInv, NothingLeft
<1> QED BY <1>3, KeysInvariant, PTL

-----------------------------------------------------------------------------
(***************************************************************************)
(* The keys are those of RFC 8446.                                         *)
(*                                                                         *)
(* Every buffer but four is written by one call of the program; the four   *)
(* that are used again (th, mac, derived, master) have their stretches.    *)
(* While no call has failed, a buffer holds its term of the reference from *)
(* the call that writes it on; when one has failed only blocks that have   *)
(* begun go on, and none of them sends.                                    *)
(***************************************************************************)
OK == ret["client"] = "SUCCESS"

(* The last call of ClientHello, of what comes before the handshake keys, of
   ServerHello, of the server's flight and of the client's Finished *)
HelloEnd == IF path = "psk" THEN 8 ELSE 4
KeysFrom == IF path = "psk" THEN 13 ELSE 10
FlightFrom == IF path = "psk" THEN 22 ELSE 20
FinFrom == IF path = "psk" THEN 27 ELSE 29
SessionFrom == FinFrom + 3
LastCall == SessionFrom + 10

(* The buffers that one call of the program writes, that call and the term *)
Once ==
    {"emptyHash", "early", "hs", "cHs", "sHs", "cKey", "cIv", "cAppSecret", "sAppSecret",
     "sess.cKey", "sess.cIv", "sess.sKey", "sess.sIv"}
      \cup IF path = "psk" THEN {"binderKey", "binder"} ELSE {"thCert"}

WrittenAt(b) ==
    CASE b = "emptyHash" -> 1
      [] b = "early" -> IF path = "psk" THEN 3 ELSE 10
      [] b = "binderKey" -> 4
      [] b = "binder" -> 6
      [] b = "hs" -> KeysFrom + 2
      [] b = "cHs" -> KeysFrom + 3
      [] b = "sHs" -> KeysFrom + 4
      [] b = "cKey" -> KeysFrom + 5
      [] b = "cIv" -> KeysFrom + 6
      [] b = "thCert" -> FlightFrom + 3
      [] b = "cAppSecret" -> SessionFrom + 3
      [] b = "sAppSecret" -> SessionFrom + 4
      [] b = "sess.cKey" -> SessionFrom + 5
      [] b = "sess.cIv" -> SessionFrom + 6
      [] b = "sess.sKey" -> SessionFrom + 7
      [] b = "sess.sIv" -> SessionFrom + 8

Ref(b) ==
    CASE b = "emptyHash" -> EmptyHash
      [] b = "early" -> RefEarly
      [] b = "binderKey" -> ExpandLabel(RefEarly, "ext binder", EmptyHash)
      [] b = "binder" -> RefBinder
      [] b = "hs" -> RefHs(ClientView)
      [] b = "cHs" -> RefTraffic(ClientView, "c")
      [] b = "sHs" -> RefTraffic(ClientView, "s")
      [] b = "cKey" -> RefKey(RefTraffic(ClientView, "c"))
      [] b = "cIv" -> RefIv(RefTraffic(ClientView, "c"))
      [] b = "thCert" -> Upto(ClientView, N - 2)
      [] b = "cAppSecret" -> RefApp(ClientView, "c")
      [] b = "sAppSecret" -> RefApp(ClientView, "s")
      [] b = "sess.cKey" -> RefKey(RefApp(ClientView, "c"))
      [] b = "sess.cIv" -> RefIv(RefApp(ClientView, "c"))
      [] b = "sess.sKey" -> RefKey(RefApp(ClientView, "s"))
      [] b = "sess.sIv" -> RefIv(RefApp(ClientView, "s"))

(* Each buffer holds its term; the session's fields when the driver is done too. *)
OnceOK == OK => \A b \in Once :
            (i >= WrittenAt(b) /\ (pc = "run" \/ b \in SessionFields)) => buf[b] = Ref(b)
FixedOK == buf["nil"] = Nil /\ buf["zeros"] = Zeros /\ buf["psk"] = Psk

(* The transcript hash, the verify_data and the intermediate secrets, each in
   the stretch of calls from where it is computed *)
MacAt == IF path = "psk" THEN 25 ELSE 28
ThOK ==
    (OK /\ pc = "run") =>
    /\ (path = "psk" /\ i \in 5 .. 6) => buf["th"] = Hash(<<Truncated>>)
    /\ i \in HelloEnd + 5 .. FlightFrom => buf["th"] = Upto(ClientView, 2)
    /\ i \in FinFrom - 3 .. FinFrom => buf["th"] = Upto(ClientView, N - 1)
    /\ i \in FinFrom + 1 .. LastCall => buf["th"] = Upto(ClientView, N)
MacOK ==
    (OK /\ pc = "run") =>
    /\ i \in MacAt .. FinFrom + 1 =>
          buf["mac"] = FinishedMac(RefTraffic(ClientView, "s"), Upto(ClientView, N - 1))
    /\ i \in FinFrom + 2 .. LastCall =>
          buf["mac"] = FinishedMac(RefTraffic(ClientView, "c"), Upto(ClientView, N))
MidOK ==
    (OK /\ pc = "run") =>
    /\ i \in KeysFrom + 1 .. KeysFrom + 8 =>
          buf["derived"] = ExpandLabel(RefEarly, "derived", EmptyHash)
    /\ i \in SessionFrom + 1 .. SessionFrom + 9 =>
          buf["derived"] = ExpandLabel(RefHs(ClientView), "derived", EmptyHash)
    /\ i \in SessionFrom + 2 .. SessionFrom + 9 => buf["master"] = RefMaster(ClientView)

(* The calls that hash a message, and what is hashed by then *)
UpdateAt == IF path = "psk" THEN <<7, 10, 23, 27>> ELSE <<3, 6, 21, 22, 24, 27>>
TcOK ==
    OK => /\ Len(tc) <= N
          /\ \A m \in 1 .. N : m <= Len(tc) <=> UpdateAt[m] <= i
          /\ \A m \in 1 .. Len(tc) : tc[m] = RefMsgs(ClientView)[m]

(* Once the server's Finished is verified both sides have the same view. *)
FinishedAt == IF path = "psk" THEN 26 ELSE 29
AgreeOK == (OK /\ i >= FinishedAt) => ClientView = ServerView

(* Where the two sides stand to one another: the server begins when ClientHello
   is sent, and the client reads ServerHello when the server has ended. *)
IsShare(r) == /\ r = [sent |-> r.sent, kem |-> r.kem, x |-> r.x, short |-> r.short]
              /\ r.sent \in BOOLEAN /\ r.short \in BOOLEAN
IsSecret(r) == r = [kem |-> r.kem, x |-> r.x]
MeetOK ==
    /\ IsShare(share["client"]) /\ IsShare(share["server"])
    /\ IsSecret(ss["client"]) /\ IsSecret(ss["server"])
    /\ fn["client"] \in {"Start", "Init", "Generate", "Send"} => fn["server"] = "Wait"
    /\ fn["client"] \in {"Got", "Shared", "Use"} => fn["server"] = "Done"
    /\ fn["server"] = "Wait" => ret["server"] = "SUCCESS"
    /\ share["client"].sent <=> fn["server"] # "Wait"
    /\ fn["server"] = "Done" => (share["server"].sent <=> ret["server"] = "SUCCESS")
    /\ fn["server"] # "Done" => ~share["server"].sent

(* The halves of the secret on each side, from the call that computes them *)
ServerSecret == [kem |-> IF Hybrid THEN KemSecret("server") ELSE <<"unused">>,
                 x |-> XSecret("server")]
ClientSecret == [kem |-> IF Hybrid THEN KemSecret("client") ELSE <<"unused">>,
                 x |-> XSecret("client")]
ServerHalves ==
    /\ (fn["server"] = "Done" /\ ret["server"] = "SUCCESS") => ss["server"] = ServerSecret
    /\ (Hybrid /\ fn["server"] = "Respond") =>
          /\ k["server"] >= 2 => ss["server"].kem = KemSecret("server")
          /\ k["server"] >= 7 => ss["server"].x = XSecret("server")
ClientHalves ==
    /\ fn["client"] = "Shared" =>
          /\ (Hybrid /\ k["client"] >= 1) => ss["client"].kem = KemSecret("client")
          /\ k["client"] >= Len(SharedCalls) => /\ ss["client"].x = XSecret("client")
                                                /\ ~Hybrid => ss["client"].kem = <<"unused">>
    /\ fn["client"] = "Use" => ss["client"] = ClientSecret

(* Where the client stands while no call has failed *)
StagesOK ==
   OK => /\ i \in 2 .. HelloEnd - 1 => fn["client"] \in {"Init", "Generate", "Send"}
         /\ i = HelloEnd => fn["client"] = "Recv"
         /\ i \in HelloEnd + 1 .. HelloEnd + 3 => fn["client"] = "Got"
         /\ i > HelloEnd => share["server"].sent
         /\ i = HelloEnd + 4 => fn["client"] \in {"Shared", "Use"}
         /\ i > HelloEnd + 4 => fn["client"] \in {"Use", "Done"}
         /\ pc = "done" => i = LastCall

(* Neither share changes any more. *)
Settled == fn["server"] = "Done" /\ fn["client"] \in {"Use", "Done"}
KeysOK ==
    keysReady => /\ path # "psk" /\ i >= FlightFrom /\ Settled
                 /\ pc = "run" => buf["cKey"] = Ref("cKey") /\ buf["cIv"] = Ref("cIv")
(* What is on the wire *)
Sealing(v) == <<RefKey(RefTraffic(v, "c")), RefIv(RefTraffic(v, "c"))>>
OnWire(e) ==
    \/ e.kind = "hello" /\ e.terms = IF path = "psk" THEN <<RefBinder>> ELSE <<>>
    \/ e.kind = "alert" /\ e.terms = Sealing(ClientView) /\ Settled
    \/ /\ e.kind = "finished" /\ Settled
       /\ e.terms = <<FinishedMac(RefTraffic(ServerView, "c"), Upto(ServerView, N))>>
                       \o Sealing(ServerView)
WireOK == \A n \in DOMAIN wire : OnWire(wire[n])
(* The session is established when no call has failed up to there, and a code
   of the client's without a failed call is the answer to a changed share. *)
FlagsOK == /\ flags \in {{}, {"ESTABLISHED"}}
           /\ OK => (flags # {} <=> i >= SessionFrom + 9)
           /\ flags # {} => OK
FaultOK ==
  /\ fails \in Nat
  /\ ret["server"] # "SUCCESS" => fails > 0 \/ (fn["server"] # "Wait" /\ share["client"] # Genuine)
  /\ fails > 0 => ~OK \/ ret["server"] # "SUCCESS"
  /\ (~OK /\ fails = 0) => /\ fn["server"] = "Done" /\ fn["client"] \in {"Got", "Use", "Done"}
                            /\ (share["client"] # Genuine \/ share["server"] # Genuine)

-----------------------------------------------------------------------------
(***************************************************************************)
(* The program, call by call                                               *)
(***************************************************************************)
(* The first call of a block *)
Opening(x) == [x EXCEPT !.first = TRUE]

LEMMA FirstIs == \A x : First(x) = <<Opening(x)>>
BY DEF First, Opening

LEMMA PskHelloCalls ==
    /\ Len(PskHello) = 8
    /\ PskHello[1] = Opening(Do("empty", "emptyHash", <<>>, "none"))
    /\ PskHello[2] = Opening(Do("keyshare", "none", <<>>, "Init"))
    /\ PskHello[3] = Opening(Extracts("early", "nil", "psk"))
    /\ PskHello[4] = Derive("binderKey", "early", "ext binder", "emptyHash")
    /\ PskHello[5] = Opening(Do("hash truncated", "th", <<>>, "none"))
    /\ PskHello[6] = Opening(Mac("binder", "binderKey", "th"))
    /\ PskHello[7] = Opening(Update("CH"))
    /\ PskHello[8] = Opening(Do("send", "none", <<"binder">>, "hello"))
<1> DEFINE x1 == Opening(Do("empty", "emptyHash", <<>>, "none"))
           x2 == Opening(Do("keyshare", "none", <<>>, "Init"))
           x3 == Opening(Extracts("early", "nil", "psk"))
           x4 == Derive("binderKey", "early", "ext binder", "emptyHash")
           x5 == Opening(Do("hash truncated", "th", <<>>, "none"))
           x6 == Opening(Mac("binder", "binderKey", "th"))
           x7 == Opening(Update("CH"))
           x8 == Opening(Do("send", "none", <<"binder">>, "hello"))
           p == <<x1>> \o <<x2>> \o <<x3>> \o <<x4>> \o <<x5>> \o <<x6>> \o <<x7>> \o <<x8>>
<1>1. PskHello = p
  BY DEF PskHello, KeyGeneration, KeyShareFn, First, Opening
<1> HIDE DEF x1, x2, x3, x4, x5, x6, x7, x8
<1>2. /\ Len(p) = 8 /\ p[1] = x1 /\ p[2] = x2 /\ p[3] = x3 /\ p[4] = x4 /\ p[5] = x5
      /\ p[6] = x6 /\ p[7] = x7 /\ p[8] = x8
  OBVIOUS
<1> HIDE DEF p
<1>3. /\ Len(PskHello) = 8
      /\ PskHello[1] = x1 /\ PskHello[2] = x2 /\ PskHello[3] = x3
      /\ PskHello[4] = x4 /\ PskHello[5] = x5 /\ PskHello[6] = x6
      /\ PskHello[7] = x7 /\ PskHello[8] = x8
  BY <1>1, <1>2
<1> QED BY <1>3, Zenon DEF x1, x2, x3, x4, x5, x6, x7, x8

LEMMA CertHelloCalls ==
    /\ Len(CertHello) = 4
    /\ CertHello[1] = Opening(Do("empty", "emptyHash", <<>>, "none"))
    /\ CertHello[2] = Opening(Do("keyshare", "none", <<>>, "Init"))
    /\ CertHello[3] = Opening(Update("CH"))
    /\ CertHello[4] = Opening(Do("send", "none", <<>>, "hello"))
<1>1. CertHello =
        <<Opening(Do("empty", "emptyHash", <<>>, "none"))>>
          \o <<Opening(Do("keyshare", "none", <<>>, "Init"))>> \o <<Opening(Update("CH"))>>
          \o <<Opening(Do("send", "none", <<>>, "hello"))>>
  BY DEF CertHello, KeyGeneration, KeyShareFn, First, Opening
<1> QED BY <1>1

LEMMA DeriveHsKeysCalls ==
    /\ Len(DeriveHsKeys) = 9
    /\ DeriveHsKeys[1] = Derive("derived", "early", "derived", "emptyHash")
    /\ DeriveHsKeys[2] = Extracts("hs", "derived", "ecdhe")
    /\ DeriveHsKeys[3] = Derive("cHs", "hs", "c hs traffic", "th")
    /\ DeriveHsKeys[4] = Derive("sHs", "hs", "s hs traffic", "th")
    /\ DeriveHsKeys[5] = Derive("cKey", "cHs", "key", "nil")
    /\ DeriveHsKeys[6] = Derive("cIv", "cHs", "iv", "nil")
    /\ DeriveHsKeys[7] = Derive("sKey", "sHs", "key", "nil")
    /\ DeriveHsKeys[8] = Derive("sIv", "sHs", "iv", "nil")
    /\ DeriveHsKeys[9] = Wipe(<<"derived">>)
<1> DEFINE x1 == Derive("derived", "early", "derived", "emptyHash")
           x2 == Extracts("hs", "derived", "ecdhe")
           x3 == Derive("cHs", "hs", "c hs traffic", "th")
           x4 == Derive("sHs", "hs", "s hs traffic", "th")
           x5 == Derive("cKey", "cHs", "key", "nil")
           x6 == Derive("cIv", "cHs", "iv", "nil")
           x7 == Derive("sKey", "sHs", "key", "nil")
           x8 == Derive("sIv", "sHs", "iv", "nil")
           x9 == Wipe(<<"derived">>)
           p == <<x1, x2, x3, x4>> \o <<x5, x6>> \o <<x7, x8>> \o <<x9>>
<1>1. DeriveHsKeys = p
  BY DEF DeriveHsKeys, Keys
<1> HIDE DEF x1, x2, x3, x4, x5, x6, x7, x8, x9
<1>2. /\ Len(p) = 9 /\ p[1] = x1 /\ p[2] = x2 /\ p[3] = x3 /\ p[4] = x4 /\ p[5] = x5
      /\ p[6] = x6 /\ p[7] = x7 /\ p[8] = x8 /\ p[9] = x9
  OBVIOUS
<1> HIDE DEF p
<1>3. /\ Len(DeriveHsKeys) = 9
      /\ DeriveHsKeys[1] = x1 /\ DeriveHsKeys[2] = x2 /\ DeriveHsKeys[3] = x3
      /\ DeriveHsKeys[4] = x4 /\ DeriveHsKeys[5] = x5 /\ DeriveHsKeys[6] = x6
      /\ DeriveHsKeys[7] = x7 /\ DeriveHsKeys[8] = x8 /\ DeriveHsKeys[9] = x9
  BY <1>1, <1>2
<1> QED BY <1>3, Zenon DEF x1, x2, x3, x4, x5, x6, x7, x8, x9

LEMMA SessionEstablishCalls ==
    /\ Len(SessionEstablish) = 10
    /\ SessionEstablish[1] = Opening(Derive("derived", "hs", "derived", "emptyHash"))
    /\ SessionEstablish[2] = Extracts("master", "derived", "zeros")
    /\ SessionEstablish[3] = Derive("cAppSecret", "master", "c ap traffic", "th")
    /\ SessionEstablish[4] = Derive("sAppSecret", "master", "s ap traffic", "th")
    /\ SessionEstablish[5] = Derive("sess.cKey", "cAppSecret", "key", "nil")
    /\ SessionEstablish[6] = Derive("sess.cIv", "cAppSecret", "iv", "nil")
    /\ SessionEstablish[7] = Derive("sess.sKey", "sAppSecret", "key", "nil")
    /\ SessionEstablish[8] = Derive("sess.sIv", "sAppSecret", "iv", "nil")
    /\ SessionEstablish[9] = Do("establish", "none", <<>>, "none")
    /\ SessionEstablish[10] = Wipe(<<"derived", "master">>)
<1> DEFINE x1 == Opening(Derive("derived", "hs", "derived", "emptyHash"))
           x2 == Extracts("master", "derived", "zeros")
           x3 == Derive("cAppSecret", "master", "c ap traffic", "th")
           x4 == Derive("sAppSecret", "master", "s ap traffic", "th")
           x5 == Derive("sess.cKey", "cAppSecret", "key", "nil")
           x6 == Derive("sess.cIv", "cAppSecret", "iv", "nil")
           x7 == Derive("sess.sKey", "sAppSecret", "key", "nil")
           x8 == Derive("sess.sIv", "sAppSecret", "iv", "nil")
           x9 == Do("establish", "none", <<>>, "none")
           x10 == Wipe(<<"derived", "master">>)
           p == <<x1>> \o <<x2, x3, x4>> \o <<x5, x6>> \o <<x7, x8>> \o <<x9, x10>>
<1>1. SessionEstablish = p
  BY DEF SessionEstablish, Keys, First, Opening
<1> HIDE DEF x1, x2, x3, x4, x5, x6, x7, x8, x9, x10
<1>2. /\ Len(p) = 10 /\ p[1] = x1 /\ p[2] = x2 /\ p[3] = x3 /\ p[4] = x4 /\ p[5] = x5
      /\ p[6] = x6 /\ p[7] = x7 /\ p[8] = x8 /\ p[9] = x9 /\ p[10] = x10
  OBVIOUS
<1> HIDE DEF p
<1>3. /\ Len(SessionEstablish) = 10
      /\ SessionEstablish[1] = x1 /\ SessionEstablish[2] = x2 /\ SessionEstablish[3] = x3
      /\ SessionEstablish[4] = x4 /\ SessionEstablish[5] = x5 /\ SessionEstablish[6] = x6
      /\ SessionEstablish[7] = x7 /\ SessionEstablish[8] = x8 /\ SessionEstablish[9] = x9
      /\ SessionEstablish[10] = x10
  BY <1>1, <1>2
<1> QED BY <1>3, Zenon DEF x1, x2, x3, x4, x5, x6, x7, x8, x9, x10

LEMMA PskFlightCalls ==
    /\ Len(PskFlight) = 5
    /\ PskFlight[1] = Opening(Update("EE")) /\ PskFlight[2] = Opening(GetHash("th"))
    /\ PskFlight[3] = Opening(Mac("mac", "sHs", "th"))
    /\ PskFlight[4] = Opening(Do("finished", "recvMac", <<"mac">>, "none"))
    /\ PskFlight[5] = Opening(Update("FIN"))
BY FirstIs DEF PskFlight

LEMMA CertFlightCalls ==
    /\ Len(CertFlight) = 9
    /\ CertFlight[1] = Opening(Update("EE")) /\ CertFlight[2] = Opening(Update("CERT"))
    /\ CertFlight[3] = Opening(GetHash("thCert")) /\ CertFlight[4] = Opening(Update("CV"))
    /\ CertFlight[5] = Opening(Do("verify", "none", <<"thCert">>, "none"))
    /\ CertFlight[6] = Opening(GetHash("th")) /\ CertFlight[7] = Opening(Update("FIN"))
    /\ CertFlight[8] = Opening(Mac("mac", "sHs", "th"))
    /\ CertFlight[9] = Opening(Do("finished", "recvMac", <<"mac">>, "none"))
<1> DEFINE x1 == Opening(Update("EE"))
           x2 == Opening(Update("CERT"))
           x3 == Opening(GetHash("thCert"))
           x4 == Opening(Update("CV"))
           x5 == Opening(Do("verify", "none", <<"thCert">>, "none"))
           x6 == Opening(GetHash("th"))
           x7 == Opening(Update("FIN"))
           x8 == Opening(Mac("mac", "sHs", "th"))
           x9 == Opening(Do("finished", "recvMac", <<"mac">>, "none"))
           p == <<x1>> \o <<x2>> \o <<x3>> \o <<x4>> \o <<x5>> \o <<x6>> \o <<x7>> \o <<x8>>
                  \o <<x9>>
<1>1. CertFlight = p
  BY FirstIs, Zenon DEF CertFlight
<1> HIDE DEF x1, x2, x3, x4, x5, x6, x7, x8, x9
<1>2. /\ Len(p) = 9 /\ p[1] = x1 /\ p[2] = x2 /\ p[3] = x3 /\ p[4] = x4 /\ p[5] = x5
      /\ p[6] = x6 /\ p[7] = x7 /\ p[8] = x8 /\ p[9] = x9
  OBVIOUS
<1> HIDE DEF p
<1>3. /\ Len(CertFlight) = 9
      /\ CertFlight[1] = x1 /\ CertFlight[2] = x2 /\ CertFlight[3] = x3
      /\ CertFlight[4] = x4 /\ CertFlight[5] = x5 /\ CertFlight[6] = x6
      /\ CertFlight[7] = x7 /\ CertFlight[8] = x8 /\ CertFlight[9] = x9
  BY <1>1, <1>2
<1> QED BY <1>3, Zenon DEF x1, x2, x3, x4, x5, x6, x7, x8, x9

LEMMA ClientFinishedCalls ==
    /\ Len(ClientFinished) = 3
    /\ ClientFinished[1] = Opening(GetHash("th"))
    /\ ClientFinished[2] = Opening(Mac("mac", "cHs", "th"))
    /\ ClientFinished[3] = Opening(Do("send", "fin", <<"mac", "cKey", "cIv">>, "finished"))
<1> DEFINE x1 == Opening(GetHash("th"))
           x2 == Opening(Mac("mac", "cHs", "th"))
           x3 == Opening(Do("send", "fin", <<"mac", "cKey", "cIv">>, "finished"))
           p == <<x1>> \o <<x2>> \o <<x3>>
<1>1. ClientFinished = p
  BY DEF ClientFinished, First, Opening
<1> HIDE DEF x1, x2, x3
<1>2. /\ Len(p) = 3 /\ p[1] = x1 /\ p[2] = x2 /\ p[3] = x3
  OBVIOUS
<1> HIDE DEF p
<1>3. /\ Len(ClientFinished) = 3
      /\ ClientFinished[1] = x1 /\ ClientFinished[2] = x2 /\ ClientFinished[3] = x3
  BY <1>1, <1>2
<1> QED BY <1>3, Zenon DEF x1, x2, x3

IsSeq(p) == \E S : p \in Seq(S)

(* r is p followed by q. *)
Joins(r, p, q) ==
    /\ IsSeq(r) /\ Len(r) = Len(p) + Len(q)
    /\ \A j \in 1 .. Len(p) : r[j] = p[j]
    /\ \A j \in 1 .. Len(q) : r[Len(p) + j] = q[j]

LEMMA Joined ==
    ASSUME NEW p, NEW q, IsSeq(p), IsSeq(q)
    PROVE  Joins(p \o q, p, q)
<1>1. PICK S : p \in Seq(S)
  BY DEF IsSeq
<1>2. PICK T : q \in Seq(T)
  BY DEF IsSeq
<1> DEFINE U == S \cup T
<1>3. p \in Seq(U)
  BY <1>1, SeqSubset
<1>4. q \in Seq(U)
  BY <1>2, SeqSubset
<1> HIDE DEF U
<1>5. /\ p \o q \in Seq(U) /\ Len(p \o q) = Len(p) + Len(q)
      /\ \A j \in 1 .. Len(p) : (p \o q)[j] = p[j]
      /\ \A j \in 1 .. Len(q) : (p \o q)[Len(p) + j] = q[j]
  BY <1>3, <1>4
<1> QED BY <1>5 DEF IsSeq, Joins

LEMMA OneIsSeq ==
    ASSUME NEW x
    PROVE  IsSeq(<<x>>) /\ Len(<<x>>) = 1 /\ <<x>>[1] = x
<1>1. <<x>> \in Seq({x})
  OBVIOUS
<1> QED BY <1>1 DEF IsSeq

LEMMA PiecesAreSeqs ==
    /\ IsSeq(PskHello) /\ IsSeq(CertHello) /\ IsSeq(DeriveHsKeys) /\ IsSeq(PskFlight)
    /\ IsSeq(CertFlight) /\ IsSeq(ClientFinished) /\ IsSeq(SessionEstablish)
BY HelloBegun, FlightsPlain, DeriveHsKeysWiping, SessionEstablishWiping DEF IsSeq, Begun

LEMMA ServerHelloCalls ==
    /\ IsSeq(ServerHello) /\ Len(ServerHello) = IF path = "psk" THEN 14 ELSE 16
    /\ ServerHello[1] = Opening(Do("receive", "none", <<>>, "none"))
    /\ ServerHello[2] = Opening(Update("SH"))
    /\ ServerHello[3] = Opening(Do("params", "none", <<>>, "none"))
    /\ ServerHello[4] = Opening(Do("keyshare", "none", <<>>, "Shared"))
    /\ ServerHello[5] = Opening(GetHash("th"))
    /\ path = "psk" => \A m \in 1 .. 9 : ServerHello[5 + m] = DeriveHsKeys[m]
    /\ path # "psk" => /\ ServerHello[6] = Extracts("early", "nil", "zeros")
                       /\ \A m \in 1 .. 9 : ServerHello[6 + m] = DeriveHsKeys[m]
                       /\ ServerHello[16] = Do("ready", "none", <<>>, "none")
<1> DEFINE x1 == Opening(Do("receive", "none", <<>>, "none"))
           x2 == Opening(Update("SH"))
           x3 == Opening(Do("params", "none", <<>>, "none"))
           x4 == Opening(Do("keyshare", "none", <<>>, "Shared"))
           x5 == Opening(GetHash("th"))
           e == Extracts("early", "nil", "zeros")
           r == Do("ready", "none", <<>>, "none")
           p == <<x1>> \o <<x2>> \o <<x3>> \o <<x4>> \o <<x5>>
           q == <<e>> \o DeriveHsKeys
           s == q \o <<r>>
           d == DeriveHsKeys
<1>1. ServerHello = p \o (IF path = "psk" THEN DeriveHsKeys ELSE s)
  BY DEF ServerHello, KeyShareFn, First, Opening
<1> HIDE DEF x1, x2, x3, x4, x5, e, r
<1>2. IsSeq(p) /\ Len(p) = 5 /\ p[1] = x1 /\ p[2] = x2 /\ p[3] = x3 /\ p[4] = x4 /\ p[5] = x5
  <2>1. p \in Seq({x1, x2, x3, x4, x5})
    OBVIOUS
  <2>2. IsSeq(p)
    BY <2>1 DEF IsSeq
  <2> QED BY <2>2
<1> HIDE DEF p
<1>3. IsSeq(d) /\ Len(d) = 9
  BY DeriveHsKeysCalls, PiecesAreSeqs
<1> HIDE DEF d
<1>4. IsSeq(q) /\ Len(q) = 10 /\ q[1] = e /\ \A m \in 1 .. 9 : q[1 + m] = d[m]
  <2> DEFINE o == <<e>>
  <2>1. IsSeq(o) /\ Len(o) = 1 /\ o[1] = e
    BY OneIsSeq
  <2>2. q = o \o d
    BY DEF d
  <2> HIDE DEF o, q
  <2>3. Joins(q, o, d)
    BY <1>3, <2>1, <2>2, Joined
  <2> QED BY <1>3, <2>1, <2>3 DEF Joins
<1> HIDE DEF q
<1>5. /\ IsSeq(s) /\ Len(s) = 11 /\ s[1] = e /\ \A m \in 1 .. 9 : s[1 + m] = d[m]
      /\ s[11] = r
  <2> DEFINE o == <<r>>
  <2>1. IsSeq(o) /\ Len(o) = 1 /\ o[1] = r
    BY OneIsSeq
  <2> HIDE DEF o
  <2>2. s = q \o o
    BY DEF o
  <2> HIDE DEF s
  <2>3. Joins(s, q, o)
    BY <1>4, <2>1, <2>2, Joined
  <2>4. Len(s) = 11 /\ (\A j \in 1 .. 10 : s[j] = q[j]) /\ s[10 + 1] = o[1]
    BY <1>4, <2>1, <2>3 DEF Joins
  <2>5. \A m \in 1 .. 9 : s[1 + m] = d[m]
    BY <1>4, <2>4
  <2> QED BY <1>4, <2>1, <2>3, <2>4, <2>5 DEF Joins
<1> HIDE DEF s
<1>6. CASE path = "psk"
  <2>1. Joins(ServerHello, p, d)
    BY <1>1, <1>2, <1>3, <1>6, Joined DEF d
  <2>2. /\ IsSeq(ServerHello) /\ Len(ServerHello) = 14
        /\ \A j \in 1 .. 5 : ServerHello[j] = p[j]
        /\ \A j \in 1 .. 9 : ServerHello[5 + j] = d[j]
    BY <1>2, <1>3, <2>1 DEF Joins
  <2>3. /\ ServerHello[1] = x1 /\ ServerHello[2] = x2 /\ ServerHello[3] = x3
        /\ ServerHello[4] = x4 /\ ServerHello[5] = x5
    BY <1>2, <2>2
  <2> QED BY <1>6, <2>2, <2>3, Zenon DEF x1, x2, x3, x4, x5, d
<1>7. CASE path # "psk"
  <2>1. Joins(ServerHello, p, s)
    BY <1>1, <1>2, <1>5, <1>7, Joined
  <2>2. /\ IsSeq(ServerHello) /\ Len(ServerHello) = 16
        /\ \A j \in 1 .. 5 : ServerHello[j] = p[j]
        /\ \A j \in 1 .. 11 : ServerHello[5 + j] = s[j]
    BY <1>2, <1>5, <2>1 DEF Joins
  <2>3. /\ ServerHello[1] = x1 /\ ServerHello[2] = x2 /\ ServerHello[3] = x3
        /\ ServerHello[4] = x4 /\ ServerHello[5] = x5
    BY <1>2, <2>2
  <2>4. ServerHello[5 + 1] = e /\ ServerHello[5 + 11] = r
    BY <1>5, <2>2
  <2>5. ASSUME NEW m \in 1 .. 9 PROVE ServerHello[6 + m] = d[m]
    <3>1. 1 + m \in 1 .. 11 /\ 5 + (1 + m) = 6 + m
      OBVIOUS
    <3> QED BY <1>5, <2>2, <3>1
  <2>6. ServerHello[6] = e /\ ServerHello[16] = r
    BY <2>4
  <2> QED BY <1>7, <2>2, <2>3, <2>5, <2>6, Zenon DEF x1, x2, x3, x4, x5, e, r, d
<1> QED BY <1>6, <1>7

(* Piece p of the program stands behind its first o calls. *)
Placed(p, o) == \A m \in 1 .. Len(p) : Program[o + m] = p[m]

LEMMA PlacedIn ==
    ASSUME NEW r, NEW t, NEW p, NEW o \in Nat, NEW n \in Nat, Len(p) = n,
           \A m \in 1 .. n : r[o + m] = p[m],
           \A j \in 1 .. o + n : t[j] = r[j]
    PROVE  \A m \in 1 .. n : t[o + m] = p[m]
<1> SUFFICES ASSUME NEW m \in 1 .. n PROVE t[o + m] = p[m]
  OBVIOUS
<1>1. o + m \in 1 .. o + n
  OBVIOUS
<1> QED BY <1>1

LEMMA ProgramPieces ==
    /\ Len(Program) = LastCall
    /\ path = "psk" => Placed(PskHello, 0) /\ Placed(PskFlight, FlightFrom)
    /\ path # "psk" => Placed(CertHello, 0) /\ Placed(CertFlight, FlightFrom)
    /\ Placed(ServerHello, HelloEnd) /\ Placed(ClientFinished, FinFrom)
    /\ Placed(SessionEstablish, SessionFrom)
<1> DEFINE a == IF path = "psk" THEN PskHello ELSE CertHello
           b == IF path = "psk" THEN PskFlight ELSE CertFlight
           ab == a \o ServerHello
           abc == ab \o b
           abcd == abc \o ClientFinished
<1>1. Program = abcd \o SessionEstablish
  BY DEF Program
<1>2. /\ path = "psk" => a = PskHello /\ b = PskFlight
      /\ path # "psk" => a = CertHello /\ b = CertFlight
  OBVIOUS
<1> HIDE DEF a, b
<1>3. PICK h \in Nat, f \in Nat, g \in Nat, x \in Nat, y \in Nat :
         /\ h = HelloEnd /\ f = FlightFrom /\ g = FinFrom /\ f = h + x /\ g = f + y
         /\ (path = "psk" => h = 8 /\ x = 14 /\ y = 5)
         /\ (path # "psk" => h = 4 /\ x = 16 /\ y = 9)
  <2>1. CASE path = "psk"
    <3>1. HelloEnd = 8 /\ FlightFrom = 22 /\ FinFrom = 27
      BY <2>1 DEF HelloEnd, FlightFrom, FinFrom
    <3> QED BY <2>1, <3>1
  <2>2. CASE path # "psk"
    <3>1. HelloEnd = 4 /\ FlightFrom = 20 /\ FinFrom = 29
      BY <2>2 DEF HelloEnd, FlightFrom, FinFrom
    <3> QED BY <2>2, <3>1
  <2> QED BY <2>1, <2>2
<1>4. IsSeq(a) /\ Len(a) = h
  BY <1>2, <1>3, PiecesAreSeqs, PskHelloCalls, CertHelloCalls
<1>5. IsSeq(ServerHello) /\ Len(ServerHello) = x
  BY <1>3, ServerHelloCalls
<1>6. IsSeq(b) /\ Len(b) = y
  BY <1>2, <1>3, PiecesAreSeqs, PskFlightCalls, CertFlightCalls
<1>7. Joins(ab, a, ServerHello)
  BY <1>4, <1>5, Joined
<1> HIDE DEF ab
<1>8. /\ IsSeq(ab) /\ Len(ab) = f /\ (\A j \in 1 .. h : ab[j] = a[j])
      /\ \A j \in 1 .. x : ab[h + j] = ServerHello[j]
  BY <1>3, <1>4, <1>5, <1>7 DEF Joins
<1>9. Joins(abc, ab, b)
  BY <1>6, <1>8, Joined
<1> HIDE DEF abc
<1>10. /\ IsSeq(abc) /\ Len(abc) = g /\ (\A j \in 1 .. f : abc[j] = ab[j])
       /\ \A j \in 1 .. y : abc[f + j] = b[j]
  BY <1>3, <1>6, <1>8, <1>9 DEF Joins
<1>11. IsSeq(ClientFinished) /\ Len(ClientFinished) = 3
  BY PiecesAreSeqs, ClientFinishedCalls
<1>12. Joins(abcd, abc, ClientFinished)
  BY <1>10, <1>11, Joined
<1> HIDE DEF abcd
<1>13. /\ IsSeq(abcd) /\ Len(abcd) = g + 3 /\ (\A j \in 1 .. g : abcd[j] = abc[j])
       /\ \A j \in 1 .. 3 : abcd[g + j] = ClientFinished[j]
  BY <1>3, <1>10, <1>11, <1>12 DEF Joins
<1>14. IsSeq(SessionEstablish) /\ Len(SessionEstablish) = 10
  BY PiecesAreSeqs, SessionEstablishCalls
<1>15. Joins(Program, abcd, SessionEstablish)
  BY <1>1, <1>13, <1>14, Joined
<1>16. /\ Len(Program) = g + 3 + 10 /\ (\A j \in 1 .. g + 3 : Program[j] = abcd[j])
       /\ \A j \in 1 .. 10 : Program[g + 3 + j] = SessionEstablish[j]
  BY <1>3, <1>13, <1>14, <1>15 DEF Joins
<1>17. \A j \in 1 .. g : Program[j] = abc[j]
  BY <1>3, <1>13, <1>16
<1>18. \A j \in 1 .. f : Program[j] = ab[j]
  BY <1>3, <1>10, <1>17
<1>19. Placed(a, 0)
  BY <1>3, <1>4, <1>8, <1>18 DEF Placed
<1>20. Placed(ServerHello, HelloEnd)
  <2>1. \A m \in 1 .. x : Program[h + m] = ServerHello[m]
    BY <1>3, <1>5, <1>8, <1>18, PlacedIn
  <2> QED BY <1>3, <1>5, <2>1 DEF Placed
<1>21. Placed(b, FlightFrom)
  <2>1. \A m \in 1 .. y : Program[f + m] = b[m]
    BY <1>3, <1>6, <1>10, <1>17, PlacedIn
  <2> QED BY <1>3, <1>6, <2>1 DEF Placed
<1>22. Placed(ClientFinished, FinFrom)
  <2>1. ASSUME NEW m \in 1 .. 3 PROVE Program[g + m] = ClientFinished[m]
    <3>1. g + m \in 1 .. g + 3
      BY <1>3
    <3> QED BY <1>13, <1>16, <3>1
  <2> QED BY <1>3, <1>11, <2>1 DEF Placed
<1>23. Placed(SessionEstablish, SessionFrom) /\ Len(Program) = LastCall
  BY <1>3, <1>14, <1>16 DEF Placed, SessionFrom, LastCall
<1> QED BY <1>2, <1>19, <1>20, <1>21, <1>22, <1>23

-----------------------------------------------------------------------------
(***************************************************************************)
(* Where the calls stand                                                   *)
(***************************************************************************)
Is(x, op, out, from, label) ==
    x.op = op /\ x.out = out /\ x.from = from /\ x.label = label

LEMMA IsDo ==
    ASSUME NEW op, NEW out, NEW from, NEW label
    PROVE  /\ Is(Do(op, out, from, label), op, out, from, label)
           /\ Is(Opening(Do(op, out, from, label)), op, out, from, label)
BY DEF Do, Opening, Is

LEMMA Forms ==
    /\ \A o, s, l, t : /\ Is(Derive(o, s, l, t), "expand", o, <<s, t>>, l)
                       /\ Is(Opening(Derive(o, s, l, t)), "expand", o, <<s, t>>, l)
    /\ \A o, s, t : /\ Is(Extracts(o, s, t), "extract", o, <<s, t>>, "none")
                    /\ Is(Opening(Extracts(o, s, t)), "extract", o, <<s, t>>, "none")
                    /\ Is(Opening(Mac(o, s, t)), "mac", o, <<s, t>>, "none")
    /\ \A o : Is(Opening(GetHash(o)), "hash", o, <<>>, "none")
    /\ \A m : Is(Opening(Update(m)), "update", "none", <<>>, m)
    /\ \A b : Is(Wipe(b), "wipe", "none", b, "none")
BY IsDo, Zenon DEF Derive, Extracts, Mac, GetHash, Update, Wipe

(* What a call at the j-th place may do: each buffer is written where the table
   WrittenAt says, and each other operation has its places. *)
Sited(j, op, out) ==
    /\ out \in Once => j = WrittenAt(out)
    /\ out = "th" => j \in (IF path = "psk" THEN {5, 24} ELSE {26}) \cup {HelloEnd + 5, FinFrom + 1}
    /\ out = "mac" => j \in {MacAt, FinFrom + 2}
    /\ out = "derived" => j \in {KeysFrom + 1, SessionFrom + 1}
    /\ out = "master" => j = SessionFrom + 2
    /\ out \notin {"nil", "zeros", "psk"}
    /\ op = "update" => \E m \in 1 .. N : j = UpdateAt[m]
    /\ op = "wipe" => j \in {KeysFrom + 9, SessionFrom + 10}
    /\ op = "send" => j \in {HelloEnd, FinFrom + 3}
    /\ op = "receive" => j = HelloEnd + 1
    /\ op = "params" => j = HelloEnd + 3
    /\ op = "keyshare" => j \in {2, HelloEnd + 4}
    /\ op = "ready" => path # "psk" /\ j = FlightFrom
    /\ op = "verify" => path # "psk" /\ j = FlightFrom + 5
    /\ op = "finished" => j = FinishedAt
    /\ op = "establish" => j = SessionFrom + 9

SitedCall(j) == Sited(j, Program[j].op, Program[j].out)

(* The calls before ClientHello is sent, and that *)
PskHelloTable ==
    /\ Is(Program[1], "empty", "emptyHash", <<>>, "none")
    /\ Is(Program[2], "keyshare", "none", <<>>, "Init")
    /\ Is(Program[3], "extract", "early", <<"nil", "psk">>, "none")
    /\ Is(Program[4], "expand", "binderKey", <<"early", "emptyHash">>, "ext binder")
    /\ Is(Program[5], "hash truncated", "th", <<>>, "none")
    /\ Is(Program[6], "mac", "binder", <<"binderKey", "th">>, "none")
    /\ Is(Program[7], "update", "none", <<>>, "CH")
    /\ Is(Program[8], "send", "none", <<"binder">>, "hello")

LEMMA PskHelloAt ==
    ASSUME path = "psk"
    PROVE  PskHelloTable /\ \A j \in 1 .. HelloEnd : SitedCall(j)
<1>0. HelloEnd = 8
  BY DEF HelloEnd
<1>1. ASSUME NEW m \in 1 .. 8 PROVE Program[m] = PskHello[m]
  <2>1. \A n \in 1 .. 8 : Program[0 + n] = PskHello[n]
    <3>1. Placed(PskHello, 0) /\ Len(PskHello) = 8
      BY ProgramPieces, PskHelloCalls, Zenon
    <3> QED BY <3>1 DEF Placed
  <2> QED BY <2>1
<1>2. /\ Program[1] = PskHello[1] /\ Program[2] = PskHello[2] /\ Program[3] = PskHello[3]
      /\ Program[4] = PskHello[4] /\ Program[5] = PskHello[5] /\ Program[6] = PskHello[6]
      /\ Program[7] = PskHello[7] /\ Program[8] = PskHello[8]
  BY <1>1
<1>3. PskHelloTable
  BY <1>2, PskHelloCalls, Forms, IsDo, ZenonT(60) DEF PskHelloTable
<1>4. /\ Sited(1, "empty", "emptyHash") /\ Sited(2, "keyshare", "none")
      /\ Sited(3, "extract", "early") /\ Sited(4, "expand", "binderKey")
  BY DEF Sited, Once, WrittenAt
<1>5. /\ Sited(5, "hash truncated", "th") /\ Sited(6, "mac", "binder")
      /\ Sited(7, "update", "none") /\ Sited(8, "send", "none")
  BY <1>0 DEF Sited, Once, WrittenAt, UpdateAt, N
<1>6. /\ SitedCall(1) /\ SitedCall(2) /\ SitedCall(3) /\ SitedCall(4) /\ SitedCall(5)
      /\ SitedCall(6) /\ SitedCall(7) /\ SitedCall(8)
  BY <1>3, <1>4, <1>5 DEF PskHelloTable, Is, SitedCall
<1>7. \A j \in 1 .. 8 : SitedCall(j)
  BY <1>6
<1> QED BY <1>0, <1>3, <1>7

CertHelloTable ==
    /\ Is(Program[1], "empty", "emptyHash", <<>>, "none")
    /\ Is(Program[2], "keyshare", "none", <<>>, "Init")
    /\ Is(Program[3], "update", "none", <<>>, "CH")
    /\ Is(Program[4], "send", "none", <<>>, "hello")

LEMMA CertHelloAt ==
    ASSUME path # "psk"
    PROVE  CertHelloTable /\ \A j \in 1 .. HelloEnd : SitedCall(j)
<1>0. HelloEnd = 4
  BY DEF HelloEnd
<1>1. \A m \in 1 .. 4 : Program[m] = CertHello[m]
  BY ProgramPieces, CertHelloCalls DEF Placed
<1>2. /\ Program[1] = CertHello[1] /\ Program[2] = CertHello[2] /\ Program[3] = CertHello[3]
      /\ Program[4] = CertHello[4]
  BY <1>1
<1>3. CertHelloTable
  BY <1>2, CertHelloCalls, Forms, IsDo, Zenon DEF CertHelloTable
<1>4. /\ Sited(1, "empty", "emptyHash") /\ Sited(2, "keyshare", "none")
      /\ Sited(3, "update", "none") /\ Sited(4, "send", "none")
  BY <1>0 DEF Sited, Once, WrittenAt, UpdateAt, N
<1>5. SitedCall(1) /\ SitedCall(2) /\ SitedCall(3) /\ SitedCall(4)
  BY <1>3, <1>4 DEF CertHelloTable, Is, SitedCall
<1>6. \A j \in 1 .. 4 : SitedCall(j)
  BY <1>5
<1> QED BY <1>0, <1>3, <1>6

(* ServerHello, and the handshake keys *)
ServerHelloTable ==
    /\ Is(Program[HelloEnd + 1], "receive", "none", <<>>, "none")
    /\ Is(Program[HelloEnd + 2], "update", "none", <<>>, "SH")
    /\ Is(Program[HelloEnd + 3], "params", "none", <<>>, "none")
    /\ Is(Program[HelloEnd + 4], "keyshare", "none", <<>>, "Shared")
    /\ Is(Program[HelloEnd + 5], "hash", "th", <<>>, "none")
    /\ path # "psk" => /\ Is(Program[KeysFrom], "extract", "early", <<"nil", "zeros">>, "none")
                       /\ Is(Program[FlightFrom], "ready", "none", <<>>, "none")

KeysTable ==
    /\ Is(Program[KeysFrom + 1], "expand", "derived", <<"early", "emptyHash">>, "derived")
    /\ Is(Program[KeysFrom + 2], "extract", "hs", <<"derived", "ecdhe">>, "none")
    /\ Is(Program[KeysFrom + 3], "expand", "cHs", <<"hs", "th">>, "c hs traffic")
    /\ Is(Program[KeysFrom + 4], "expand", "sHs", <<"hs", "th">>, "s hs traffic")
    /\ Is(Program[KeysFrom + 5], "expand", "cKey", <<"cHs", "nil">>, "key")
    /\ Is(Program[KeysFrom + 6], "expand", "cIv", <<"cHs", "nil">>, "iv")
    /\ Is(Program[KeysFrom + 7], "expand", "sKey", <<"sHs", "nil">>, "key")
    /\ Is(Program[KeysFrom + 8], "expand", "sIv", <<"sHs", "nil">>, "iv")
    /\ Is(Program[KeysFrom + 9], "wipe", "none", <<"derived">>, "none")

LEMMA ServerHelloAt ==
    /\ ServerHelloTable /\ KeysTable
    /\ \A j \in HelloEnd + 1 .. FlightFrom : SitedCall(j)
<1>1. PICK h \in Nat, d \in Nat, f \in Nat :
         /\ h = HelloEnd /\ d = KeysFrom /\ f = FlightFrom
         /\ (path = "psk" => h = 8 /\ d = 13 /\ f = 22)
         /\ (path # "psk" => h = 4 /\ d = 10 /\ f = 20)
  <2>1. CASE path = "psk"
    BY <2>1 DEF HelloEnd, FlightFrom, KeysFrom
  <2>2. CASE path # "psk"
    BY <2>2 DEF HelloEnd, FlightFrom, KeysFrom
  <2> QED BY <2>1, <2>2
<1>2. ASSUME NEW m \in 1 .. 14 PROVE Program[h + m] = ServerHello[m]
  BY <1>1, ProgramPieces, ServerHelloCalls DEF Placed
<1>3. ASSUME NEW m \in 1 .. 9 PROVE Program[d + m] = DeriveHsKeys[m]
  <2>1. CASE path = "psk"
    <3>1. 5 + m \in 1 .. 14 /\ h + (5 + m) = d + m
      BY <1>1, <2>1
    <3> QED BY <1>2, <2>1, <3>1, ServerHelloCalls
  <2>2. CASE path # "psk"
    <3>1. 6 + m \in 1 .. 16 /\ h + (6 + m) = d + m
      BY <1>1, <2>2
    <3>2. Program[h + (6 + m)] = ServerHello[6 + m]
      BY <1>1, <2>2, <3>1, ProgramPieces, ServerHelloCalls DEF Placed
    <3> QED BY <2>2, <3>1, <3>2, ServerHelloCalls
  <2> QED BY <2>1, <2>2
<1>4. /\ Program[h + 1] = ServerHello[1] /\ Program[h + 2] = ServerHello[2]
      /\ Program[h + 3] = ServerHello[3] /\ Program[h + 4] = ServerHello[4]
      /\ Program[h + 5] = ServerHello[5]
  BY <1>2
<1>5. path # "psk" => Program[d] = ServerHello[6] /\ Program[f] = ServerHello[16]
  <2> SUFFICES ASSUME path # "psk" PROVE Program[d] = ServerHello[6] /\ Program[f] = ServerHello[16]
    OBVIOUS
  <2>1. \A m \in 1 .. 16 : Program[h + m] = ServerHello[m]
    BY <1>1, ProgramPieces, ServerHelloCalls DEF Placed
  <2>2. h + 6 = d /\ h + 16 = f
    BY <1>1
  <2>3. Program[h + 6] = ServerHello[6] /\ Program[h + 16] = ServerHello[16]
    BY <2>1
  <2> QED BY <2>2, <2>3
<1>6. ServerHelloTable
  <2>0. /\ ServerHello[1] = Opening(Do("receive", "none", <<>>, "none"))
        /\ ServerHello[2] = Opening(Update("SH"))
        /\ ServerHello[3] = Opening(Do("params", "none", <<>>, "none"))
        /\ ServerHello[4] = Opening(Do("keyshare", "none", <<>>, "Shared"))
        /\ ServerHello[5] = Opening(GetHash("th"))
        /\ path # "psk" => /\ ServerHello[6] = Extracts("early", "nil", "zeros")
                           /\ ServerHello[16] = Do("ready", "none", <<>>, "none")
    BY ServerHelloCalls
  <2>1. /\ Is(Program[h + 1], "receive", "none", <<>>, "none")
        /\ Is(Program[h + 2], "update", "none", <<>>, "SH")
        /\ Is(Program[h + 3], "params", "none", <<>>, "none")
        /\ Is(Program[h + 4], "keyshare", "none", <<>>, "Shared")
        /\ Is(Program[h + 5], "hash", "th", <<>>, "none")
    BY <1>4, <2>0, Forms, IsDo, Zenon
  <2>2. path # "psk" => /\ Is(Program[d], "extract", "early", <<"nil", "zeros">>, "none")
                        /\ Is(Program[f], "ready", "none", <<>>, "none")
    BY <1>5, <2>0, Forms, IsDo, Zenon
  <2> QED BY <1>1, <2>1, <2>2 DEF ServerHelloTable
<1>7. KeysTable
  <2>1. /\ Program[d + 1] = DeriveHsKeys[1] /\ Program[d + 2] = DeriveHsKeys[2]
        /\ Program[d + 3] = DeriveHsKeys[3] /\ Program[d + 4] = DeriveHsKeys[4]
        /\ Program[d + 5] = DeriveHsKeys[5] /\ Program[d + 6] = DeriveHsKeys[6]
        /\ Program[d + 7] = DeriveHsKeys[7] /\ Program[d + 8] = DeriveHsKeys[8]
        /\ Program[d + 9] = DeriveHsKeys[9]
    BY <1>3
  <2>2. /\ Is(Program[d + 1], "expand", "derived", <<"early", "emptyHash">>, "derived")
        /\ Is(Program[d + 2], "extract", "hs", <<"derived", "ecdhe">>, "none")
        /\ Is(Program[d + 3], "expand", "cHs", <<"hs", "th">>, "c hs traffic")
        /\ Is(Program[d + 4], "expand", "sHs", <<"hs", "th">>, "s hs traffic")
        /\ Is(Program[d + 5], "expand", "cKey", <<"cHs", "nil">>, "key")
        /\ Is(Program[d + 6], "expand", "cIv", <<"cHs", "nil">>, "iv")
        /\ Is(Program[d + 7], "expand", "sKey", <<"sHs", "nil">>, "key")
        /\ Is(Program[d + 8], "expand", "sIv", <<"sHs", "nil">>, "iv")
        /\ Is(Program[d + 9], "wipe", "none", <<"derived">>, "none")
    BY <2>1, DeriveHsKeysCalls, Forms, ZenonT(60)
  <2> QED BY <1>1, <2>2 DEF KeysTable
<1>8. /\ SitedCall(h + 1) /\ SitedCall(h + 2) /\ SitedCall(h + 3) /\ SitedCall(h + 4)
      /\ SitedCall(h + 5) /\ (path # "psk" => SitedCall(d) /\ SitedCall(f))
  <2>1. /\ Sited(h + 1, "receive", "none") /\ Sited(h + 2, "update", "none")
        /\ Sited(h + 3, "params", "none") /\ Sited(h + 4, "keyshare", "none")
        /\ Sited(h + 5, "hash", "th")
    BY <1>1 DEF Sited, Once, WrittenAt, UpdateAt, N
  <2>2. path # "psk" => Sited(d, "extract", "early") /\ Sited(f, "ready", "none")
    BY <1>1 DEF Sited, Once, WrittenAt
  <2> QED BY <1>1, <1>6, <2>1, <2>2 DEF ServerHelloTable, Is, SitedCall
<1>9. /\ SitedCall(d + 1) /\ SitedCall(d + 2) /\ SitedCall(d + 3) /\ SitedCall(d + 4)
      /\ SitedCall(d + 5) /\ SitedCall(d + 6) /\ SitedCall(d + 7) /\ SitedCall(d + 8)
      /\ SitedCall(d + 9)
  <2>1. /\ Sited(d + 1, "expand", "derived") /\ Sited(d + 2, "extract", "hs")
        /\ Sited(d + 3, "expand", "cHs") /\ Sited(d + 4, "expand", "sHs")
        /\ Sited(d + 5, "expand", "cKey") /\ Sited(d + 6, "expand", "cIv")
    BY <1>1 DEF Sited, Once, WrittenAt
  <2>2. /\ Sited(d + 7, "expand", "sKey") /\ Sited(d + 8, "expand", "sIv")
        /\ Sited(d + 9, "wipe", "none")
    BY <1>1 DEF Sited, Once
  <2> QED BY <1>1, <1>7, <2>1, <2>2 DEF KeysTable, Is, SitedCall
<1>10. ASSUME NEW j \in HelloEnd + 1 .. FlightFrom PROVE SitedCall(j)
  <2>1. \/ j \in {h + 1, h + 2, h + 3, h + 4, h + 5}
        \/ path # "psk" /\ j \in {d, f}
        \/ j \in {d + 1, d + 2, d + 3, d + 4, d + 5, d + 6, d + 7, d + 8, d + 9}
    BY <1>1
  <2> QED BY <1>8, <1>9, <2>1
<1> QED BY <1>6, <1>7, <1>10

(* The flight *)
PskFlightTable ==
    /\ Is(Program[23], "update", "none", <<>>, "EE")
    /\ Is(Program[24], "hash", "th", <<>>, "none")
    /\ Is(Program[25], "mac", "mac", <<"sHs", "th">>, "none")
    /\ Is(Program[26], "finished", "recvMac", <<"mac">>, "none")
    /\ Is(Program[27], "update", "none", <<>>, "FIN")

LEMMA PskFlightAt ==
    ASSUME path = "psk"
    PROVE  PskFlightTable /\ \A j \in FlightFrom + 1 .. FinFrom : SitedCall(j)
<1>0. FlightFrom = 22 /\ FinFrom = 27 /\ FinishedAt = 26 /\ MacAt = 25
  BY DEF FlightFrom, FinFrom, FinishedAt, MacAt
<1>1. \A m \in 1 .. 5 : Program[22 + m] = PskFlight[m]
  BY <1>0, ProgramPieces, PskFlightCalls DEF Placed
<1>2. /\ Program[22 + 1] = PskFlight[1] /\ Program[22 + 2] = PskFlight[2]
      /\ Program[22 + 3] = PskFlight[3] /\ Program[22 + 4] = PskFlight[4]
      /\ Program[22 + 5] = PskFlight[5]
  BY <1>1
<1>3. PskFlightTable
  <2>1. /\ Program[23] = PskFlight[1] /\ Program[24] = PskFlight[2] /\ Program[25] = PskFlight[3]
        /\ Program[26] = PskFlight[4] /\ Program[27] = PskFlight[5]
    BY <1>2
  <2> QED BY <2>1, PskFlightCalls, Forms, IsDo, ZenonT(60) DEF PskFlightTable
<1>4. /\ Sited(23, "update", "none") /\ Sited(24, "hash", "th") /\ Sited(25, "mac", "mac")
      /\ Sited(26, "finished", "recvMac") /\ Sited(27, "update", "none")
  BY <1>0 DEF Sited, Once, UpdateAt, N
<1>5. SitedCall(23) /\ SitedCall(24) /\ SitedCall(25) /\ SitedCall(26) /\ SitedCall(27)
  BY <1>3, <1>4 DEF PskFlightTable, Is, SitedCall
<1>6. \A j \in 22 + 1 .. 27 : SitedCall(j)
  BY <1>5
<1> QED BY <1>0, <1>3, <1>6

CertFlightTable ==
    /\ Is(Program[21], "update", "none", <<>>, "EE")
    /\ Is(Program[22], "update", "none", <<>>, "CERT")
    /\ Is(Program[23], "hash", "thCert", <<>>, "none")
    /\ Is(Program[24], "update", "none", <<>>, "CV")
    /\ Is(Program[25], "verify", "none", <<"thCert">>, "none")
    /\ Is(Program[26], "hash", "th", <<>>, "none")
    /\ Is(Program[27], "update", "none", <<>>, "FIN")
    /\ Is(Program[28], "mac", "mac", <<"sHs", "th">>, "none")
    /\ Is(Program[29], "finished", "recvMac", <<"mac">>, "none")

LEMMA CertFlightAt ==
    ASSUME path # "psk"
    PROVE  CertFlightTable /\ \A j \in FlightFrom + 1 .. FinFrom : SitedCall(j)
<1>0. FlightFrom = 20 /\ FinFrom = 29 /\ FinishedAt = 29 /\ MacAt = 28
  BY DEF FlightFrom, FinFrom, FinishedAt, MacAt
<1>1. \A m \in 1 .. 9 : Program[20 + m] = CertFlight[m]
  BY <1>0, ProgramPieces, CertFlightCalls DEF Placed
<1>2. /\ Program[20 + 1] = CertFlight[1] /\ Program[20 + 2] = CertFlight[2]
      /\ Program[20 + 3] = CertFlight[3] /\ Program[20 + 4] = CertFlight[4]
      /\ Program[20 + 5] = CertFlight[5] /\ Program[20 + 6] = CertFlight[6]
      /\ Program[20 + 7] = CertFlight[7] /\ Program[20 + 8] = CertFlight[8]
      /\ Program[20 + 9] = CertFlight[9]
  BY <1>1
<1>3. CertFlightTable
  <2>1. /\ Program[21] = CertFlight[1] /\ Program[22] = CertFlight[2] /\ Program[23] = CertFlight[3]
        /\ Program[24] = CertFlight[4] /\ Program[25] = CertFlight[5] /\ Program[26] = CertFlight[6]
        /\ Program[27] = CertFlight[7] /\ Program[28] = CertFlight[8] /\ Program[29] = CertFlight[9]
    BY <1>2
  <2>2. /\ Is(Program[21], "update", "none", <<>>, "EE")
        /\ Is(Program[22], "update", "none", <<>>, "CERT")
        /\ Is(Program[23], "hash", "thCert", <<>>, "none")
        /\ Is(Program[24], "update", "none", <<>>, "CV")
    BY <2>1, CertFlightCalls, Forms, ZenonT(60)
  <2>3. /\ Is(Program[25], "verify", "none", <<"thCert">>, "none")
        /\ Is(Program[26], "hash", "th", <<>>, "none")
        /\ Is(Program[27], "update", "none", <<>>, "FIN")
    BY <2>1, CertFlightCalls, Forms, IsDo, ZenonT(60)
  <2>4. /\ Is(Program[28], "mac", "mac", <<"sHs", "th">>, "none")
        /\ Is(Program[29], "finished", "recvMac", <<"mac">>, "none")
    BY <2>1, CertFlightCalls, Forms, IsDo, ZenonT(60)
  <2> QED BY <2>2, <2>3, <2>4 DEF CertFlightTable
<1>4. /\ Sited(21, "update", "none") /\ Sited(22, "update", "none") /\ Sited(23, "hash", "thCert")
      /\ Sited(24, "update", "none") /\ Sited(25, "verify", "none")
  BY <1>0 DEF Sited, Once, WrittenAt, UpdateAt, N
<1>5. /\ Sited(26, "hash", "th") /\ Sited(27, "update", "none") /\ Sited(28, "mac", "mac")
      /\ Sited(29, "finished", "recvMac")
  BY <1>0 DEF Sited, Once, UpdateAt, N
<1>6. /\ SitedCall(21) /\ SitedCall(22) /\ SitedCall(23) /\ SitedCall(24) /\ SitedCall(25)
      /\ SitedCall(26) /\ SitedCall(27) /\ SitedCall(28) /\ SitedCall(29)
  BY <1>3, <1>4, <1>5 DEF CertFlightTable, Is, SitedCall
<1>7. \A j \in 20 + 1 .. 29 : SitedCall(j)
  BY <1>6
<1> QED BY <1>0, <1>3, <1>7

(* The client's Finished and the session *)
FinishedTable ==
    /\ Is(Program[FinFrom + 1], "hash", "th", <<>>, "none")
    /\ Is(Program[FinFrom + 2], "mac", "mac", <<"cHs", "th">>, "none")
    /\ Is(Program[FinFrom + 3], "send", "fin", <<"mac", "cKey", "cIv">>, "finished")
    /\ Program[FinFrom + 3].first

SessionTable ==
    /\ Is(Program[SessionFrom + 1], "expand", "derived", <<"hs", "emptyHash">>, "derived")
    /\ Is(Program[SessionFrom + 2], "extract", "master", <<"derived", "zeros">>, "none")
    /\ Is(Program[SessionFrom + 3], "expand", "cAppSecret", <<"master", "th">>, "c ap traffic")
    /\ Is(Program[SessionFrom + 4], "expand", "sAppSecret", <<"master", "th">>, "s ap traffic")
    /\ Is(Program[SessionFrom + 5], "expand", "sess.cKey", <<"cAppSecret", "nil">>, "key")
    /\ Is(Program[SessionFrom + 6], "expand", "sess.cIv", <<"cAppSecret", "nil">>, "iv")
    /\ Is(Program[SessionFrom + 7], "expand", "sess.sKey", <<"sAppSecret", "nil">>, "key")
    /\ Is(Program[SessionFrom + 8], "expand", "sess.sIv", <<"sAppSecret", "nil">>, "iv")
    /\ Is(Program[SessionFrom + 9], "establish", "none", <<>>, "none")
    /\ Is(Program[SessionFrom + 10], "wipe", "none", <<"derived", "master">>, "none")

LEMMA SessionAt ==
    /\ FinishedTable /\ SessionTable
    /\ \A j \in FinFrom + 1 .. LastCall : SitedCall(j)
<1>1. PICK f \in Nat, s \in Nat :
         f = FinFrom /\ s = SessionFrom /\ s = f + 3 /\ LastCall = s + 10 /\ f >= 27
  BY DEF FinFrom, SessionFrom, LastCall
<1>2. \A m \in 1 .. 3 : Program[f + m] = ClientFinished[m]
  BY <1>1, ProgramPieces, ClientFinishedCalls DEF Placed
<1>3. \A m \in 1 .. 10 : Program[s + m] = SessionEstablish[m]
  BY <1>1, ProgramPieces, SessionEstablishCalls DEF Placed
<1>4. FinishedTable
  <2>1. /\ Program[f + 1] = ClientFinished[1] /\ Program[f + 2] = ClientFinished[2]
        /\ Program[f + 3] = ClientFinished[3]
    BY <1>2
  <2>2. /\ Is(Program[f + 1], "hash", "th", <<>>, "none")
        /\ Is(Program[f + 2], "mac", "mac", <<"cHs", "th">>, "none")
        /\ Is(Program[f + 3], "send", "fin", <<"mac", "cKey", "cIv">>, "finished")
    BY <2>1, ClientFinishedCalls, Forms, IsDo, Zenon
  <2>3. Program[f + 3].first
    BY <2>1, ClientFinishedCalls DEF Do, Opening
  <2> QED BY <1>1, <2>2, <2>3 DEF FinishedTable
<1>5. /\ SessionTable
      /\ Program[s + 1].op = "expand" /\ Program[s + 1].out = "derived"
      /\ Program[s + 2].op = "extract" /\ Program[s + 2].out = "master"
      /\ Program[s + 3].op = "expand" /\ Program[s + 3].out = "cAppSecret"
      /\ Program[s + 4].op = "expand" /\ Program[s + 4].out = "sAppSecret"
      /\ Program[s + 5].op = "expand" /\ Program[s + 5].out = "sess.cKey"
      /\ Program[s + 6].op = "expand" /\ Program[s + 6].out = "sess.cIv"
      /\ Program[s + 7].op = "expand" /\ Program[s + 7].out = "sess.sKey"
      /\ Program[s + 8].op = "expand" /\ Program[s + 8].out = "sess.sIv"
      /\ Program[s + 9].op = "establish" /\ Program[s + 9].out = "none"
      /\ Program[s + 10].op = "wipe" /\ Program[s + 10].out = "none"
  <2>1. /\ Program[s + 1] = SessionEstablish[1] /\ Program[s + 2] = SessionEstablish[2]
        /\ Program[s + 3] = SessionEstablish[3] /\ Program[s + 4] = SessionEstablish[4]
        /\ Program[s + 5] = SessionEstablish[5] /\ Program[s + 6] = SessionEstablish[6]
        /\ Program[s + 7] = SessionEstablish[7] /\ Program[s + 8] = SessionEstablish[8]
        /\ Program[s + 9] = SessionEstablish[9] /\ Program[s + 10] = SessionEstablish[10]
    BY <1>3
  <2>2. /\ Is(Program[s + 1], "expand", "derived", <<"hs", "emptyHash">>, "derived")
        /\ Is(Program[s + 2], "extract", "master", <<"derived", "zeros">>, "none")
        /\ Is(Program[s + 3], "expand", "cAppSecret", <<"master", "th">>, "c ap traffic")
        /\ Is(Program[s + 4], "expand", "sAppSecret", <<"master", "th">>, "s ap traffic")
    BY <2>1, SessionEstablishCalls, Forms, ZenonT(60)
  <2>3. /\ Is(Program[s + 5], "expand", "sess.cKey", <<"cAppSecret", "nil">>, "key")
        /\ Is(Program[s + 6], "expand", "sess.cIv", <<"cAppSecret", "nil">>, "iv")
        /\ Is(Program[s + 7], "expand", "sess.sKey", <<"sAppSecret", "nil">>, "key")
        /\ Is(Program[s + 8], "expand", "sess.sIv", <<"sAppSecret", "nil">>, "iv")
    BY <2>1, SessionEstablishCalls, Forms, ZenonT(60)
  <2>4. /\ Is(Program[s + 9], "establish", "none", <<>>, "none")
        /\ Is(Program[s + 10], "wipe", "none", <<"derived", "master">>, "none")
    BY <2>1, SessionEstablishCalls, Forms, IsDo, ZenonT(60)
  <2>5. /\ Program[s + 1].op = "expand" /\ Program[s + 1].out = "derived"
        /\ Program[s + 2].op = "extract" /\ Program[s + 2].out = "master"
        /\ Program[s + 3].op = "expand" /\ Program[s + 3].out = "cAppSecret"
        /\ Program[s + 4].op = "expand" /\ Program[s + 4].out = "sAppSecret"
    BY <2>2, Zenon DEF Is
  <2>6. /\ Program[s + 5].op = "expand" /\ Program[s + 5].out = "sess.cKey"
        /\ Program[s + 6].op = "expand" /\ Program[s + 6].out = "sess.cIv"
        /\ Program[s + 7].op = "expand" /\ Program[s + 7].out = "sess.sKey"
        /\ Program[s + 8].op = "expand" /\ Program[s + 8].out = "sess.sIv"
    BY <2>3, Zenon DEF Is
  <2>7. /\ Program[s + 9].op = "establish" /\ Program[s + 9].out = "none"
        /\ Program[s + 10].op = "wipe" /\ Program[s + 10].out = "none"
    BY <2>4, Zenon DEF Is
  <2>8. SessionTable
    BY <1>1, <2>2, <2>3, <2>4 DEF SessionTable
  <2> QED BY <2>5, <2>6, <2>7, <2>8
<1>6. SitedCall(f + 1) /\ SitedCall(f + 2) /\ SitedCall(f + 3)
  <2>1. Sited(f + 1, "hash", "th") /\ Sited(f + 2, "mac", "mac") /\ Sited(f + 3, "send", "fin")
    BY <1>1 DEF Sited, Once
  <2> QED BY <1>1, <1>4, <2>1 DEF FinishedTable, Is, SitedCall
<1>7. /\ SitedCall(s + 1) /\ SitedCall(s + 2) /\ SitedCall(s + 3) /\ SitedCall(s + 4)
      /\ SitedCall(s + 5) /\ SitedCall(s + 6) /\ SitedCall(s + 7) /\ SitedCall(s + 8)
      /\ SitedCall(s + 9) /\ SitedCall(s + 10)
  <2>1. /\ Sited(s + 1, "expand", "derived") /\ Sited(s + 2, "extract", "master")
        /\ Sited(s + 3, "expand", "cAppSecret") /\ Sited(s + 4, "expand", "sAppSecret")
        /\ Sited(s + 5, "expand", "sess.cKey") /\ Sited(s + 6, "expand", "sess.cIv")
    BY <1>1 DEF Sited, Once, WrittenAt
  <2>2. /\ Sited(s + 7, "expand", "sess.sKey") /\ Sited(s + 8, "expand", "sess.sIv")
        /\ Sited(s + 9, "establish", "none") /\ Sited(s + 10, "wipe", "none")
    BY <1>1 DEF Sited, Once, WrittenAt
  <2>3. SitedCall(s + 1) /\ SitedCall(s + 2) /\ SitedCall(s + 3)
    BY <1>5, <2>1 DEF SitedCall
  <2>4. SitedCall(s + 4) /\ SitedCall(s + 5) /\ SitedCall(s + 6)
    BY <1>5, <2>1 DEF SitedCall
  <2>5. SitedCall(s + 7) /\ SitedCall(s + 8) /\ SitedCall(s + 9) /\ SitedCall(s + 10)
    BY <1>5, <2>2 DEF SitedCall
  <2> QED BY <2>3, <2>4, <2>5
<1>8. ASSUME NEW j \in FinFrom + 1 .. LastCall PROVE SitedCall(j)
  <2>1. \/ j \in {f + 1, f + 2, f + 3}
        \/ j \in {s + 1, s + 2, s + 3, s + 4, s + 5, s + 6, s + 7, s + 8, s + 9, s + 10}
    BY <1>1
  <2> QED BY <1>6, <1>7, <2>1
<1> QED BY <1>4, <1>5, <1>8

(* All of it *)
LEMMA AllSited == \A j \in 1 .. Len(Program) : SitedCall(j)
<1>1. /\ Len(Program) = LastCall /\ HelloEnd \in Nat /\ FlightFrom \in Nat /\ FinFrom \in Nat
      /\ LastCall \in Nat
  BY ProgramPieces DEF HelloEnd, FlightFrom, FinFrom, LastCall, SessionFrom
<1>2. \A j \in 1 .. HelloEnd : SitedCall(j)
  BY PskHelloAt, CertHelloAt
<1>3. \A j \in FlightFrom + 1 .. FinFrom : SitedCall(j)
  BY PskFlightAt, CertFlightAt
<1> QED BY <1>1, <1>2, <1>3, ServerHelloAt, SessionAt

-----------------------------------------------------------------------------
(***************************************************************************)
(* The terms: equal ones were made by the same operation of the same       *)
(* arguments.                                                              *)
(***************************************************************************)
LEMMA TermsApart ==
    /\ \A m, n : Hash(m) = Hash(n) => m = n
    /\ \A s, t, l, x, y : ExpandLabel(s, l, x) = ExpandLabel(t, l, y) => s = t /\ x = y
    /\ \A s, t, x, y : Extract(s, x) = Extract(t, y) => s = t /\ x = y
    /\ \A s, t, x, y : FinishedMac(s, x) = FinishedMac(t, y) => s = t /\ x = y
    /\ \A x, y : Ecdhe(x) = Ecdhe(y) => x = y
    /\ \A b, x, y : Hello(b, x) = Hello(b, y) => x = y
    /\ \A x, y : ServerHelloOf(x) = ServerHelloOf(y) => x = y
<1>1. \A m, n : Hash(m) = Hash(n) => m = n
  BY DEF Hash, Term
<1>2. \A s, t, l, x, y : ExpandLabel(s, l, x) = ExpandLabel(t, l, y) => s = t /\ x = y
  BY DEF ExpandLabel, Term
<1>3. \A s, t, x, y : Extract(s, x) = Extract(t, y) => s = t /\ x = y
  BY DEF Extract, Term
<1>4. \A s, t, x, y : FinishedMac(s, x) = FinishedMac(t, y) => s = t /\ x = y
  <2> SUFFICES ASSUME NEW s, NEW t, NEW x, NEW y, FinishedMac(s, x) = FinishedMac(t, y)
               PROVE  s = t /\ x = y
    OBVIOUS
  <2>1. ExpandLabel(s, "finished", Nil) = ExpandLabel(t, "finished", Nil) /\ x = y
    BY DEF FinishedMac, Term
  <2> QED BY <1>2, <2>1
<1>5. \A x, y : Ecdhe(x) = Ecdhe(y) => x = y
  BY DEF Ecdhe, Term
<1>6. \A b, x, y : Hello(b, x) = Hello(b, y) => x = y
  BY DEF Hello, Term
<1>7. \A x, y : ServerHelloOf(x) = ServerHelloOf(y) => x = y
  BY DEF ServerHelloOf, Term
<1> QED BY <1>1, <1>2, <1>3, <1>4, <1>5, <1>6, <1>7

(* The messages of an exchange *)
MsgsAre(v, p) ==
    /\ IsSeq(p) /\ Len(p) = N
    /\ p[1] = RefCh(v.ch) /\ p[2] = ServerHelloOf(v.sh) /\ p[3] = Public("EE")
    /\ path = "psk" => p[4] = Public("FIN")
    /\ path # "psk" => p[4] = Public("CERT") /\ p[5] = Public("CV") /\ p[6] = Public("FIN")

LEMMA RefMsgsAt == \A v : MsgsAre(v, RefMsgs(v))
<1> SUFFICES ASSUME NEW v PROVE MsgsAre(v, RefMsgs(v))
  OBVIOUS
<1> DEFINE a == RefCh(v.ch)
           b == ServerHelloOf(v.sh)
           e == Public("EE")
           x == Public("CERT")
           y == Public("CV")
           w == Public("FIN")
           p == <<a, b>> \o <<e>> \o <<w>>
           q == <<a, b>> \o <<e, x, y>> \o <<w>>
<1>1. RefMsgs(v) = IF path = "psk" THEN p ELSE q
  BY DEF RefMsgs
<1> HIDE DEF a, b, e, x, y, w
<1>2. p \in Seq({a, b, e, w}) /\ Len(p) = 4 /\ p[1] = a /\ p[2] = b /\ p[3] = e /\ p[4] = w
  OBVIOUS
<1>3. /\ q \in Seq({a, b, e, x, y, w}) /\ Len(q) = 6
      /\ q[1] = a /\ q[2] = b /\ q[3] = e /\ q[4] = x /\ q[5] = y /\ q[6] = w
  OBVIOUS
<1>4. IsSeq(p) /\ IsSeq(q)
  BY <1>2, <1>3 DEF IsSeq
<1> HIDE DEF p, q
<1>5. CASE path = "psk"
  BY <1>1, <1>2, <1>4, <1>5 DEF MsgsAre, N, a, b, e, w
<1>6. CASE path # "psk"
  BY <1>1, <1>3, <1>4, <1>6 DEF MsgsAre, N, a, b, e, x, y, w
<1> QED BY <1>5, <1>6

LEMMA PathLength == N \in {4, 6} /\ N \in Nat /\ N >= 4
BY DEF N

LEMMA UptoAt ==
    ASSUME NEW v, NEW m \in 0 .. N
    PROVE  /\ Upto(v, m) = Hash(SubSeq(RefMsgs(v), 1, m)) /\ Len(SubSeq(RefMsgs(v), 1, m)) = m
           /\ \A n \in 1 .. m : SubSeq(RefMsgs(v), 1, m)[n] = RefMsgs(v)[n]
<1>1. PICK S : RefMsgs(v) \in Seq(S)
  BY RefMsgsAt DEF MsgsAre, IsSeq
<1>2. Len(RefMsgs(v)) = N
  BY RefMsgsAt DEF MsgsAre
<1> DEFINE p == RefMsgs(v)
<1> HIDE DEF p
<1>3. p \in Seq(S) /\ m \in 0 .. Len(p)
  BY <1>1, <1>2 DEF p
<1>4. Len(SubSeq(p, 1, m)) = m /\ \A n \in 1 .. m : SubSeq(p, 1, m)[n] = p[n]
  BY <1>3
<1> QED BY <1>4 DEF Upto, p

(* Two views with the same Finished key and transcript are the same. *)
IsView(v) == v = [ch |-> v.ch, sh |-> v.sh, secret |-> v.secret]

LEMMA Views == IsView(ClientView) /\ IsView(ServerView)
BY DEF IsView, ClientView, ServerView

LEMMA FinishedAgrees ==
    ASSUME NEW v, NEW w, IsView(v), IsView(w), NEW side, NEW x, NEW y,
           FinishedMac(RefTraffic(v, side), x) = FinishedMac(RefTraffic(w, side), y)
    PROVE  v = w
<1>1. RefTraffic(v, side) = RefTraffic(w, side)
  BY TermsApart
<1>2. RefHs(v) = RefHs(w) /\ Upto(v, 2) = Upto(w, 2)
  BY <1>1, TermsApart DEF RefTraffic
<1>3. v.secret = w.secret
  <2>1. Ecdhe(v.secret) = Ecdhe(w.secret)
    BY <1>2, TermsApart DEF RefHs
  <2> QED BY <2>1, TermsApart
<1>4. RefCh(v.ch) = RefCh(w.ch) /\ ServerHelloOf(v.sh) = ServerHelloOf(w.sh)
  <2>1. 2 \in 0 .. N
    BY PathLength
  <2>4. Hash(SubSeq(RefMsgs(v), 1, 2)) = Hash(SubSeq(RefMsgs(w), 1, 2))
    BY <1>2 DEF Upto
  <2>5. \A p, q : Hash(p) = Hash(q) => p = q
    BY TermsApart
  <2>2. SubSeq(RefMsgs(v), 1, 2) = SubSeq(RefMsgs(w), 1, 2)
    BY <2>4, <2>5, Zenon
  <2>3. RefMsgs(v)[1] = RefMsgs(w)[1] /\ RefMsgs(v)[2] = RefMsgs(w)[2]
    BY <2>1, <2>2, UptoAt
  <2> QED BY <2>3, RefMsgsAt DEF MsgsAre
<1>5. v.ch = w.ch /\ v.sh = w.sh
  BY <1>4, TermsApart DEF RefCh
<1> QED BY <1>3, <1>5 DEF IsView

(* The messages hashed, when they are the first m of the exchange *)
LEMMA TcIsUpto ==
    ASSUME NEW v, NEW m \in 0 .. N, NEW p, IsSeq(p), Len(p) = m,
           \A n \in 1 .. m : p[n] = RefMsgs(v)[n]
    PROVE  Hash(p) = Upto(v, m)
<1>1. PICK S : p \in Seq(S)
  BY DEF IsSeq
<1>2. PICK T : RefMsgs(v) \in Seq(T)
  BY RefMsgsAt DEF MsgsAre, IsSeq
<1>3. Len(RefMsgs(v)) = N /\ N \in Nat
  BY RefMsgsAt, PathLength DEF MsgsAre
<1> DEFINE q == RefMsgs(v)
<1> HIDE DEF q
<1>4. q \in Seq(T) /\ m \in 0 .. Len(q)
  BY <1>2, <1>3 DEF q
<1>5. \A n \in 1 .. m : p[n] = q[n]
  BY DEF q
<1>6. SubSeq(q, 1, m) \in Seq(T) /\ Len(SubSeq(q, 1, m)) = m /\ \A n \in 1 .. m : SubSeq(q, 1, m)[n] = q[n]
  BY <1>4
<1>7. p = SubSeq(q, 1, m)
  <2> DEFINE r == SubSeq(q, 1, m)
  <2>1. r \in Seq(T) /\ Len(r) = m /\ \A n \in 1 .. m : r[n] = p[n]
    BY <1>5, <1>6
  <2> HIDE DEF r
  <2>2. p = r
    BY <1>1, <2>1
  <2> QED BY <2>2 DEF r
<1> QED BY <1>7 DEF Upto, q

(* What the reference is depends on the driver and the client's view only. *)
ViewKept ==
    /\ HelloEnd' = HelloEnd /\ KeysFrom' = KeysFrom /\ FlightFrom' = FlightFrom
    /\ FinFrom' = FinFrom /\ SessionFrom' = SessionFrom /\ LastCall' = LastCall
    /\ MacAt' = MacAt /\ FinishedAt' = FinishedAt /\ UpdateAt' = UpdateAt /\ N' = N
    /\ Once' = Once /\ \A b : WrittenAt(b)' = WrittenAt(b)

LEMMA SamePlaces == ASSUME path' = path PROVE ViewKept
<1>1. /\ HelloEnd' = HelloEnd /\ KeysFrom' = KeysFrom /\ FlightFrom' = FlightFrom
      /\ FinFrom' = FinFrom /\ SessionFrom' = SessionFrom /\ LastCall' = LastCall
  BY DEF HelloEnd, KeysFrom, FlightFrom, FinFrom, SessionFrom, LastCall
<1>2. MacAt' = MacAt /\ FinishedAt' = FinishedAt /\ UpdateAt' = UpdateAt /\ N' = N /\ Once' = Once
  BY DEF MacAt, FinishedAt, UpdateAt, N, Once
<1>3. \A b : WrittenAt(b)' = WrittenAt(b)
  BY <1>1 DEF WrittenAt
<1> QED BY <1>1, <1>2, <1>3 DEF ViewKept

LEMMA SameReference ==
    ASSUME path' = path
    PROVE  /\ RefEarly' = RefEarly /\ RefBinder' = RefBinder
           /\ \A v : /\ RefMsgs(v)' = RefMsgs(v) /\ RefHs(v)' = RefHs(v)
                     /\ RefMaster(v)' = RefMaster(v)
           /\ \A v, m : Upto(v, m)' = Upto(v, m)
           /\ \A v, side : RefTraffic(v, side)' = RefTraffic(v, side)
           /\ \A v, side : RefApp(v, side)' = RefApp(v, side)
<1>1. RefEarly' = RefEarly /\ N' = N
  BY DEF RefEarly, N
<1>2. RefBinder' = RefBinder
  BY <1>1 DEF RefBinder
<1>3. \A v : RefMsgs(v)' = RefMsgs(v)
  BY <1>2 DEF RefMsgs, RefCh
<1>4. \A v : RefHs(v)' = RefHs(v)
  BY <1>1 DEF RefHs
<1>5. \A v : RefMaster(v)' = RefMaster(v)
  BY <1>4 DEF RefMaster
<1>6. \A v, m : Upto(v, m)' = Upto(v, m)
  BY <1>3 DEF Upto
<1>7. \A v, side : RefTraffic(v, side)' = RefTraffic(v, side)
  BY <1>4, <1>6 DEF RefTraffic
<1>8. \A v, side : RefApp(v, side)' = RefApp(v, side)
  BY <1>1, <1>5, <1>6 DEF RefApp
<1> QED BY <1>1, <1>2, <1>3, <1>4, <1>5, <1>6, <1>7, <1>8

(* The same of the client's view itself *)
RefsKept ==
    /\ \A b : Ref(b)' = Ref(b)
    /\ RefMsgs(ClientView)' = RefMsgs(ClientView)
    /\ RefHs(ClientView)' = RefHs(ClientView) /\ RefMaster(ClientView)' = RefMaster(ClientView)
    /\ \A m : Upto(ClientView, m)' = Upto(ClientView, m)
    /\ \A side : RefTraffic(ClientView, side)' = RefTraffic(ClientView, side)

LEMMA SameView ==
    ASSUME path' = path, ClientView' = ClientView
    PROVE  RefsKept
<1>1. RefMsgs(ClientView)' = RefMsgs(ClientView)
  BY SameReference
<1>2. RefHs(ClientView)' = RefHs(ClientView) /\ RefMaster(ClientView)' = RefMaster(ClientView)
  BY SameReference
<1>3. \A m : Upto(ClientView, m)' = Upto(ClientView, m)
  BY SameReference
<1>4. \A side : /\ RefTraffic(ClientView, side)' = RefTraffic(ClientView, side)
                /\ RefApp(ClientView, side)' = RefApp(ClientView, side)
  BY SameReference
<1>5. RefEarly' = RefEarly /\ RefBinder' = RefBinder /\ N' = N
  BY SameReference, SamePlaces DEF ViewKept
<1>6. \A b : Ref(b)' = Ref(b)
  BY <1>2, <1>3, <1>4, <1>5 DEF Ref
<1> QED BY <1>1, <1>2, <1>3, <1>4, <1>6 DEF RefsKept

-----------------------------------------------------------------------------
(***************************************************************************)
(* What a call computes                                                    *)
(***************************************************************************)
Held(b) == IF b = "ecdhe" THEN Ecdhe(ss["client"]) ELSE buf[b]

LEMMA Computed ==
    ASSUME NEW out, NEW s, NEW t, NEW label
    PROVE  /\ Is(c, "extract", out, <<s, t>>, label) => Value = Extract(Held(s), Held(t))
           /\ Is(c, "expand", out, <<s, t>>, label) => Value = ExpandLabel(Held(s), label, Held(t))
           /\ Is(c, "mac", out, <<s, t>>, label) => Value = FinishedMac(Held(s), Held(t))
           /\ Is(c, "hash", out, <<>>, label) => Value = Hash(tc)
           /\ Is(c, "empty", out, <<>>, label) => Value = EmptyHash
           /\ Is(c, "hash truncated", out, <<>>, label) => Value = Hash(<<Truncated>>)
           /\ Is(c, "finished", out, <<s>>, label) =>
                 Value = FinishedMac(RefTraffic(ServerView, "s"), Upto(ServerView, N - 1))
<1>0. \A x, y : <<x, y>>[1] = x /\ <<x, y>>[2] = y
  OBVIOUS
<1>1. Is(c, "extract", out, <<s, t>>, label) => Value = Extract(Held(s), Held(t))
  BY <1>0 DEF Is, Value, Held
<1>2. Is(c, "expand", out, <<s, t>>, label) => Value = ExpandLabel(Held(s), label, Held(t))
  BY <1>0 DEF Is, Value, Held
<1>3. Is(c, "mac", out, <<s, t>>, label) => Value = FinishedMac(Held(s), Held(t))
  BY <1>0 DEF Is, Value, Held
<1>4. Is(c, "hash", out, <<>>, label) => Value = Hash(tc)
  BY DEF Is, Value
<1>5. Is(c, "empty", out, <<>>, label) => Value = EmptyHash
  BY DEF Is, Value
<1>6. Is(c, "hash truncated", out, <<>>, label) => Value = Hash(<<Truncated>>)
  BY DEF Is, Value
<1>7. Is(c, "finished", out, <<s>>, label) =>
         Value = FinishedMac(RefTraffic(ServerView, "s"), Upto(ServerView, N - 1))
  BY DEF Is, Value
<1> QED BY <1>1, <1>2, <1>3, <1>4, <1>5, <1>6, <1>7
-----------------------------------------------------------------------------
(***************************************************************************)
(* The two views of the exchange                                           *)
(***************************************************************************)
LEMMA ViewsFrom ==
    ASSUME build' = build, share'["server"] = share["server"]
    PROVE  /\ ClientView' = ClientView /\ ClientSecret' = ClientSecret
           /\ (share'["client"] = share["client"] /\ ss'["server"] = ss["server"]) =>
                 ServerView' = ServerView
<1>1. KemSecret("client")' = KemSecret("client") /\ XSecret("client")' = XSecret("client")
  BY DEF KemSecret, XSecret
<1>2. ClientView' = ClientView /\ ClientSecret' = ClientSecret
  BY <1>1 DEF ClientView, ClientSecret, Hybrid
<1>3. (share'["client"] = share["client"] /\ ss'["server"] = ss["server"]) => ServerView' = ServerView
  BY DEF ServerView
<1> QED BY <1>2, <1>3

LEMMA ServerSecretFrom ==
    ASSUME build' = build, share'["client"] = share["client"]
    PROVE  /\ ServerSecret' = ServerSecret /\ KemSecret("server")' = KemSecret("server")
           /\ XSecret("server")' = XSecret("server")
BY DEF ServerSecret, KemSecret, XSecret, Hybrid

(* The two views are the same exactly if both shares arrive as they were sent. *)
LEMMA ViewsAgree ==
    ASSUME ss["server"] = ServerSecret
    PROVE  ClientView = ServerView <=> share["client"] = Genuine /\ share["server"] = Genuine
<1>1. Genuine.kem = "own" /\ Genuine.x = "own" /\ [Genuine EXCEPT !.kem = "own"] = Genuine
  <2> DEFINE u == [sent |-> FALSE, kem |-> "own", x |-> "own", short |-> FALSE]
             g == [u EXCEPT !.sent = TRUE]
  <2>1. DOMAIN u = {"sent", "kem", "x", "short"} /\ u.kem = "own" /\ u.x = "own"
    OBVIOUS
  <2> HIDE DEF u
  <2>2. g = [f \in DOMAIN g |-> g[f]] /\ DOMAIN g = DOMAIN u /\ g.kem = "own" /\ g.x = "own"
    BY <2>1
  <2>3. Genuine = g
    BY DEF Genuine, Unsent, u
  <2> HIDE DEF g
  <2>4. [g EXCEPT !.kem = "own"] = g
    BY <2>2
  <2> QED BY <2>2, <2>3, <2>4
<1>2. ASSUME share["client"] = Genuine, share["server"] = Genuine
      PROVE  ClientView = ServerView
  <2>1. /\ KemSecret("client") = <<"enc", "own">> /\ KemSecret("server") = <<"enc", "own">>
        /\ XSecret("client") = {<<"client", "own">>, <<"server", "own">>}
        /\ XSecret("server") = {<<"server", "own">>, <<"client", "own">>}
    BY <1>1, <1>2 DEF KemSecret, XSecret
  <2>2. XSecret("client") = XSecret("server")
    BY <2>1
  <2>3. ServerSecret = ClientSecret
    BY <2>1, <2>2 DEF ServerSecret, ClientSecret
  <2> QED BY <1>1, <1>2, <2>3 DEF ClientView, ServerView, ClientSecret
<1>3. ASSUME ClientView = ServerView
      PROVE  share["client"] = Genuine /\ share["server"] = Genuine
  <2>1. ClientView.ch = ServerView.ch /\ ClientView.sh = ServerView.sh
    BY <1>3
  <2>2. share["client"] = Genuine /\ share["server"] = [Genuine EXCEPT !.kem = share["client"].kem]
    BY <2>1 DEF ClientView, ServerView
  <2> QED BY <1>1, <2>2
<1> QED BY <1>2, <1>3

(***************************************************************************)
(* How the two sides meet                                                  *)
(***************************************************************************)
Exchange == MeetOK /\ ServerHalves /\ ClientHalves

(* In the hybrid's ServerRespond the ML-KEM half is written by the second call,
   the other by the last. *)
LEMMA HybridRespondCalls ==
    ASSUME KsTypeOK, fn["server"] = "Respond", More("server")
    PROVE  /\ Hybrid /\ Len(Script(fn["server"])) = 7 /\ k["server"] \in 0 .. 6
           /\ k["server"] = 1 => Call("server") = Use("skem")
           /\ k["server"] # 1 => Call("server") \notin {Use("kem"), Use("skem")}
<1>0. k["server"] \in Nat /\ k["server"] < Len(Script("Respond"))
  BY DEF KsTypeOK, Sides, More
<1>1. Hybrid
  <2>1. ~Hybrid => Script("Respond") = <<>>
    BY DEF Script, RespondCalls
  <2>2. Len(<<>>) = 0
    OBVIOUS
  <2> QED BY <1>0, <2>1, <2>2
<1>2. Script("Respond") = <<InitKey("skem"), Use("skem"), InitKey("srv"), Use("srv"),
                            InitKey("speer"), Use("speer"), Use("srv")>>
  BY <1>1 DEF Script, RespondCalls, HybridRespond
<1>3. Len(Script("Respond")) = 7
  BY <1>2
<1>4. k["server"] \in 0 .. 6
  <2>1. k["server"] < 7
    BY <1>3 DEF More
  <2> QED BY <1>0, <2>1
<1> QED BY <1>1, <1>2, <1>3, <1>4 DEF Call, Use, InitKey

LEMMA SecretParts ==
    ASSUME NEW r, IsSecret(r), NEW x, NEW y
    PROVE  /\ [r EXCEPT !.kem = x] = [kem |-> x, x |-> r.x]
           /\ [r EXCEPT !.x = y] = [kem |-> r.kem, x |-> y]
           /\ [r EXCEPT !.x = y, !.kem = @] = [kem |-> r.kem, x |-> y]
<1>1. PICK a, b : r = [kem |-> a, x |-> b]
  BY DEF IsSecret
<1>2. [r EXCEPT !.kem = x] = [kem |-> x, x |-> r.x]
  BY <1>1
<1>3. [r EXCEPT !.x = y] = [kem |-> r.kem, x |-> y]
  BY <1>1
<1>4. [r EXCEPT !.x = y, !.kem = @] = [kem |-> r.kem, x |-> y]
  <2> DEFINE s == [r EXCEPT !.x = y]
  <2>1. s = [kem |-> r.kem, x |-> y]
    BY <1>3
  <2> HIDE DEF s
  <2>2. s.kem = r.kem /\ [s EXCEPT !.kem = r.kem] = [kem |-> r.kem, x |-> y]
    BY <2>1
  <2> QED BY <2>2 DEF s
<1> QED BY <1>2, <1>3, <1>4

LEMMA SecretIs ==
    /\ \A a, b : IsSecret([kem |-> a, x |-> b])
    /\ IsSecret(NoSecret)
BY DEF IsSecret, NoSecret

(* A call of the server's *)
LEMMA ServerWrites ==
    ASSUME KsInv, Exchange, CallSucceeds("server")
    PROVE  Exchange'
<1> USE DEF Exchange
<1>0. /\ UNCHANGED <<build, fn, ret, share>> /\ More("server")
      /\ ss' = [ss EXCEPT !["server"] = Written("server")] /\ k' = [k EXCEPT !["server"] = @ + 1]
      /\ KsTypeOK
  BY DEF CallSucceeds, KsInv
<1>1. /\ ss'["client"] = ss["client"] /\ ss'["server"] = Written("server")
      /\ k'["client"] = k["client"] /\ k'["server"] = k["server"] + 1
  BY <1>0 DEF KsTypeOK, Sides
<1>2. fn["server"] = "Respond"
  BY <1>0, WhoRuns DEF More, Sides
<1>3. /\ Hybrid /\ Len(Script(fn["server"])) = 7 /\ k["server"] \in 0 .. 6
      /\ k["server"] = 1 => Call("server") = Use("skem")
      /\ k["server"] # 1 => Call("server") \notin {Use("kem"), Use("skem")}
  BY <1>0, <1>2, HybridRespondCalls
<1>4. Hybrid' = Hybrid /\ SharedCalls' = SharedCalls
  BY <1>0 DEF Hybrid, SharedCalls
<1>5. /\ KemSecret("server")' = KemSecret("server") /\ XSecret("server")' = XSecret("server")
      /\ KemSecret("client")' = KemSecret("client") /\ XSecret("client")' = XSecret("client")
      /\ ClientSecret' = ClientSecret
  BY <1>0, ViewsFrom, ServerSecretFrom DEF KemSecret, XSecret
<1>6. ClientHalves'
  BY <1>0, <1>1, <1>4, <1>5 DEF ClientHalves
<1>7. CASE k["server"] = 1
  <2>1. Written("server") = [ss["server"] EXCEPT !.kem = KemSecret("server")]
    BY <1>2, <1>3, <1>7 DEF Written
  <2>2. Written("server") = [kem |-> KemSecret("server"), x |-> ss["server"].x]
    BY <2>1, SecretParts DEF MeetOK
  <2>3. MeetOK'
    BY <1>0, <1>1, <2>2, SecretIs DEF MeetOK
  <2>4. ServerHalves'
    BY <1>0, <1>1, <1>2, <1>4, <1>5, <1>7, <2>2 DEF ServerHalves
  <2> QED BY <1>6, <2>3, <2>4
<1>8. CASE k["server"] = 6
  <2>1. Written("server") = [ss["server"] EXCEPT !.x = XSecret("server"), !.kem = @]
    BY <1>2, <1>3, <1>8 DEF Written
  <2>2. Written("server") = [kem |-> ss["server"].kem, x |-> XSecret("server")]
    BY <2>1, SecretParts DEF MeetOK
  <2>3. MeetOK'
    BY <1>0, <1>1, <2>2, SecretIs DEF MeetOK
  <2>4. ServerHalves'
    BY <1>0, <1>1, <1>2, <1>3, <1>4, <1>5, <1>8, <2>2 DEF ServerHalves
  <2> QED BY <1>6, <2>3, <2>4
<1>9. CASE k["server"] \notin {1, 6}
  <2>0. k["server"] + 1 # 7
    BY <1>3, <1>9
  <2>1. Written("server") = ss["server"]
    BY <1>2, <1>3, <1>9, <2>0 DEF Written
  <2>2. MeetOK'
    BY <1>0, <1>1, <2>1 DEF MeetOK
  <2>3. k["server"] + 1 >= 2 => k["server"] >= 2
    BY <1>3, <1>9
  <2>5. ~(k["server"] + 1 >= 7)
    BY <1>3, <1>9
  <2>4. ServerHalves'
    BY <1>0, <1>1, <1>2, <1>4, <1>5, <2>1, <2>3, <2>5 DEF ServerHalves
  <2> QED BY <1>6, <2>2, <2>4
<1> QED BY <1>7, <1>8, <1>9

(* A call of the client's *)
LEMMA ClientWrites ==
    ASSUME KsInv, Exchange, CallSucceeds("client")
    PROVE  Exchange'
<1> USE DEF Exchange
<1>0. /\ UNCHANGED <<build, fn, ret, share>> /\ More("client")
      /\ ss' = [ss EXCEPT !["client"] = Written("client")] /\ k' = [k EXCEPT !["client"] = @ + 1]
      /\ KsTypeOK
  BY DEF CallSucceeds, KsInv
<1>1. /\ ss'["server"] = ss["server"] /\ ss'["client"] = Written("client")
      /\ k'["server"] = k["server"] /\ k'["client"] = k["client"] + 1
  BY <1>0 DEF KsTypeOK, Sides
<1>2. fn["client"] \in {"Init", "Generate", "Shared"} /\ k["client"] \in Nat
  BY <1>0, WhoRuns DEF More, Sides, KsTypeOK
<1>4. Hybrid' = Hybrid /\ SharedCalls' = SharedCalls
  BY <1>0 DEF Hybrid, SharedCalls
<1>5. /\ KemSecret("server")' = KemSecret("server") /\ XSecret("server")' = XSecret("server")
      /\ KemSecret("client")' = KemSecret("client") /\ XSecret("client")' = XSecret("client")
      /\ ServerSecret' = ServerSecret
  BY <1>0, ViewsFrom, ServerSecretFrom DEF KemSecret, XSecret
<1>6. ServerHalves'
  BY <1>0, <1>1, <1>4, <1>5 DEF ServerHalves
<1>7. CASE fn["client"] # "Shared"
  <2>1. Written("client") = ss["client"]
    BY <1>2, <1>7 DEF Written
  <2>2. MeetOK'
    BY <1>0, <1>1, <2>1 DEF MeetOK
  <2>3. ClientHalves'
    BY <1>0, <1>2, <1>7 DEF ClientHalves
  <2> QED BY <1>6, <2>2, <2>3
<1>8. CASE fn["client"] = "Shared" /\ Hybrid
  <2>0. /\ Len(Script(fn["client"])) = 4 /\ k["client"] \in 0 .. 3
        /\ k["client"] = 0 => Call("client") = Use("kem")
        /\ Call("client") # Use("skem")
        /\ k["client"] = 3 => Call("client") # Use("kem")
    BY <1>0, <1>8, HybridSharedCalls
  <2>1. Script(fn["client"]) = SharedCalls
    BY <1>8 DEF Script
  <2>2. CASE Call("client") = Use("kem")
    <3>0. /\ fn["client"] \in {"Shared", "Respond"} /\ Hybrid
          /\ Call("client") \in {Use("kem"), Use("skem")}
          /\ k["client"] + 1 # Len(Script(fn["client"]))
      BY SMTT(30), <1>8, <2>0, <2>2
    <3>1. Written("client") = [ss["client"] EXCEPT !.kem = KemSecret("client")]
      BY <3>0 DEF Written
    <3>2. Written("client") = [kem |-> KemSecret("client"), x |-> ss["client"].x]
      BY <3>1, SecretParts DEF MeetOK
    <3>3. MeetOK'
      BY <1>0, <1>1, <3>2, SecretIs DEF MeetOK
    <3>4. ~(k["client"] + 1 >= Len(SharedCalls))
      BY SMTT(30), <2>0, <2>1, <2>2
    <3>5. ClientHalves'
      BY <1>0, <1>1, <1>4, <1>5, <1>8, <3>2, <3>4 DEF ClientHalves
    <3> QED BY <1>6, <3>3, <3>5
  <2>3. CASE Call("client") # Use("kem") /\ k["client"] = 3
    <3>1. Written("client") = [ss["client"] EXCEPT !.x = XSecret("client"), !.kem = @]
      BY SMTT(60), <1>8, <2>0, <2>3 DEF Written
    <3>2. Written("client") = [kem |-> ss["client"].kem, x |-> XSecret("client")]
      BY <3>1, SecretParts DEF MeetOK
    <3>3. MeetOK'
      BY <1>0, <1>1, <3>2, SecretIs DEF MeetOK
    <3>4. ss["client"].kem = KemSecret("client")
      BY <1>8, <2>3 DEF ClientHalves
    <3>5. ClientHalves'
      BY <1>0, <1>1, <1>4, <1>5, <1>8, <3>2, <3>4 DEF ClientHalves
    <3> QED BY <1>6, <3>3, <3>5
  <2>4. CASE Call("client") # Use("kem") /\ k["client"] # 3
    <3>0. k["client"] # 0 /\ Len(SharedCalls) = 4
      BY <2>0, <2>1, <2>4
    <3>5. k["client"] + 1 # 4
      BY <2>0, <2>4
    <3>1. k["client"] \in 1 .. 2 /\ ~(k["client"] + 1 >= Len(SharedCalls))
      BY <2>0, <2>4, <3>0
    <3>2. Written("client") = ss["client"]
      BY SMTT(60), <1>8, <2>0, <2>4, <3>5 DEF Written
    <3>3. MeetOK'
      BY <1>0, <1>1, <3>2 DEF MeetOK
    <3>4. ClientHalves'
      BY <1>0, <1>1, <1>4, <1>5, <1>8, <3>1, <3>2 DEF ClientHalves
    <3> QED BY <1>6, <3>3, <3>4
  <2> QED BY <2>2, <2>3, <2>4
<1>9. CASE fn["client"] = "Shared" /\ ~Hybrid
  <2>1. Script(fn["client"]) = SharedCalls /\ SharedCalls = <<InitKey("peer"), Use("peer"), Use("own")>>
    BY <1>9 DEF Script, SharedCalls
  <2>2. Len(SharedCalls) = 3 /\ k["client"] \in 0 .. 2
    <3>1. Len(SharedCalls) = 3
      BY <2>1
    <3>2. k["client"] < 3
      BY <1>0, <2>1, <3>1 DEF More
    <3> QED BY <1>2, <3>1, <3>2
  <2>3. CASE k["client"] = 2
    <3>1. Written("client") =
             [ss["client"] EXCEPT !.x = XSecret("client"), !.kem = <<"unused">>]
      BY <1>9, <2>1, <2>2, <2>3 DEF Written
    <3>2. Written("client") = [kem |-> <<"unused">>, x |-> XSecret("client")]
      <4> DEFINE u == <<"unused">>
                 y == XSecret("client")
      <4>1. Written("client") = [ss["client"] EXCEPT !.x = y, !.kem = u]
        BY <3>1
      <4> HIDE DEF u, y
      <4>2. [ss["client"] EXCEPT !.x = y, !.kem = u] = [kem |-> u, x |-> y]
        <5> DEFINE s == [ss["client"] EXCEPT !.x = y]
        <5>1. s = [kem |-> ss["client"].kem, x |-> y]
          BY SecretParts DEF MeetOK
        <5> HIDE DEF s
        <5>2. [s EXCEPT !.kem = u] = [kem |-> u, x |-> y]
          BY <5>1
        <5> QED BY <5>2 DEF s
      <4>3. Written("client") = [kem |-> u, x |-> y]
        BY <4>1, <4>2
      <4> QED BY <4>3 DEF u, y
    <3>3. MeetOK'
      BY <1>0, <1>1, <3>2, SecretIs DEF MeetOK
    <3>4. ClientHalves'
      BY <1>0, <1>1, <1>4, <1>5, <1>9, <3>2 DEF ClientHalves
    <3> QED BY <1>6, <3>3, <3>4
  <2>4. CASE k["client"] # 2
    <3>1. k["client"] + 1 # 3 /\ ~(k["client"] + 1 >= 3)
      BY <2>2, <2>4
    <3>2. Written("client") = ss["client"]
      BY <1>9, <2>1, <2>2, <3>1 DEF Written
    <3>3. MeetOK'
      BY <1>0, <1>1, <3>2 DEF MeetOK
    <3>4. ClientHalves'
      BY <1>0, <1>1, <1>4, <1>9, <2>2, <3>1 DEF ClientHalves
    <3> QED BY <1>6, <3>3, <3>4
  <2> QED BY <2>3, <2>4
<1> QED BY <1>7, <1>8, <1>9

LEMMA ShareParts ==
    ASSUME NEW r, IsShare(r), NEW v
    PROVE  /\ IsShare([r EXCEPT !.kem = v]) /\ [r EXCEPT !.kem = v].sent = r.sent
           /\ [r EXCEPT !.kem = v].kem = v
           /\ IsShare([r EXCEPT !.x = v]) /\ [r EXCEPT !.x = v].sent = r.sent
           /\ IsShare([r EXCEPT !.short = TRUE]) /\ [r EXCEPT !.short = TRUE].sent = r.sent
           /\ IsShare([r EXCEPT !.sent = TRUE]) /\ [r EXCEPT !.sent = TRUE].sent
<1>1. PICK a, b, d, e : r = [sent |-> a, kem |-> b, x |-> d, short |-> e] /\ a \in BOOLEAN /\ e \in BOOLEAN
  BY DEF IsShare
<1>2. [r EXCEPT !.kem = v] = [sent |-> a, kem |-> v, x |-> d, short |-> e]
  BY <1>1
<1>3. [r EXCEPT !.x = v] = [sent |-> a, kem |-> b, x |-> v, short |-> e]
  BY <1>1
<1> DEFINE yes == TRUE
<1>10. yes \in BOOLEAN /\ yes
  OBVIOUS
<1> HIDE DEF yes
<1>4. [r EXCEPT !.short = yes] = [sent |-> a, kem |-> b, x |-> d, short |-> yes]
  BY <1>1
<1>5. [r EXCEPT !.sent = yes] = [sent |-> yes, kem |-> b, x |-> d, short |-> e]
  BY <1>1
<1>6. IsShare([r EXCEPT !.kem = v]) /\ [r EXCEPT !.kem = v].sent = r.sent /\ [r EXCEPT !.kem = v].kem = v
  BY <1>1, <1>2 DEF IsShare
<1>7. IsShare([r EXCEPT !.x = v]) /\ [r EXCEPT !.x = v].sent = r.sent
  BY <1>1, <1>3 DEF IsShare
<1>8. IsShare([r EXCEPT !.short = yes]) /\ [r EXCEPT !.short = yes].sent = r.sent
  BY <1>1, <1>4, <1>10 DEF IsShare
<1>9. IsShare([r EXCEPT !.sent = yes]) /\ [r EXCEPT !.sent = yes].sent
  BY <1>5, <1>1, <1>10 DEF IsShare
<1> QED BY <1>6, <1>7, <1>8, <1>9 DEF yes

LEMMA GenuineIs == IsShare(Unsent) /\ ~Unsent.sent /\ IsShare(Genuine) /\ Genuine.sent
<1>1. IsShare(Unsent) /\ ~Unsent.sent
  BY DEF IsShare, Unsent
<1> QED BY <1>1, ShareParts DEF Genuine

(* The scripts' other steps *)
LEMMA ExchangeFails ==
    ASSUME KsInv, Exchange, NEW s \in Sides, CallFails(s)
    PROVE  Exchange'
<1>0. /\ UNCHANGED <<build, fn, k, ss, share>> /\ Running(s) /\ KsTypeOK
      /\ ret' = [ret EXCEPT ![s] = "E_CRYPTO"]
  BY DEF CallFails, More, KsInv
<1>1. s = "server" => fn["server"] = "Respond"
  BY <1>0, WhoRuns
<1>2. s = "client" => ret'["server"] = ret["server"]
  BY <1>0 DEF KsTypeOK, Sides
<1>3. Hybrid' = Hybrid /\ SharedCalls' = SharedCalls
  BY <1>0 DEF Hybrid, SharedCalls
<1>4. MeetOK' /\ ServerHalves' /\ ClientHalves'
  <2>1. MeetOK'
    BY <1>0, <1>1, <1>2 DEF Exchange, MeetOK, Sides
  <2>2. ServerHalves'
    BY <1>0, <1>1, <1>2, <1>3, ServerSecretFrom DEF Exchange, ServerHalves, Sides
  <2>3. ClientHalves'
    <3>1. ClientSecret' = ClientSecret
      BY <1>0, ViewsFrom
    <3>2. KemSecret("client")' = KemSecret("client") /\ XSecret("client")' = XSecret("client")
      BY <1>0 DEF KemSecret, XSecret
    <3> QED BY <1>0, <1>3, <3>1, <3>2 DEF Exchange, ClientHalves
  <2> QED BY <2>1, <2>2, <2>3
<1> QED BY <1>4 DEF Exchange

LEMMA ExchangeRefuses ==
    ASSUME KsInv, Exchange, ServerRefuses
    PROVE  Exchange'
<1>0. /\ UNCHANGED <<build, fn, k, ss, share>> /\ fn["server"] = "Respond"
  BY DEF ServerRefuses, Refused
<1>1. Hybrid' = Hybrid /\ SharedCalls' = SharedCalls
  BY <1>0 DEF Hybrid, SharedCalls
<1>2. MeetOK'
  BY <1>0 DEF Exchange, MeetOK
<1>3. ServerHalves'
  BY <1>0, <1>1, ServerSecretFrom DEF Exchange, ServerHalves
<1>4. ClientHalves'
  <2>1. ClientSecret' = ClientSecret
    BY <1>0, ViewsFrom
  <2>2. KemSecret("client")' = KemSecret("client") /\ XSecret("client")' = XSecret("client")
    BY <1>0 DEF KemSecret, XSecret
  <2> QED BY <1>0, <1>1, <2>1, <2>2 DEF Exchange, ClientHalves
<1> QED BY <1>2, <1>3, <1>4 DEF Exchange

(* A share is only changed while the other side has not looked at it. *)
LEMMA ExchangeTampered ==
    ASSUME KsInv, Exchange, NEW s \in Sides, Tamper(s)
    PROVE  /\ Exchange'
           /\ s = "client" => /\ fn["server"] = "Respond" /\ ret["server"] = "SUCCESS"
                              /\ share'["server"] = share["server"]
           /\ s = "server" => /\ fn["server"] = "Done" /\ fn["client"] = "Recv"
                              /\ share'["client"] = share["client"]
<1>0. /\ UNCHANGED <<build, fn, k, ret, ss>> /\ share[s].sent /\ KsTypeOK /\ MeetOK
  BY DEF Tamper, KsInv, Exchange
<1>1. /\ IsShare(share'[s]) /\ share'[s].sent = share[s].sent
      /\ \A t \in Sides : t # s => share'[t] = share[t]
  <2>0. IsShare(share[s]) /\ DOMAIN share = Sides
    BY <1>0 DEF MeetOK, Sides, KsTypeOK
  <2>1. \/ \E f \in {"kem", "x"} : share' = [share EXCEPT ![s][f] = "other"]
        \/ share' = [share EXCEPT ![s].short = TRUE]
    BY DEF Tamper
  <2>2. CASE share' = [share EXCEPT ![s].kem = "other"]
    BY <2>0, <2>2, ShareParts
  <2>3. CASE share' = [share EXCEPT ![s].x = "other"]
    BY <2>0, <2>3, ShareParts
  <2>4. CASE share' = [share EXCEPT ![s].short = TRUE]
    BY <2>0, <2>4, ShareParts
  <2> QED BY <2>1, <2>2, <2>3, <2>4
<1>2. Hybrid' = Hybrid /\ SharedCalls' = SharedCalls
  BY <1>0 DEF Hybrid, SharedCalls
<1>3. CASE s = "client"
  <2>1. fn["server"] = "Respond" /\ ret["server"] = "SUCCESS" /\ k["server"] = 0
    BY <1>0, <1>3 DEF Tamper, KsTypeOK, ServerStages
  <2>2. share'["server"] = share["server"]
    BY <1>1, <1>3 DEF Sides
  <2>3. MeetOK'
    BY <1>0, <1>1, <1>3, <2>2 DEF MeetOK
  <2>4. ServerHalves'
    BY <1>0, <2>1 DEF ServerHalves
  <2>5. ClientHalves'
    <3>1. ClientSecret' = ClientSecret
      BY <1>0, <2>2, ViewsFrom
    <3>2. KemSecret("client")' = KemSecret("client") /\ XSecret("client")' = XSecret("client")
      BY <2>2 DEF KemSecret, XSecret
    <3> QED BY <1>0, <1>2, <3>1, <3>2 DEF Exchange, ClientHalves
  <2> QED BY <1>3, <2>1, <2>2, <2>3, <2>4, <2>5 DEF Exchange
<1>4. CASE s = "server"
  <2>1. fn["client"] = "Recv"
    BY <1>0, <1>4 DEF Tamper, KsTypeOK, ClientStages
  <2>2. fn["server"] = "Done"
    BY <1>0, <1>4 DEF MeetOK
  <2>3. share'["client"] = share["client"]
    BY <1>1, <1>4 DEF Sides
  <2>4. MeetOK'
    BY <1>0, <1>1, <1>4, <2>3 DEF MeetOK
  <2>5. ServerHalves'
    BY <1>0, <1>2, <2>3, ServerSecretFrom DEF Exchange, ServerHalves
  <2>6. ClientHalves'
    BY <1>0, <2>1 DEF ClientHalves
  <2> QED BY <1>4, <2>1, <2>2, <2>3, <2>4, <2>5, <2>6 DEF Exchange
<1> QED BY <1>3, <1>4 DEF Sides

(* The client's functions of the key share follow one another. *)
ClientGoesOn ==
    \/ fn'["client"] = fn["client"]
    \/ fn["client"] = "Init" /\ fn'["client"] = "Generate"
    \/ fn["client"] = "Generate" /\ fn'["client"] = "Send"
    \/ fn["client"] = "Shared" /\ fn'["client"] = "Use"
    \/ /\ fn["client"] \in {"Init", "Generate", "Shared"} /\ fn'["client"] = "Free"
       /\ ret'["client"] # "SUCCESS"

LEMMA ClientReturns ==
    ASSUME KsInv, Exchange, Return("client")
    PROVE  /\ Exchange' /\ ClientGoesOn /\ share' = share /\ ss'["server"] = ss["server"]
           /\ fn'["server"] = fn["server"]
<1>0. /\ UNCHANGED <<build, ret>> /\ Running("client") /\ ~More("client") /\ KsTypeOK /\ MeetOK
      /\ fn' = [fn EXCEPT !["client"] = IF ret["client"] = "SUCCESS" THEN Following[@] ELSE "Free"]
      /\ k' = [k EXCEPT !["client"] = 0]
      /\ "client" \in Sides /\ "server" \in Sides
  BY DEF Return, KsInv, Exchange, Sides
<1>1. fn["client"] \in {"Init", "Generate", "Shared"}
  BY <1>0, WhoRuns
<1>2. share' = share /\ ss' = [ss EXCEPT !["client"] = SecretReturned("client")]
  BY <1>1 DEF Return
<1>3. /\ fn'["server"] = fn["server"] /\ k'["server"] = k["server"]
      /\ ss'["server"] = ss["server"] /\ ss'["client"] = SecretReturned("client")
      /\ fn'["client"] = IF ret["client"] = "SUCCESS"
                         THEN (CASE fn["client"] = "Init" -> "Generate"
                                 [] fn["client"] = "Generate" -> "Send"
                                 [] fn["client"] = "Shared" -> "Use")
                         ELSE "Free"
  BY <1>0, <1>1, <1>2 DEF KsTypeOK, Sides, Following
<1>4. ClientGoesOn
  BY <1>0, <1>1, <1>3 DEF ClientGoesOn
<1>5. Hybrid' = Hybrid /\ SharedCalls' = SharedCalls
  BY <1>0 DEF Hybrid, SharedCalls
<1>6. /\ ServerSecret' = ServerSecret /\ KemSecret("server")' = KemSecret("server")
      /\ XSecret("server")' = XSecret("server") /\ ClientSecret' = ClientSecret
  BY <1>0, <1>2, ServerSecretFrom, ViewsFrom
<1>7. ServerHalves'
  BY <1>0, <1>3, <1>5, <1>6 DEF Exchange, ServerHalves
<1>8. MeetOK'
  <2>1. IsSecret(ss'["client"])
    BY <1>0, <1>3, SecretIs DEF SecretReturned, MeetOK
  <2>2. fn'["client"] \in {"Generate", "Send"} => fn["server"] = "Wait"
    BY <1>0, <1>1, <1>3 DEF MeetOK
  <2>3. fn'["client"] = "Use" => fn["server"] = "Done"
    BY <1>0, <1>1, <1>3 DEF MeetOK
  <2>4. fn'["client"] \in {"Generate", "Send", "Use", "Free"}
    BY <1>1, <1>3
  <2> QED BY <1>0, <1>2, <1>3, <2>1, <2>2, <2>3, <2>4 DEF MeetOK
<1>9. ClientHalves'
  <2>1. CASE fn'["client"] # "Use"
    <3>1. fn'["client"] \in {"Generate", "Send", "Free"}
      BY <1>1, <1>3, <2>1
    <3> QED BY <3>1 DEF ClientHalves
  <2>2. CASE fn'["client"] = "Use"
    <3>1. fn["client"] = "Shared" /\ ret["client"] = "SUCCESS"
      BY <1>1, <1>3, <2>2
    <3>2. k["client"] = Len(SharedCalls)
      <4>1. k["client"] = Len(Script(fn["client"]))
        BY <1>0, <3>1, ScriptDone
      <4> QED BY <3>1, <4>1 DEF Script
    <3>3. Len(SharedCalls) \in {3, 4}
      <4>1. Hybrid => SharedCalls = <<Use("kem"), InitKey("peer"), Use("peer"), Use("x")>>
        BY DEF SharedCalls, HybridShared
      <4>2. ~Hybrid => SharedCalls = <<InitKey("peer"), Use("peer"), Use("own")>>
        BY DEF SharedCalls
      <4>3. Hybrid => Len(SharedCalls) = 4
        BY <4>1
      <4>4. ~Hybrid => Len(SharedCalls) = 3
        BY <4>2
      <4> QED BY <4>3, <4>4
    <3>4. ss["client"] = ClientSecret
      <4>0. k["client"] >= Len(SharedCalls) /\ k["client"] >= 1
        <5>1. PICK n \in Nat : n = Len(SharedCalls) /\ n >= 1
          <6>1. CASE Len(SharedCalls) = 3
            BY <6>1
          <6>2. CASE Len(SharedCalls) = 4
            BY <6>2
          <6> QED BY <3>3, <6>1, <6>2
        <5>2. k["client"] = n
          BY <3>2, <5>1
        <5>3. k["client"] >= n /\ k["client"] >= 1
          BY <5>1, <5>2
        <5> QED BY <5>1, <5>3
      <4>1. ss["client"].x = XSecret("client") /\ (~Hybrid => ss["client"].kem = <<"unused">>)
        BY <3>1, <4>0 DEF Exchange, ClientHalves
      <4>2. Hybrid => ss["client"].kem = KemSecret("client")
        BY <3>1, <4>0 DEF Exchange, ClientHalves
      <4>3. ss["client"] = [kem |-> ss["client"].kem, x |-> ss["client"].x]
        BY <1>0 DEF MeetOK, IsSecret
      <4>4. ss["client"].kem = IF Hybrid THEN KemSecret("client") ELSE <<"unused">>
        BY <4>1, <4>2
      <4>5. ss["client"] = [kem |-> IF Hybrid THEN KemSecret("client") ELSE <<"unused">>,
                            x |-> XSecret("client")]
        BY <4>1, <4>3, <4>4
      <4> QED BY <4>5 DEF ClientSecret
    <3>5. ss'["client"] = ss["client"]
      BY <1>3, <3>1 DEF SecretReturned
    <3> QED BY <1>6, <2>2, <3>4, <3>5 DEF ClientHalves
  <2> QED BY <2>1, <2>2
<1> QED BY <1>2, <1>3, <1>4, <1>7, <1>8, <1>9 DEF Exchange

LEMMA ServerReturns ==
    ASSUME KsInv, Exchange, Return("server")
    PROVE  Exchange' /\ fn["server"] = "Respond" /\ fn'["server"] = "Done" /\ fn'["client"] = fn["client"]
<1>0. /\ UNCHANGED <<build, ret>> /\ Running("server") /\ ~More("server") /\ KsTypeOK /\ MeetOK
      /\ fn' = [fn EXCEPT !["server"] = "Done"] /\ k' = [k EXCEPT !["server"] = 0]
      /\ ServerHalves /\ ClientHalves
      /\ "client" \in Sides /\ "server" \in Sides
  BY DEF Return, KsInv, Exchange, Sides
<1>1. fn["server"] = "Respond"
  BY <1>0, WhoRuns
<1>2. fn'["server"] = "Done" /\ fn'["client"] = fn["client"] /\ k'["client"] = k["client"]
  BY <1>0 DEF KsTypeOK
<1>3. fn["client"] \notin {"Start", "Init", "Generate", "Send", "Got", "Shared", "Use"}
  BY <1>0, <1>1 DEF MeetOK
<1>4. /\ ss'["client"] = ss["client"]
      /\ ss'["server"] = IF ~Hybrid THEN [kem |-> <<"unused">>, x |-> XSecret("server")]
                         ELSE SecretReturned("server")
  BY <1>0, <1>1 DEF Return, KsTypeOK
<1>5. /\ share'["client"] = share["client"]
      /\ ret["server"] = "SUCCESS" =>
            share'["server"] = [Genuine EXCEPT !.kem = share["client"].kem]
      /\ ret["server"] # "SUCCESS" => share'["server"] = share["server"]
  BY <1>0, <1>1 DEF Return, KsTypeOK
<1>6. MeetOK'
  <2>1. IsSecret(ss'["server"])
    BY <1>0, <1>4, SecretIs DEF MeetOK, SecretReturned
  <2>2. /\ IsShare(share'["server"]) /\ (share'["server"].sent <=> ret["server"] = "SUCCESS")
    <3>1. CASE ret["server"] = "SUCCESS"
      <4>1. \A v : IsShare([Genuine EXCEPT !.kem = v]) /\ [Genuine EXCEPT !.kem = v].sent
        BY GenuineIs, ShareParts
      <4> QED BY <1>5, <3>1, <4>1
    <3>2. CASE ret["server"] # "SUCCESS"
      BY <1>0, <1>1, <1>5, <3>2 DEF MeetOK
    <3> QED BY <3>1, <3>2
  <2> QED BY <1>0, <1>1, <1>2, <1>3, <1>4, <1>5, <2>1, <2>2 DEF MeetOK
<1>7. ClientHalves'
  BY <1>2, <1>3 DEF ClientHalves
<1>8. ServerHalves'
  <2>1. ServerSecret' = ServerSecret
    BY <1>0, <1>5, ServerSecretFrom
  <2>2. ret["server"] = "SUCCESS" => ss'["server"] = ServerSecret
    <3>1. CASE ~Hybrid
      <4>1. ss'["server"] = [kem |-> <<"unused">>, x |-> XSecret("server")]
        BY <1>4, <3>1
      <4> QED BY <3>1, <4>1 DEF ServerSecret
    <3>2. CASE Hybrid /\ ret["server"] = "SUCCESS"
      <4>1. k["server"] = Len(Script("Respond"))
        BY <1>0, <1>1, <3>2, ScriptDone
      <4>2. Script("Respond") = <<InitKey("skem"), Use("skem"), InitKey("srv"), Use("srv"),
                                  InitKey("speer"), Use("speer"), Use("srv")>>
        BY <3>2 DEF Script, RespondCalls, HybridRespond
      <4>3. Len(Script("Respond")) = 7
        BY <4>2
      <4>4. ss["server"].kem = KemSecret("server") /\ ss["server"].x = XSecret("server")
        <5>2. k["server"] = 7
          BY <4>1, <4>3
        <5>1. k["server"] >= 2 /\ k["server"] >= 7
          BY <5>2
        <5> QED BY <1>0, <1>1, <3>2, <5>1 DEF ServerHalves
      <4>5. ss["server"] = [kem |-> ss["server"].kem, x |-> ss["server"].x]
        BY <1>0 DEF MeetOK, IsSecret
      <4>6. ss'["server"] = ss["server"]
        BY <1>4, <3>2 DEF SecretReturned
      <4>7. ss'["server"] = [kem |-> KemSecret("server"), x |-> XSecret("server")]
        BY <4>4, <4>5, <4>6
      <4> QED BY <3>2, <4>7 DEF ServerSecret
    <3> QED BY <3>1, <3>2
  <2> QED BY <1>0, <1>2, <2>1, <2>2 DEF ServerHalves
<1> QED BY <1>1, <1>2, <1>6, <1>7, <1>8 DEF Exchange

(* All of them together: once the server has answered and the client has taken
   its answer, nothing of the exchange changes. *)
LEMMA KeysMove ==
    ASSUME KsInv, Exchange, KsNext
    PROVE  /\ Exchange' /\ build' = build /\ ClientGoesOn
           /\ ret'["client"] = "SUCCESS" => ret["client"] = "SUCCESS"
           /\ (fn["server"] = "Done" /\ fn["client"] # "Recv") =>
                 /\ share' = share /\ ss'["server"] = ss["server"]
                 /\ fn'["server"] = "Done" /\ ret'["server"] = ret["server"]
           /\ fn["client"] \notin {"Init", "Generate", "Shared"} => ret'["client"] = ret["client"]
<1> USE DEF ClientGoesOn
<1>0. KsTypeOK /\ "client" \in Sides /\ "server" \in Sides /\ Sides = {"client", "server"}
  BY DEF KsInv, Sides
<1>1. ASSUME NEW s \in Sides, CallSucceeds(s)
      PROVE  /\ Exchange' /\ UNCHANGED <<build, fn, ret, share>>
             /\ fn["server"] = "Done" => ss'["server"] = ss["server"]
  <2>1. UNCHANGED <<build, fn, ret, share>> /\ Running(s) /\ ss' = [ss EXCEPT ![s] = Written(s)]
    BY <1>1 DEF CallSucceeds, More
  <2>2. s = "server" => fn["server"] = "Respond"
    BY <1>0, <2>1, WhoRuns
  <2>3. s = "client" => ss'["server"] = ss["server"]
    BY <1>0, <2>1 DEF KsTypeOK
  <2> QED BY <1>0, <1>1, <2>1, <2>2, <2>3, ServerWrites, ClientWrites
<1>2. ASSUME NEW s \in Sides, CallFails(s)
      PROVE  /\ Exchange' /\ UNCHANGED <<build, fn, share, ss>>
             /\ fn["server"] = "Done" => ret'["server"] = ret["server"]
             /\ ret'["client"] = "SUCCESS" => ret["client"] = "SUCCESS"
             /\ fn["client"] \notin {"Init", "Generate", "Shared"} => ret'["client"] = ret["client"]
  <2>1. UNCHANGED <<build, fn, share, ss>> /\ Running(s) /\ ret' = [ret EXCEPT ![s] = "E_CRYPTO"]
    BY <1>2 DEF CallFails, More
  <2>2. s = "server" => fn["server"] = "Respond" /\ ret'["client"] = ret["client"]
    BY <1>0, <2>1, WhoRuns DEF KsTypeOK
  <2>3. s = "client" => /\ ret'["server"] = ret["server"] /\ ret'["client"] = "E_CRYPTO"
                        /\ fn["client"] \in {"Init", "Generate", "Shared"}
    BY <1>0, <2>1, WhoRuns DEF KsTypeOK
  <2> QED BY <1>0, <1>2, <2>1, <2>2, <2>3, ExchangeFails
<1>3. ASSUME NEW s \in Sides, Tamper(s)
      PROVE  /\ Exchange' /\ UNCHANGED <<build, fn, ret, ss>>
             /\ ~(fn["server"] = "Done" /\ fn["client"] # "Recv")
  <2>1. UNCHANGED <<build, fn, ret, ss>>
    BY <1>3 DEF Tamper
  <2>2. ~(fn["server"] = "Done" /\ fn["client"] # "Recv")
    BY <1>0, <1>3, ExchangeTampered
  <2> QED BY <1>3, <2>1, <2>2, ExchangeTampered
<1>4. ASSUME ServerRefuses
      PROVE  /\ Exchange' /\ UNCHANGED <<build, fn, ss, share>> /\ fn["server"] # "Done"
             /\ ret'["client"] = ret["client"]
  <2>1. /\ UNCHANGED <<build, fn, ss, share>> /\ fn["server"] = "Respond"
        /\ ret' = [ret EXCEPT !["server"] = "E_INVALID_ARG"]
    BY <1>4 DEF ServerRefuses, Refused
  <2>2. ret'["client"] = ret["client"]
    BY <1>0, <2>1 DEF KsTypeOK
  <2> QED BY <1>4, <2>1, <2>2, ExchangeRefuses
<1>5. ASSUME Return("client")
      PROVE  /\ Exchange' /\ ClientGoesOn /\ UNCHANGED <<build, ret, share>>
             /\ ss'["server"] = ss["server"] /\ fn'["server"] = fn["server"]
  BY <1>5, ClientReturns DEF Return
<1>6. ASSUME Return("server")
      PROVE  /\ Exchange' /\ UNCHANGED <<build, ret>> /\ fn["server"] # "Done"
             /\ fn'["client"] = fn["client"]
  BY <1>6, ServerReturns DEF Return
<1>7. \/ \E s \in Sides : CallSucceeds(s)
      \/ \E s \in Sides : CallFails(s)
      \/ \E s \in Sides : Tamper(s)
      \/ ServerRefuses \/ Return("client") \/ Return("server")
  BY DEF KsNext, Sides
<1>8. CASE \E s \in Sides : CallSucceeds(s)
  BY <1>1, <1>8
<1>9. CASE \E s \in Sides : CallFails(s)
  BY <1>2, <1>9
<1>10. CASE \E s \in Sides : Tamper(s)
  BY <1>3, <1>10
<1> HIDE DEF ClientGoesOn
<1>11. CASE ServerRefuses
  BY <1>4, <1>11 DEF ClientGoesOn
<1>12. CASE Return("client")
  BY <1>5, <1>12
<1>13. CASE Return("server")
  BY <1>6, <1>13 DEF ClientGoesOn
<1> QED BY <1>7, <1>8, <1>9, <1>10, <1>11, <1>12, <1>13

-----------------------------------------------------------------------------
(***************************************************************************)
(* The course of a handshake                                               *)
(***************************************************************************)
SeqsOK == IsSeq(tc) /\ IsSeq(wire)
ScheduleInv ==
    /\ Exchange /\ StagesOK /\ OnceOK /\ FixedOK /\ ThOK /\ MacOK /\ MidOK /\ SeqsOK /\ TcOK
    /\ AgreeOK /\ KeysOK /\ WireOK /\ FlagsOK /\ FaultOK

LEMMA FaultByKeys ==
    ASSUME KsInv, Exchange, FaultOK, KsNext
    PROVE  FaultOK'
<1> USE DEF FaultOK, OK
<1>0. KsTypeOK /\ MeetOK /\ "client" \in Sides /\ "server" \in Sides /\ Sides = {"client", "server"}
  BY DEF KsInv, Exchange, Sides
<1>1. ASSUME NEW s \in Sides, CallSucceeds(s) PROVE FaultOK'
  BY <1>1 DEF CallSucceeds
<1>2. ASSUME NEW s \in Sides, CallFails(s) PROVE FaultOK'
  <2>1. fails' = fails + 1 /\ ret' = [ret EXCEPT ![s] = "E_CRYPTO"]
    BY <1>2 DEF CallFails
  <2>2. ret'[s] = "E_CRYPTO"
    BY <1>0, <2>1 DEF KsTypeOK
  <2>3. fails' \in Nat /\ fails' > 0 /\ fails' # 0
    BY <2>1
  <2>4. ret'["client"] # "SUCCESS" \/ ret'["server"] # "SUCCESS"
    BY <1>0, <2>2
  <2> QED BY <2>3, <2>4
<1>3. ASSUME NEW s \in Sides, Tamper(s) PROVE FaultOK'
  <2>1. UNCHANGED <<fn, ret, fails>>
    BY <1>3 DEF Tamper
  <2>2. CASE s = "client"
    <3>1. fn["server"] = "Respond" /\ ret["server"] = "SUCCESS"
      BY <1>0, <1>3, <2>2, ExchangeTampered
    <3> QED BY <2>1, <3>1
  <2>3. CASE s = "server"
    <3>1. fn["client"] = "Recv" /\ share'["client"] = share["client"]
      BY <1>0, <1>3, <2>3, ExchangeTampered
    <3> QED BY <2>1, <3>1
  <2> QED BY <1>0, <2>2, <2>3
<1>4. ASSUME ServerRefuses PROVE FaultOK'
  <2>1. /\ UNCHANGED <<fn, share, fails>> /\ fn["server"] = "Respond" /\ share["client"].short
        /\ ret' = [ret EXCEPT !["server"] = "E_INVALID_ARG"]
    BY <1>4 DEF ServerRefuses, Refused
  <2>2. ret'["client"] = ret["client"] /\ ret'["server"] # "SUCCESS"
    BY <1>0, <2>1 DEF KsTypeOK
  <2>3. share["client"] # Genuine
    BY <2>1 DEF Genuine, Unsent
  <2> QED BY <2>1, <2>2, <2>3
<1>5. ASSUME Return("client") PROVE FaultOK'
  <2>1. /\ UNCHANGED <<ret, fails, share>> /\ fn'["server"] = fn["server"]
    BY <1>5, ClientReturns DEF Return
  <2>2. fn["client"] \in {"Init", "Generate", "Shared"}
    BY <1>0, <1>5, WhoRuns DEF Return
  <2> QED BY <2>1, <2>2
<1>6. ASSUME Return("server") PROVE FaultOK'
  <2>1. /\ UNCHANGED <<ret, fails>> /\ fn["server"] = "Respond" /\ fn'["server"] = "Done"
    BY <1>6, ServerReturns DEF Return
  <2>2. share'["client"] = share["client"]
    BY <1>0, <1>6 DEF Return, KsTypeOK
  <2> QED BY <2>1, <2>2
<1> QED BY <1>1, <1>2, <1>3, <1>4, <1>5, <1>6 DEF KsNext, Sides

(* Where the calls stand to one another *)
LEMMA Places ==
    \/ /\ path = "psk" /\ HelloEnd = 8 /\ KeysFrom = 13 /\ FlightFrom = 22 /\ FinFrom = 27
       /\ SessionFrom = 30 /\ LastCall = 40 /\ MacAt = 25 /\ FinishedAt = 26 /\ N = 4
       /\ UpdateAt = <<7, 10, 23, 27>>
    \/ /\ path # "psk" /\ HelloEnd = 4 /\ KeysFrom = 10 /\ FlightFrom = 20 /\ FinFrom = 29
       /\ SessionFrom = 32 /\ LastCall = 42 /\ MacAt = 28 /\ FinishedAt = 29 /\ N = 6
       /\ UpdateAt = <<3, 6, 21, 22, 24, 27>>
BY DEF HelloEnd, KeysFrom, FlightFrom, FinFrom, SessionFrom, LastCall, MacAt, FinishedAt, N,
       UpdateAt

(* What is written before ServerHello does not depend on it. *)
LEMMA EarlyOnce ==
    ASSUME path' = path, NEW b \in Once, WrittenAt(b) <= HelloEnd
    PROVE  Ref(b)' = Ref(b)
<1>1. b \in {"emptyHash", "early", "binderKey", "binder"}
  <2>1. CASE path = "psk"
    <3>1. HelloEnd = 8 /\ KeysFrom = 13 /\ FlightFrom = 22 /\ SessionFrom = 30
      BY <2>1, Places
    <3> QED BY <2>1, <3>1 DEF Once, WrittenAt
  <2>2. CASE path # "psk"
    <3>1. HelloEnd = 4 /\ KeysFrom = 10 /\ FlightFrom = 20 /\ SessionFrom = 32
      BY <2>2, Places
    <3> QED BY <2>2, <3>1 DEF Once, WrittenAt
  <2> QED BY <2>1, <2>2
<1> QED BY <1>1, SameReference DEF Ref

(* What is on the wire stays right while neither view changes. *)
LEMMA OnWireKept ==
    ASSUME path' = path, Settled => Settled' /\ ClientView' = ClientView /\ ServerView' = ServerView
    PROVE  \A e : OnWire(e) => OnWire(e)'
<1> SUFFICES ASSUME NEW e, OnWire(e) PROVE OnWire(e)'
  OBVIOUS
<1>1. CASE e.kind = "hello" /\ e.terms = IF path = "psk" THEN <<RefBinder>> ELSE <<>>
  <2>1. RefBinder' = RefBinder
    BY SameReference
  <2> QED BY <1>1, <2>1 DEF OnWire
<1>2. CASE e.kind = "alert" /\ e.terms = Sealing(ClientView) /\ Settled
  <2>1. RefTraffic(ClientView, "c")' = RefTraffic(ClientView, "c")
    BY <1>2, SameReference
  <2>2. Sealing(ClientView)' = Sealing(ClientView)
    BY <2>1 DEF Sealing, RefKey, RefIv
  <2> QED BY <1>2, <2>2 DEF OnWire
<1>3. CASE /\ e.kind = "finished" /\ Settled
           /\ e.terms = <<FinishedMac(RefTraffic(ServerView, "c"), Upto(ServerView, N))>>
                           \o Sealing(ServerView)
  <2>1. ServerView' = ServerView /\ N' = N
    BY <1>3, SamePlaces DEF ViewKept
  <2>2. /\ RefTraffic(ServerView, "c")' = RefTraffic(ServerView, "c")
        /\ Upto(ServerView, N)' = Upto(ServerView, N)
    BY <2>1, SameReference
  <2>3. Sealing(ServerView)' = Sealing(ServerView)
    BY <2>2 DEF Sealing, RefKey, RefIv
  <2> QED BY <1>3, <2>2, <2>3 DEF OnWire
<1> QED BY <1>1, <1>2, <1>3 DEF OnWire

LEMMA WireGrows ==
    ASSUME SeqsOK, WireOK, path' = path,
           Settled => Settled' /\ ClientView' = ClientView /\ ServerView' = ServerView,
           wire' = wire \/ \E e : OnWire(e) /\ wire' = Append(wire, e)
    PROVE  WireOK'
<1>1. \A e : OnWire(e) => OnWire(e)'
  BY OnWireKept
<1>2. PICK S : wire \in Seq(S)
  BY DEF SeqsOK, IsSeq
<1>3. CASE wire' = wire
  <2> SUFFICES ASSUME NEW n \in DOMAIN wire PROVE OnWire(wire[n])'
    BY <1>3 DEF WireOK
  <2>1. OnWire(wire[n])
    BY DEF WireOK
  <2> QED BY <1>1, <1>3, <2>1
<1>4. ASSUME NEW e, OnWire(e), wire' = Append(wire, e) PROVE WireOK'
  <2>1. wire \in Seq(S \cup {e})
    BY <1>2, SeqSubset
  <2>2. /\ DOMAIN wire' = 1 .. Len(wire) + 1 /\ wire'[Len(wire) + 1] = e
        /\ DOMAIN wire = 1 .. Len(wire) /\ \A n \in 1 .. Len(wire) : wire'[n] = wire[n]
    BY <1>4, <2>1
  <2> SUFFICES ASSUME NEW n \in DOMAIN wire' PROVE OnWire(wire[n])'
    BY DEF WireOK
  <2>3. wire'[n] = e \/ (n \in DOMAIN wire /\ wire'[n] = wire[n])
    <3>1. PICK m \in Nat : m = Len(wire)
      BY <1>2
    <3> QED BY <2>2, <3>1
  <2>4. OnWire(wire'[n])
    BY <1>4, <2>3 DEF WireOK
  <2> QED BY <1>1, <2>4
<1> QED BY <1>3, <1>4

(* The key share's own steps leave the schedule as it is. *)
LEMMA ScheduleByKeys ==
    ASSUME DriverInv, ScheduleInv, KsNext, UNCHANGED driverVars
    PROVE  ScheduleInv'
<1> USE DEF ScheduleInv
<1>0. /\ UNCHANGED <<path, i, buf, tc, pc, wire, flags, keysReady>> /\ KsInv /\ KsTypeOK
      /\ i \in 0 .. Len(Program) /\ i \in Nat
  BY ProgramFacts DEF driverVars, DriverInv, KsInv, StageOK
<1>1. /\ Exchange' /\ build' = build /\ ClientGoesOn /\ (OK' => OK)
      /\ (fn["server"] = "Done" /\ fn["client"] # "Recv") =>
            /\ share' = share /\ ss'["server"] = ss["server"]
            /\ fn'["server"] = "Done" /\ ret'["server"] = ret["server"]
      /\ fn["client"] \notin {"Init", "Generate", "Shared"} => ret'["client"] = ret["client"]
  BY <1>0, KeysMove DEF OK
<1>2. FaultOK' /\ FixedOK' /\ SeqsOK'
  BY <1>0, FaultByKeys DEF FixedOK, SeqsOK
<1>3. PICK h \in Nat : h = HelloEnd /\ h >= 4
  BY Places
<1>4. ViewKept
  BY <1>0, SamePlaces
<1>5. ASSUME OK, i > HelloEnd
      PROVE  /\ share' = share /\ ss'["server"] = ss["server"] /\ fn["server"] = "Done"
             /\ fn["client"] # "Recv"
  <2>1. share["server"].sent /\ fn["client"] \in {"Got", "Shared", "Use", "Done"}
    <3>1. \/ i \in h + 1 .. h + 3 \/ i = h + 4 \/ i > h + 4
      BY <1>0, <1>3, <1>5
    <3> QED BY <1>3, <1>5, <3>1 DEF StagesOK
  <2>2. fn["server"] = "Done"
    BY <2>1 DEF Exchange, MeetOK
  <2> QED BY <1>1, <2>1, <2>2
<1>6. ASSUME OK, i > HelloEnd PROVE RefsKept /\ ClientView' = ClientView /\ ServerView' = ServerView
  BY <1>0, <1>1, <1>5, <1>6, ViewsFrom, SameView
<1>7. ASSUME Settled
      PROVE  /\ Settled' /\ RefsKept /\ ClientView' = ClientView /\ ServerView' = ServerView
  <2>1. /\ share' = share /\ ss'["server"] = ss["server"] /\ fn'["server"] = "Done"
        /\ fn'["client"] = fn["client"]
    BY <1>1, <1>7 DEF Settled, ClientGoesOn
  <2> QED BY <1>0, <1>1, <1>7, <2>1, ViewsFrom, SameView DEF Settled
<1>8. StagesOK'
  <2> SUFFICES ASSUME OK' PROVE StagesOK'
    BY DEF StagesOK
  <2>0. OK /\ ret'["client"] = "SUCCESS"
    BY <1>1 DEF OK
  <2>1. i \in 2 .. HelloEnd - 1 => fn'["client"] \in {"Init", "Generate", "Send"}
    BY <1>1, <2>0 DEF StagesOK, ClientGoesOn
  <2>2. i = HelloEnd => fn'["client"] = "Recv"
    BY <1>1, <2>0 DEF StagesOK, ClientGoesOn
  <2>3. i \in HelloEnd + 1 .. HelloEnd + 3 => fn'["client"] = "Got"
    BY <1>1, <2>0 DEF StagesOK, ClientGoesOn
  <2>4. i > HelloEnd => share'["server"].sent
    BY <1>5, <2>0 DEF StagesOK
  <2>5. i = HelloEnd + 4 => fn'["client"] \in {"Shared", "Use"}
    BY <1>1, <2>0 DEF StagesOK, ClientGoesOn
  <2>6. i > HelloEnd + 4 => fn'["client"] \in {"Use", "Done"}
    BY <1>1, <2>0 DEF StagesOK, ClientGoesOn
  <2>7. pc = "done" => i = LastCall
    BY <2>0 DEF StagesOK
  <2> QED BY <1>0, <1>4, <2>1, <2>2, <2>3, <2>4, <2>5, <2>6, <2>7 DEF StagesOK, ViewKept
<1>9. OnceOK'
  <2> SUFFICES ASSUME OK', NEW b \in Once, i >= WrittenAt(b), pc = "run" \/ b \in SessionFields
               PROVE  buf[b] = Ref(b)'
    BY <1>0, <1>4 DEF OnceOK, ViewKept
  <2>1. buf[b] = Ref(b)
    BY <1>1 DEF OnceOK
  <2>2. CASE i > HelloEnd
    BY <1>1, <1>6, <2>1, <2>2 DEF RefsKept
  <2>3. CASE ~(i > HelloEnd)
    <3>1. WrittenAt(b) \in Nat
      <4>1. KeysFrom \in Nat /\ FlightFrom \in Nat /\ SessionFrom \in Nat
        BY Places
      <4> QED BY <4>1 DEF Once, WrittenAt, SessionFields
    <3>2. WrittenAt(b) <= HelloEnd
      BY <1>0, <1>3, <2>3, <3>1
    <3> QED BY <1>0, <2>1, <3>2, EarlyOnce
  <2> QED BY <2>2, <2>3
<1>10. ThOK' /\ MacOK' /\ MidOK'
  <2> SUFFICES ASSUME OK', pc = "run" PROVE ThOK' /\ MacOK' /\ MidOK'
    BY <1>0 DEF ThOK, MacOK, MidOK
  <2>0. OK
    BY <1>1
  <2>1. ThOK'
    <3>1. /\ i \in HelloEnd + 5 .. FlightFrom => i > HelloEnd
          /\ i \in FinFrom - 3 .. FinFrom => i > HelloEnd
          /\ i \in FinFrom + 1 .. LastCall => i > HelloEnd
      BY <1>0, Places
    <3>2. /\ i \in HelloEnd + 5 .. FlightFrom => buf["th"] = Upto(ClientView, 2)'
          /\ i \in FinFrom - 3 .. FinFrom => buf["th"] = Upto(ClientView, N - 1)'
          /\ i \in FinFrom + 1 .. LastCall => buf["th"] = Upto(ClientView, N)'
      BY <1>4, <1>6, <2>0, <3>1 DEF ThOK, RefsKept, ViewKept
    <3> QED BY <1>0, <1>4, <2>0, <3>2 DEF ThOK, ViewKept
  <2>2. MacOK'
    <3>1. /\ i \in MacAt .. FinFrom + 1 => i > HelloEnd
          /\ i \in FinFrom + 2 .. LastCall => i > HelloEnd
      BY <1>0, Places, SMTT(30)
    <3>2. /\ i \in MacAt .. FinFrom + 1 =>
                buf["mac"] = FinishedMac(RefTraffic(ClientView, "s"), Upto(ClientView, N - 1))'
          /\ i \in FinFrom + 2 .. LastCall =>
                buf["mac"] = FinishedMac(RefTraffic(ClientView, "c"), Upto(ClientView, N))'
      <4>1. i > HelloEnd =>
               /\ Upto(ClientView, N - 1)' = Upto(ClientView, N - 1)
               /\ Upto(ClientView, N)' = Upto(ClientView, N)
               /\ RefTraffic(ClientView, "s")' = RefTraffic(ClientView, "s")
               /\ RefTraffic(ClientView, "c")' = RefTraffic(ClientView, "c")
        BY <1>4, <1>6, <2>0 DEF RefsKept, ViewKept
      <4> QED BY <2>0, <3>1, <4>1 DEF MacOK
    <3> QED BY <1>0, <1>4, <2>0, <3>2 DEF MacOK, ViewKept
  <2>3. MidOK'
    <3>1. /\ i \in SessionFrom + 1 .. SessionFrom + 9 => i > HelloEnd
          /\ i \in SessionFrom + 2 .. SessionFrom + 9 => i > HelloEnd
      BY <1>0, Places, SMTT(30)
    <3>2. RefEarly' = RefEarly
      BY <1>0, SameReference
    <3>3. i > HelloEnd => /\ RefHs(ClientView)' = RefHs(ClientView)
                          /\ RefMaster(ClientView)' = RefMaster(ClientView)
      BY <1>6, <2>0 DEF RefsKept
    <3>4. EmptyHash' = EmptyHash
      BY DEF EmptyHash, Public
    <3> QED BY <1>0, <1>4, <2>0, <3>1, <3>2, <3>3, <3>4 DEF MidOK, ViewKept
  <2> QED BY <2>1, <2>2, <2>3
<1>11. TcOK'
  <2> SUFFICES ASSUME OK' PROVE TcOK'
    BY DEF TcOK
  <2>1. /\ Len(tc) <= N /\ \A m \in 1 .. N : m <= Len(tc) <=> UpdateAt[m] <= i
        /\ \A m \in 1 .. Len(tc) : tc[m] = RefMsgs(ClientView)[m]
    BY <1>1 DEF TcOK
  <2>2. \A m \in 1 .. Len(tc) : tc[m] = RefMsgs(ClientView)'[m]
    <3>1. CASE i > HelloEnd
      BY <1>1, <1>6, <2>1, <3>1 DEF RefsKept
    <3>2. CASE ~(i > HelloEnd)
      <4>0. PICK n \in Nat : n = Len(tc)
        <5>1. PICK S : tc \in Seq(S)
          BY DEF SeqsOK, IsSeq
        <5> QED BY <5>1
      <4>1. ~(UpdateAt[2] <= i) /\ 2 \in 1 .. N
        BY <1>0, <3>2, Places
      <4>2. ~(2 <= n)
        BY <2>1, <4>0, <4>1
      <4>3. \A m \in 1 .. n : m = 1
        BY <4>0, <4>2
      <4>4. RefMsgs(ClientView)[1] = RefCh(Genuine) /\ RefMsgs(ClientView)'[1] = RefCh(Genuine)'
        <5>1. RefMsgs(ClientView)[1] = RefCh(ClientView.ch)
          BY RefMsgsAt DEF MsgsAre
        <5>2. RefMsgs(ClientView)'[1] = RefCh(ClientView.ch)'
          <6>1. \A v : RefMsgs(v)[1] = RefCh(v.ch)
            BY RefMsgsAt DEF MsgsAre
          <6>2. \A v : RefMsgs(v)' = RefMsgs(v) /\ RefCh(v)' = RefCh(v)
            BY <1>0, SameReference DEF RefCh
          <6>3. RefMsgs(ClientView)' = RefMsgs(ClientView')
            BY <6>2
          <6>4. RefCh(ClientView.ch)' = RefCh(ClientView'.ch)
            BY <6>2
          <6> QED BY <6>1, <6>3, <6>4
        <5>3. ClientView.ch = Genuine /\ ClientView'.ch = Genuine
          BY DEF ClientView, Genuine, Unsent
        <5> QED BY <5>1, <5>2, <5>3
      <4>5. RefCh(Genuine)' = RefCh(Genuine)
        <5>1. RefBinder' = RefBinder
          BY <1>0, SameReference
        <5> QED BY <1>0, <5>1 DEF RefCh, Genuine, Unsent
      <4> QED BY <2>1, <4>0, <4>3, <4>4, <4>5
    <3> QED BY <3>1, <3>2
  <2> QED BY <1>0, <1>4, <2>1, <2>2 DEF TcOK, ViewKept
<1>12. AgreeOK'
  <2> SUFFICES ASSUME OK', i >= FinishedAt PROVE ClientView' = ServerView'
    BY <1>0, <1>4 DEF AgreeOK, ViewKept
  <2>1. i > HelloEnd
    BY <1>0, Places
  <2> QED BY <1>1, <1>6, <2>1 DEF AgreeOK
<1>13. KeysOK'
  <2> SUFFICES ASSUME keysReady PROVE KeysOK'
    BY <1>0 DEF KeysOK
  <2>1. Ref("cKey")' = Ref("cKey") /\ Ref("cIv")' = Ref("cIv")
    BY <1>7 DEF KeysOK, RefsKept
  <2> QED BY <1>0, <1>4, <1>7, <2>1 DEF KeysOK, ViewKept
<1>14. WireOK'
  BY <1>0, <1>7, WireGrows
<1>15. FlagsOK'
  <2>1. flags # {} => OK'
    <3> SUFFICES ASSUME flags # {} PROVE OK'
      OBVIOUS
    <3>1. OK /\ i >= SessionFrom + 9
      BY DEF FlagsOK
    <3>0. PICK a \in Nat, b \in Nat : a = HelloEnd /\ b = SessionFrom /\ b > a + 4
      BY Places
    <3>2. i > HelloEnd + 4
      BY <1>0, <3>0, <3>1
    <3> QED BY <1>1, <3>1, <3>2 DEF StagesOK, OK
  <2> QED BY <1>0, <1>1, <1>4, <2>1 DEF FlagsOK, ViewKept
<1> QED BY <1>1, <1>2, <1>8, <1>9, <1>10, <1>11, <1>12, <1>13, <1>14, <1>15

-----------------------------------------------------------------------------
(***************************************************************************)
(* A call of the driver's                                                  *)
(***************************************************************************)
LEMMA SharedIs == SharedAt = HelloEnd + 4
<1>1. SharedAt \in 3 .. Len(Program) /\ Program[SharedAt].op = "keyshare" /\ Len(Program) \in Nat
  BY ProgramFacts DEF KsCall, Do
<1>2. SitedCall(SharedAt)
  BY <1>1, AllSited
<1>3. SharedAt \in {2, HelloEnd + 4}
  BY <1>1, <1>2 DEF SitedCall, Sited
<1> QED BY <1>1, <1>3

(* Where the client stands when a call is made and none has failed *)
StageNow ==
    /\ i \in Nat /\ i + 1 \in 1 .. LastCall /\ pc = "run"
    /\ Sited(i + 1, c.op, c.out)
    /\ i < 2 => fn["client"] = "Start"
    /\ (OK /\ i \in 2 .. HelloEnd - 1) => fn["client"] = "Send"
    /\ (OK /\ i = HelloEnd) => fn["client"] = "Recv"
    /\ (OK /\ i \in HelloEnd + 1 .. HelloEnd + 3) => fn["client"] = "Got"
    /\ i >= HelloEnd + 4 => fn["client"] \in {"Use", "Free"}
    /\ (OK /\ i >= HelloEnd + 4) => fn["client"] = "Use"

LEMMA Standing ==
    ASSUME DriverInv, StagesOK, Guarded
    PROVE  StageNow
<1>1. /\ pc = "run" /\ i \in Nat /\ i < Len(Program)
      /\ i < 2 => fn["client"] = "Start"
      /\ i \in 2 .. SharedAt - 1 => fn["client"] \in {"Send", "Recv", "Got", "Free"}
      /\ i >= SharedAt => fn["client"] \in {"Use", "Free"}
  BY IdleStage
<1>2. PICK h \in Nat, n \in Nat :
         h = HelloEnd /\ SharedAt = h + 4 /\ h >= 4 /\ n = LastCall /\ Len(Program) = n
  BY Places, SharedIs, ProgramPieces
<1>3. i + 1 \in 1 .. LastCall /\ Sited(i + 1, c.op, c.out)
  <2>1. i + 1 \in 1 .. Len(Program)
    BY <1>1, <1>2
  <2> QED BY <1>2, <2>1, AllSited DEF SitedCall, c
<1>4. OK /\ i \in 2 .. HelloEnd - 1 => fn["client"] = "Send"
  <2>1. i \in 2 .. h - 1 => i \in 2 .. SharedAt - 1
    BY <1>1, <1>2
  <2> QED BY <1>1, <1>2, <2>1 DEF StagesOK
<1>5. i >= HelloEnd + 4 => fn["client"] \in {"Use", "Free"}
  BY <1>1, <1>2
<1>6. OK => fn["client"] # "Free"
  BY DEF OK, DriverInv, KsInv, ScriptOK
<1> QED BY <1>1, <1>3, <1>4, <1>5, <1>6 DEF StagesOK, StageNow

(* What a call that returns leaves and keeps *)
Stepped ==
    /\ i' = i + 1 /\ pc' = "run" /\ path' = path /\ build' = build /\ ss' = ss
    /\ share'["server"] = share["server"]
    /\ i + 1 # HelloEnd => share' = share
    /\ ret'["server"] = ret["server"]
    /\ OK' => OK
    /\ ViewKept /\ RefsKept /\ ClientView' = ClientView
    /\ i + 1 # HelloEnd => ServerView' = ServerView

LEMMA SteppedFrom ==
    ASSUME i' = i + 1, pc' = "run", path' = path, build' = build, ss' = ss,
           share'["server"] = share["server"], i + 1 # HelloEnd => share' = share,
           ret'["server"] = ret["server"], OK' => OK
    PROVE  Stepped
<1>1. ClientView' = ClientView /\ (i + 1 # HelloEnd => ServerView' = ServerView)
  BY ViewsFrom
<1> QED BY <1>1, SamePlaces, SameView DEF Stepped

LEMMA Succeeds ==
    ASSUME DriverInv, StagesOK, StepSucceeds
    PROVE  /\ StageNow /\ Stepped /\ fails' = fails /\ k' = k
           /\ ret'["client"] = Combine(Mismatch) /\ (OK' <=> OK /\ Mismatch = "SUCCESS")
<1>0. /\ Guarded /\ ShareMoves /\ Returns(Mismatch) /\ i' = i + 1
      /\ UNCHANGED <<build, k, ss, fails, path, pc>>
  BY DEF StepSucceeds
<1>1. StageNow
  BY <1>0, Standing
<1>2. /\ ret'["client"] = Combine(Mismatch) /\ ret'["server"] = ret["server"]
  BY <1>0 DEF Returns, DriverInv, KsInv, KsTypeOK, Sides
<1>3. OK' <=> OK /\ Mismatch = "SUCCESS"
  BY <1>2 DEF OK, Combine
<1>4. /\ share'["server"] = share["server"] /\ (i + 1 # HelloEnd => share' = share)
  <2>1. c.op = "send" /\ c.label = "hello" => i + 1 = HelloEnd
    <3> SUFFICES ASSUME c.op = "send", c.label = "hello" PROVE i + 1 = HelloEnd
      OBVIOUS
    <3>1. i + 1 \in {HelloEnd, FinFrom + 3}
      BY <1>1 DEF StageNow, Sited
    <3>2. i + 1 = FinFrom + 3 => c.label = "finished"
      BY SessionAt DEF FinishedTable, Is, c
    <3> QED BY <3>1, <3>2
  <2>2. CASE c.op = "send" /\ c.label = "hello"
    <3>1. share' = [share EXCEPT !["client"] = Genuine]
      BY <1>0, <2>2 DEF ShareMoves
    <3> QED BY <2>1, <2>2, <3>1
  <2>3. CASE ~(c.op = "send" /\ c.label = "hello")
    <3>1. share' = share
      BY <1>0, <2>3 DEF ShareMoves
    <3> QED BY <3>1
  <2> QED BY <2>2, <2>3
<1>5. Stepped
  <2>1. pc' = "run"
    BY <1>0, <1>1 DEF StageNow
  <2> QED BY <1>0, <1>2, <1>3, <1>4, <2>1, SteppedFrom
<1> QED BY <1>0, <1>1, <1>2, <1>3, <1>5

(* The calls in which the sides meet begin their blocks: no failure comes there. *)
LEMMA Meetings ==
    ASSUME DriverInv, Guarded, StageNow
    PROVE  /\ (c.op = "send" /\ c.label = "hello") => i + 1 = HelloEnd
           /\ (c.op = "send" /\ c.label # "hello") => i + 1 = FinFrom + 3
           /\ i + 1 = HelloEnd => OK /\ c.op = "send" /\ c.label = "hello"
           /\ c.op = "receive" => i + 1 = HelloEnd + 1 /\ OK
           /\ c.op = "keyshare" => /\ OK
                                   /\ \/ i = 1 /\ c.label = "Init"
                                      \/ i + 1 = HelloEnd + 4 /\ c.label = "Shared"
           /\ i + 1 = FinFrom + 3 => OK
<1>0. i \in 0 .. Len(Program) /\ i < Len(Program) /\ (c.first => OK)
  BY IdleStage DEF Guarded, OK
<1>1. PICK h \in Nat : h = HelloEnd /\ SharedAt = h + 4 /\ h >= 4 /\ i \in Nat
  BY Places, SharedIs DEF StageNow
<1>2. /\ i = 1 => c = KsCall("Init")
      /\ i \in 2 .. SharedAt - 2 => c \in NoKsCalls
      /\ i = SharedAt - 1 => c = KsCall("Shared")
  BY <1>0, NextCall
<1>3. \A f : KsCall(f).first /\ KsCall(f).label = f
  BY DEF KsCall, Do
<1>4. c.op = "keyshare" => OK /\ ((i = 1 /\ c.label = "Init") \/ (i + 1 = HelloEnd + 4 /\ c.label = "Shared"))
  <2> SUFFICES ASSUME c.op = "keyshare"
               PROVE  OK /\ ((i = 1 /\ c.label = "Init") \/ (i + 1 = HelloEnd + 4 /\ c.label = "Shared"))
    OBVIOUS
  <2>1. i + 1 \in {2, HelloEnd + 4}
    BY DEF StageNow, Sited
  <2>2. CASE i + 1 = 2
    <3>1. i = 1
      BY <1>1, <2>2
    <3>2. c.first /\ c.label = "Init"
      BY <1>2, <1>3, <3>1
    <3>3. OK
      BY <1>0, <3>2
    <3> QED BY <3>1, <3>2, <3>3
  <2>3. CASE i + 1 = HelloEnd + 4
    <3>1. i = SharedAt - 1
      BY <1>1, <2>3
    <3> QED BY <1>0, <1>2, <1>3, <2>3, <3>1
  <2> QED BY <2>1, <2>2, <2>3
<1>5. i + 1 = HelloEnd => c.op = "send" /\ c.label = "hello"
  <2>1. CASE path = "psk"
    <3>1. HelloEnd = 8
      BY <2>1 DEF HelloEnd
    <3> QED BY <2>1, <3>1, PskHelloAt DEF PskHelloTable, Is, c
  <2>2. CASE path # "psk"
    <3>1. HelloEnd = 4
      BY <2>2 DEF HelloEnd
    <3> QED BY <2>2, <3>1, CertHelloAt DEF CertHelloTable, Is, c
  <2> QED BY <2>1, <2>2
<1>6. i + 1 = HelloEnd => OK
  <2> SUFFICES ASSUME i + 1 = HelloEnd PROVE OK
    OBVIOUS
  <2>1. i \in 2 .. SharedAt - 2
    BY <1>1
  <2>2. c.first
    BY <1>2, <1>5, <2>1 DEF NoKsCalls, Meets
  <2> QED BY <1>0, <2>2
<1>7. c.op = "receive" => i + 1 = HelloEnd + 1 /\ OK
  <2> SUFFICES ASSUME c.op = "receive" PROVE i + 1 = HelloEnd + 1 /\ OK
    OBVIOUS
  <2>1. i + 1 = HelloEnd + 1
    BY DEF StageNow, Sited
  <2>2. i \in 2 .. SharedAt - 2
    BY <1>1, <2>1
  <2>3. c.first
    BY <1>2, <2>2 DEF NoKsCalls, Meets
  <2> QED BY <1>0, <2>1, <2>3
<1>8. /\ i + 1 = FinFrom + 3 => c.first /\ c.label = "finished"
      /\ c.op = "send" => i + 1 \in {HelloEnd, FinFrom + 3}
  <2>1. i + 1 = FinFrom + 3 => c.first /\ c.label = "finished"
    BY SessionAt DEF FinishedTable, Is, c
  <2> QED BY <2>1 DEF StageNow, Sited
<1> QED BY <1>0, <1>4, <1>5, <1>6, <1>7, <1>8

(* What the sides have of one another *)
LEMMA ExchangeKept ==
    ASSUME Exchange, UNCHANGED <<build, fn, k, ss, share>>, ret'["server"] = ret["server"]
    PROVE  Exchange'
<1>1. Hybrid' = Hybrid /\ SharedCalls' = SharedCalls
  BY DEF Hybrid, SharedCalls
<1>2. MeetOK'
  BY DEF Exchange, MeetOK
<1>3. ServerHalves'
  BY <1>1, ServerSecretFrom DEF Exchange, ServerHalves
<1>4. ClientHalves'
  <2>1. ClientSecret' = ClientSecret
    BY ViewsFrom
  <2>2. KemSecret("client")' = KemSecret("client") /\ XSecret("client")' = XSecret("client")
    BY DEF KemSecret, XSecret
  <2> QED BY <1>1, <2>1, <2>2 DEF Exchange, ClientHalves
<1> QED BY <1>2, <1>3, <1>4 DEF Exchange

(* What a call that succeeds does to the exchange, and where it leads *)
LEMMA SucceedsExchange ==
    ASSUME DriverInv, Exchange, StagesOK, StepSucceeds
    PROVE  /\ Exchange'
           /\ \/ i + 1 = 2 /\ fn'["client"] = "Init" /\ UNCHANGED share
              \/ i + 1 = HelloEnd /\ fn'["client"] = "Recv" /\ share'["client"] = Genuine
                                  /\ fn["server"] = "Wait" /\ fn'["server"] = "Respond"
              \/ /\ i + 1 = HelloEnd + 1 /\ fn'["client"] = "Got" /\ UNCHANGED share
                 /\ fn'["server"] = "Done" /\ OK
                 /\ share["server"].sent \/ ret["server"] # "SUCCESS"
              \/ i + 1 = HelloEnd + 4 /\ fn'["client"] = "Shared" /\ UNCHANGED share
              \/ /\ i + 1 \notin {2, HelloEnd, HelloEnd + 1, HelloEnd + 4}
                 /\ UNCHANGED <<fn, share>>
<1>0. /\ Guarded /\ ShareMoves /\ UNCHANGED <<build, k, ss>> /\ ret'["server"] = ret["server"]
      /\ KsTypeOK /\ ScriptOK /\ MeetOK
  BY Succeeds DEF StepSucceeds, Stepped, DriverInv, KsInv, Exchange
<1>1. StageNow
  BY Succeeds
<1>2. PICK h \in Nat : h = HelloEnd /\ h >= 4 /\ i \in Nat
  BY <1>1, Places DEF StageNow
<1>3. Hybrid' = Hybrid /\ SharedCalls' = SharedCalls
  BY <1>0 DEF Hybrid, SharedCalls
<1>4. CASE i + 1 = HelloEnd
  <2>1. c.op = "send" /\ c.label = "hello" /\ OK
    BY <1>0, <1>1, <1>4, Meetings
  <2>2. fn' = [client |-> "Recv", server |-> "Respond"] /\ share' = [share EXCEPT !["client"] = Genuine]
    BY <1>0, <2>1 DEF ShareMoves
  <2>3. fn["client"] = "Send"
    BY <1>1, <1>2, <1>4, <2>1 DEF StageNow
  <2>4. fn["server"] = "Wait" /\ ret["server"] = "SUCCESS" /\ ~share["server"].sent
    BY <1>0, <2>3 DEF MeetOK
  <2>5. share'["client"] = Genuine /\ share'["server"] = share["server"]
    BY <1>0, <2>2 DEF KsTypeOK, Sides
  <2>6. k["server"] = 0
    BY <1>0, <2>4 DEF ScriptOK, Sides, Running
  <2>7. MeetOK'
    BY <1>0, <2>2, <2>4, <2>5, GenuineIs DEF MeetOK
  <2>8. ServerHalves' /\ ClientHalves'
    BY <1>0, <2>2, <2>6 DEF ServerHalves, ClientHalves
  <2> QED BY <1>4, <2>2, <2>4, <2>5, <2>7, <2>8 DEF Exchange
<1>5. CASE i + 1 = HelloEnd + 1
  <2>1. c.op = "receive" /\ OK
    <3>1. c.op = "receive"
      BY <1>5, ServerHelloAt DEF ServerHelloTable, Is, c
    <3> QED BY <1>0, <1>1, <3>1, Meetings
  <2>2. /\ share["server"].sent \/ fn["server"] = "Done"
        /\ fn' = [fn EXCEPT !["client"] = "Got"] /\ share' = share
    BY <1>0, <2>1 DEF ShareMoves
  <2>3. fn["server"] = "Done"
    BY <1>0, <2>2 DEF MeetOK
  <2>4. fn'["client"] = "Got" /\ fn'["server"] = "Done"
    BY <1>0, <2>2, <2>3 DEF KsTypeOK, Sides
  <2>5. MeetOK'
    BY <1>0, <2>2, <2>3, <2>4 DEF MeetOK
  <2>6. ServerHalves'
    BY <1>0, <1>3, <2>2, <2>3, <2>4, ServerSecretFrom DEF Exchange, ServerHalves
  <2>7. ClientHalves'
    BY <2>4 DEF ClientHalves
  <2>8. share["server"].sent \/ ret["server"] # "SUCCESS"
    BY <1>0, <2>3 DEF MeetOK
  <2> QED BY <1>5, <2>1, <2>2, <2>3, <2>4, <2>5, <2>6, <2>7, <2>8 DEF Exchange
<1>6. ASSUME c.op = "keyshare"
      PROVE  /\ Exchange' /\ UNCHANGED share /\ fn'["server"] = fn["server"]
             /\ \/ i + 1 = 2 /\ fn'["client"] = "Init"
                \/ i + 1 = HelloEnd + 4 /\ fn'["client"] = "Shared"
  <2>1. /\ OK
        /\ \/ i = 1 /\ c.label = "Init"
           \/ i + 1 = HelloEnd + 4 /\ c.label = "Shared"
    BY <1>0, <1>1, <1>6, Meetings
  <2>2. fn' = [fn EXCEPT !["client"] = c.label] /\ share' = share
    BY <1>0, <1>6 DEF ShareMoves
  <2>3. fn'["client"] = c.label /\ fn'["server"] = fn["server"]
    BY <1>0, <2>2 DEF KsTypeOK, Sides
  <2>4. /\ i = 1 => fn["client"] = "Start"
        /\ i + 1 = HelloEnd + 4 => fn["client"] = "Got"
    BY <1>1, <1>2, <2>1 DEF StageNow
  <2>5. k["client"] = 0
    BY <1>0, <2>1, <2>4 DEF ScriptOK, Sides, Running
  <2>6. MeetOK'
    BY <1>0, <2>1, <2>2, <2>3, <2>4 DEF MeetOK
  <2>7. ServerHalves'
    BY <1>0, <1>3, <2>2, <2>3, ServerSecretFrom DEF Exchange, ServerHalves
  <2>8. ClientHalves'
    <3>1. ~(k["client"] >= Len(SharedCalls)) /\ ~(k["client"] >= 1)
      <4>1. Hybrid => SharedCalls = <<Use("kem"), InitKey("peer"), Use("peer"), Use("x")>>
        BY DEF SharedCalls, HybridShared
      <4>2. ~Hybrid => SharedCalls = <<InitKey("peer"), Use("peer"), Use("own")>>
        BY DEF SharedCalls
      <4>3. Hybrid => Len(SharedCalls) = 4
        BY <4>1
      <4>4. ~Hybrid => Len(SharedCalls) = 3
        BY <4>2
      <4>5. ~(0 >= 3) /\ ~(0 >= 4) /\ ~(0 >= 1)
        OBVIOUS
      <4> QED BY <2>5, <4>3, <4>4, <4>5
    <3>2. fn'["client"] # "Use" /\ k' = k
      BY <1>0, <2>1, <2>3
    <3> QED BY <1>3, <3>1, <3>2 DEF ClientHalves
  <2> QED BY <1>2, <2>1, <2>2, <2>3, <2>6, <2>7, <2>8 DEF Exchange
<1>7. i + 1 \in {2, HelloEnd + 4} => c.op = "keyshare"
  <2>1. i + 1 = HelloEnd + 4 => c.op = "keyshare"
    BY ServerHelloAt DEF ServerHelloTable, Is, c
  <2>2. Program[2].op = "keyshare"
    BY ProgramFacts DEF KsCall, Do
  <2> QED BY <2>1, <2>2 DEF c
<1>8. CASE i + 1 \notin {2, HelloEnd, HelloEnd + 1, HelloEnd + 4}
  <2>1. /\ ~(c.op = "send" /\ c.label = "hello") /\ c.op # "receive" /\ c.op # "keyshare"
    <3>1. i = 1 => i + 1 = 2
      OBVIOUS
    <3> QED BY <1>0, <1>1, <1>8, <3>1, Meetings
  <2>2. UNCHANGED <<fn, share>>
    BY <1>0, <2>1 DEF ShareMoves
  <2> QED BY <1>0, <1>8, <2>2, ExchangeKept
<1>9. CASE i + 1 = 2
  BY <1>6, <1>7, <1>9
<1>10. CASE i + 1 = HelloEnd + 4
  BY <1>2, <1>6, <1>7, <1>10
<1> QED BY <1>4, <1>5, <1>8, <1>9, <1>10

LEMMA SucceedsStages ==
    ASSUME DriverInv, Exchange, StagesOK, StepSucceeds
    PROVE  StagesOK'
<1> SUFFICES ASSUME OK' PROVE StagesOK'
  BY DEF StagesOK
<1>0. /\ OK /\ Mismatch = "SUCCESS" /\ StageNow /\ Stepped
      /\ i' = i + 1 /\ pc' = "run" /\ HelloEnd' = HelloEnd /\ LastCall' = LastCall
      /\ share'["server"] = share["server"]
  BY Succeeds DEF Stepped, ViewKept
<1>1. PICK h \in Nat : h = HelloEnd /\ h >= 4 /\ i \in Nat
  BY <1>0, Places DEF StageNow
<1>2. /\ i + 1 = 2 => fn'["client"] = "Init"
      /\ i + 1 = h => fn'["client"] = "Recv"
      /\ i + 1 = h + 1 => fn'["client"] = "Got"
      /\ i + 1 = h + 4 => fn'["client"] = "Shared"
      /\ i + 1 \notin {2, h, h + 1, h + 4} => fn' = fn
  BY <1>1, SucceedsExchange
<1>3. i + 1 \in 2 .. h - 1 => fn'["client"] \in {"Init", "Generate", "Send"}
  <2>1. CASE i + 1 = 2
    BY <1>2, <2>1
  <2>2. CASE i + 1 \in 3 .. h - 1
    <3>1. i \in 2 .. h - 1 /\ i + 1 \notin {2, h, h + 1, h + 4}
      BY <1>1, <2>2
    <3> QED BY <1>0, <1>1, <1>2, <3>1 DEF StageNow
  <2> QED BY <1>1, <2>1, <2>2
<1>4. i + 1 \in h + 1 .. h + 3 => fn'["client"] = "Got"
  <2>1. CASE i + 1 = h + 1
    BY <1>2, <2>1
  <2>2. CASE i + 1 \in h + 2 .. h + 3
    <3>1. i \in h + 1 .. h + 3 /\ i + 1 \notin {2, h, h + 1, h + 4}
      BY <1>1, <2>2
    <3> QED BY <1>0, <1>1, <1>2, <3>1 DEF StageNow
  <2> QED BY <1>1, <2>1, <2>2
<1>5. i + 1 > h => share'["server"].sent
  <2>1. CASE i + 1 = h + 1
    <3>1. c.op = "receive"
      BY <1>1, <2>1, ServerHelloAt DEF ServerHelloTable, Is, c
    <3>2. share["server"].sent
      BY <1>0, <3>1 DEF Mismatch
    <3> QED BY <1>0, <3>2
  <2>2. CASE i + 1 # h + 1
    <3>1. i + 1 > h => i > h
      BY <1>1, <2>2
    <3> QED BY <1>0, <1>1, <3>1 DEF StagesOK
  <2> QED BY <2>1, <2>2
<1>6. i + 1 > h + 4 => fn'["client"] \in {"Use", "Done"}
  <2> SUFFICES ASSUME i + 1 > h + 4 PROVE fn'["client"] \in {"Use", "Done"}
    OBVIOUS
  <2>1. i >= h + 4 /\ i + 1 \notin {2, h, h + 1, h + 4}
    BY <1>1
  <2> QED BY <1>0, <1>1, <1>2, <2>1 DEF StageNow
<1> QED BY <1>0, <1>1, <1>2, <1>3, <1>4, <1>5, <1>6 DEF StagesOK

(* The buffers after a call that succeeds *)
LEMMA Buffered ==
    ASSUME DriverInv, StepSucceeds
    PROVE  /\ \A b \in Locals \cup Others \cup SessionFields :
                 /\ c.out = b => buf'[b] = Value
                 /\ c.out # b => buf'[b] = buf[b]
           /\ Once \subseteq Locals \cup Others \cup SessionFields
<1>1. DOMAIN buf = Locals \cup Others \cup SessionFields
  BY DEF DriverInv, BufOK
<1>2. buf' = IF c.out = "none" THEN buf ELSE [buf EXCEPT ![c.out] = Value]
  BY DEF StepSucceeds
<1>3. "none" \notin Locals \cup Others \cup SessionFields
  BY DEF Locals, Others, SessionFields
<1>4. Once \subseteq Locals \cup Others \cup SessionFields
  BY DEF Once, Locals, Others, SessionFields
<1> QED BY <1>1, <1>2, <1>3, <1>4

(* What the calls so far have left *)
HeldNow ==
    /\ OK /\ pc = "run" /\ i \in Nat
    /\ \A b \in Once : i >= WrittenAt(b) => Held(b) = Ref(b)
    /\ Held("nil") = Nil /\ Held("zeros") = Zeros /\ Held("psk") = Psk
    /\ Held("th") = buf["th"] /\ Held("mac") = buf["mac"]
    /\ Held("derived") = buf["derived"] /\ Held("master") = buf["master"]
    /\ i >= HelloEnd + 4 => Held("ecdhe") = Ecdhe(ClientView.secret)

LEMMA Holding ==
    ASSUME StageNow, OnceOK, FixedOK, Exchange, OK
    PROVE  HeldNow
<1>1. \A b : b # "ecdhe" => Held(b) = buf[b]
  BY DEF Held
<1>2. "ecdhe" \notin Once
  BY DEF Once
<1>3. \A b \in Once : i >= WrittenAt(b) => Held(b) = Ref(b)
  BY <1>1, <1>2 DEF OnceOK, StageNow
<1>4. i >= HelloEnd + 4 => Held("ecdhe") = Ecdhe(ClientView.secret)
  <2> SUFFICES ASSUME i >= HelloEnd + 4 PROVE ss["client"] = ClientView.secret
    BY DEF Held
  <2>1. ss["client"] = ClientSecret
    BY DEF StageNow, Exchange, ClientHalves
  <2> QED BY <2>1 DEF ClientView, ClientSecret
<1> QED BY <1>1, <1>3, <1>4 DEF HeldNow, FixedOK, StageNow

(* The messages hashed when the m-th update is behind and the next ahead *)
LEMMA TcNow ==
    ASSUME OK, TcOK, SeqsOK, i \in Nat, NEW m \in 1 .. N, UpdateAt[m] <= i,
           m < N => ~(UpdateAt[m + 1] <= i)
    PROVE  Len(tc) = m /\ Hash(tc) = Upto(ClientView, m)
<1>1. PICK S : tc \in Seq(S)
  BY DEF SeqsOK, IsSeq
<1>2. PICK n \in Nat : n = Len(tc)
  BY <1>1
<1>3. N \in Nat /\ n <= N
  BY <1>2, PathLength DEF TcOK
<1>4. m <= n
  BY <1>2 DEF TcOK
<1>5. m < N => ~(m + 1 <= n)
  <2>1. m < N => m + 1 \in 1 .. N
    BY <1>3
  <2> QED BY <1>2, <2>1 DEF TcOK
<1>6. n = m
  BY <1>3, <1>4, <1>5
<1>7. \A j \in 1 .. m : tc[j] = RefMsgs(ClientView)[j]
  BY <1>2, <1>6 DEF TcOK
<1>8. m \in 0 .. N /\ IsSeq(tc)
  BY <1>3 DEF SeqsOK
<1> QED BY <1>2, <1>6, <1>7, <1>8, TcIsUpto

(* Each of the buffers that are written once, by its call *)
WrittenNow(b) == c.out = b /\ Value = Ref(b)

LEMMA EarlyWritten ==
    ASSUME HeldNow, ThOK, NEW b \in Once \cap {"emptyHash", "early", "binderKey", "binder"},
           WrittenAt(b) = i + 1
    PROVE  WrittenNow(b)
<1>0. OK /\ pc = "run" /\ i \in Nat
  BY DEF HeldNow
<1>1. CASE b = "emptyHash"
  <2>1. i + 1 = 1
    BY <1>1 DEF WrittenAt
  <2>2. Is(c, "empty", "emptyHash", <<>>, "none")
    BY <2>1, PskHelloAt, CertHelloAt DEF PskHelloTable, CertHelloTable, c
  <2>3. Value = EmptyHash
    BY <2>2, Computed
  <2> QED BY <1>1, <2>2, <2>3 DEF WrittenNow, Ref, Is
<1>2. CASE b = "early" /\ path = "psk"
  <2>1. i + 1 = 3
    BY <1>2 DEF WrittenAt
  <2>2. Is(c, "extract", "early", <<"nil", "psk">>, "none")
    BY <1>2, <2>1, PskHelloAt DEF PskHelloTable, c
  <2>3. Value = Extract(Nil, Psk)
    BY <2>2, Computed DEF HeldNow
  <2> QED BY <1>2, <2>2, <2>3 DEF WrittenNow, Ref, RefEarly, Is
<1>3. CASE b = "early" /\ path # "psk"
  <2>1. i + 1 = KeysFrom
    BY <1>3 DEF WrittenAt, KeysFrom
  <2>2. Is(c, "extract", "early", <<"nil", "zeros">>, "none")
    BY <1>3, <2>1, ServerHelloAt DEF ServerHelloTable, c
  <2>3. Value = Extract(Nil, Zeros)
    BY <2>2, Computed DEF HeldNow
  <2> QED BY <1>3, <2>2, <2>3 DEF WrittenNow, Ref, RefEarly, Is
<1>4. CASE b = "binderKey"
  <2>0. path = "psk" /\ "early" \in Once /\ "emptyHash" \in Once
    BY <1>4 DEF Once
  <2>1. i + 1 = 4
    BY <1>4 DEF WrittenAt
  <2>2. Is(c, "expand", "binderKey", <<"early", "emptyHash">>, "ext binder")
    BY <2>0, <2>1, PskHelloAt DEF PskHelloTable, c
  <2>3. i >= WrittenAt("early") /\ i >= WrittenAt("emptyHash")
    BY <1>0, <2>0, <2>1 DEF WrittenAt
  <2>4. Held("early") = RefEarly /\ Held("emptyHash") = EmptyHash
    BY <2>0, <2>3 DEF HeldNow, Ref
  <2>5. Value = ExpandLabel(RefEarly, "ext binder", EmptyHash)
    BY <2>2, <2>4, Computed
  <2> QED BY <1>4, <2>2, <2>5 DEF WrittenNow, Ref, Is
<1>5. CASE b = "binder"
  <2>0. path = "psk" /\ "binderKey" \in Once
    BY <1>5 DEF Once
  <2>1. i + 1 = 6
    BY <1>5 DEF WrittenAt
  <2>2. Is(c, "mac", "binder", <<"binderKey", "th">>, "none")
    BY <2>0, <2>1, PskHelloAt DEF PskHelloTable, c
  <2>3. i >= WrittenAt("binderKey") /\ i \in 5 .. 6
    BY <1>0, <2>0, <2>1 DEF WrittenAt
  <2>4. Held("binderKey") = ExpandLabel(RefEarly, "ext binder", EmptyHash)
    BY <2>0, <2>3 DEF HeldNow, Ref
  <2>5. Held("th") = Hash(<<Truncated>>)
    BY <1>0, <2>0, <2>3 DEF HeldNow, ThOK
  <2>6. Value = RefBinder
    BY <2>2, <2>4, <2>5, Computed DEF RefBinder
  <2> QED BY <1>5, <2>2, <2>6 DEF WrittenNow, Ref, Is
<1> QED BY <1>1, <1>2, <1>3, <1>4, <1>5

LEMMA KeysWritten ==
    ASSUME HeldNow, ThOK, MidOK, NEW b \in {"hs", "cHs", "sHs", "cKey", "cIv"},
           WrittenAt(b) = i + 1
    PROVE  WrittenNow(b)
<1>0. OK /\ pc = "run" /\ i \in Nat
  BY DEF HeldNow
<1>1. PICK d \in Nat, h \in Nat, f \in Nat :
         d = KeysFrom /\ h = HelloEnd /\ f = FlightFrom /\ d >= h + 5 /\ f >= d + 9
  BY Places
<1>2. {"hs", "cHs", "sHs", "cKey", "cIv"} \subseteq Once
  BY DEF Once
<1>3. i \in d + 2 .. d + 5 => Held("th") = Upto(ClientView, 2)
  <2>1. i \in d + 2 .. d + 5 => i \in h + 5 .. f
    BY <1>0, <1>1
  <2> QED BY <1>0, <1>1, <2>1 DEF HeldNow, ThOK
<1>4. KeysTable
  BY ServerHelloAt
<1>5. CASE b = "hs"
  <2>1. i = d + 1 /\ i + 1 = d + 2
    BY <1>0, <1>1, <1>5 DEF WrittenAt
  <2>2. Is(c, "extract", "hs", <<"derived", "ecdhe">>, "none")
    BY <1>1, <1>4, <2>1 DEF KeysTable, c
  <2>3. Held("derived") = ExpandLabel(RefEarly, "derived", EmptyHash)
    BY <1>0, <1>1, <2>1 DEF HeldNow, MidOK
  <2>4. Held("ecdhe") = Ecdhe(ClientView.secret)
    <3>1. i >= h + 4
      BY <1>1, <2>1
    <3> QED BY <1>1, <3>1 DEF HeldNow
  <2>5. Value = RefHs(ClientView)
    BY <2>2, <2>3, <2>4, Computed DEF RefHs
  <2> QED BY <1>5, <2>2, <2>5 DEF WrittenNow, Ref, Is
<1>6. CASE b = "cHs"
  <2>1. i = d + 2 /\ i + 1 = d + 3 /\ i >= WrittenAt("hs")
    BY <1>0, <1>1, <1>6 DEF WrittenAt
  <2>2. Is(c, "expand", "cHs", <<"hs", "th">>, "c hs traffic")
    BY <1>1, <1>4, <2>1 DEF KeysTable, c
  <2>3. Held("hs") = RefHs(ClientView)
    BY <1>2, <2>1 DEF HeldNow, Ref
  <2>4. Value = ExpandLabel(RefHs(ClientView), "c hs traffic", Upto(ClientView, 2))
    <3>1. Held("th") = Upto(ClientView, 2)
      BY <1>1, <1>3, <2>1
    <3> QED BY <2>2, <2>3, <3>1, Computed
  <2> QED BY <1>6, <2>2, <2>4 DEF WrittenNow, Ref, Is, RefTraffic, HsTraffic
<1>7. CASE b = "sHs"
  <2>1. i = d + 3 /\ i + 1 = d + 4 /\ i >= WrittenAt("hs")
    BY <1>0, <1>1, <1>7 DEF WrittenAt
  <2>2. Is(c, "expand", "sHs", <<"hs", "th">>, "s hs traffic")
    BY <1>1, <1>4, <2>1 DEF KeysTable, c
  <2>3. Held("hs") = RefHs(ClientView)
    BY <1>2, <2>1 DEF HeldNow, Ref
  <2>4. Value = ExpandLabel(RefHs(ClientView), "s hs traffic", Upto(ClientView, 2))
    <3>1. Held("th") = Upto(ClientView, 2)
      BY <1>1, <1>3, <2>1
    <3> QED BY <2>2, <2>3, <3>1, Computed
  <2> QED BY <1>7, <2>2, <2>4 DEF WrittenNow, Ref, Is, RefTraffic, HsTraffic
<1>8. CASE b = "cKey"
  <2>1. i = d + 4 /\ i + 1 = d + 5 /\ i >= WrittenAt("cHs")
    BY <1>0, <1>1, <1>8 DEF WrittenAt
  <2>2. Is(c, "expand", "cKey", <<"cHs", "nil">>, "key")
    BY <1>1, <1>4, <2>1 DEF KeysTable, c
  <2>3. Held("cHs") = RefTraffic(ClientView, "c") /\ Held("nil") = Nil
    BY <1>2, <2>1 DEF HeldNow, Ref
  <2>4. Value = RefKey(RefTraffic(ClientView, "c"))
    BY <2>2, <2>3, Computed DEF RefKey
  <2> QED BY <1>8, <2>2, <2>4 DEF WrittenNow, Ref, Is
<1>9. CASE b = "cIv"
  <2>1. i = d + 5 /\ i + 1 = d + 6 /\ i >= WrittenAt("cHs")
    BY <1>0, <1>1, <1>9 DEF WrittenAt
  <2>2. Is(c, "expand", "cIv", <<"cHs", "nil">>, "iv")
    BY <1>1, <1>4, <2>1 DEF KeysTable, c
  <2>3. Held("cHs") = RefTraffic(ClientView, "c") /\ Held("nil") = Nil
    BY <1>2, <2>1 DEF HeldNow, Ref
  <2>4. Value = RefIv(RefTraffic(ClientView, "c"))
    BY <2>2, <2>3, Computed DEF RefIv
  <2> QED BY <1>9, <2>2, <2>4 DEF WrittenNow, Ref, Is
<1> QED BY <1>5, <1>6, <1>7, <1>8, <1>9

LEMMA CertWritten ==
    ASSUME HeldNow, TcOK, SeqsOK, path # "psk", WrittenAt("thCert") = i + 1
    PROVE  WrittenNow("thCert")
<1>0. OK /\ i = 22 /\ N = 6 /\ UpdateAt = <<3, 6, 21, 22, 24, 27>> /\ FlightFrom = 20
  <2>1. FlightFrom = 20 /\ N = 6 /\ UpdateAt = <<3, 6, 21, 22, 24, 27>>
    BY Places
  <2>2. i + 1 = 23 /\ i \in Nat /\ OK
    BY <2>1 DEF HeldNow, WrittenAt
  <2> QED BY <2>1, <2>2
<1>1. Is(c, "hash", "thCert", <<>>, "none")
  <2>1. c = Program[23]
    BY <1>0 DEF c
  <2> QED BY <2>1, CertFlightAt DEF CertFlightTable
<1>2. Hash(tc) = Upto(ClientView, 4)
  <2>1. UpdateAt[4] <= i /\ ~(UpdateAt[4 + 1] <= i) /\ 4 \in 1 .. N /\ i \in Nat
    BY <1>0
  <2> QED BY <1>0, <2>1, TcNow
<1>3. Value = Upto(ClientView, N - 2)
  <2>1. N - 2 = 4
    BY <1>0
  <2> QED BY <1>1, <1>2, <2>1, Computed
<1> QED BY <1>1, <1>3 DEF WrittenNow, Ref, Is

LEMMA SessionWritten ==
    ASSUME HeldNow, ThOK, MidOK, NEW b \in SessionFields, WrittenAt(b) = i + 1
    PROVE  WrittenNow(b)
<1>0. OK /\ pc = "run" /\ i \in Nat
  BY DEF HeldNow
<1>1. PICK s \in Nat, f \in Nat, n \in Nat :
         s = SessionFrom /\ f = FinFrom /\ n = LastCall /\ s = f + 3 /\ n = s + 10
  BY Places
<1>2. SessionFields \subseteq Once
  BY DEF Once, SessionFields
<1>3. i \in s + 1 .. s + 9 => Held("th") = Upto(ClientView, N)
  <2>1. i \in s + 1 .. s + 9 => i \in f + 1 .. n
    BY <1>0, <1>1
  <2> QED BY <1>0, <1>1, <2>1 DEF HeldNow, ThOK
<1>4. i \in s + 2 .. s + 9 => Held("master") = RefMaster(ClientView)
  BY <1>0, <1>1 DEF HeldNow, MidOK
<1>5. SessionTable
  BY SessionAt
<1>6. CASE b = "cAppSecret"
  <2>1. i = s + 2 /\ i + 1 = s + 3
    BY <1>0, <1>1, <1>6 DEF WrittenAt
  <2>2. Is(c, "expand", "cAppSecret", <<"master", "th">>, "c ap traffic")
    BY <1>1, <1>5, <2>1 DEF SessionTable, c
  <2>3. Value = ExpandLabel(RefMaster(ClientView), "c ap traffic", Upto(ClientView, N))
    <3>1. Held("th") = Upto(ClientView, N) /\ Held("master") = RefMaster(ClientView)
      BY <1>1, <1>3, <1>4, <2>1
    <3> QED BY <2>2, <3>1, Computed
  <2> QED BY <1>6, <2>2, <2>3 DEF WrittenNow, Ref, Is, RefApp, ApTraffic
<1>7. CASE b = "sAppSecret"
  <2>1. i = s + 3 /\ i + 1 = s + 4
    BY <1>0, <1>1, <1>7 DEF WrittenAt
  <2>2. Is(c, "expand", "sAppSecret", <<"master", "th">>, "s ap traffic")
    BY <1>1, <1>5, <2>1 DEF SessionTable, c
  <2>3. Value = ExpandLabel(RefMaster(ClientView), "s ap traffic", Upto(ClientView, N))
    <3>1. Held("th") = Upto(ClientView, N) /\ Held("master") = RefMaster(ClientView)
      BY <1>1, <1>3, <1>4, <2>1
    <3> QED BY <2>2, <3>1, Computed
  <2> QED BY <1>7, <2>2, <2>3 DEF WrittenNow, Ref, Is, RefApp, ApTraffic
<1>8. /\ i >= WrittenAt("cAppSecret") => Held("cAppSecret") = RefApp(ClientView, "c")
      /\ i >= WrittenAt("sAppSecret") => Held("sAppSecret") = RefApp(ClientView, "s")
      /\ Held("nil") = Nil
  <2>1. "cAppSecret" \in Once /\ "sAppSecret" \in Once
    BY DEF Once
  <2> QED BY <2>1 DEF HeldNow, Ref
<1>9. CASE b = "sess.cKey"
  <2>1. i + 1 = s + 5 /\ i >= WrittenAt("cAppSecret")
    BY <1>0, <1>1, <1>9 DEF WrittenAt
  <2>2. Is(c, "expand", "sess.cKey", <<"cAppSecret", "nil">>, "key")
    BY <1>1, <1>5, <2>1 DEF SessionTable, c
  <2>3. Value = RefKey(RefApp(ClientView, "c"))
    BY <1>8, <2>1, <2>2, Computed DEF RefKey
  <2> QED BY <1>9, <2>2, <2>3 DEF WrittenNow, Ref, Is
<1>10. CASE b = "sess.cIv"
  <2>1. i + 1 = s + 6 /\ i >= WrittenAt("cAppSecret")
    BY <1>0, <1>1, <1>10 DEF WrittenAt
  <2>2. Is(c, "expand", "sess.cIv", <<"cAppSecret", "nil">>, "iv")
    BY <1>1, <1>5, <2>1 DEF SessionTable, c
  <2>3. Value = RefIv(RefApp(ClientView, "c"))
    BY <1>8, <2>1, <2>2, Computed DEF RefIv
  <2> QED BY <1>10, <2>2, <2>3 DEF WrittenNow, Ref, Is
<1>11. CASE b = "sess.sKey"
  <2>1. i + 1 = s + 7 /\ i >= WrittenAt("sAppSecret")
    BY <1>0, <1>1, <1>11 DEF WrittenAt
  <2>2. Is(c, "expand", "sess.sKey", <<"sAppSecret", "nil">>, "key")
    BY <1>1, <1>5, <2>1 DEF SessionTable, c
  <2>3. Value = RefKey(RefApp(ClientView, "s"))
    BY <1>8, <2>1, <2>2, Computed DEF RefKey
  <2> QED BY <1>11, <2>2, <2>3 DEF WrittenNow, Ref, Is
<1>12. CASE b = "sess.sIv"
  <2>1. i + 1 = s + 8 /\ i >= WrittenAt("sAppSecret")
    BY <1>0, <1>1, <1>12 DEF WrittenAt
  <2>2. Is(c, "expand", "sess.sIv", <<"sAppSecret", "nil">>, "iv")
    BY <1>1, <1>5, <2>1 DEF SessionTable, c
  <2>3. Value = RefIv(RefApp(ClientView, "s"))
    BY <1>8, <2>1, <2>2, Computed DEF RefIv
  <2> QED BY <1>12, <2>2, <2>3 DEF WrittenNow, Ref, Is
<1> QED BY <1>6, <1>7, <1>9, <1>10, <1>11, <1>12 DEF SessionFields

LEMMA OnceWritten ==
    ASSUME HeldNow, ThOK, MidOK, TcOK, SeqsOK, NEW b \in Once, WrittenAt(b) = i + 1
    PROVE  WrittenNow(b)
<1>1. \/ b \in Once \cap {"emptyHash", "early", "binderKey", "binder"}
      \/ b \in {"hs", "cHs", "sHs", "cKey", "cIv"}
      \/ b = "thCert" /\ path # "psk"
      \/ b \in SessionFields
  BY DEF Once, SessionFields
<1> QED BY <1>1, EarlyWritten, KeysWritten, CertWritten, SessionWritten

(* A buffer that is to hold v after the calls lo to hi *)
LEMMA Interval ==
    ASSUME NEW b, NEW lo \in Nat, NEW hi \in Nat, NEW v, i \in Nat,
           c.out = b => buf'[b] = Value,
           c.out # b => buf'[b] = buf[b],
           i \in lo .. hi => buf[b] = v,
           (c.out = b /\ i + 1 \in lo .. hi) => i + 1 = lo,
           i + 1 = lo => c.out = b /\ Value = v
    PROVE  i + 1 \in lo .. hi => buf'[b] = v
<1> SUFFICES ASSUME i + 1 \in lo .. hi PROVE buf'[b] = v
  OBVIOUS
<1>1. CASE i + 1 = lo
  BY <1>1
<1>2. CASE i + 1 # lo
  <2>1. c.out # b /\ i \in lo .. hi
    BY <1>2
  <2> QED BY <2>1
<1> QED BY <1>1, <1>2

(* The transcript hash, each time it is taken *)
LEMMA Hashes ==
    ASSUME HeldNow, TcOK, SeqsOK, StageNow
    PROVE  /\ (path = "psk" /\ i + 1 = 5) => c.out = "th" /\ Value = Hash(<<Truncated>>)
           /\ i + 1 = HelloEnd + 5 => c.out = "th" /\ Value = Upto(ClientView, 2)
           /\ i + 1 = FinFrom - 3 => c.out = "th" /\ Value = Upto(ClientView, N - 1)
           /\ i + 1 = FinFrom + 1 => c.out = "th" /\ Value = Upto(ClientView, N)
<1>0. OK /\ i \in Nat
  BY DEF HeldNow
<1>1. ASSUME path = "psk", i + 1 = 5 PROVE c.out = "th" /\ Value = Hash(<<Truncated>>)
  <2>1. Is(c, "hash truncated", "th", <<>>, "none")
    BY <1>1, PskHelloAt DEF PskHelloTable, c
  <2> QED BY <2>1, Computed DEF Is
<1>2. ASSUME i + 1 = HelloEnd + 5 PROVE c.out = "th" /\ Value = Upto(ClientView, 2)
  <2>1. Is(c, "hash", "th", <<>>, "none")
    BY <1>2, ServerHelloAt DEF ServerHelloTable, c
  <2>2. Value = Hash(tc) /\ c.out = "th"
    BY <2>1, Computed DEF Is
  <2>3. UpdateAt[2] <= i /\ ~(UpdateAt[2 + 1] <= i) /\ 2 \in 1 .. N
    BY <1>0, <1>2, Places
  <2> QED BY <1>0, <2>2, <2>3, TcNow
<1>3. ASSUME i + 1 = FinFrom - 3 PROVE c.out = "th" /\ Value = Upto(ClientView, N - 1)
  <2>1. Is(c, "hash", "th", <<>>, "none")
    <3>1. CASE path = "psk"
      <4>1. i + 1 = 24
        BY <1>3, <3>1, Places
      <4> QED BY <3>1, <4>1, PskFlightAt DEF PskFlightTable, c
    <3>2. CASE path # "psk"
      <4>1. i + 1 = 26
        BY <1>3, <3>2, Places
      <4> QED BY <3>2, <4>1, CertFlightAt DEF CertFlightTable, c
    <3> QED BY <3>1, <3>2
  <2>2. Value = Hash(tc) /\ c.out = "th"
    BY <2>1, Computed DEF Is
  <2>3. UpdateAt[N - 1] <= i /\ ~(UpdateAt[(N - 1) + 1] <= i) /\ N - 1 \in 1 .. N
    BY <1>0, <1>3, Places
  <2> QED BY <1>0, <2>2, <2>3, TcNow
<1>4. ASSUME i + 1 = FinFrom + 1 PROVE c.out = "th" /\ Value = Upto(ClientView, N)
  <2>1. Is(c, "hash", "th", <<>>, "none")
    BY <1>4, SessionAt DEF FinishedTable, c
  <2>2. Value = Hash(tc) /\ c.out = "th"
    BY <2>1, Computed DEF Is
  <2>3. UpdateAt[N] <= i /\ N \in 1 .. N /\ ~(N < N)
    BY <1>0, <1>4, Places
  <2> QED BY <1>0, <2>2, <2>3, TcNow
<1> QED BY <1>1, <1>2, <1>3, <1>4

(* The verify_data, each time it is computed *)
LEMMA Macs ==
    ASSUME HeldNow, ThOK, StageNow
    PROVE  /\ i + 1 = MacAt => /\ c.out = "mac"
                               /\ Value = FinishedMac(RefTraffic(ClientView, "s"), Upto(ClientView, N - 1))
           /\ i + 1 = FinFrom + 2 => /\ c.out = "mac"
                                     /\ Value = FinishedMac(RefTraffic(ClientView, "c"), Upto(ClientView, N))
<1>0. OK /\ i \in Nat /\ pc = "run"
  BY DEF HeldNow
<1>1. ASSUME i + 1 = MacAt
      PROVE  /\ c.out = "mac"
             /\ Value = FinishedMac(RefTraffic(ClientView, "s"), Upto(ClientView, N - 1))
  <2>1. Is(c, "mac", "mac", <<"sHs", "th">>, "none")
    <3>1. CASE path = "psk"
      <4>1. i + 1 = 25
        BY <1>1, <3>1, Places
      <4> QED BY <3>1, <4>1, PskFlightAt DEF PskFlightTable, c
    <3>2. CASE path # "psk"
      <4>1. i + 1 = 28
        BY <1>1, <3>2, Places
      <4> QED BY <3>2, <4>1, CertFlightAt DEF CertFlightTable, c
    <3> QED BY <3>1, <3>2
  <2>2. i >= KeysFrom + 4 /\ i \in FinFrom - 3 .. FinFrom
    BY <1>0, <1>1, Places
  <2>3. Held("sHs") = RefTraffic(ClientView, "s")
    <3>1. "sHs" \in Once /\ WrittenAt("sHs") = KeysFrom + 4
      BY DEF Once, WrittenAt
    <3> QED BY <2>2, <3>1 DEF HeldNow, Ref
  <2>4. Held("th") = Upto(ClientView, N - 1)
    BY <1>0, <2>2 DEF HeldNow, ThOK
  <2> QED BY <2>1, <2>3, <2>4, Computed DEF Is
<1>2. ASSUME i + 1 = FinFrom + 2
      PROVE  /\ c.out = "mac"
             /\ Value = FinishedMac(RefTraffic(ClientView, "c"), Upto(ClientView, N))
  <2>1. Is(c, "mac", "mac", <<"cHs", "th">>, "none")
    BY <1>2, SessionAt DEF FinishedTable, c
  <2>2. i >= KeysFrom + 3 /\ i \in FinFrom + 1 .. LastCall
    BY <1>0, <1>2, Places
  <2>3. Held("cHs") = RefTraffic(ClientView, "c")
    <3>1. "cHs" \in Once /\ WrittenAt("cHs") = KeysFrom + 3
      BY DEF Once, WrittenAt
    <3> QED BY <2>2, <3>1 DEF HeldNow, Ref
  <2>4. Held("th") = Upto(ClientView, N)
    BY <1>0, <2>2 DEF HeldNow, ThOK
  <2> QED BY <2>1, <2>3, <2>4, Computed DEF Is
<1> QED BY <1>1, <1>2

(* The intermediate secrets *)
LEMMA Middles ==
    ASSUME HeldNow, MidOK, StageNow
    PROVE  /\ i + 1 = KeysFrom + 1 => /\ c.out = "derived"
                                      /\ Value = ExpandLabel(RefEarly, "derived", EmptyHash)
           /\ i + 1 = SessionFrom + 1 => /\ c.out = "derived"
                                         /\ Value = ExpandLabel(RefHs(ClientView), "derived", EmptyHash)
           /\ i + 1 = SessionFrom + 2 => c.out = "master" /\ Value = RefMaster(ClientView)
<1>0. OK /\ i \in Nat /\ pc = "run"
  BY DEF HeldNow
<1>1. PICK d \in Nat, s \in Nat :
         d = KeysFrom /\ s = SessionFrom /\ d >= 10 /\ s >= d + 9
  BY Places
<1>2. /\ {"early", "hs", "emptyHash"} \subseteq Once /\ WrittenAt("emptyHash") = 1
      /\ WrittenAt("early") \in Nat /\ WrittenAt("early") <= 10 /\ WrittenAt("hs") = d + 2
  BY <1>1 DEF Once, WrittenAt
<1>3. /\ i >= 1 => Held("emptyHash") = EmptyHash
      /\ i >= 10 => Held("early") = RefEarly
      /\ i >= d + 2 => Held("hs") = RefHs(ClientView)
      /\ Held("zeros") = Zeros
  <2>1. i >= 10 => i >= WrittenAt("early")
    BY <1>0, <1>2
  <2> QED BY <1>2, <2>1 DEF HeldNow, Ref
<1>4. ASSUME i + 1 = KeysFrom + 1
      PROVE  c.out = "derived" /\ Value = ExpandLabel(RefEarly, "derived", EmptyHash)
  <2>1. Is(c, "expand", "derived", <<"early", "emptyHash">>, "derived")
    BY <1>4, ServerHelloAt DEF KeysTable, c
  <2>2. i >= 1 /\ i >= 10
    BY <1>0, <1>1, <1>4
  <2> QED BY <1>3, <2>1, <2>2, Computed DEF Is
<1>5. ASSUME i + 1 = SessionFrom + 1
      PROVE  c.out = "derived" /\ Value = ExpandLabel(RefHs(ClientView), "derived", EmptyHash)
  <2>1. Is(c, "expand", "derived", <<"hs", "emptyHash">>, "derived")
    BY <1>5, SessionAt DEF SessionTable, c
  <2>2. i >= 1 /\ i >= d + 2
    BY <1>0, <1>1, <1>5
  <2> QED BY <1>3, <2>1, <2>2, Computed DEF Is
<1>6. ASSUME i + 1 = SessionFrom + 2 PROVE c.out = "master" /\ Value = RefMaster(ClientView)
  <2>1. Is(c, "extract", "master", <<"derived", "zeros">>, "none")
    BY <1>6, SessionAt DEF SessionTable, c
  <2>2. i \in s + 1 .. s + 9
    BY <1>0, <1>1, <1>6
  <2>3. Held("derived") = ExpandLabel(RefHs(ClientView), "derived", EmptyHash)
    BY <1>0, <1>1, <2>2 DEF HeldNow, MidOK
  <2> QED BY <1>3, <2>1, <2>3, Computed DEF Is, RefMaster
<1> QED BY <1>4, <1>5, <1>6

(* So the buffers stay what they are to be. *)
LEMMA SucceedsBuffers ==
    ASSUME DriverInv, ScheduleInv, StepSucceeds
    PROVE  OnceOK' /\ FixedOK' /\ ThOK' /\ MacOK' /\ MidOK'
<1> USE DEF ScheduleInv
<1>0. StageNow /\ Stepped /\ i' = i + 1 /\ pc' = "run" /\ path' = path /\ i \in Nat
  BY Succeeds DEF Stepped, StageNow
<1>1. /\ \A b \in Locals \cup Others \cup SessionFields :
            /\ c.out = b => buf'[b] = Value
            /\ c.out # b => buf'[b] = buf[b]
      /\ Once \subseteq Locals \cup Others \cup SessionFields
  BY Buffered
<1>2. Sited(i + 1, c.op, c.out)
  BY <1>0 DEF StageNow
<1>3. FixedOK'
  <2>1. {"nil", "zeros", "psk"} \subseteq Locals \cup Others \cup SessionFields
    BY DEF Others
  <2>2. c.out # "nil" /\ c.out # "zeros" /\ c.out # "psk"
    BY <1>2 DEF Sited
  <2>3. buf'["nil"] = Nil /\ buf'["zeros"] = Zeros /\ buf'["psk"] = Psk
    BY <1>1, <2>1, <2>2 DEF FixedOK
  <2> QED BY <2>3 DEF FixedOK
<1>4. ASSUME OK' PROVE HeldNow /\ RefsKept /\ ViewKept
  <2>1. OK
    BY <1>0, <1>4 DEF Stepped
  <2> QED BY <1>0, <2>1, Holding DEF Stepped
<1>5. OnceOK'
  <2> SUFFICES ASSUME OK', NEW b \in Once, i + 1 >= WrittenAt(b) PROVE buf'[b] = Ref(b)
    BY <1>0, <1>4 DEF OnceOK, RefsKept, ViewKept
  <2>0. HeldNow
    BY <1>4
  <2>1. CASE WrittenAt(b) = i + 1
    BY <1>1, <2>0, <2>1, OnceWritten DEF WrittenNow
  <2>2. CASE WrittenAt(b) # i + 1
    <3>1. WrittenAt(b) \in Nat
      <4>1. KeysFrom \in Nat /\ FlightFrom \in Nat /\ SessionFrom \in Nat
        BY Places
      <4> QED BY <4>1 DEF Once, WrittenAt, SessionFields
    <3>2. i >= WrittenAt(b)
      BY <1>0, <2>2, <3>1
    <3>3. buf[b] = Ref(b)
      BY <2>0, <3>2 DEF HeldNow, OnceOK
    <3>4. c.out # b
      BY <1>2, <2>2 DEF Sited
    <3> QED BY <1>1, <3>3, <3>4
  <2> QED BY <2>1, <2>2
<1>6. PICK h \in Nat, d \in Nat, f \in Nat, g \in Nat, s \in Nat, n \in Nat, m \in Nat :
         /\ h = HelloEnd /\ d = KeysFrom /\ f = FlightFrom /\ g = FinFrom /\ s = SessionFrom
         /\ n = LastCall /\ m = MacAt
         /\ h + 9 <= d + 4 /\ d + 9 <= f /\ f + 5 <= g /\ s = g + 3 /\ n = s + 10
         /\ g >= 3 /\ m \in g - 2 .. g - 1 /\ h + 5 > 6
         /\ (path = "psk" => g - 3 = 24) /\ (path # "psk" => g - 3 = 26) /\ f < g - 3
  BY Places
<1>7. /\ c.out = "th" => \/ path = "psk" /\ i + 1 = 5
                         \/ i + 1 = g - 3 \/ i + 1 = h + 5 \/ i + 1 = g + 1
      /\ c.out = "mac" => i + 1 = m \/ i + 1 = g + 2
      /\ c.out = "derived" => i + 1 = d + 1 \/ i + 1 = s + 1
      /\ c.out = "master" => i + 1 = s + 2
  BY <1>2, <1>6 DEF Sited
<1>8. {"th", "mac", "derived", "master"} \subseteq Locals \cup Others \cup SessionFields
  BY DEF Locals, Others
<1>9. ASSUME NEW b \in {"th", "mac", "derived", "master"}
      PROVE  (c.out = b => buf'[b] = Value) /\ (c.out # b => buf'[b] = buf[b])
  BY <1>1, <1>8
<1>10. ThOK'
  <2> SUFFICES ASSUME OK'
               PROVE  /\ (path = "psk" /\ i + 1 \in 5 .. 6) => buf'["th"] = Hash(<<Truncated>>)
                      /\ i + 1 \in h + 5 .. f => buf'["th"] = Upto(ClientView, 2)
                      /\ i + 1 \in g - 3 .. g => buf'["th"] = Upto(ClientView, N - 1)
                      /\ i + 1 \in g + 1 .. n => buf'["th"] = Upto(ClientView, N)
    BY <1>0, <1>4, <1>6 DEF ThOK, RefsKept, ViewKept
  <2>0. HeldNow /\ OK /\ pc = "run"
    BY <1>4 DEF HeldNow
  <2>1. /\ (path = "psk" /\ i \in 5 .. 6) => buf["th"] = Hash(<<Truncated>>)
        /\ i \in h + 5 .. f => buf["th"] = Upto(ClientView, 2)
        /\ i \in g - 3 .. g => buf["th"] = Upto(ClientView, N - 1)
        /\ i \in g + 1 .. n => buf["th"] = Upto(ClientView, N)
    BY <1>6, <2>0 DEF ThOK
  <2>2. /\ (path = "psk" /\ i + 1 = 5) => c.out = "th" /\ Value = Hash(<<Truncated>>)
        /\ i + 1 = h + 5 => c.out = "th" /\ Value = Upto(ClientView, 2)
        /\ i + 1 = g - 3 => c.out = "th" /\ Value = Upto(ClientView, N - 1)
        /\ i + 1 = g + 1 => c.out = "th" /\ Value = Upto(ClientView, N)
    BY <1>0, <1>6, <2>0, Hashes
  <2>3. (path = "psk" /\ i + 1 \in 5 .. 6) => buf'["th"] = Hash(<<Truncated>>)
    <3> SUFFICES ASSUME path = "psk" PROVE i + 1 \in 5 .. 6 => buf'["th"] = Hash(<<Truncated>>)
      OBVIOUS
    <3>1. (c.out = "th" /\ i + 1 \in 5 .. 6) => i + 1 = 5
      BY <1>0, <1>6, <1>7
    <3> QED BY <1>0, <1>9, <2>1, <2>2, <3>1, Interval
  <2>4. i + 1 \in h + 5 .. f => buf'["th"] = Upto(ClientView, 2)
    <3>1. (c.out = "th" /\ i + 1 \in h + 5 .. f) => i + 1 = h + 5
      BY <1>0, <1>6, <1>7
    <3> QED BY <1>0, <1>6, <1>9, <2>1, <2>2, <3>1, Interval
  <2>5. i + 1 \in g - 3 .. g => buf'["th"] = Upto(ClientView, N - 1)
    <3>1. (c.out = "th" /\ i + 1 \in g - 3 .. g) => i + 1 = g - 3
      BY <1>0, <1>6, <1>7
    <3>2. g - 3 \in Nat
      BY <1>6
    <3> QED BY <1>0, <1>9, <2>1, <2>2, <3>1, <3>2, Interval
  <2>6. i + 1 \in g + 1 .. n => buf'["th"] = Upto(ClientView, N)
    <3>1. (c.out = "th" /\ i + 1 \in g + 1 .. n) => i + 1 = g + 1
      BY <1>0, <1>6, <1>7
    <3> QED BY <1>0, <1>6, <1>9, <2>1, <2>2, <3>1, Interval
  <2> QED BY <2>3, <2>4, <2>5, <2>6
<1>11. MacOK'
  <2> DEFINE u == FinishedMac(RefTraffic(ClientView, "s"), Upto(ClientView, N - 1))
             v == FinishedMac(RefTraffic(ClientView, "c"), Upto(ClientView, N))
  <2> SUFFICES ASSUME OK'
               PROVE  /\ i + 1 \in m .. g + 1 => buf'["mac"] = u
                      /\ i + 1 \in g + 2 .. n => buf'["mac"] = v
    <3>1. OK' => u' = u /\ v' = v
      BY <1>4 DEF RefsKept, ViewKept
    <3> QED BY <1>0, <1>4, <1>6, <3>1 DEF MacOK, ViewKept
  <2>0. HeldNow /\ OK /\ pc = "run"
    BY <1>4 DEF HeldNow
  <2>1. /\ i \in m .. g + 1 => buf["mac"] = u
        /\ i \in g + 2 .. n => buf["mac"] = v
    BY <1>6, <2>0 DEF MacOK
  <2>2. /\ i + 1 = m => c.out = "mac" /\ Value = u
        /\ i + 1 = g + 2 => c.out = "mac" /\ Value = v
    BY <1>0, <1>6, <2>0, Macs
  <2> HIDE DEF u, v
  <2>3. i + 1 \in m .. g + 1 => buf'["mac"] = u
    <3>1. (c.out = "mac" /\ i + 1 \in m .. g + 1) => i + 1 = m
      BY <1>0, <1>6, <1>7
    <3> QED BY <1>0, <1>6, <1>9, <2>1, <2>2, <3>1, Interval
  <2>4. i + 1 \in g + 2 .. n => buf'["mac"] = v
    <3>1. (c.out = "mac" /\ i + 1 \in g + 2 .. n) => i + 1 = g + 2
      BY <1>0, <1>6, <1>7
    <3> QED BY <1>0, <1>6, <1>9, <2>1, <2>2, <3>1, Interval
  <2> QED BY <2>3, <2>4
<1>12. MidOK'
  <2> DEFINE u == ExpandLabel(RefEarly, "derived", EmptyHash)
             v == ExpandLabel(RefHs(ClientView), "derived", EmptyHash)
  <2> SUFFICES ASSUME OK'
               PROVE  /\ i + 1 \in d + 1 .. d + 8 => buf'["derived"] = u
                      /\ i + 1 \in s + 1 .. s + 9 => buf'["derived"] = v
                      /\ i + 1 \in s + 2 .. s + 9 => buf'["master"] = RefMaster(ClientView)
    <3>1. OK' => u' = u /\ v' = v
      <4>1. RefEarly' = RefEarly /\ EmptyHash' = EmptyHash
        BY <1>0, SameReference DEF EmptyHash, Public
      <4> QED BY <1>4, <4>1 DEF RefsKept
    <3> QED BY <1>0, <1>4, <1>6, <3>1 DEF MidOK, ViewKept, RefsKept
  <2>0. HeldNow /\ OK /\ pc = "run"
    BY <1>4 DEF HeldNow
  <2>1. /\ i \in d + 1 .. d + 8 => buf["derived"] = u
        /\ i \in s + 1 .. s + 9 => buf["derived"] = v
        /\ i \in s + 2 .. s + 9 => buf["master"] = RefMaster(ClientView)
    BY <1>6, <2>0 DEF MidOK
  <2>2. /\ i + 1 = d + 1 => c.out = "derived" /\ Value = u
        /\ i + 1 = s + 1 => c.out = "derived" /\ Value = v
        /\ i + 1 = s + 2 => c.out = "master" /\ Value = RefMaster(ClientView)
    BY <1>0, <1>6, <2>0, Middles
  <2> HIDE DEF u, v
  <2>3. i + 1 \in d + 1 .. d + 8 => buf'["derived"] = u
    <3>1. (c.out = "derived" /\ i + 1 \in d + 1 .. d + 8) => i + 1 = d + 1
      BY <1>0, <1>6, <1>7
    <3> QED BY <1>0, <1>6, <1>9, <2>1, <2>2, <3>1, Interval
  <2>4. i + 1 \in s + 1 .. s + 9 => buf'["derived"] = v
    <3>1. (c.out = "derived" /\ i + 1 \in s + 1 .. s + 9) => i + 1 = s + 1
      BY <1>0, <1>6, <1>7
    <3> QED BY <1>0, <1>6, <1>9, <2>1, <2>2, <3>1, Interval
  <2>5. i + 1 \in s + 2 .. s + 9 => buf'["master"] = RefMaster(ClientView)
    <3>1. (c.out = "master" /\ i + 1 \in s + 2 .. s + 9) => i + 1 = s + 2
      BY <1>0, <1>6, <1>7
    <3> QED BY <1>0, <1>6, <1>9, <2>1, <2>2, <3>1, Interval
  <2> QED BY <2>3, <2>4, <2>5
<1> QED BY <1>3, <1>5, <1>10, <1>11, <1>12

(* The messages hashed *)
LEMMA UpdatesInOrder ==
    /\ \A m \in 1 .. N : UpdateAt[m] \in Nat
    /\ \A m \in 1 .. N, n \in 1 .. N : m < n => UpdateAt[m] < UpdateAt[n]
<1>1. CASE path = "psk"
  <2>1. N = 4 /\ UpdateAt = <<7, 10, 23, 27>>
    BY <1>1, Places
  <2> QED BY <2>1
<1>2. CASE path # "psk"
  <2>1. N = 6 /\ UpdateAt = <<3, 6, 21, 22, 24, 27>>
    BY <1>2, Places
  <2> QED BY <2>1
<1> QED BY <1>1, <1>2

LEMMA Messages ==
    ASSUME HeldNow, StageNow, NEW m \in 1 .. N, i + 1 = UpdateAt[m]
    PROVE  c.op = "update" /\ Message = RefMsgs(ClientView)[m]
<1>0. i \in Nat /\ MsgsAre(ClientView, RefMsgs(ClientView))
  BY RefMsgsAt DEF HeldNow
<1>1. ClientView.ch = Genuine /\ ClientView.sh = share["server"]
  BY DEF ClientView
<1>2. ASSUME Is(c, "update", "none", <<>>, "SH"), m = 2
      PROVE  c.op = "update" /\ Message = RefMsgs(ClientView)[m]
  BY <1>0, <1>1, <1>2 DEF Is, Message, MsgsAre
<1>3. ASSUME NEW l, Is(c, "update", "none", <<>>, l), l \notin {"CH", "SH"},
             RefMsgs(ClientView)[m] = Public(l)
      PROVE  c.op = "update" /\ Message = RefMsgs(ClientView)[m]
  BY <1>3 DEF Is, Message
<1>4. CASE path = "psk"
  <2>0. N = 4 /\ UpdateAt = <<7, 10, 23, 27>> /\ HelloEnd = 8
    BY <1>4, Places
  <2>1. CASE m = 1
    <3>1. i + 1 = 7 /\ i >= 6
      BY <1>0, <2>0, <2>1
    <3>2. Is(c, "update", "none", <<>>, "CH")
      BY <1>4, <3>1, PskHelloAt DEF PskHelloTable, c
    <3>3. "binder" \in Once /\ WrittenAt("binder") = 6
      BY <1>4 DEF Once, WrittenAt
    <3>4. buf["binder"] = RefBinder
      BY <3>1, <3>3 DEF HeldNow, Held, Ref
    <3>5. Message = RefCh(Genuine)
      BY <1>4, <3>2, <3>4 DEF Is, Message, RefCh
    <3> QED BY <1>0, <1>1, <2>1, <3>2, <3>5 DEF Is, MsgsAre
  <2>2. CASE m = 2
    <3>1. i + 1 = 8 + 2
      BY <1>0, <2>0, <2>2
    <3>2. Is(c, "update", "none", <<>>, "SH")
      BY <2>0, <3>1, ServerHelloAt DEF ServerHelloTable, c
    <3> QED BY <1>2, <2>2, <3>2
  <2>3. CASE m = 3
    <3>1. i + 1 = 23
      BY <1>0, <2>0, <2>3
    <3>2. Is(c, "update", "none", <<>>, "EE")
      BY <1>4, <3>1, PskFlightAt DEF PskFlightTable, c
    <3>3. RefMsgs(ClientView)[m] = Public("EE")
      BY <1>0, <2>3 DEF MsgsAre
    <3> QED BY <1>3, <3>2, <3>3
  <2>4. CASE m = 4
    <3>1. i + 1 = 27
      BY <1>0, <2>0, <2>4
    <3>2. Is(c, "update", "none", <<>>, "FIN")
      BY <1>4, <3>1, PskFlightAt DEF PskFlightTable, c
    <3>3. RefMsgs(ClientView)[m] = Public("FIN")
      BY <1>0, <1>4, <2>4 DEF MsgsAre
    <3> QED BY <1>3, <3>2, <3>3
  <2> QED BY <2>0, <2>1, <2>2, <2>3, <2>4
<1>5. CASE path # "psk"
  <2>0. N = 6 /\ UpdateAt = <<3, 6, 21, 22, 24, 27>> /\ HelloEnd = 4
    BY <1>5, Places
  <2>1. CASE m = 1
    <3>1. i + 1 = 3
      BY <1>0, <2>0, <2>1
    <3>2. Is(c, "update", "none", <<>>, "CH")
      BY <1>5, <3>1, CertHelloAt DEF CertHelloTable, c
    <3>3. Message = RefCh(Genuine)
      BY <1>5, <3>2 DEF Is, Message, RefCh
    <3> QED BY <1>0, <1>1, <2>1, <3>2, <3>3 DEF Is, MsgsAre
  <2>2. CASE m = 2
    <3>1. i + 1 = 4 + 2
      BY <1>0, <2>0, <2>2
    <3>2. Is(c, "update", "none", <<>>, "SH")
      BY <2>0, <3>1, ServerHelloAt DEF ServerHelloTable, c
    <3> QED BY <1>2, <2>2, <3>2
  <2>3. CASE m = 3
    <3>1. i + 1 = 21
      BY <1>0, <2>0, <2>3
    <3>2. Is(c, "update", "none", <<>>, "EE")
      BY <1>5, <3>1, CertFlightAt DEF CertFlightTable, c
    <3>3. RefMsgs(ClientView)[m] = Public("EE")
      BY <1>0, <2>3 DEF MsgsAre
    <3> QED BY <1>3, <3>2, <3>3
  <2>4. CASE m = 4
    <3>1. i + 1 = 22
      BY <1>0, <2>0, <2>4
    <3>2. Is(c, "update", "none", <<>>, "CERT")
      BY <1>5, <3>1, CertFlightAt DEF CertFlightTable, c
    <3>3. RefMsgs(ClientView)[m] = Public("CERT")
      BY <1>0, <1>5, <2>4 DEF MsgsAre
    <3> QED BY <1>3, <3>2, <3>3
  <2>5. CASE m = 5
    <3>1. i + 1 = 24
      BY <1>0, <2>0, <2>5
    <3>2. Is(c, "update", "none", <<>>, "CV")
      BY <1>5, <3>1, CertFlightAt DEF CertFlightTable, c
    <3>3. RefMsgs(ClientView)[m] = Public("CV")
      BY <1>0, <1>5, <2>5 DEF MsgsAre
    <3> QED BY <1>3, <3>2, <3>3
  <2>6. CASE m = 6
    <3>1. i + 1 = 27
      BY <1>0, <2>0, <2>6
    <3>2. Is(c, "update", "none", <<>>, "FIN")
      BY <1>5, <3>1, CertFlightAt DEF CertFlightTable, c
    <3>3. RefMsgs(ClientView)[m] = Public("FIN")
      BY <1>0, <1>5, <2>6 DEF MsgsAre
    <3> QED BY <1>3, <3>2, <3>3
  <2> QED BY <2>0, <2>1, <2>2, <2>3, <2>4, <2>5, <2>6
<1> QED BY <1>4, <1>5

LEMMA SeqGrows ==
    ASSUME NEW p, IsSeq(p), NEW x, NEW n \in Nat, n = Len(p)
    PROVE  /\ IsSeq(Append(p, x)) /\ Len(Append(p, x)) = n + 1
           /\ Append(p, x)[n + 1] = x /\ \A j \in 1 .. n : Append(p, x)[j] = p[j]
<1>1. PICK S : p \in Seq(S)
  BY DEF IsSeq
<1>2. p \in Seq(S \cup {x})
  BY <1>1, SeqSubset
<1>3. /\ Append(p, x) \in Seq(S \cup {x}) /\ Len(Append(p, x)) = n + 1
      /\ Append(p, x)[n + 1] = x /\ \A j \in 1 .. n : Append(p, x)[j] = p[j]
  BY <1>2
<1> QED BY <1>3 DEF IsSeq

LEMMA SucceedsTc ==
    ASSUME DriverInv, ScheduleInv, StepSucceeds
    PROVE  SeqsOK' /\ TcOK'
<1> USE DEF ScheduleInv
<1>0. StageNow /\ Stepped /\ i' = i + 1 /\ i \in Nat /\ Sited(i + 1, c.op, c.out)
  BY Succeeds DEF Stepped, StageNow
<1>1. /\ tc' = (IF c.op = "update" THEN Append(tc, Message) ELSE tc)
      /\ wire' = wire \/ \E x : wire' = Append(wire, x)
  BY DEF StepSucceeds
<1>2. IsSeq(wire')
  <2>1. CASE wire' = wire
    BY <2>1 DEF SeqsOK
  <2>2. ASSUME NEW x, wire' = Append(wire, x) PROVE IsSeq(wire')
    <3>1. PICK S : wire \in Seq(S)
      BY DEF SeqsOK, IsSeq
    <3>2. PICK n \in Nat : n = Len(wire)
      BY <3>1
    <3> QED BY <2>2, <3>2, SeqGrows DEF SeqsOK
  <2> QED BY <1>1, <2>1, <2>2
<1>3. PICK n \in Nat : n = Len(tc)
  <2>1. PICK S : tc \in Seq(S)
    BY DEF SeqsOK, IsSeq
  <2> QED BY <2>1
<1>4. SeqsOK'
  BY <1>1, <1>2, <1>3, SeqGrows DEF SeqsOK
<1>5. ASSUME OK' PROVE TcOK'
  <2>1. OK /\ HeldNow /\ RefsKept /\ ViewKept
    BY <1>0, <1>5, Holding DEF Stepped
  <2>2. PICK w \in Nat : w = N
    BY PathLength
  <2>3. /\ n <= w
        /\ \A m \in 1 .. w : m <= n <=> UpdateAt[m] <= i
        /\ \A m \in 1 .. n : tc[m] = RefMsgs(ClientView)[m]
    BY <1>3, <2>1, <2>2 DEF TcOK
  <2>4. /\ \A m \in 1 .. w : UpdateAt[m] \in Nat
        /\ \A m \in 1 .. w, j \in 1 .. w : m < j => UpdateAt[m] < UpdateAt[j]
    BY <2>2, UpdatesInOrder
  <2> SUFFICES /\ Len(tc') <= w
               /\ \A m \in 1 .. w : m <= Len(tc') <=> UpdateAt[m] <= i + 1
               /\ \A m \in 1 .. Len(tc') : tc'[m] = RefMsgs(ClientView)[m]
    <3>1. N' = w /\ UpdateAt' = UpdateAt /\ RefMsgs(ClientView)' = RefMsgs(ClientView)
      BY <2>1, <2>2 DEF ViewKept, RefsKept
    <3> QED BY <1>0, <3>1 DEF TcOK
  <2>5. CASE c.op = "update"
    <3>1. PICK m \in 1 .. w : i + 1 = UpdateAt[m]
      BY <1>0, <2>2, <2>5 DEF Sited
    <3>2. n = m - 1
      <4>1. ~(m <= n)
        BY <1>0, <2>3, <3>1
      <4>2. m > 1 => m - 1 <= n
        <5> SUFFICES ASSUME m > 1 PROVE m - 1 <= n
          OBVIOUS
        <5>1. m - 1 \in 1 .. w /\ m - 1 < m
          BY <3>1
        <5>2. UpdateAt[m - 1] < UpdateAt[m] /\ UpdateAt[m - 1] \in Nat
          BY <2>4, <3>1, <5>1
        <5>3. UpdateAt[m - 1] <= i
          BY <1>0, <3>1, <5>2
        <5> QED BY <2>3, <5>1, <5>3
      <4> QED BY <1>3, <3>1, <4>1, <4>2
    <3>3. Message = RefMsgs(ClientView)[m]
      BY <1>0, <2>1, <2>2, <3>1, Messages
    <3>4. /\ Len(tc') = n + 1 /\ tc'[n + 1] = Message
          /\ \A j \in 1 .. n : tc'[j] = tc[j]
      BY <1>1, <1>3, <2>5, SeqGrows DEF SeqsOK
    <3>5. \A j \in 1 .. n + 1 : tc'[j] = RefMsgs(ClientView)[j]
      <4> SUFFICES ASSUME NEW j \in 1 .. n + 1 PROVE tc'[j] = RefMsgs(ClientView)[j]
        OBVIOUS
      <4>1. CASE j \in 1 .. n
        BY <2>3, <3>4, <4>1
      <4>2. CASE j = n + 1
        <5>1. j = m
          BY <1>3, <3>1, <3>2, <4>2
        <5> QED BY <3>3, <3>4, <4>2, <5>1
      <4> QED BY <1>3, <4>1, <4>2
    <3>6. ASSUME NEW j \in 1 .. w PROVE j <= n + 1 <=> UpdateAt[j] <= i + 1
      <4>1. CASE j = m
        BY <1>0, <1>3, <3>1, <3>2, <4>1
      <4>2. CASE j < m
        <5>1. UpdateAt[j] < UpdateAt[m] /\ UpdateAt[j] \in Nat
          BY <2>4, <3>1, <4>2
        <5> QED BY <1>0, <1>3, <3>1, <3>2, <4>2, <5>1
      <4>3. CASE j > m
        <5>1. UpdateAt[m] < UpdateAt[j] /\ UpdateAt[j] \in Nat
          BY <2>4, <3>1, <4>3
        <5> QED BY <1>0, <1>3, <3>1, <3>2, <4>3, <5>1
      <4> QED BY <3>1, <4>1, <4>2, <4>3
    <3>7. n + 1 <= w
      BY <2>2, <3>1, <3>2
    <3> QED BY <3>4, <3>5, <3>6, <3>7
  <2>6. CASE c.op # "update"
    <3>1. ASSUME NEW m \in 1 .. w PROVE UpdateAt[m] <= i <=> UpdateAt[m] <= i + 1
      <4>1. i + 1 # UpdateAt[m]
        BY <1>0, <2>1, <2>2, <2>6, Messages
      <4>2. UpdateAt[m] \in Nat
        BY <2>4
      <4> QED BY <1>0, <4>1, <4>2
    <3> QED BY <1>1, <1>3, <2>3, <2>6, <3>1
  <2> QED BY <2>5, <2>6
<1> QED BY <1>4, <1>5 DEF TcOK

(* What the calls that compare find *)
LEMMA FinishedCall ==
    ASSUME i + 1 = FinishedAt
    PROVE  Is(c, "finished", "recvMac", <<"mac">>, "none")
<1>1. CASE path = "psk"
  <2>1. i + 1 = 26
    BY <1>1, Places
  <2> QED BY <1>1, <2>1, PskFlightAt DEF PskFlightTable, c
<1>2. CASE path # "psk"
  <2>1. i + 1 = 29
    BY <1>2, Places
  <2> QED BY <1>2, <2>1, CertFlightAt DEF CertFlightTable, c
<1> QED BY <1>1, <1>2

LEMMA Checks ==
    ASSUME HeldNow, StageNow, MacOK
    PROVE  /\ (i + 1 = FinishedAt /\ Mismatch = "SUCCESS") => ClientView = ServerView
           /\ (c.op \in {"finished", "verify"} /\ ClientView = ServerView) => Mismatch = "SUCCESS"
           /\ c.op \notin {"finished", "verify", "receive", "params"} => Mismatch = "SUCCESS"
<1>0. OK /\ pc = "run" /\ i \in Nat /\ Sited(i + 1, c.op, c.out)
  BY DEF HeldNow, StageNow
<1>1. ASSUME i + 1 = FinishedAt
      PROVE  /\ c.op = "finished" /\ c.from[1] = "mac"
             /\ buf["mac"] = FinishedMac(RefTraffic(ClientView, "s"), Upto(ClientView, N - 1))
             /\ Value = FinishedMac(RefTraffic(ServerView, "s"), Upto(ServerView, N - 1))
  <2>1. Is(c, "finished", "recvMac", <<"mac">>, "none")
    BY <1>1, FinishedCall
  <2>2. i \in MacAt .. FinFrom + 1
    BY <1>0, <1>1, Places
  <2>3. buf["mac"] = FinishedMac(RefTraffic(ClientView, "s"), Upto(ClientView, N - 1))
    BY <1>0, <2>2 DEF MacOK
  <2>4. Value = FinishedMac(RefTraffic(ServerView, "s"), Upto(ServerView, N - 1))
    BY <2>1, Computed
  <2> QED BY <2>1, <2>3, <2>4 DEF Is
<1>2. (i + 1 = FinishedAt /\ Mismatch = "SUCCESS") => ClientView = ServerView
  <2> SUFFICES ASSUME i + 1 = FinishedAt, Mismatch = "SUCCESS" PROVE ClientView = ServerView
    OBVIOUS
  <2>1. buf["mac"] = Value
    BY <1>1 DEF Mismatch
  <2>2. FinishedMac(RefTraffic(ClientView, "s"), Upto(ClientView, N - 1))
          = FinishedMac(RefTraffic(ServerView, "s"), Upto(ServerView, N - 1))
    BY <1>1, <2>1
  <2> QED BY <2>2, FinishedAgrees, Views
<1>3. ASSUME c.op = "finished", ClientView = ServerView PROVE Mismatch = "SUCCESS"
  <2>1. i + 1 = FinishedAt
    BY <1>0, <1>3 DEF Sited
  <2> QED BY <1>1, <1>3, <2>1 DEF Mismatch
<1>4. ASSUME c.op = "verify", ClientView = ServerView PROVE Mismatch = "SUCCESS"
  <2>1. path # "psk" /\ i + 1 = FlightFrom + 5
    BY <1>0, <1>4 DEF Sited
  <2>2. i + 1 = 25 /\ i >= FlightFrom + 3
    BY <1>0, <2>1, Places
  <2>3. Is(c, "verify", "none", <<"thCert">>, "none")
    BY <2>1, <2>2, CertFlightAt DEF CertFlightTable, c
  <2>4. "thCert" \in Once /\ WrittenAt("thCert") = FlightFrom + 3
    BY <2>1 DEF Once, WrittenAt
  <2>5. buf["thCert"] = Upto(ClientView, N - 2)
    <3>1. Ref("thCert") = Upto(ClientView, N - 2)
      BY DEF Ref
    <3> QED BY <2>2, <2>4, <3>1 DEF HeldNow, Held
  <2> QED BY <1>4, <2>3, <2>5 DEF Mismatch, Is
<1>5. c.op \notin {"finished", "verify", "receive", "params"} => Mismatch = "SUCCESS"
  BY DEF Mismatch
<1> QED BY <1>2, <1>3, <1>4, <1>5

(* The server's Finished is verified only if both have the same view. *)
LEMMA SucceedsAgree ==
    ASSUME DriverInv, ScheduleInv, StepSucceeds
    PROVE  AgreeOK'
<1> USE DEF ScheduleInv
<1> SUFFICES ASSUME OK', i' >= FinishedAt' PROVE ClientView' = ServerView'
  BY DEF AgreeOK
<1>0. StageNow /\ Stepped /\ OK /\ Mismatch = "SUCCESS" /\ i' = i + 1
  BY Succeeds DEF Stepped
<1>1. HeldNow /\ ClientView' = ClientView /\ ViewKept
  BY <1>0, Holding DEF Stepped
<1>2. PICK a \in Nat, h \in Nat : a = FinishedAt /\ h = HelloEnd /\ h < a
  BY Places
<1>3. i \in Nat /\ i + 1 >= a
  BY <1>0, <1>1, <1>2 DEF ViewKept, HeldNow
<1>4. ServerView' = ServerView
  <2>1. i + 1 # h
    BY <1>2, <1>3
  <2> QED BY <1>0, <1>2, <2>1 DEF Stepped
<1>5. CASE i + 1 = a
  BY <1>0, <1>1, <1>2, <1>4, <1>5, Checks
<1>6. CASE i + 1 # a
  <2>1. i >= a
    BY <1>2, <1>3, <1>6
  <2> QED BY <1>0, <1>1, <1>2, <1>4, <2>1 DEF AgreeOK
<1> QED BY <1>5, <1>6

(* The key an alert would be sealed with, once it is ready *)
LEMMA SucceedsReady ==
    ASSUME DriverInv, ScheduleInv, StepSucceeds
    PROVE  KeysOK'
<1> USE DEF ScheduleInv
<1> SUFFICES ASSUME keysReady' PROVE KeysOK'
  BY DEF KeysOK
<1>0. /\ StageNow /\ Stepped /\ i' = i + 1 /\ pc' = "run" /\ path' = path /\ i \in Nat /\ ViewKept
      /\ RefsKept /\ pc = "run" /\ Sited(i + 1, c.op, c.out)
      /\ keysReady' = (keysReady \/ (c.op = "ready" /\ OK))

  <2>1. keysReady' = (keysReady \/ (c.op = "ready" /\ OK))
    BY Zenon DEF StepSucceeds, OK
  <2> QED BY <2>1, Succeeds DEF Stepped, StageNow
<1>1. PICK f \in Nat, h \in Nat, d \in Nat :
         f = FlightFrom /\ h = HelloEnd /\ d = KeysFrom /\ h + 5 <= d + 4 /\ d + 9 <= f /\ h >= 4
  BY Places
<1>2. /\ path # "psk" /\ i + 1 >= f /\ Settled
      /\ buf["cKey"] = Ref("cKey") /\ buf["cIv"] = Ref("cIv")
  <2>1. CASE keysReady
    <3>1. path # "psk" /\ i >= f /\ Settled /\ buf["cKey"] = Ref("cKey") /\ buf["cIv"] = Ref("cIv")
      BY <1>0, <1>1, <2>1 DEF KeysOK
    <3> QED BY <1>0, <1>1, <3>1
  <2>2. CASE c.op = "ready" /\ OK
    <3>1. path # "psk" /\ i + 1 = f
      BY <1>0, <1>1, <2>2 DEF Sited
    <3>2. i >= h + 4 /\ i >= d + 6 /\ i >= d + 5
      BY <1>0, <1>1, <3>1
    <3>3. fn["client"] = "Use"
      BY <1>0, <1>1, <2>2, <3>2 DEF StageNow
    <3>4. Settled
      BY <3>3 DEF Settled, Exchange, MeetOK
    <3>5. HeldNow
      BY <1>0, <2>2, Holding
    <3>6. /\ "cKey" \in Once /\ "cIv" \in Once
          /\ WrittenAt("cKey") = d + 5 /\ WrittenAt("cIv") = d + 6
      BY <1>1 DEF Once, WrittenAt
    <3>7. buf["cKey"] = Ref("cKey") /\ buf["cIv"] = Ref("cIv")
      BY <3>2, <3>5, <3>6 DEF HeldNow, Held
    <3> QED BY <1>1, <3>1, <3>4, <3>7
  <2> QED BY <1>0, <2>1, <2>2
<1>3. i + 1 \notin {2, h, h + 1, h + 4}
  BY <1>0, <1>1, <1>2
<1>4. Settled'
  <2>1. UNCHANGED <<fn, share>>
    BY <1>1, <1>3, SucceedsExchange
  <2> QED BY <1>2, <2>1 DEF Settled
<1>5. buf'["cKey"] = buf["cKey"] /\ buf'["cIv"] = buf["cIv"]
  <2>1. "cKey" \in Once /\ "cIv" \in Once /\ WrittenAt("cKey") = d + 5 /\ WrittenAt("cIv") = d + 6
    BY <1>1 DEF Once, WrittenAt
  <2>2. c.out # "cKey" /\ c.out # "cIv"
    <3>1. i + 1 # d + 5 /\ i + 1 # d + 6
      BY <1>0, <1>1, <1>2
    <3> QED BY <1>0, <2>1, <3>1 DEF Sited
  <2> QED BY <2>1, <2>2, Buffered
<1> QED BY <1>0, <1>1, <1>2, <1>4, <1>5 DEF KeysOK, ViewKept, RefsKept

(* What is sent *)
LEMMA SentTerms ==
    ASSUME NEW u, NEW a, NEW b, NEW d
    PROVE  /\ Sent(u, <<>>) = [kind |-> u, terms |-> <<>>]
           /\ Sent(u, <<a>>) = [kind |-> u, terms |-> <<buf[a]>>]
           /\ Sent(u, <<a, b>>) = [kind |-> u, terms |-> <<buf[a], buf[b]>>]
           /\ Sent(u, <<a, b, d>>) = [kind |-> u, terms |-> <<buf[a], buf[b], buf[d]>>]
BY DEF Sent

LEMMA SettledStays ==
    ASSUME DriverInv, Exchange, StagesOK, StepSucceeds, Settled
    PROVE  /\ UNCHANGED <<fn, share>> /\ Settled'
           /\ ClientView' = ClientView /\ ServerView' = ServerView
<1>0. StageNow /\ Stepped /\ Guarded
  BY Succeeds DEF StepSucceeds
<1>1. PICK h \in Nat : h = HelloEnd /\ h >= 4 /\ i \in Nat
  BY <1>0, Places DEF StageNow
<1>2. fn["client"] \notin {"Start", "Send", "Recv", "Got"}
  BY DEF Settled
<1>3. /\ i + 1 = h => OK
      /\ i + 1 = h + 1 => OK
      /\ i + 1 = h + 4 => OK
  <2>1. i + 1 = h + 1 => c.op = "receive"
    BY <1>1, ServerHelloAt DEF ServerHelloTable, Is, c
  <2>2. i + 1 = h + 4 => c.op = "keyshare"
    BY <1>1, ServerHelloAt DEF ServerHelloTable, Is, c
  <2> QED BY <1>0, <1>1, <2>1, <2>2, Meetings
<1>4. i + 1 # 2
  <2>1. i + 1 = 2 => i < 2
    BY <1>1
  <2> QED BY <1>0, <1>2, <2>1 DEF StageNow
<1>5. i + 1 # h
  <2>1. i + 1 = h => i \in 2 .. h - 1
    BY <1>1
  <2> QED BY <1>0, <1>1, <1>2, <1>3, <2>1 DEF StageNow
<1>6. i + 1 # h + 1
  <2>1. i + 1 = h + 1 => i = h
    BY <1>1
  <2> QED BY <1>0, <1>1, <1>2, <1>3, <2>1 DEF StageNow
<1>7. i + 1 # h + 4
  <2>1. i + 1 = h + 4 => i \in h + 1 .. h + 3
    BY <1>1
  <2> QED BY <1>0, <1>1, <1>2, <1>3, <2>1 DEF StageNow
<1>8. UNCHANGED <<fn, share>>
  BY <1>1, <1>4, <1>5, <1>6, <1>7, SucceedsExchange
<1>9. ClientView' = ClientView /\ ServerView' = ServerView
  BY <1>0, <1>1, <1>5 DEF Stepped
<1> QED BY <1>8, <1>9 DEF Settled

LEMMA HelloSent ==
    ASSUME DriverInv, ScheduleInv, StepSucceeds, c.op = "send", c.label = "hello"
    PROVE  OnWire(Sent(c.label, c.from))
<1> USE DEF ScheduleInv
<1>0. StageNow /\ Guarded
  BY Succeeds DEF StepSucceeds
<1>1. i + 1 = HelloEnd /\ OK
  BY <1>0, Meetings
<1>2. HeldNow
  BY <1>0, <1>1, Holding
<1>3. CASE path = "psk"
  <2>1. HelloEnd = 8
    BY <1>3, Places
  <2>2. Is(c, "send", "none", <<"binder">>, "hello")
    BY <1>1, <1>3, <2>1, PskHelloAt DEF PskHelloTable, c
  <2>3. "binder" \in Once /\ WrittenAt("binder") = 6
    BY <1>3 DEF Once, WrittenAt
  <2>4. i >= 6
    BY <1>1, <2>1, <1>2 DEF HeldNow
  <2>5. buf["binder"] = RefBinder
    BY <1>2, <2>3, <2>4 DEF HeldNow, Held, Ref
  <2>6. Sent(c.label, c.from) = [kind |-> "hello", terms |-> <<buf["binder"]>>]
    BY <2>2, SentTerms DEF Is
  <2> QED BY <1>3, <2>5, <2>6 DEF OnWire
<1>4. CASE path # "psk"
  <2>1. HelloEnd = 4
    BY <1>4, Places
  <2>2. Is(c, "send", "none", <<>>, "hello")
    BY <1>1, <1>4, <2>1, CertHelloAt DEF CertHelloTable, c
  <2>3. Sent(c.label, c.from) = [kind |-> "hello", terms |-> <<>>]
    BY <2>2, SentTerms DEF Is
  <2> QED BY <1>4, <2>3 DEF OnWire
<1> QED BY <1>3, <1>4

LEMMA JoinedTwo ==
    ASSUME NEW x, NEW y, NEW z
    PROVE  <<x>> \o <<y, z>> = <<x, y, z>>
<1> DEFINE p == <<x>> \o <<y, z>>
           q == <<x, y, z>>
<1>1. p \in Seq({x, y, z}) /\ Len(p) = 3 /\ p[1] = x /\ p[2] = y /\ p[3] = z
  OBVIOUS
<1>2. q \in Seq({x, y, z}) /\ Len(q) = 3 /\ q[1] = x /\ q[2] = y /\ q[3] = z
  OBVIOUS
<1> HIDE DEF p, q
<1>3. p = q
  BY <1>1, <1>2
<1> QED BY <1>3 DEF p, q

LEMMA FinishedSent ==
    ASSUME DriverInv, ScheduleInv, StepSucceeds, c.op = "send", c.label # "hello"
    PROVE  OnWire(Sent(c.label, c.from))
<1> USE DEF ScheduleInv
<1>0. StageNow /\ Guarded
  BY Succeeds DEF StepSucceeds
<1>1. i + 1 = FinFrom + 3 /\ OK
  BY <1>0, Meetings
<1>2. HeldNow
  BY <1>0, <1>1, Holding
<1>3. Is(c, "send", "fin", <<"mac", "cKey", "cIv">>, "finished")
  BY <1>1, SessionAt DEF FinishedTable, c
<1>4. Sent(c.label, c.from)
        = [kind |-> "finished", terms |-> <<buf["mac"], buf["cKey"], buf["cIv"]>>]
  <2>1. c.label = "finished" /\ c.from = <<"mac", "cKey", "cIv">>
    BY <1>3 DEF Is
  <2>2. Sent("finished", <<"mac", "cKey", "cIv">>)
          = [kind |-> "finished", terms |-> <<buf["mac"], buf["cKey"], buf["cIv"]>>]
    BY SentTerms, Zenon
  <2> QED BY <2>1, <2>2
<1>5. PICK f \in Nat, d \in Nat, h \in Nat, n \in Nat, a \in Nat :
         /\ f = FinFrom /\ d = KeysFrom /\ h = HelloEnd /\ n = LastCall /\ a = FinishedAt
         /\ d + 6 <= f /\ h + 4 <= f /\ n >= f + 3 /\ a <= f /\ i \in Nat
  BY SMTT(30), <1>0, Places DEF StageNow
<1>6. i \in f + 2 .. n /\ i >= d + 5 /\ i >= d + 6 /\ i >= a /\ i >= h + 4
  BY <1>1, <1>5
<1>7. buf["mac"] = FinishedMac(RefTraffic(ClientView, "c"), Upto(ClientView, N))
  BY <1>2, <1>5, <1>6 DEF HeldNow, MacOK
<1>8. /\ buf["cKey"] = RefKey(RefTraffic(ClientView, "c"))
      /\ buf["cIv"] = RefIv(RefTraffic(ClientView, "c"))
  <2>1. "cKey" \in Once /\ "cIv" \in Once /\ WrittenAt("cKey") = d + 5 /\ WrittenAt("cIv") = d + 6
    BY <1>5 DEF Once, WrittenAt
  <2> QED BY <1>2, <1>6, <2>1 DEF HeldNow, Held, Ref
<1>9. ClientView = ServerView
  BY <1>1, <1>5, <1>6 DEF AgreeOK
<1>10. Settled
  <2>1. fn["client"] = "Use"
    BY <1>0, <1>1, <1>5, <1>6 DEF StageNow
  <2> QED BY <2>1 DEF Settled, Exchange, MeetOK
<1>11. Sealing(ServerView) = <<buf["cKey"], buf["cIv"]>>
  BY <1>8, <1>9 DEF Sealing
<1>12. <<FinishedMac(RefTraffic(ServerView, "c"), Upto(ServerView, N))>> \o Sealing(ServerView)
         = <<buf["mac"], buf["cKey"], buf["cIv"]>>
  <2> DEFINE x == buf["mac"]
             y == buf["cKey"]
             z == buf["cIv"]
  <2> HIDE DEF x, y, z
  <2>1. <<x>> \o <<y, z>> = <<x, y, z>>
    BY JoinedTwo
  <2>2. FinishedMac(RefTraffic(ServerView, "c"), Upto(ServerView, N)) = x
    BY <1>7, <1>9 DEF x
  <2>3. Sealing(ServerView) = <<y, z>>
    BY <1>11 DEF y, z
  <2> QED BY <2>1, <2>2, <2>3 DEF x, y, z
<1>13. Sent(c.label, c.from).kind = "finished"
  BY <1>4
<1>14. Sent(c.label, c.from).terms = <<buf["mac"], buf["cKey"], buf["cIv"]>>
  BY <1>4
<1> QED BY <1>10, <1>12, <1>13, <1>14 DEF OnWire

LEMMA SucceedsWire ==
    ASSUME DriverInv, ScheduleInv, StepSucceeds
    PROVE  WireOK'
<1> USE DEF ScheduleInv
<1>1. wire' = wire \/ \E e : OnWire(e) /\ wire' = Append(wire, e)
  <2>1. wire' = IF c.op = "send" THEN Append(wire, Sent(c.label, c.from)) ELSE wire
    BY DEF StepSucceeds
  <2>2. c.op = "send" => OnWire(Sent(c.label, c.from))
    BY HelloSent, FinishedSent
  <2> QED BY <2>1, <2>2
<1>2. Settled => Settled' /\ ClientView' = ClientView /\ ServerView' = ServerView
  BY SettledStays
<1>3. path' = path
  BY DEF StepSucceeds
<1> QED BY <1>1, <1>2, <1>3, WireGrows

(* The session is established by the last call but the wiping. *)
LEMMA SucceedsFlags ==
    ASSUME DriverInv, ScheduleInv, StepSucceeds
    PROVE  FlagsOK'
<1> USE DEF ScheduleInv
<1>0. /\ StageNow /\ Stepped /\ i' = i + 1 /\ c.op # "wipe" /\ ViewKept
      /\ (OK' <=> OK /\ Mismatch = "SUCCESS")
      /\ flags' = IF c.op = "establish" /\ OK THEN {"ESTABLISHED"} ELSE flags
  BY Succeeds DEF Stepped, StepSucceeds, OK
<1>1. PICK s \in Nat : s = SessionFrom /\ LastCall = s + 10 /\ i \in Nat /\ i + 1 <= s + 10
  BY <1>0, Places DEF StageNow
<1>2. i + 1 # s + 10
  <2>1. i + 1 = s + 10 => c.op = "wipe"
    BY <1>1, SessionAt DEF SessionTable, Is, c
  <2> QED BY <1>0, <2>1
<1>3. flags = {}
  <2>1. flags # {} => i >= s + 9
    BY <1>1 DEF FlagsOK
  <2> QED BY <1>1, <1>2, <2>1
<1>4. OK => ~(i >= s + 9)
  BY <1>1, <1>3 DEF FlagsOK
<1>5. c.op = "establish" <=> i + 1 = s + 9
  <2>1. i + 1 = s + 9 => c.op = "establish"
    BY <1>1, SessionAt DEF SessionTable, Is, c
  <2> QED BY <1>0, <1>1, <2>1 DEF StageNow, Sited
<1>6. CASE c.op = "establish" /\ OK
  <2>1. HeldNow
    BY <1>0, <1>6, Holding
  <2>2. Mismatch = "SUCCESS"
    BY <1>0, <1>6, <2>1, Checks
  <2>3. OK' /\ flags' = {"ESTABLISHED"} /\ i' >= s + 9 /\ SessionFrom' = s
    BY <1>0, <1>1, <1>5, <1>6, <2>2 DEF ViewKept
  <2> QED BY <2>3 DEF FlagsOK
<1>7. CASE ~(c.op = "establish" /\ OK)
  <2>1. flags' = {} /\ SessionFrom' = s
    BY <1>0, <1>1, <1>3, <1>7 DEF ViewKept
  <2>2. OK' => ~(i' >= s + 9)
    <3>1. OK' => OK /\ i + 1 # s + 9
      BY <1>0, <1>5, <1>7
    <3> QED BY <1>0, <1>1, <1>4, <3>1
  <2> QED BY <2>1, <2>2 DEF FlagsOK
<1> QED BY <1>6, <1>7

(* A code of the driver's own is the answer to a share that was changed. *)
LEMMA SharesTold ==
    ASSUME Exchange, share["server"].sent, ClientView # ServerView
    PROVE  share["client"] # Genuine \/ share["server"] # Genuine
<1>1. fn["server"] = "Done" /\ ret["server"] = "SUCCESS"
  BY DEF Exchange, MeetOK
<1>2. ss["server"] = ServerSecret
  BY <1>1 DEF Exchange, ServerHalves
<1> QED BY <1>2, ViewsAgree

LEMMA MismatchTold ==
    ASSUME DriverInv, ScheduleInv, StepSucceeds, OK, Mismatch # "SUCCESS", fails = 0
    PROVE  /\ fn'["server"] = "Done" /\ fn'["client"] \in {"Got", "Use", "Done"}
           /\ share'["client"] # Genuine \/ share'["server"] # Genuine
<1> USE DEF ScheduleInv
<1>0. StageNow /\ Stepped /\ HeldNow
  BY Succeeds, Holding
<1>1. PICK h \in Nat, f \in Nat, a \in Nat :
         h = HelloEnd /\ f = FlightFrom /\ a = FinishedAt /\ h >= 4 /\ f >= h + 5 /\ a >= h + 6
         /\ i \in Nat
  BY <1>0, Places DEF StageNow
<1>2. c.op \in {"finished", "verify", "receive", "params"}
  BY <1>0, Checks
<1>3. CASE c.op \in {"finished", "verify"}
  <2>1. i + 1 = a \/ i + 1 = f + 5
    BY <1>0, <1>1, <1>3 DEF StageNow, Sited
  <2>2. i >= h + 4 /\ i > h /\ i + 1 \notin {2, h, h + 1, h + 4}
    BY <1>1, <2>1
  <2>3. UNCHANGED <<fn, share>>
    BY <1>1, <2>2, SucceedsExchange
  <2>4. fn["client"] = "Use" /\ share["server"].sent
    BY <1>0, <1>1, <2>2 DEF StageNow, StagesOK
  <2>5. ClientView # ServerView
    BY <1>0, <1>3, Checks
  <2>6. share["client"] # Genuine \/ share["server"] # Genuine
    BY <2>4, <2>5, SharesTold
  <2> QED BY <2>3, <2>4, <2>6 DEF Exchange, MeetOK
<1>4. CASE c.op = "receive"
  <2>1. i + 1 = h + 1 /\ ~share["server"].sent
    BY <1>0, <1>1, <1>4 DEF StageNow, Sited, Mismatch
  <2>2. /\ fn'["client"] = "Got" /\ share' = share /\ fn'["server"] = "Done"
        /\ share["server"].sent \/ ret["server"] # "SUCCESS"
    <3>1. i + 1 \notin {2, h, h + 4} /\ i + 1 = h + 1
      BY <1>1, <2>1
    <3> QED BY <1>1, <3>1, SucceedsExchange
  <2>3. share["client"] # Genuine
    BY <2>1, <2>2 DEF FaultOK
  <2> QED BY <2>2, <2>3
<1>5. CASE c.op = "params"
  <2>1. i + 1 = h + 3 /\ share["server"].short
    BY <1>0, <1>1, <1>5 DEF StageNow, Sited, Mismatch
  <2>2. i \in h + 1 .. h + 3 /\ i + 1 \notin {2, h, h + 1, h + 4}
    BY <1>1, <2>1
  <2>3. UNCHANGED <<fn, share>> /\ fn["client"] = "Got"
    BY <1>0, <1>1, <2>2, SucceedsExchange DEF StageNow
  <2>4. share["server"] # Genuine
    BY <2>1 DEF Genuine, Unsent
  <2> QED BY <2>3, <2>4 DEF Exchange, MeetOK
<1> QED BY <1>2, <1>3, <1>4, <1>5

LEMMA SucceedsFault ==
    ASSUME DriverInv, ScheduleInv, StepSucceeds
    PROVE  FaultOK'
<1> USE DEF ScheduleInv
<1>0. /\ StageNow /\ Stepped /\ Guarded /\ fails' = fails /\ ret'["server"] = ret["server"]
      /\ (OK' <=> OK /\ Mismatch = "SUCCESS") /\ Exchange'
  BY Succeeds, SucceedsExchange DEF Stepped, StepSucceeds
<1>1. PICK h \in Nat : h = HelloEnd /\ h >= 4 /\ i \in Nat
  BY <1>0, Places DEF StageNow
<1>2. ASSUME ret["server"] # "SUCCESS", fails = 0
      PROVE  fn'["server"] # "Wait" /\ share'["client"] # Genuine
  <2>1. fn["server"] # "Wait" /\ share["client"] # Genuine
    BY <1>2 DEF FaultOK
  <2>2. i + 1 # h
    <3>1. i + 1 = h => fn["server"] = "Wait"
      <4>1. i + 1 = h => i + 1 \notin {2, h + 1, h + 4}
        BY <1>1
      <4> QED BY <1>1, <4>1, SucceedsExchange
    <3> QED BY <2>1, <3>1
  <2>3. share' = share
    BY <1>0, <1>1, <2>2 DEF Stepped
  <2>4. fn'["server"] # "Wait"
    BY <1>0, <2>1, <2>3 DEF Exchange, MeetOK
  <2> QED BY <2>1, <2>3, <2>4
<1>3. ASSUME ~OK, fails = 0
      PROVE  /\ fn'["server"] = "Done" /\ fn'["client"] \in {"Got", "Use", "Done"}
             /\ share'["client"] # Genuine \/ share'["server"] # Genuine
  <2>1. /\ fn["server"] = "Done" /\ fn["client"] \in {"Got", "Use", "Done"}
        /\ share["client"] # Genuine \/ share["server"] # Genuine
    BY <1>3 DEF FaultOK, OK
  <2>2. i + 1 # 2
    <3>1. i + 1 = 2 => i < 2
      BY <1>1
    <3> QED BY <1>0, <2>1, <3>1 DEF StageNow
  <2>3. i + 1 # h /\ i + 1 # h + 1 /\ i + 1 # h + 4
    <3>1. i + 1 = h + 1 => c.op = "receive"
      BY <1>1, ServerHelloAt DEF ServerHelloTable, Is, c
    <3>2. i + 1 = h + 4 => c.op = "keyshare"
      BY <1>1, ServerHelloAt DEF ServerHelloTable, Is, c
    <3> QED BY <1>0, <1>1, <1>3, <3>1, <3>2, Meetings
  <2>4. UNCHANGED <<fn, share>>
    BY <1>1, <2>2, <2>3, SucceedsExchange
  <2> QED BY <2>1, <2>4
<1>4. ASSUME ~OK', fails = 0
      PROVE  /\ fn'["server"] = "Done" /\ fn'["client"] \in {"Got", "Use", "Done"}
             /\ share'["client"] # Genuine \/ share'["server"] # Genuine
  BY <1>0, <1>3, <1>4, MismatchTold
<1>5. fails \in Nat /\ (fails > 0 => ~OK \/ ret["server"] # "SUCCESS") /\ (~(fails > 0) => fails = 0)
  BY DEF FaultOK, OK
<1>6. Genuine' = Genuine
  BY DEF Genuine, Unsent
<1>7. ret'["server"] # "SUCCESS" => fails' > 0 \/ (fn'["server"] # "Wait" /\ share'["client"] # Genuine')
  BY <1>0, <1>2, <1>5, <1>6
<1>8. fails' > 0 => ~OK' \/ ret'["server"] # "SUCCESS"
  BY <1>0, <1>5
<1>9. (~OK' /\ fails' = 0) => /\ fn'["server"] = "Done" /\ fn'["client"] \in {"Got", "Use", "Done"}
                              /\ (share'["client"] # Genuine' \/ share'["server"] # Genuine')
  BY <1>0, <1>4, <1>6
<1> QED BY <1>0, <1>5, <1>7, <1>8, <1>9 DEF FaultOK

LEMMA ScheduleSucceeds ==
    ASSUME DriverInv, ScheduleInv, StepSucceeds
    PROVE  ScheduleInv'
<1>1. Exchange' /\ StagesOK'
  BY SucceedsExchange, SucceedsStages DEF ScheduleInv
<1>2. /\ OnceOK' /\ FixedOK' /\ ThOK' /\ MacOK' /\ MidOK' /\ SeqsOK' /\ TcOK' /\ AgreeOK'
      /\ KeysOK' /\ WireOK' /\ FlagsOK' /\ FaultOK'
  BY SucceedsBuffers, SucceedsTc, SucceedsAgree, SucceedsReady, SucceedsWire, SucceedsFlags,
     SucceedsFault
<1> QED BY <1>1, <1>2 DEF ScheduleInv

(* No call but the wiping comes after the session is established. *)
LEMMA NotYet ==
    ASSUME StageNow, FlagsOK, c.op # "wipe"
    PROVE  flags = {}
<1>1. PICK s \in Nat : s = SessionFrom /\ LastCall = s + 10 /\ i \in Nat /\ i + 1 <= s + 10
  BY Places DEF StageNow
<1>2. i + 1 # s + 10
  <2>1. i + 1 = s + 10 => c.op = "wipe"
    BY <1>1, SessionAt DEF SessionTable, Is, c
  <2> QED BY <2>1
<1>3. flags # {} => i >= s + 9
  BY <1>1 DEF FlagsOK
<1> QED BY <1>1, <1>2, <1>3

(* A call that fails *)
LEMMA ScheduleFails ==
    ASSUME DriverInv, ScheduleInv, StepFails
    PROVE  ScheduleInv'
<1> USE DEF ScheduleInv
<1>0. /\ Guarded /\ c.op # "wipe" /\ fails' = fails + 1 /\ Returns("E_CRYPTO") /\ i' = i + 1
      /\ buf' \in {buf, IF c.out = "none" THEN buf ELSE [buf EXCEPT ![c.out] = Junk]}
      /\ UNCHANGED <<build, fn, k, ss, share, path, tc, pc, wire, flags, keysReady>>
  BY DEF StepFails
<1>1. StageNow
  BY <1>0, Standing
<1>2. ret'["server"] = ret["server"] /\ ~OK'
  <2>1. ret' = [ret EXCEPT !["client"] = Combine("E_CRYPTO")]
    BY <1>0 DEF Returns
  <2>2. ret'["server"] = ret["server"] /\ ret'["client"] = Combine("E_CRYPTO")
    BY <2>1 DEF DriverInv, KsInv, KsTypeOK, Sides
  <2> QED BY <2>2 DEF OK, Combine
<1>3. Stepped
  <2>1. pc' = "run"
    BY <1>0, <1>1 DEF StageNow
  <2> QED BY <1>0, <1>2, <2>1, SteppedFrom
<1>4. Exchange'
  BY <1>0, <1>2, ExchangeKept
<1>5. ASSUME NEW b \in Locals \cup Others \cup SessionFields, c.out # b PROVE buf'[b] = buf[b]
  <2>1. DOMAIN buf = Locals \cup Others \cup SessionFields
    BY DEF DriverInv, BufOK
  <2> QED BY <1>0, <1>5, <2>1
<1>6. FixedOK'
  <2>1. c.out # "nil" /\ c.out # "zeros" /\ c.out # "psk"
    BY <1>1 DEF StageNow, Sited
  <2>2. {"nil", "zeros", "psk"} \subseteq Locals \cup Others \cup SessionFields
    BY DEF Others
  <2> QED BY <1>5, <2>1, <2>2 DEF FixedOK
<1>7. SeqsOK'
  BY <1>0 DEF SeqsOK
<1>8. Settled => Settled' /\ ClientView' = ClientView /\ ServerView' = ServerView
  <2>1. ServerView' = ServerView
    BY <1>0, ViewsFrom
  <2> QED BY <1>0, <1>3, <2>1 DEF Settled, Stepped
<1>9. KeysOK'
  <2> SUFFICES ASSUME keysReady PROVE KeysOK'
    BY <1>0 DEF KeysOK
  <2>1. PICK f \in Nat, d \in Nat : f = FlightFrom /\ d = KeysFrom /\ d + 9 <= f
    BY Places
  <2>2. path # "psk" /\ i >= f /\ Settled /\ buf["cKey"] = Ref("cKey") /\ buf["cIv"] = Ref("cIv")
    BY <1>1, <2>1 DEF KeysOK, StageNow
  <2>3. i \in Nat
    BY <1>1 DEF StageNow
  <2>4. buf'["cKey"] = buf["cKey"] /\ buf'["cIv"] = buf["cIv"]
    <3>1. "cKey" \in Once /\ "cIv" \in Once /\ WrittenAt("cKey") = d + 5 /\ WrittenAt("cIv") = d + 6
      BY <2>1 DEF Once, WrittenAt
    <3>2. i + 1 # d + 5 /\ i + 1 # d + 6
      BY <2>1, <2>2, <2>3
    <3>3. c.out # "cKey" /\ c.out # "cIv"
      BY <1>1, <3>1, <3>2 DEF StageNow, Sited
    <3>4. {"cKey", "cIv"} \subseteq Locals \cup Others \cup SessionFields
      BY DEF Locals
    <3> QED BY <1>5, <3>3, <3>4
  <2>5. i' >= f
    BY <1>0, <2>1, <2>2, <2>3
  <2> QED BY <1>0, <1>3, <1>8, <2>1, <2>2, <2>4, <2>5 DEF KeysOK, Stepped, ViewKept, RefsKept
<1>10. WireOK'
  BY <1>0, <1>8, WireGrows
<1>11. FlagsOK'
  <2>1. flags' = {}
    BY <1>0, <1>1, NotYet
  <2> QED BY <1>2, <2>1 DEF FlagsOK
<1>12. FaultOK'
  <2>1. fails' \in Nat /\ fails' > 0 /\ fails' # 0
    BY <1>0 DEF FaultOK
  <2> QED BY <1>2, <2>1 DEF FaultOK
<1>13. /\ StagesOK' /\ OnceOK' /\ ThOK' /\ MacOK' /\ MidOK' /\ TcOK' /\ AgreeOK'
  BY <1>2 DEF StagesOK, OnceOK, ThOK, MacOK, MidOK, TcOK, AgreeOK
<1> QED BY <1>4, <1>6, <1>7, <1>9, <1>10, <1>11, <1>12, <1>13

(* The intermediate secrets are wiped. *)
LEMMA WipesThese ==
    ASSUME DriverInv, WipeCall, StagesOK
    PROVE  /\ StageNow
           /\ \/ i + 1 = KeysFrom + 9 /\ Is(c, "wipe", "none", <<"derived">>, "none")
              \/ i + 1 = SessionFrom + 10 /\ Is(c, "wipe", "none", <<"derived", "master">>, "none")
           /\ \A b \in (Locals \cup Others \cup SessionFields) \ {"derived", "master"} :
                 buf'[b] = buf[b]
<1>0. Guarded /\ c.op = "wipe" /\ buf' = ForceZero({c.from[n] : n \in DOMAIN c.from})
  BY DEF WipeCall
<1>1. StageNow
  BY <1>0, Standing
<1>2. i + 1 = KeysFrom + 9 => Is(c, "wipe", "none", <<"derived">>, "none")
  BY ServerHelloAt DEF KeysTable, c
<1>3. i + 1 = SessionFrom + 10 => Is(c, "wipe", "none", <<"derived", "master">>, "none")
  BY SessionAt DEF SessionTable, c
<1>4. i + 1 = KeysFrom + 9 \/ i + 1 = SessionFrom + 10
  BY <1>0, <1>1 DEF StageNow, Sited
<1>5. c.from \in {<<"derived">>, <<"derived", "master">>}
  BY <1>2, <1>3, <1>4 DEF Is
<1>6. {c.from[n] : n \in DOMAIN c.from} \subseteq {"derived", "master"}
  <2>1. CASE c.from = <<"derived">>
    BY <2>1
  <2>2. CASE c.from = <<"derived", "master">>
    BY <2>2
  <2> QED BY <1>5, <2>1, <2>2
<1>7. DOMAIN buf = Locals \cup Others \cup SessionFields
  BY DEF DriverInv, BufOK
<1> DEFINE S == {c.from[n] : n \in DOMAIN c.from}
<1>8. S \subseteq {"derived", "master"} /\ buf' = ForceZero(S)
  BY <1>0, <1>6
<1> HIDE DEF S
<1>9. \A b \in (Locals \cup Others \cup SessionFields) \ {"derived", "master"} : buf'[b] = buf[b]
  BY <1>7, <1>8 DEF ForceZero
<1> QED BY <1>1, <1>2, <1>3, <1>4, <1>9

LEMMA ScheduleWipes ==
    ASSUME DriverInv, ScheduleInv, WipeCall
    PROVE  ScheduleInv'
<1> USE DEF ScheduleInv
<1>0. /\ i' = i + 1 /\ UNCHANGED <<ksVars, path, tc, pc, wire, flags, keysReady>>
      /\ UNCHANGED <<build, fn, k, ret, ss, share, fails>>
  BY DEF WipeCall, ksVars
<1>1. /\ StageNow /\ i \in Nat
      /\ \A b \in (Locals \cup Others \cup SessionFields) \ {"derived", "master"} : buf'[b] = buf[b]
  BY WipesThese DEF StageNow
<1>2. PICK h \in Nat, d \in Nat, f \in Nat, g \in Nat, s \in Nat, n \in Nat, m \in Nat, a \in Nat :
         /\ h = HelloEnd /\ d = KeysFrom /\ f = FlightFrom /\ g = FinFrom /\ s = SessionFrom
         /\ n = LastCall /\ m = MacAt /\ a = FinishedAt /\ i + 1 \in {d + 9, s + 10}
         /\ \/ path = "psk" /\ h = 8 /\ d = 13 /\ f = 22 /\ g = 27 /\ s = 30 /\ n = 40 /\ m = 25 /\ a = 26
            \/ path # "psk" /\ h = 4 /\ d = 10 /\ f = 20 /\ g = 29 /\ s = 32 /\ n = 42 /\ m = 28 /\ a = 29
  <2>1. i + 1 \in {KeysFrom + 9, SessionFrom + 10}
    BY WipesThese
  <2> QED BY <2>1, Places
<1>3. Stepped /\ (OK' <=> OK) /\ pc = "run" /\ pc' = "run"
  <2>1. pc = "run" /\ pc' = "run" /\ (OK' <=> OK)
    BY <1>0, <1>1 DEF StageNow, OK
  <2> QED BY <1>0, <2>1, SteppedFrom
<1>4. ViewKept /\ RefsKept /\ ClientView' = ClientView /\ ServerView' = ServerView
  <2>1. ServerView' = ServerView
    BY <1>0, ViewsFrom
  <2> QED BY <1>3, <2>1 DEF Stepped
<1>5. Exchange'
  BY <1>0, ExchangeKept
<1>6. OK => fn["client"] = "Use" /\ share["server"].sent /\ i >= h + 4
  <2>1. i >= h + 4 /\ i > h
    BY <1>1, <1>2
  <2> QED BY <1>1, <1>2, <2>1 DEF StageNow, StagesOK
<1>7. StagesOK'
  <2>1. i + 1 \notin 2 .. h - 1 /\ i + 1 # h /\ i + 1 \notin h + 1 .. h + 3 /\ i + 1 # h + 4
    BY <1>1, <1>2
  <2> QED BY <1>0, <1>2, <1>3, <1>4, <1>6, <2>1 DEF StagesOK, ViewKept
<1>8. OnceOK'
  <2> SUFFICES ASSUME OK', NEW b \in Once, i + 1 >= WrittenAt(b) PROVE buf'[b] = Ref(b)
    BY <1>0, <1>4 DEF OnceOK, RefsKept, ViewKept
  <2>1. WrittenAt(b) \in Nat /\ i + 1 # WrittenAt(b)
    <3>1. WrittenAt(b) \in {1, 3, 10, 4, 6, d + 2, d + 3, d + 4, d + 5, d + 6, f + 3, s + 3, s + 4,
                            s + 5, s + 6, s + 7, s + 8}
      BY <1>2 DEF Once, WrittenAt, SessionFields
    <3> QED BY <1>1, <1>2, <3>1
  <2>2. i >= WrittenAt(b)
    BY <1>1, <2>1
  <2>3. buf[b] = Ref(b)
    BY <1>3, <2>2 DEF OnceOK
  <2>4. b \in (Locals \cup Others \cup SessionFields) \ {"derived", "master"}
    BY DEF Once, Locals, Others, SessionFields
  <2> QED BY <1>1, <2>3, <2>4
<1>9. FixedOK'
  <2>1. {"nil", "zeros", "psk"} \subseteq (Locals \cup Others \cup SessionFields) \ {"derived", "master"}
    BY DEF Others
  <2> QED BY <1>1, <2>1 DEF FixedOK
<1>10. buf'["th"] = buf["th"] /\ buf'["mac"] = buf["mac"]
  <2>1. {"th", "mac"} \subseteq (Locals \cup Others \cup SessionFields) \ {"derived", "master"}
    BY DEF Others, Locals
  <2> QED BY <1>1, <2>1
<1>11. ThOK'
  <2> SUFFICES ASSUME OK
               PROVE  /\ (path = "psk" /\ i + 1 \in 5 .. 6) => buf'["th"] = Hash(<<Truncated>>)
                      /\ i + 1 \in h + 5 .. f => buf'["th"] = Upto(ClientView, 2)
                      /\ i + 1 \in g - 3 .. g => buf'["th"] = Upto(ClientView, N - 1)
                      /\ i + 1 \in g + 1 .. n => buf'["th"] = Upto(ClientView, N)
    BY <1>0, <1>2, <1>3, <1>4 DEF ThOK, RefsKept, ViewKept
  <2>1. /\ i \in h + 5 .. f => buf["th"] = Upto(ClientView, 2)
        /\ i \in g - 3 .. g => buf["th"] = Upto(ClientView, N - 1)
        /\ i \in g + 1 .. n => buf["th"] = Upto(ClientView, N)
    BY <1>2, <1>3 DEF ThOK
  <2>2. /\ i + 1 \notin 5 .. 6
        /\ i + 1 \in h + 5 .. f => i \in h + 5 .. f
        /\ i + 1 \in g - 3 .. g => i \in g - 3 .. g
        /\ i + 1 \in g + 1 .. n => i \in g + 1 .. n
    BY <1>1, <1>2
  <2> QED BY <1>10, <2>1, <2>2
<1>12. MacOK'
  <2> DEFINE u == FinishedMac(RefTraffic(ClientView, "s"), Upto(ClientView, N - 1))
             v == FinishedMac(RefTraffic(ClientView, "c"), Upto(ClientView, N))
  <2> SUFFICES ASSUME OK
               PROVE  /\ i + 1 \in m .. g + 1 => buf'["mac"] = u
                      /\ i + 1 \in g + 2 .. n => buf'["mac"] = v
    <3>1. u' = u /\ v' = v
      BY <1>4 DEF RefsKept, ViewKept
    <3> QED BY <1>0, <1>2, <1>3, <1>4, <3>1 DEF MacOK, ViewKept
  <2>1. /\ i \in m .. g + 1 => buf["mac"] = u
        /\ i \in g + 2 .. n => buf["mac"] = v
    BY <1>2, <1>3 DEF MacOK
  <2> HIDE DEF u, v
  <2>2. /\ i + 1 \in m .. g + 1 => i \in m .. g + 1
        /\ i + 1 \in g + 2 .. n => i \in g + 2 .. n
    BY <1>1, <1>2
  <2> QED BY <1>10, <2>1, <2>2
<1>13. MidOK'
  <2>1. i + 1 \notin d + 1 .. d + 8 /\ i + 1 \notin s + 1 .. s + 9 /\ i + 1 \notin s + 2 .. s + 9
    BY <1>1, <1>2
  <2> QED BY <1>0, <1>2, <1>4, <2>1 DEF MidOK, ViewKept
<1>14. SeqsOK'
  BY <1>0 DEF SeqsOK
<1>15. TcOK'
  <2> SUFFICES ASSUME OK PROVE TcOK'
    BY <1>3 DEF TcOK
  <2>1. /\ Len(tc) <= N /\ \A j \in 1 .. N : j <= Len(tc) <=> UpdateAt[j] <= i
        /\ \A j \in 1 .. Len(tc) : tc[j] = RefMsgs(ClientView)[j]
    BY DEF TcOK
  <2>2. \A j \in 1 .. N : UpdateAt[j] <= i <=> UpdateAt[j] <= i + 1
    <3> SUFFICES ASSUME NEW j \in 1 .. N PROVE UpdateAt[j] <= i <=> UpdateAt[j] <= i + 1
      OBVIOUS
    <3>1. UpdateAt[j] \in Nat
      BY UpdatesInOrder
    <3>2. UpdateAt[j] # i + 1
      <4>1. CASE path = "psk"
        <5>1. N = 4 /\ UpdateAt = <<7, 10, 23, 27>> /\ i + 1 \in {22, 40}
          BY <1>2, <4>1, Places
        <5>2. UpdateAt[j] \in {7, 10, 23, 27}
          BY <5>1
        <5> QED BY <5>1, <5>2
      <4>2. CASE path # "psk"
        <5>1. N = 6 /\ UpdateAt = <<3, 6, 21, 22, 24, 27>> /\ i + 1 \in {19, 42}
          BY <1>2, <4>2, Places
        <5>2. UpdateAt[j] \in {3, 6, 21, 22, 24, 27}
          BY <5>1
        <5> QED BY <5>1, <5>2
      <4> QED BY <4>1, <4>2
    <3> QED BY <1>1, <3>1, <3>2
  <2> QED BY <1>0, <1>4, <2>1, <2>2 DEF TcOK, ViewKept, RefsKept
<1>16. AgreeOK'
  <2>1. i + 1 >= a => i >= a
    BY <1>1, <1>2
  <2> QED BY <1>0, <1>2, <1>3, <1>4, <2>1 DEF AgreeOK, ViewKept
<1>17. Settled => Settled'
  BY <1>0 DEF Settled
<1>18. KeysOK'
  <2> SUFFICES ASSUME keysReady PROVE KeysOK'
    BY <1>0 DEF KeysOK
  <2>1. path # "psk" /\ i >= f /\ Settled /\ buf["cKey"] = Ref("cKey") /\ buf["cIv"] = Ref("cIv")
    BY <1>2, <1>3 DEF KeysOK
  <2>2. i + 1 >= f
    BY <1>1, <1>2, <2>1
  <2>3. {"cKey", "cIv"} \subseteq (Locals \cup Others \cup SessionFields) \ {"derived", "master"}
    BY DEF Locals
  <2> QED BY <1>0, <1>1, <1>2, <1>4, <1>17, <2>1, <2>2, <2>3 DEF KeysOK, ViewKept, RefsKept
<1>19. WireOK'
  BY <1>0, <1>4, <1>17, WireGrows
<1>20. FlagsOK'
  <2>1. i + 1 >= s + 9 <=> i >= s + 9
    BY <1>1, <1>2
  <2> QED BY <1>0, <1>2, <1>3, <1>4, <2>1 DEF FlagsOK, ViewKept
<1>21. FaultOK'
  <2>1. Genuine' = Genuine
    BY DEF Genuine, Unsent
  <2> QED BY <1>0, <1>3, <2>1 DEF FaultOK
<1> QED BY <1>5, <1>7, <1>8, <1>9, <1>11, <1>12, <1>13, <1>14, <1>15, <1>16, <1>18, <1>19, <1>20, <1>21

(* The driver's way out *)
LEMMA ScheduleEnds ==
    ASSUME DriverInv, ScheduleInv, Ends
    PROVE  ScheduleInv'
<1> USE DEF ScheduleInv
<1>0. /\ Idle /\ ~Guarded /\ pc' = "done" /\ buf' = ForceZero(Locals)
      /\ wire' = IF ret["client"] # "SUCCESS" /\ keysReady
                 THEN Append(wire, Sent("alert", <<"cKey", "cIv">>)) ELSE wire
      /\ ss' = [ss EXCEPT !["client"] = NoSecret] /\ fn' = [fn EXCEPT !["client"] = "Done"]
      /\ UNCHANGED <<build, k, ret, share, fails, path, i, tc, flags, keysReady>>
  BY DEF Ends
<1>1. /\ fn'["client"] = "Done" /\ fn'["server"] = fn["server"]
      /\ ss'["client"] = NoSecret /\ ss'["server"] = ss["server"] /\ pc = "run"
      /\ (OK' <=> OK) /\ i \in Nat
  <2>1. KsTypeOK /\ i \in 0 .. Len(Program) /\ Len(Program) \in Nat
    BY ProgramFacts DEF DriverInv, KsInv, StageOK
  <2> QED BY <1>0, <2>1 DEF KsTypeOK, Sides, Idle, OK
<1>2. OK => i = LastCall
  <2> SUFFICES ASSUME OK PROVE i = LastCall
    OBVIOUS
  <2>1. ~(i < Len(Program))
    BY <1>0 DEF Guarded, OK
  <2>2. i \in 0 .. Len(Program) /\ Len(Program) = LastCall /\ LastCall \in Nat
    BY ProgramPieces, Places DEF DriverInv, StageOK
  <2> QED BY <2>1, <2>2
<1>3. /\ ViewKept /\ RefsKept /\ ClientView' = ClientView /\ ServerView' = ServerView
      /\ ServerSecret' = ServerSecret /\ KemSecret("server")' = KemSecret("server")
      /\ XSecret("server")' = XSecret("server") /\ Hybrid' = Hybrid
  BY <1>0, <1>1, ViewsFrom, ServerSecretFrom, SamePlaces, SameView DEF Hybrid
<1>4. PICK h \in Nat, n \in Nat, a \in Nat :
         h = HelloEnd /\ n = LastCall /\ a = FinishedAt /\ h >= 4 /\ n > h + 4
  BY Places
<1>5. Exchange'
  <2>1. MeetOK'
    BY <1>0, <1>1, SecretIs DEF Exchange, MeetOK
  <2>2. ServerHalves'
    BY <1>0, <1>1, <1>3 DEF Exchange, ServerHalves
  <2>3. ClientHalves'
    BY <1>1 DEF ClientHalves
  <2> QED BY <2>1, <2>2, <2>3 DEF Exchange
<1>6. StagesOK'
  <2> SUFFICES ASSUME OK PROVE StagesOK'
    BY <1>1 DEF StagesOK
  <2>1. i = n /\ i > h /\ i \notin 2 .. h - 1 /\ i # h /\ i \notin h + 1 .. h + 3 /\ i # h + 4
    BY <1>2, <1>4
  <2> QED BY <1>0, <1>1, <1>3, <1>4, <2>1 DEF StagesOK, ViewKept
<1>7. \A b \in (Others \cup SessionFields) : buf'[b] = buf[b]
  <2>1. DOMAIN buf = Locals \cup Others \cup SessionFields
    BY DEF DriverInv, BufOK
  <2>2. \A b \in (Others \cup SessionFields) : b \notin Locals
    BY DEF Others, SessionFields, Locals
  <2> QED BY <1>0, <2>1, <2>2 DEF ForceZero
<1>8. OnceOK'
  <2> SUFFICES ASSUME OK, NEW b \in Once, i >= WrittenAt(b), b \in SessionFields
               PROVE  buf'[b] = Ref(b)
    BY <1>0, <1>1, <1>3 DEF OnceOK, ViewKept, RefsKept, SessionFields
  <2>1. buf[b] = Ref(b)
    BY <1>1 DEF OnceOK
  <2> QED BY <1>7, <2>1
<1>9. FixedOK'
  BY <1>7 DEF FixedOK, Others
<1>10. ThOK' /\ MacOK' /\ MidOK'
  BY <1>0 DEF ThOK, MacOK, MidOK
<1>11. SeqsOK'
  <2>1. PICK m \in Nat : m = Len(wire)
    <3>1. PICK S : wire \in Seq(S)
      BY DEF SeqsOK, IsSeq
    <3> QED BY <3>1
  <2>2. \A e : IsSeq(Append(wire, e))
    BY <2>1, SeqGrows DEF SeqsOK
  <2> QED BY <1>0, <2>2 DEF SeqsOK
<1>12. TcOK'
  BY <1>0, <1>1, <1>3 DEF TcOK, ViewKept, RefsKept
<1>13. AgreeOK'
  BY <1>0, <1>1, <1>3 DEF AgreeOK, ViewKept
<1>14. Settled => Settled'
  BY <1>1 DEF Settled
<1>15. KeysOK'
  <2> SUFFICES ASSUME keysReady PROVE KeysOK'
    BY <1>0 DEF KeysOK
  <2>1. path # "psk" /\ i >= FlightFrom /\ Settled
    BY DEF KeysOK
  <2> QED BY <1>0, <1>3, <1>14, <2>1 DEF KeysOK, ViewKept
<1>16. WireOK'
  <2>1. keysReady => OnWire(Sent("alert", <<"cKey", "cIv">>))
    <3> SUFFICES ASSUME keysReady PROVE OnWire(Sent("alert", <<"cKey", "cIv">>))
      OBVIOUS
    <3>1. /\ Settled /\ buf["cKey"] = RefKey(RefTraffic(ClientView, "c"))
          /\ buf["cIv"] = RefIv(RefTraffic(ClientView, "c"))
      BY <1>1 DEF KeysOK, Ref
    <3>2. Sent("alert", <<"cKey", "cIv">>) = [kind |-> "alert", terms |-> <<buf["cKey"], buf["cIv"]>>]
      BY SentTerms, Zenon
    <3> QED BY <3>1, <3>2 DEF OnWire, Sealing
  <2>2. wire' = wire \/ \E e : OnWire(e) /\ wire' = Append(wire, e)
    BY <1>0, <2>1
  <2> QED BY <1>0, <1>3, <1>14, <2>2, WireGrows
<1>17. FlagsOK'
  BY <1>0, <1>1, <1>3 DEF FlagsOK, ViewKept
<1>18. FaultOK'
  <2>1. Genuine' = Genuine
    BY DEF Genuine, Unsent
  <2> QED BY <1>0, <1>1, <2>1 DEF FaultOK
<1> QED BY <1>5, <1>6, <1>8, <1>9, <1>10, <1>11, <1>12, <1>13, <1>15, <1>16, <1>17, <1>18

LEMMA ScheduleStutters ==
    ASSUME ScheduleInv, UNCHANGED vars
    PROVE  ScheduleInv'
<1> USE DEF ScheduleInv
<1>0. /\ UNCHANGED <<build, fn, k, ret, ss, share, fails>>
      /\ UNCHANGED <<path, i, buf, tc, pc, wire, flags, keysReady>>
  BY DEF vars, ksVars, driverVars
<1>1. /\ ViewKept /\ RefsKept /\ ClientView' = ClientView /\ ServerView' = ServerView
      /\ (OK' <=> OK) /\ (Settled => Settled')
  BY <1>0, ViewsFrom, SamePlaces, SameView DEF OK, Settled
<1>2. Exchange' /\ StagesOK'
  <2>1. Exchange'
    BY <1>0, ExchangeKept
  <2> QED BY <1>0, <1>1, <2>1 DEF StagesOK, ViewKept
<1>3. OnceOK' /\ FixedOK'
  BY <1>0, <1>1 DEF OnceOK, FixedOK, RefsKept, ViewKept, SessionFields
<1>4. ThOK'
  BY <1>0, <1>1 DEF ThOK, RefsKept, ViewKept
<1>5. MacOK'
  <2>1. /\ RefTraffic(ClientView, "s")' = RefTraffic(ClientView, "s")
        /\ RefTraffic(ClientView, "c")' = RefTraffic(ClientView, "c")
        /\ Upto(ClientView, N)' = Upto(ClientView, N)
        /\ Upto(ClientView, N - 1)' = Upto(ClientView, N - 1)
    BY <1>1 DEF RefsKept, ViewKept
  <2> QED BY <1>0, <1>1, <2>1 DEF MacOK, ViewKept
<1>6. MidOK'
  <2>1. RefEarly' = RefEarly /\ EmptyHash' = EmptyHash
    BY <1>0, SameReference DEF EmptyHash, Public
  <2> QED BY <1>0, <1>1, <2>1 DEF MidOK, RefsKept, ViewKept
<1>7. SeqsOK' /\ TcOK'
  BY <1>0, <1>1 DEF SeqsOK, TcOK, RefsKept, ViewKept
<1>8. AgreeOK' /\ KeysOK'
  BY <1>0, <1>1 DEF AgreeOK, KeysOK, RefsKept, ViewKept
<1>9. WireOK'
  BY <1>0, <1>1, WireGrows
<1>10. FlagsOK' /\ FaultOK'
  <2>1. Genuine' = Genuine
    BY DEF Genuine, Unsent
  <2> QED BY <1>0, <1>1, <2>1 DEF FlagsOK, FaultOK, ViewKept
<1> QED BY <1>2, <1>3, <1>4, <1>5, <1>6, <1>7, <1>8, <1>9, <1>10

LEMMA ScheduleInit == Init => ScheduleInv
<1> SUFFICES ASSUME Init PROVE ScheduleInv
  OBVIOUS
<1>0. /\ fn = [client |-> "Start", server |-> "Wait"] /\ k = [client |-> 0, server |-> 0]
      /\ ret = [client |-> "SUCCESS", server |-> "SUCCESS"]
      /\ ss = [client |-> NoSecret, server |-> NoSecret]
      /\ share = [client |-> Unsent, server |-> Unsent] /\ fails = 0
      /\ i = 0 /\ tc = <<>> /\ pc = "run" /\ wire = <<>> /\ flags = {} /\ keysReady = FALSE
      /\ buf = [b \in Locals \cup Others \cup SessionFields |->
                  CASE b = "psk" -> Psk [] b = "nil" -> Nil
                    [] b \in SessionFields \cup {"zeros"} -> Zeros
                    [] OTHER -> Junk]
  BY DEF Init, KsInit
<1>1. Exchange
  <2>1. MeetOK
    BY <1>0, SecretIs, GenuineIs DEF MeetOK
  <2>2. ServerHalves /\ ClientHalves
    BY <1>0 DEF ServerHalves, ClientHalves
  <2> QED BY <2>1, <2>2 DEF Exchange
<1>2. PICK h \in Nat, d \in Nat, f \in Nat, g \in Nat, s \in Nat, n \in Nat, m \in Nat, a \in Nat :
         /\ h = HelloEnd /\ d = KeysFrom /\ f = FlightFrom /\ g = FinFrom /\ s = SessionFrom
         /\ n = LastCall /\ m = MacAt /\ a = FinishedAt
         /\ h >= 4 /\ d >= 5 /\ f >= 5 /\ g >= 5 /\ s >= 5 /\ n >= 5 /\ m >= 5 /\ a >= 5
  <2>1. CASE path = "psk"
    BY <2>1, Places
  <2>2. CASE path # "psk"
    <3>1. /\ HelloEnd = 4 /\ KeysFrom = 10 /\ FlightFrom = 20 /\ FinFrom = 29
          /\ SessionFrom = 32 /\ LastCall = 42 /\ MacAt = 28 /\ FinishedAt = 29
      BY <2>2, Places
    <3> QED BY <3>1
  <2> QED BY <2>1, <2>2
<1>3. StagesOK
  <2>1. /\ i \notin 2 .. h - 1 /\ i # h /\ i \notin h + 1 .. h + 3 /\ ~(i > h) /\ i # h + 4
        /\ ~(i > h + 4)
    BY <1>0, <1>2
  <2> QED BY <1>0, <1>2, <2>1 DEF StagesOK
<1>4. OnceOK
  <2>1. ASSUME NEW b \in Once PROVE ~(i >= WrittenAt(b))
    <3>1. WrittenAt(b) \in {1, 3, 10, 4, 6, d + 2, d + 3, d + 4, d + 5, d + 6, f + 3, s + 3, s + 4,
                            s + 5, s + 6, s + 7, s + 8}
      BY <1>2 DEF Once, WrittenAt, SessionFields
    <3>2. WrittenAt(b) \in Nat /\ WrittenAt(b) > 0
      BY <1>2, <3>1
    <3> QED BY <1>0, <3>2
  <2> QED BY <2>1 DEF OnceOK
<1>5. FixedOK
  <2>1. {"nil", "zeros", "psk"} \subseteq Locals \cup Others \cup SessionFields
    BY DEF Others
  <2>2. "nil" \notin SessionFields /\ "psk" \notin SessionFields
    BY DEF SessionFields
  <2> QED BY <1>0, <2>1, <2>2 DEF FixedOK
<1>6. ThOK /\ MacOK /\ MidOK
  <2>1. \A x, y \in Int : i \in x .. y => x <= 0
    BY <1>0
  <2>2. ThOK
    <3>1. ~(5 <= 0) /\ ~(h + 5 <= 0) /\ ~(g - 3 <= 0) /\ ~(g + 1 <= 0)
      BY <1>2
    <3>2. i \notin 5 .. 6 /\ i \notin h + 5 .. f /\ i \notin g - 3 .. g /\ i \notin g + 1 .. n
      BY <2>1, <3>1
    <3> QED BY <1>2, <3>2 DEF ThOK
  <2>3. MacOK
    <3>1. ~(m <= 0) /\ ~(g + 2 <= 0)
      BY <1>2
    <3>2. i \notin m .. g + 1 /\ i \notin g + 2 .. n
      BY <2>1, <3>1
    <3> QED BY <1>2, <3>2 DEF MacOK
  <2>4. MidOK
    <3>1. ~(d + 1 <= 0) /\ ~(s + 1 <= 0) /\ ~(s + 2 <= 0)
      BY <1>2
    <3>2. i \notin d + 1 .. d + 8 /\ i \notin s + 1 .. s + 9 /\ i \notin s + 2 .. s + 9
      BY <2>1, <3>1
    <3> QED BY <1>2, <3>2 DEF MidOK
  <2> QED BY <2>2, <2>3, <2>4
<1>7. SeqsOK
  <2>1. <<>> \in Seq({})
    OBVIOUS
  <2> QED BY <1>0, <2>1 DEF SeqsOK, IsSeq
<1>8. TcOK
  <2>1. Len(tc) = 0
    BY <1>0
  <2>2. \A j \in 1 .. N : ~(UpdateAt[j] <= i)
    <3>1. CASE path = "psk"
      <4>1. N = 4 /\ UpdateAt = <<7, 10, 23, 27>>
        BY <3>1, Places
      <4> QED BY <1>0, <4>1, SMTT(30)
    <3>2. CASE path # "psk"
      <4>1. N = 6 /\ UpdateAt = <<3, 6, 21, 22, 24, 27>>
        BY <3>2, Places
      <4> QED BY SMTT(30), <1>0, <4>1
    <3> QED BY <3>1, <3>2
  <2> QED BY <2>1, <2>2, PathLength DEF TcOK
<1>9. AgreeOK /\ KeysOK /\ WireOK
  <2>1. ~(i >= a) /\ DOMAIN wire = {}
    BY <1>0, <1>2
  <2> QED BY <1>0, <1>2, <2>1 DEF AgreeOK, KeysOK, WireOK
<1>10. FlagsOK /\ FaultOK
  <2>1. ~(i >= s + 9)
    BY <1>0, <1>2
  <2> QED BY <1>0, <1>2, <2>1 DEF FlagsOK, FaultOK, OK
<1> QED BY <1>1, <1>3, <1>4, <1>5, <1>6, <1>7, <1>8, <1>9, <1>10 DEF ScheduleInv

-----------------------------------------------------------------------------
(* Whatever calls fail and whatever shares are changed, the calls of a driver
   have left what ScheduleInv says they leave. *)
THEOREM ScheduleInvariant == Spec => [](DriverInv /\ ScheduleInv)
<1>1. ASSUME DriverInv, ScheduleInv, [Next]_vars PROVE ScheduleInv'
  <2>1. CASE Next
    BY <1>1, <2>1, ScheduleSucceeds, ScheduleFails, ScheduleWipes, ScheduleEnds, ScheduleByKeys
       DEF Next, Driver
  <2>2. CASE UNCHANGED vars
    BY <1>1, <2>2, ScheduleStutters
  <2> QED BY <1>1, <2>1, <2>2
<1> QED BY <1>1, ScheduleInit, KeysInvariant, PTL DEF Spec

(* Whatever fails, a binder, a Finished and the keys that seal Finished and
   alerts are what RFC 8446 has (wn_connect.c's blocks are guarded by ret). *)
THEOREM WireConforms == Spec => []WireIsRfc8446
<1>1. ScheduleInv => WireIsRfc8446
  <2> SUFFICES ASSUME WireOK PROVE WireIsRfc8446
    BY DEF ScheduleInv
  <2>1. \A n \in DOMAIN wire : OnWire(wire[n])
    BY DEF WireOK
  <2>2. ASSUME NEW e, OnWire(e)
        PROVE  e.terms =
                 CASE e.kind = "finished" ->
                         <<FinishedMac(RefTraffic(ServerView, "c"), Upto(ServerView, N))>>
                           \o Sealing(ServerView)
                   [] e.kind = "alert" -> Sealing(ClientView)
                   [] OTHER -> IF path = "psk" THEN <<RefBinder>> ELSE <<>>
    BY <2>2 DEF OnWire
  <2> QED BY <2>1, <2>2 DEF WireIsRfc8446, Sealing
<1> QED BY <1>1, ScheduleInvariant, PTL

(* A session is established exactly if the driver succeeds, and exactly if no
   call has failed and both shares have arrived as they were sent; it then has
   the server's application secrets, keys and ivs (wn_connect.c's
   wn_SessionEstablish behind the verified Finished). *)
THEOREM SessionConforms == Spec => []SessionIsRfc8446
<1>1. ASSUME DriverInv, ScheduleInv PROVE SessionIsRfc8446
  <2> SUFFICES ASSUME pc = "done" PROVE SessionIsRfc8446
    BY DEF SessionIsRfc8446
  <2> DEFINE undisturbed == fails = 0 /\ share["client"] = Genuine /\ share["server"] = Genuine
  <2>0. PICK s \in Nat, h \in Nat, n \in Nat, a \in Nat :
           /\ s = SessionFrom /\ h = HelloEnd /\ n = LastCall /\ a = FinishedAt
           /\ n = s + 10 /\ s > h /\ n > a
    BY Places
  <2>1. OK => i = n
    BY <1>1, <2>0 DEF ScheduleInv, StagesOK
  <2>2. (flags # {}) = OK
    <3>1. flags # {} => OK
      BY <1>1 DEF ScheduleInv, FlagsOK
    <3>2. OK => flags # {}
      <4>1. n >= s + 9
        BY <2>0
      <4> QED BY <1>1, <2>0, <2>1, <4>1 DEF ScheduleInv, FlagsOK
    <3>3. (flags # {}) <=> OK
      BY <3>1, <3>2
    <3> QED BY <3>3 DEF OK
  <2>3. OK => ClientView = ServerView /\ undisturbed
    <3> SUFFICES ASSUME OK PROVE ClientView = ServerView /\ undisturbed
      OBVIOUS
    <3>1. i >= a /\ i > h
      BY <2>0, <2>1
    <3>2. ClientView = ServerView /\ share["server"].sent
      BY <1>1, <2>0, <3>1 DEF ScheduleInv, AgreeOK, StagesOK
    <3>3. fn["server"] = "Done" /\ ret["server"] = "SUCCESS"
      BY <1>1, <3>2 DEF ScheduleInv, Exchange, MeetOK
    <3>4. share["client"] = Genuine /\ share["server"] = Genuine
      BY <1>1, <3>2, <3>3, ViewsAgree DEF ScheduleInv, Exchange, ServerHalves
    <3>5. fails = 0
      BY <1>1, <3>3 DEF ScheduleInv, FaultOK
    <3> QED BY <3>2, <3>4, <3>5
  <2>4. undisturbed => OK
    BY <1>1 DEF ScheduleInv, FaultOK
  <2>5. OK => /\ buf["cAppSecret"] = RefApp(ServerView, "c")
              /\ buf["sAppSecret"] = RefApp(ServerView, "s")
              /\ buf["sess.cKey"] = RefKey(RefApp(ServerView, "c"))
              /\ buf["sess.sKey"] = RefKey(RefApp(ServerView, "s"))
              /\ buf["sess.cIv"] = RefIv(RefApp(ServerView, "c"))
              /\ buf["sess.sIv"] = RefIv(RefApp(ServerView, "s"))
    <3> SUFFICES ASSUME OK PROVE \A b \in SessionFields : buf[b] = Ref(b)
      BY <2>3 DEF Ref, SessionFields
    <3> SUFFICES ASSUME NEW b \in SessionFields PROVE buf[b] = Ref(b)
      OBVIOUS
    <3>1. b \in Once /\ WrittenAt(b) \in {s + 3, s + 4, s + 5, s + 6, s + 7, s + 8}
      BY <2>0 DEF Once, WrittenAt, SessionFields
    <3>2. i >= WrittenAt(b)
      BY <2>0, <2>1, <3>1
    <3> QED BY <1>1, <3>1, <3>2 DEF ScheduleInv, OnceOK
  <2>6. (flags # {}) = (ret["client"] = "SUCCESS")
    BY <2>2 DEF OK
  <2>7. (flags # {}) = undisturbed
    BY <2>2, <2>3, <2>4
  <2> HIDE DEF undisturbed
  <2> QED BY <2>2, <2>5, <2>6, <2>7 DEF SessionIsRfc8446, undisturbed
<1> QED BY <1>1, ScheduleInvariant, PTL
=============================================================================
