---------------------------- MODULE MCWnRecordIo ----------------------------
(* TLC instances of WnRecordIo: ClientHellos at every small capacity, so that
   each call is the first that does not fit, and with names at their limits;
   and up to three records of some kinds, in any order, in answer to one. *)
EXTENDS WnRecordIo

Job(p, c, n, s, k, a) ==
    [path |-> p, cap |-> c, nameLen |-> n, sidLen |-> s, pubLen |-> k, nAlgs |-> a]

MCJobs ==
    {Job("cert", c, n, 32, 32, 3) : c \in 0 .. 160, n \in {0, 3}}
      \cup {Job("cert", 4096, n, s, k, a) : n \in {0, 1, 255, 256}, s \in {0, 32, 33},
               k \in {31, 32, 65, 1216}, a \in {2, 6}}
      \cup {Job("psk", c, n, 32, k, a) : c \in {2047, 2048, 16384}, n \in {0, 1, 600, 1700},
               k \in {32, 65, 1216}, a \in {2, 3}}
      \cup {Job("psk", 2048, n, 32, 32, 2) : n \in 1820 .. 1860}

(* An identity of the greatest length that is admitted *)
LongIdentity == {Job("psk", 131072, 65535, 32, 32, 2)}

Record(t, b) == [type |-> t, body |-> b]
Some == {Record(23, <<1>>), Record(22, <<20, 3, 3, 0>>), Record(20, <<1>>),
         Record(20, <<2>>), Record(20, <<1, 1>>), Record(23, <<>>),
         Record(23, <<0, 0, 0, 0, 1>>), Record(23, [k \in 1 .. 8 |-> 0])}

MCAnswers(j) == IF j = Job("cert", 160, 3, 32, 32, 3)
                THEN UNION {[1 .. k -> Some] : k \in 0 .. 3} ELSE {<<>>}
NoAnswers(j) == {<<>>}
=============================================================================
