---------------------------- MODULE MCWnConnect -----------------------------
(* TLC instances of WnConnect: the server's hellos and flights. *)
EXTENDS WnConnect

HelloOf(check, psk) == [check |-> check, pskSelected |-> psk]
GoodHello(path) == HelloOf("SUCCESS", path = "psk")
BadHellos(path) ==
    {HelloOf("SUCCESS", path # "psk")}
      \cup {HelloOf(e, path = "psk") :
              e \in {"E_INVALID_ARG", "E_UNSUPPORTED", "E_ILLEGAL_PARAM", "E_CRYPTO"}}

(* Messages with a header of two bytes; Order, below, has one of one byte. *)
M(type, len) == [type |-> type, len |-> len, check |-> "SUCCESS"]
Bad(type, code) == [type |-> type, len |-> 2, check |-> code]

(* The legal flight, with bodies of one byte and of none. *)
Legal(path) == IF path = "psk" THEN <<M("EE", 3), M("FIN", 3)>>
               ELSE <<M("EE", 2), M("CERT", 3), M("CV", 2), M("FIN", 3)>>

(* With a message behind Finished, and with one too long for the buffer. *)
LongFlights(path, accSz) ==
    {Legal(path), Append(Legal(path), M("OTHER", 2)),
     <<M("EE", accSz + 1), M("FIN", 2)>>}

(* Every order of up to four messages of one byte, and of five the legal   *)
(* flight is made of.                                                      *)
Orders(kinds, n) == {[k \in 1 .. n |-> M(f[k], 1)] : f \in [1 .. n -> kinds]}
AllOrders == UNION {Orders(FlightTypes, n) : n \in 1 .. 4}
               \cup Orders({"EE", "CERT", "CV", "FIN"}, 5)

(* The legal flight with one message whose contents are refused. *)
BadContents ==
    {<<Bad("EE", e)>> : e \in {"E_DECODE", "E_UNEXPECTED_MSG"}}
      \cup {<<M("EE", 2), Bad("CERT", e)>> : e \in {"E_DECODE", "E_BAD_CERT"}}
      \cup {<<M("EE", 2), M("CERT", 2), Bad("CV", e), M("FIN", 2)>>
              : e \in {"E_DECODE", "E_BAD_CERT", "E_UNSUPPORTED"}}
      \cup {<<M("EE", 2), M("CERT", 2), M("CV", 2), Bad("FIN", "E_BAD_MAC")>>,
            <<M("EE", 2), Bad("FIN", "E_BAD_MAC")>>}

Answers(path, flights) ==
    {[hello |-> GoodHello(path), flight |-> f] : f \in flights}
BadAnswers(path) ==
    {[hello |-> h, flight |-> Legal(path)] : h \in BadHellos(path)}

Base(path, accSz) ==
    [path |-> path, alerts |-> TRUE, hdrSz |-> 2, accSz |-> accSz,
     answers |-> Answers(path, {Legal(path)}), pads |-> {0},
     maxWire |-> 2, maxCcs |-> 1, maxFaults |-> 1]

Psk == [Base("psk", 8) EXCEPT
    !.pads = {0, 1},
    !.answers = BadAnswers("psk") \cup
        Answers("psk", LongFlights("psk", 8) \cup BadContents
            \cup {<<M("FIN", 2)>>, <<M("EE", 2), M("EE", 2), M("FIN", 2)>>})]

Cert == [Base("cert", 10) EXCEPT
    !.answers = BadAnswers("cert") \cup
        Answers("cert", LongFlights("cert", 10) \cup BadContents)]

Order5 == [Base("cert", 5) EXCEPT
    !.alerts = FALSE, !.hdrSz = 1, !.answers = Answers("cert", AllOrders),
    !.maxWire = 1, !.maxCcs = 0, !.maxFaults = 0]

ConnectSetups == [psk |-> Psk, cert |-> Cert, order |-> Order5]

LiveSetups == [cert |-> [Base("cert", 10) EXCEPT
    !.maxWire = 1,
    !.answers = Answers("cert", {Legal("cert"), <<M("EE", 2), Bad("CERT", "E_BAD_CERT")>>})]]

AlertSetups == [psk |-> Base("psk", 7)]

TrailingSetups == [cert |-> [Base("cert", 12) EXCEPT
    !.answers = Answers("cert", LongFlights("cert", 12)), !.maxFaults = 0]]
=============================================================================
