---------------------------- MODULE MCWnSession -----------------------------
(* TLC instances of WnSession: what the peer's handshake records hold. *)
EXTENDS WnSession

(* A ticket and a KeyUpdate that asks for an answer, in one record. *)
KuHs == {<<"nst", "ku1">>}

(* The same with a KeyUpdate that asks for none, a record with no message  *)
(* in it, and what wn_session_posths must refuse.                          *)
AnyHs == {<<>>, <<"nst", "ku1">>, <<"ku0">>, <<"kuBad">>, <<"nstFirst">>,
          <<"nstRest">>, <<"other">>}
=============================================================================
