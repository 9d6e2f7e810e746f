--------------------------- MODULE MCWintunAsync ---------------------------
(* Small instances of WintunAsync for the model checker. *)
EXTENDS WintunAsync

CONSTANTS t1, t2

(* Two tasks poll the same slot with buffers of two lengths, and may stop  *)
(* polling, while the interface is disabled and enabled.                   *)
Pollers ==
  [uses |-> {<<t1, "poll_recv">>, <<t2, "poll_recv">>, <<t1, "enabled">>},
   abandons |-> {"poll_recv"}, bufLen |-> {1, 2}, exitLate |-> TRUE,
   maxArrived |-> 2, maxData |-> 0]

(* One task awaits, gives up and uses poll_send, and the interface is      *)
(* disabled and enabled.                                                   *)
Awaiter ==
  [uses |-> {t1} \X {"recv", "readable", "send", "poll_send", "enabled"},
   abandons |-> {"recv", "readable", "send"}, bufLen |-> {1},
   exitLate |-> FALSE, maxArrived |-> 2, maxData |-> 3]

TwoPrograms == {Pollers, Awaiter}
=============================================================================
