---------------------------- MODULE MCUnixAsync ----------------------------
(* A small instance of UnixAsync for the model checker. *)
EXTENDS UnixAsync

On(dir, form, bufs) == [dir |-> dir, form |-> form, io |-> TRUE, bufs |-> bufs]
Ready(dir, form) == [dir |-> dir, form |-> form, io |-> FALSE, bufs |-> <<>>]

(* Buffers that truncate, that are one too many with the header, and that fit. *)
Receives == {On("recv", "poll", <<2>>), On("recv", "await", <<1>>),
             On("recv", "try", <<1, 0, 2>>)}

(* A packet behind an empty buffer, and bytes that are no packet. *)
Sends == {On("send", "poll", << <<>>, <<6, 1>> >>), On("send", "await", << <<4>> >>),
          On("send", "try", << <<5>> >>), On("send", "try", << <<>>, <<4>>, <<1>> >>)}

Ops == Receives \cup Sends \cup {Ready("recv", "poll"), Ready("send", "await")}

Packets == {<<6, 1, 1>>}
=============================================================================
