----------------------------- MODULE MCGsoSplit -----------------------------
(***************************************************************************)
(* Small instances of GsoSplit.  Lengths are scaled down: an IPv4 header   *)
(* has 2 or 3 bytes, an IPv6 header 3, a TCP header 2 or 3 of at most 3, a *)
(* UDP header 2, and 16-bit values wrap at 16.  A byte of Checksum has 4   *)
(* values.                                                                 *)
(***************************************************************************)
EXTENDS GsoSplit

(* What TCP and UDP senders make the kernel deliver: headers of several    *)
(* lengths, frames that end with a full segment and with a short one, and  *)
(* sequence numbers and ids at the wrap-around.  The kernel's hdr_len is   *)
(* wrong.                                                                  *)
Frames(ver, type, start, h) ==
  [len : {5, 7, 8, 9, 10}, ver : {ver}, gso_type : {type}, needs_csum : {TRUE},
   hdr_len : {9}, gso_size : {2, 3}, csum_start : {start},
   csum_offset : {0}, tcp_h_len : {h}, seq : {14}, id : {15}, tail : {TRUE}]

GoodFrames ==
  Frames(4, "tcp4", 2, 2) \cup Frames(4, "tcp4", 3, 3)
    \cup Frames(6, "tcp6", 3, 3) \cup Frames(4, "udp", 2, 0)
    \cup Frames(6, "udp", 3, 0)

Plain == [len |-> 6, ver |-> 4, gso_type |-> "none", needs_csum |-> TRUE,
          hdr_len |-> 0, gso_size |-> 0, csum_start |-> 2, csum_offset |-> 0,
          tcp_h_len |-> 0, seq |-> 3, id |-> 1, tail |-> FALSE]

(* Whole packets, and frames that have to be refused. *)
OddFrames ==
  {Plain, [Plain EXCEPT !.needs_csum = FALSE, !.csum_start = 0],
   [Plain EXCEPT !.csum_offset = 3], [Plain EXCEPT !.csum_start = 7],
   [Plain EXCEPT !.len = 0],
   [Plain EXCEPT !.gso_type = "other", !.gso_size = 2],
   [Plain EXCEPT !.gso_type = "udp"],
   [Plain EXCEPT !.gso_type = "tcp6", !.gso_size = 2, !.tcp_h_len = 2],
   [Plain EXCEPT !.gso_type = "udp", !.gso_size = 2, !.ver = 0],
   [Plain EXCEPT !.gso_type = "udp", !.gso_size = 2, !.csum_start = 15],
   [Plain EXCEPT !.gso_type = "udp", !.gso_size = 2, !.csum_start = 1],
   [Plain EXCEPT !.gso_type = "udp", !.gso_size = 2, !.csum_start = 6],
   [Plain EXCEPT !.gso_type = "udp", !.gso_size = 2, !.csum_offset = 3],
   [Plain EXCEPT !.gso_type = "tcp4", !.gso_size = 2, !.tcp_h_len = 1],
   [Plain EXCEPT !.gso_type = "tcp4", !.gso_size = 2, !.csum_start = 5]}

AllFrames == GoodFrames \cup OddFrames

(* Up to three buffers, some of them too small, and a caller that is wrong *)
(* about the number of sizes.                                              *)
Lens(n) == UNION {[1..k -> {8, 12}] : k \in 0..n}
AllArgs ==
  {[lens |-> l, sizes |-> Len(l), offset |-> 1] : l \in Lens(3)}
    \cup {[lens |-> l, sizes |-> Len(l), offset |-> 0] :
            l \in {<<8>>, <<8, 12>>, <<12, 12, 12>>}}
    \cup {[lens |-> <<9>>, sizes |-> 2, offset |-> 0],
          [lens |-> <<1, 9>>, sizes |-> 2, offset |-> 2],
          [lens |-> [k \in 1..16 |-> 9], sizes |-> 16, offset |-> 0]}

(* Short data of every kind; and longer data, full of carries and not,     *)
(* around the chunks of 16 and of 32 bytes.                                *)
ShortData == UNION {[1..n -> {0, 1, 3}] : n \in 0..5}
LongData ==
  {[k \in 1..n |-> b] : n \in {15, 16, 17, 31, 32, 33, 49, 63, 64, 66, 67}, b \in {1, 3}}
    \cup {[k \in 1..n |-> (k * k) % 4] : n \in 6..70}
ChecksumCases ==
  {[src |-> [k \in 1..n |-> 3], dst |-> [k \in 1..n |-> k % 4], protocol |-> 2, data |-> d] :
     n \in {4, 16}, d \in ShortData \cup LongData}
=============================================================================
