----------------------------- MODULE MCGroBatch -----------------------------
(* Small batches for the model checker.  Sequence numbers start just below *)
(* the wrap-around, so that merges cross it.                               *)
EXTENDS GroBatch

Flows == {"f", "g"}
Headers == {"h", "k"}

Offload == {[vnet_hdr |-> TRUE, udp_gso |-> TRUE]}
AnyDevice == [vnet_hdr : BOOLEAN, udp_gso : BOOLEAN]

TCP(flow, hdr, seq, plen, psh, plain, csum, spare) ==
  [kind |-> "tcp", flow |-> flow, hdr |-> hdr, seq |-> seq, plen |-> plen,
   psh |-> psh, plain |-> plain, csum |-> csum, spare |-> spare]
UDP(flow, hdr, plen, plain, csum, spare) ==
  [TCP(flow, hdr, 0, plen, FALSE, plain, csum, spare) EXCEPT !.kind = "udp"]
Plain(kind) ==
  [TCP("f", "h", 0, 1, FALSE, TRUE, TRUE, 4) EXCEPT !.kind = kind]

(* One TCP flow with room to spare: every order of adjacent, overlapping,  *)
(* unequal and pushed segments.                                            *)
TcpShapes ==
  {TCP("f", "h", seq, plen, FALSE, TRUE, TRUE, 12) :
     seq \in {15, 0, 1, 2}, plen \in {1, 2}}
  \cup {TCP("f", "h", seq, 1, TRUE, TRUE, TRUE, 12) : seq \in {0, 1}}
  \cup {TCP("f", "h", 3, 1, FALSE, TRUE, TRUE, 12)}

(* Everything that can keep a packet from being merged. *)
TcpFaults ==
  {TCP("f", "h", seq, 1, FALSE, TRUE, csum, spare) :
     seq \in {15, 0, 1}, csum \in BOOLEAN, spare \in {0, 2, 8}}
  \cup {TCP("f", "k", 0, 1, FALSE, TRUE, TRUE, 8),
        TCP("g", "h", 0, 1, FALSE, TRUE, TRUE, 8),
        TCP("f", "h", 0, 1, FALSE, FALSE, TRUE, 8),
        TCP("f", "h", 0, 0, FALSE, TRUE, TRUE, 8)}

Datagrams ==
  {UDP("f", "h", plen, TRUE, csum, spare) :
     plen \in {1, 2}, csum \in BOOLEAN, spare \in {0, 8}}
  \cup {UDP("g", "h", 1, TRUE, TRUE, 8), UDP("f", "k", 1, TRUE, TRUE, 8),
        UDP("f", "h", 0, TRUE, TRUE, 8), UDP("f", "h", 1, FALSE, TRUE, 8),
        TCP("f", "h", 0, 1, FALSE, TRUE, TRUE, 8)}

FaultsAndDatagrams == TcpFaults \cup Datagrams

UpTo(n, S) == UNION {[1..k -> S] : k \in 0..n}

(* Four packets of one flow, and three of any. *)
Packets == TcpShapes \cup FaultsAndDatagrams
Batches == UpTo(4, TcpShapes) \cup UpTo(3, FaultsAndDatagrams)

(* A few packets of every kind, for sequences of calls. *)
AnyKind ==
  {TCP("f", "h", 0, 1, FALSE, TRUE, TRUE, 4),
   TCP("f", "h", 1, 1, FALSE, TRUE, TRUE, 4),
   UDP("f", "h", 1, TRUE, TRUE, 4), Plain("other"), Plain("short")}
ShortBatches == UpTo(3, AnyKind)
=============================================================================
