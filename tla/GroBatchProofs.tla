--------------------------- MODULE GroBatchProofs ---------------------------
(***************************************************************************)
(* Proofs about send_multiple on Linux, for every batch, device, offset    *)
(* and number of calls: the coalescer's state is well typed, the tables    *)
(* and to_write agree, and no caller's buffer outgrows its capacity.       *)
(*                                                                         *)
(* The inductive invariant IInv adds what the loop knows in passing: the   *)
(* buffers it has not reached are as the caller filled them (the length    *)
(* test for prepending is about such a buffer), items point only at        *)
(* buffers it has passed (so that a new item's index is new), and these    *)
(* hold a payload (so that a payload length is never negative).            *)
(***************************************************************************)
EXTENDS GroBatch, TLAPS

-----------------------------------------------------------------------------
(* Sequences and packets. *)

(* A batch is a sequence of packets. *)
LEMMA BatchSeq == ASSUME NEW b \in Batch PROVE b \in Seq(Packet)
  BY BatchAssumption

(* Replacing one element keeps the type, the domain and the length. *)
LEMMA ExceptSeq ==
  ASSUME NEW S, NEW s \in Seq(S), NEW i \in DOMAIN s, NEW v \in S
  PROVE  /\ [s EXCEPT ![i] = v] \in Seq(S)
         /\ DOMAIN [s EXCEPT ![i] = v] = DOMAIN s
         /\ Len([s EXCEPT ![i] = v]) = Len(s)
  OBVIOUS

(* The second half of a concatenation. *)
LEMMA ConcatRight ==
  ASSUME NEW S, NEW a \in Seq(S), NEW b \in Seq(S),
         NEW k \in Len(a) + 1..Len(a) + Len(b)
  PROVE  (a \o b)[k] = b[k - Len(a)]
  OBVIOUS

(* What RemoveAt returns: the elements behind i move up by one. *)
LEMMA RemoveSeq ==
  ASSUME NEW S, NEW s \in Seq(S), NEW i \in DOMAIN s
  PROVE  /\ RemoveAt(s, i) \in Seq(S)
         /\ Len(RemoveAt(s, i)) = Len(s) - 1
         /\ \A k \in 1..Len(s) - 1 :
              RemoveAt(s, i)[k] = IF k < i THEN s[k] ELSE s[k + 1]
<1> DEFINE a == SubSeq(s, 1, i - 1)
           b == SubSeq(s, i + 1, Len(s))
<1>1. a \in Seq(S) /\ Len(a) = i - 1 /\ \A k \in 1..i - 1 : a[k] = s[k]
  OBVIOUS
<1>2. b \in Seq(S) /\ Len(b) = Len(s) - i
      /\ \A k \in 1..Len(s) - i : b[k] = s[k + i]
  OBVIOUS
<1>3. RemoveAt(s, i) = a \o b
  BY DEF RemoveAt
<1> HIDE DEF a, b
<1>4. a \o b \in Seq(S) /\ Len(a \o b) = Len(s) - 1
  BY <1>1, <1>2
<1>5. ASSUME NEW k \in 1..Len(s) - 1
      PROVE  (a \o b)[k] = IF k < i THEN s[k] ELSE s[k + 1]
  <2>1. CASE k < i
    BY <1>1, <1>2, <2>1
  <2>2. CASE ~(k < i)
    <3>1. i \in 1..Len(s) /\ k \in Nat /\ k - (i - 1) \in 1..Len(s) - i
      BY <2>2
    <3>2. (a \o b)[k] = b[k - (i - 1)]
      <4>1. k \in Len(a) + 1..Len(a) + Len(b)
        BY <1>1, <1>2, <2>2, <3>1
      <4>2. a \in Seq(S) /\ b \in Seq(S)
        BY <1>1, <1>2
      <4>3. (a \o b)[k] = b[k - Len(a)]
        BY <4>1, <4>2, ConcatRight
      <4> QED BY <1>1, <4>3
    <3>3. b[k - (i - 1)] = s[(k - (i - 1)) + i]
      BY <1>2, <3>1
    <3>4. (k - (i - 1)) + i = k + 1
      BY <3>1
    <3> QED BY <2>2, <3>2, <3>3, <3>4
  <2> QED BY <2>1, <2>2
<1> QED BY <1>3, <1>4, <1>5

(* A buffer as the caller filled it is within its capacity. *)
LEMMA CallerBufTyped ==
  ASSUME NEW b \in Seq(Packet), NEW off \in Nat, NEW i \in DOMAIN b
  PROVE  /\ CallerBuf(b, off, i) \in Buffer
         /\ CallerBuf(b, off, i).len <= CallerBuf(b, off, i).cap
<1>1. b[i] \in Packet
  OBVIOUS
<1>2. b[i].plen \in Nat /\ b[i].spare \in Nat /\ b[i].psh \in BOOLEAN
  BY <1>1, PacketAssumption
<1>3. BufLen(b[i], off) \in Nat
  BY <1>2, SizeAssumption DEF BufLen
<1> QED BY <1>2, <1>3, SizeAssumption DEF CallerBuf, Buffer

-----------------------------------------------------------------------------
(* The parts of the inductive invariant. *)

(* Where handle_gro is: the loop variables are in range, and the packet    *)
(* being scanned for is a TCP packet that may be merged.                   *)
LoopInv ==
  /\ pkt_i \in 1..Len(pkts) + 1
  /\ pc = "scan" =>
       /\ pkt_i \in DOMAIN pkts
       /\ IsTcp(Pkt) /\ Mergeable(Pkt)
       /\ item_i <= Len(TcpItems)

(* The loop has not touched the buffers it has not reached. *)
FreshInv ==
  pc \in {"gro", "scan"} =>
    \A j \in DOMAIN bufs : j >= pkt_i => bufs[j] = CallerBuf(pkts, offset, j)

(* The buffers an item may point at: the loop has passed them, and they    *)
(* hold a payload.                                                         *)
Passed == {i \in DOMAIN pkts : i < pkt_i /\ bufs[i].len > offset + HdrLen}

ItemOk(item) == item.bufs_index \in Passed

(* The items of table t point into W. *)
PointsInto(t, W) ==
  \A f \in Flow : \A k \in DOMAIN t[f] : t[f][k].bufs_index \in W

(* No two items of t share a buffer. *)
Distinct(t) ==
  \A f, g \in Flow : \A j \in DOMAIN t[f], k \in DOMAIN t[g] :
    t[f][j].bufs_index = t[g][k].bufs_index => f = g /\ j = k

(* Nor does an item of t with one of u. *)
Disjoint(t, u) ==
  \A f, g \in Flow : \A j \in DOMAIN t[f], k \in DOMAIN u[g] :
    t[f][j].bufs_index # u[g][k].bufs_index

ItemInv == PointsInto(tcp_gro_table, Passed) /\ PointsInto(udp_gro_table, Passed)

TableInv ==
  /\ PointsInto(tcp_gro_table, ToSet(to_write))
  /\ PointsInto(udp_gro_table, ToSet(to_write))
  /\ Distinct(tcp_gro_table)
  /\ Distinct(udp_gro_table)
  /\ Disjoint(tcp_gro_table, udp_gro_table)

(* to_write holds increasing indices that the loop has passed. *)
WriteInv ==
  /\ \A v, w \in DOMAIN to_write : v < w => to_write[v] < to_write[w]
  /\ pc \in {"gro", "scan"} => \A w \in DOMAIN to_write : to_write[w] < pkt_i

IInv ==
  /\ TypeOK
  /\ LoopInv
  /\ FreshInv
  /\ NoRealloc
  /\ ItemInv
  /\ WriteInv
  /\ TableInv

-----------------------------------------------------------------------------
(* The current packet and item. *)

(* What the assumption on packets says of the packet the loop is at. *)
LEMMA PktFacts ==
  ASSUME TypeOK, pkt_i \in DOMAIN pkts
  PROVE  /\ Pkt \in Packet
         /\ Pkt.flow \in Flow
         /\ Pkt.seq \in Nat /\ Pkt.plen \in Nat
         /\ Pkt.psh \in BOOLEAN /\ Pkt.csum \in BOOLEAN
<1>1. Pkt \in Packet
  BY DEF TypeOK, Pkt
<1> QED BY <1>1, PacketAssumption, SizeAssumption

(* The item a scan is at. *)
LEMMA ScanFacts ==
  ASSUME TypeOK, LoopInv, ItemInv, Scanning
  PROVE  /\ pkt_i \in DOMAIN pkts
         /\ item_i \in DOMAIN TcpItems
         /\ TcpItems \in Seq(TcpGROItem)
         /\ TcpItem \in TcpGROItem
         /\ ItemOk(TcpItem)
         /\ TcpItem.bufs_index \in DOMAIN bufs
         /\ bufs[TcpItem.bufs_index] \in Buffer
         /\ IsTcp(Pkt) /\ Mergeable(Pkt)
<1>1. pkt_i \in DOMAIN pkts /\ item_i \in Nat /\ item_i > 0
      /\ item_i <= Len(TcpItems) /\ IsTcp(Pkt) /\ Mergeable(Pkt)
  BY DEF Scanning, LoopInv, TypeOK
<1>2. Pkt.flow \in Flow
  BY <1>1, PktFacts
<1>3. TcpItems \in Seq(TcpGROItem)
  BY <1>2 DEF TypeOK, TcpItems
<1>4. item_i \in DOMAIN TcpItems
  BY <1>1, <1>3
<1>5. TcpItem \in TcpGROItem
  BY <1>3, <1>4 DEF TcpItem
<1>6. ItemOk(TcpItem)
  BY <1>2, <1>4 DEF ItemInv, PointsInto, ItemOk, TcpItem, TcpItems
<1>7. TcpItem.bufs_index \in DOMAIN bufs
  BY <1>6 DEF ItemOk, Passed, TypeOK
<1>8. bufs[TcpItem.bufs_index] \in Buffer
  BY <1>7 DEF TypeOK
<1> QED BY <1>1, <1>3, <1>4, <1>5, <1>6, <1>7, <1>8

(* The item udp_gro looks at. *)
LEMMA UdpFacts ==
  ASSUME TypeOK, LoopInv, ItemInv, UdpEligible, UdpTry
  PROVE  /\ pkt_i \in DOMAIN pkts
         /\ UdpLast \in DOMAIN UdpItems
         /\ UdpItems \in Seq(UdpGROItem)
         /\ UdpItem \in UdpGROItem
         /\ ItemOk(UdpItem)
         /\ UdpItem.bufs_index \in DOMAIN bufs
         /\ bufs[UdpItem.bufs_index] \in Buffer
         /\ Mergeable(Pkt)
<1>1. Mergeable(Pkt) /\ pkt_i \in Nat /\ pkt_i <= Len(pkts)
  BY DEF UdpEligible, InLoop, TypeOK
<1>2. pkt_i \in DOMAIN pkts
  BY <1>1 DEF LoopInv, TypeOK
<1>3. Pkt.flow \in Flow
  BY <1>2, PktFacts
<1>4. UdpItems \in Seq(UdpGROItem) /\ UdpItems # <<>>
  BY <1>3 DEF TypeOK, UdpItems, UdpTry
<1>5. UdpLast \in DOMAIN UdpItems
  BY <1>4 DEF UdpLast
<1>6. UdpItem \in UdpGROItem
  BY <1>4, <1>5 DEF UdpItem
<1>7. ItemOk(UdpItem)
  BY <1>3, <1>5 DEF ItemInv, PointsInto, ItemOk, UdpItem, UdpItems
<1>8. UdpItem.bufs_index \in DOMAIN bufs
  BY <1>7 DEF ItemOk, Passed, TypeOK
<1>9. bufs[UdpItem.bufs_index] \in Buffer
  BY <1>8 DEF TypeOK
<1> QED BY <1>1, <1>2, <1>4, <1>5, <1>6, <1>7, <1>8, <1>9

-----------------------------------------------------------------------------
(* Types. *)

(* Entering a call: the caller's buffers, empty tables. *)
LEMMA EnterTyped ==
  ASSUME TypeOK, NEW b \in Seq(Packet), NEW off \in Offsets, Enter(b, off)
  PROVE  /\ dev' \in Device /\ pkts' \in Seq(Packet) /\ offset' \in Nat
         /\ bufs' \in Seq(Buffer) /\ Len(bufs') = Len(pkts')
         /\ tcp_gro_table' \in [Flow -> Seq(TcpGROItem)]
         /\ udp_gro_table' \in [Flow -> Seq(UdpGROItem)]
         /\ pkt_i' \in Nat /\ item_i' \in Nat /\ calls' \in Nat
         /\ outcome' \in Seq({"ok", "err", "badfd"})
<1>1. dev' \in Device /\ pkts' = b /\ calls' \in Nat /\ pkt_i' \in Nat
      /\ item_i' \in Nat /\ outcome' = <<>>
  BY DEF Enter, TypeOK
<1>2. off \in Nat /\ offset' \in Nat
  BY SizeAssumption DEF Enter
<1>3. bufs' = [i \in 1..Len(b) |-> CallerBuf(b, off, i)]
  BY DEF Enter
<1>4. \A i \in 1..Len(b) : CallerBuf(b, off, i) \in Buffer
  BY <1>2, CallerBufTyped
<1>5. bufs' \in Seq(Buffer) /\ Len(bufs') = Len(b)
  BY <1>3, <1>4
<1>6. /\ tcp_gro_table' \in [Flow -> Seq(TcpGROItem)]
      /\ udp_gro_table' \in [Flow -> Seq(UdpGROItem)]
  BY DEF Enter, Reset, EmptyTable
<1> QED BY <1>1, <1>2, <1>5, <1>6

(* A buffer that is replaced by a buffer. *)
LEMMA BufsTyped ==
  ASSUME TypeOK, NEW i \in DOMAIN bufs, NEW v \in Buffer,
         bufs' = [bufs EXCEPT ![i] = v]
  PROVE  bufs' \in Seq(Buffer) /\ Len(bufs') = Len(bufs)
  BY ExceptSeq DEF TypeOK

(* Noop keeps the types. *)
LEMMA NoopTyped ==
  ASSUME TypeOK, pkt_i \in DOMAIN pkts, Noop
  PROVE  TypeOK'
<1>1. pkt_i \in DOMAIN bufs /\ bufs[pkt_i] \in Buffer
  BY DEF TypeOK
<1>2. [bufs[pkt_i] EXCEPT !.vnet = "none"] \in Buffer
  BY <1>1 DEF Buffer
<1>3. bufs' \in Seq(Buffer) /\ Len(bufs') = Len(bufs)
  BY <1>1, <1>2, BufsTyped DEF Noop
<1>4. to_write' \in Seq(DOMAIN pkts)
  BY DEF Noop, TypeOK
<1> QED BY <1>3, <1>4 DEF Noop, NextPacket, TypeOK, call, tables

(* Merging keeps items and buffers well typed. *)
LEMMA PayloadTyped ==
  ASSUME NEW b \in Buffer, offset \in Nat, b.len > offset + HdrLen
  PROVE  Payload(b) \in Nat
  BY SizeAssumption DEF Payload, Buffer

(* A merged item is an item. *)
LEMMA MergedTyped ==
  ASSUME NEW item \in TcpGROItem, Pkt.plen \in Nat
  PROVE  Merged(item) \in TcpGROItem
<1>1. item.num_merged + 1 \in Nat /\ item.gso_size \in Nat
  BY DEF TcpGROItem
<1>2. (IF Pkt.plen > item.gso_size THEN Pkt.plen ELSE item.gso_size) \in Nat
  BY <1>1
<1> QED BY <1>1, <1>2 DEF Merged, TcpGROItem

(* A buffer with a payload appended is a buffer. *)
LEMMA AppendedBufTyped ==
  ASSUME NEW b \in Buffer, Pkt.plen \in Nat, Pkt.psh \in BOOLEAN, pkt_i \in Nat
  PROVE  AppendedBuf(b) \in Buffer
<1>1. b.len + Pkt.plen \in Nat
  BY DEF Buffer
<1>2. Append(b.segs, pkt_i) \in Seq(Nat)
  BY DEF Buffer
<1>3. (b.psh \/ Pkt.psh) \in BOOLEAN
  OBVIOUS
<1> QED BY <1>1, <1>2, <1>3 DEF AppendedBuf, Buffer

(* A buffer with another one's payload behind it is a buffer. *)
LEMMA PrependedBufTyped ==
  ASSUME NEW b \in Buffer, NEW c \in Buffer, Payload(c) \in Nat
  PROVE  PrependedBuf(b, c) \in Buffer
<1>1. b.len + Payload(c) \in Nat
  BY DEF Buffer
<1>2. b.segs \o c.segs \in Seq(Nat)
  BY DEF Buffer
<1> QED BY <1>1, <1>2 DEF PrependedBuf, Buffer

(* The same for udp_gro, which leaves the flags alone. *)
LEMMA UdpBufTyped ==
  ASSUME NEW b \in Buffer, NEW i \in Nat, NEW n \in Nat
  PROVE  [b EXCEPT !.segs = Append(@, i), !.len = @ + n] \in Buffer
<1>1. b.len + n \in Nat
  BY DEF Buffer
<1>2. Append(b.segs, i) \in Seq(Nat)
  BY DEF Buffer
<1> QED BY <1>1, <1>2 DEF Buffer

(* A merged UDP item is an item. *)
LEMMA UdpItemTyped ==
  ASSUME NEW item \in UdpGROItem
  PROVE  [item EXCEPT !.num_merged = @ + 1] \in UdpGROItem
<1>1. item.num_merged + 1 \in Nat
  BY DEF UdpGROItem
<1> QED BY <1>1 DEF UdpGROItem

(* The accounting writes headers only. *)
LEMMA ModTyped ==
  ASSUME NEW a \in Int, NEW n \in Nat \ {0}
  PROVE  a % (n + 1) \in Nat
  OBVIOUS

(* An element of ToSet(s) has the type of s. *)
LEMMA ToSetTyped ==
  ASSUME NEW S, NEW s \in Seq(S), NEW x \in ToSet(s)
  PROVE  x \in S
  BY DEF ToSet

(* What the accounting reads of an item. *)
LEMMA AllItemsTyped ==
  ASSUME TypeOK, NEW item \in AllItems
  PROVE  item.gso_size \in Nat /\ item.num_merged \in Nat
<1>1. PICK f \in Flow :
        item \in ToSet(tcp_gro_table[f]) \/ item \in ToSet(udp_gro_table[f])
  BY DEF AllItems
<1>2. CASE item \in ToSet(tcp_gro_table[f])
  <2>1. tcp_gro_table[f] \in Seq(TcpGROItem)
    BY DEF TypeOK
  <2>2. item \in TcpGROItem
    BY <1>2, <2>1, ToSetTyped
  <2> QED BY <2>2 DEF TcpGROItem
<1>3. CASE item \in ToSet(udp_gro_table[f])
  <2>1. udp_gro_table[f] \in Seq(UdpGROItem)
    BY DEF TypeOK
  <2>2. item \in UdpGROItem
    BY <1>3, <2>1, ToSetTyped
  <2> QED BY <2>2 DEF UdpGROItem
<1> QED BY <1>1, <1>2, <1>3

(* The accounting keeps the type of a buffer. *)
LEMMA AccountTyped ==
  ASSUME TypeOK, NEW b \in Buffer, NEW item \in AllItems
  PROVE  Account(b, item) \in Buffer
<1>1. item.gso_size \in Nat /\ item.num_merged \in Nat
  BY AllItemsTyped
<1>2. b.len - offset \in Int
  BY DEF Buffer, TypeOK
<1>3. (b.len - offset) % (MaxLen + 1) \in Nat
  BY <1>2, ModTyped, SizeAssumption
<1> QED BY <1>1, <1>3 DEF Account, Buffer

(* Every action keeps the types. *)
LEMMA TypeStep ==
  ASSUME TypeOK, LoopInv, ItemInv, [Next]_vars
  PROVE  TypeOK'
<1>1. ASSUME NEW off \in Offsets, CallEmpty(off) PROVE TypeOK'
  <2>1. <<>> \in Seq(Packet)
    OBVIOUS
  <2>2. pkts' = <<>> /\ to_write' = <<>> /\ pc' = "idle" /\ result' = "ok"
    BY <1>1 DEF CallEmpty, Enter, Return
  <2>3. to_write' \in Seq(DOMAIN pkts')
    BY <2>2
  <2>4. Enter(<<>>, off)
    BY <1>1 DEF CallEmpty
  <2> QED BY <2>1, <2>2, <2>3, <2>4, EnterTyped DEF TypeOK
<1>2. ASSUME NEW off \in Offsets, NEW b \in Batch, CallTooMany(b, off)
      PROVE  TypeOK'
  <2>1. b \in Seq(Packet)
    BY BatchSeq
  <2> QED BY <1>2, <2>1, EnterTyped DEF CallTooMany, Return, TypeOK
<1>3. ASSUME NEW off \in Offsets, NEW b \in Batch, CallGro(b, off)
      PROVE  TypeOK'
  <2>1. b \in Seq(Packet)
    BY BatchSeq
  <2> QED BY <1>3, <2>1, EnterTyped DEF CallGro, TypeOK
<1>4. ASSUME NEW off \in Offsets, NEW b \in Batch, CallPlain(b, off)
      PROVE  TypeOK'
  <2>1. b \in Seq(Packet) /\ pkts' = b
    BY <1>4, BatchSeq DEF CallPlain, Enter
  <2>2. to_write' \in Seq(DOMAIN pkts')
    BY <1>4, <2>1 DEF CallPlain
  <2> QED BY <1>4, <2>1, <2>2, EnterTyped DEF CallPlain, TypeOK
<1>5. CASE GroInvalidOffset
  BY <1>5 DEF GroInvalidOffset, Return, TypeOK, call, tables
<1>6. CASE GroNoop
  <2>1. pkt_i \in DOMAIN pkts /\ Noop
    BY <1>6 DEF GroNoop, InLoop, LoopInv, TypeOK
  <2> QED BY <2>1, NoopTyped
<1>7. CASE TcpLookup
  <2>1. pkt_i \in DOMAIN pkts
    BY <1>7 DEF TcpLookup, InLoop, LoopInv, TypeOK
  <2>2. TcpItems \in Seq(TcpGROItem)
    BY <2>1, PktFacts DEF TypeOK, TcpItems
  <2>3. item_i' \in Nat
    BY <1>7, <2>2 DEF TcpLookup
  <2> QED BY <1>7, <2>3 DEF TcpLookup, TypeOK, call, tables
<1>8. CASE ScanSkip
  <2>1. item_i' \in Nat
    BY <1>8 DEF ScanSkip, Scanning, TypeOK
  <2> QED BY <1>8, <2>1 DEF ScanSkip, TypeOK, call, tables
<1>9. CASE ScanItemInvalid
  <2> DEFINE i == TcpItem.bufs_index
  <2>1. /\ pkt_i \in DOMAIN pkts /\ item_i \in DOMAIN TcpItems
        /\ TcpItems \in Seq(TcpGROItem)
        /\ i \in DOMAIN bufs /\ bufs[i] \in Buffer
    BY <1>9, ScanFacts DEF ScanItemInvalid
  <2>2. Pkt.flow \in Flow
    BY <2>1, PktFacts
  <2>3. [bufs[i] EXCEPT !.vnet = "none"] \in Buffer
    BY <2>1 DEF Buffer
  <2>4. bufs' \in Seq(Buffer) /\ Len(bufs') = Len(bufs)
    BY <1>9, <2>1, <2>3, BufsTyped DEF ScanItemInvalid, ZeroHeader
  <2>5. RemoveAt(TcpItems, item_i) \in Seq(TcpGROItem)
    BY <2>1, RemoveSeq
  <2>6. tcp_gro_table' = [tcp_gro_table EXCEPT ![Pkt.flow] = RemoveAt(TcpItems, item_i)]
    BY <1>9 DEF ScanItemInvalid, TcpItems
  <2>7. tcp_gro_table' \in [Flow -> Seq(TcpGROItem)]
    BY <2>2, <2>5, <2>6 DEF TypeOK
  <2>8. item_i' \in Nat
    BY <1>9 DEF ScanItemInvalid, Scanning, TypeOK
  <2> QED BY <1>9, <2>4, <2>7, <2>8 DEF ScanItemInvalid, TypeOK, call
<1>10. CASE ScanPktInvalid
  BY <1>10, ScanFacts, NoopTyped DEF ScanPktInvalid
<1>11. CASE ScanAppend
  <2> DEFINE i == TcpItem.bufs_index
  <2>1. /\ pkt_i \in DOMAIN pkts /\ item_i \in DOMAIN TcpItems
        /\ TcpItems \in Seq(TcpGROItem) /\ TcpItem \in TcpGROItem
        /\ i \in DOMAIN bufs /\ bufs[i] \in Buffer
    BY <1>11, ScanFacts DEF ScanAppend, TcpMerge
  <2>2. /\ Pkt.flow \in Flow /\ Pkt.plen \in Nat /\ Pkt.psh \in BOOLEAN
        /\ pkt_i \in Nat
    BY <2>1, PktFacts DEF TypeOK
  <2>3. AppendedBuf(bufs[i]) \in Buffer
    BY <2>1, <2>2, AppendedBufTyped
  <2>4. bufs' \in Seq(Buffer) /\ Len(bufs') = Len(bufs)
    BY <1>11, <2>1, <2>3, BufsTyped DEF ScanAppend
  <2>5. AppendedItem(TcpItem) \in TcpGROItem
    BY <2>1, <2>2, MergedTyped DEF AppendedItem, TcpGROItem
  <2>6. [TcpItems EXCEPT ![item_i] = AppendedItem(TcpItem)] \in Seq(TcpGROItem)
    BY <2>1, <2>5, ExceptSeq
  <2>7. tcp_gro_table' = [tcp_gro_table EXCEPT ![Pkt.flow] =
                            [TcpItems EXCEPT ![item_i] = AppendedItem(TcpItem)]]
    BY <1>11 DEF ScanAppend, TcpItems
  <2>8. tcp_gro_table' \in [Flow -> Seq(TcpGROItem)]
    BY <2>2, <2>6, <2>7 DEF TypeOK
  <2> QED BY <1>11, <2>4, <2>8 DEF ScanAppend, Coalesced, NextPacket, TypeOK, call
<1>12. CASE ScanPrepend
  <2> DEFINE i == TcpItem.bufs_index
             new == PrependedBuf(bufs[pkt_i], bufs[i])
  <2>1. /\ pkt_i \in DOMAIN pkts /\ item_i \in DOMAIN TcpItems
        /\ TcpItems \in Seq(TcpGROItem) /\ TcpItem \in TcpGROItem
        /\ i \in DOMAIN bufs /\ bufs[i] \in Buffer
        /\ bufs[i].len > offset + HdrLen
    BY <1>12, ScanFacts DEF ScanPrepend, TcpMerge, ItemOk, Passed
  <2>2. /\ Pkt.flow \in Flow /\ Pkt.plen \in Nat /\ Pkt.seq \in Nat
        /\ pkt_i \in Nat /\ pkt_i \in DOMAIN bufs /\ bufs[pkt_i] \in Buffer
    BY <2>1, PktFacts DEF TypeOK
  <2>3. Payload(bufs[i]) \in Nat
    BY <2>1, PayloadTyped DEF TypeOK
  <2>4. new \in Buffer
    BY <2>1, <2>2, <2>3, PrependedBufTyped
  <2>5. [bufs EXCEPT ![i] = new] \in Seq(Buffer)
        /\ Len([bufs EXCEPT ![i] = new]) = Len(bufs)
        /\ DOMAIN [bufs EXCEPT ![i] = new] = DOMAIN bufs
    BY <2>1, <2>4, ExceptSeq DEF TypeOK
  <2>6. bufs' = [[bufs EXCEPT ![i] = new] EXCEPT ![pkt_i] = bufs[i]]
    BY <1>12 DEF ScanPrepend, SwapIn
  <2> HIDE DEF new
  <2>7. bufs' \in Seq(Buffer) /\ Len(bufs') = Len(bufs)
    BY <2>1, <2>2, <2>5, <2>6, ExceptSeq
  <2>8. PrependedItem(TcpItem) \in TcpGROItem
    BY <2>1, <2>2, MergedTyped DEF PrependedItem, TcpGROItem
  <2>9. [TcpItems EXCEPT ![item_i] = PrependedItem(TcpItem)] \in Seq(TcpGROItem)
    BY <2>1, <2>8, ExceptSeq
  <2>10. tcp_gro_table' = [tcp_gro_table EXCEPT ![Pkt.flow] =
                             [TcpItems EXCEPT ![item_i] = PrependedItem(TcpItem)]]
    BY <1>12 DEF ScanPrepend, TcpItems
  <2>11. tcp_gro_table' \in [Flow -> Seq(TcpGROItem)]
    BY <2>2, <2>9, <2>10 DEF TypeOK
  <2> QED BY <1>12, <2>7, <2>11 DEF ScanPrepend, Coalesced, NextPacket, TypeOK, call
<1>13. CASE ScanInsert
  <2>1. pkt_i \in DOMAIN pkts
    BY <1>13 DEF ScanInsert, LoopInv
  <2>2. /\ Pkt.flow \in Flow /\ Pkt.plen \in Nat /\ Pkt.psh \in BOOLEAN
        /\ Pkt.seq \in Nat /\ pkt_i \in Nat
    BY <2>1, PktFacts DEF TypeOK
  <2>3. NewTcpItem(Pkt, pkt_i) \in TcpGROItem
    BY <2>2 DEF NewTcpItem, TcpGROItem
  <2>4. Append(tcp_gro_table[Pkt.flow], NewTcpItem(Pkt, pkt_i)) \in Seq(TcpGROItem)
    BY <2>2, <2>3 DEF TypeOK
  <2>5. tcp_gro_table' \in [Flow -> Seq(TcpGROItem)]
    BY <1>13, <2>2, <2>4 DEF ScanInsert, TypeOK
  <2>6. to_write' \in Seq(DOMAIN pkts)
    BY <1>13, <2>1 DEF ScanInsert, TableInsert, TypeOK
  <2> QED BY <1>13, <2>5, <2>6 DEF ScanInsert, TableInsert, NextPacket, TypeOK, call
<1>14. CASE UdpAppend
  <2> DEFINE i == UdpItem.bufs_index
             b == bufs[i]
             new == [b EXCEPT !.segs = Append(@, pkt_i), !.len = @ + Pkt.plen]
             item == [UdpItem EXCEPT !.num_merged = @ + 1]
  <2>1. /\ pkt_i \in DOMAIN pkts /\ UdpLast \in DOMAIN UdpItems
        /\ UdpItems \in Seq(UdpGROItem) /\ UdpItem \in UdpGROItem
        /\ i \in DOMAIN bufs /\ b \in Buffer
    BY <1>14, UdpFacts DEF UdpAppend
  <2>2. Pkt.flow \in Flow /\ Pkt.plen \in Nat /\ pkt_i \in Nat
    BY <2>1, PktFacts DEF TypeOK
  <2>3. new \in Buffer
    <3> HIDE DEF b
    <3> QED BY <2>1, <2>2, UdpBufTyped
  <2>4. bufs' = [bufs EXCEPT ![i] = new]
    BY <1>14, <2>1 DEF UdpAppend, TypeOK
  <2>5. bufs' \in Seq(Buffer) /\ Len(bufs') = Len(bufs)
    BY <2>1, <2>3, <2>4, BufsTyped
  <2>6. item \in UdpGROItem
    BY <2>1, UdpItemTyped
  <2>7. [UdpItems EXCEPT ![UdpLast] = item] \in Seq(UdpGROItem)
    BY <2>1, <2>6, ExceptSeq
  <2>8. udp_gro_table' = [udp_gro_table EXCEPT ![Pkt.flow] =
                            [UdpItems EXCEPT ![UdpLast] = item]]
    BY <1>14 DEF UdpAppend, UdpItems, UdpItem
  <2>9. udp_gro_table' \in [Flow -> Seq(UdpGROItem)]
    BY <2>2, <2>7, <2>8 DEF TypeOK
  <2> QED BY <1>14, <2>5, <2>9 DEF UdpAppend, Coalesced, NextPacket, TypeOK, call
<1>15. CASE UdpInsert
  <2>1. pkt_i \in DOMAIN pkts
    BY <1>15 DEF UdpInsert, UdpEligible, InLoop, LoopInv, TypeOK
  <2>2. Pkt.flow \in Flow /\ Pkt.plen \in Nat /\ pkt_i \in Nat
    BY <2>1, PktFacts DEF TypeOK
  <2>3. KnownInvalid \in BOOLEAN
    BY DEF KnownInvalid
  <2>4. NewUdpItem(Pkt, pkt_i) \in UdpGROItem
    BY <2>2, <2>3 DEF NewUdpItem, UdpGROItem
  <2>5. Append(udp_gro_table[Pkt.flow], NewUdpItem(Pkt, pkt_i)) \in Seq(UdpGROItem)
    BY <2>2, <2>4 DEF TypeOK
  <2>6. udp_gro_table' \in [Flow -> Seq(UdpGROItem)]
    BY <1>15, <2>2, <2>5 DEF UdpInsert, TypeOK
  <2>7. to_write' \in Seq(DOMAIN pkts)
    BY <1>15, <2>1 DEF UdpInsert, TableInsert, TypeOK
  <2> QED BY <1>15, <2>6, <2>7 DEF UdpInsert, TableInsert, NextPacket, TypeOK, call
<1>16. CASE GroAccount
  <2>1. ASSUME NEW i \in DOMAIN bufs, ItemsAt(i) # {}
        PROVE  Account(bufs[i], CHOOSE item \in ItemsAt(i) : TRUE) \in Buffer
    <3>1. (CHOOSE item \in ItemsAt(i) : TRUE) \in AllItems
      BY <2>1 DEF ItemsAt
    <3>2. bufs[i] \in Buffer
      BY DEF TypeOK
    <3> QED BY <3>1, <3>2, AccountTyped
  <2> DEFINE new(i) == IF ItemsAt(i) = {} THEN bufs[i]
                       ELSE Account(bufs[i], CHOOSE item \in ItemsAt(i) : TRUE)
  <2>2. \A i \in 1..Len(bufs) : new(i) \in Buffer
    BY <2>1 DEF TypeOK
  <2>3. bufs' = [i \in 1..Len(bufs) |-> new(i)]
    BY <1>16 DEF GroAccount, TypeOK
  <2> HIDE DEF new
  <2>4. Len(bufs) \in Nat
    BY DEF TypeOK
  <2>5. bufs' \in Seq(Buffer) /\ Len(bufs') = Len(bufs)
    BY <2>2, <2>3, <2>4
  <2> QED BY <1>16, <2>5 DEF GroAccount, TypeOK, call, tables
<1>17. CASE WriteInvalidOffset
  BY <1>17 DEF WriteInvalidOffset, Return, TypeOK, unchangedByWrite, call, tables
<1>18. ASSUME NEW how \in {"ok", "err"}, Write(how) PROVE TypeOK'
  BY <1>18 DEF Write, TypeOK, unchangedByWrite, call, tables
<1>19. CASE WriteBadFd
  BY <1>19 DEF WriteBadFd, Return, TypeOK, unchangedByWrite, call, tables
<1>20. CASE Finish
  BY <1>20 DEF Finish, Return, TypeOK, unchangedByWrite, call, tables
<1>21. CASE Cancel
  BY <1>21 DEF Cancel, Return, TypeOK, unchangedByWrite, call, tables
<1>22. CASE UNCHANGED vars
  BY <1>22 DEF vars, TypeOK
<1> QED
  BY <1>1, <1>2, <1>3, <1>4, <1>5, <1>6, <1>7, <1>8, <1>9, <1>10, <1>11,
     <1>12, <1>13, <1>14, <1>15, <1>16, <1>17, <1>18, <1>19, <1>20, <1>21,
     <1>22
  DEF Next, Calling, Running, Coalescing, WritingOut

-----------------------------------------------------------------------------
(* What a step inside a call does to the buffers. *)

(* The buffers the loop has passed do not shrink, those it has not reached *)
(* stay as they are, and none outgrows its capacity.                       *)
BufEffect ==
  /\ pkts' = pkts /\ offset' = offset
  /\ DOMAIN bufs' = DOMAIN bufs
  /\ pkt_i' >= pkt_i
  /\ \A j \in DOMAIN bufs :
       /\ j < pkt_i => bufs'[j].len >= bufs[j].len
       /\ j >= pkt_i' => bufs'[j] = bufs[j]
       /\ bufs'[j].len <= bufs'[j].cap

(* What the type invariant says of a buffer. *)
LEMMA BufFacts ==
  ASSUME TypeOK
  PROVE  \A j \in DOMAIN bufs :
           /\ j \in Nat /\ j \in 1..Len(bufs)
           /\ bufs[j] \in Buffer
           /\ bufs[j].len \in Nat /\ bufs[j].cap \in Nat
<1>1. bufs \in Seq(Buffer)
  BY DEF TypeOK
<1>2. \A j \in DOMAIN bufs : j \in Nat /\ j \in 1..Len(bufs) /\ bufs[j] \in Buffer
  BY <1>1
<1>3. \A b \in Buffer : b.len \in Nat /\ b.cap \in Nat
  BY DEF Buffer
<1> QED BY <1>2, <1>3

(* A step that leaves the buffers alone. *)
LEMMA SameBufs ==
  ASSUME TypeOK, NoRealloc, pkts' = pkts, offset' = offset, bufs' = bufs,
         pkt_i' \in {pkt_i, pkt_i + 1}
  PROVE  BufEffect
<1>1. pkt_i' >= pkt_i
  BY DEF TypeOK
<1>2. \A j \in DOMAIN bufs : bufs[j].len \in Nat
  BY BufFacts
<1> QED BY <1>1, <1>2 DEF BufEffect, NoRealloc

(* A step that replaces one buffer. *)
LEMMA OneBuf ==
  ASSUME TypeOK, NoRealloc, pkts' = pkts, offset' = offset,
         pkt_i' \in {pkt_i, pkt_i + 1},
         NEW i \in DOMAIN bufs, NEW v, bufs' = [bufs EXCEPT ![i] = v],
         i < pkt_i', v.len >= bufs[i].len, v.len <= v.cap
  PROVE  BufEffect
<1>1. pkt_i' >= pkt_i /\ pkt_i' \in Nat /\ i \in Nat
  BY DEF TypeOK
<1>2. \A j \in DOMAIN bufs : bufs[j].len \in Nat /\ j \in Nat
  BY BufFacts
<1>3. DOMAIN bufs' = DOMAIN bufs
      /\ \A j \in DOMAIN bufs : bufs'[j] = IF j = i THEN v ELSE bufs[j]
  BY DEF TypeOK
<1> QED BY <1>1, <1>2, <1>3 DEF BufEffect, NoRealloc

(* Noop writes a header in front of its packet. *)
LEMMA NoopEffect ==
  ASSUME TypeOK, NoRealloc, pkt_i \in DOMAIN pkts, Noop
  PROVE  BufEffect
<1> DEFINE v == [bufs[pkt_i] EXCEPT !.vnet = "none"]
<1>1. pkt_i \in DOMAIN bufs /\ bufs[pkt_i] \in Buffer /\ pkt_i \in Nat
  BY DEF TypeOK
<1>2. v.len = bufs[pkt_i].len /\ v.cap = bufs[pkt_i].cap
  BY <1>1 DEF Buffer
<1>3. bufs[pkt_i].len \in Nat /\ bufs[pkt_i].len <= bufs[pkt_i].cap
  BY <1>1 DEF Buffer, NoRealloc
<1>4. bufs' = [bufs EXCEPT ![pkt_i] = v] /\ pkts' = pkts /\ offset' = offset
      /\ pkt_i' = pkt_i + 1
  BY DEF Noop, NextPacket, call
<1>5. v.len >= bufs[pkt_i].len /\ v.len <= v.cap /\ pkt_i < pkt_i'
  BY <1>1, <1>2, <1>3, <1>4
<1> HIDE DEF v
<1> QED BY <1>1, <1>4, <1>5, OneBuf

(* The room that HasRoom asks for is enough for what is appended. *)
LEMMA RoomSuffices ==
  ASSUME TypeOK, NEW item, item.bufs_index \in DOMAIN bufs, Pkt.plen \in Nat,
         NEW b \in Buffer, HasRoom(b, CoalescedLen(Pkt, item))
  PROVE  bufs[item.bufs_index].len + Pkt.plen <= b.cap
<1>1. bufs[item.bufs_index].len \in Nat /\ offset \in Nat /\ b.cap \in Nat
  BY BufFacts DEF TypeOK, Buffer
<1> QED BY <1>1 DEF HasRoom, CoalescedLen

(* Removing an item zeroes the header of its buffer. *)
LEMMA ItemInvalidEffect ==
  ASSUME TypeOK, NoRealloc, LoopInv, ItemInv, ScanItemInvalid
  PROVE  BufEffect
<1> DEFINE i == TcpItem.bufs_index
           v == [bufs[i] EXCEPT !.vnet = "none"]
<1>1. i \in DOMAIN bufs /\ bufs[i] \in Buffer /\ i < pkt_i
  BY ScanFacts DEF ScanItemInvalid, ItemOk, Passed
<1>2. v.len = bufs[i].len /\ v.cap = bufs[i].cap
  BY <1>1 DEF Buffer
<1>3. bufs[i].len \in Nat /\ bufs[i].len <= bufs[i].cap
  BY <1>1 DEF Buffer, NoRealloc
<1>4. bufs' = [bufs EXCEPT ![i] = v] /\ pkts' = pkts /\ offset' = offset
      /\ pkt_i' = pkt_i
  BY DEF ScanItemInvalid, ZeroHeader, call
<1>5. v.len >= bufs[i].len /\ v.len <= v.cap /\ i < pkt_i'
  BY <1>1, <1>2, <1>3, <1>4
<1> HIDE DEF v, i
<1> QED BY <1>1, <1>4, <1>5, OneBuf

(* Appending: the item's buffer has the room that was asked for. *)
LEMMA AppendEffect ==
  ASSUME TypeOK, NoRealloc, LoopInv, ItemInv, ScanAppend
  PROVE  BufEffect
<1> DEFINE i == TcpItem.bufs_index
           v == AppendedBuf(bufs[i])
<1>1. /\ i \in DOMAIN bufs /\ bufs[i] \in Buffer /\ i < pkt_i
      /\ pkt_i \in DOMAIN pkts
  BY ScanFacts DEF ScanAppend, TcpMerge, ItemOk, Passed
<1>2. Pkt.plen \in Nat /\ pkt_i \in Nat /\ i \in Nat
  BY <1>1, PktFacts DEF TypeOK
<1>3. v.len = bufs[i].len + Pkt.plen /\ v.cap = bufs[i].cap
  BY <1>1 DEF Buffer, AppendedBuf
<1>4. HasRoom(bufs[i], CoalescedLen(Pkt, TcpItem))
  BY DEF ScanAppend, TcpMerge, TcpTry, GrowingBuf
<1>5. bufs[i].len \in Nat /\ bufs[i].len + Pkt.plen <= bufs[i].cap
  BY <1>1, <1>2, <1>4, RoomSuffices DEF Buffer
<1>6. bufs' = [bufs EXCEPT ![i] = v] /\ pkts' = pkts /\ offset' = offset
      /\ pkt_i' = pkt_i + 1
  BY DEF ScanAppend, Coalesced, NextPacket, call
<1> HIDE DEF v
<1>7. v.len >= bufs[i].len /\ v.len <= v.cap /\ i < pkt_i'
  BY <1>1, <1>2, <1>3, <1>5, <1>6
<1> HIDE DEF i
<1> QED BY <1>1, <1>6, <1>7, OneBuf

(* The same for udp_gro. *)
LEMMA UdpAppendEffect ==
  ASSUME TypeOK, NoRealloc, LoopInv, ItemInv, UdpAppend
  PROVE  BufEffect
<1> DEFINE i == UdpItem.bufs_index
           v == [bufs[i] EXCEPT !.segs = Append(@, pkt_i), !.len = @ + Pkt.plen]
<1>1. /\ i \in DOMAIN bufs /\ bufs[i] \in Buffer /\ i < pkt_i
      /\ pkt_i \in DOMAIN pkts
  BY UdpFacts DEF UdpAppend, ItemOk, Passed
<1>2. Pkt.plen \in Nat /\ pkt_i \in Nat /\ i \in Nat
  BY <1>1, PktFacts DEF TypeOK
<1>3. v.len = bufs[i].len + Pkt.plen /\ v.cap = bufs[i].cap
  BY <1>1 DEF Buffer
<1>4. HasRoom(bufs[i], CoalescedLen(Pkt, UdpItem))
  BY DEF UdpAppend, UdpTry
<1>5. bufs[i].len \in Nat /\ bufs[i].len + Pkt.plen <= bufs[i].cap
  BY <1>1, <1>2, <1>4, RoomSuffices DEF Buffer
<1>6. bufs' = [bufs EXCEPT ![i] = v]
  BY <1>1 DEF UdpAppend, TypeOK
<1>7. pkts' = pkts /\ offset' = offset /\ pkt_i' = pkt_i + 1
  BY DEF UdpAppend, Coalesced, NextPacket, call
<1> HIDE DEF v
<1>8. v.len >= bufs[i].len /\ v.len <= v.cap /\ i < pkt_i'
  BY <1>1, <1>2, <1>3, <1>5, <1>7
<1> HIDE DEF i
<1> QED BY <1>1, <1>6, <1>7, <1>8, OneBuf

(* The packet's own buffer, still as the caller filled it, takes the       *)
(* item's payload and the item's place.                                    *)
LEMMA PrependEffect ==
  ASSUME TypeOK, NoRealloc, LoopInv, FreshInv, ItemInv, ScanPrepend
  PROVE  BufEffect
<1> DEFINE i == TcpItem.bufs_index
           v == PrependedBuf(bufs[pkt_i], bufs[i])
           old == bufs[i]
<1>1. /\ i \in DOMAIN bufs /\ old \in Buffer /\ i < pkt_i
      /\ pkt_i \in DOMAIN pkts /\ IsTcp(Pkt)
  BY ScanFacts DEF ScanPrepend, TcpMerge, ItemOk, Passed
<1>2. /\ Pkt.plen \in Nat /\ pkt_i \in Nat /\ i \in Nat /\ pkt_i \in DOMAIN bufs
      /\ bufs[pkt_i] \in Buffer
  BY <1>1, PktFacts DEF TypeOK
<1>3. bufs[pkt_i].len = offset + HdrLen + Pkt.plen
  <2>1. pc = "scan"
    BY DEF ScanPrepend, TcpMerge, Scanning
  <2>2. bufs[pkt_i] = CallerBuf(pkts, offset, pkt_i)
    BY <1>2, <2>1 DEF FreshInv
  <2> QED BY <1>1, <2>2 DEF CallerBuf, BufLen, IsTcp, Pkt
<1>4. v.len = bufs[pkt_i].len + (old.len - offset - HdrLen)
      /\ v.cap = bufs[pkt_i].cap
  BY <1>2 DEF Buffer, PrependedBuf, Payload
<1>5. v.len = old.len + Pkt.plen
  <2>1. old.len \in Nat /\ offset \in Nat /\ HdrLen \in Nat
    BY <1>1, SizeAssumption DEF Buffer, TypeOK
  <2> HIDE DEF v, old
  <2> QED BY <1>2, <1>3, <1>4, <2>1
<1>6. HasRoom(bufs[pkt_i], CoalescedLen(Pkt, TcpItem))
  BY DEF ScanPrepend, TcpMerge, TcpTry, GrowingBuf, CanPrepend, CanAppend
<1>7. old.len \in Nat /\ old.len + Pkt.plen <= bufs[pkt_i].cap
      /\ old.len <= old.cap
  BY <1>1, <1>2, <1>6, RoomSuffices DEF Buffer, NoRealloc
<1>8. bufs' = [bufs EXCEPT ![i] = v, ![pkt_i] = old]
  BY DEF ScanPrepend, SwapIn
<1>9. pkts' = pkts /\ offset' = offset /\ pkt_i' = pkt_i + 1
  BY DEF ScanPrepend, Coalesced, NextPacket, call
<1> HIDE DEF v, old, i
<1>10. DOMAIN bufs' = DOMAIN bufs
       /\ \A j \in DOMAIN bufs :
            bufs'[j] = IF j = pkt_i THEN old ELSE IF j = i THEN v ELSE bufs[j]
  BY <1>8
<1>11. v.len >= old.len /\ v.len <= v.cap
  BY <1>2, <1>4, <1>5, <1>7
<1>12. \A j \in DOMAIN bufs : j \in Nat /\ bufs[j].len \in Nat
                              /\ bufs[j].len <= bufs[j].cap
  BY BufFacts DEF NoRealloc
<1>13. old = bufs[i]
  BY DEF old
<1> QED
  BY <1>1, <1>2, <1>7, <1>9, <1>10, <1>11, <1>12, <1>13 DEF BufEffect

(* The accounting changes no length. *)
LEMMA AccountEffect ==
  ASSUME TypeOK, NoRealloc, LoopInv, GroAccount
  PROVE  BufEffect
<1>1. pkts' = pkts /\ offset' = offset /\ pkt_i' = pkt_i /\ pkt_i > Len(bufs)
      /\ DOMAIN bufs' = DOMAIN bufs /\ pkt_i \in Nat
  BY DEF GroAccount, call, TypeOK
<1>2. ASSUME NEW b \in Buffer, NEW item
      PROVE  Account(b, item).len = b.len /\ Account(b, item).cap = b.cap
  BY DEF Account, Buffer
<1>3. ASSUME NEW j \in DOMAIN bufs
      PROVE  /\ bufs[j].len \in Nat /\ bufs[j].len <= bufs[j].cap /\ j < pkt_i
             /\ bufs'[j].len = bufs[j].len /\ bufs'[j].cap = bufs[j].cap
  <2>1. bufs[j] \in Buffer /\ bufs[j].len \in Nat /\ j \in 1..Len(bufs)
    BY BufFacts
  <2>2. bufs[j].len <= bufs[j].cap /\ j < pkt_i
    BY <1>1, <2>1 DEF NoRealloc, TypeOK
  <2>3. bufs'[j] = IF ItemsAt(j) = {} THEN bufs[j]
                   ELSE Account(bufs[j], CHOOSE item \in ItemsAt(j) : TRUE)
    BY DEF GroAccount
  <2>4. bufs'[j].len = bufs[j].len /\ bufs'[j].cap = bufs[j].cap
    BY <1>2, <2>1, <2>3
  <2> QED BY <2>1, <2>2, <2>4
<1>4. \A j \in DOMAIN bufs : j \in Nat
  BY DEF TypeOK
<1> QED BY <1>1, <1>3, <1>4 DEF BufEffect

-----------------------------------------------------------------------------
(* Tables. *)

(* Pointing into a set is pointing into a larger one. *)
LEMMA PointsMono ==
  ASSUME NEW t, NEW W, NEW X, W \subseteq X, PointsInto(t, W)
  PROVE  PointsInto(t, X)
  BY DEF PointsInto

(* u has items of t only, each at most once: a merge, or a removal. *)
SubTable(u, t) ==
  \A f \in Flow :
    \E m \in [DOMAIN u[f] -> DOMAIN t[f]] :
      /\ \A j, k \in DOMAIN u[f] : m[j] = m[k] => j = k
      /\ \A k \in DOMAIN u[f] : u[f][k].bufs_index = t[f][m[k]].bufs_index

(* A subtable points where the table points. *)
LEMMA SubTablePoints ==
  ASSUME NEW t, NEW u, SubTable(u, t), NEW W, PointsInto(t, W)
  PROVE  PointsInto(u, W)
<1> SUFFICES ASSUME NEW f \in Flow, NEW k \in DOMAIN u[f]
             PROVE  u[f][k].bufs_index \in W
  BY DEF PointsInto
<1>1. PICK m \in [DOMAIN u[f] -> DOMAIN t[f]] :
        u[f][k].bufs_index = t[f][m[k]].bufs_index
  BY DEF SubTable
<1>2. m[k] \in DOMAIN t[f]
  OBVIOUS
<1> QED BY <1>1, <1>2 DEF PointsInto

(* A subtable of distinct items has distinct items. *)
LEMMA SubTableDistinct ==
  ASSUME NEW t, NEW u, SubTable(u, t), Distinct(t)
  PROVE  Distinct(u)
<1> SUFFICES ASSUME NEW f \in Flow, NEW g \in Flow,
                    NEW j \in DOMAIN u[f], NEW k \in DOMAIN u[g],
                    u[f][j].bufs_index = u[g][k].bufs_index
             PROVE  f = g /\ j = k
  BY DEF Distinct
<1>1. PICK m \in [DOMAIN u[f] -> DOMAIN t[f]] :
        /\ \A a, b \in DOMAIN u[f] : m[a] = m[b] => a = b
        /\ \A a \in DOMAIN u[f] : u[f][a].bufs_index = t[f][m[a]].bufs_index
  BY DEF SubTable
<1>2. PICK n \in [DOMAIN u[g] -> DOMAIN t[g]] :
        \A a \in DOMAIN u[g] : u[g][a].bufs_index = t[g][n[a]].bufs_index
  BY DEF SubTable
<1>3. m[j] \in DOMAIN t[f] /\ n[k] \in DOMAIN t[g]
  OBVIOUS
<1>4. f = g
  BY <1>1, <1>2, <1>3 DEF Distinct
<1>5. m[k] \in DOMAIN t[f] /\ t[f][m[j]].bufs_index = t[f][m[k]].bufs_index
  BY <1>1, <1>4
<1>6. m[j] = m[k]
  BY <1>3, <1>5 DEF Distinct
<1> QED BY <1>1, <1>4, <1>6

(* A subtable is disjoint from what the table is disjoint from. *)
LEMMA SubTableDisjoint ==
  ASSUME NEW t, NEW u, SubTable(u, t), NEW x
  PROVE  /\ Disjoint(t, x) => Disjoint(u, x)
         /\ Disjoint(x, t) => Disjoint(x, u)
<1>1. ASSUME NEW f \in Flow, NEW k \in DOMAIN u[f]
      PROVE  \E a \in DOMAIN t[f] : u[f][k].bufs_index = t[f][a].bufs_index
  <2>1. PICK m \in [DOMAIN u[f] -> DOMAIN t[f]] :
          u[f][k].bufs_index = t[f][m[k]].bufs_index
    BY DEF SubTable
  <2>2. m[k] \in DOMAIN t[f]
    OBVIOUS
  <2> QED BY <2>1, <2>2
<1> QED BY <1>1 DEF Disjoint

(* An item is replaced by one that points at the same buffer. *)
LEMMA ReplaceSub ==
  ASSUME NEW S, NEW t \in [Flow -> Seq(S)], NEW f \in Flow,
         NEW k \in DOMAIN t[f], NEW item,
         item.bufs_index = t[f][k].bufs_index,
         NEW u, u = [t EXCEPT ![f] = [t[f] EXCEPT ![k] = item]]
  PROVE  SubTable(u, t)
<1> SUFFICES ASSUME NEW g \in Flow
             PROVE  \E m \in [DOMAIN u[g] -> DOMAIN t[g]] :
                      /\ \A i, j \in DOMAIN u[g] : m[i] = m[j] => i = j
                      /\ \A i \in DOMAIN u[g] :
                           u[g][i].bufs_index = t[g][m[i]].bufs_index
  BY DEF SubTable
<1>1. DOMAIN u[g] = DOMAIN t[g]
      /\ \A i \in DOMAIN t[g] : u[g][i].bufs_index = t[g][i].bufs_index
  OBVIOUS
<1> WITNESS [i \in DOMAIN u[g] |-> i] \in [DOMAIN u[g] -> DOMAIN t[g]]
<1> QED BY <1>1

(* An item is removed. *)
LEMMA RemoveSub ==
  ASSUME NEW S, NEW t \in [Flow -> Seq(S)], NEW f \in Flow,
         NEW k \in DOMAIN t[f],
         NEW u, u = [t EXCEPT ![f] = RemoveAt(t[f], k)]
  PROVE  SubTable(u, t)
<1> SUFFICES ASSUME NEW g \in Flow
             PROVE  \E m \in [DOMAIN u[g] -> DOMAIN t[g]] :
                      /\ \A i, j \in DOMAIN u[g] : m[i] = m[j] => i = j
                      /\ \A i \in DOMAIN u[g] :
                           u[g][i].bufs_index = t[g][m[i]].bufs_index
  BY DEF SubTable
<1>1. CASE g # f
  <2>1. u[g] = t[g]
    BY <1>1
  <2> DEFINE m == [i \in DOMAIN t[g] |-> i]
  <2>2. m \in [DOMAIN u[g] -> DOMAIN t[g]]
    BY <2>1
  <2> QED BY <2>1, <2>2
<1>2. CASE g = f
  <2> DEFINE s == t[f]
             r == RemoveAt(s, k)
             m == [i \in DOMAIN r |-> IF i < k THEN i ELSE i + 1]
  <2>1. s \in Seq(S) /\ k \in DOMAIN s /\ u[g] = r
    BY <1>2
  <2> HIDE DEF s
  <2>2. r \in Seq(S) /\ Len(r) = Len(s) - 1
        /\ \A i \in 1..Len(s) - 1 : r[i] = IF i < k THEN s[i] ELSE s[i + 1]
    BY <2>1, RemoveSeq
  <2> HIDE DEF r
  <2>3. DOMAIN r = 1..Len(s) - 1 /\ k \in 1..Len(s) /\ DOMAIN s = 1..Len(s)
        /\ Len(s) \in Nat
    BY <2>1, <2>2
  <2>4. m \in [DOMAIN r -> DOMAIN s]
    BY <2>3
  <2>5. \A i, j \in DOMAIN r : m[i] = m[j] => i = j
    BY <2>3
  <2>6. \A i \in DOMAIN r : r[i] = s[m[i]]
    BY <2>2, <2>3
  <2> HIDE DEF m
  <2>7. t[g] = s
    BY <1>2 DEF s
  <2> QED BY <2>1, <2>4, <2>5, <2>6, <2>7
<1> QED BY <1>1, <1>2

(* u is t with one more item. *)
OneMore(u, t, item) ==
  \E f \in Flow : \E n \in Nat :
    \A g \in Flow : \A k \in DOMAIN u[g] :
      \/ k \in DOMAIN t[g] /\ u[g][k] = t[g][k]
      \/ g = f /\ k = n /\ u[g][k] = item

(* Appending an item to a flow. *)
LEMMA AppendIsOneMore ==
  ASSUME NEW S, NEW t \in [Flow -> Seq(S)], NEW f \in Flow, NEW item \in S,
         NEW u, u = [t EXCEPT ![f] = Append(t[f], item)]
  PROVE  OneMore(u, t, item)
<1> DEFINE n == Len(t[f]) + 1
<1>1. n \in Nat
  OBVIOUS
<1>2. ASSUME NEW g \in Flow, NEW k \in DOMAIN u[g]
      PROVE  \/ k \in DOMAIN t[g] /\ u[g][k] = t[g][k]
             \/ g = f /\ k = n /\ u[g][k] = item
  OBVIOUS
<1> HIDE DEF n
<1> QED BY <1>1, <1>2 DEF OneMore

(* The table with one more item points where both do. *)
LEMMA OneMorePoints ==
  ASSUME NEW t, NEW u, NEW item, OneMore(u, t, item),
         NEW W, PointsInto(t, W), item.bufs_index \in W
  PROVE  PointsInto(u, W)
  BY DEF OneMore, PointsInto

(* An item that points elsewhere keeps the items distinct. *)
LEMMA OneMoreDistinct ==
  ASSUME NEW t, NEW u, NEW item, OneMore(u, t, item),
         NEW W, PointsInto(t, W), item.bufs_index \notin W, Distinct(t)
  PROVE  Distinct(u)
<1> SUFFICES ASSUME NEW g \in Flow, NEW h \in Flow,
                    NEW j \in DOMAIN u[g], NEW k \in DOMAIN u[h],
                    u[g][j].bufs_index = u[h][k].bufs_index
             PROVE  g = h /\ j = k
  BY DEF Distinct
<1>1. PICK f \in Flow : \E n \in Nat :
        /\ \/ j \in DOMAIN t[g] /\ u[g][j] = t[g][j]
           \/ g = f /\ j = n /\ u[g][j] = item
        /\ \/ k \in DOMAIN t[h] /\ u[h][k] = t[h][k]
           \/ h = f /\ k = n /\ u[h][k] = item
  BY DEF OneMore
<1> QED BY <1>1 DEF Distinct, PointsInto

(* And keeps the tables disjoint. *)
LEMMA OneMoreDisjoint ==
  ASSUME NEW t, NEW u, NEW item, OneMore(u, t, item),
         NEW x, NEW W, PointsInto(x, W), item.bufs_index \notin W
  PROVE  /\ Disjoint(t, x) => Disjoint(u, x)
         /\ Disjoint(x, t) => Disjoint(x, u)
<1>1. ASSUME NEW g \in Flow, NEW k \in DOMAIN u[g]
      PROVE  \/ k \in DOMAIN t[g] /\ u[g][k] = t[g][k]
             \/ u[g][k] = item
  BY DEF OneMore
<1> QED BY <1>1 DEF Disjoint, PointsInto

-----------------------------------------------------------------------------
(* Steps inside a call. *)

InCall == Running \/ Cancel \/ UNCHANGED vars

(* Every step inside a call has that effect. *)
LEMMA EffectStep ==
  ASSUME IInv, InCall
  PROVE  BufEffect
<1> USE DEF IInv
<1>1. CASE GroInvalidOffset
  BY <1>1, SameBufs DEF GroInvalidOffset, call
<1>2. CASE GroNoop
  <2>1. pkt_i \in DOMAIN pkts /\ Noop
    BY <1>2 DEF GroNoop, InLoop, LoopInv, TypeOK
  <2> QED BY <2>1, NoopEffect
<1>3. CASE TcpLookup
  BY <1>3, SameBufs DEF TcpLookup, call
<1>4. CASE ScanSkip
  BY <1>4, SameBufs DEF ScanSkip, call
<1>5. CASE ScanItemInvalid
  BY <1>5, ItemInvalidEffect
<1>6. CASE ScanPktInvalid
  BY <1>6, ScanFacts, NoopEffect DEF ScanPktInvalid
<1>7. CASE ScanAppend
  BY <1>7, AppendEffect
<1>8. CASE ScanPrepend
  BY <1>8, PrependEffect
<1>9. CASE ScanInsert
  BY <1>9, SameBufs DEF ScanInsert, TableInsert, NextPacket, call
<1>10. CASE UdpAppend
  BY <1>10, UdpAppendEffect
<1>11. CASE UdpInsert
  BY <1>11, SameBufs DEF UdpInsert, TableInsert, NextPacket, call
<1>12. CASE GroAccount
  BY <1>12, AccountEffect
<1>13. CASE WritingOut \/ Cancel
  BY <1>13, SameBufs
  DEF WritingOut, WriteInvalidOffset, Write, WriteBadFd, Finish, Cancel,
      unchangedByWrite, call
<1>14. CASE UNCHANGED vars
  BY <1>14, SameBufs DEF vars
<1> QED
  BY <1>1, <1>2, <1>3, <1>4, <1>5, <1>6, <1>7, <1>8, <1>9, <1>10, <1>11,
     <1>12, <1>13, <1>14 DEF InCall, Running, Coalescing

(* The buffers that may be pointed at stay so. *)
LEMMA PassedGrows ==
  ASSUME TypeOK, BufEffect, pkt_i' \in Nat, bufs' \in Seq(Buffer),
         Len(bufs') = Len(bufs)
  PROVE  Passed \subseteq Passed'
<1> SUFFICES ASSUME NEW i \in Passed PROVE i \in Passed'
  OBVIOUS
<1>1. i \in DOMAIN pkts /\ i < pkt_i /\ bufs[i].len > offset + HdrLen
  BY DEF Passed
<1>2. i \in DOMAIN bufs /\ i \in DOMAIN bufs' /\ i \in Nat /\ pkt_i \in Nat
      /\ offset \in Nat /\ HdrLen \in Nat
  BY <1>1, SizeAssumption DEF TypeOK
<1>3. bufs[i] \in Buffer /\ bufs'[i] \in Buffer
  BY <1>2 DEF TypeOK
<1>4. bufs[i].len \in Nat /\ bufs'[i].len \in Nat
  BY <1>3 DEF Buffer
<1>5. bufs'[i].len >= bufs[i].len /\ pkt_i' >= pkt_i
      /\ pkts' = pkts /\ offset' = offset
  BY <1>1, <1>2 DEF BufEffect
<1>6. i < pkt_i' /\ bufs'[i].len > offset + HdrLen
  BY <1>1, <1>2, <1>4, <1>5
<1> QED BY <1>1, <1>5, <1>6 DEF Passed

(* Nothing inside a call goes back to the loop. *)
LEMMA LoopEnds ==
  ASSUME InCall
  PROVE  pc' \in {"gro", "scan"} => pc \in {"gro", "scan"}
  BY DEF InCall, Running, Coalescing, WritingOut, GroInvalidOffset, GroNoop,
         Noop, TcpLookup, ScanSkip, ScanItemInvalid, ScanPktInvalid,
         ScanAppend, ScanPrepend, TcpMerge, ScanInsert, UdpAppend, UdpInsert,
         UdpEligible, InLoop, Scanning, GroAccount, WriteInvalidOffset, Write,
         WriteBadFd, Finish, Cancel, Return, Writing, vars

(* Unread buffers stay as the caller filled them, and none outgrows its    *)
(* capacity.                                                               *)
LEMMA FreshStep ==
  ASSUME IInv, InCall, BufEffect, pkt_i' \in Nat
  PROVE  FreshInv' /\ NoRealloc'
<1>1. NoRealloc'
  BY DEF BufEffect, NoRealloc
<1>2. pc' \in {"gro", "scan"} => pc \in {"gro", "scan"}
  BY LoopEnds
<1>3. ASSUME pc \in {"gro", "scan"}, NEW j \in DOMAIN bufs, j >= pkt_i'
      PROVE  bufs'[j] = CallerBuf(pkts, offset, j)
  <2>1. j >= pkt_i
    BY <1>3 DEF BufEffect, IInv, TypeOK
  <2> QED BY <1>3, <2>1 DEF BufEffect, IInv, FreshInv
<1>4. \A j : CallerBuf(pkts, offset, j)' = CallerBuf(pkts, offset, j)
  BY DEF BufEffect, CallerBuf, BufLen
<1> QED BY <1>1, <1>2, <1>3, <1>4 DEF BufEffect, FreshInv

(* A mergeable packet the loop is at fills its buffer beyond the headers. *)
LEMMA FreshLen ==
  ASSUME IInv, pkt_i \in DOMAIN pkts, pc \in {"gro", "scan"},
         IsTcp(Pkt) \/ IsUdp(Pkt), Mergeable(Pkt)
  PROVE  bufs[pkt_i].len > offset + HdrLen
<1>1. pkt_i \in DOMAIN bufs /\ pkt_i >= pkt_i
  BY DEF IInv, TypeOK
<1>2. bufs[pkt_i] = CallerBuf(pkts, offset, pkt_i)
  BY <1>1 DEF IInv, FreshInv
<1>3. bufs[pkt_i].len = offset + HdrLen + Pkt.plen
  BY <1>2 DEF CallerBuf, BufLen, IsTcp, IsUdp, Pkt
<1>4. Pkt.plen \in Nat /\ Pkt.plen >= 1 /\ offset \in Nat /\ HdrLen \in Nat
  BY PktFacts, SizeAssumption DEF IInv, TypeOK, Mergeable
<1> QED BY <1>3, <1>4

(* The loop variables stay in range. *)
LEMMA LoopStep ==
  ASSUME IInv, InCall
  PROVE  LoopInv'
<1> USE DEF IInv
<1>1. ASSUME pkt_i \in DOMAIN pkts, pkts' = pkts, NextPacket PROVE LoopInv'
  BY <1>1 DEF NextPacket, LoopInv, TypeOK
<1>2. ASSUME pkts' = pkts, pkt_i' = pkt_i, pc' # "scan" PROVE LoopInv'
  BY <1>2 DEF LoopInv
<1>3. CASE GroInvalidOffset \/ GroAccount
  BY <1>2, <1>3 DEF GroInvalidOffset, GroAccount, Return, call
<1>4. CASE GroNoop
  <2>1. pkt_i \in DOMAIN pkts
    BY <1>4 DEF GroNoop, InLoop, LoopInv, TypeOK
  <2> QED BY <1>1, <1>4, <2>1 DEF GroNoop, Noop, call
<1>5. CASE TcpLookup
  <2>1. pkt_i \in DOMAIN pkts
    BY <1>5 DEF TcpLookup, InLoop, LoopInv, TypeOK
  <2>2. TcpItems \in Seq(TcpGROItem)
    BY <2>1, PktFacts DEF TypeOK, TcpItems
  <2>3. item_i' = Len(TcpItems) /\ Len(TcpItems) \in Nat
    BY <1>5, <2>2 DEF TcpLookup
  <2>4. TcpItems' = TcpItems /\ Pkt' = Pkt /\ dev' = dev
    BY <1>5 DEF TcpLookup, call, tables, TcpItems, Pkt
  <2>5. IsTcp(Pkt)' /\ Mergeable(Pkt)'
    BY <1>5, <2>4 DEF TcpLookup, IsTcp, Mergeable
  <2>6. pkt_i' \in DOMAIN pkts' /\ pkt_i' \in 1..Len(pkts') + 1
    BY <1>5, <2>1 DEF TcpLookup, call, TypeOK
  <2> QED BY <2>3, <2>4, <2>5, <2>6 DEF LoopInv
<1>6. CASE ScanSkip
  <2>1. /\ pkts' = pkts /\ pkt_i' = pkt_i /\ pc = "scan"
        /\ tcp_gro_table' = tcp_gro_table
        /\ item_i' = item_i - 1 /\ item_i \in Nat
    BY <1>6 DEF ScanSkip, call, tables, TypeOK, Scanning
  <2>2. TcpItems' = TcpItems /\ Pkt' = Pkt
    BY <2>1 DEF TcpItems, Pkt
  <2>3. IsTcp(Pkt)' /\ Mergeable(Pkt)' /\ item_i <= Len(TcpItems)
    BY <2>1, <2>2 DEF LoopInv, IsTcp, Mergeable
  <2>4. Len(TcpItems) \in Nat
    BY <1>6, ScanFacts DEF ScanSkip
  <2>5. item_i' <= Len(TcpItems)'
    BY <2>1, <2>2, <2>3, <2>4
  <2>6. pkt_i' \in DOMAIN pkts' /\ pkt_i' \in 1..Len(pkts') + 1
    BY <2>1 DEF LoopInv
  <2> QED BY <2>3, <2>5, <2>6 DEF LoopInv
<1>7. CASE ScanItemInvalid
  <2>1. /\ pkts' = pkts /\ pkt_i' = pkt_i /\ pc = "scan"
        /\ item_i' = item_i - 1 /\ item_i \in Nat
    BY <1>7 DEF ScanItemInvalid, call, TypeOK, Scanning
  <2>2. /\ item_i \in DOMAIN TcpItems /\ TcpItems \in Seq(TcpGROItem)
        /\ pkt_i \in DOMAIN pkts
    BY <1>7, ScanFacts DEF ScanItemInvalid
  <2>3. Pkt' = Pkt /\ Pkt.flow \in Flow
    BY <2>1, <2>2, PktFacts DEF Pkt
  <2>4. TcpItems' = RemoveAt(TcpItems, item_i)
    BY <1>7, <2>3 DEF ScanItemInvalid, TcpItems, TypeOK
  <2>5. Len(RemoveAt(TcpItems, item_i)) = Len(TcpItems) - 1
    BY <2>2, RemoveSeq
  <2>6. item_i' <= Len(TcpItems')
    BY <2>1, <2>2, <2>4, <2>5
  <2>7. IsTcp(Pkt)' /\ Mergeable(Pkt)'
    BY <2>1, <2>3 DEF LoopInv, IsTcp, Mergeable
  <2>8. pkt_i' \in DOMAIN pkts' /\ pkt_i' \in 1..Len(pkts') + 1
    BY <2>1 DEF LoopInv
  <2> QED BY <2>6, <2>7, <2>8 DEF LoopInv
<1>8. CASE ScanPktInvalid \/ ScanAppend \/ ScanPrepend
  <2>1. pkt_i \in DOMAIN pkts
    BY <1>8, ScanFacts DEF ScanPktInvalid, ScanAppend, ScanPrepend, TcpMerge
  <2> QED BY <1>1, <1>8, <2>1
          DEF ScanPktInvalid, ScanAppend, ScanPrepend, Noop, Coalesced, call
<1>9. CASE ScanInsert
  <2>1. pkt_i \in DOMAIN pkts
    BY <1>9 DEF ScanInsert, LoopInv
  <2> QED BY <1>1, <1>9, <2>1 DEF ScanInsert, TableInsert, call
<1>10. CASE UdpAppend \/ UdpInsert
  <2>1. pkt_i \in DOMAIN pkts
    BY <1>10 DEF UdpAppend, UdpInsert, UdpEligible, InLoop, LoopInv, TypeOK
  <2> QED BY <1>1, <1>10, <2>1 DEF UdpAppend, UdpInsert, Coalesced, TableInsert, call
<1>11. CASE WritingOut \/ Cancel
  BY <1>2, <1>11
  DEF WritingOut, WriteInvalidOffset, Write, WriteBadFd, Finish, Cancel,
      Return, Writing, unchangedByWrite, call
<1>12. CASE UNCHANGED vars
  BY <1>12 DEF vars, LoopInv, IsTcp, Mergeable, Pkt, TcpItems
<1> QED
  BY <1>3, <1>4, <1>5, <1>6, <1>7, <1>8, <1>9, <1>10, <1>11, <1>12
  DEF InCall, Running, Coalescing

(* to_write is left alone or the packet's index is pushed, by the actions  *)
(* that also move on to the next packet.                                   *)
Pushes ==
  \/ to_write' = to_write
  \/ /\ to_write' = Append(to_write, pkt_i)
     /\ pkt_i' = pkt_i + 1
     /\ pc \in {"gro", "scan"}

(* Every step inside a call does that to to_write. *)
LEMMA PushStep ==
  ASSUME IInv, InCall
  PROVE  Pushes
  BY DEF InCall, Running, Coalescing, WritingOut, GroInvalidOffset, GroNoop,
         Noop, TcpLookup, ScanSkip, ScanItemInvalid, ScanPktInvalid,
         ScanAppend, ScanPrepend, TcpMerge, ScanInsert, UdpAppend, UdpInsert,
         UdpEligible, InLoop, Scanning, GroAccount, WriteInvalidOffset, Write,
         WriteBadFd, Finish, Cancel, vars, TableInsert, Coalesced, NextPacket,
         unchangedByWrite, Pushes

(* to_write stays increasing. *)
LEMMA WriteStep ==
  ASSUME IInv, Pushes, pkt_i' >= pkt_i, pkt_i' \in Nat,
         pc' \in {"gro", "scan"} => pc \in {"gro", "scan"}
  PROVE  WriteInv' /\ ToSet(to_write) \subseteq ToSet(to_write')
<1> USE DEF IInv
<1>1. to_write \in Seq(DOMAIN pkts) /\ pkt_i \in Nat
  BY DEF TypeOK
<1>2. \A w \in DOMAIN to_write : to_write[w] \in Nat /\ w \in Nat
  BY DEF TypeOK
<1>3. CASE to_write' = to_write
  BY <1>1, <1>2, <1>3 DEF WriteInv
<1>4. CASE /\ to_write' = Append(to_write, pkt_i)
           /\ pkt_i' = pkt_i + 1
           /\ pc \in {"gro", "scan"}
  <2>1. DOMAIN to_write' = 1..Len(to_write) + 1
        /\ \A w \in DOMAIN to_write : w \in DOMAIN to_write' /\ to_write'[w] = to_write[w]
    BY <1>1, <1>4
  <2>2. to_write'[Len(to_write) + 1] = pkt_i
    BY <1>1, <1>4
  <2>3. \A w \in DOMAIN to_write' : w \in DOMAIN to_write \/ w = Len(to_write) + 1
    BY <1>1, <2>1
  <2>4. \A w \in DOMAIN to_write : to_write[w] < pkt_i /\ w < Len(to_write) + 1
    BY <1>1, <1>4 DEF WriteInv
  <2>5. \A v, w \in DOMAIN to_write' : v < w => to_write'[v] < to_write'[w]
    <3> SUFFICES ASSUME NEW v \in DOMAIN to_write', NEW w \in DOMAIN to_write',
                        v < w
                 PROVE  to_write'[v] < to_write'[w]
      OBVIOUS
    <3>1. v \in DOMAIN to_write
      BY <1>1, <2>1, <2>3
    <3>2. CASE w \in DOMAIN to_write
      BY <2>1, <3>1, <3>2 DEF WriteInv
    <3>3. CASE w = Len(to_write) + 1
      BY <2>1, <2>2, <2>4, <3>1, <3>3
    <3> QED BY <2>3, <3>2, <3>3
  <2>6. \A w \in DOMAIN to_write' : to_write'[w] < pkt_i'
    BY <1>1, <1>2, <1>4, <2>1, <2>2, <2>3, <2>4
  <2>7. ToSet(to_write) \subseteq ToSet(to_write')
    BY <2>1 DEF ToSet
  <2> QED BY <2>5, <2>6, <2>7 DEF WriteInv
<1> QED BY <1>3, <1>4 DEF Pushes

(* A table is a subtable of itself. *)
LEMMA SubTableRefl ==
  ASSUME NEW S, NEW t \in [Flow -> Seq(S)]
  PROVE  SubTable(t, t)
<1> SUFFICES ASSUME NEW f \in Flow
             PROVE  \E m \in [DOMAIN t[f] -> DOMAIN t[f]] :
                      /\ \A j, k \in DOMAIN t[f] : m[j] = m[k] => j = k
                      /\ \A k \in DOMAIN t[f] :
                           t[f][k].bufs_index = t[f][m[k]].bufs_index
  BY DEF SubTable
<1> DEFINE m == [k \in DOMAIN t[f] |-> k]
<1>1. m \in [DOMAIN t[f] -> DOMAIN t[f]]
  OBVIOUS
<1> QED BY <1>1

(* Except for the two inserts, no item is added to a table. *)
LEMMA ShrinkStep ==
  ASSUME IInv, InCall, ~ScanInsert, ~UdpInsert
  PROVE  SubTable(tcp_gro_table', tcp_gro_table)
         /\ SubTable(udp_gro_table', udp_gro_table)
<1> USE DEF IInv
<1>1. /\ tcp_gro_table \in [Flow -> Seq(TcpGROItem)]
      /\ udp_gro_table \in [Flow -> Seq(UdpGROItem)]
  BY DEF TypeOK
<1>2. SubTable(tcp_gro_table, tcp_gro_table) /\ SubTable(udp_gro_table, udp_gro_table)
  BY <1>1, SubTableRefl
<1>3. CASE ScanItemInvalid
  <2>1. item_i \in DOMAIN TcpItems /\ pkt_i \in DOMAIN pkts
    BY <1>3, ScanFacts DEF ScanItemInvalid
  <2>2. Pkt.flow \in Flow
    BY <2>1, PktFacts
  <2>3. /\ tcp_gro_table' = [tcp_gro_table EXCEPT ![Pkt.flow] =
                               RemoveAt(tcp_gro_table[Pkt.flow], item_i)]
        /\ udp_gro_table' = udp_gro_table
    BY <1>3 DEF ScanItemInvalid
  <2> QED BY <1>1, <1>2, <2>1, <2>2, <2>3, RemoveSub DEF TcpItems
<1>4. CASE ScanAppend
  <2>1. /\ item_i \in DOMAIN TcpItems /\ pkt_i \in DOMAIN pkts
        /\ TcpItem \in TcpGROItem
    BY <1>4, ScanFacts DEF ScanAppend, TcpMerge
  <2>2. Pkt.flow \in Flow
    BY <2>1, PktFacts
  <2>3. AppendedItem(TcpItem).bufs_index = TcpItem.bufs_index
    BY <2>1 DEF AppendedItem, Merged, TcpGROItem
  <2>4. /\ tcp_gro_table' =
             [tcp_gro_table EXCEPT ![Pkt.flow] =
               [tcp_gro_table[Pkt.flow] EXCEPT ![item_i] = AppendedItem(TcpItem)]]
        /\ udp_gro_table' = udp_gro_table
    BY <1>4 DEF ScanAppend
  <2> QED BY <1>1, <1>2, <2>1, <2>2, <2>3, <2>4, ReplaceSub DEF TcpItems, TcpItem
<1>5. CASE ScanPrepend
  <2>1. /\ item_i \in DOMAIN TcpItems /\ pkt_i \in DOMAIN pkts
        /\ TcpItem \in TcpGROItem
    BY <1>5, ScanFacts DEF ScanPrepend, TcpMerge
  <2>2. Pkt.flow \in Flow
    BY <2>1, PktFacts
  <2>3. PrependedItem(TcpItem).bufs_index = TcpItem.bufs_index
    BY <2>1 DEF PrependedItem, Merged, TcpGROItem
  <2>4. /\ tcp_gro_table' =
             [tcp_gro_table EXCEPT ![Pkt.flow] =
               [tcp_gro_table[Pkt.flow] EXCEPT ![item_i] = PrependedItem(TcpItem)]]
        /\ udp_gro_table' = udp_gro_table
    BY <1>5 DEF ScanPrepend
  <2> QED BY <1>1, <1>2, <2>1, <2>2, <2>3, <2>4, ReplaceSub DEF TcpItems, TcpItem
<1>6. CASE UdpAppend
  <2> DEFINE item == [UdpItem EXCEPT !.num_merged = @ + 1]
  <2>1. /\ UdpLast \in DOMAIN UdpItems /\ pkt_i \in DOMAIN pkts
        /\ UdpItem \in UdpGROItem
    BY <1>6, UdpFacts DEF UdpAppend
  <2>2. Pkt.flow \in Flow
    BY <2>1, PktFacts
  <2>3. item.bufs_index = UdpItem.bufs_index
    BY <2>1 DEF UdpGROItem
  <2>4. /\ udp_gro_table' = [udp_gro_table EXCEPT ![Pkt.flow] =
                               [udp_gro_table[Pkt.flow] EXCEPT ![UdpLast] = item]]
        /\ tcp_gro_table' = tcp_gro_table
    BY <1>6 DEF UdpAppend, UdpItem, UdpItems
  <2> HIDE DEF item
  <2> QED BY <1>1, <1>2, <2>1, <2>2, <2>3, <2>4, ReplaceSub DEF UdpItems, UdpItem
<1>7. CASE UNCHANGED tables
  BY <1>2, <1>7 DEF tables
<1> QED
  BY <1>3, <1>4, <1>5, <1>6, <1>7
  DEF InCall, Running, Coalescing, WritingOut, GroInvalidOffset, GroNoop,
      Noop, TcpLookup, ScanSkip, ScanPktInvalid, GroAccount,
      WriteInvalidOffset, Write, WriteBadFd, Finish, Cancel, unchangedByWrite,
      tables, vars

(* The items keep pointing at written, non-empty, distinct buffers. *)
LEMMA TableStep ==
  ASSUME IInv, InCall, Passed \subseteq Passed',
         ToSet(to_write) \subseteq ToSet(to_write')
  PROVE  ItemInv' /\ TableInv'
<1> USE DEF IInv
<1> DEFINE t == tcp_gro_table
           u == udp_gro_table
           W == ToSet(to_write)
<1>1. /\ t \in [Flow -> Seq(TcpGROItem)]
      /\ u \in [Flow -> Seq(UdpGROItem)]
  BY DEF TypeOK
<1>2. /\ PointsInto(t, Passed) /\ PointsInto(u, Passed)
      /\ PointsInto(t, W) /\ PointsInto(u, W)
      /\ Distinct(t) /\ Distinct(u) /\ Disjoint(t, u)
  BY DEF ItemInv, TableInv
<1>3. /\ PointsInto(t, Passed') /\ PointsInto(u, Passed')
      /\ PointsInto(t, W') /\ PointsInto(u, W')
  BY <1>2, PointsMono
<1>4. ASSUME pkt_i \in DOMAIN pkts, TableInsert,
             bufs[pkt_i].len > offset + HdrLen
      PROVE  pkt_i \in Passed' /\ pkt_i \notin Passed /\ pkt_i \in W'
  <2>1. pkt_i \in Nat /\ pkt_i' = pkt_i + 1 /\ pkts' = pkts
        /\ bufs' = bufs /\ offset' = offset /\ to_write' = Append(to_write, pkt_i)
    BY <1>4 DEF TableInsert, NextPacket, call, TypeOK
  <2>2. pkt_i \in Passed' /\ pkt_i \notin Passed
    BY <1>4, <2>1 DEF Passed
  <2>3. to_write \in Seq(DOMAIN pkts) /\ Len(to_write) \in Nat
    BY DEF TypeOK
  <2>4. Len(to_write) + 1 \in DOMAIN to_write'
        /\ to_write'[Len(to_write) + 1] = pkt_i
    BY <2>1, <2>3
  <2> QED BY <2>2, <2>4 DEF ToSet
<1>5. CASE ScanInsert
  <2> DEFINE item == NewTcpItem(Pkt, pkt_i)
  <2>1. pkt_i \in DOMAIN pkts /\ IsTcp(Pkt) /\ Mergeable(Pkt) /\ pc = "scan"
    BY <1>5 DEF ScanInsert, LoopInv
  <2>2. Pkt.flow \in Flow /\ Pkt.plen \in Nat /\ Pkt.seq \in Nat
        /\ Pkt.psh \in BOOLEAN /\ pkt_i \in Nat
    BY <2>1, PktFacts DEF TypeOK
  <2>3. item \in TcpGROItem /\ item.bufs_index = pkt_i
    BY <2>2 DEF NewTcpItem, TcpGROItem
  <2>4. bufs[pkt_i].len > offset + HdrLen
    BY <2>1, FreshLen
  <2>5. pkt_i \in Passed' /\ pkt_i \notin Passed /\ pkt_i \in W'
    BY <1>4, <1>5, <2>1, <2>4 DEF ScanInsert
  <2>6. OneMore(t', t, item) /\ u' = u
    BY <1>1, <1>5, <2>2, <2>3, AppendIsOneMore DEF ScanInsert
  <2> HIDE DEF item
  <2>7. /\ item.bufs_index \notin Passed
        /\ item.bufs_index \in Passed' /\ item.bufs_index \in W'
    BY <2>3, <2>5
  <2>8. Distinct(t')
    BY <1>2, <2>6, <2>7, OneMoreDistinct
  <2>9. Disjoint(t', u)
    BY <1>2, <2>6, <2>7, OneMoreDisjoint
  <2>10. PointsInto(t', Passed')
    BY <1>3, <2>6, <2>7, OneMorePoints
  <2>11. PointsInto(t', W')
    BY <1>3, <2>6, <2>7, OneMorePoints
  <2> QED BY <1>2, <1>3, <2>6, <2>8, <2>9, <2>10, <2>11 DEF ItemInv, TableInv, t, u, W
<1>6. CASE UdpInsert
  <2> DEFINE item == NewUdpItem(Pkt, pkt_i)
  <2>1. pkt_i \in DOMAIN pkts /\ IsUdp(Pkt) /\ Mergeable(Pkt) /\ pc = "gro"
    BY <1>6 DEF UdpInsert, UdpEligible, InLoop, LoopInv, TypeOK
  <2>2. Pkt.flow \in Flow /\ Pkt.plen \in Nat /\ pkt_i \in Nat
    BY <2>1, PktFacts DEF TypeOK
  <2>3. KnownInvalid \in BOOLEAN
    BY DEF KnownInvalid
  <2>4. item \in UdpGROItem /\ item.bufs_index = pkt_i
    BY <2>2, <2>3 DEF NewUdpItem, UdpGROItem
  <2>5. bufs[pkt_i].len > offset + HdrLen
    BY <2>1, FreshLen
  <2>6. pkt_i \in Passed' /\ pkt_i \notin Passed /\ pkt_i \in W'
    BY <1>4, <1>6, <2>1, <2>5 DEF UdpInsert
  <2>7. OneMore(u', u, item) /\ t' = t
    BY <1>1, <1>6, <2>2, <2>4, AppendIsOneMore DEF UdpInsert
  <2> HIDE DEF item
  <2>8. /\ item.bufs_index \notin Passed
        /\ item.bufs_index \in Passed' /\ item.bufs_index \in W'
    BY <2>4, <2>6
  <2>9. Distinct(u')
    BY <1>2, <2>7, <2>8, OneMoreDistinct
  <2>10. Disjoint(t, u')
    BY <1>2, <2>7, <2>8, OneMoreDisjoint
  <2>11. PointsInto(u', Passed')
    BY <1>3, <2>7, <2>8, OneMorePoints
  <2>12. PointsInto(u', W')
    BY <1>3, <2>7, <2>8, OneMorePoints
  <2> QED BY <1>2, <1>3, <2>7, <2>9, <2>10, <2>11, <2>12 DEF ItemInv, TableInv, t, u, W
<1>7. CASE ~ScanInsert /\ ~UdpInsert
  <2>1. SubTable(t', t) /\ SubTable(u', u)
    BY <1>7, ShrinkStep
  <2> HIDE DEF t, u, W
  <2>2. /\ PointsInto(t', Passed') /\ PointsInto(u', Passed')
        /\ PointsInto(t', W') /\ PointsInto(u', W')
    BY <1>3, <2>1, SubTablePoints
  <2>3. Distinct(t') /\ Distinct(u')
    BY <1>2, <2>1, SubTableDistinct
  <2>4. Disjoint(t', u')
    BY <1>2, <2>1, SubTableDisjoint
  <2> QED BY <2>2, <2>3, <2>4 DEF ItemInv, TableInv, t, u, W
<1> QED BY <1>5, <1>6, <1>7

-----------------------------------------------------------------------------
(* Entering a call: nothing of the previous one is left. *)
LEMMA EnterInv ==
  ASSUME TypeOK, NEW b \in Seq(Packet), NEW off \in Offsets, Enter(b, off),
         pc' # "scan"
  PROVE  LoopInv' /\ FreshInv' /\ NoRealloc' /\ ItemInv'
<1>1. off \in Nat /\ Len(b) \in Nat /\ DOMAIN b = 1..Len(b)
  BY SizeAssumption
<1>2. /\ pkts' = b /\ offset' = off /\ pkt_i' = 1
      /\ bufs' = [i \in 1..Len(b) |-> CallerBuf(b, off, i)]
      /\ tcp_gro_table' = EmptyTable /\ udp_gro_table' = EmptyTable
  BY DEF Enter, Reset
<1>3. LoopInv'
  BY <1>1, <1>2 DEF LoopInv
<1>4. FreshInv'
  <2>1. \A j \in DOMAIN bufs' : bufs'[j] = CallerBuf(b, off, j)
    BY <1>2
  <2> QED BY <1>2, <2>1 DEF FreshInv, CallerBuf, BufLen
<1>5. NoRealloc'
  <2>1. \A i \in DOMAIN b : CallerBuf(b, off, i).len <= CallerBuf(b, off, i).cap
    BY <1>1, CallerBufTyped
  <2> QED BY <1>1, <1>2, <2>1 DEF NoRealloc
<1>6. ItemInv'
  BY <1>2 DEF ItemInv, PointsInto, EmptyTable
<1> QED BY <1>3, <1>4, <1>5, <1>6

(* The tables are empty after entering a call. *)
LEMMA EnterTable ==
  ASSUME NEW b, NEW off, Enter(b, off)
  PROVE  TableInv'
  BY DEF Enter, Reset, EmptyTable, TableInv, PointsInto, Distinct, Disjoint

(* Every way to enter a call establishes the invariant. *)
LEMMA CallStep ==
  ASSUME IInv, Calling
  PROVE  LoopInv' /\ FreshInv' /\ NoRealloc' /\ ItemInv' /\ WriteInv' /\ TableInv'
<1>1. TypeOK
  BY DEF IInv
<1>2. PICK off \in Offsets : \E b \in Seq(Packet) :
        /\ Enter(b, off) /\ pc' # "scan"
        /\ \/ to_write' = <<>>
           \/ to_write' = [i \in 1..Len(b) |-> i] /\ pc' = "write"
  <2>1. <<>> \in Seq(Packet)
    OBVIOUS
  <2> QED BY <2>1, BatchSeq DEF Calling, CallEmpty, CallTooMany, CallGro,
             CallPlain, Return
<1>3. PICK b \in Seq(Packet) :
        /\ Enter(b, off) /\ pc' # "scan"
        /\ \/ to_write' = <<>>
           \/ to_write' = [i \in 1..Len(b) |-> i] /\ pc' = "write"
  BY <1>2
<1>4. LoopInv' /\ FreshInv' /\ NoRealloc' /\ ItemInv'
  BY <1>1, <1>3, EnterInv
<1>5. WriteInv'
  BY <1>3 DEF WriteInv
<1> QED BY <1>3, <1>4, <1>5, EnterTable

-----------------------------------------------------------------------------
(* Theorems. *)

(* The initial states satisfy the inductive invariant. *)
LEMMA InitIInv ==
  ASSUME Init
  PROVE  IInv
<1>1. TypeOK
  BY DEF Init, TypeOK, EmptyTable
<1>2. LoopInv /\ FreshInv /\ NoRealloc /\ WriteInv
  BY DEF Init, LoopInv, FreshInv, NoRealloc, WriteInv
<1>3. ItemInv /\ TableInv
  BY DEF Init, EmptyTable, ItemInv, TableInv, PointsInto, Distinct, Disjoint
<1> QED BY <1>1, <1>2, <1>3 DEF IInv

(* Every step of send_multiple keeps the inductive invariant. *)
LEMMA NextIInv ==
  ASSUME IInv, [Next]_vars
  PROVE  IInv'
<1>1. TypeOK'
  BY TypeStep DEF IInv
<1>2. CASE Calling
  BY <1>1, <1>2, CallStep DEF IInv
<1>3. CASE InCall
  <2>1. /\ pkt_i' \in Nat /\ bufs' \in Seq(Buffer) /\ Len(bufs') = Len(pkts')
        /\ to_write' \in Seq(DOMAIN pkts')
    BY <1>1 DEF TypeOK
  <2>2. BufEffect
    BY <1>3, EffectStep
  <2>3. pkts' = pkts /\ Len(bufs') = Len(bufs) /\ pkt_i' >= pkt_i
    BY <2>1, <2>2 DEF BufEffect, IInv, TypeOK
  <2>4. FreshInv' /\ NoRealloc'
    BY <1>3, <2>1, <2>2, FreshStep
  <2>5. LoopInv'
    BY <1>3, LoopStep
  <2>6. pc' \in {"gro", "scan"} => pc \in {"gro", "scan"}
    BY <1>3, LoopEnds
  <2>7. WriteInv' /\ ToSet(to_write) \subseteq ToSet(to_write')
    BY <1>3, <2>1, <2>3, <2>6, PushStep, WriteStep
  <2>8. Passed \subseteq Passed'
    BY <2>1, <2>2, <2>3, PassedGrows DEF IInv
  <2>9. ItemInv' /\ TableInv'
    BY <1>3, <2>8, <2>7, TableStep
  <2> QED BY <1>1, <2>4, <2>5, <2>7, <2>9 DEF IInv
<1> QED BY <1>2, <1>3 DEF Next, InCall

(* The inductive invariant holds of every state of send_multiple. *)
THEOREM Invariance == Spec => []IInv
<1>1. Init => IInv
  BY InitIInv
<1>2. IInv /\ [Next]_vars => IInv'
  BY NextIInv
<1> QED BY <1>1, <1>2, PTL DEF Spec

(* The state of the coalescer stays well typed, for all packets, offsets   *)
(* and bounds: the subtractions and the modulo in the accounting included. *)
THEOREM TypeCorrect == Spec => []TypeOK
<1>1. IInv => TypeOK
  BY DEF IInv
<1> QED BY <1>1, Invariance, PTL

(* Coalescing never makes a caller's buffer outgrow its capacity, whichever*)
(* packets are appended or prepended: the test for 2 * offset +            *)
(* coalesced_len looks at the buffer that grows.                           *)
THEOREM NeverReallocates == Spec => []NoRealloc
<1>1. IInv => NoRealloc
  BY DEF IInv
<1> QED BY <1>1, Invariance, PTL

(* The flow tables and to_write agree in every state of every call: items  *)
(* point at buffers that will be written, no two at the same one.          *)
THEOREM TablesAgree == Spec => []TableSound
<1>1. IInv => TableSound
  BY DEF IInv, WriteInv, TableInv, PointsInto, Distinct, Disjoint, TableSound
<1> QED BY <1>1, Invariance, PTL
=============================================================================
