------------------------------ MODULE GroBatch ------------------------------
(***************************************************************************)
(* One device's send_multiple calls on Linux: the batch of packet buffers  *)
(* handed over by the caller is coalesced in place (handle_gro), the       *)
(* surviving buffers get a virtio header, and each is written to the TUN   *)
(* file descriptor.  The synchronous DeviceImpl::send_multiple0 and        *)
(* AsyncDevice::send_multiple run the same steps; the asynchronous one may *)
(* also be dropped at any of its awaits (Cancel).                          *)
(*                                                                         *)
(* A packet is abstract: what the coalescer tells apart and nothing else.  *)
(*   kind   "tcp", "udp", "other" (not a GRO candidate) or "short" (the    *)
(*          buffer ends before the offset)                                 *)
(*   flow   the flow key: addresses, ports and, for TCP, the ack number    *)
(*   hdr    what must be equal to share a header: ToS, DF, TTL, TCP options*)
(*   seq    TCP sequence number, modulo SeqSpace                             *)
(*   plen   payload length                                                 *)
(*   psh    TCP PSH flag                                                   *)
(*   plain  well formed, unfragmented, flags ACK or ACK+PSH                *)
(*   csum   its transport checksum verifies                                *)
(*   spare  unused capacity of the buffer it arrived in                    *)
(* Buffers, items and to_write are numbered from 1 (the code: from 0).     *)
(***************************************************************************)
EXTENDS Integers, SequencesExt

CONSTANTS
  Device,      \* the devices: records of vnet_hdr and udp_gso
  Packet,      \* the packets a caller may send
  Flow,        \* flow keys
  HdrClass,    \* classes of coalescable headers
  HdrLen,      \* IP + transport header length
  VnetHdrLen,  \* VIRTIO_NET_HDR_LEN
  Offsets,     \* the offsets a caller may pass
  SeqSpace,      \* 2^32: TCP sequence numbers wrap
  MaxLen,      \* u16::MAX, as the largest packet length
  MaxBufs,     \* u16::MAX, as the largest number of buffers
  Batch,       \* the batches a caller may pass
  MaxCalls     \* bound: the number of calls

ASSUME SizeAssumption ==
  /\ HdrLen \in Nat \ {0}
  /\ VnetHdrLen \in Nat \ {0}
  /\ SeqSpace \in Nat \ {0}
  /\ MaxLen \in Nat \ {0}
  /\ MaxBufs \in Nat
  /\ MaxCalls \in Nat
  /\ Offsets \subseteq Nat

ASSUME DeviceAssumption == Device \subseteq [vnet_hdr : BOOLEAN, udp_gso : BOOLEAN]

ASSUME PacketAssumption ==
  Packet \subseteq [kind : {"tcp", "udp", "other", "short"}, flow : Flow,
                    hdr : HdrClass, seq : 0..SeqSpace-1, plen : Nat,
                    psh : BOOLEAN, plain : BOOLEAN, csum : BOOLEAN,
                    spare : Nat]

ASSUME BatchAssumption == Batch \subseteq Seq(Packet)

VARIABLES
  dev,            \* the device: vnet_hdr and udp_gso
  pkts,           \* the batch as the caller passed it
  offset,         \* the call's offset argument
  bufs,           \* the caller's buffers, modified in place
  tcp_gro_table,  \* items_by_flow of the TcpGROTable
  udp_gro_table,  \* items_by_flow of the UdpGROTable
  to_write,       \* GROTable::to_write
  pc,             \* where the call is
  pkt_i,          \* handle_gro's loop variable
  item_i,         \* tcp_gro's loop variable, counting down
  outcome,        \* outcome of each write so far, in the order of to_write
  result,         \* what the last call returned
  calls           \* number of calls so far

vars == <<dev, pkts, offset, bufs, tcp_gro_table, udp_gro_table, to_write,
          pc, pkt_i, item_i, outcome, result, calls>>
tables == <<tcp_gro_table, udp_gro_table>>
call == <<dev, pkts, offset, calls>>

(* A buffer: the packet whose headers are at its front, the packets whose  *)
(* payloads follow, the PSH bit of the header, the Vec's length and        *)
(* capacity, the virtio header in front of the packet ("stale": whatever   *)
(* the caller left there) with its gso_size, and the IP length field.      *)
Buffer == [head : Nat, segs : Seq(Nat), psh : BOOLEAN, len : Nat, cap : Nat,
           vnet : {"stale", "none", "gso"}, gso : Nat, lenf : Nat]

TcpGROItem == [bufs_index : Nat, num_merged : Nat, gso_size : Nat,
               sent_seq : Nat, psh_set : BOOLEAN]
UdpGROItem == [bufs_index : Nat, num_merged : Nat, gso_size : Nat,
               c_sum_known_invalid : BOOLEAN]

BufLen(p, off) == IF p.kind = "short" THEN 0 ELSE off + HdrLen + p.plen

(* The buffer of packet i as the caller filled it. *)
CallerBuf(b, off, i) ==
  [head |-> i, segs |-> <<i>>, psh |-> b[i].psh, len |-> BufLen(b[i], off),
   cap |-> BufLen(b[i], off) + b[i].spare, vnet |-> "stale", gso |-> 0,
   lenf |-> HdrLen + b[i].plen]

EmptyTable == [f \in Flow |-> <<>>]

TypeOK ==
  /\ dev \in Device
  /\ pkts \in Seq(Packet)
  /\ offset \in Nat
  /\ bufs \in Seq(Buffer)
  /\ Len(bufs) = Len(pkts)
  /\ tcp_gro_table \in [Flow -> Seq(TcpGROItem)]
  /\ udp_gro_table \in [Flow -> Seq(UdpGROItem)]
  /\ to_write \in Seq(DOMAIN pkts)
  /\ pc \in {"idle", "gro", "scan", "write"}
  /\ pkt_i \in Nat
  /\ item_i \in Nat
  /\ outcome \in Seq({"ok", "err", "badfd"})
  /\ result \in {"none", "ok", "err", "cancelled"}
  /\ calls \in Nat

Init ==
  /\ dev \in Device
  /\ pkts = <<>>
  /\ offset = 0
  /\ bufs = <<>>
  /\ tcp_gro_table = EmptyTable
  /\ udp_gro_table = EmptyTable
  /\ to_write = <<>>
  /\ pc = "idle"
  /\ pkt_i = 1
  /\ item_i = 0
  /\ outcome = <<>>
  /\ result = "none"
  /\ calls = 0

-----------------------------------------------------------------------------
(* Entering and leaving a call. *)

(* Mutant: the items of the previous call are kept. *)
ResetKeepsItems(table) == table

(* GROTable::reset: drain the items of every flow. *)
Reset(table) == EmptyTable

Return(r) == pc' = "idle" /\ result' = r

Ready == pc = "idle" /\ calls < MaxCalls

(* The first lines of send_multiple: reset the table, look at the batch. *)
Enter(b, off) ==
  /\ Ready
  /\ calls' = calls + 1
  /\ pkts' = b
  /\ offset' = off
  /\ bufs' = [i \in 1..Len(b) |-> CallerBuf(b, off, i)]
  /\ tcp_gro_table' = Reset(tcp_gro_table)
  /\ udp_gro_table' = Reset(udp_gro_table)
  /\ outcome' = <<>>
  /\ pkt_i' = 1
  /\ item_i' = 0
  /\ UNCHANGED dev

CallEmpty(off) ==
  /\ Enter(<<>>, off)
  /\ to_write' = <<>>
  /\ Return("ok")

CallTooMany(b, off) ==
  /\ Enter(b, off)
  /\ Len(b) > MaxBufs
  /\ to_write' = <<>>
  /\ Return("err")

CallGro(b, off) ==
  /\ Enter(b, off)
  /\ dev.vnet_hdr
  /\ Len(b) \in 1..MaxBufs
  /\ to_write' = <<>>
  /\ pc' = "gro"
  /\ result' = "none"

(* Without virtio headers every buffer is written as it is. *)
CallPlain(b, off) ==
  /\ Enter(b, off)
  /\ ~dev.vnet_hdr
  /\ Len(b) \in 1..MaxBufs
  /\ to_write' = [i \in 1..Len(b) |-> i]
  /\ pc' = "write"
  /\ result' = "none"

-----------------------------------------------------------------------------
(* handle_gro: one iteration of its loop per packet. *)

Pkt == pkts[pkt_i]

InvalidOffset == offset < VnetHdrLen \/ offset >= bufs[pkt_i].len

InLoop == pc = "gro" /\ pkt_i <= Len(pkts)

GroInvalidOffset ==
  /\ InLoop
  /\ InvalidOffset
  /\ Return("err")
  /\ UNCHANGED <<call, bufs, tables, to_write, pkt_i, item_i, outcome>>

(* packet_is_gro_candidate *)
IsTcp(p) == p.kind = "tcp"
IsUdp(p) == p.kind = "udp" /\ dev.udp_gso

(* The conditions on the packet alone under which tcp_gro and udp_gro give *)
(* it up with Noop.                                                        *)
Mergeable(p) == p.plain /\ HdrLen + p.plen <= MaxLen /\ p.plen >= 1

NextPacket == pkt_i' = pkt_i + 1 /\ pc' = "gro"

(* Mutant: the index pushed is off by one. *)
NoopOffByOne ==
  /\ bufs' = [bufs EXCEPT ![pkt_i].vnet = "none"]
  /\ to_write' = Append(to_write, pkt_i + 1)
  /\ NextPacket
  /\ UNCHANGED <<call, tables, item_i, outcome, result>>

(* GroResult::Noop: a default header, and the buffer is written as it is. *)
Noop ==
  /\ bufs' = [bufs EXCEPT ![pkt_i].vnet = "none"]
  /\ to_write' = Append(to_write, pkt_i)
  /\ NextPacket
  /\ UNCHANGED <<call, tables, item_i, outcome, result>>

GroNoop ==
  /\ InLoop
  /\ ~InvalidOffset
  /\ ~(IsTcp(Pkt) \/ IsUdp(Pkt)) \/ ~Mergeable(Pkt)
  /\ Noop

(* GroResult::TableInsert: the accounting will write the header. *)
TableInsert ==
  /\ to_write' = Append(to_write, pkt_i)
  /\ NextPacket
  /\ UNCHANGED <<call, bufs, item_i, outcome, result>>

(* GroResult::Coalesced: the buffer is dropped from the batch. *)
Coalesced ==
  /\ NextPacket
  /\ UNCHANGED <<call, to_write, item_i, outcome, result>>

Payload(b) == b.len - offset - HdrLen

(* coalesced_len: the packet in item's buffer, with p's payload. *)
CoalescedLen(p, item) == bufs[item.bufs_index].len - offset + p.plen

HasRoom(b, clen) == b.cap >= 2 * offset + clen

(* Mutant: the condition on num_merged is inverted. *)
ItemInvalidCSumLate(item) ==
  item.num_merged > 0 /\ ~pkts[bufs[item.bufs_index].head].csum

(* The item's own checksum is only looked at before its first merge. *)
ItemInvalidCSum(item) ==
  item.num_merged = 0 /\ ~pkts[bufs[item.bufs_index].head].csum

SameHeaders(p, item) == p.hdr = pkts[bufs[item.bufs_index].head].hdr

(* Mutant: a smaller packet at the end goes unnoticed. *)
FitsBehindAnyTail(p, item) == p.plen <= item.gso_size

(* Nothing may follow a packet smaller than gso_size, nor a smaller packet *)
(* be followed by a larger one.                                            *)
FitsBehind(p, item) ==
  /\ Payload(bufs[item.bufs_index]) % item.gso_size = 0
  /\ p.plen <= item.gso_size

-----------------------------------------------------------------------------
(* tcp_gro *)

TcpItems == tcp_gro_table[Pkt.flow]
TcpItem == TcpItems[item_i]

NewTcpItem(p, i) ==
  [bufs_index |-> i, num_merged |-> 0, gso_size |-> p.plen,
   sent_seq |-> p.seq, psh_set |-> p.psh]

(* lookup_or_insert: a flow without items is a scan that ends at once. *)
TcpLookup ==
  /\ InLoop
  /\ ~InvalidOffset
  /\ IsTcp(Pkt)
  /\ Mergeable(Pkt)
  /\ pc' = "scan"
  /\ item_i' = Len(TcpItems)
  /\ UNCHANGED <<call, bufs, tables, to_write, pkt_i, outcome, result>>

(* pkt continues, or directly precedes, item's sequence numbers. *)
Follows(p, item) ==
  p.seq = (item.sent_seq + item.gso_size + item.num_merged * item.gso_size)
            % SeqSpace
Precedes(p, item) == (p.seq + p.plen) % SeqSpace = item.sent_seq

CanAppend(p, item) ==
  /\ SameHeaders(p, item)
  /\ Follows(p, item)
  /\ ~item.psh_set
  /\ FitsBehind(p, item)

CanPrepend(p, item) ==
  /\ SameHeaders(p, item)
  /\ ~Follows(p, item)
  /\ Precedes(p, item)
  /\ ~p.psh
  /\ p.plen >= item.gso_size
  /\ p.plen > item.gso_size => item.num_merged = 0

(* Mutant: the capacity of the wrong buffer is looked at. *)
GrowingBufItemOnly(item) == bufs[item.bufs_index]

(* Appending grows item's buffer, prepending grows the packet's own. *)
GrowingBuf(item) ==
  IF CanAppend(Pkt, item) THEN bufs[item.bufs_index] ELSE bufs[pkt_i]

(* tcp_packets_can_coalesce allows it and the capacity suffices. *)
TcpTry(item) ==
  /\ CanAppend(Pkt, item) \/ CanPrepend(Pkt, item)
  /\ HasRoom(GrowingBuf(item), CoalescedLen(Pkt, item))

Scanning == pc = "scan" /\ item_i > 0

(* Mutant: the scan does not move on. *)
ScanSkipStuck ==
  /\ Scanning
  /\ ~TcpTry(TcpItem)
  /\ item_i' = item_i
  /\ UNCHANGED <<call, bufs, tables, to_write, pc, pkt_i, outcome, result>>

ScanSkip ==
  /\ Scanning
  /\ ~TcpTry(TcpItem)
  /\ item_i' = item_i - 1
  /\ UNCHANGED <<call, bufs, tables, to_write, pc, pkt_i, outcome, result>>

(* Mutant: the header of a removed item is left as it was. *)
ZeroHeaderForgotten(i) == bufs

(* The item leaves the table, so its virtio header is zeroed here. *)
ZeroHeader(i) == [bufs EXCEPT ![i].vnet = "none"]

ScanItemInvalid ==
  /\ Scanning
  /\ TcpTry(TcpItem)
  /\ ItemInvalidCSum(TcpItem)
  /\ bufs' = ZeroHeader(TcpItem.bufs_index)
  /\ tcp_gro_table' = [tcp_gro_table EXCEPT ![Pkt.flow] = RemoveAt(@, item_i)]
  /\ item_i' = item_i - 1
  /\ UNCHANGED <<call, udp_gro_table, to_write, pc, pkt_i, outcome, result>>

ScanPktInvalid ==
  /\ Scanning
  /\ TcpTry(TcpItem)
  /\ ~ItemInvalidCSum(TcpItem)
  /\ ~Pkt.csum
  /\ Noop

TcpMerge ==
  /\ Scanning
  /\ TcpTry(TcpItem)
  /\ ~ItemInvalidCSum(TcpItem)
  /\ Pkt.csum

Merged(item) ==
  [item EXCEPT !.num_merged = @ + 1,
               !.gso_size = IF Pkt.plen > @ THEN Pkt.plen ELSE @]

AppendedItem(item) ==
  [Merged(item) EXCEPT !.psh_set = @ \/ Pkt.psh]

AppendedBuf(b) ==
  [b EXCEPT !.segs = Append(@, pkt_i), !.len = @ + Pkt.plen,
            !.psh = @ \/ Pkt.psh]

ScanAppend ==
  /\ TcpMerge
  /\ CanAppend(Pkt, TcpItem)
  /\ tcp_gro_table' =
       [tcp_gro_table EXCEPT ![Pkt.flow][item_i] = AppendedItem(TcpItem)]
  /\ bufs' = [bufs EXCEPT ![TcpItem.bufs_index] = AppendedBuf(@)]
  /\ Coalesced
  /\ UNCHANGED udp_gro_table

(* The packet's buffer takes the item's payload and the item's place. *)
PrependedBuf(b, behind) ==
  [b EXCEPT !.segs = @ \o behind.segs, !.len = @ + Payload(behind)]

(* Mutant: the two buffers are not swapped. *)
SwapInNoSwap(item, new) == [bufs EXCEPT ![pkt_i] = new]

SwapIn(item, new) ==
  [bufs EXCEPT ![item.bufs_index] = new, ![pkt_i] = bufs[item.bufs_index]]

PrependedItem(item) == [Merged(item) EXCEPT !.sent_seq = Pkt.seq]

ScanPrepend ==
  /\ TcpMerge
  /\ CanPrepend(Pkt, TcpItem)
  /\ tcp_gro_table' =
       [tcp_gro_table EXCEPT ![Pkt.flow][item_i] = PrependedItem(TcpItem)]
  /\ bufs' = SwapIn(TcpItem,
                    PrependedBuf(bufs[pkt_i], bufs[TcpItem.bufs_index]))
  /\ Coalesced
  /\ UNCHANGED udp_gro_table

ScanInsert ==
  /\ pc = "scan"
  /\ item_i = 0
  /\ tcp_gro_table' =
       [tcp_gro_table EXCEPT ![Pkt.flow] = Append(@, NewTcpItem(Pkt, pkt_i))]
  /\ TableInsert
  /\ UNCHANGED udp_gro_table

-----------------------------------------------------------------------------
(* udp_gro: only the last item of the flow is looked at. *)

UdpItems == udp_gro_table[Pkt.flow]
(* Mutant: the first item is taken instead of the last. *)
UdpFirst == IF UdpItems = <<>> THEN 0 ELSE 1

UdpLast == Len(UdpItems)
UdpItem == UdpItems[UdpLast]

UdpEligible == InLoop /\ ~InvalidOffset /\ IsUdp(Pkt) /\ Mergeable(Pkt)

UdpTry ==
  /\ UdpItems # <<>>
  /\ SameHeaders(Pkt, UdpItem)
  /\ FitsBehind(Pkt, UdpItem)
  /\ HasRoom(bufs[UdpItem.bufs_index], CoalescedLen(Pkt, UdpItem))

UdpItemInvalid ==
  \/ UdpItem.num_merged = 0 /\ UdpItem.c_sum_known_invalid
  \/ ItemInvalidCSum(UdpItem)

UdpAppend ==
  /\ UdpEligible
  /\ UdpTry
  /\ ~UdpItemInvalid
  /\ Pkt.csum
  /\ udp_gro_table' =
       [udp_gro_table EXCEPT ![Pkt.flow][UdpLast].num_merged = @ + 1]
  /\ bufs' = [bufs EXCEPT ![UdpItem.bufs_index].segs = Append(@, pkt_i),
                          ![UdpItem.bufs_index].len = @ + Pkt.plen]
  /\ Coalesced
  /\ UNCHANGED tcp_gro_table

(* Its checksum was just found to be wrong, and the new item records it. *)
KnownInvalid == UdpTry /\ ~UdpItemInvalid /\ ~Pkt.csum

NewUdpItem(p, i) ==
  [bufs_index |-> i, num_merged |-> 0, gso_size |-> p.plen,
   c_sum_known_invalid |-> KnownInvalid]

UdpInsert ==
  /\ UdpEligible
  /\ UdpTry => UdpItemInvalid \/ ~Pkt.csum
  /\ udp_gro_table' =
       [udp_gro_table EXCEPT ![Pkt.flow] = Append(@, NewUdpItem(Pkt, pkt_i))]
  /\ TableInsert
  /\ UNCHANGED tcp_gro_table

-----------------------------------------------------------------------------
(* apply_tcp_coalesce_accounting, then apply_udp_coalesce_accounting. *)

(* The header one item writes into its buffer: `pkt_len as u16` truncates. *)
Account(b, item) ==
  IF item.num_merged > 0
  THEN [b EXCEPT !.vnet = "gso", !.gso = item.gso_size,
                 !.lenf = (b.len - offset) % (MaxLen + 1)]
  ELSE [b EXCEPT !.vnet = "none"]

AllItems ==
  UNION {ToSet(tcp_gro_table[f]) \cup ToSet(udp_gro_table[f]) : f \in Flow}

ItemsAt(i) == {item \in AllItems : item.bufs_index = i}

GroAccount ==
  /\ pc = "gro"
  /\ pkt_i > Len(pkts)
  /\ bufs' = [i \in DOMAIN bufs |->
                IF ItemsAt(i) = {} THEN bufs[i]
                ELSE Account(bufs[i], CHOOSE item \in ItemsAt(i) : TRUE)]
  /\ pc' = "write"
  /\ UNCHANGED <<call, tables, to_write, pkt_i, item_i, outcome, result>>

-----------------------------------------------------------------------------
(* The write loop of send_multiple. *)

NextWrite == Len(outcome) + 1
Writing == pc = "write" /\ NextWrite <= Len(to_write)

WriteOffset == IF dev.vnet_hdr THEN offset - VnetHdrLen ELSE offset

Readable == WriteOffset <= bufs[to_write[NextWrite]].len

unchangedByWrite == <<call, bufs, tables, to_write, pkt_i, item_i>>

WriteInvalidOffset ==
  /\ Writing
  /\ ~Readable
  /\ Return("err")
  /\ UNCHANGED <<unchangedByWrite, outcome>>

(* An error other than EBADFD is remembered and the loop goes on. *)
Write(how) ==
  /\ Writing
  /\ Readable
  /\ outcome' = Append(outcome, how)
  /\ UNCHANGED <<unchangedByWrite, pc, result>>

WriteBadFd ==
  /\ Writing
  /\ Readable
  /\ outcome' = Append(outcome, "badfd")
  /\ Return("err")
  /\ UNCHANGED unchangedByWrite

(* Mutant: the remembered error is not returned. *)
FinishIgnoresErr ==
  /\ pc = "write"
  /\ NextWrite > Len(to_write)
  /\ Return("ok")
  /\ UNCHANGED <<unchangedByWrite, outcome>>

Finish ==
  /\ pc = "write"
  /\ NextWrite > Len(to_write)
  /\ Return(IF "err" \in ToSet(outcome) THEN "err" ELSE "ok")
  /\ UNCHANGED <<unchangedByWrite, outcome>>

(* The future of AsyncDevice::send_multiple is dropped at an await. *)
Cancel ==
  /\ Writing
  /\ Readable
  /\ Return("cancelled")
  /\ UNCHANGED <<unchangedByWrite, outcome>>

-----------------------------------------------------------------------------
Calling ==
  /\ Ready
  /\ \E off \in Offsets :
       \/ CallEmpty(off)
       \/ \E b \in Batch : CallTooMany(b, off)
       \/ \E b \in Batch : CallGro(b, off)
       \/ \E b \in Batch : CallPlain(b, off)

Coalescing ==
  \/ GroInvalidOffset
  \/ GroNoop
  \/ TcpLookup
  \/ ScanSkip
  \/ ScanItemInvalid
  \/ ScanPktInvalid
  \/ ScanAppend
  \/ ScanPrepend
  \/ ScanInsert
  \/ UdpAppend
  \/ UdpInsert
  \/ GroAccount

WritingOut ==
  \/ WriteInvalidOffset
  \/ Write("ok")
  \/ Write("err")
  \/ WriteBadFd
  \/ Finish

Running == Coalescing \/ WritingOut

Next == Calling \/ Running \/ Cancel

(* A call runs on its caller's thread to its end: nothing in it waits for  *)
(* another thread except the write, which the kernel answers.              *)
Spec == Init /\ [][Next]_vars /\ WF_vars(Running)

-----------------------------------------------------------------------------
(* Properties. *)

Busy == pc # "idle"

(* The buffers this call has emitted so far, in the order of writing. *)
Emitted(w) == bufs[to_write[w]]

(* Packets whose fate is decided: all of them once handle_gro is through.  *)
Decided == IF dev.vnet_hdr THEN 1..pkt_i - 1 ELSE DOMAIN pkts

(* The table and to_write agree: to_write is strictly increasing, every    *)
(* item points at a buffer of this batch that will be written, and no two  *)
(* items share a buffer.  A stale item of an earlier call, or a wrong      *)
(* index after the swap in the Prepend case, would break it.               *)
TableSound ==
  Busy =>
    /\ \A v, w \in DOMAIN to_write : v < w => to_write[v] < to_write[w]
    /\ \A f \in Flow :
         /\ \A k \in DOMAIN tcp_gro_table[f] :
              tcp_gro_table[f][k].bufs_index \in ToSet(to_write)
         /\ \A k \in DOMAIN udp_gro_table[f] :
              udp_gro_table[f][k].bufs_index \in ToSet(to_write)
    /\ \A f, g \in Flow :
         \A j \in DOMAIN tcp_gro_table[f], k \in DOMAIN tcp_gro_table[g] :
           tcp_gro_table[f][j].bufs_index = tcp_gro_table[g][k].bufs_index
             => f = g /\ j = k
    /\ \A f, g \in Flow :
         \A j \in DOMAIN udp_gro_table[f], k \in DOMAIN udp_gro_table[g] :
           udp_gro_table[f][j].bufs_index = udp_gro_table[g][k].bufs_index
             => f = g /\ j = k
    /\ \A f, g \in Flow :
         \A j \in DOMAIN tcp_gro_table[f], k \in DOMAIN udp_gro_table[g] :
           tcp_gro_table[f][j].bufs_index # udp_gro_table[g][k].bufs_index

(* Every packet handled so far is in exactly one place of exactly one      *)
(* buffer that will be written, whatever was merged, swapped or removed    *)
(* from the table on the way: coalescing neither loses nor duplicates.     *)
ExactlyOnce ==
  Busy =>
    \A i \in Decided :
      /\ \E w \in DOMAIN to_write : \E k \in DOMAIN Emitted(w).segs :
           Emitted(w).segs[k] = i
      /\ \A v, w \in DOMAIN to_write :
           \A j \in DOMAIN Emitted(v).segs, k \in DOMAIN Emitted(w).segs :
             Emitted(v).segs[j] = i /\ Emitted(w).segs[k] = i
               => v = w /\ j = k

(* When writing starts no buffer still carries the bytes the caller left   *)
(* in front of the packet: each has a virtio header, it announces          *)
(* segmentation exactly when the buffer holds several packets, and then    *)
(* the packet's length field is its length, if no buffer of the batch has  *)
(* room for more than MaxLen bytes behind twice the offset.                *)
HeadersWritten ==
  pc = "write" /\ dev.vnet_hdr =>
    \A w \in DOMAIN to_write :
      /\ Emitted(w).vnet # "stale"
      /\ Emitted(w).vnet = "gso" <=> Len(Emitted(w).segs) > 1
      /\ Emitted(w).vnet = "gso"
           /\ (\A i \in DOMAIN bufs : bufs[i].cap <= 2 * offset + MaxLen)
           => Emitted(w).lenf = Emitted(w).len - offset

(* The kernel cuts the payload of a GSO buffer every gso_size bytes, gives *)
(* each piece the headers at the front and adds gso_size to the sequence   *)
(* number: piece k has KernelSegLen(b, k) bytes.                           *)
KernelSegLen(b, k) ==
  LET rest == Payload(b) - (k - 1) * b.gso
  IN  IF rest < b.gso THEN rest ELSE b.gso

SegmentsBack(b) ==
  /\ (Len(b.segs) - 1) * b.gso < Payload(b)
  /\ Payload(b) <= Len(b.segs) * b.gso
  /\ \A k \in DOMAIN b.segs :
       LET p == pkts[b.segs[k]]
           h == pkts[b.head]
       IN  /\ p.plen = KernelSegLen(b, k)
           /\ p.kind = h.kind /\ p.flow = h.flow /\ p.hdr = h.hdr
           /\ p.kind = "tcp" =>
                /\ p.seq = (h.seq + (k - 1) * b.gso) % SeqSpace
                /\ p.psh => k = Len(b.segs)
                /\ k = Len(b.segs) /\ b.psh => p.psh

(* Round trip: the kernel's segmentation of every coalesced buffer gives   *)
(* back exactly the packets that went into it, with their own lengths,     *)
(* flows, headers and sequence numbers, wrap-around included; PSH is set   *)
(* on the last one only if it was its own, and no other one had it ("PSH   *)
(* can only be set on the final segment in a reassembled group").          *)
RoundTrip ==
  pc = "write" =>
    \A w \in DOMAIN to_write :
      Emitted(w).vnet = "gso" => SegmentsBack(Emitted(w))

(* A wrong checksum is never hidden by a merge: the kernel recomputes the  *)
(* checksums of what it segments, so only packets whose checksum verified  *)
(* may be inside a coalesced buffer.                                       *)
NoBadChecksumMerged ==
  \A i \in DOMAIN bufs :
    Busy /\ Len(bufs[i].segs) > 1 =>
      \A k \in DOMAIN bufs[i].segs : pkts[bufs[i].segs[k]].csum

(* Coalescing never makes a caller's buffer grow beyond its capacity ("We  *)
(* don't want to allocate a new underlying array").                        *)
NoRealloc == \A i \in DOMAIN bufs : bufs[i].len <= bufs[i].cap

(* Datagrams chosen by D that belong to one flow leave in the order the    *)
(* caller passed them.                                                     *)
InOrder(D(_)) ==
  \A v, w \in DOMAIN to_write :
    \A j \in DOMAIN Emitted(v).segs, k \in DOMAIN Emitted(w).segs :
      LET a == Emitted(v).segs[j]
          b == Emitted(w).segs[k]
      IN  /\ D(pkts[a]) /\ D(pkts[b])
          /\ pkts[a].flow = pkts[b].flow
          /\ a < b
          => v < w \/ (v = w /\ j < k)

(* Datagrams that enter the UDP table are never reordered within a flow.   *)
UdpGroOrder ==
  pc = "write" /\ dev.vnet_hdr => InOrder(LAMBDA p : IsUdp(p) /\ Mergeable(p))

(* Every call returns (or its future was dropped): the scan over items     *)
(* that shrink under it ends, and every buffer is tried.                   *)
CallReturns == Busy ~> ~Busy

(* The packets handed to the kernel, and those in writes that failed. *)
DeliveredBy(how) ==
  UNION {ToSet(Emitted(w).segs) : w \in {v \in DOMAIN outcome : outcome[v] \in how}}

Delivery == INSTANCE BatchDelivery WITH
  Sizes <- {Len(b) : b \in Batch \cup {<<>>}},
  batch <- DOMAIN pkts,
  delivered <- DeliveredBy({"ok"}),
  lost <- DeliveredBy({"err", "badfd"}),
  running <- Busy

(* send_multiple delivers each packet at most once, loses only what was in *)
(* a failed write, and returns Ok only if every packet was accepted.       *)
DeliversBatch == Delivery!Spec
=============================================================================
