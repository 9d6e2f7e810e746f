------------------------------ MODULE GsoSplit ------------------------------
(***************************************************************************)
(* One device's recv_multiple calls on Linux: a frame is read from the TUN *)
(* descriptor, its virtio header is decoded and checked                    *)
(* (handle_virtio_read), and a frame that the kernel left unsegmented is   *)
(* cut into the caller's buffers (gso_split).                              *)
(*                                                                         *)
(* Bytes are abstract: a packet written into a buffer is the range of the  *)
(* frame's bytes that became its payload, and the header fields that are   *)
(* computed for it.  Buffers are numbered from 1 (the code: from 0).       *)
(***************************************************************************)
EXTENDS Integers, Sequences, Checksum

CONSTANTS
  Frame,      \* the frames the kernel may deliver, see FrameType
  Args,       \* the arguments a caller may pass, see ArgsType
  Ip4Len,     \* 20, the least length of an IPv4 header
  Ip6Len,     \* 40, the length of an IPv6 header
  UdpLen,     \* 8
  TcpMin,     \* 20, the least length of a TCP header
  TcpMax,     \* 60, the greatest
  DoffAt,     \* 12, where a TCP header says how long it is
  Width,      \* 2^16
  SeqSpace,   \* 2^32
  MaxCalls    \* bound: the number of calls

GsoType == {"none", "tcp4", "tcp6", "udp", "other"}

(* A frame behind its virtio header: length, IP version, the header's      *)
(* fields, and what the packet's headers say: TCP header length, sequence  *)
(* number, IP identification, and whether FIN or PSH is set.  len 0 is a   *)
(* read no longer than the virtio header.                                  *)
FrameType ==
  [len : Nat, ver : {4, 6, 0}, gso_type : GsoType, needs_csum : BOOLEAN,
   hdr_len : 0..Width-1, gso_size : 0..Width-1, csum_start : 0..Width-1,
   csum_offset : 0..Width-1, tcp_h_len : Nat, seq : 0..SeqSpace-1,
   id : 0..Width-1, tail : BOOLEAN]

(* The lengths of the buffers, the length of sizes, and the offset. *)
ArgsType == [lens : Seq(Nat), sizes : Nat, offset : Nat]

ASSUME SizeAssumption ==
  /\ Ip4Len \in Nat /\ Ip6Len \in Nat /\ UdpLen \in Nat /\ DoffAt \in Nat
  /\ TcpMin \in Nat /\ TcpMax \in Nat
  /\ Width \in Nat \ {0} /\ SeqSpace \in Nat \ {0}
  /\ UdpLen < Width /\ TcpMax < Width
  /\ MaxCalls \in Nat

ASSUME InputAssumption == Frame \subseteq FrameType /\ Args \subseteq ArgsType

VARIABLES
  vnet_hdr,  \* the device's vnet_hdr
  async,     \* recv_multiple of AsyncDevice, or of DeviceImpl
  args,      \* the call's arguments
  frame,     \* the frame read by this call
  hdr_len,   \* hdr.hdr_len as handle_virtio_read computes it
  next,      \* next_segment_data_at
  i,         \* number of segments written
  out,       \* what is in the caller's buffers behind the offset
  sizes,     \* the caller's sizes
  pc,        \* where the call is
  result,    \* what the last call returned: a count, or -1 if it failed
  calls      \* number of calls so far

vars == <<vnet_hdr, async, args, frame, hdr_len, next, i, out, sizes, pc,
          result, calls>>
device == <<vnet_hdr, async>>

(* What a buffer holds: the call that wrote it, the range of the frame's   *)
(* bytes, the total length and the length field, id, sequence number, the  *)
(* length in the pseudo header of its checksum, and its FIN and PSH.       *)
Packet == [call : Nat, from : Nat, to : Nat, total : Nat, lenf : Nat,
           id : Nat, seq : Nat, pseudo : Int, tail : BOOLEAN]

Empty == [call |-> 0, from |-> 0, to |-> 0, total |-> 0, lenf |-> 0,
          id |-> 0, seq |-> 0, pseudo |-> 0, tail |-> FALSE]

NoArgs == [lens |-> <<>>, sizes |-> 0, offset |-> 0]
NoFrame == [len |-> 0, ver |-> 0, gso_type |-> "none", needs_csum |-> FALSE,
            hdr_len |-> 0, gso_size |-> 0, csum_start |-> 0,
            csum_offset |-> 0, tcp_h_len |-> 0, seq |-> 0, id |-> 0,
            tail |-> FALSE]

TypeOK ==
  /\ vnet_hdr \in BOOLEAN
  /\ async \in BOOLEAN
  /\ args \in ArgsType
  /\ frame \in FrameType
  /\ hdr_len \in 0..Width-1
  /\ next \in Nat
  /\ i \in Nat
  /\ out \in Seq(Packet)
  /\ sizes \in Seq(Nat)
  /\ pc \in {"idle", "read", "virtio", "split"}
  /\ result \in Nat \cup {-1}
  /\ calls \in Nat

Init ==
  /\ vnet_hdr \in BOOLEAN
  /\ async \in BOOLEAN
  /\ args = NoArgs
  /\ frame = NoFrame
  /\ hdr_len = 0
  /\ next = 0
  /\ i = 0
  /\ out = <<>>
  /\ sizes = <<>>
  /\ pc = "idle"
  /\ result = 0
  /\ calls = 0

Bufs == DOMAIN args.lens
Return(r) == pc' = "idle" /\ result' = r

-----------------------------------------------------------------------------
(* recv_multiple *)

(* A caller that goes on with the same buffers finds in them, and in       *)
(* sizes, what earlier calls left.                                         *)
Keep(s, n, default) == [k \in 1..n |-> IF k \in DOMAIN s THEN s[k] ELSE default]

Ready == pc = "idle" /\ calls < MaxCalls

Enter(a) ==
  /\ Ready
  /\ calls' = calls + 1
  /\ args' = a
  /\ frame' = NoFrame
  /\ hdr_len' = 0
  /\ next' = 0
  /\ i' = 0
  /\ out' = Keep(out, Len(a.lens), Empty)
  /\ sizes' = Keep(sizes, a.sizes, 0)
  /\ UNCHANGED device

BadBufs(a) == Len(a.lens) = 0 \/ Len(a.lens) # a.sizes
TooMany(a) == Len(a.lens) > Width - 1

(* Only the asynchronous form looks at the number of buffers before it     *)
(* reads; handle_virtio_read does so afterwards.                           *)
Readable(a) ==
  /\ ~BadBufs(a)
  /\ ~(async /\ TooMany(a))
  /\ ~vnet_hdr => a.offset <= a.lens[1]

CallRefused(a) ==
  /\ ~Readable(a)
  /\ Enter(a)
  /\ Return(-1)

Call(a) ==
  /\ Readable(a)
  /\ Enter(a)
  /\ pc' = "read"
  /\ UNCHANGED result

unchangedByReturn ==
  <<device, args, frame, hdr_len, next, i, out, sizes, calls>>

(* The read fails, or the future is dropped while it waits for a frame. *)
ReadFails ==
  /\ pc = "read"
  /\ Return(-1)
  /\ UNCHANGED unchangedByReturn

(* The packet as it is: all of it, with its own header fields, and a       *)
(* checksum that covers csum bytes.                                        *)
Whole(f, csum) ==
  [call |-> calls, from |-> 0, to |-> f.len, total |-> f.len,
   lenf |-> f.len % Width, id |-> f.id, seq |-> f.seq, pseudo |-> csum,
   tail |-> f.tail]

Smaller(m, n) == IF m < n THEN m ELSE n

(* Without virtio headers the frame goes straight into the first buffer;   *)
(* a frame that does not fit is cut off by the kernel.                     *)
ReadPlain(f) ==
  /\ pc = "read"
  /\ ~vnet_hdr
  /\ f.gso_type = "none" /\ ~f.needs_csum /\ f.len > 0
  /\ LET n == Smaller(f.len, args.lens[1] - args.offset)
     IN  /\ sizes' = [sizes EXCEPT ![1] = n]
         /\ out' = [out EXCEPT ![1] = [Whole(f, f.len - f.csum_start)
                                          EXCEPT !.to = n, !.total = n]]
  /\ frame' = f
  /\ Return(1)
  /\ UNCHANGED <<device, args, hdr_len, next, i, calls>>

ReadVirtio(f) ==
  /\ pc = "read"
  /\ vnet_hdr
  /\ f.len > 0
  /\ frame' = f
  /\ pc' = "virtio"
  /\ UNCHANGED <<device, args, hdr_len, next, i, out, sizes, result, calls>>

(* No more than the virtio header was read. *)
ReadShort(f) ==
  /\ pc = "read"
  /\ vnet_hdr
  /\ f.len = 0
  /\ frame' = f
  /\ Return(-1)
  /\ UNCHANGED <<device, args, hdr_len, next, i, out, sizes, calls>>

-----------------------------------------------------------------------------
(* handle_virtio_read *)

ArgsFit ==
  /\ ~TooMany(args)
  /\ \A k \in Bufs : args.offset <= args.lens[k]

CsumAt == frame.csum_start + frame.csum_offset

(* gso_none_checksum: the checksum field holds the sum of the pseudo       *)
(* header, and the rest is added to it.                                    *)
CsumInside == frame.csum_start <= frame.len /\ CsumAt + 2 <= frame.len

NoneFits ==
  /\ frame.needs_csum => CsumInside
  /\ frame.len <= args.lens[1] - args.offset

(* What the checksum covers after gso_none_checksum: all of the transport  *)
(* packet, as it does when the kernel did not ask for it.                  *)
Completed == frame.len - frame.csum_start

VirtioNone ==
  /\ pc = "virtio"
  /\ ArgsFit
  /\ frame.gso_type = "none"
  /\ NoneFits
  /\ sizes' = [sizes EXCEPT ![1] = frame.len]
  /\ out' = [out EXCEPT ![1] = Whole(frame, Completed)]
  /\ Return(1)
  /\ UNCHANGED <<device, args, frame, hdr_len, next, i, calls>>

IsTcp == frame.gso_type \in {"tcp4", "tcp6"}

TypeFitsVersion ==
  \/ frame.ver = 4 /\ frame.gso_type \in {"tcp4", "udp"}
  \/ frame.ver = 6 /\ frame.gso_type \in {"tcp6", "udp"}

MinIpLen == IF frame.ver = 6 THEN Ip6Len ELSE Ip4Len

(* Mutant: the kernel's hdr_len is used. *)
TrustedHdrLen == frame.hdr_len

(* hdr_len from the kernel is not trusted; u16 arithmetic wraps. *)
TrueHdrLen ==
  (frame.csum_start + (IF IsTcp THEN frame.tcp_h_len ELSE UdpLen)) % Width

(* What handle_virtio_read and the head of gso_split ask of a GSO frame. *)
Splittable ==
  /\ frame.gso_size # 0
  /\ TypeFitsVersion
  /\ IsTcp => /\ frame.len > frame.csum_start + DoffAt
              /\ frame.tcp_h_len \in TcpMin..TcpMax
  /\ TrueHdrLen <= frame.len
  /\ TrueHdrLen >= frame.csum_start
  /\ frame.csum_start >= MinIpLen
  /\ CsumAt + 1 < frame.len

(* None of these checks changes anything the caller sees. *)
VirtioRefuse ==
  /\ pc = "virtio"
  /\ \/ ~ArgsFit
     \/ frame.gso_type = "none" /\ ~NoneFits
     \/ frame.gso_type # "none" /\ ~Splittable
  /\ Return(-1)
  /\ UNCHANGED unchangedByReturn

SplitBegin ==
  /\ pc = "virtio"
  /\ ArgsFit
  /\ frame.gso_type # "none"
  /\ Splittable
  /\ hdr_len' = TrueHdrLen
  /\ next' = TrueHdrLen
  /\ i' = 0
  /\ pc' = "split"
  /\ UNCHANGED <<device, args, frame, out, sizes, result, calls>>

-----------------------------------------------------------------------------
(* The loop of gso_split. *)

Splitting == pc = "split" /\ next < frame.len

SegmentEnd == Smaller(next + frame.gso_size, frame.len)

SegmentLen == SegmentEnd - next
TotalLen == hdr_len + SegmentLen

(* Mutant: the offset is forgotten. *)
FitsWithoutOffset == TotalLen <= args.lens[i + 1]

(* Mutant: a buffer that would be filled to its end is refused. *)
FitsStrictly == TotalLen < args.lens[i + 1] - args.offset

Fits ==
  /\ args.offset <= args.lens[i + 1]
  /\ TotalLen <= args.lens[i + 1] - args.offset

(* FIN and PSH stay on the segment that ends the frame. *)
KeepsTail == frame.tail /\ SegmentEnd = frame.len

(* Mutant: the pseudo header has the length of a full segment. *)
PseudoLenFull == (hdr_len - frame.csum_start + frame.gso_size) % Width

(* It is the UDP length, too. *)
PseudoLen == (hdr_len - frame.csum_start + SegmentLen) % Width

SegmentSeq == (frame.seq + frame.gso_size * i) % SeqSpace

(* The IPv6 length field does not count the fixed header. *)
LengthField ==
  IF frame.ver = 6 THEN ((TotalLen - Ip6Len) % Width) + Ip6Len
  ELSE TotalLen % Width

(* The header of segment i: the frame's, with the length, the IPv4 id, the *)
(* sequence number, the flags and the checksum of the segment.  The        *)
(* checksum field is in the transport header: csum_offset is 16 or 6.      *)
Segment ==
  [call |-> calls, from |-> next, to |-> SegmentEnd, total |-> TotalLen,
   lenf |-> LengthField,
   id |-> IF frame.ver = 6 THEN frame.id ELSE (frame.id + i) % Width,
   seq |-> IF IsTcp THEN SegmentSeq ELSE frame.seq,
   pseudo |-> PseudoLen,
   tail |-> IF IsTcp THEN KeepsTail ELSE frame.tail]

(* Mutant: sizes keeps what an earlier call left. *)
StoreSizeNot == sizes

StoreSize == [sizes EXCEPT ![i + 1] = TotalLen]

Advance == next' = next + frame.gso_size /\ i' = i + 1

SplitTooMany ==
  /\ Splitting
  /\ i = Len(args.lens)
  /\ Return(-1)
  /\ UNCHANGED unchangedByReturn

(* The size is stored before the buffer is found to be too small. *)
SplitTooSmall ==
  /\ Splitting
  /\ i < Len(args.lens)
  /\ ~Fits
  /\ sizes' = StoreSize
  /\ Return(-1)
  /\ UNCHANGED <<device, args, frame, hdr_len, next, i, out, calls>>

SplitSegment ==
  /\ Splitting
  /\ i < Len(args.lens)
  /\ Fits
  /\ sizes' = StoreSize
  /\ out' = [out EXCEPT ![i + 1] = Segment]
  /\ Advance
  /\ UNCHANGED <<device, args, frame, hdr_len, pc, result, calls>>

SplitDone ==
  /\ pc = "split"
  /\ next >= frame.len
  /\ Return(i)
  /\ UNCHANGED unchangedByReturn

-----------------------------------------------------------------------------
Calling ==
  /\ Ready
  /\ \E a \in Args : CallRefused(a) \/ Call(a)

Reading ==
  /\ pc = "read"
  /\ \/ ReadFails
     \/ \E f \in Frame : ReadPlain(f) \/ ReadVirtio(f) \/ ReadShort(f)

Handling ==
  \/ VirtioNone
  \/ VirtioRefuse
  \/ SplitBegin
  \/ SplitTooMany
  \/ SplitTooSmall
  \/ SplitSegment
  \/ SplitDone

Next == Calling \/ Reading \/ Handling

Spec == Init /\ [][Next]_vars

-----------------------------------------------------------------------------
(* Properties. *)

(* The last call returned packets, cut from a frame the kernel left whole. *)
Returned == pc = "idle" /\ result > 0
ReturnedSegments == Returned /\ vnet_hdr /\ frame.gso_type # "none"

(* Where the frame's payload begins, whatever the kernel put into hdr_len. *)
PayloadAt == frame.csum_start + (IF IsTcp THEN frame.tcp_h_len ELSE UdpLen)

(* The segments are the frame's payload: nothing is missing, repeated or   *)
(* out of order, all but the last have gso_size bytes, and the headers are *)
(* no part of it even when the kernel's hdr_len covers more ("Don't trust  *)
(* hdr.hdrLen from the kernel").                                           *)
PayloadPreserved ==
  ReturnedSegments =>
    /\ out[1].from = PayloadAt
    /\ out[result].to = frame.len
    /\ \A k \in 1..result - 1 :
         /\ out[k + 1].from = out[k].to
         /\ out[k].to - out[k].from = frame.gso_size
    /\ out[result].to - out[result].from \in 1..frame.gso_size

(* Each segment has the headers a sender without offload would have sent:  *)
(* its own sequence number, modulo 2^32, its own IPv4 id, modulo 2^16, and *)
(* FIN and PSH on the last one only.  Every packet returned, cut or whole, *)
(* has the length its IP header says, if it is one a 16-bit length can     *)
(* say, and a checksum over all of it.                                     *)
SegmentHeaders ==
  /\ ReturnedSegments =>
       \A k \in 1..result :
         /\ IsTcp => /\ out[k].seq = (frame.seq + out[k].from - PayloadAt) % SeqSpace
                     /\ out[k].tail <=> frame.tail /\ k = result
         /\ frame.ver = 4 => out[k].id = (frame.id + k - 1) % Width
  /\ Returned /\ vnet_hdr =>
       \A k \in 1..result :
         /\ out[k].total < Width => out[k].lenf = out[k].total
         /\ frame.len < Width => out[k].pseudo = out[k].total - frame.csum_start

(* Nothing is written behind the end of a caller's buffer, in any step of  *)
(* the split, the steps before an error included.                          *)
SegmentsFit ==
  \A k \in DOMAIN out :
    out[k].call = calls /\ pc # "read" =>
      args.offset + out[k].total <= args.lens[k]

(* What a successful call reports is its own: the first `result` buffers   *)
(* and sizes are of this frame, whatever earlier calls, the failed ones    *)
(* too, left in them.                                                      *)
SizesCurrent ==
  Returned =>
    \A k \in 1..result :
      out[k].call = calls /\ sizes[k] = out[k].total

(* A frame as the kernel makes them: complete headers, something behind    *)
(* them, and the checksum inside the transport header.                     *)
WellFormed ==
  /\ frame.gso_size > 0
  /\ PayloadAt < frame.len /\ frame.len < Width
  /\ frame.csum_start >= MinIpLen
  /\ TypeFitsVersion
  /\ IsTcp => frame.tcp_h_len \in TcpMin..TcpMax /\ frame.tcp_h_len > DoffAt
  /\ frame.csum_offset + 2 <= PayloadAt - frame.csum_start

(* Buffers for all segments, each with room for a full one. *)
Ample ==
  /\ ~TooMany(args)
  /\ Len(args.lens) * frame.gso_size >= frame.len - PayloadAt
  /\ \A k \in Bufs : args.lens[k] >= args.offset + PayloadAt + frame.gso_size

(* A frame that has been read is gone from the kernel, so no well-formed   *)
(* one may be refused when the caller brought enough room, not even at the *)
(* boundaries of the checks.                                               *)
NotRefusedNeedlessly ==
  pc = "idle" /\ vnet_hdr /\ WellFormed /\ Ample => result > 0

(* The checksum of a pseudo-header and data, taken by any of the three     *)
(* versions of checksum_no_fold and folded at the end, is that of RFC 1071 *)
(* for every ChecksumCase (SumsAgree).  It says nothing about the state, so *)
(* it is evaluated once, before the first call.                            *)
ChecksumExact == calls = 0 /\ async /\ vnet_hdr => SumsAgree
=============================================================================
