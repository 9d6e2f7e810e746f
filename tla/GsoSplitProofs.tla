---------------------------- MODULE GsoSplitProofs ----------------------------
(***************************************************************************)
(* Proofs about GsoSplit, for frames and arguments of any lengths.         *)
(***************************************************************************)
EXTENDS GsoSplit, WellFoundedInduction, SequenceTheorems, TLAPS

(* Below the divisor, and from there to its double, what u16 arithmetic    *)
(* makes of a sum.                                                         *)
LEMMA ModSmall ==
  ASSUME NEW n \in Nat, NEW a \in Nat, a < n
  PROVE  a % n = a
  OBVIOUS

(* A sum that wraps once.                                                  *)
LEMMA ModWrapped ==
  ASSUME NEW n \in Nat, NEW a \in Nat, n <= a, a < 2 * n
  PROVE  a % n = a - n
  OBVIOUS

(* The remainder is below the divisor.                                     *)
LEMMA ModRange ==
  ASSUME NEW n \in Nat \ {0}, NEW a \in Int
  PROVE  a % n \in Nat /\ a % n < n
  OBVIOUS

(* One more segment is one more gso_size. *)
LEMMA OneMore ==
  ASSUME NEW a \in Nat, NEW b \in Nat
  PROVE  a * b \in Nat /\ a * (b + 1) = a * b + a /\ a * 0 = 0
  OBVIOUS

-----------------------------------------------------------------------------
(* The inductive invariant. *)

(* The lengths of the caller's arrays.  A call that got past its first     *)
(* checks has as many sizes as buffers.                                    *)
ArraysInv ==
  /\ Len(out) = Len(args.lens) /\ Len(sizes) = args.sizes
  /\ pc # "idle" \/ result > 0 => Readable(args)

(* What no step of this call has written is of an earlier call.            *)
EarlierInv ==
  /\ \A k \in DOMAIN out : out[k].call <= calls
  /\ pc \in {"read", "virtio"} => \A k \in DOMAIN out : out[k].call < calls

(* Segment k as the loop leaves it behind. *)
Starts(k) == PayloadAt + frame.gso_size * (k - 1)
Cut(k) ==
  /\ out[k].call = calls /\ sizes[k] = out[k].total
  /\ out[k].from = Starts(k) /\ out[k].from < frame.len
  /\ out[k].to = Smaller(Starts(k) + frame.gso_size, frame.len)
  /\ out[k].total = PayloadAt + (out[k].to - out[k].from)
  /\ out[k].total < Width => out[k].lenf = out[k].total
  /\ frame.len < Width => out[k].pseudo = out[k].total - frame.csum_start
  /\ IsTcp => /\ out[k].seq = (frame.seq + frame.gso_size * (k - 1)) % SeqSpace
              /\ out[k].tail <=> frame.tail /\ out[k].to = frame.len
  /\ frame.ver = 4 => out[k].id = (frame.id + (k - 1)) % Width

(* Where the loop of gso_split is: i segments written, the others not.     *)
Loop ==
  /\ vnet_hdr /\ ArgsFit /\ frame.gso_type # "none" /\ Splittable
  /\ hdr_len = PayloadAt
  /\ i <= Len(args.lens)
  /\ next = PayloadAt + frame.gso_size * i
  /\ \A k \in 1..i : Cut(k)
  /\ \A k \in DOMAIN out : k > i => out[k].call < calls

(* A packet handed on as it was read. *)
Uncut ==
  /\ result = 1
  /\ out[1].call = calls /\ sizes[1] = out[1].total
  /\ vnet_hdr =>
       /\ out[1].total < Width => out[1].lenf = out[1].total
       /\ frame.len < Width => out[1].pseudo = out[1].total - frame.csum_start

ControlInv ==
  /\ pc = "read" => frame = NoFrame
  /\ pc = "virtio" => vnet_hdr
  /\ pc = "split" => Loop
  /\ ReturnedSegments => Loop /\ result = i /\ next >= frame.len
  /\ Returned /\ ~ReturnedSegments => Uncut

IInv ==
  /\ TypeOK /\ ArraysInv /\ EarlierInv /\ ControlInv
  /\ SegmentsFit /\ NotRefusedNeedlessly

(***************************************************************************)
(* Types.                                                                  *)
(***************************************************************************)

(* What the fields of a frame can be.                                      *)
LEMMA FrameFields ==
  ASSUME NEW f \in FrameType
  PROVE  /\ f.len \in Nat /\ f.ver \in {4, 6, 0} /\ f.gso_type \in GsoType
         /\ f.needs_csum \in BOOLEAN /\ f.hdr_len \in Nat /\ f.gso_size \in Nat
         /\ f.csum_start \in Nat /\ f.csum_start < Width
         /\ f.csum_offset \in Nat /\ f.tcp_h_len \in Nat
         /\ f.seq \in Nat /\ f.id \in Nat /\ f.tail \in BOOLEAN
  BY SizeAssumption DEF FrameType

(* What a caller passes: buffers with lengths, and two numbers.            *)
LEMMA ArgsFields ==
  ASSUME NEW a \in ArgsType
  PROVE  /\ a.lens \in Seq(Nat) /\ a.sizes \in Nat /\ a.offset \in Nat
         /\ DOMAIN a.lens = 1..Len(a.lens) /\ Len(a.lens) \in Nat
         /\ \A k \in DOMAIN a.lens : a.lens[k] \in Nat
  BY DEF ArgsType

(* The values that stand for no frame, no arguments and an unwritten       *)
(* buffer have the types of the others.                                    *)
LEMMA NothingTyped ==
  NoFrame \in FrameType /\ NoArgs \in ArgsType /\ Empty \in Packet
  BY SizeAssumption DEF NoFrame, FrameType, GsoType, NoArgs, ArgsType, Empty, Packet

(* A function that keeps what is there and fills up with a default is a    *)
(* sequence of the length asked for.                                       *)
LEMMA KeepTyped ==
  ASSUME NEW S, NEW s \in Seq(S), NEW n \in Nat, NEW d \in S
  PROVE  /\ Keep(s, n, d) \in Seq(S) /\ Len(Keep(s, n, d)) = n
         /\ DOMAIN Keep(s, n, d) = 1..n
<1>1. \A k \in DOMAIN s : s[k] \in S
  OBVIOUS
<1> DEFINE t == Keep(s, n, d)
<1>2. DOMAIN t = 1..n /\ t \in [1..n -> S]
  BY <1>1 DEF Keep
<1>3. t \in Seq(S) /\ Len(t) = n
  BY <1>2, SeqDef
<1> QED BY <1>2, <1>3 DEF Keep

(* The invariant holds before the first call.                              *)
LEMMA InitOk == Init => IInv
<1> SUFFICES ASSUME Init PROVE IInv
  OBVIOUS
<1>1. TypeOK
  BY NothingTyped, SizeAssumption DEF Init, TypeOK
<1>2. out = <<>> /\ sizes = <<>> /\ pc = "idle" /\ result = 0
      /\ Len(args.lens) = 0 /\ args.sizes = 0 /\ frame = NoFrame
  BY DEF Init, NoArgs
<1>3. ArraysInv /\ EarlierInv /\ ControlInv /\ SegmentsFit
  BY <1>2 DEF ArraysInv, EarlierInv, ControlInv, SegmentsFit, ReturnedSegments, Returned
<1>4. NotRefusedNeedlessly
  BY <1>2 DEF NotRefusedNeedlessly, WellFormed, NoFrame
<1> QED BY <1>1, <1>3, <1>4 DEF IInv

(***************************************************************************)
(* A call begins.                                                          *)
(***************************************************************************)

(* Enter leaves the two arrays as long as the arguments say, with nothing  *)
(* in them that counts as written by the call.                             *)
LEMMA EnterOk ==
  ASSUME IInv, NEW a \in Args, Enter(a)
  PROVE  /\ a \in ArgsType
         /\ args' \in ArgsType /\ frame' = NoFrame /\ hdr_len' \in 0..Width-1
         /\ next' \in Nat /\ i' \in Nat /\ out' \in Seq(Packet) /\ sizes' \in Seq(Nat)
         /\ calls' \in Nat /\ vnet_hdr' \in BOOLEAN /\ async' \in BOOLEAN
         /\ Len(out') = Len(args'.lens) /\ Len(sizes') = args'.sizes
         /\ \A k \in DOMAIN out' : out'[k].call < calls'
<1>1. /\ a \in ArgsType /\ Len(a.lens) \in Nat /\ a.sizes \in Nat
      /\ out \in Seq(Packet) /\ sizes \in Seq(Nat) /\ calls \in Nat
      /\ \A k \in DOMAIN out : out[k].call <= calls /\ out[k] \in Packet
  BY ArgsFields, InputAssumption DEF IInv, TypeOK, EarlierInv
<1>2. /\ out' \in Seq(Packet) /\ Len(out') = Len(a.lens) /\ DOMAIN out' = 1..Len(a.lens)
      /\ \A k \in 1..Len(a.lens) : out'[k] = IF k \in DOMAIN out THEN out[k] ELSE Empty
  <2>1. out' = Keep(out, Len(a.lens), Empty)
    BY DEF Enter
  <2>2. Empty \in Packet
    BY NothingTyped
  <2>3. out' \in Seq(Packet) /\ Len(out') = Len(a.lens) /\ DOMAIN out' = 1..Len(a.lens)
    <3> DEFINE size == Len(a.lens)
    <3>1. size \in Nat /\ out \in Seq(Packet) /\ out' = Keep(out, size, Empty)
      BY <1>1, <2>1
    <3> HIDE DEF size
    <3>2. out' \in Seq(Packet) /\ Len(out') = size /\ DOMAIN out' = 1..size
      BY <2>2, <3>1, KeepTyped
    <3> QED BY <3>2 DEF size
  <2>4. \A k \in 1..Len(a.lens) : out'[k] = IF k \in DOMAIN out THEN out[k] ELSE Empty
    BY <2>1 DEF Keep
  <2> QED BY <2>3, <2>4
<1>3. sizes' \in Seq(Nat) /\ Len(sizes') = a.sizes
  BY <1>1, KeepTyped DEF Enter
<1>4. \A k \in DOMAIN out' : out'[k].call < calls'
  <2> SUFFICES ASSUME NEW k \in DOMAIN out' PROVE out'[k].call < calls + 1
    BY DEF Enter
  <2>1. CASE k \in DOMAIN out
    <3>1. out'[k] = out[k]
      BY <1>2, <2>1
    <3>2. out[k].call <= calls /\ out[k].call \in Nat /\ calls \in Nat
      BY <1>1, <2>1 DEF Packet
    <3> QED BY <3>1, <3>2
  <2>2. CASE k \notin DOMAIN out
    BY <1>1, <1>2, <2>2 DEF Empty
  <2> QED BY <2>1, <2>2
<1> QED BY <1>1, <1>2, <1>3, <1>4, SizeAssumption DEF Enter, IInv, TypeOK, device

(* recv_multiple is called, and refused or let through to the read.        *)
LEMMA CallOk ==
  ASSUME IInv, NEW a \in Args, CallRefused(a) \/ Call(a)
  PROVE  IInv'
<1>1. Enter(a)
  BY DEF CallRefused, Call
<1>2. /\ pc' \in {"idle", "read"} /\ result' \in Nat \cup {-1}
      /\ pc' = "idle" => result' = -1
      /\ pc' = "read" => Readable(a)
  BY DEF CallRefused, Call, Return, IInv, TypeOK
<1>3. TypeOK'
  BY <1>1, <1>2, EnterOk, NothingTyped DEF TypeOK
<1>4. ArraysInv'
  <2>1. args' = a /\ vnet_hdr' = vnet_hdr /\ async' = async
    BY <1>1 DEF Enter, device
  <2>2. pc' # "idle" \/ result' > 0 => Readable(a)
    BY <1>2
  <2>3. Readable(a) => Readable(args)'
    BY <2>1 DEF Readable, BadBufs, TooMany
  <2>4. Len(out') = Len(args'.lens) /\ Len(sizes') = args'.sizes
    BY <1>1, EnterOk
  <2> QED BY <2>2, <2>3, <2>4 DEF ArraysInv
<1>5. EarlierInv' /\ SegmentsFit'
  <2>0. calls' \in Nat /\ \A k \in DOMAIN out' : out'[k] \in Packet
    BY <1>3 DEF TypeOK
  <2>1. \A k \in DOMAIN out' : out'[k].call < calls' /\ out'[k].call \in Nat
    BY <1>1, <2>0, EnterOk DEF Packet
  <2> QED BY <2>1, <1>3 DEF EarlierInv, SegmentsFit, TypeOK
<1>6. ControlInv'
  BY <1>1, <1>2, EnterOk DEF ControlInv, ReturnedSegments, Returned
<1>7. NotRefusedNeedlessly'
  BY <1>1, EnterOk DEF NotRefusedNeedlessly, WellFormed, NoFrame
<1> QED BY <1>3, <1>4, <1>5, <1>6, <1>7 DEF IInv

(***************************************************************************)
(* A call fails.                                                           *)
(***************************************************************************)

(* An error return leaves the state in order, unless it refuses a frame    *)
(* that the caller had room for.                                           *)
LEMMA FailOk ==
  ASSUME IInv, pc # "idle", Return(-1),
         UNCHANGED <<device, args, frame, hdr_len, next, i, out, calls>>,
         sizes' \in Seq(Nat), Len(sizes') = Len(sizes),
         ~(vnet_hdr /\ WellFormed /\ Ample)
  PROVE  IInv'
<1>1. /\ pc' = "idle" /\ result' = -1 /\ vnet_hdr' = vnet_hdr /\ async' = async
      /\ args' = args /\ frame' = frame /\ hdr_len' = hdr_len /\ next' = next
      /\ i' = i /\ out' = out /\ calls' = calls
  BY DEF Return, device
<1>2. TypeOK'
  BY <1>1 DEF IInv, TypeOK
<1>3. ArraysInv'
  BY <1>1 DEF IInv, ArraysInv
<1>4. EarlierInv'
  BY <1>1 DEF IInv, EarlierInv
<1>5. SegmentsFit'
  <2> SUFFICES ASSUME NEW k \in DOMAIN out, out[k].call = calls
               PROVE  args.offset + out[k].total <= args.lens[k]
    BY <1>1 DEF SegmentsFit
  <2>1. pc # "read"
    <3> SUFFICES ASSUME pc = "read" PROVE FALSE
      OBVIOUS
    <3>1. out[k].call < calls /\ calls \in Nat
      BY DEF IInv, EarlierInv, TypeOK
    <3> QED BY <3>1
  <2> QED BY <2>1 DEF IInv, SegmentsFit
<1>6. ControlInv'
  BY <1>1 DEF ControlInv, ReturnedSegments, Returned
<1>7. NotRefusedNeedlessly'
  <2>1. (WellFormed <=> WellFormed') /\ (Ample <=> Ample')
    BY <1>1 DEF WellFormed, Ample, PayloadAt, MinIpLen, TypeFitsVersion, IsTcp,
                TooMany, Bufs
  <2> QED BY <1>1, <2>1 DEF NotRefusedNeedlessly
<1> QED BY <1>2, <1>3, <1>4, <1>5, <1>6, <1>7 DEF IInv

(* hdr_len, as it is computed in 16 bits, is where the payload begins:     *)
(* what wraps is smaller than csum_start, and refused.                     *)
LEMMA HdrLenTrue ==
  ASSUME TypeOK, Splittable
  PROVE  TrueHdrLen = PayloadAt /\ PayloadAt \in Nat /\ PayloadAt < Width
<1> DEFINE h == IF IsTcp THEN frame.tcp_h_len ELSE UdpLen
<1>1. frame.csum_start \in Nat /\ frame.csum_start < Width /\ frame.tcp_h_len \in Nat
  BY FrameFields DEF TypeOK
<1>2. h \in Nat /\ h < Width /\ Width \in Nat
  BY <1>1, SizeAssumption DEF Splittable
<1>3. PayloadAt = frame.csum_start + h /\ TrueHdrLen = PayloadAt % Width
  BY DEF PayloadAt, TrueHdrLen
<1> HIDE DEF h
<1>4. CASE PayloadAt < Width
  BY <1>1, <1>2, <1>3, <1>4, ModSmall
<1>5. CASE Width <= PayloadAt
  <2>1. TrueHdrLen = PayloadAt - Width
    BY <1>1, <1>2, <1>3, <1>5, ModWrapped
  <2> QED BY <1>1, <1>2, <1>3, <2>1 DEF Splittable
<1> QED BY <1>1, <1>2, <1>3, <1>4, <1>5

(* A frame as the kernel makes them passes every check.                    *)
LEMMA WellFormedPasses ==
  ASSUME TypeOK, WellFormed, Ample
  PROVE  ArgsFit /\ frame.gso_type # "none" /\ Splittable
<1> DEFINE h == IF IsTcp THEN frame.tcp_h_len ELSE UdpLen
<1>1. /\ frame.csum_start \in Nat /\ frame.tcp_h_len \in Nat /\ frame.len \in Nat
      /\ frame.gso_size \in Nat /\ frame.csum_offset \in Nat
      /\ args.offset \in Nat /\ \A k \in Bufs : args.lens[k] \in Nat
  BY FrameFields, ArgsFields DEF TypeOK, Bufs
<1>2. h \in Nat /\ Width \in Nat /\ DoffAt \in Nat
  BY <1>1, SizeAssumption
<1>3. PayloadAt = frame.csum_start + h /\ TrueHdrLen = PayloadAt % Width
  BY DEF PayloadAt, TrueHdrLen
<1>4. IsTcp => h = frame.tcp_h_len
  OBVIOUS
<1> HIDE DEF h
<1>5. TrueHdrLen = PayloadAt
  BY <1>1, <1>2, <1>3, ModSmall DEF WellFormed
<1>6. ArgsFit
  <2>1. ASSUME NEW k \in Bufs PROVE args.offset <= args.lens[k]
    <3>1. args.lens[k] >= args.offset + PayloadAt + frame.gso_size
      BY DEF Ample
    <3>0. PayloadAt \in Nat
      BY <1>1, <1>2, <1>3
    <3>2. args.lens[k] \in Nat
      BY <1>1
    <3> QED BY <1>1, <3>0, <3>1, <3>2
  <2> QED BY <2>1 DEF ArgsFit, Ample
<1>7. frame.gso_type # "none"
  BY DEF WellFormed, TypeFitsVersion
<1>8. IsTcp => /\ frame.len > frame.csum_start + DoffAt
               /\ frame.tcp_h_len \in TcpMin..TcpMax
  BY <1>1, <1>2, <1>3, <1>4 DEF WellFormed
<1>9. CsumAt + 1 < frame.len
  BY <1>1, <1>2, <1>3 DEF WellFormed, CsumAt
<1>10. TrueHdrLen <= frame.len /\ TrueHdrLen >= frame.csum_start
  BY <1>1, <1>2, <1>3, <1>5 DEF WellFormed
<1> QED BY <1>1, <1>6, <1>7, <1>8, <1>9, <1>10 DEF Splittable, WellFormed

(* The read fails, or handle_virtio_read refuses the frame: not one that   *)
(* it should have taken.                                                   *)
LEMMA RefusalsOk ==
  ASSUME IInv, ReadFails \/ VirtioRefuse
  PROVE  IInv'
<1>1. /\ pc # "idle" /\ Return(-1)
      /\ UNCHANGED <<device, args, frame, hdr_len, next, i, out, sizes, calls>>
  BY DEF ReadFails, VirtioRefuse, unchangedByReturn
<1>2. sizes' \in Seq(Nat) /\ Len(sizes') = Len(sizes)
  BY <1>1 DEF IInv, TypeOK
<1>3. ~(WellFormed /\ Ample)
  <2>1. CASE ReadFails
    BY <2>1 DEF ReadFails, IInv, ControlInv, WellFormed, NoFrame
  <2>2. CASE VirtioRefuse
    BY <2>2, WellFormedPasses DEF VirtioRefuse, IInv
  <2> QED BY <2>1, <2>2
<1> QED BY <1>1, <1>2, <1>3, FailOk

(***************************************************************************)
(* A frame is read.                                                        *)
(***************************************************************************)

(* A frame is read behind its virtio header.                               *)
LEMMA ReadOk ==
  ASSUME IInv, NEW f \in Frame, ReadVirtio(f)
  PROVE  IInv'
<1>1. /\ pc = "read" /\ pc' = "virtio" /\ vnet_hdr /\ vnet_hdr' = vnet_hdr /\ async' = async
      /\ args' = args /\ frame' = f /\ hdr_len' = hdr_len /\ next' = next /\ sizes' = sizes
      /\ i' = i /\ out' = out /\ calls' = calls /\ result' = result
  BY DEF ReadVirtio, device
<1>2. TypeOK'
  BY <1>1, InputAssumption DEF IInv, TypeOK
<1>3. ArraysInv'
  BY <1>1 DEF IInv, ArraysInv, Readable, BadBufs, TooMany
<1>4. EarlierInv'
  BY <1>1 DEF IInv, EarlierInv
<1>5. SegmentsFit'
  <2> SUFFICES ASSUME NEW k \in DOMAIN out PROVE out[k].call # calls
    BY <1>1 DEF SegmentsFit
  <2>1. out[k].call < calls /\ calls \in Nat
    BY <1>1 DEF IInv, EarlierInv, TypeOK
  <2> QED BY <2>1
<1>6. ControlInv'
  BY <1>1 DEF ControlInv, ReturnedSegments, Returned
<1>7. NotRefusedNeedlessly'
  BY <1>1 DEF NotRefusedNeedlessly
<1> QED BY <1>2, <1>3, <1>4, <1>5, <1>6, <1>7 DEF IInv

(* No more than the virtio header is read; such a frame is not well-       *)
(* formed.                                                                 *)
LEMMA ShortOk ==
  ASSUME IInv, NEW f \in Frame, ReadShort(f)
  PROVE  IInv'
<1>1. /\ pc = "read" /\ pc' = "idle" /\ vnet_hdr' = vnet_hdr /\ async' = async
      /\ args' = args /\ frame' = f /\ hdr_len' = hdr_len /\ next' = next /\ sizes' = sizes
      /\ i' = i /\ out' = out /\ calls' = calls /\ result' = -1 /\ f.len = 0
  BY DEF ReadShort, device, Return
<1>2. TypeOK'
  BY <1>1, InputAssumption DEF IInv, TypeOK
<1>3. ArraysInv'
  BY <1>1 DEF IInv, ArraysInv
<1>4. EarlierInv'
  BY <1>1 DEF IInv, EarlierInv
<1>5. SegmentsFit'
  <2> SUFFICES ASSUME NEW k \in DOMAIN out PROVE out[k].call # calls
    BY <1>1 DEF SegmentsFit
  <2>1. out[k].call < calls /\ calls \in Nat
    BY <1>1 DEF IInv, EarlierInv, TypeOK
  <2> QED BY <2>1
<1>6. ControlInv'
  BY <1>1 DEF ControlInv, ReturnedSegments, Returned
<1>7. NotRefusedNeedlessly'
  <2>1. PayloadAt' \in Nat
    <3>1. /\ frame'.csum_start \in Nat /\ frame'.tcp_h_len \in Nat
      BY <1>2, FrameFields DEF TypeOK
    <3> QED BY <3>1, SizeAssumption DEF PayloadAt
  <2>2. ~(PayloadAt' < frame'.len)
    BY <1>1, <2>1
  <2> QED BY <2>2 DEF NotRefusedNeedlessly, WellFormed
<1> QED BY <1>2, <1>3, <1>4, <1>5, <1>6, <1>7 DEF IInv

(* An array after a store into it. *)
LEMMA Stored ==
  ASSUME NEW S, NEW s \in Seq(S), NEW k \in DOMAIN s, NEW x \in S,
         NEW t, t = [s EXCEPT ![k] = x]
  PROVE  /\ t \in Seq(S) /\ Len(t) = Len(s) /\ DOMAIN t = DOMAIN s
         /\ t[k] = x /\ \A j \in DOMAIN s : j # k => t[j] = s[j]
  BY ExceptSeq

(* While a call runs there is a buffer, and a size for each.               *)
LEMMA Arrays ==
  ASSUME IInv, pc # "idle" \/ result > 0
  PROVE  /\ Len(args.lens) \in Nat \ {0} /\ Bufs = 1..Len(args.lens)
         /\ DOMAIN out = Bufs /\ DOMAIN sizes = Bufs /\ 1 \in Bufs
         /\ args.lens \in Seq(Nat) /\ args.offset \in Nat
         /\ \A k \in Bufs : args.lens[k] \in Nat
         /\ ~vnet_hdr => args.offset <= args.lens[1]
<1>1. args \in ArgsType /\ out \in Seq(Packet) /\ sizes \in Seq(Nat)
  BY DEF IInv, TypeOK
<1>2. Readable(args) /\ Len(out) = Len(args.lens) /\ Len(sizes) = args.sizes
  BY DEF IInv, ArraysInv
<1> QED BY <1>1, <1>2, ArgsFields DEF Readable, BadBufs, Bufs

(* A whole packet in the first buffer is all that the call returns.        *)
LEMMA UncutOk ==
  ASSUME IInv, pc \in {"read", "virtio"}, Return(1),
         UNCHANGED <<device, args, hdr_len, next, i, calls>>, frame' \in FrameType,
         NEW n \in Nat, NEW p \in Packet,
         sizes' = [sizes EXCEPT ![1] = n], out' = [out EXCEPT ![1] = p],
         p.call = calls, p.total = n, args.offset + n <= args.lens[1],
         vnet_hdr => /\ frame'.gso_type = "none"
                     /\ n < Width => p.lenf = n
                     /\ frame'.len < Width => p.pseudo = n - frame'.csum_start
  PROVE  IInv'
<1>1. /\ pc' = "idle" /\ result' = 1 /\ vnet_hdr' = vnet_hdr /\ async' = async
      /\ args' = args /\ hdr_len' = hdr_len /\ next' = next /\ i' = i /\ calls' = calls
  BY DEF Return, device
<1>2. /\ out \in Seq(Packet) /\ sizes \in Seq(Nat) /\ calls \in Nat
      /\ 1 \in DOMAIN out /\ 1 \in DOMAIN sizes
  BY Arrays DEF IInv, TypeOK
<1>3. /\ out' \in Seq(Packet) /\ Len(out') = Len(out) /\ DOMAIN out' = DOMAIN out
      /\ out'[1] = p /\ \A j \in DOMAIN out : j # 1 => out'[j] = out[j]
  BY <1>2, Stored
<1>4. sizes' \in Seq(Nat) /\ Len(sizes') = Len(sizes) /\ sizes'[1] = n
  BY <1>2, Stored
<1>5. \A j \in DOMAIN out : out[j].call < calls /\ out[j].call \in Nat
  <2>1. \A j \in DOMAIN out : out[j] \in Packet
    BY <1>2
  <2> QED BY <2>1 DEF IInv, EarlierInv, Packet
<1>6. TypeOK'
  BY <1>1, <1>3, <1>4 DEF IInv, TypeOK
<1>7. ArraysInv'
  <2>1. Len(out') = Len(args'.lens) /\ Len(sizes') = args'.sizes
    BY <1>1, <1>3, <1>4 DEF IInv, ArraysInv
  <2>2. Readable(args)'
    BY <1>1 DEF IInv, ArraysInv, Readable, BadBufs, TooMany
  <2> QED BY <2>1, <2>2 DEF ArraysInv
<1>8. EarlierInv'
  <2>1. ASSUME NEW k \in DOMAIN out PROVE out'[k].call <= calls
    <3>1. CASE k = 1
      BY <1>2, <1>3, <3>1
    <3>2. CASE k # 1
      BY <1>2, <1>3, <1>5, <3>2
    <3> QED BY <3>1, <3>2
  <2> QED BY <1>1, <1>3, <2>1 DEF EarlierInv
<1>9. SegmentsFit'
  <2>1. ASSUME NEW k \in DOMAIN out, out'[k].call = calls
        PROVE  args.offset + out'[k].total <= args.lens[k]
    <3>1. k = 1
      BY <1>2, <1>3, <1>5, <2>1
    <3> QED BY <1>3, <3>1
  <2> QED BY <1>1, <1>3, <2>1 DEF SegmentsFit
<1>10. ControlInv'
  <2>1. Uncut'
    BY <1>1, <1>3, <1>4 DEF Uncut
  <2>2. ~ReturnedSegments'
    BY <1>1 DEF ReturnedSegments
  <2> QED BY <1>1, <2>1, <2>2 DEF ControlInv
<1>11. NotRefusedNeedlessly'
  BY <1>1 DEF NotRefusedNeedlessly
<1> QED BY <1>6, <1>7, <1>8, <1>9, <1>10, <1>11 DEF IInv

(* Without virtio headers the frame, or what fits of it, is in the first   *)
(* buffer.                                                                 *)
LEMMA PlainOk ==
  ASSUME IInv, NEW f \in Frame, ReadPlain(f)
  PROVE  IInv'
<1> DEFINE n == Smaller(f.len, args.lens[1] - args.offset)
           w == Whole(f, f.len - f.csum_start)
           p == [w EXCEPT !.to = n, !.total = n]
<1>1. /\ pc = "read" /\ ~vnet_hdr /\ frame' = f /\ Return(1)
      /\ UNCHANGED <<device, args, hdr_len, next, i, calls>>
      /\ sizes' = [sizes EXCEPT ![1] = n] /\ out' = [out EXCEPT ![1] = p]
  BY DEF ReadPlain
<1>2. f \in FrameType /\ calls \in Nat
  BY InputAssumption DEF IInv, TypeOK
<1>3. n \in Nat /\ args.offset + n <= args.lens[1]
  BY <1>1, <1>2, Arrays, FrameFields DEF Smaller
<1>4. p \in Packet /\ p.call = calls /\ p.total = n
  <2>1. f.len % Width \in Nat
    BY <1>2, FrameFields, SizeAssumption, ModRange
  <2>2. w \in Packet /\ w.call = calls
    BY <1>2, <2>1, FrameFields DEF Whole, Packet
  <2> HIDE DEF n, w
  <2> QED BY <1>3, <2>2 DEF Packet
<1> HIDE DEF n, p
<1> QED BY <1>1, <1>2, <1>3, <1>4, UncutOk

(* A frame that needs no splitting is copied into the first buffer.        *)
LEMMA NoneOk ==
  ASSUME IInv, VirtioNone
  PROVE  IInv'
<1> DEFINE n == frame.len
           p == Whole(frame, Completed)
<1>1. /\ pc = "virtio" /\ frame' = frame /\ Return(1) /\ NoneFits /\ frame.gso_type = "none"
      /\ UNCHANGED <<device, args, hdr_len, next, i, calls>> /\ ArgsFit
      /\ sizes' = [sizes EXCEPT ![1] = n] /\ out' = [out EXCEPT ![1] = p]
  BY DEF VirtioNone
<1>2. frame \in FrameType /\ calls \in Nat
  BY DEF IInv, TypeOK
<1>3. n \in Nat /\ args.offset + n <= args.lens[1]
  BY <1>1, <1>2, Arrays, FrameFields DEF NoneFits
<1>4. p \in Packet /\ p.call = calls /\ p.total = n /\ p.lenf = n % Width
      /\ p.pseudo = n - frame.csum_start
  <2>1. frame.len % Width \in Nat
    BY <1>2, FrameFields, SizeAssumption, ModRange
  <2> QED BY <1>2, <1>3, <2>1, FrameFields DEF Whole, Packet, Completed
<1>5. n < Width => p.lenf = n
  BY <1>3, <1>4, SizeAssumption, ModSmall
<1> HIDE DEF p
<1> QED BY <1>1, <1>2, <1>3, <1>4, <1>5, UncutOk

(***************************************************************************)
(* The loop of gso_split.                                                  *)
(***************************************************************************)

(* The numbers of a frame that is being split, and of one that was.        *)
LEMMA SplitNumbers ==
  ASSUME IInv, Loop
  PROVE  /\ frame.len \in Nat /\ frame.gso_size \in Nat \ {0} /\ frame.csum_start \in Nat
         /\ frame.seq \in Nat /\ frame.id \in Nat /\ frame.tail \in BOOLEAN
         /\ PayloadAt \in Nat /\ PayloadAt < Width /\ PayloadAt <= frame.len
         /\ frame.csum_start <= PayloadAt /\ MinIpLen <= frame.csum_start
         /\ i \in Nat /\ next \in Nat /\ frame.gso_size * i \in Nat
         /\ next = PayloadAt + frame.gso_size * i
<1>1. TypeOK
  BY DEF IInv
<1>2. /\ frame.len \in Nat /\ frame.gso_size \in Nat /\ frame.csum_start \in Nat
      /\ frame.seq \in Nat /\ frame.id \in Nat /\ frame.tail \in BOOLEAN
      /\ i \in Nat /\ next \in Nat
  BY <1>1, FrameFields DEF TypeOK
<1>3. TrueHdrLen = PayloadAt /\ PayloadAt \in Nat /\ PayloadAt < Width
  BY <1>1, HdrLenTrue DEF Loop
<1>4. /\ frame.gso_size # 0 /\ PayloadAt <= frame.len /\ PayloadAt >= frame.csum_start
      /\ frame.csum_start >= MinIpLen
  BY <1>3 DEF Loop, Splittable
<1>5. frame.gso_size * i \in Nat
  BY <1>2, OneMore
<1>6. MinIpLen \in Nat
  BY SizeAssumption DEF MinIpLen
<1> QED BY <1>2, <1>3, <1>4, <1>5, <1>6 DEF Loop

(* gso_split begins with no segment written, at the payload.               *)
LEMMA BeginOk ==
  ASSUME IInv, SplitBegin
  PROVE  IInv'
<1>1. /\ pc = "virtio" /\ pc' = "split" /\ vnet_hdr' = vnet_hdr /\ async' = async
      /\ args' = args /\ frame' = frame /\ hdr_len' = TrueHdrLen /\ next' = TrueHdrLen
      /\ sizes' = sizes /\ i' = 0 /\ out' = out /\ calls' = calls /\ result' = result
  BY DEF SplitBegin, device
<1>2. TrueHdrLen = PayloadAt /\ PayloadAt \in Nat /\ PayloadAt < Width
  BY HdrLenTrue DEF IInv, SplitBegin
<1>3. TypeOK'
  BY <1>1, <1>2, SizeAssumption DEF IInv, TypeOK
<1>4. ArraysInv'
  BY <1>1 DEF IInv, ArraysInv, Readable, BadBufs, TooMany
<1>5. EarlierInv'
  BY <1>1 DEF IInv, EarlierInv
<1>6. SegmentsFit'
  BY <1>1 DEF IInv, SegmentsFit
<1>7. Loop'
  <2>1. vnet_hdr /\ ArgsFit /\ frame.gso_type # "none" /\ Splittable
    BY <1>1 DEF IInv, ControlInv, SplitBegin
  <2>2. vnet_hdr' /\ ArgsFit' /\ frame'.gso_type # "none" /\ Splittable'
    BY <1>1, <2>1 DEF ArgsFit, TooMany, Bufs, Splittable, IsTcp, TypeFitsVersion,
                      TrueHdrLen, MinIpLen, CsumAt
  <2>3. PayloadAt' = PayloadAt /\ hdr_len' = PayloadAt'
    BY <1>1, <1>2 DEF PayloadAt, IsTcp
  <2>4. next' = PayloadAt' + frame'.gso_size * i'
    <3>1. frame.gso_size \in Nat
      BY FrameFields DEF IInv, TypeOK
    <3>2. frame.gso_size * 0 = 0
      BY <3>1, OneMore
    <3> QED BY <1>1, <1>2, <2>3, <3>2
  <2>5. i' <= Len(args'.lens)
    BY <1>1, Arrays
  <2>6. \A k \in 1..i' : Cut(k)'
    BY <1>1
  <2>7. \A k \in DOMAIN out' : k > i' => out'[k].call < calls'
    BY <1>1 DEF IInv, EarlierInv
  <2> QED BY <2>2, <2>3, <2>4, <2>5, <2>6, <2>7 DEF Loop
<1>8. ControlInv'
  BY <1>1, <1>7 DEF ControlInv, ReturnedSegments, Returned
<1>9. NotRefusedNeedlessly'
  BY <1>1 DEF NotRefusedNeedlessly
<1> QED BY <1>3, <1>4, <1>5, <1>6, <1>8, <1>9 DEF IInv

(* The loop runs out of buffers only when the caller brought too few.      *)
LEMMA TooManyOk ==
  ASSUME IInv, SplitTooMany
  PROVE  IInv'
<1>1. /\ pc = "split" /\ Return(-1) /\ next < frame.len /\ i = Len(args.lens)
      /\ UNCHANGED <<device, args, frame, hdr_len, next, i, out, sizes, calls>>
  BY DEF SplitTooMany, unchangedByReturn, Splitting
<1>2. sizes' \in Seq(Nat) /\ Len(sizes') = Len(sizes)
  BY <1>1 DEF IInv, TypeOK
<1>3. ~Ample
  <2> SUFFICES ASSUME Ample PROVE FALSE
    OBVIOUS
  <2> DEFINE all == frame.gso_size * i
  <2>1. Loop
    BY <1>1 DEF IInv, ControlInv
  <2>2. /\ all \in Nat /\ next = PayloadAt + all /\ PayloadAt \in Nat /\ frame.len \in Nat
        /\ i \in Nat /\ frame.gso_size \in Nat
    BY <2>1, SplitNumbers
  <2>3. i * frame.gso_size >= frame.len - PayloadAt
    BY <1>1 DEF Ample
  <2>4. i * frame.gso_size = all
    BY <2>2
  <2> HIDE DEF all
  <2> QED BY <1>1, <2>2, <2>3, <2>4
<1> QED BY <1>1, <1>2, <1>3, FailOk

(* What the loop is about to write.                                        *)
LEMMA NextSegment ==
  ASSUME IInv, pc = "split", next < frame.len
  PROVE  /\ SegmentEnd \in Nat /\ next < SegmentEnd /\ SegmentEnd <= frame.len
         /\ SegmentEnd <= next + frame.gso_size
         /\ SegmentLen = SegmentEnd - next /\ SegmentLen \in Nat \ {0}
         /\ TotalLen = PayloadAt + SegmentLen /\ TotalLen \in Nat
         /\ TotalLen <= frame.len
<1>1. Loop
  BY DEF IInv, ControlInv
<1>2. /\ frame.len \in Nat /\ frame.gso_size \in Nat \ {0} /\ PayloadAt \in Nat
      /\ next \in Nat /\ hdr_len = PayloadAt
  BY <1>1, SplitNumbers DEF Loop
<1>3. PayloadAt <= next
  <2> DEFINE all == frame.gso_size * i
  <2>1. all \in Nat /\ next = PayloadAt + all
    BY <1>1, SplitNumbers
  <2> HIDE DEF all
  <2> QED BY <1>2, <2>1
<1> QED BY <1>2, <1>3 DEF SegmentEnd, SegmentLen, TotalLen, Smaller

(* A buffer is too small for its segment only when the caller brought no   *)
(* room for a full one. The size stored before the error is in the array,  *)
(* too.                                                                    *)
LEMMA TooSmallOk ==
  ASSUME IInv, SplitTooSmall
  PROVE  IInv'
<1>1. /\ pc = "split" /\ Return(-1) /\ next < frame.len /\ i < Len(args.lens) /\ ~Fits
      /\ UNCHANGED <<device, args, frame, hdr_len, next, i, out, calls>>
      /\ sizes' = [sizes EXCEPT ![i + 1] = TotalLen]
  BY DEF SplitTooSmall, Splitting, StoreSize
<1>2. i + 1 \in Bufs /\ i + 1 \in DOMAIN sizes /\ sizes \in Seq(Nat)
  BY <1>1, Arrays DEF IInv, TypeOK
<1>3. sizes' \in Seq(Nat) /\ Len(sizes') = Len(sizes)
  BY <1>1, <1>2, NextSegment, Stored
<1>4. ~Ample
  <2> SUFFICES ASSUME Ample PROVE FALSE
    OBVIOUS
  <2>1. args.lens[i + 1] >= args.offset + PayloadAt + frame.gso_size
    BY <1>2 DEF Ample
  <2>2. /\ PayloadAt \in Nat /\ frame.gso_size \in Nat /\ next \in Nat
        /\ args.offset \in Nat /\ args.lens[i + 1] \in Nat
    BY <1>1, <1>2, SplitNumbers, Arrays DEF IInv, ControlInv
  <2>3. TotalLen <= PayloadAt + frame.gso_size /\ TotalLen \in Nat
    BY <1>1, <2>2, NextSegment
  <2> QED BY <1>1, <2>1, <2>2, <2>3 DEF Fits
<1> QED BY <1>1, <1>3, <1>4, FailOk

(* The header of a segment is the one Cut asks for.                        *)
LEMMA SegmentIsCut ==
  ASSUME IInv, pc = "split", next < frame.len
  PROVE  /\ Segment \in Packet
         /\ Segment.call = calls /\ Segment.from = next /\ Segment.to = SegmentEnd
         /\ Segment.total = TotalLen
         /\ TotalLen < Width => Segment.lenf = TotalLen
         /\ frame.len < Width => Segment.pseudo = TotalLen - frame.csum_start
         /\ IsTcp => /\ Segment.seq = (frame.seq + frame.gso_size * i) % SeqSpace
                     /\ Segment.tail <=> frame.tail /\ SegmentEnd = frame.len
         /\ frame.ver = 4 => Segment.id = (frame.id + i) % Width
<1> DEFINE all == frame.gso_size * i
<1>1. Loop
  BY DEF IInv, ControlInv
<1>2. /\ frame.len \in Nat /\ frame.csum_start \in Nat /\ frame.seq \in Nat
      /\ frame.id \in Nat /\ frame.tail \in BOOLEAN /\ PayloadAt \in Nat
      /\ frame.csum_start <= PayloadAt /\ MinIpLen <= frame.csum_start
      /\ i \in Nat /\ next \in Nat /\ all \in Nat /\ hdr_len = PayloadAt
  BY <1>1, SplitNumbers DEF Loop
<1>3. /\ SegmentEnd \in Nat /\ SegmentLen \in Nat /\ TotalLen \in Nat
      /\ TotalLen = PayloadAt + SegmentLen /\ TotalLen <= frame.len
  BY NextSegment
<1>4. calls \in Nat /\ Width \in Nat \ {0} /\ SeqSpace \in Nat \ {0} /\ Ip6Len \in Nat
  BY SizeAssumption DEF IInv, TypeOK
<1> HIDE DEF all
<1>5. LengthField \in Nat /\ (TotalLen < Width => LengthField = TotalLen)
  <2>1. CASE frame.ver = 6
    <3>1. Ip6Len <= TotalLen /\ TotalLen - Ip6Len \in Nat
      BY <1>2, <1>3, <1>4, <2>1 DEF MinIpLen
    <3>2. (TotalLen - Ip6Len) % Width \in Nat
      BY <1>4, <3>1, ModRange
    <3>3. TotalLen < Width => (TotalLen - Ip6Len) % Width = TotalLen - Ip6Len
      BY <1>3, <1>4, <3>1, ModSmall
    <3> QED BY <1>3, <1>4, <2>1, <3>1, <3>2, <3>3 DEF LengthField
  <2>2. CASE frame.ver # 6
    BY <1>3, <1>4, <2>2, ModSmall, ModRange DEF LengthField
  <2> QED BY <2>1, <2>2
<1>6. PseudoLen \in Nat /\ (frame.len < Width => PseudoLen = TotalLen - frame.csum_start)
  <2> DEFINE covered == PayloadAt - frame.csum_start + SegmentLen
  <2>1. covered \in Nat /\ covered <= frame.len /\ covered = TotalLen - frame.csum_start
    BY <1>2, <1>3
  <2>2. PseudoLen = covered % Width
    BY <1>2 DEF PseudoLen
  <2> HIDE DEF covered
  <2>3. covered % Width \in Nat
    BY <1>4, <2>1, ModRange
  <2>4. frame.len < Width => covered % Width = covered
    BY <1>2, <1>4, <2>1, ModSmall
  <2> QED BY <2>1, <2>2, <2>3, <2>4
<1>7. SegmentSeq \in Nat /\ SegmentSeq = (frame.seq + all) % SeqSpace
  BY <1>2, <1>4, ModRange DEF SegmentSeq, all
<1>8. (frame.id + i) % Width \in Nat
  BY <1>2, <1>4, ModRange
<1>9. KeepsTail \in BOOLEAN /\ (KeepsTail <=> frame.tail /\ SegmentEnd = frame.len)
  BY DEF KeepsTail
<1>10. Segment \in Packet
  BY <1>2, <1>3, <1>4, <1>5, <1>6, <1>7, <1>8, <1>9 DEF Segment, Packet
<1>11. /\ Segment.call = calls /\ Segment.from = next /\ Segment.to = SegmentEnd
       /\ Segment.total = TotalLen /\ Segment.lenf = LengthField
       /\ Segment.pseudo = PseudoLen
  BY DEF Segment
<1>12. IsTcp => Segment.seq = SegmentSeq
  BY DEF Segment
<1>13. IsTcp => (Segment.tail <=> KeepsTail)
  BY DEF Segment
<1>14. frame.ver = 4 => Segment.id = (frame.id + i) % Width
  BY DEF Segment
<1> QED BY <1>5, <1>6, <1>7, <1>9, <1>10, <1>11, <1>12, <1>13, <1>14 DEF all

(* One turn of the loop: segment i + 1 is cut as Cut says, the ones before *)
(* it stay as they are, and it ends within its buffer.                     *)
LEMMA SegmentOk ==
  ASSUME IInv, SplitSegment
  PROVE  IInv'
<1>1. /\ pc = "split" /\ pc' = "split" /\ next < frame.len /\ i < Len(args.lens) /\ Fits
      /\ vnet_hdr' = vnet_hdr /\ async' = async /\ args' = args /\ frame' = frame
      /\ hdr_len' = hdr_len /\ result' = result /\ calls' = calls
      /\ next' = next + frame.gso_size /\ i' = i + 1
      /\ sizes' = [sizes EXCEPT ![i + 1] = TotalLen]
      /\ out' = [out EXCEPT ![i + 1] = Segment]
  BY DEF SplitSegment, Splitting, StoreSize, Advance, device
<1>2. Loop /\ TypeOK
  BY <1>1 DEF IInv, ControlInv
<1>3. /\ i \in Nat /\ next \in Nat /\ frame.gso_size \in Nat \ {0} /\ PayloadAt \in Nat
      /\ frame.len \in Nat /\ calls \in Nat /\ Len(args.lens) \in Nat
      /\ args.offset \in Nat
  BY <1>1, <1>2, SplitNumbers, Arrays DEF TypeOK
<1>4. /\ i + 1 \in Bufs /\ i + 1 \in DOMAIN out /\ i + 1 \in DOMAIN sizes
      /\ Bufs = 1..Len(args.lens) /\ DOMAIN out = Bufs /\ DOMAIN sizes = Bufs
      /\ out \in Seq(Packet) /\ sizes \in Seq(Nat)
  BY <1>1, <1>2, <1>3, Arrays DEF TypeOK
<1>5. /\ Segment \in Packet /\ TotalLen \in Nat
  BY <1>1, SegmentIsCut, NextSegment
<1>6. /\ out' \in Seq(Packet) /\ Len(out') = Len(out) /\ DOMAIN out' = DOMAIN out
      /\ out'[i + 1] = Segment /\ \A j \in DOMAIN out : j # i + 1 => out'[j] = out[j]
  BY <1>1, <1>4, <1>5, Stored
<1>7. /\ sizes' \in Seq(Nat) /\ Len(sizes') = Len(sizes) /\ DOMAIN sizes' = DOMAIN sizes
      /\ sizes'[i + 1] = TotalLen
      /\ \A j \in DOMAIN sizes : j # i + 1 => sizes'[j] = sizes[j]
  BY <1>1, <1>4, <1>5, Stored
<1>8. TypeOK'
  BY <1>1, <1>2, <1>3, <1>6, <1>7 DEF TypeOK
<1>9. ArraysInv'
  <2>1. Len(out') = Len(args'.lens) /\ Len(sizes') = args'.sizes
    BY <1>1, <1>6, <1>7 DEF IInv, ArraysInv
  <2>2. Readable(args)'
    BY <1>1 DEF IInv, ArraysInv, Readable, BadBufs, TooMany
  <2> QED BY <2>1, <2>2 DEF ArraysInv
<1>10. EarlierInv'
  <2>1. ASSUME NEW k \in DOMAIN out PROVE out'[k].call <= calls
    <3>1. CASE k = i + 1
      BY <1>1, <1>3, <1>6, <3>1, SegmentIsCut
    <3>2. CASE k # i + 1
      BY <1>6, <3>2 DEF IInv, EarlierInv
    <3> QED BY <3>1, <3>2
  <2> QED BY <1>1, <1>6, <2>1 DEF EarlierInv
<1>11. SegmentsFit'
  <2>1. ASSUME NEW k \in DOMAIN out, out'[k].call = calls
        PROVE  args.offset + out'[k].total <= args.lens[k]
    <3>1. CASE k = i + 1
      <4>1. out'[k].total = TotalLen
        BY <1>1, <1>6, <3>1, SegmentIsCut
      <4>2. args.lens[k] \in Nat
        BY <1>1, <1>4, <3>1, Arrays
      <4> QED BY <1>1, <1>3, <1>5, <3>1, <4>1, <4>2 DEF Fits
    <3>2. CASE k # i + 1
      BY <1>1, <1>6, <2>1, <3>2 DEF IInv, SegmentsFit
    <3> QED BY <3>1, <3>2
  <2> QED BY <1>1, <1>6, <2>1 DEF SegmentsFit
<1>12. Loop'
  <2>1. vnet_hdr' /\ ArgsFit' /\ frame'.gso_type # "none" /\ Splittable'
    BY <1>1, <1>2 DEF Loop, ArgsFit, TooMany, Bufs, Splittable, IsTcp, TypeFitsVersion,
                      TrueHdrLen, MinIpLen, CsumAt
  <2>2. PayloadAt' = PayloadAt /\ (IsTcp <=> IsTcp')
    BY <1>1 DEF PayloadAt, IsTcp
  <2>3. next' = PayloadAt' + frame'.gso_size * i'
    <3> DEFINE all == frame.gso_size * i
               more == frame.gso_size * (i + 1)
    <3>1. all \in Nat /\ more = all + frame.gso_size
      BY <1>3, OneMore
    <3>2. next = PayloadAt + all
      BY <1>2 DEF Loop
    <3>3. next' = next + frame.gso_size /\ PayloadAt' + frame'.gso_size * i' = PayloadAt + more
      BY <1>1, <2>2
    <3> HIDE DEF all, more
    <3> QED BY <1>3, <3>1, <3>2, <3>3
  <2>4. ASSUME NEW k \in 1..i' PROVE Cut(k)'
    <3>1. k \in DOMAIN out /\ k \in DOMAIN sizes /\ k \in Nat
      BY <1>1, <1>3, <1>4
    <3>2. CASE k = i + 1
      <4>1. k - 1 = i
        BY <1>3, <3>2
      <4>2. Starts(k) = next
        BY <1>2, <4>1 DEF Starts, Loop
      <4>3. /\ out'[k] = Segment /\ sizes'[k] = TotalLen
        BY <1>6, <1>7, <3>2
      <4>4. Starts(k)' = next
        BY <1>1, <2>2, <4>2 DEF Starts
      <4>5. SegmentEnd = Smaller(next + frame.gso_size, frame.len)
        BY DEF SegmentEnd
      <4>6. TotalLen = PayloadAt + (SegmentEnd - next)
        BY <1>1, NextSegment
      <4>7. /\ out'[k].call = calls /\ out'[k].from = next /\ out'[k].to = SegmentEnd
            /\ out'[k].total = TotalLen
            /\ TotalLen < Width => out'[k].lenf = TotalLen
            /\ frame.len < Width => out'[k].pseudo = TotalLen - frame.csum_start
            /\ frame.ver = 4 => out'[k].id = (frame.id + (k - 1)) % Width
        BY <1>1, <4>1, <4>3, SegmentIsCut
      <4>8. IsTcp => /\ out'[k].seq = (frame.seq + frame.gso_size * (k - 1)) % SeqSpace
                     /\ out'[k].tail <=> frame.tail /\ SegmentEnd = frame.len
        BY <1>1, <4>1, <4>3, SegmentIsCut
      <4>9. IsTcp' => /\ out'[k].seq = (frame'.seq + frame'.gso_size * (k - 1)) % SeqSpace
                      /\ out'[k].tail <=> frame'.tail /\ out'[k].to = frame'.len
        BY <1>1, <2>2, <4>7, <4>8
      <4> HIDE DEF IsTcp
      <4> QED BY <1>1, <2>2, <4>3, <4>4, <4>5, <4>6, <4>7, <4>9 DEF Cut
    <3>3. CASE k # i + 1
      <4>1. k \in 1..i /\ out'[k] = out[k] /\ sizes'[k] = sizes[k]
        BY <1>1, <1>3, <1>6, <1>7, <3>1, <3>3
      <4>2. Cut(k)
        BY <1>2, <4>1 DEF Loop
      <4>3. Starts(k)' = Starts(k)
        BY <1>1, <2>2 DEF Starts
      <4> QED BY <1>1, <2>2, <4>1, <4>2, <4>3 DEF Cut
    <3> QED BY <3>2, <3>3
  <2>5. ASSUME NEW k \in DOMAIN out', k > i' PROVE out'[k].call < calls'
    <3>1. k \in DOMAIN out /\ k > i /\ k # i + 1
      BY <1>1, <1>3, <1>4, <1>6, <2>5
    <3> QED BY <1>1, <1>2, <1>6, <3>1 DEF Loop
  <2>6. hdr_len' = PayloadAt' /\ i' <= Len(args'.lens)
    BY <1>1, <1>2, <1>3, <2>2 DEF Loop
  <2> QED BY <2>1, <2>3, <2>4, <2>5, <2>6 DEF Loop
<1>13. ControlInv'
  BY <1>1, <1>12 DEF ControlInv, ReturnedSegments, Returned
<1>14. NotRefusedNeedlessly'
  BY <1>1 DEF NotRefusedNeedlessly
<1> QED BY <1>8, <1>9, <1>10, <1>11, <1>13, <1>14 DEF IInv

(* gso_split returns the number of segments; a frame with a payload has    *)
(* one at least.                                                           *)
LEMMA DoneOk ==
  ASSUME IInv, SplitDone
  PROVE  IInv'
<1>1. /\ pc = "split" /\ pc' = "idle" /\ result' = i /\ next >= frame.len
      /\ vnet_hdr' = vnet_hdr /\ async' = async /\ args' = args /\ frame' = frame
      /\ hdr_len' = hdr_len /\ next' = next /\ i' = i /\ out' = out /\ sizes' = sizes
      /\ calls' = calls
  BY DEF SplitDone, Return, unchangedByReturn, device
<1>2. Loop /\ TypeOK
  BY <1>1 DEF IInv, ControlInv
<1>3. TypeOK'
  BY <1>1, <1>2 DEF TypeOK
<1>4. ArraysInv'
  <2>1. Len(out') = Len(args'.lens) /\ Len(sizes') = args'.sizes
    BY <1>1 DEF IInv, ArraysInv
  <2>2. Readable(args)'
    BY <1>1 DEF IInv, ArraysInv, Readable, BadBufs, TooMany
  <2> QED BY <2>1, <2>2 DEF ArraysInv
<1>5. EarlierInv'
  BY <1>1 DEF IInv, EarlierInv
<1>6. SegmentsFit'
  BY <1>1 DEF IInv, SegmentsFit
<1>7. Loop'
  <2>1. vnet_hdr' /\ ArgsFit' /\ frame'.gso_type # "none" /\ Splittable'
    BY <1>1, <1>2 DEF Loop, ArgsFit, TooMany, Bufs, Splittable, IsTcp, TypeFitsVersion,
                      TrueHdrLen, MinIpLen, CsumAt
  <2>2. PayloadAt' = PayloadAt /\ (IsTcp <=> IsTcp')
    BY <1>1 DEF PayloadAt, IsTcp
  <2>3. ASSUME NEW k \in 1..i' PROVE Cut(k)'
    <3>1. Cut(k)
      BY <1>1, <1>2 DEF Loop
    <3>2. Starts(k)' = Starts(k)
      BY <1>1, <2>2 DEF Starts
    <3> QED BY <1>1, <2>2, <3>1, <3>2 DEF Cut
  <2> QED BY <1>1, <1>2, <2>1, <2>2, <2>3 DEF Loop
<1>8. ControlInv'
  <2>1. vnet_hdr' /\ frame'.gso_type # "none"
    BY <1>7 DEF Loop
  <2>2. ReturnedSegments' => Loop' /\ result' = i' /\ next' >= frame'.len
    BY <1>1, <1>7
  <2>3. Returned' => ReturnedSegments'
    BY <2>1 DEF ReturnedSegments
  <2> QED BY <1>1, <2>2, <2>3 DEF ControlInv
<1>9. NotRefusedNeedlessly'
  <2>1. WellFormed' => i # 0
    <3>1. PayloadAt' = PayloadAt
      BY <1>1 DEF PayloadAt, IsTcp
    <3> SUFFICES ASSUME PayloadAt < frame.len, i = 0 PROVE FALSE
      BY <1>1, <3>1 DEF WellFormed
    <3>2. /\ frame.gso_size \in Nat /\ PayloadAt \in Nat /\ frame.len \in Nat
          /\ next = PayloadAt + frame.gso_size * 0
      BY <1>2, SplitNumbers
    <3>3. frame.gso_size * 0 = 0
      BY <3>2, OneMore
    <3> QED BY <1>1, <3>2, <3>3
  <2>2. i \in Nat
    BY <1>2 DEF TypeOK
  <2> QED BY <1>1, <2>1, <2>2 DEF NotRefusedNeedlessly
<1> QED BY <1>3, <1>4, <1>5, <1>6, <1>8, <1>9 DEF IInv

(***************************************************************************)
(* The invariant, and the properties it implies.                           *)
(***************************************************************************)

(* A step that changes nothing keeps the invariant.                        *)
LEMMA StutterOk ==
  ASSUME IInv, UNCHANGED vars
  PROVE  IInv'
<1>1. /\ vnet_hdr' = vnet_hdr /\ async' = async /\ args' = args /\ frame' = frame
      /\ hdr_len' = hdr_len /\ next' = next /\ i' = i /\ out' = out /\ sizes' = sizes
      /\ calls' = calls /\ pc' = pc /\ result' = result
  BY DEF vars
<1>2. /\ (WellFormed <=> WellFormed') /\ (Ample <=> Ample') /\ PayloadAt' = PayloadAt
      /\ (IsTcp <=> IsTcp') /\ (Readable(args) <=> Readable(args)')
      /\ (ArgsFit <=> ArgsFit') /\ (Splittable <=> Splittable')
      /\ (ReturnedSegments <=> ReturnedSegments') /\ (Returned <=> Returned')
      /\ (Uncut <=> Uncut')
  BY <1>1 DEF WellFormed, Ample, PayloadAt, MinIpLen, TypeFitsVersion, IsTcp, TooMany, Bufs,
              Readable, BadBufs, ArgsFit, Splittable, TrueHdrLen, CsumAt, ReturnedSegments,
              Returned, Uncut
<1>3. \A k : Starts(k)' = Starts(k)
  BY <1>1, <1>2 DEF Starts
<1>4. \A k : Cut(k) <=> Cut(k)'
  BY <1>1, <1>2, <1>3 DEF Cut
<1>5. Loop <=> Loop'
  BY <1>1, <1>2, <1>4 DEF Loop
<1> QED BY <1>1, <1>2, <1>5 DEF IInv, TypeOK, ArraysInv, EarlierInv, ControlInv,
                                SegmentsFit, NotRefusedNeedlessly

(* Every step of Next keeps the invariant.                                 *)
LEMMA StepOk == IInv /\ [Next]_vars => IInv'
<1> SUFFICES ASSUME IInv, [Next]_vars PROVE IInv'
  OBVIOUS
<1>1. CASE Calling
  BY <1>1, CallOk DEF Calling
<1>2. CASE Reading
  <2>1. CASE ReadFails
    BY <2>1, RefusalsOk
  <2>2. ASSUME NEW f \in Frame, ReadPlain(f) \/ ReadVirtio(f) \/ ReadShort(f)
        PROVE  IInv'
    BY <2>2, PlainOk, ReadOk, ShortOk
  <2> QED BY <1>2, <2>1, <2>2 DEF Reading
<1>3. CASE Handling
  BY <1>3, NoneOk, RefusalsOk, BeginOk, TooManyOk, TooSmallOk, SegmentOk, DoneOk DEF Handling
<1>4. CASE UNCHANGED vars
  BY <1>4, StutterOk
<1> QED BY <1>1, <1>2, <1>3, <1>4 DEF Next

(* The invariant holds: the types, the arrays, what the loop has written,  *)
(* and with them SegmentsFit and NotRefusedNeedlessly, for every frame the *)
(* kernel may deliver and every buffer the caller may bring to             *)
(* recv_multiple.                                                          *)
THEOREM Invariance == Spec => []IInv
<1> QED BY InitOk, StepOk, PTL DEF Spec

(* Nothing is written behind the end of a caller's buffer: gso_split       *)
(* compares the total length with what the offset leaves.                  *)
THEOREM NothingIsWrittenBehind == Spec => []SegmentsFit
<1>1. IInv => SegmentsFit
  BY DEF IInv
<1> QED BY <1>1, Invariance, PTL

(* A well-formed frame is never refused when the caller has room for it:   *)
(* none of the checks of handle_virtio_read and gso_split is off by one.   *)
THEOREM RoomIsEnough == Spec => []NotRefusedNeedlessly
<1>1. IInv => NotRefusedNeedlessly
  BY DEF IInv
<1> QED BY <1>1, Invariance, PTL

(* A successful recv_multiple reports buffers and sizes of its own frame   *)
(* only, whatever earlier calls left in the arrays.                        *)
THEOREM ReportIsCurrent == Spec => []SizesCurrent
<1>1. IInv => SizesCurrent
  <2> SUFFICES ASSUME IInv, Returned, NEW k \in 1..result
               PROVE  out[k].call = calls /\ sizes[k] = out[k].total
    BY DEF SizesCurrent
  <2>1. CASE ReturnedSegments
    BY <2>1 DEF IInv, ControlInv, Loop, Cut
  <2>2. CASE ~ReturnedSegments
    BY <2>2 DEF IInv, ControlInv, Uncut
  <2> QED BY <2>1, <2>2
<1> QED BY <1>1, Invariance, PTL

(* Where the segments of a frame begin and end, once all are written: each *)
(* but the last is full, and the last ends with the frame.                 *)
LEMMA Bounds ==
  ASSUME IInv, ReturnedSegments
  PROVE  /\ result \in Nat \ {0} /\ Starts(1) = PayloadAt
         /\ out[result].to = frame.len
         /\ out[result].to - out[result].from \in 1..frame.gso_size
         /\ \A k \in 1..result : /\ Cut(k) /\ Starts(k) \in Nat
                                 /\ Starts(k) = PayloadAt + frame.gso_size * (k - 1)
         /\ \A k \in 1..result - 1 : /\ out[k].to = Starts(k + 1)
                                     /\ out[k].to = out[k].from + frame.gso_size
                                     /\ out[k].to < frame.len
<1>1. Loop /\ result = i /\ next >= frame.len /\ result > 0
  BY DEF IInv, ControlInv, ReturnedSegments, Returned
<1>2. /\ frame.len \in Nat /\ frame.gso_size \in Nat \ {0} /\ PayloadAt \in Nat
      /\ i \in Nat /\ next \in Nat /\ next = PayloadAt + frame.gso_size * i
  BY <1>1, SplitNumbers
<1>3. \A k \in 1..i : Cut(k)
  BY <1>1 DEF Loop
<1>4. ASSUME NEW k \in 1..i
      PROVE  /\ Starts(k) \in Nat /\ Starts(k) + frame.gso_size \in Nat
             /\ Starts(k) + frame.gso_size = PayloadAt + frame.gso_size * k
             /\ k - 1 \in Nat
  <2> DEFINE at == frame.gso_size * (k - 1)
             after == frame.gso_size * ((k - 1) + 1)
  <2>1. k - 1 \in Nat /\ (k - 1) + 1 = k /\ k \in Nat
    BY <1>2
  <2>2. at \in Nat /\ after = at + frame.gso_size
    BY <1>2, <2>1, OneMore
  <2>3. after = frame.gso_size * k /\ Starts(k) = PayloadAt + at
    BY <2>1 DEF Starts
  <2> HIDE DEF at, after
  <2> QED BY <1>2, <2>1, <2>2, <2>3
<1>5. Starts(1) = PayloadAt
  <2>1. frame.gso_size * (1 - 1) = 0
    BY <1>2, OneMore
  <2> QED BY <1>2, <2>1 DEF Starts
<1>6. out[i].to = frame.len /\ out[i].to - out[i].from \in 1..frame.gso_size
  <2>1. i \in 1..i
    BY <1>1, <1>2
  <2>2. next = Starts(i) + frame.gso_size /\ Starts(i) \in Nat
    BY <1>2, <1>4, <2>1
  <2>3. /\ out[i].to = Smaller(Starts(i) + frame.gso_size, frame.len)
        /\ out[i].from = Starts(i) /\ out[i].from < frame.len
    BY <1>3, <2>1 DEF Cut
  <2> QED BY <1>1, <1>2, <2>2, <2>3 DEF Smaller
<1>7. ASSUME NEW k \in 1..i - 1
      PROVE  /\ out[k].to = Starts(k + 1) /\ out[k].to = out[k].from + frame.gso_size
             /\ out[k].to < frame.len
  <2>1. k \in 1..i /\ k + 1 \in 1..i /\ k \in Nat /\ (k + 1) - 1 = k
    BY <1>2
  <2>2. Starts(k + 1) = Starts(k) + frame.gso_size /\ Starts(k) \in Nat
    BY <1>2, <1>4, <2>1 DEF Starts
  <2>3. /\ out[k].to = Smaller(Starts(k) + frame.gso_size, frame.len)
        /\ out[k].from = Starts(k)
        /\ out[k + 1].from = Starts(k + 1) /\ out[k + 1].from < frame.len
    BY <1>3, <2>1 DEF Cut
  <2> QED BY <1>2, <2>2, <2>3 DEF Smaller
<1> QED BY <1>1, <1>2, <1>3, <1>4, <1>5, <1>6, <1>7 DEF Starts

(* The segments are the frame's payload, complete, in order and cut at     *)
(* gso_size, wherever the kernel's own hdr_len points.                     *)
THEOREM PayloadIsPreserved == Spec => []PayloadPreserved
<1>1. IInv => PayloadPreserved
  <2> SUFFICES ASSUME IInv, ReturnedSegments
               PROVE  /\ out[1].from = PayloadAt
                      /\ out[result].to = frame.len
                      /\ \A k \in 1..result - 1 :
                           /\ out[k + 1].from = out[k].to
                           /\ out[k].to - out[k].from = frame.gso_size
                      /\ out[result].to - out[result].from \in 1..frame.gso_size
    BY DEF PayloadPreserved
  <2>1. result \in Nat \ {0}
    BY Bounds
  <2>2. ASSUME NEW k \in 1..result PROVE out[k].from = Starts(k) /\ Starts(k) \in Nat
    BY <2>2, Bounds DEF Cut
  <2>3. out[1].from = PayloadAt
    BY <2>1, <2>2, Bounds
  <2>4. ASSUME NEW k \in 1..result - 1
        PROVE  /\ out[k + 1].from = out[k].to
               /\ out[k].to - out[k].from = frame.gso_size
    <3>1. k \in 1..result /\ k + 1 \in 1..result
      BY <2>1
    <3>2. out[k].to = Starts(k + 1) /\ out[k].to = out[k].from + frame.gso_size
      BY <2>4, Bounds
    <3>3. frame.gso_size \in Nat
      BY FrameFields DEF IInv, TypeOK
    <3> QED BY <2>2, <3>1, <3>2, <3>3
  <2> QED BY <2>3, <2>4, Bounds
<1> QED BY <1>1, Invariance, PTL

(* Every segment has the header a sender without offload would have made,  *)
(* at the wrap-around of sequence numbers and ids, too; FIN and PSH stay   *)
(* with the last one, and length and checksum are those of the segment.    *)
THEOREM HeadersAreRight == Spec => []SegmentHeaders
<1>1. IInv => SegmentHeaders
  <2> SUFFICES ASSUME IInv PROVE SegmentHeaders
    OBVIOUS
  <2>1. ASSUME ReturnedSegments, NEW k \in 1..result
        PROVE  /\ IsTcp => /\ out[k].seq = (frame.seq + out[k].from - PayloadAt) % SeqSpace
                           /\ out[k].tail <=> frame.tail /\ k = result
               /\ frame.ver = 4 => out[k].id = (frame.id + k - 1) % Width
    <3> DEFINE at == frame.gso_size * (k - 1)
    <3>1. /\ Cut(k) /\ Starts(k) \in Nat /\ Starts(k) = PayloadAt + at
          /\ result \in Nat \ {0} /\ k \in Nat
      BY <2>1, Bounds
    <3>2. Loop
      BY <2>1 DEF IInv, ControlInv
    <3>3. /\ frame.seq \in Nat /\ frame.id \in Nat /\ PayloadAt \in Nat /\ frame.len \in Nat
          /\ at \in Int
      <4>1. frame.gso_size \in Nat
        BY <3>2, SplitNumbers
      <4> QED BY <3>1, <3>2, <4>1, SplitNumbers
    <3>4. out[k].from = PayloadAt + at
      BY <3>1 DEF Cut
    <3>5. IsTcp => out[k].seq = (frame.seq + at) % SeqSpace
      BY <3>1 DEF Cut
    <3>6. IsTcp => (out[k].tail <=> frame.tail /\ out[k].to = frame.len)
      BY <3>1 DEF Cut
    <3>7. frame.ver = 4 => out[k].id = (frame.id + (k - 1)) % Width
      BY <3>1 DEF Cut
    <3> HIDE DEF at
    <3>8. frame.seq + out[k].from - PayloadAt = frame.seq + at
      BY <3>3, <3>4
    <3>9. frame.id + (k - 1) = frame.id + k - 1
      BY <3>1, <3>3
    <3>10. out[k].to = frame.len <=> k = result
      <4>1. CASE k = result
        BY <2>1, <4>1, Bounds
      <4>2. CASE k # result
        <5>1. k \in 1..result - 1
          BY <3>1, <4>2
        <5>2. out[k].to = Starts(k + 1) /\ out[k].to < frame.len
          BY <2>1, <5>1, Bounds
        <5>3. Starts(k + 1) \in Nat
          BY <2>1, <3>1, <5>1, Bounds
        <5> QED BY <3>3, <4>2, <5>2, <5>3
      <4> QED BY <4>1, <4>2
    <3> QED BY <3>5, <3>6, <3>7, <3>8, <3>9, <3>10
  <2>2. ASSUME Returned, vnet_hdr, NEW k \in 1..result
        PROVE  /\ out[k].total < Width => out[k].lenf = out[k].total
               /\ frame.len < Width => out[k].pseudo = out[k].total - frame.csum_start
    <3>1. CASE ReturnedSegments
      BY <3>1, Bounds DEF Cut
    <3>2. CASE ~ReturnedSegments
      BY <2>2, <3>2 DEF IInv, ControlInv, Uncut
    <3> QED BY <3>1, <3>2
  <2> QED BY <2>1, <2>2 DEF SegmentHeaders
<1> QED BY <1>1, Invariance, PTL

-----------------------------------------------------------------------------
(***************************************************************************)
(* The checksum (Checksum): whatever is summed, in whatever pieces and by  *)
(* whatever version, the result is that of RFC 1071.  The vector versions  *)
(* add up the same 32-bit words as the scalar loop (Sse41IsScalar,         *)
(* Avx2IsScalar), no 64-bit sum overflows (SumBound), 2^32 words differ    *)
(* from 2^16 words by multiples of 2^16 - 1 (Same), which folding does not *)
(* change either, and of two numbers of 16 bits that are Same, both zero   *)
(* or neither, the one is the other.                                       *)
(***************************************************************************)

(* Recursion over numbers. *)

(* A set of numbers that has an element has a least one.                   *)
LEMMA LeastNumber ==
  ASSUME NEW T, T \subseteq Nat, T # {}
  PROVE  \E m \in T : \A k \in T : m <= k
<1>1. PICK m \in T : \A k \in T : ~(<<k, m>> \in OpToRel(<, Nat))
  BY NatLessThanWellFounded, WFMin
<1>2. ASSUME NEW k \in T PROVE m <= k
  <2>1. ~(k < m)
    BY <1>1, <1>2 DEF OpToRel
  <2>2. k \in Nat /\ m \in Nat
    OBVIOUS
  <2> QED BY <2>1, <2>2
<1> QED BY <1>2

(* What holds of 0 and with n of n + 1 holds up to N: the least number     *)
(* without it would have a predecessor without it.                         *)
LEMMA UpToLength ==
  ASSUME NEW N \in Nat, NEW T, 0 \in T,
         \A n \in 0..N : n \in T /\ n < N => n + 1 \in T
  PROVE  \A n \in 0..N : n \in T
<1> DEFINE U == {n \in 0..N : n \notin T}
<1> SUFFICES ASSUME U # {} PROVE FALSE
  OBVIOUS
<1>0. U \subseteq Nat
  OBVIOUS
<1>1. \E m \in U : \A k \in U : m <= k
  <2> HIDE DEF U
  <2> QED BY <1>0, LeastNumber
<1>2. PICK m \in U : \A k \in U : m <= k
  BY <1>1
<1>3. m # 0 /\ m \in 0..N
  OBVIOUS
<1>4. m - 1 \in 0..N /\ m - 1 < N /\ ~(m <= m - 1) /\ m - 1 + 1 = m
  BY <1>3
<1>5. m - 1 \in T
  BY <1>2, <1>4
<1> QED BY <1>4, <1>5

(* F starts at z and takes n steps of h. *)
Steps(F, V, z, h, n) ==
  /\ F \in [0..n -> V] /\ F[0] = z
  /\ \A k \in 1..n : F[k] = h[<<k, F[k-1]>>]

(* There is such a function. *)
LEMMA Recursion ==
  ASSUME NEW N \in Nat, NEW V, NEW z \in V, NEW h \in [Nat \X V -> V]
  PROVE  \E F : Steps(F, V, z, h, N)
<1> DEFINE T == {n \in 0..N : \E F : Steps(F, V, z, h, n)}
<1>1. 0 \in T
  <2> DEFINE F == [k \in 0..0 |-> z]
  <2>1. Steps(F, V, z, h, 0)
    BY DEF Steps
  <2> QED BY <2>1
<1>2. ASSUME NEW n \in 0..N, n \in T, n < N PROVE n + 1 \in T
  <2>1. PICK F : Steps(F, V, z, h, n)
    BY <1>2
  <2> DEFINE G == [k \in 0..n+1 |-> IF k = n + 1 THEN h[<<n+1, F[n]>>] ELSE F[k]]
  <2>2. F \in [0..n -> V] /\ F[n] \in V /\ n \in Nat /\ n + 1 \in Nat
    BY <2>1 DEF Steps
  <2>3. h[<<n+1, F[n]>>] \in V
    BY <2>2
  <2>4. \A k \in 0..n : G[k] = F[k]
    OBVIOUS
  <2>5. G[n+1] = h[<<n+1, F[n]>>]
    OBVIOUS
  <2>6. G \in [0..n+1 -> V]
    BY <2>2, <2>3
  <2> HIDE DEF G
  <2>7. ASSUME NEW k \in 1..n+1 PROVE G[k] = h[<<k, G[k-1]>>]
    <3>1. CASE k = n + 1
      <4>1. k - 1 = n /\ n \in 0..n
        BY <3>1
      <4> QED BY <3>1, <4>1, <2>4, <2>5
    <3>2. CASE k # n + 1
      <4>1. k \in 1..n /\ k \in 0..n /\ k - 1 \in 0..n
        BY <3>2
      <4> QED BY <4>1, <2>1, <2>4 DEF Steps
    <3> QED BY <3>1, <3>2
  <2>8. G[0] = z
    BY <2>1, <2>4 DEF Steps
  <2>9. Steps(G, V, z, h, n + 1)
    BY <2>6, <2>7, <2>8 DEF Steps
  <2> QED BY <1>2, <2>9
<1> HIDE DEF T
<1>3. \A n \in 0..N : n \in T
  BY <1>1, <1>2, UpToLength
<1> QED BY <1>3 DEF T

-----------------------------------------------------------------------------
(* Arithmetic. *)

LEMMA RadixSizes ==
  /\ Radix \in Nat /\ Radix >= 2
  /\ U16 \in Nat /\ U16 >= 4 /\ U16 >= 2 * Radix
  /\ U16 * U16 \in Nat
  /\ U64 \in Nat /\ U64 = (U16 * U16) * (U16 * U16) /\ U64 > 0
<1>1. Radix \in Nat /\ Radix >= 2
  BY RadixAssumption
<1>2. ASSUME NEW r \in Nat, r >= 2 PROVE r * r \in Nat /\ r * r >= 4 /\ r * r >= 2 * r
  BY <1>2, Z3
<1>3. ASSUME NEW u \in Nat, u >= 4
      PROVE  /\ u * u \in Nat /\ u * u * u * u \in Nat /\ u * u * u * u = (u * u) * (u * u)
             /\ u * u * u * u > 0
  <2>1. u * u \in Nat /\ u * u > 0
    BY <1>3, Z3
  <2> DEFINE v == u * u
  <2>2. v * v \in Nat /\ v * v > 0
    <3> HIDE DEF v
    <3>1. ASSUME NEW w \in Nat, w > 0 PROVE w * w \in Nat /\ w * w > 0
      BY <3>1, Z3
    <3> QED BY <2>1, <3>1 DEF v
  <2>3. u * u * u * u = v * v
    OBVIOUS
  <2> QED BY <2>1, <2>2, <2>3
<1>4. U16 \in Nat /\ U16 >= 4 /\ U16 >= 2 * Radix
  BY <1>1, <1>2 DEF U16
<1> HIDE DEF U16
<1> QED BY <1>1, <1>3, <1>4 DEF U64

(* Division with remainder. *)
LEMMA DivMod ==
  ASSUME NEW a \in Nat, NEW n \in Nat, n > 0
  PROVE  /\ a \div n \in Nat /\ a % n \in Nat /\ a % n < n
         /\ a = n * (a \div n) + (a % n)
BY Z3

(* The modulus of one's complement sums, and equality for them: zero is    *)
(* only equal to itself.                                                   *)
Ones == U16 - 1
Same(x, y) == (x = 0 <=> y = 0) /\ \E m \in Int : x = y + Ones * m

LEMMA OnesSize == Ones \in Nat /\ Ones >= 3 /\ U16 = Ones + 1
  BY RadixSizes DEF Ones

LEMMA SameRefl ==
  ASSUME NEW x \in Nat PROVE Same(x, x)
<1>1. x = x + Ones * 0
  BY OnesSize
<1> QED BY <1>1 DEF Same

LEMMA SameSym ==
  ASSUME NEW x \in Nat, NEW y \in Nat, Same(x, y) PROVE Same(y, x)
<1>1. PICK m \in Int : x = y + Ones * m
  BY DEF Same
<1>2. -m \in Int /\ Ones * (-m) = -(Ones * m) /\ Ones * m \in Int
  BY OnesSize, Z3
<1>3. y = x + Ones * (-m)
  BY <1>1, <1>2
<1> QED BY <1>2, <1>3 DEF Same

LEMMA SameTrans ==
  ASSUME NEW x \in Nat, NEW y \in Nat, NEW z \in Nat, Same(x, y), Same(y, z)
  PROVE  Same(x, z)
<1>1. PICK m \in Int : x = y + Ones * m
  BY DEF Same
<1>2. PICK n \in Int : y = z + Ones * n
  BY DEF Same
<1>3. Ones * (m + n) = Ones * m + Ones * n /\ Ones * m \in Int /\ Ones * n \in Int
  BY OnesSize, Z3
<1>4. x = z + Ones * (m + n) /\ m + n \in Int
  BY <1>1, <1>2, <1>3
<1> QED BY <1>4 DEF Same

(* Sums of equal numbers are equal. *)
LEMMA SameAdd ==
  ASSUME NEW x \in Nat, NEW y \in Nat, NEW u \in Nat, NEW v \in Nat,
         Same(x, y), Same(u, v)
  PROVE  Same(x + u, y + v)
<1>1. PICK m \in Int : x = y + Ones * m
  BY DEF Same
<1>2. PICK n \in Int : u = v + Ones * n
  BY DEF Same
<1>3. Ones * (m + n) = Ones * m + Ones * n /\ Ones * m \in Int /\ Ones * n \in Int
  BY OnesSize, Z3
<1>4. x + u = (y + v) + Ones * (m + n) /\ m + n \in Int
  BY <1>1, <1>2, <1>3
<1>5. x + u = 0 <=> y + v = 0
  BY DEF Same
<1> QED BY <1>4, <1>5 DEF Same

(* High and low halves may be added. *)
LEMMA SameHalves ==
  ASSUME NEW x \in Nat, NEW y \in Nat
  PROVE  x * U16 + y \in Nat /\ Same(x * U16 + y, x + y)
<1>1. x * U16 = x + Ones * x /\ Ones * x \in Nat
  BY OnesSize, Z3
<1>2. x * U16 + y = (x + y) + Ones * x
  BY <1>1
<1>3. x * U16 + y = 0 <=> x + y = 0
  BY <1>1, OnesSize, Z3
<1> QED BY <1>1, <1>2, <1>3 DEF Same

(* An end-around carry. *)
LEMMA SameCarry ==
  ASSUME NEW x \in Nat, x >= U16
  PROVE  x - U16 + 1 \in Nat /\ Same(x - U16 + 1, x)
<1>1. x - U16 + 1 = x + Ones * (-1)
  BY OnesSize
<1>2. x - U16 + 1 \in Nat /\ x - U16 + 1 # 0 /\ x # 0
  BY OnesSize
<1> QED BY <1>1, <1>2 DEF Same

(* In 16 bits equal numbers are the same. *)
LEMMA SameIsEqual ==
  ASSUME NEW x \in 0..U16-1, NEW y \in 0..U16-1, Same(x, y) PROVE x = y
<1>1. PICK m \in Int : x = y + Ones * m
  BY DEF Same
<1>2. x \in 0..Ones /\ y \in 0..Ones
  BY OnesSize
<1>3. CASE m = 0
  BY <1>1, <1>2, <1>3, OnesSize
<1>4. CASE m >= 1
  <2>1. Ones * m >= Ones
    BY <1>4, OnesSize, Z3
  <2>2. y = 0 /\ x = Ones
    BY <2>1, <1>1, <1>2, OnesSize
  <2> QED BY <2>2, OnesSize DEF Same
<1>5. CASE m <= -1
  <2>1. Ones * m <= -Ones
    BY <1>5, OnesSize, Z3
  <2>2. x = 0 /\ y = Ones
    BY <2>1, <1>1, <1>2, OnesSize
  <2> QED BY <2>2, OnesSize DEF Same
<1> QED BY <1>3, <1>4, <1>5

(* A multiple of n between -n and n is zero. *)
LEMMA NoMultiple ==
  ASSUME NEW n \in Nat, n > 0, NEW m \in Int, n * m < n, n * m > -n
  PROVE  m = 0
<1>1. ASSUME m >= 1 PROVE FALSE
  <2>1. n * m >= n
    BY <1>1, Z3
  <2> QED BY <2>1
<1>2. ASSUME m <= -1 PROVE FALSE
  <2>1. n * m <= -n
    BY <1>2, Z3
  <2> QED BY <2>1
<1> QED BY <1>1, <1>2

(* A multiple of the modulus changes nothing. *)
LEMMA ModMore ==
  ASSUME NEW b \in Nat, NEW n \in Nat, n > 0, NEW m \in Nat
  PROVE  (b + n * m) % n = b % n
<1> DEFINE a == b + n * m
           p == a \div n
           q == b \div n
           r == a % n
           s == b % n
<1>0. a \in Nat /\ a = b + n * m
  BY Z3
<1>1. /\ p \in Nat /\ q \in Nat /\ r \in 0..n-1 /\ s \in 0..n-1
      /\ a = n * p + r /\ b = n * q + s
  BY <1>0, DivMod
<1> HIDE DEF p, q, r, s, a
<1>2. n * (p - q - m) = s - r
  BY <1>0, <1>1, Z3
<1>3. p - q - m = 0
  BY <1>1, <1>2, NoMultiple
<1>4. r = s
  BY <1>1, <1>2, <1>3
<1> QED BY <1>4 DEF r, s, a

(* Sums may be reduced in between. *)
LEMMA ModSum ==
  ASSUME NEW a \in Nat, NEW b \in Nat, NEW n \in Nat, n > 0
  PROVE  ((a % n) + b) % n = (a + b) % n
<1> DEFINE d == (a % n) + b
           m == a \div n
<1>1. d \in Nat /\ m \in Nat /\ a + b = d + n * m
  BY DivMod
<1> HIDE DEF d, m
<1>2. (d + n * m) % n = d % n
  BY <1>1, ModMore
<1>3. (a + b) % n = d % n
  BY <1>1, <1>2
<1> QED BY <1>3 DEF d

(* So 64-bit sums are equal if the exact ones are. *)
LEMMA ModBoth ==
  ASSUME NEW a \in Nat, NEW b \in Nat, NEW n \in Nat, n > 0
  PROVE  (a + (b % n)) % n = (a + b) % n
<1>1. b % n \in Nat
  BY DivMod
<1>2. ((b % n) + a) % n = (b + a) % n
  BY ModSum
<1> QED BY <1>1, <1>2

-----------------------------------------------------------------------------
(* Sums. *)

(* Q[k] is g[0] + ... + g[k - 1]. *)
Prefix(Q, g, n) ==
  /\ Q \in [0..n -> Nat] /\ Q[0] = 0
  /\ \A k \in 1..n : Q[k] = Q[k-1] + g[k-1]

LEMMA PrefixExists ==
  ASSUME NEW n \in Nat, NEW g, \A k \in 0..n-1 : g[k] \in Nat
  PROVE  \E Q : Prefix(Q, g, n)
<1> DEFINE h == [p \in Nat \X Nat |-> p[2] + (IF p[1] \in 1..n THEN g[p[1]-1] ELSE 0)]
<1>1. h \in [Nat \X Nat -> Nat]
  <2>1. ASSUME NEW k \in Nat PROVE (IF k \in 1..n THEN g[k-1] ELSE 0) \in Nat
    OBVIOUS
  <2> QED BY <2>1
<1>2. \A k \in 1..n : \A x \in Nat : h[<<k, x>>] = x + g[k-1]
  OBVIOUS
<1> HIDE DEF h
<1>3. PICK Q : Steps(Q, Nat, 0, h, n)
  BY <1>1, Recursion
<1>4. ASSUME NEW k \in 1..n PROVE Q[k] = Q[k-1] + g[k-1]
  <2>1. k - 1 \in 0..n
    OBVIOUS
  <2>2. Q[k-1] \in Nat
    BY <1>3, <2>1 DEF Steps
  <2> QED BY <1>2, <1>3, <2>2 DEF Steps
<1> QED BY <1>3, <1>4 DEF Steps, Prefix

(* Sums are determined by the summands. *)
LEMMA PrefixStep ==
  ASSUME NEW Q, NEW g, NEW n \in Nat, Prefix(Q, g, n)
  PROVE  /\ \A k \in 0..n : Q[k] \in Nat
         /\ Q[0] = 0
         /\ \A k \in 0..n-1 : Q[k+1] = Q[k] + g[k]
<1>1. ASSUME NEW k \in 0..n-1 PROVE Q[k+1] = Q[k] + g[k]
  <2>1. k + 1 \in 1..n /\ k + 1 - 1 = k
    OBVIOUS
  <2> DEFINE j == k + 1
  <2>2. j \in 1..n /\ j - 1 = k
    BY <2>1
  <2> HIDE DEF j
  <2>3. Q[j] = Q[j-1] + g[j-1]
    BY <2>2 DEF Prefix
  <2> QED BY <2>2, <2>3 DEF j
<1> QED BY <1>1 DEF Prefix

(* SumTo is the sum, in 64 bits. *)
LEMMA SumToPrefix ==
  ASSUME NEW n \in Nat, NEW g, \A k \in 0..n-1 : g[k] \in Nat,
         NEW Q, Prefix(Q, g, n)
  PROVE  SumTo(n, g) = Q[n] % U64
<1> DEFINE h == [p \in Nat \X Nat |->
                   (p[2] + (IF p[1] \in 1..n THEN g[p[1]-1] ELSE 0)) % U64]
<1>1. h \in [Nat \X Nat -> Nat]
  <2>1. ASSUME NEW k \in Nat, NEW x \in Nat
        PROVE  (x + (IF k \in 1..n THEN g[k-1] ELSE 0)) % U64 \in Nat
    <3>1. x + (IF k \in 1..n THEN g[k-1] ELSE 0) \in Nat
      OBVIOUS
    <3> QED BY <3>1, RadixSizes, DivMod
  <2> QED BY <2>1
<1>2. \A k \in 1..n : \A x \in Nat : h[<<k, x>>] = (x + g[k-1]) % U64
  OBVIOUS
<1> HIDE DEF h
<1>3. PICK F : Steps(F, Nat, 0, h, n)
  BY <1>1, Recursion
<1>4. ASSUME NEW k \in 1..n PROVE F[k] = (F[k-1] + g[k-1]) % U64
  <2>1. k - 1 \in 0..n
    OBVIOUS
  <2>2. F[k-1] \in Nat
    BY <1>3, <2>1 DEF Steps
  <2> QED BY <1>2, <1>3, <2>2 DEF Steps
<1>5. F = [k \in 0..n |-> IF k = 0 THEN 0 ELSE (F[k-1] + g[k-1]) % U64]
  <2>1. ASSUME NEW k \in 0..n
        PROVE  F[k] = IF k = 0 THEN 0 ELSE (F[k-1] + g[k-1]) % U64
    BY <1>3, <1>4 DEF Steps
  <2>2. F = [k \in 0..n |-> F[k]]
    BY <1>3 DEF Steps
  <2> QED BY <2>1, <2>2, Zenon
<1> DEFINE S == CHOOSE f : f = [k \in 0..n |-> IF k = 0 THEN 0 ELSE (f[k-1] + g[k-1]) % U64]
<1>6. S = [k \in 0..n |-> IF k = 0 THEN 0 ELSE (S[k-1] + g[k-1]) % U64]
  BY <1>5, Zenon
<1>7. SumTo(n, g) = S[n]
  BY DEF SumTo
<1> HIDE DEF S
<1> DEFINE T == {k \in 0..n : S[k] = Q[k] % U64}
<1>8. 0 \in T
  <2>1. S[0] = 0 /\ Q[0] = 0 /\ 0 \in 0..n
    BY <1>6, PrefixStep
  <2>2. 0 % U64 = 0
    BY RadixSizes
  <2> QED BY <2>1, <2>2
<1>9. ASSUME NEW k \in 0..n, k \in T, k < n PROVE k + 1 \in T
  <2> DEFINE j == k + 1
  <2>1. j \in 0..n /\ j # 0 /\ j - 1 = k /\ k \in 0..n-1
    BY <1>9
  <2>2. Q[j] = Q[k] + g[k] /\ Q[k] \in Nat /\ g[k] \in Nat
    BY <2>1, PrefixStep
  <2> HIDE DEF j
  <2>3. S[j] = (S[k] + g[k]) % U64
    BY <1>6, <2>1
  <2>4. S[j] = Q[j] % U64
    <3>1. S[k] = Q[k] % U64
      BY <1>9
    <3>2. ((Q[k] % U64) + g[k]) % U64 = (Q[k] + g[k]) % U64
      BY <2>2, ModSum, RadixSizes
    <3> QED BY <2>2, <2>3, <3>1, <3>2
  <2> QED BY <2>1, <2>4 DEF j
<1>10. \A k \in 0..n : k \in T
  <2> HIDE DEF T
  <2> QED BY <1>8, <1>9, UpToLength
<1> QED BY <1>7, <1>10

(* Summands have a bound, so the sum has one. *)
LEMMA PrefixBound ==
  ASSUME NEW n \in Nat, NEW g, NEW B \in Nat,
         \A k \in 0..n-1 : g[k] \in Nat /\ g[k] <= B,
         NEW Q, Prefix(Q, g, n)
  PROVE  Q[n] <= B * n
<1> DEFINE T == {k \in 0..n : Q[k] <= B * k}
<1>1. 0 \in T
  BY PrefixStep
<1>2. ASSUME NEW k \in 0..n, k \in T, k < n PROVE k + 1 \in T
  <2>1. k \in 0..n-1 /\ k + 1 \in 0..n
    BY <1>2
  <2>2. Q[k+1] = Q[k] + g[k] /\ Q[k] \in Nat /\ g[k] \in Nat /\ g[k] <= B
    BY <2>1, PrefixStep
  <2>3. B * (k + 1) = B * k + B /\ B * k \in Nat
    BY Z3
  <2> QED BY <1>2, <2>1, <2>2, <2>3
<1> HIDE DEF T
<1>3. \A k \in 0..n : k \in T
  BY <1>1, <1>2, UpToLength
<1> QED BY <1>3 DEF T

-----------------------------------------------------------------------------
(* Bytes and words. *)

LEMMA WordOfBytes ==
  ASSUME NEW x \in Byte, NEW y \in Byte
  PROVE  /\ x \in Nat /\ y \in Nat /\ x < Radix
         /\ x * Radix \in 0..U16-1 /\ x * Radix + y \in 0..U16-1
<1>1. x \in Nat /\ y \in Nat /\ x <= Radix - 1 /\ y <= Radix - 1
  BY RadixSizes DEF Byte
<1>2. x * Radix <= (Radix - 1) * Radix /\ x * Radix \in Nat
  BY <1>1, RadixSizes, Z3
<1>3. (Radix - 1) * Radix = U16 - Radix
  BY RadixSizes, Z3 DEF U16
<1>4. U16 \in Nat /\ Radix \in Nat /\ Radix >= 2
  BY RadixSizes
<1> HIDE DEF U16
<1> DEFINE p == x * Radix
<1>5. p \in Nat /\ p <= U16 - Radix
  BY <1>2, <1>3
<1> HIDE DEF p
<1>6. p \in 0..U16-1 /\ p + y \in 0..U16-1
  BY <1>1, <1>4, <1>5
<1> QED BY <1>1, <1>4, <1>6 DEF p

LEMMA WordOfTwo ==
  ASSUME NEW b, NEW j, NEW k, b[j] \in Byte, b[k] \in Byte
  PROVE  b[j] * Radix + b[k] \in 0..U16-1
<1> DEFINE x == b[j]
           y == b[k]
<1>1. x \in Byte /\ y \in Byte
  OBVIOUS
<1> HIDE DEF x, y
<1>2. x * Radix + y \in 0..U16-1
  BY <1>1, WordOfBytes
<1> QED BY <1>2 DEF x, y

(* The words at position j. *)
LEMMA WordsAt ==
  ASSUME NEW b \in Seq(Byte), NEW j \in Nat, j + 4 <= Len(b)
  PROVE  /\ read_u16(b, j) \in 0..U16-1 /\ read_u16(b, j + 2) \in 0..U16-1
         /\ read_u32(b, j) \in Nat /\ read_u32(b, j) <= U16 * U16
         /\ Same(read_u32(b, j), read_u16(b, j) + read_u16(b, j + 2))
<1>1. /\ b[j+1] \in Byte /\ b[j+2] \in Byte /\ b[j+2+1] \in Byte /\ b[j+2+2] \in Byte
  OBVIOUS
<1> DEFINE x == read_u16(b, j)
           y == read_u16(b, j + 2)
<1>2. x \in 0..U16-1 /\ y \in 0..U16-1
  BY <1>1, WordOfBytes DEF read_u16
<1>3. read_u32(b, j) = x * U16 + y
  BY DEF read_u32
<1> HIDE DEF x, y
<1>4. x * U16 + y \in Nat /\ Same(x * U16 + y, x + y)
  BY <1>2, SameHalves
<1>5. x * U16 + y <= U16 * U16
  <2>1. U16 \in Nat /\ x \in Nat /\ y \in Nat /\ x <= U16 - 1 /\ y <= U16 - 1
    BY <1>2, RadixSizes
  <2>2. x * U16 <= (U16 - 1) * U16 /\ x * U16 \in Nat
    BY <2>1, Z3
  <2>3. (U16 - 1) * U16 = U16 * U16 - U16 /\ U16 * U16 \in Nat
    BY <2>1, Z3
  <2> QED BY <2>1, <2>2, <2>3
<1> QED BY <1>2, <1>3, <1>4, <1>5 DEF x, y

(* What is behind position k. *)
LEMMA FromAt ==
  ASSUME NEW S, NEW b \in Seq(S), NEW k \in 0..Len(b)
  PROVE  /\ From(b, k) \in Seq(S) /\ Len(From(b, k)) = Len(b) - k
         /\ \A j \in 1..Len(b)-k : From(b, k)[j] = b[k+j]
<1> DEFINE g == SubSeq(b, k + 1, Len(b))
<1>1. Len(b) \in Nat /\ k \in Nat /\ k <= Len(b)
  OBVIOUS
<1>2. \A j \in k+1..Len(b) : b[j] \in S
  BY <1>1
<1>3. g \in Seq(S) /\ Len(g) = IF k + 1 <= Len(b) THEN Len(b) - (k + 1) + 1 ELSE 0
  BY <1>1, <1>2, SubSeqProperties
<1>4. Len(g) = Len(b) - k
  BY <1>1, <1>3
<1>5. ASSUME NEW j \in 1..Len(b)-k PROVE g[j] = b[k+j]
  <2>1. k + 1 + j - 1 = k + j /\ j \in 1..Len(b)-(k+1)+1
    BY <1>1
  <2> QED BY <2>1, <1>1
<1> QED BY <1>3, <1>4, <1>5 DEF From

(* The 32-bit words of b, and the up to three bytes behind them. *)
Groups(b) == [k \in 0 .. (Len(b) \div 4) - 1 |-> read_u32(b, 4 * k)]

EndOf(b) ==
  LET rest == From(b, 4 * (Len(b) \div 4))
  IN  (IF Len(rest) >= 2 THEN read_u16(rest, 0) ELSE 0)
        + odd_byte(IF Len(rest) >= 2 THEN From(rest, 2) ELSE rest)

LEMMA Quarter ==
  ASSUME NEW n \in Nat
  PROVE  /\ n \div 4 \in Nat /\ 4 * (n \div 4) <= n /\ n - 4 * (n \div 4) \in 0..3
         /\ \A k \in Nat : 4 * k <= n => (n - 4 * k) \div 4 = n \div 4 - k
  OBVIOUS

LEMMA EndAt ==
  ASSUME NEW b \in Seq(Byte), NEW m, m = 4 * (Len(b) \div 4)
  PROVE  /\ Len(b) - m = 0 => EndOf(b) = 0
         /\ Len(b) - m = 1 => EndOf(b) = b[m+1] * Radix
         /\ Len(b) - m = 2 => EndOf(b) = b[m+1] * Radix + b[m+2]
         /\ Len(b) - m = 3 => EndOf(b) = b[m+1] * Radix + b[m+2] + b[m+3] * Radix
         /\ Len(b) - m \in 0..3 /\ m \in 0..Len(b)
<1>1. m \in 0..Len(b) /\ Len(b) - m \in 0..3 /\ Len(b) \in Nat
  BY Quarter
<1> DEFINE d == From(b, m)
<1>2. d \in Seq(Byte) /\ Len(d) = Len(b) - m /\ \A j \in 1..Len(b)-m : d[j] = b[m+j]
  BY <1>1, FromAt
<1>3. EndOf(b) = (IF Len(d) >= 2 THEN read_u16(d, 0) ELSE 0)
                   + odd_byte(IF Len(d) >= 2 THEN From(d, 2) ELSE d)
  BY DEF EndOf
<1> HIDE DEF d
<1>w. \A x \in Byte : x \in Nat /\ x * Radix \in Nat
  BY WordOfBytes
<1>4. CASE Len(b) - m = 0
  <2>1. d = <<>> /\ ~(Len(d) >= 2)
    BY <1>2, <1>4
  <2> QED BY <1>1, <1>3, <1>4, <2>1 DEF odd_byte
<1>5. CASE Len(b) - m = 1
  <2>1. d # <<>> /\ ~(Len(d) >= 2) /\ d[1] = b[m+1] /\ d[1] \in Byte
    BY <1>2, <1>5
  <2>2. EndOf(b) = 0 + d[1] * Radix
    BY <1>3, <2>1 DEF odd_byte
  <2> QED BY <1>1, <1>5, <2>1, <2>2, <1>w
<1>6. CASE Len(b) - m \in {2, 3}
  <2>1. /\ Len(d) >= 2 /\ 2 \in 0..Len(d)
        /\ d[1] = b[m+1] /\ d[2] = b[m+2] /\ d[1] \in Byte /\ d[2] \in Byte
    BY <1>2, <1>6
  <2>2. read_u16(d, 0) = d[1] * Radix + d[2]
    BY DEF read_u16
  <2> DEFINE e == From(d, 2)
  <2>3. e \in Seq(Byte) /\ Len(e) = Len(d) - 2 /\ (Len(d) >= 3 => e[1] = d[3])
    <3>1. PICK k \in 0..Len(d) : k = 2
      BY <2>1
    <3> DEFINE g == From(d, k)
    <3>2. g \in Seq(Byte) /\ Len(g) = Len(d) - k /\ \A j \in 1..Len(d)-k : g[j] = d[k+j]
      <4>1. d \in Seq(Byte)
        BY <1>2
      <4> QED BY <4>1, FromAt
    <3>3. Len(d) \in Nat
      BY <1>2
    <3> HIDE DEF g
    <3>4. g \in Seq(Byte) /\ Len(g) = Len(d) - 2 /\ (Len(d) >= 3 => g[1] = d[3])
      BY <3>1, <3>2, <3>3
    <3> QED BY <3>1, <3>4 DEF g
  <2>4. EndOf(b) = d[1] * Radix + d[2] + odd_byte(e)
    BY <1>3, <2>1, <2>2
  <2> HIDE DEF e
  <2>5. CASE Len(b) - m = 2
    <3>1. e = <<>>
      BY <2>3, <2>5, <1>2
    <3>2. odd_byte(e) = 0
      BY <3>1 DEF odd_byte
    <3> DEFINE p == d[1] * Radix
    <3>3. p \in Nat /\ d[2] \in Nat
      BY <2>1, <1>w
    <3>4. EndOf(b) = p + d[2] + 0
      BY <2>4, <3>2
    <3> HIDE DEF p
    <3>5. EndOf(b) = p + d[2]
      BY <3>3, <3>4
    <3> QED BY <1>1, <2>1, <2>5, <3>5 DEF p
  <2>6. CASE Len(b) - m = 3
    <3>1. e # <<>> /\ e[1] = d[3] /\ d[3] = b[m+3]
      BY <2>3, <2>6, <1>2, <1>1
    <3> QED BY <1>1, <2>1, <2>4, <2>6, <3>1 DEF odd_byte
  <2> QED BY <1>6, <2>5, <2>6
<1> QED BY <1>1, <1>4, <1>5, <1>6

LEMMA EndBound ==
  ASSUME NEW b \in Seq(Byte)
  PROVE  EndOf(b) \in Nat /\ EndOf(b) <= U16 * U16
<1> DEFINE m == 4 * (Len(b) \div 4)
<1>1. Len(b) - m \in 0..3 /\ m \in Nat /\ Len(b) \in Nat
  BY Quarter
<1>2. U16 + U16 <= U16 * U16 /\ U16 \in Nat /\ U16 * U16 \in Nat
  BY RadixSizes, Z3
<1> DEFINE e == EndOf(b)
<1>3. /\ Len(b) - m = 0 => e = 0
      /\ Len(b) - m = 1 => e = b[m+1] * Radix
      /\ Len(b) - m = 2 => e = b[m+1] * Radix + b[m+2]
      /\ Len(b) - m = 3 => e = b[m+1] * Radix + b[m+2] + b[m+3] * Radix
  BY EndAt
<1> HIDE DEF e, m
<1>4. /\ Len(b) - m >= 1 => b[m+1] \in Byte
      /\ Len(b) - m >= 2 => b[m+2] \in Byte
      /\ Len(b) - m >= 3 => b[m+3] \in Byte
  BY <1>1
<1>w. \A x \in Byte : x * Radix \in 0..U16-1
  BY WordOfBytes
<1>5. e \in Nat /\ e <= U16 + U16
  <2>1. CASE Len(b) - m = 0
    BY <2>1, <1>2, <1>3
  <2>2. CASE Len(b) - m = 1
    <3>1. b[m+1] * Radix \in 0..U16-1
      BY <2>2, <1>4, <1>w
    <3> QED BY <2>2, <1>2, <1>3, <3>1
  <2>3. CASE Len(b) - m = 2
    <3>1. b[m+1] * Radix + b[m+2] \in 0..U16-1
      BY <2>3, <1>1, <1>4, WordOfTwo
    <3> QED BY <2>3, <1>2, <1>3, <3>1
  <2>4. CASE Len(b) - m = 3
    <3>1. b[m+1] * Radix + b[m+2] \in 0..U16-1
      BY <2>4, <1>1, <1>4, WordOfTwo
    <3>2. b[m+3] * Radix \in 0..U16-1
      BY <2>4, <1>1, <1>4, <1>w
    <3> QED BY <2>4, <1>2, <1>3, <3>1, <3>2
  <2> QED BY <1>1, <2>1, <2>2, <2>3, <2>4
<1>6. e \in Nat /\ e <= U16 * U16
  BY <1>2, <1>5
<1> QED BY <1>6 DEF e

LEMMA GroupsAt ==
  ASSUME NEW b \in Seq(Byte), NEW k \in 0 .. (Len(b) \div 4) - 1
  PROVE  /\ Groups(b)[k] = read_u32(b, 4 * k) /\ Groups(b)[k] \in Nat
         /\ Groups(b)[k] <= U16 * U16
         /\ 4 * k \in Nat /\ 4 * k + 4 <= Len(b)
<1>1. Len(b) \in Nat /\ k \in Nat /\ k + 1 <= Len(b) \div 4
  BY Quarter
<1>2. 4 * k \in Nat /\ 4 * k + 4 <= Len(b)
  <2>1. 4 * (Len(b) \div 4) <= Len(b) /\ Len(b) \div 4 \in Nat
    BY Quarter
  <2> QED BY <1>1, <2>1
<1>3. Groups(b)[k] = read_u32(b, 4 * k)
  BY DEF Groups
<1> QED BY <1>2, <1>3, WordsAt

(* The scalar loop adds them up in 64 bits. *)
LEMMA ScalarSum ==
  ASSUME NEW b \in Seq(Byte), NEW a \in Nat, NEW Q, Prefix(Q, Groups(b), Len(b) \div 4)
  PROVE  /\ Q[Len(b) \div 4] + EndOf(b) \in Nat
         /\ checksum_no_fold_scalar(b, a) = (a + (Q[Len(b) \div 4] + EndOf(b))) % U64
<1> DEFINE n == Len(b) \div 4
           rest == From(b, 4 * n)
           x == IF Len(rest) >= 2 THEN read_u16(rest, 0) ELSE 0
           y == odd_byte(IF Len(rest) >= 2 THEN From(rest, 2) ELSE rest)
           z == SumTo(n, Groups(b))
<1>1. checksum_no_fold_scalar(b, a) = (a + z + x + y) % U64
  BY DEF checksum_no_fold_scalar, Groups
<1>2. EndOf(b) = x + y
  BY DEF EndOf
<1>3. n \in Nat /\ Q[n] \in Nat
  <2>1. n \in Nat
    BY Quarter
  <2> QED BY <2>1, PrefixStep
<1>4. z = Q[n] % U64
  <2>1. \A k \in 0..n-1 : Groups(b)[k] \in Nat
    BY GroupsAt
  <2> HIDE DEF n
  <2> QED BY <1>3, <2>1, SumToPrefix DEF n
<1>5. EndOf(b) \in Nat
  BY EndBound
<1>6. x \in Nat /\ y \in Nat
  <2> DEFINE m == 4 * n
  <2>1. m \in 0..Len(b) /\ Len(b) - m \in 0..3
    BY Quarter
  <2>2. rest \in Seq(Byte) /\ Len(rest) = Len(b) - m
    BY <2>1, FromAt
  <2> HIDE DEF rest, m
  <2>3. x \in Nat
    <3>1. Len(rest) >= 2 => rest[1] \in Byte /\ rest[2] \in Byte
      BY <2>2
    <3>2. read_u16(rest, 0) = rest[1] * Radix + rest[2]
      BY DEF read_u16
    <3> QED BY <3>1, <3>2, WordOfBytes
  <2>4. \A s \in Seq(Byte) : odd_byte(s) \in Nat
    <3>1. ASSUME NEW s \in Seq(Byte), s # <<>> PROVE s[1] * Radix \in Nat
      <4>1. s[1] \in Byte
        BY <3>1
      <4> QED BY <4>1, WordOfBytes
    <3> QED BY <3>1 DEF odd_byte
  <2>5. Len(rest) >= 2 => From(rest, 2) \in Seq(Byte)
    <3>1. Len(rest) >= 2 => 2 \in 0..Len(rest)
      BY <2>2
    <3> QED BY <2>2, <3>1, FromAt
  <2> QED BY <2>2, <2>3, <2>4, <2>5
<1> HIDE DEF x, y, z, n
<1>7. (a + x + y + (Q[n] % U64)) % U64 = (a + x + y + Q[n]) % U64
  <2> DEFINE s == a + x + y
  <2>1. s \in Nat
    BY <1>6
  <2> HIDE DEF s
  <2>2. (s + (Q[n] % U64)) % U64 = (s + Q[n]) % U64
    BY <2>1, <1>3, ModBoth, RadixSizes
  <2> QED BY <2>2 DEF s
<1>8. z \in Nat
  BY <1>3, <1>4, RadixSizes, DivMod
<1>9. a + z + x + y = a + x + y + z /\ a + x + y + Q[n] = a + (Q[n] + (x + y))
  BY <1>3, <1>6, <1>8
<1> QED BY <1>1, <1>2, <1>3, <1>4, <1>5, <1>7, <1>9 DEF n

-----------------------------------------------------------------------------
(* The vector versions. *)

(* Behind the first j 32-bit words there are the others, and the same end. *)
LEMMA FromGroups ==
  ASSUME NEW b \in Seq(Byte), NEW Q, Prefix(Q, Groups(b), Len(b) \div 4),
         NEW j \in 0 .. Len(b) \div 4
  PROVE  LET d == From(b, 4 * j) IN
         /\ d \in Seq(Byte) /\ EndOf(d) = EndOf(b)
         /\ \E P : /\ Prefix(P, Groups(d), Len(d) \div 4)
                   /\ P[Len(d) \div 4] + Q[j] = Q[Len(b) \div 4]
<1> DEFINE d == From(b, 4 * j)
           n == Len(b) \div 4
           r == Len(d) \div 4
<1>1. j \in Nat /\ Len(b) \in Nat /\ n \in Nat /\ 4 * j \in 0..Len(b) /\ 4 * n <= Len(b)
  BY Quarter
<1>2. /\ d \in Seq(Byte) /\ Len(d) = Len(b) - 4 * j
      /\ \A k \in 1..Len(b)-4*j : d[k] = b[4*j+k]
  BY <1>1, FromAt
<1> HIDE DEF d
<1>3. r = n - j /\ r \in Nat
  <2>1. \A m \in Nat : \A k \in Nat : 4 * k <= m => (m - 4 * k) \div 4 = m \div 4 - k
    BY Quarter
  <2>2. (Len(b) - 4 * j) \div 4 = n - j
    BY <1>1, <2>1
  <2>3. n - j \in Nat
    BY <1>1
  <2> QED BY <1>2, <2>2, <2>3
<1>4. EndOf(d) = EndOf(b)
  <2> DEFINE u == 4 * n
             v == 4 * r
  <2>1. u = 4 * j + v /\ u \in Nat /\ v \in Nat /\ Len(d) - v = Len(b) - u
    <3> HIDE DEF n, r
    <3>1. v = 4 * n - 4 * j /\ v \in Nat /\ u \in Nat /\ 4 * j \in Nat
      BY <1>1, <1>3
    <3> HIDE DEF v, u
    <3>2. u = 4 * j + v
      BY <1>1, <3>1 DEF u
    <3> QED BY <1>1, <1>2, <3>1, <3>2
  <2>2. \A k \in 1..Len(d)-v : d[v+k] = b[u+k]
    <3>1. ASSUME NEW k \in 1..Len(d)-v PROVE d[v+k] = b[u+k]
      <4> HIDE DEF u, v
      <4>1. v + k \in 1..Len(b)-4*j /\ 4 * j + (v + k) = u + k
        BY <2>1, <1>1, <1>2
      <4> QED BY <4>1, <1>2
    <3> QED BY <3>1
  <2>3. /\ Len(b) - u = 0 => EndOf(b) = 0
        /\ Len(b) - u = 1 => EndOf(b) = b[u+1] * Radix
        /\ Len(b) - u = 2 => EndOf(b) = b[u+1] * Radix + b[u+2]
        /\ Len(b) - u = 3 => EndOf(b) = b[u+1] * Radix + b[u+2] + b[u+3] * Radix
        /\ Len(b) - u \in 0..3
    BY EndAt
  <2>4. /\ Len(d) - v = 0 => EndOf(d) = 0
        /\ Len(d) - v = 1 => EndOf(d) = d[v+1] * Radix
        /\ Len(d) - v = 2 => EndOf(d) = d[v+1] * Radix + d[v+2]
        /\ Len(d) - v = 3 => EndOf(d) = d[v+1] * Radix + d[v+2] + d[v+3] * Radix
    BY <1>2, EndAt
  <2> HIDE DEF u, v
  <2> QED BY <2>1, <2>2, <2>3, <2>4
<1>5. ASSUME NEW k \in 0..r-1
      PROVE  /\ Groups(d)[k] = Groups(b)[j+k] /\ Groups(d)[k] \in Nat
             /\ j + k \in 0..n-1
  <2>1. j + k \in 0..n-1 /\ k \in 0..(Len(d) \div 4)-1 /\ j + k \in 0..(Len(b) \div 4)-1
    BY <1>1, <1>3
  <2>2. /\ Groups(d)[k] = read_u32(d, 4 * k) /\ Groups(d)[k] \in Nat
        /\ 4 * k \in Nat /\ 4 * k + 4 <= Len(d)
    BY <2>1, <1>2, GroupsAt
  <2> DEFINE x == 4 * k
             y == 4 * (j + k)
  <2>3. Groups(b)[j+k] = read_u32(b, y)
    BY <2>1, GroupsAt
  <2>4. y = 4 * j + x /\ x \in Nat /\ x + 4 <= Len(d) /\ y \in Nat
    BY <2>2, <1>1
  <2> HIDE DEF x, y
  <2>5. /\ d[x+1] = b[y+1] /\ d[x+2] = b[y+2]
        /\ d[x+2+1] = b[y+2+1] /\ d[x+2+2] = b[y+2+2]
    <3>1. ASSUME NEW s \in 1..4 PROVE d[x+s] = b[y+s]
      <4>1. x + s \in 1..Len(b)-4*j /\ 4 * j + (x + s) = y + s
        BY <2>4, <1>1, <1>2
      <4> QED BY <4>1, <1>2
    <3>2. x+2+1 = x+3 /\ x+2+2 = x+4 /\ y+2+1 = y+3 /\ y+2+2 = y+4
      BY <2>4
    <3> QED BY <3>1, <3>2
  <2>6. read_u32(d, x) = read_u32(b, y)
    BY <2>5 DEF read_u32, read_u16
  <2> QED BY <2>1, <2>2, <2>3, <2>6 DEF x
<1>6. PICK P : Prefix(P, Groups(d), r)
  <2> HIDE DEF r
  <2> QED BY <1>3, <1>5, PrefixExists
<1> HIDE DEF r, n
<1>7. Prefix(Q, Groups(b), n)
  BY DEF n
<1> DEFINE T == {k \in 0..r : P[k] + Q[j] = Q[j+k]}
<1>8. 0 \in T
  <2>1. P[0] = 0 /\ Q[j] \in Nat /\ j + 0 = j /\ 0 \in 0..r
    BY <1>1, <1>3, <1>6, <1>7, PrefixStep DEF n
  <2> QED BY <2>1
<1>9. ASSUME NEW k \in 0..r, k \in T, k < r PROVE k + 1 \in T
  <2> DEFINE s == j + k
  <2>1. k \in 0..r-1 /\ k + 1 \in 0..r
    BY <1>3, <1>9
  <2>2. s \in 0..n-1 /\ j + (k + 1) = s + 1 /\ s \in 0..n
    BY <1>5, <2>1, <1>1
  <2>3. P[k+1] = P[k] + Groups(d)[k] /\ P[k] \in Nat
    BY <1>3, <1>6, <2>1, PrefixStep
  <2>4. Q[s+1] = Q[s] + Groups(b)[s] /\ Q[s] \in Nat /\ Q[j] \in Nat
    <3> HIDE DEF s
    <3>1. j \in 0..n
      BY DEF n
    <3> QED BY <1>1, <1>7, <2>2, <3>1, PrefixStep
  <2>5. Groups(d)[k] = Groups(b)[s] /\ Groups(d)[k] \in Nat
    BY <1>5, <2>1
  <2>6. P[k] + Q[j] = Q[s]
    BY <1>9
  <2> HIDE DEF s
  <2>7. P[k+1] + Q[j] = Q[s+1]
    BY <2>3, <2>4, <2>5, <2>6
  <2> QED BY <2>1, <2>2, <2>7
<1>10. \A k \in 0..r : k \in T
  <2> HIDE DEF T
  <2> QED BY <1>3, <1>8, <1>9, UpToLength
<1>11. P[r] + Q[j] = Q[n]
  <2>1. r \in 0..r /\ j + r = n
    BY <1>1, <1>3
  <2> QED BY <1>10, <2>1
<1> QED BY <1>2, <1>4, <1>6, <1>11 DEF d, r, n

(* If the lanes have the sum of the first j words, the rest is the loop's. *)
LEMMA LanesThenScalar ==
  ASSUME NEW b \in Seq(Byte), NEW a \in Nat,
         NEW Q, Prefix(Q, Groups(b), Len(b) \div 4), NEW j \in 0 .. Len(b) \div 4
  PROVE  checksum_no_fold_scalar(From(b, 4 * j), (a + Q[j]) % U64)
           = checksum_no_fold_scalar(b, a)
<1> DEFINE d == From(b, 4 * j)
           e == EndOf(b)
           x == (a + Q[j]) % U64
<1>0. Len(b) \div 4 \in Nat
  BY Quarter
<1>1. Q[j] \in Nat /\ Q[Len(b) \div 4] \in Nat
  BY <1>0, PrefixStep
<1>2. d \in Seq(Byte) /\ EndOf(d) = e
  BY FromGroups
<1>3. PICK P : /\ Prefix(P, Groups(d), Len(d) \div 4)
               /\ P[Len(d) \div 4] + Q[j] = Q[Len(b) \div 4]
  BY FromGroups
<1>4. x \in Nat
  BY <1>1, DivMod, RadixSizes
<1>5. e \in Nat
  BY EndBound
<1>6. P[Len(d) \div 4] \in Nat
  <2>1. Len(d) \div 4 \in Nat
    BY <1>2, Quarter
  <2> QED BY <2>1, <1>3, PrefixStep
<1> DEFINE p == P[Len(d) \div 4]
           q == Q[Len(b) \div 4]
<1> HIDE DEF d, x
<1>7. checksum_no_fold_scalar(d, x) = (x + (p + e)) % U64
  BY <1>2, <1>3, <1>4, ScalarSum
<1>8. checksum_no_fold_scalar(b, a) = (a + (q + e)) % U64
  BY ScalarSum
<1> HIDE DEF e, p, q
<1> DEFINE y == a + Q[j]
           z == p + e
<1>9. y \in Nat /\ z \in Nat /\ y + z = a + (q + e)
  <2>1. p \in Nat /\ q \in Nat /\ p + Q[j] = q
    BY <1>1, <1>3, <1>6 DEF p, q
  <2> DEFINE f == Q[j]
  <2>2. f \in Nat /\ p + f = q
    BY <1>1, <2>1
  <2> HIDE DEF f
  <2>3. a + f \in Nat /\ z \in Nat /\ (a + f) + z = a + (q + e)
    BY <1>5, <2>1, <2>2
  <2> QED BY <2>3 DEF f
<1>10. x = y % U64
  BY DEF x
<1> HIDE DEF y, z
<1>11. ((y % U64) + z) % U64 = (y + z) % U64
  BY <1>9, ModSum, RadixSizes
<1> QED BY <1>7, <1>8, <1>9, <1>10, <1>11 DEF d, x, z

(* A lane's words in each chunk. *)
Lane(b, L, n, j) ==
  [c \in 0 .. n - 1 |-> read_u32(b, c * (8 * L) + 4 * j) + read_u32(b, c * (8 * L) + 4 * (L + j))]

LEMMA ChunkCount ==
  ASSUME NEW m \in Nat, NEW L \in {2, 4}
  PROVE  /\ m \div (8 * L) \in Nat /\ 2 * L * (m \div (8 * L)) \in 0 .. m \div 4
         /\ (m \div (8 * L)) * (8 * L) = 4 * (2 * L * (m \div (8 * L)))
<1>1. CASE L = 2
  BY <1>1
<1>2. CASE L = 4
  BY <1>2
<1> QED BY <1>1, <1>2

LEMMA LaneAt ==
  ASSUME NEW b \in Seq(Byte), NEW L \in {2, 4}, NEW c \in 0 .. (Len(b) \div (8 * L)) - 1,
         NEW j \in 0 .. L - 1
  PROVE  /\ 2 * L * c + j \in 0 .. (Len(b) \div 4) - 1
         /\ 2 * L * c + (L + j) \in 0 .. (Len(b) \div 4) - 1
         /\ Lane(b, L, Len(b) \div (8 * L), j)[c]
              = Groups(b)[2 * L * c + j] + Groups(b)[2 * L * c + (L + j)]
         /\ Lane(b, L, Len(b) \div (8 * L), j)[c] \in Nat
<1> DEFINE u == 2 * L * c + j
           v == 2 * L * c + (L + j)
<1>1. u \in 0 .. (Len(b) \div 4) - 1 /\ v \in 0 .. (Len(b) \div 4) - 1
  <2>1. Len(b) \in Nat /\ c \in Nat /\ c + 1 <= Len(b) \div (8 * L)
    <3>1. Len(b) \in Nat
      OBVIOUS
    <3>2. Len(b) \div (8 * L) \in Nat
      BY <3>1, ChunkCount
    <3> QED BY <3>1, <3>2
  <2>2. 2 * L * (Len(b) \div (8 * L)) \in 0 .. Len(b) \div 4
    BY <2>1, ChunkCount
  <2> DEFINE x == Len(b) \div 4
             y == Len(b) \div (8 * L)
  <2>3. x \in Nat /\ y \in Nat
    BY <2>1, ChunkCount, Quarter
  <2>4. 2 * L * y <= x /\ c + 1 <= y
    BY <2>1, <2>2
  <2> HIDE DEF x, y
  <2>5. CASE L = 2
    BY <2>1, <2>3, <2>4, <2>5 DEF x
  <2>6. CASE L = 4
    BY <2>1, <2>3, <2>4, <2>6 DEF x
  <2> QED BY <2>5, <2>6
<1>2. c * (8 * L) + 4 * j = 4 * u /\ c * (8 * L) + 4 * (L + j) = 4 * v
  <2>1. CASE L = 2
    BY <2>1
  <2>2. CASE L = 4
    BY <2>2
  <2> QED BY <2>1, <2>2
<1>3. Lane(b, L, Len(b) \div (8 * L), j)[c] = read_u32(b, 4 * u) + read_u32(b, 4 * v)
  <2> HIDE DEF u, v
  <2> QED BY <1>2 DEF Lane
<1> HIDE DEF u, v
<1>4. /\ Groups(b)[u] = read_u32(b, 4 * u) /\ Groups(b)[u] \in Nat
      /\ Groups(b)[v] = read_u32(b, 4 * v) /\ Groups(b)[v] \in Nat
  BY <1>1, GroupsAt
<1> QED BY <1>1, <1>3, <1>4 DEF u, v

(* Two, or four, sums may be reduced each. *)
LEMMA ModTwo ==
  ASSUME NEW n \in Nat, n > 0
  PROVE  \A a, x, y \in Nat : (a + ((x % n) + (y % n))) % n = (a + (x + y)) % n
<1> TAKE a, x, y \in Nat
<1> DEFINE p == x % n
           q == y % n
<1>1. p \in Nat /\ q \in Nat
  BY DivMod
<1>2. ((a + p) + (y % n)) % n = ((a + p) + y) % n
  <2> DEFINE s == a + p
  <2>1. s \in Nat
    BY <1>1
  <2> HIDE DEF s
  <2>2. (s + (y % n)) % n = (s + y) % n
    BY <2>1, ModBoth
  <2> QED BY <2>2 DEF s
<1>3. ((a + y) + (x % n)) % n = ((a + y) + x) % n
  <2> DEFINE s == a + y
  <2>1. s \in Nat
    OBVIOUS
  <2> HIDE DEF s
  <2>2. (s + (x % n)) % n = (s + x) % n
    BY <2>1, ModBoth
  <2> QED BY <2>2 DEF s
<1> HIDE DEF p, q
<1>4. /\ (a + p) + q = a + (p + q) /\ (a + p) + y = (a + y) + p
      /\ (a + y) + x = a + (x + y)
  BY <1>1
<1>5. ((a + p) + q) % n = ((a + p) + y) % n
  BY <1>2 DEF q
<1>6. ((a + y) + p) % n = ((a + y) + x) % n
  BY <1>3 DEF p
<1> QED BY <1>4, <1>5, <1>6 DEF p, q

LEMMA ModFour ==
  ASSUME NEW n \in Nat, n > 0
  PROVE  \A a, x, y, u, v \in Nat :
           (a + ((x % n) + (y % n) + (u % n) + (v % n))) % n = (a + (x + y + u + v)) % n
<1> TAKE a, x, y, u, v \in Nat
<1>0. \A w, j, k \in Nat : (w + ((j % n) + (k % n))) % n = (w + (j + k)) % n
  BY ModTwo, Zenon
<1> DEFINE p == x % n
           q == y % n
           r == u % n
           s == v % n
<1>1. p \in Nat /\ q \in Nat /\ r \in Nat /\ s \in Nat
  BY DivMod
<1>2. ((a + (p + q)) + ((u % n) + (v % n))) % n = ((a + (p + q)) + (u + v)) % n
  <2> DEFINE w == a + (p + q)
  <2>1. w \in Nat
    BY <1>1
  <2> HIDE DEF w
  <2>2. (w + ((u % n) + (v % n))) % n = (w + (u + v)) % n
    BY <2>1, <1>0, Zenon
  <2> QED BY <2>2 DEF w
<1>3. ((a + (u + v)) + ((x % n) + (y % n))) % n = ((a + (u + v)) + (x + y)) % n
  <2> DEFINE w == a + (u + v)
  <2>1. w \in Nat
    OBVIOUS
  <2> HIDE DEF w
  <2>2. (w + ((x % n) + (y % n))) % n = (w + (x + y)) % n
    BY <2>1, <1>0, Zenon
  <2> QED BY <2>2 DEF w
<1> HIDE DEF p, q, r, s
<1>4. /\ (a + (p + q)) + (r + s) = a + (p + q + r + s)
      /\ (a + (p + q)) + (u + v) = (a + (u + v)) + (p + q)
      /\ (a + (u + v)) + (x + y) = a + (x + y + u + v)
  BY <1>1
<1>5. ((a + (p + q)) + (r + s)) % n = ((a + (p + q)) + (u + v)) % n
  BY <1>2 DEF r, s
<1>6. ((a + (u + v)) + (p + q)) % n = ((a + (u + v)) + (x + y)) % n
  BY <1>3 DEF p, q
<1> QED BY <1>4, <1>5, <1>6 DEF p, q, r, s

(* What a register is added up to. *)
LEMMA SumOfTwo ==
  ASSUME NEW f, f[0] \in Nat, f[1] \in Nat
  PROVE  SumTo(2, f) = (f[0] + f[1]) % U64
<1>1. \A k \in 0..2-1 : f[k] \in Nat
  OBVIOUS
<1>2. PICK R : Prefix(R, f, 2)
  BY <1>1, PrefixExists
<1>3. SumTo(2, f) = R[2] % U64
  BY <1>1, <1>2, SumToPrefix
<1>4. R[0] = 0 /\ R[0+1] = R[0] + f[0] /\ R[1+1] = R[1] + f[1]
  BY <1>2, PrefixStep
<1>5. R[2] = f[0] + f[1]
  BY <1>4
<1> QED BY <1>3, <1>5

LEMMA SumOfFour ==
  ASSUME NEW f, f[0] \in Nat, f[1] \in Nat, f[2] \in Nat, f[3] \in Nat
  PROVE  SumTo(4, f) = (f[0] + f[1] + f[2] + f[3]) % U64
<1>1. \A k \in 0..4-1 : f[k] \in Nat
  OBVIOUS
<1>2. PICK R : Prefix(R, f, 4)
  BY <1>1, PrefixExists
<1>3. SumTo(4, f) = R[4] % U64
  BY <1>1, <1>2, SumToPrefix
<1>4. /\ R[0] = 0 /\ R[0+1] = R[0] + f[0] /\ R[1+1] = R[1] + f[1]
      /\ R[2+1] = R[2] + f[2] /\ R[3+1] = R[3] + f[3]
  BY <1>2, PrefixStep
<1>5. R[4] = f[0] + f[1] + f[2] + f[3]
  BY <1>4
<1> QED BY <1>3, <1>5

(* P[c] is the sum of the words x and y of each of the first c chunks. *)
InLane(P, b, w, x, y, n) ==
  /\ P[0] = 0 /\ \A c \in 0..n : P[c] \in Nat
  /\ \A c \in 0..n-1 : P[c+1] = P[c] + Groups(b)[w * c + x] + Groups(b)[w * c + y]

LEMMA LaneSum ==
  ASSUME NEW b \in Seq(Byte), NEW L \in {2, 4}, NEW j \in 0 .. L - 1
  PROVE  LET n == Len(b) \div (8 * L) IN
         \E P : InLane(P, b, 2 * L, j, L + j, n) /\ SumTo(n, Lane(b, L, n, j)) = P[n] % U64
<1> DEFINE n == Len(b) \div (8 * L)
           g == Lane(b, L, n, j)
<1>1. n \in Nat
  BY ChunkCount
<1>2. \A c \in 0..n-1 : /\ g[c] = Groups(b)[2 * L * c + j] + Groups(b)[2 * L * c + (L + j)]
                        /\ g[c] \in Nat
                        /\ Groups(b)[2 * L * c + j] \in Nat
                        /\ Groups(b)[2 * L * c + (L + j)] \in Nat
  <2> TAKE c \in 0..n-1
  <2> DEFINE u == 2 * L * c + j
             v == 2 * L * c + (L + j)
  <2>1. /\ u \in 0 .. (Len(b) \div 4) - 1 /\ v \in 0 .. (Len(b) \div 4) - 1
        /\ g[c] = Groups(b)[u] + Groups(b)[v] /\ g[c] \in Nat
    BY LaneAt
  <2> HIDE DEF u, v, g
  <2>2. Groups(b)[u] \in Nat /\ Groups(b)[v] \in Nat
    BY <2>1, GroupsAt
  <2> QED BY <2>1, <2>2 DEF u, v
<1> HIDE DEF n, g
<1>3. PICK P : Prefix(P, g, n)
  BY <1>1, <1>2, PrefixExists
<1>4. SumTo(n, g) = P[n] % U64
  BY <1>1, <1>2, <1>3, SumToPrefix
<1>5. /\ \A c \in 0..n : P[c] \in Nat
      /\ P[0] = 0 /\ \A c \in 0..n-1 : P[c+1] = P[c] + g[c]
  BY <1>1, <1>3, PrefixStep
<1>6. ASSUME NEW c \in 0..n-1
      PROVE P[c+1] = P[c] + Groups(b)[2 * L * c + j] + Groups(b)[2 * L * c + (L + j)]
  <2> DEFINE u == Groups(b)[2 * L * c + j]
             v == Groups(b)[2 * L * c + (L + j)]
  <2>1. P[c+1] = P[c] + g[c] /\ g[c] = u + v /\ u \in Nat /\ v \in Nat /\ P[c] \in Nat
    BY <1>1, <1>2, <1>5
  <2> HIDE DEF u, v
  <2>2. P[c+1] = P[c] + u + v
    BY <2>1
  <2> QED BY <2>2 DEF u, v
<1>7. InLane(P, b, 2 * L, j, L + j, n)
  BY <1>5, <1>6 DEF InLane
<1> QED BY <1>4, <1>7 DEF n, g

(* Two lanes. *)
LEMMA TwoLanes ==
  ASSUME NEW b \in Seq(Byte), NEW Q, Prefix(Q, Groups(b), Len(b) \div 4),
         NEW n \in Nat, 4 * n <= Len(b) \div 4,
         NEW P, InLane(P, b, 4, 0, 2, n), NEW R, InLane(R, b, 4, 1, 3, n)
  PROVE  P[n] + R[n] = Q[4 * n]
<1> DEFINE T == {c \in 0..n : P[c] + R[c] = Q[4 * c]}
           m == Len(b) \div 4
           G == Groups(b)
<1>a. /\ P[0] = 0 /\ R[0] = 0
      /\ \A c \in 0..n : P[c] \in Nat /\ R[c] \in Nat
      /\ \A c \in 0..n-1 :
           /\ P[c+1] = P[c] + G[4 * c + 0] + G[4 * c + 2]
           /\ R[c+1] = R[c] + G[4 * c + 1] + G[4 * c + 3]
  BY DEF InLane
<1>0. m \in Nat /\ 4 * n <= m /\ \A k \in 0..m-1 : G[k] \in Nat
  BY Quarter, GroupsAt
<1>1. /\ \A k \in 0..m : Q[k] \in Nat
      /\ Q[0] = 0 /\ \A k \in 0..m-1 : Q[k+1] = Q[k] + G[k]
  BY <1>0, PrefixStep
<1> HIDE DEF m, G
<1>2. 0 \in T
  BY <1>a, <1>1
<1>3. ASSUME NEW c \in 0..n, c \in T, c < n PROVE c + 1 \in T
  <2> DEFINE s == 4 * c
  <2>1. /\ c \in 0..n-1 /\ c + 1 \in 0..n /\ 4 * (c + 1) = s + 4 /\ s \in Nat /\ s + 4 <= m
    BY <1>0, <1>3
  <2>2. P[c] + R[c] = Q[s]
    BY <1>3
  <2>3. /\ P[c+1] = P[c] + G[s+0] + G[s+2] /\ R[c+1] = R[c] + G[s+1] + G[s+3]
        /\ P[c] \in Nat /\ R[c] \in Nat
    BY <2>1, <1>a
  <2> HIDE DEF s
  <2>4. /\ s \in 0..m-1 /\ s + 1 \in 0..m-1 /\ s + 2 \in 0..m-1 /\ s + 3 \in 0..m-1
        /\ s \in 0..m /\ s + 0 = s
    BY <2>1, <1>0
  <2>5. /\ Q[s+1] = Q[s] + G[s] /\ Q[s+1+1] = Q[s+1] + G[s+1]
        /\ Q[s+2+1] = Q[s+2] + G[s+2] /\ Q[s+3+1] = Q[s+3] + G[s+3]
        /\ Q[s] \in Nat
        /\ G[s] \in Nat /\ G[s+1] \in Nat /\ G[s+2] \in Nat /\ G[s+3] \in Nat
    BY <2>4, <1>0, <1>1
  <2>6. s + 1 + 1 = s + 2 /\ s + 2 + 1 = s + 3 /\ s + 3 + 1 = s + 4
    BY <2>1
  <2> DEFINE g0 == G[s]  g1 == G[s+1]  g2 == G[s+2]  g3 == G[s+3]
  <2>7. Q[s+4] = Q[s] + g0 + g1 + g2 + g3
    BY <2>5, <2>6
  <2>8. P[c+1] = P[c] + g0 + g2 /\ R[c+1] = R[c] + g1 + g3
    BY <2>3, <2>4
  <2>9. g0 \in Nat /\ g1 \in Nat /\ g2 \in Nat /\ g3 \in Nat
    BY <2>5
  <2> DEFINE x == P[c]  y == R[c]
  <2>10. Q[s+4] = x + y + g0 + g1 + g2 + g3 /\ x \in Nat /\ y \in Nat
    BY <2>2, <2>3, <2>7
  <2>11. P[c+1] = x + g0 + g2 /\ R[c+1] = y + g1 + g3
    BY <2>8
  <2> HIDE DEF g0, g1, g2, g3, x, y
  <2>12. P[c+1] + R[c+1] = Q[s+4]
    BY <2>9, <2>10, <2>11
  <2> QED BY <2>1, <2>12
<1> HIDE DEF T
<1>4. \A c \in 0..n : c \in T
  BY <1>2, <1>3, UpToLength
<1> QED BY <1>4 DEF T

(* Four lanes. *)
LEMMA FourLanes ==
  ASSUME NEW b \in Seq(Byte), NEW Q, Prefix(Q, Groups(b), Len(b) \div 4),
         NEW n \in Nat, 8 * n <= Len(b) \div 4,
         NEW P, InLane(P, b, 8, 0, 4, n), NEW R, InLane(R, b, 8, 1, 5, n),
         NEW U, InLane(U, b, 8, 2, 6, n), NEW V, InLane(V, b, 8, 3, 7, n)
  PROVE  P[n] + R[n] + U[n] + V[n] = Q[8 * n]
<1> DEFINE T == {c \in 0..n : P[c] + R[c] + U[c] + V[c] = Q[8 * c]}
           m == Len(b) \div 4
           G == Groups(b)
<1>a. /\ P[0] = 0 /\ R[0] = 0 /\ U[0] = 0 /\ V[0] = 0
      /\ \A c \in 0..n : P[c] \in Nat /\ R[c] \in Nat /\ U[c] \in Nat /\ V[c] \in Nat
      /\ \A c \in 0..n-1 :
           /\ P[c+1] = P[c] + G[8 * c + 0] + G[8 * c + 4]
           /\ R[c+1] = R[c] + G[8 * c + 1] + G[8 * c + 5]
           /\ U[c+1] = U[c] + G[8 * c + 2] + G[8 * c + 6]
           /\ V[c+1] = V[c] + G[8 * c + 3] + G[8 * c + 7]
  BY DEF InLane
<1>0. m \in Nat /\ 8 * n <= m /\ \A k \in 0..m-1 : G[k] \in Nat
  BY Quarter, GroupsAt
<1>1. /\ \A k \in 0..m : Q[k] \in Nat
      /\ Q[0] = 0 /\ \A k \in 0..m-1 : Q[k+1] = Q[k] + G[k]
  BY <1>0, PrefixStep
<1> HIDE DEF m, G
<1>2. 0 \in T
  BY <1>a, <1>1
<1>3. ASSUME NEW c \in 0..n, c \in T, c < n PROVE c + 1 \in T
  <2> DEFINE s == 8 * c
  <2>1. /\ c \in 0..n-1 /\ c + 1 \in 0..n /\ 8 * (c + 1) = s + 8 /\ s \in Nat /\ s + 8 <= m
    BY <1>0, <1>3
  <2>2. P[c] + R[c] + U[c] + V[c] = Q[s]
    BY <1>3
  <2>3. /\ P[c+1] = P[c] + G[s+0] + G[s+4] /\ R[c+1] = R[c] + G[s+1] + G[s+5]
        /\ U[c+1] = U[c] + G[s+2] + G[s+6] /\ V[c+1] = V[c] + G[s+3] + G[s+7]
        /\ P[c] \in Nat /\ R[c] \in Nat /\ U[c] \in Nat /\ V[c] \in Nat
    BY <2>1, <1>a
  <2> HIDE DEF s
  <2>4. /\ \A k \in 0..7 : s + k \in 0..m-1 /\ s + k \in Nat
        /\ s \in 0..m /\ s + 0 = s
    BY <2>1, <1>0
  <2>5. ASSUME NEW k \in 0..7
        PROVE  Q[s+k+1] = Q[s+k] + G[s+k] /\ Q[s+k] \in Nat /\ G[s+k] \in Nat
    <3> DEFINE j == s + k
    <3>1. j \in 0..m-1 /\ j \in 0..m
      BY <2>4, <1>0
    <3> HIDE DEF j
    <3>2. Q[j+1] = Q[j] + G[j] /\ Q[j] \in Nat /\ G[j] \in Nat
      BY <3>1, <1>0, <1>1
    <3> QED BY <3>2 DEF j
  <2> DEFINE g0 == G[s+0]  g1 == G[s+1]  g2 == G[s+2]  g3 == G[s+3]
             g4 == G[s+4]  g5 == G[s+5]  g6 == G[s+6]  g7 == G[s+7]
  <2>6. /\ g0 \in Nat /\ g1 \in Nat /\ g2 \in Nat /\ g3 \in Nat
        /\ g4 \in Nat /\ g5 \in Nat /\ g6 \in Nat /\ g7 \in Nat
    BY <2>5
  <2>7. /\ Q[s+0+1] = Q[s+0] + g0 /\ Q[s+1+1] = Q[s+1] + g1
        /\ Q[s+2+1] = Q[s+2] + g2 /\ Q[s+3+1] = Q[s+3] + g3
        /\ Q[s+4+1] = Q[s+4] + g4 /\ Q[s+5+1] = Q[s+5] + g5
        /\ Q[s+6+1] = Q[s+6] + g6 /\ Q[s+7+1] = Q[s+7] + g7
    BY <2>5
  <2>8. /\ s + 0 + 1 = s + 1 /\ s + 1 + 1 = s + 2 /\ s + 2 + 1 = s + 3
        /\ s + 3 + 1 = s + 4 /\ s + 4 + 1 = s + 5 /\ s + 5 + 1 = s + 6
        /\ s + 6 + 1 = s + 7 /\ s + 7 + 1 = s + 8 /\ s + 0 = s
    BY <2>1
  <2>9. /\ P[c+1] = P[c] + g0 + g4 /\ R[c+1] = R[c] + g1 + g5
        /\ U[c+1] = U[c] + g2 + g6 /\ V[c+1] = V[c] + g3 + g7
    BY <2>3
  <2> DEFINE x == P[c]  y == R[c]  z == U[c]  w == V[c]  q == Q[s]
  <2>10. /\ x \in Nat /\ y \in Nat /\ z \in Nat /\ w \in Nat /\ q = x + y + z + w
         /\ P[c+1] = x + g0 + g4 /\ R[c+1] = y + g1 + g5
         /\ U[c+1] = z + g2 + g6 /\ V[c+1] = w + g3 + g7
    BY <2>2, <2>3, <2>9
  <2> HIDE DEF g0, g1, g2, g3, g4, g5, g6, g7
  <2>11. Q[s+8] = q + g0 + g1 + g2 + g3 + g4 + g5 + g6 + g7
    BY <2>7, <2>8
  <2> HIDE DEF x, y, z, w, q
  <2>12. P[c+1] + R[c+1] + U[c+1] + V[c+1] = Q[s+8]
    BY <2>6, <2>10, <2>11
  <2> QED BY <2>1, <2>12
<1> HIDE DEF T
<1>4. \A c \in 0..n : c \in T
  BY <1>2, <1>3, UpToLength
<1> QED BY <1>4 DEF T

LEMMA LanesSum ==
  ASSUME NEW b, NEW a, NEW L
  PROVE  lanes_sum(b, a, L)
           = LET n == Len(b) \div (8 * L)
                 f == [j \in 0 .. L - 1 |-> SumTo(n, Lane(b, L, n, j))]
             IN  checksum_no_fold_scalar(From(b, n * (8 * L)), (a + SumTo(L, f)) % U64)
BY DEF lanes_sum, Lane

(* So all three versions compute the same. *)
LEMMA Sse41IsScalar ==
  ASSUME NEW b \in Seq(Byte), NEW a \in Nat
  PROVE  checksum_no_fold_sse41(b, a) = checksum_no_fold_scalar(b, a)
<1> DEFINE n == Len(b) \div (8 * 2)
           f == [j \in 0 .. 2 - 1 |-> SumTo(n, Lane(b, 2, n, j))]
           m == Len(b) \div 4
<1>1. checksum_no_fold_sse41(b, a)
        = checksum_no_fold_scalar(From(b, n * (8 * 2)), (a + SumTo(2, f)) % U64)
  BY LanesSum DEF checksum_no_fold_sse41
<1>2. n \in Nat /\ m \in Nat /\ 4 * n \in 0..m /\ n * (8 * 2) = 4 * (4 * n)
  OBVIOUS
<1>3. PICK Q : Prefix(Q, Groups(b), m)
  <2>1. \A k \in 0..m-1 : Groups(b)[k] \in Nat
    BY GroupsAt
  <2> HIDE DEF m
  <2> QED BY <1>2, <2>1, PrefixExists
<1>4. PICK P : InLane(P, b, 4, 0, 2, n) /\ SumTo(n, Lane(b, 2, n, 0)) = P[n] % U64
  <2>1. 2 \in {2, 4} /\ 0 \in 0..2-1 /\ 2 * 2 = 4 /\ 2 + 0 = 2
    OBVIOUS
  <2> QED BY <2>1, LaneSum
<1>5. PICK R : InLane(R, b, 4, 1, 3, n) /\ SumTo(n, Lane(b, 2, n, 1)) = R[n] % U64
  <2>1. 2 \in {2, 4} /\ 1 \in 0..2-1 /\ 2 * 2 = 4 /\ 2 + 1 = 3
    OBVIOUS
  <2> QED BY <2>1, LaneSum
<1>6. P[n] + R[n] = Q[4 * n]
  <2>1. 4 * n <= Len(b) \div 4
    BY <1>2
  <2> HIDE DEF n
  <2> QED BY <1>2, <1>3, <1>4, <1>5, <2>1, TwoLanes
<1> DEFINE x == P[n]
           y == R[n]
<1>7. x \in Nat /\ y \in Nat /\ x + y = Q[4 * n]
  <2>1. n \in 0..n
    BY <1>2
  <2> HIDE DEF n
  <2> QED BY <1>4, <1>5, <1>6, <2>1 DEF InLane
<1>8. f[0] = x % U64 /\ f[1] = y % U64
  BY <1>4, <1>5
<1> HIDE DEF x, y, f
<1>9. x % U64 \in Nat /\ y % U64 \in Nat
  BY <1>7, DivMod, RadixSizes
<1>10. SumTo(2, f) = ((x % U64) + (y % U64)) % U64
  BY <1>8, <1>9, SumOfTwo
<1>11. (a + SumTo(2, f)) % U64 = (a + Q[4 * n]) % U64
  <2> DEFINE z == (x % U64) + (y % U64)
  <2>1. z \in Nat
    BY <1>9
  <2> HIDE DEF z
  <2>2. (a + (z % U64)) % U64 = (a + z) % U64
    BY <2>1, ModBoth, RadixSizes
  <2>3. (a + ((x % U64) + (y % U64))) % U64 = (a + (x + y)) % U64
    <3>1. \A p, q, r \in Nat : (p + ((q % U64) + (r % U64))) % U64 = (p + (q + r)) % U64
      BY ModTwo, RadixSizes, Zenon
    <3> QED BY <1>7, <3>1, Zenon
  <2> QED BY <1>7, <1>10, <2>2, <2>3 DEF z
<1> HIDE DEF n, m
<1> DEFINE j == 4 * n
<1>12. j \in 0 .. Len(b) \div 4 /\ Prefix(Q, Groups(b), Len(b) \div 4)
  BY <1>2, <1>3 DEF m
<1>13. n * (8 * 2) = 4 * j
  BY <1>2
<1>14. (a + SumTo(2, f)) % U64 = (a + Q[j]) % U64
  BY <1>11
<1> HIDE DEF j
<1>15. checksum_no_fold_scalar(From(b, 4 * j), (a + Q[j]) % U64) = checksum_no_fold_scalar(b, a)
  BY <1>12, LanesThenScalar
<1> QED BY <1>1, <1>13, <1>14, <1>15

LEMMA Avx2IsScalar ==
  ASSUME NEW b \in Seq(Byte), NEW a \in Nat
  PROVE  checksum_no_fold_avx2(b, a) = checksum_no_fold_scalar(b, a)
<1> DEFINE n == Len(b) \div (8 * 4)
           f == [j \in 0 .. 4 - 1 |-> SumTo(n, Lane(b, 4, n, j))]
           m == Len(b) \div 4
<1>1. checksum_no_fold_avx2(b, a)
        = checksum_no_fold_scalar(From(b, n * (8 * 4)), (a + SumTo(4, f)) % U64)
  BY LanesSum DEF checksum_no_fold_avx2
<1>2. n \in Nat /\ m \in Nat /\ 8 * n \in 0..m /\ n * (8 * 4) = 4 * (8 * n)
  OBVIOUS
<1>3. PICK Q : Prefix(Q, Groups(b), m)
  <2>1. \A k \in 0..m-1 : Groups(b)[k] \in Nat
    BY GroupsAt
  <2> HIDE DEF m
  <2> QED BY <1>2, <2>1, PrefixExists
<1>4. PICK P : InLane(P, b, 8, 0, 4, n) /\ SumTo(n, Lane(b, 4, n, 0)) = P[n] % U64
  <2>1. 4 \in {2, 4} /\ 0 \in 0..4-1 /\ 2 * 4 = 8 /\ 4 + 0 = 4
    OBVIOUS
  <2> QED BY <2>1, LaneSum
<1>5. PICK R : InLane(R, b, 8, 1, 5, n) /\ SumTo(n, Lane(b, 4, n, 1)) = R[n] % U64
  <2>1. 4 \in {2, 4} /\ 1 \in 0..4-1 /\ 2 * 4 = 8 /\ 4 + 1 = 5
    OBVIOUS
  <2> QED BY <2>1, LaneSum
<1>6. PICK U : InLane(U, b, 8, 2, 6, n) /\ SumTo(n, Lane(b, 4, n, 2)) = U[n] % U64
  <2>1. 4 \in {2, 4} /\ 2 \in 0..4-1 /\ 2 * 4 = 8 /\ 4 + 2 = 6
    OBVIOUS
  <2> QED BY <2>1, LaneSum
<1>7. PICK V : InLane(V, b, 8, 3, 7, n) /\ SumTo(n, Lane(b, 4, n, 3)) = V[n] % U64
  <2>1. 4 \in {2, 4} /\ 3 \in 0..4-1 /\ 2 * 4 = 8 /\ 4 + 3 = 7
    OBVIOUS
  <2> QED BY <2>1, LaneSum
<1>8. P[n] + R[n] + U[n] + V[n] = Q[8 * n]
  <2>1. 8 * n <= Len(b) \div 4
    BY <1>2
  <2> HIDE DEF n
  <2> QED BY <1>2, <1>3, <1>4, <1>5, <1>6, <1>7, <2>1, FourLanes
<1> DEFINE x == P[n]
           y == R[n]
           u == U[n]
           v == V[n]
<1>9. x \in Nat /\ y \in Nat /\ u \in Nat /\ v \in Nat /\ x + y + u + v = Q[8 * n]
  <2>1. n \in 0..n
    BY <1>2
  <2> HIDE DEF n
  <2> QED BY <1>4, <1>5, <1>6, <1>7, <1>8, <2>1 DEF InLane
<1>10. f[0] = x % U64 /\ f[1] = y % U64 /\ f[2] = u % U64 /\ f[3] = v % U64
  BY <1>4, <1>5, <1>6, <1>7
<1> HIDE DEF x, y, u, v, f
<1>11. x % U64 \in Nat /\ y % U64 \in Nat /\ u % U64 \in Nat /\ v % U64 \in Nat
  BY <1>9, DivMod, RadixSizes
<1>12. SumTo(4, f) = ((x % U64) + (y % U64) + (u % U64) + (v % U64)) % U64
  BY <1>10, <1>11, SumOfFour
<1>13. (a + SumTo(4, f)) % U64 = (a + Q[8 * n]) % U64
  <2> DEFINE z == (x % U64) + (y % U64) + (u % U64) + (v % U64)
  <2>1. z \in Nat
    BY <1>11
  <2> HIDE DEF z
  <2>2. (a + (z % U64)) % U64 = (a + z) % U64
    BY <2>1, ModBoth, RadixSizes
  <2>3. (a + ((x % U64) + (y % U64) + (u % U64) + (v % U64))) % U64 = (a + (x + y + u + v)) % U64
    <3>1. \A p, q, r, s, w \in Nat :
            (p + ((q % U64) + (r % U64) + (s % U64) + (w % U64))) % U64
              = (p + (q + r + s + w)) % U64
      BY ModFour, RadixSizes, Zenon
    <3> QED BY <1>9, <3>1
  <2> QED BY <1>9, <1>12, <2>2, <2>3 DEF z
<1> HIDE DEF n, m
<1> DEFINE j == 8 * n
<1>14. j \in 0 .. Len(b) \div 4 /\ Prefix(Q, Groups(b), Len(b) \div 4)
  BY <1>2, <1>3 DEF m
<1>15. n * (8 * 4) = 4 * j
  BY <1>2
<1>16. (a + SumTo(4, f)) % U64 = (a + Q[j]) % U64
  BY <1>13
<1> HIDE DEF j
<1>17. checksum_no_fold_scalar(From(b, 4 * j), (a + Q[j]) % U64) = checksum_no_fold_scalar(b, a)
  BY <1>14, LanesThenScalar
<1> QED BY <1>1, <1>15, <1>16, <1>17

-----------------------------------------------------------------------------
(* The exact sum. *)

(* x is what all the 32-bit words of b and its end add up to. *)
IsSum(x, b) ==
  \E Q : Prefix(Q, Groups(b), Len(b) \div 4) /\ x = Q[Len(b) \div 4] + EndOf(b)

LEMMA SumExists ==
  ASSUME NEW b \in Seq(Byte)
  PROVE  \E x \in Nat : IsSum(x, b)
<1> DEFINE n == Len(b) \div 4
<1>1. n \in Nat
  BY Quarter
<1>2. \A k \in 0..n-1 : Groups(b)[k] \in Nat
  BY GroupsAt
<1>3. PICK Q : Prefix(Q, Groups(b), n)
  <2> HIDE DEF n
  <2> QED BY <1>1, <1>2, PrefixExists
<1>4. Q[n] \in Nat /\ EndOf(b) \in Nat
  <2>1. n \in 0..n
    BY <1>1
  <2> HIDE DEF n
  <2> QED BY <1>1, <1>3, <2>1, PrefixStep, EndBound
<1> DEFINE x == Q[n] + EndOf(b)
<1>5. x \in Nat
  <2> DEFINE y == Q[n]
             e == EndOf(b)
  <2>1. y \in Nat /\ e \in Nat
    BY <1>4
  <2> HIDE DEF y, e
  <2>2. y + e \in Nat
    BY <2>1
  <2> QED BY <2>2 DEF y, e
<1>6. IsSum(x, b)
  BY <1>3, Zenon DEF IsSum
<1> QED BY <1>5, <1>6, Zenon

(* It is what each version adds, in 64 bits. *)
LEMMA NoFoldIsSum ==
  ASSUME NEW b \in Seq(Byte), NEW x, IsSum(x, b), NEW a \in Nat, NEW cpu \in Cpu
  PROVE  x \in Nat /\ checksum_no_fold(cpu, b, a) = (a + x) % U64
<1>1. checksum_no_fold(cpu, b, a) = checksum_no_fold_scalar(b, a)
  <2>1. CASE cpu = "avx2"
    <3>1. checksum_no_fold(cpu, b, a) = checksum_no_fold_avx2(b, a)
      BY <2>1 DEF checksum_no_fold
    <3> QED BY <3>1, Avx2IsScalar
  <2>2. CASE cpu = "sse4.1"
    <3>1. checksum_no_fold(cpu, b, a) = checksum_no_fold_sse41(b, a)
      BY <2>2 DEF checksum_no_fold
    <3> QED BY <3>1, Sse41IsScalar
  <2>3. CASE cpu = "other"
    BY <2>3 DEF checksum_no_fold
  <2> QED BY <2>1, <2>2, <2>3 DEF Cpu
<1>2. PICK Q : Prefix(Q, Groups(b), Len(b) \div 4) /\ x = Q[Len(b) \div 4] + EndOf(b)
  BY DEF IsSum
<1>3. /\ Q[Len(b) \div 4] + EndOf(b) \in Nat
      /\ checksum_no_fold_scalar(b, a) = (a + (Q[Len(b) \div 4] + EndOf(b))) % U64
  BY <1>2, ScalarSum
<1> QED BY <1>1, <1>2, <1>3

(* It grows with the number of bytes. *)
LEMMA SumBound ==
  ASSUME NEW b \in Seq(Byte), NEW x, IsSum(x, b)
  PROVE  x <= (U16 * U16) * Len(b)
<1> DEFINE n == Len(b) \div 4
           B == U16 * U16
           e == EndOf(b)
           l == Len(b)
<1>1. PICK Q : Prefix(Q, Groups(b), n) /\ x = Q[n] + e
  BY DEF IsSum
<1>2. n \in Nat /\ B \in Nat /\ e \in Nat /\ e <= B /\ l \in Nat
  BY RadixSizes, EndBound, Quarter
<1>3. \A k \in 0..n-1 : Groups(b)[k] \in Nat /\ Groups(b)[k] <= B
  BY GroupsAt
<1>4. Q[n] <= B * n /\ Q[n] \in Nat
  <2>1. n \in 0..n
    BY <1>2
  <2> HIDE DEF n, B
  <2> QED BY <1>1, <1>2, <1>3, <2>1, PrefixBound, PrefixStep
<1>5. (l = 0 => n = 0 /\ e = 0) /\ (l = 1 => n = 0) /\ (l > 0 => n + 1 <= l)
  <2>1. ASSUME l = 0 PROVE e = 0
    <3> DEFINE m == 4 * (Len(b) \div 4)
    <3>1. Len(b) - m = 0
      BY <2>1
    <3>2. Len(b) - m = 0 => EndOf(b) = 0
      BY EndAt
    <3> QED BY <3>1, <3>2
  <2>2. \A k \in Nat : /\ (k = 0 => k \div 4 = 0) /\ (k = 1 => k \div 4 = 0)
                      /\ (k > 1 => k \div 4 + 1 <= k)
    OBVIOUS
  <2>3. (l = 0 => n = 0) /\ (l = 1 => n = 0) /\ (l > 0 => n + 1 <= l)
    <3>1. (l = 0 => n = 0) /\ (l = 1 => n = 0) /\ (l > 1 => n + 1 <= l)
      BY <1>2, <2>2, Zenon
    <3> HIDE DEF n, l
    <3> QED BY <1>2, <3>1
  <2> QED BY <2>1, <2>3
<1> DEFINE q == Q[n]
<1>6. x = q + e /\ q <= B * n /\ q \in Nat
  BY <1>1, <1>4
<1> HIDE DEF n, B, e, l, q
<1>7. CASE l = 0
  <2>1. B * n = 0 /\ B * l = 0
    BY <1>2, <1>5, <1>7
  <2> QED BY <1>2, <1>5, <1>6, <1>7, <2>1 DEF B, l
<1>8. CASE l > 0
  <2>1. B * (n + 1) <= B * l /\ B * (n + 1) = B * n + B /\ B * n \in Nat /\ B * l \in Nat
    BY <1>2, <1>5, <1>8, Z3
  <2>2. x <= B * l
    BY <1>2, <1>6, <2>1
  <2> QED BY <2>2 DEF B, l
<1> QED BY <1>2, <1>7, <1>8

-----------------------------------------------------------------------------
(* The sum of the 16-bit words. *)

HalfWords(b) ==
  [k \in 0 .. ((Len(b) + 1) \div 2) - 1 |->
     b[2 * k + 1] * Radix + (IF 2 * k + 2 <= Len(b) THEN b[2 * k + 2] ELSE 0)]

IsWordSum(y, b) ==
  \E W : Prefix(W, HalfWords(b), (Len(b) + 1) \div 2) /\ y = W[(Len(b) + 1) \div 2]

LEMMA Half ==
  ASSUME NEW n \in Nat
  PROVE  /\ (n + 1) \div 2 \in Nat
         /\ 2 * ((n + 1) \div 2) = n \/ 2 * ((n + 1) \div 2) = n + 1
  OBVIOUS

LEMMA HalfAt ==
  ASSUME NEW b \in Seq(Byte), NEW k \in 0 .. ((Len(b) + 1) \div 2) - 1
  PROVE  /\ HalfWords(b)[k] \in 0..U16-1
         /\ 2 * k + 2 <= Len(b) => HalfWords(b)[k] = b[2*k+1] * Radix + b[2*k+2]
         /\ 2 * k + 1 = Len(b) => HalfWords(b)[k] = b[2*k+1] * Radix
         /\ 2 * k + 1 <= Len(b)
<1> DEFINE i1 == 2 * k + 1
           i2 == 2 * k + 2
<1>1. i1 \in 1..Len(b) /\ i2 = i1 + 1 /\ Len(b) \in Nat
  <2>1. Len(b) \in Nat
    OBVIOUS
  <2> DEFINE n == (Len(b) + 1) \div 2
  <2>2. n \in Nat /\ 2 * n <= Len(b) + 1
    BY <2>1, Half
  <2>3. k \in 0..n-1
    OBVIOUS
  <2> HIDE DEF n
  <2> QED BY <2>1, <2>2, <2>3
<1>2. HalfWords(b)[k] = b[i1] * Radix + (IF i2 <= Len(b) THEN b[i2] ELSE 0)
  BY DEF HalfWords
<1> HIDE DEF i1, i2
<1>3. b[i1] \in Byte
  BY <1>1
<1>4. CASE i2 <= Len(b)
  <2>1. b[i2] \in Byte
    BY <1>1, <1>4
  <2>2. HalfWords(b)[k] = b[i1] * Radix + b[i2]
    BY <1>2, <1>4
  <2>3. b[i1] * Radix + b[i2] \in 0..U16-1
    BY <1>3, <2>1, WordOfTwo
  <2>4. i1 # Len(b)
    BY <1>1, <1>4
  <2> QED BY <1>1, <2>2, <2>3, <2>4 DEF i1, i2
<1>5. CASE ~(i2 <= Len(b))
  <2>1. b[i1] * Radix \in 0..U16-1
    BY <1>3, WordOfBytes
  <2>2. HalfWords(b)[k] = b[i1] * Radix
    <3> DEFINE w == b[i1] * Radix
    <3>1. HalfWords(b)[k] = w + 0 /\ w \in Nat
      BY <1>2, <1>5, <2>1
    <3> HIDE DEF w
    <3>2. HalfWords(b)[k] = w
      BY <3>1
    <3> QED BY <3>2 DEF w
  <2> QED BY <1>1, <1>5, <2>1, <2>2 DEF i1, i2
<1> QED BY <1>4, <1>5

LEMMA WordSumExists ==
  ASSUME NEW b \in Seq(Byte)
  PROVE  \E y \in Nat : IsWordSum(y, b)
<1> DEFINE n == (Len(b) + 1) \div 2
<1>1. n \in Nat
  BY Half
<1>2. \A k \in 0..n-1 : HalfWords(b)[k] \in Nat
  BY HalfAt, RadixSizes
<1>3. PICK W : Prefix(W, HalfWords(b), n)
  <2> HIDE DEF n
  <2> QED BY <1>1, <1>2, PrefixExists
<1>4. W[n] \in Nat
  <2>1. n \in 0..n
    BY <1>1
  <2> HIDE DEF n
  <2> QED BY <1>1, <1>3, <2>1, PrefixStep
<1>5. IsWordSum(W[n], b)
  BY <1>3, Zenon DEF IsWordSum
<1> QED BY <1>4, <1>5, Zenon

(* A sum in two parts. *)
Joined(h, g, n, f, m) ==
  /\ \A k \in 0..n-1 : h[k] = g[k]
  /\ \A k \in 0..m-1 : h[n+k] = f[k] /\ f[k] \in Nat

LEMMA PrefixJoin ==
  ASSUME NEW n \in Nat, NEW m \in Nat, NEW g, NEW f, NEW h, Joined(h, g, n, f, m),
         NEW P, Prefix(P, g, n), NEW R, Prefix(R, f, m), NEW W, Prefix(W, h, n + m)
  PROVE  W[n+m] = P[n] + R[m]
<1>0. /\ \A k \in 0..n-1 : h[k] = g[k]
      /\ \A k \in 0..m-1 : h[n+k] = f[k] /\ f[k] \in Nat
  BY DEF Joined
<1>1. /\ \A k \in 0..n : P[k] \in Nat
      /\ P[0] = 0 /\ \A k \in 0..n-1 : P[k+1] = P[k] + g[k]
  BY PrefixStep
<1>2. /\ \A k \in 0..m : R[k] \in Nat
      /\ R[0] = 0 /\ \A k \in 0..m-1 : R[k+1] = R[k] + f[k]
  BY PrefixStep
<1> DEFINE l == n + m
<1>l. l \in Nat /\ l = n + m
  OBVIOUS
<1>3. /\ \A k \in 0..l : W[k] \in Nat
      /\ W[0] = 0 /\ \A k \in 0..l-1 : W[k+1] = W[k] + h[k]
  <2> HIDE DEF l
  <2> QED BY <1>l, PrefixStep
<1> HIDE DEF l
<1> DEFINE T == {k \in 0..n : W[k] = P[k]}
<1>4. 0 \in T
  BY <1>1, <1>3
<1>5. ASSUME NEW k \in 0..n, k \in T, k < n PROVE k + 1 \in T
  <2>1. k \in 0..n-1 /\ k \in 0..l-1 /\ k + 1 \in 0..n
    BY <1>5, <1>l
  <2>2. W[k+1] = P[k] + g[k] /\ P[k+1] = P[k] + g[k]
    BY <1>0, <1>1, <1>3, <1>5, <2>1
  <2> QED BY <2>1, <2>2
<1>6. \A k \in 0..n : k \in T
  <2> HIDE DEF T
  <2> QED BY <1>4, <1>5, UpToLength
<1>7. W[n] = P[n] /\ P[n] \in Nat
  BY <1>1, <1>6
<1> DEFINE U == {k \in 0..m : W[n+k] = P[n] + R[k]}
<1>8. 0 \in U
  <2>1. n + 0 = n /\ P[n] + 0 = P[n]
    BY <1>7
  <2> QED BY <1>2, <1>7, <2>1
<1>9. ASSUME NEW k \in 0..m, k \in U, k < m PROVE k + 1 \in U
  <2> DEFINE s == n + k
             p == P[n]
             x == f[k]
  <2>1. k \in 0..m-1 /\ s \in 0..l-1 /\ s \in 0..l /\ k + 1 \in 0..m /\ n + (k + 1) = s + 1
    BY <1>9, <1>l
  <2>2. W[s] = p + R[k] /\ h[s] = x /\ x \in Nat /\ p \in Nat
    BY <1>0, <1>7, <1>9, <2>1
  <2>3. R[k+1] = R[k] + x /\ R[k] \in Nat
    BY <1>2, <2>1
  <2> HIDE DEF s, p, x
  <2>4. W[s+1] = W[s] + h[s]
    BY <1>3, <2>1
  <2> DEFINE r == R[k]
  <2>5. W[s+1] = p + r + x /\ R[k+1] = r + x /\ r \in Nat
    BY <2>2, <2>3, <2>4
  <2> HIDE DEF r
  <2>6. W[s+1] = p + R[k+1]
    BY <2>2, <2>5
  <2> QED BY <2>1, <2>6 DEF p
<1>10. \A k \in 0..m : k \in U
  <2> HIDE DEF U
  <2> QED BY <1>8, <1>9, UpToLength
<1> QED BY <1>10

LEMMA JoinedAt ==
  ASSUME NEW b \in Seq(Byte), NEW d \in Seq(Byte)
  PROVE  /\ b \o d \in Seq(Byte) /\ Len(b \o d) = Len(b) + Len(d)
         /\ \A j \in 1..Len(b) : (b \o d)[j] = b[j]
         /\ \A j \in 1..Len(d) : (b \o d)[Len(b)+j] = d[j]
  OBVIOUS

(* An even number of bytes, and others: their words are the words of all. *)
LEMMA JoinWords ==
  ASSUME NEW b \in Seq(Byte), NEW d \in Seq(Byte), Len(b) % 2 = 0,
         NEW x, IsWordSum(x, b), NEW y, IsWordSum(y, d)
  PROVE  IsWordSum(x + y, b \o d)
<1> DEFINE e == b \o d
           n == (Len(b) + 1) \div 2
           m == (Len(d) + 1) \div 2
           l == (Len(e) + 1) \div 2
<1>1. /\ e \in Seq(Byte) /\ Len(e) = Len(b) + Len(d)
      /\ \A j \in 1..Len(b) : e[j] = b[j]
      /\ \A j \in 1..Len(d) : e[Len(b)+j] = d[j]
  BY JoinedAt
<1>2. Len(b) \in Nat /\ Len(d) \in Nat
  OBVIOUS
<1> HIDE DEF e
<1>3. n \in Nat /\ m \in Nat /\ 2 * n = Len(b) /\ l = n + m
  <2>1. \A j, k \in Nat : j % 2 = 0 => /\ 2 * ((j + 1) \div 2) = j
                                       /\ (j + k + 1) \div 2 = (j + 1) \div 2 + (k + 1) \div 2
    OBVIOUS
  <2>2. /\ 2 * n = Len(b)
        /\ (Len(b) + Len(d) + 1) \div 2 = n + m
    BY <1>2, <2>1
  <2> QED BY <1>1, <1>2, <2>2, Half
<1>4. PICK P : Prefix(P, HalfWords(b), n) /\ x = P[n]
  BY DEF IsWordSum
<1>5. PICK R : Prefix(R, HalfWords(d), m) /\ y = R[m]
  BY DEF IsWordSum
<1>6. PICK W : Prefix(W, HalfWords(e), l)
  <2>1. \A k \in 0..l-1 : HalfWords(e)[k] \in Nat
    BY <1>1, HalfAt, RadixSizes
  <2>2. l \in Nat
    BY <1>3
  <2> HIDE DEF l
  <2> QED BY <2>1, <2>2, PrefixExists
<1>7. ASSUME NEW k \in 0..n-1 PROVE HalfWords(e)[k] = HalfWords(b)[k]
  <2>1. k \in 0..l-1
    BY <1>3
  <2>2. 2 * k + 2 <= Len(b)
    <3> HIDE DEF n, m, l
    <3> QED BY <1>3
  <2>3. 2 * k + 2 <= Len(e) /\ 2 * k + 1 \in 1..Len(b) /\ 2 * k + 2 \in 1..Len(b)
    BY <2>2, <1>1, <1>2
  <2>4. HalfWords(e)[k] = e[2*k+1] * Radix + e[2*k+2]
    BY <1>1, <2>1, <2>3, HalfAt
  <2>5. HalfWords(b)[k] = b[2*k+1] * Radix + b[2*k+2]
    BY <2>2, HalfAt
  <2> QED BY <1>1, <2>3, <2>4, <2>5
<1>8. ASSUME NEW k \in 0..m-1
      PROVE  HalfWords(e)[n+k] = HalfWords(d)[k] /\ HalfWords(d)[k] \in Nat
  <2>0. HalfWords(d)[k] \in Nat /\ 2 * k + 1 <= Len(d)
    BY HalfAt, RadixSizes
  <2> DEFINE s == n + k
             u == 2 * k + 1
             v == 2 * k + 2
  <2>1. s \in 0..l-1
    <3> HIDE DEF n, m, l
    <3> QED BY <1>3
  <2>2. /\ 2 * s + 1 = Len(b) + u /\ 2 * s + 2 = Len(b) + v
        /\ u \in 1..Len(d) /\ v = u + 1
    <3> HIDE DEF n, m, l
    <3> QED BY <1>2, <1>3, <2>0
  <2>3. CASE v <= Len(d)
    <3>1. v \in 1..Len(d) /\ 2 * s + 2 <= Len(e)
      <4> HIDE DEF s, u, v
      <4> QED BY <2>2, <2>3, <1>1, <1>2
    <3>2. HalfWords(e)[s] = e[2*s+1] * Radix + e[2*s+2]
      <4> HIDE DEF s, u, v
      <4> QED BY <1>1, <2>1, <3>1, HalfAt
    <3>3. HalfWords(d)[k] = d[u] * Radix + d[v]
      BY <2>3, HalfAt
    <3> HIDE DEF s, u, v
    <3>4. e[2*s+1] = d[u] /\ e[2*s+2] = d[v]
      BY <1>1, <2>2, <3>1
    <3> QED BY <2>0, <3>2, <3>3, <3>4 DEF s
  <2>4. CASE ~(v <= Len(d))
    <3>1. u = Len(d) /\ 2 * s + 1 = Len(e)
      <4> HIDE DEF s, u, v
      <4>1. u = Len(d)
        BY <2>2, <2>4, <1>2
      <4>2. 2 * s + 1 = Len(b) + Len(d)
        BY <2>2, <4>1
      <4> QED BY <1>1, <4>1, <4>2
    <3>2. HalfWords(e)[s] = e[2*s+1] * Radix
      <4> HIDE DEF s, u, v
      <4> QED BY <1>1, <2>1, <3>1, HalfAt
    <3>3. HalfWords(d)[k] = d[u] * Radix
      BY <3>1, HalfAt
    <3> HIDE DEF s, u, v
    <3>4. e[2*s+1] = d[u]
      BY <1>1, <2>2
    <3> QED BY <2>0, <3>2, <3>3, <3>4 DEF s
  <2> QED BY <2>3, <2>4
<1> HIDE DEF n, m, l
<1>9. W[n+m] = P[n] + R[m]
  <2>1. Prefix(W, HalfWords(e), n + m)
    BY <1>3, <1>6
  <2> DEFINE g == HalfWords(b)
             f == HalfWords(d)
             h == HalfWords(e)
  <2>2. /\ \A k \in 0..n-1 : h[k] = g[k]
        /\ \A k \in 0..m-1 : h[n+k] = f[k] /\ f[k] \in Nat
        /\ Prefix(P, g, n) /\ Prefix(R, f, m) /\ Prefix(W, h, n + m)
        /\ n \in Nat /\ m \in Nat
    BY <1>3, <1>4, <1>5, <1>7, <1>8, <2>1
  <2>3. Joined(h, g, n, f, m)
    BY <2>2 DEF Joined
  <2> HIDE DEF g, f, h
  <2> QED BY <2>2, <2>3, PrefixJoin
<1>10. x + y = W[l]
  BY <1>3, <1>4, <1>5, <1>9
<1> QED BY <1>6, <1>10 DEF IsWordSum, l, e

(* A 32-bit word and its two halves. *)
LEMMA GroupIsTwoWords ==
  ASSUME NEW b \in Seq(Byte), NEW c \in 0 .. (Len(b) \div 4) - 1
  PROVE  /\ 2 * c \in 0 .. ((Len(b) + 1) \div 2) - 1
         /\ 2 * c + 1 \in 0 .. ((Len(b) + 1) \div 2) - 1
         /\ HalfWords(b)[2 * c] \in Nat /\ HalfWords(b)[2 * c + 1] \in Nat
         /\ Groups(b)[c] \in Nat
         /\ Same(Groups(b)[c], HalfWords(b)[2 * c] + HalfWords(b)[2 * c + 1])
<1> DEFINE N == (Len(b) + 1) \div 2
           k == 2 * c
           l == 2 * c + 1
           j == 4 * c
<1>1. /\ Groups(b)[c] = read_u32(b, j) /\ Groups(b)[c] \in Nat
      /\ j \in Nat /\ j + 4 <= Len(b)
  BY GroupsAt
<1>2. Len(b) \in Nat /\ N \in Nat /\ (2 * N = Len(b) \/ 2 * N = Len(b) + 1)
  BY Half
<1>3. k \in 0..N-1 /\ l \in 0..N-1 /\ 2 * k = j /\ 2 * l = j + 2 /\ c \in Nat
  <2>1. c \in Nat /\ j = 4 * c
    OBVIOUS
  <2> HIDE DEF N, j
  <2> QED BY <1>1, <1>2, <2>1
<1> HIDE DEF k, l, j
<1>4. HalfWords(b)[k] \in Nat /\ HalfWords(b)[k] = read_u16(b, j)
  <2>1. 2 * k + 2 <= Len(b)
    BY <1>1, <1>2, <1>3
  <2>2. HalfWords(b)[k] = b[2*k+1] * Radix + b[2*k+2] /\ HalfWords(b)[k] \in 0..U16-1
    BY <1>3, <2>1, HalfAt
  <2> QED BY <1>3, <2>2, RadixSizes DEF read_u16
<1>5. HalfWords(b)[l] \in Nat /\ HalfWords(b)[l] = read_u16(b, j + 2)
  <2>1. 2 * l + 2 <= Len(b)
    BY <1>1, <1>2, <1>3
  <2>2. HalfWords(b)[l] = b[2*l+1] * Radix + b[2*l+2] /\ HalfWords(b)[l] \in 0..U16-1
    BY <1>3, <2>1, HalfAt
  <2> QED BY <1>3, <2>2, RadixSizes DEF read_u16
<1>6. Same(read_u32(b, j), read_u16(b, j) + read_u16(b, j + 2))
  BY <1>1, WordsAt
<1> QED BY <1>1, <1>3, <1>4, <1>5, <1>6 DEF k, l

(* The end is the words that are left over. *)
LEMMA EndIsWords ==
  ASSUME NEW b \in Seq(Byte), NEW W, Prefix(W, HalfWords(b), (Len(b) + 1) \div 2)
  PROVE  /\ W[2 * (Len(b) \div 4)] \in Nat
         /\ W[(Len(b) + 1) \div 2] = W[2 * (Len(b) \div 4)] + EndOf(b)
<1> DEFINE N == (Len(b) + 1) \div 2
           m == 4 * (Len(b) \div 4)
           s == 2 * (Len(b) \div 4)
           e == EndOf(b)
           H == HalfWords(b)
<1>1. /\ Len(b) \in Nat /\ N \in Nat /\ s \in Nat /\ m = 2 * s /\ Len(b) - m \in 0..3
      /\ (2 * N = Len(b) \/ 2 * N = Len(b) + 1)
  BY Quarter, Half
<1>2. /\ Len(b) - m = 0 => e = 0
      /\ Len(b) - m = 1 => e = b[m+1] * Radix
      /\ Len(b) - m = 2 => e = b[m+1] * Radix + b[m+2]
      /\ Len(b) - m = 3 => e = b[m+1] * Radix + b[m+2] + b[m+3] * Radix
      /\ e \in Nat
  BY EndAt, EndBound
<1>3. /\ \A k \in 0..N : W[k] \in Nat
      /\ \A k \in 0..N-1 : W[k+1] = W[k] + H[k]
  <2> HIDE DEF N
  <2> QED BY <1>1, PrefixStep DEF N
<1>4. ASSUME NEW k \in 0..N-1
      PROVE  /\ H[k] \in Nat
             /\ 2 * k + 2 <= Len(b) => H[k] = b[2*k+1] * Radix + b[2*k+2]
             /\ 2 * k + 1 = Len(b) => H[k] = b[2*k+1] * Radix
  BY HalfAt, RadixSizes
<1> HIDE DEF N, m, s, e, H
<1>5. s \in 0..N
  BY <1>1
<1>6. W[s] \in Nat
  BY <1>3, <1>5
<1>7. W[N] = W[s] + e
  <2>1. CASE Len(b) - m = 0
    <3>1. N = s /\ e = 0
      BY <1>1, <1>2, <2>1
    <3> QED BY <1>6, <3>1
  <2>2. CASE Len(b) - m = 1
    <3>1. N = s + 1 /\ 2 * s + 1 = Len(b) /\ 2 * s + 1 = m + 1 /\ s \in 0..N-1
      BY <1>1, <2>2
    <3>2. H[s] = e
      BY <1>2, <1>4, <2>2, <3>1
    <3> QED BY <1>3, <3>1, <3>2
  <2>3. CASE Len(b) - m = 2
    <3>1. N = s + 1 /\ 2 * s + 2 <= Len(b) /\ 2 * s + 1 = m + 1 /\ 2 * s + 2 = m + 2
          /\ s \in 0..N-1
      BY <1>1, <2>3
    <3>2. H[s] = e
      BY <1>2, <1>4, <2>3, <3>1
    <3> QED BY <1>3, <3>1, <3>2
  <2>4. CASE Len(b) - m = 3
    <3> DEFINE t == s + 1
    <3>1. /\ N = t + 1 /\ 2 * s + 2 <= Len(b) /\ 2 * s + 1 = m + 1 /\ 2 * s + 2 = m + 2
          /\ s \in 0..N-1 /\ t \in 0..N-1 /\ 2 * t + 1 = Len(b) /\ 2 * t + 1 = m + 3
      BY <1>1, <2>4
    <3> DEFINE x == b[m+1] * Radix + b[m+2]
               y == b[m+3] * Radix
    <3>2. H[s] = x /\ x \in Nat
      BY <1>4, <3>1
    <3> HIDE DEF t
    <3>3. H[t] = y /\ y \in Nat
      BY <1>4, <3>1
    <3>4. e = x + y
      BY <1>2, <2>4
    <3>5. W[t] = W[s] + H[s] /\ W[N] = W[t] + H[t]
      BY <1>3, <3>1 DEF t
    <3> DEFINE w == W[s]
    <3>6. W[N] = w + x + y /\ w \in Nat
      BY <1>6, <3>2, <3>3, <3>5
    <3> HIDE DEF x, y, w
    <3>7. W[N] = w + (x + y)
      BY <3>2, <3>3, <3>6
    <3> QED BY <3>4, <3>7 DEF w
  <2> QED BY <1>1, <2>1, <2>2, <2>3, <2>4
<1> QED BY <1>6, <1>7 DEF N, s, e

(* The 32-bit sum is the 16-bit sum, but for multiples of U16 - 1. *)
LEMMA SumIsWordSum ==
  ASSUME NEW b \in Seq(Byte), NEW x, IsSum(x, b), NEW y, IsWordSum(y, b)
  PROVE  x \in Nat /\ y \in Nat /\ Same(x, y)
<1> DEFINE n == Len(b) \div 4
           N == (Len(b) + 1) \div 2
           G == Groups(b)
           H == HalfWords(b)
           e == EndOf(b)
<1>1. PICK Q : Prefix(Q, G, n) /\ x = Q[n] + e
  BY DEF IsSum
<1>2. PICK W : Prefix(W, H, N) /\ y = W[N]
  BY DEF IsWordSum
<1>3. Len(b) \in Nat /\ n \in Nat /\ N \in Nat /\ e \in Nat
  BY Quarter, Half, EndBound
<1>4. W[2 * n] \in Nat /\ y = W[2 * n] + e
  BY <1>2, EndIsWords
<1>5. \A c \in 0..n-1 : /\ 2 * c \in 0..N-1 /\ 2 * c + 1 \in 0..N-1
                        /\ H[2 * c] \in Nat /\ H[2 * c + 1] \in Nat /\ G[c] \in Nat
                        /\ Same(G[c], H[2 * c] + H[2 * c + 1])
  BY GroupIsTwoWords
<1> HIDE DEF n, N, G, H, e
<1>6. /\ \A k \in 0..n : Q[k] \in Nat
      /\ Q[0] = 0 /\ \A k \in 0..n-1 : Q[k+1] = Q[k] + G[k]
  BY <1>1, <1>3, PrefixStep
<1>7. /\ \A k \in 0..N : W[k] \in Nat
      /\ W[0] = 0 /\ \A k \in 0..N-1 : W[k+1] = W[k] + H[k]
  BY <1>2, <1>3, PrefixStep
<1> DEFINE T == {c \in 0..n : W[2 * c] \in Nat /\ Same(Q[c], W[2 * c])}
<1>8. 0 \in T
  <2>1. 0 \in 0..n /\ 2 * 0 = 0 /\ Same(0, 0)
    BY <1>3, SameRefl
  <2> QED BY <1>6, <1>7, <2>1
<1>9. ASSUME NEW c \in 0..n, c \in T, c < n PROVE c + 1 \in T
  <2> DEFINE k == 2 * c
             u == H[k]
             v == H[k+1]
             w == W[k]
             q == Q[c]
             g == G[c]
  <2>1. /\ c \in 0..n-1 /\ c + 1 \in 0..n /\ c \in 0..n /\ k \in Nat
        /\ 2 * (c + 1) = k + 2 /\ k + 1 + 1 = k + 2
    BY <1>3, <1>9
  <2>2. k \in 0..N-1 /\ k + 1 \in 0..N-1 /\ u \in Nat /\ v \in Nat /\ g \in Nat /\ Same(g, u + v)
    BY <1>5, <2>1
  <2>3. Q[c+1] = q + g /\ q \in Nat /\ w \in Nat /\ Same(q, w)
    BY <1>6, <1>9, <2>1
  <2> HIDE DEF k
  <2>4. W[k+1] = W[k] + H[k] /\ W[k+1+1] = W[k+1] + H[k+1]
    BY <1>7, <2>2
  <2>5. W[k+2] = w + u + v
    BY <2>1, <2>4
  <2> HIDE DEF u, v, w, q, g
  <2>6. u + v \in Nat /\ w + u + v = w + (u + v) /\ w + (u + v) \in Nat
    BY <2>2, <2>3
  <2>7. Same(q + g, w + (u + v))
    BY <2>2, <2>3, <2>6, SameAdd
  <2> QED BY <2>1, <2>3, <2>5, <2>6, <2>7
<1>10. \A c \in 0..n : c \in T
  <2> HIDE DEF T
  <2> QED BY <1>3, <1>8, <1>9, UpToLength
<1> DEFINE q == Q[n]
           w == W[2 * n]
<1>11. q \in Nat /\ w \in Nat /\ Same(q, w)
  <2>1. n \in 0..n
    BY <1>3
  <2> QED BY <1>6, <1>10, <2>1
<1>12. x = q + e /\ y = w + e
  BY <1>1, <1>4
<1> HIDE DEF q, w
<1>13. Same(e, e)
  BY <1>3, SameRefl
<1>14. Same(q + e, w + e)
  BY <1>3, <1>11, <1>13, SameAdd
<1> QED BY <1>3, <1>11, <1>12, <1>14

-----------------------------------------------------------------------------
(* Folding. *)

(* An end-around carry keeps a sum within 16 bits. *)
LEMMA AddCarry ==
  ASSUME NEW x \in 0..U16-1, NEW y \in 0..U16-1
  PROVE  LET sum == IF x + y >= U16 THEN x + y - U16 + 1 ELSE x + y
         IN  sum \in 0..U16-1 /\ Same(sum, x + y)
<1> DEFINE t == x + y
           z == IF t >= U16 THEN t - U16 + 1 ELSE t
<1>1. t \in Nat /\ U16 \in Nat /\ U16 >= 4 /\ t <= U16 + U16 - 2
  BY RadixSizes
<1>2. (t >= U16 => z = t - U16 + 1) /\ (~(t >= U16) => z = t)
  OBVIOUS
<1>3. z \in 0..U16-1 /\ Same(z, t)
  <2> HIDE DEF t, z
  <2>1. CASE t >= U16
    <3>1. t - U16 + 1 \in Nat /\ Same(t - U16 + 1, t)
      BY <1>1, <2>1, SameCarry
    <3>2. t - U16 + 1 \in 0..U16-1
      BY <1>1, <2>1
    <3> QED BY <1>2, <2>1, <3>1, <3>2
  <2>2. CASE ~(t >= U16)
    BY <1>1, <1>2, <2>2, SameRefl
  <2> QED BY <2>1, <2>2
<1>4. x + y - U16 + 1 = t - U16 + 1
  BY <1>1
<1> QED BY <1>3, <1>4

LEMMA ReferenceIsWordSum ==
  ASSUME NEW b \in Seq(Byte), NEW y, IsWordSum(y, b)
  PROVE  Reference(b) \in 0..U16-1 /\ Same(Reference(b), y)
<1> DEFINE N == (Len(b) + 1) \div 2
           V == 0..U16-1
           word(k) == b[2 * k - 1] * Radix + (IF 2 * k <= Len(b) THEN b[2 * k] ELSE 0)
           add(p, q) == IF p + q >= U16 THEN p + q - U16 + 1 ELSE p + q
           H == HalfWords(b)
           h == [p \in Nat \X V |-> IF p[1] \in 1..N THEN add(p[2], word(p[1])) ELSE 0]
<1>1. N \in Nat /\ U16 \in Nat /\ U16 >= 4 /\ 0 \in V
  BY Half, RadixSizes
<1>2. ASSUME NEW k \in 1..N PROVE word(k) = H[k-1] /\ word(k) \in V /\ k - 1 \in 0..N-1
  <2>1. k - 1 \in 0..N-1 /\ 2 * (k - 1) + 1 = 2 * k - 1 /\ 2 * (k - 1) + 2 = 2 * k
    BY <1>1
  <2> DEFINE j == k - 1
  <2>2. j \in 0 .. ((Len(b) + 1) \div 2) - 1 /\ 2 * j + 1 = 2 * k - 1 /\ 2 * j + 2 = 2 * k
    BY <2>1
  <2> HIDE DEF j
  <2>3. H[j] \in V
    BY <2>2, HalfAt
  <2>4. H[j] = word(k)
    BY <2>2 DEF HalfWords
  <2> QED BY <2>1, <2>3, <2>4 DEF j
<1>3. ASSUME NEW p \in V, NEW q \in V PROVE add(p, q) \in V /\ Same(add(p, q), p + q)
  BY AddCarry
<1> HIDE DEF word, add, H, N, V
<1>4. h \in [Nat \X V -> V]
  <2>1. ASSUME NEW k \in Nat, NEW p \in V
        PROVE  (IF k \in 1..N THEN add(p, word(k)) ELSE 0) \in V
    BY <1>1, <1>2, <1>3
  <2> QED BY <2>1
<1>5. \A k \in 1..N : \A p \in V : h[<<k, p>>] = add(p, word(k))
  <2>1. 1..N \subseteq Nat
    BY <1>1
  <2> QED BY <2>1
<1> HIDE DEF h
<1>6. PICK F : Steps(F, V, 0, h, N)
  BY <1>1, <1>4, Recursion
<1>7. ASSUME NEW k \in 1..N PROVE F[k] = add(F[k-1], word(k))
  <2>1. k - 1 \in 0..N
    BY <1>1
  <2>2. F[k-1] \in V
    BY <1>6, <2>1 DEF Steps
  <2> QED BY <1>5, <1>6, <2>2 DEF Steps
<1>8. F = [k \in 0..N |-> IF k = 0 THEN 0 ELSE add(F[k-1], word(k))]
  <2>1. ASSUME NEW k \in 0..N
        PROVE  F[k] = IF k = 0 THEN 0 ELSE add(F[k-1], word(k))
    <3>1. CASE k = 0
      BY <1>6, <3>1 DEF Steps
    <3>2. CASE k # 0
      <4>1. k \in 1..N
        BY <1>1, <3>2
      <4> QED BY <1>7, <3>2, <4>1
    <3> QED BY <3>1, <3>2
  <2>2. F = [k \in 0..N |-> F[k]]
    BY <1>6 DEF Steps
  <2> QED BY <2>1, <2>2, Zenon
<1> DEFINE S == CHOOSE f : f = [k \in 0..N |-> IF k = 0 THEN 0 ELSE add(f[k-1], word(k))]
<1>9. S = [k \in 0..N |-> IF k = 0 THEN 0 ELSE add(S[k-1], word(k))]
  BY <1>8, Zenon
<1>10. Reference(b) = S[N]
  BY DEF Reference, N, add, word
<1> HIDE DEF S
<1>11. PICK W : Prefix(W, H, N) /\ y = W[N]
  BY DEF IsWordSum, H, N
<1>12. /\ \A k \in 0..N : W[k] \in Nat
       /\ W[0] = 0 /\ \A k \in 0..N-1 : W[k+1] = W[k] + H[k]
  BY <1>1, <1>11, PrefixStep
<1> DEFINE T == {k \in 0..N : S[k] \in V /\ Same(S[k], W[k])}
<1>13. 0 \in T
  <2>1. 0 \in 0..N /\ S[0] = 0
    BY <1>1, <1>9
  <2> QED BY <1>1, <1>12, <2>1, SameRefl
<1>14. ASSUME NEW k \in 0..N, k \in T, k < N PROVE k + 1 \in T
  <2> DEFINE j == k + 1
             p == S[k]
             q == word(j)
             w == W[k]
  <2>1. j \in 1..N /\ j \in 0..N /\ j # 0 /\ j - 1 = k /\ k \in 0..N-1
    BY <1>1, <1>14
  <2>2. p \in V /\ Same(p, w) /\ w \in Nat
    BY <1>12, <1>14
  <2>3. W[j] = w + H[k]
    BY <1>12, <2>1
  <2> HIDE DEF j
  <2>4. q = H[k] /\ q \in V
    BY <1>2, <2>1
  <2>5. S[j] = add(p, q)
    BY <1>9, <2>1
  <2> HIDE DEF p, q, w
  <2>6. add(p, q) \in V /\ Same(add(p, q), p + q)
    BY <1>3, <2>2, <2>4
  <2>7. /\ p \in Nat /\ q \in Nat /\ p + q \in Nat /\ w + q \in Nat /\ add(p, q) \in Nat
        /\ Same(q, q)
    <3>1. V \subseteq Nat
      BY <1>1 DEF V
    <3>2. p \in Nat /\ q \in Nat /\ add(p, q) \in Nat
      BY <2>2, <2>4, <2>6, <3>1
    <3> QED BY <2>2, <3>2, SameRefl
  <2>8. Same(p + q, w + q)
    BY <2>2, <2>7, SameAdd
  <2>9. Same(add(p, q), w + q)
    <3> DEFINE r == add(p, q)
               s == p + q
               t == w + q
    <3>1. r \in Nat /\ s \in Nat /\ t \in Nat /\ Same(r, s) /\ Same(s, t)
      BY <2>6, <2>7, <2>8
    <3> HIDE DEF r, s, t
    <3>2. Same(r, t)
      BY <3>1, SameTrans
    <3> QED BY <3>2 DEF r, t
  <2>10. j \in T
    BY <2>1, <2>3, <2>4, <2>5, <2>6, <2>9
  <2> QED BY <2>10 DEF j
<1>15. \A k \in 0..N : k \in T
  <2> HIDE DEF T
  <2> QED BY <1>1, <1>13, <1>14, UpToLength
<1>16. S[N] \in V /\ Same(S[N], W[N])
  <2>1. N \in 0..N
    BY <1>1
  <2> QED BY <1>15, <2>1
<1> QED BY <1>10, <1>11, <1>16 DEF V

(* One round: the high and the low part are added if there is a high one. *)
Round(x) == IF x < U16 THEN x ELSE (x \div U16) + (x % U16)

LEMMA RoundIsSame ==
  ASSUME NEW x \in Nat
  PROVE  /\ Round(x) \in Nat /\ Same(Round(x), x)
         /\ x < U16 => Round(x) = x
         /\ x = U16 => Round(x) = 1
<1>0. U16 \in Nat /\ U16 >= 4
  BY RadixSizes
<1> DEFINE p == x \div U16
           q == x % U16
<1>1. p \in Nat /\ q \in Nat /\ q < U16 /\ x = U16 * p + q
  BY <1>0, DivMod
<1>2. Round(x) = IF x < U16 THEN x ELSE p + q
  BY DEF Round
<1> HIDE DEF p, q
<1>3. CASE x < U16
  <2>1. Same(x, x) /\ x # U16
    BY <1>0, <1>3, SameRefl
  <2> QED BY <1>2, <1>3, <2>1
<1>4. CASE ~(x < U16)
  <2>1. p * U16 + q \in Nat /\ Same(p * U16 + q, p + q)
    BY <1>1, SameHalves
  <2>2. p * U16 = U16 * p
    BY <1>0, <1>1, Z3
  <2>3. Same(p + q, x)
    <3>1. p + q \in Nat /\ Same(x, p + q)
      BY <1>1, <2>1, <2>2
    <3> DEFINE s == p + q
    <3>2. s \in Nat /\ Same(x, s)
      BY <3>1
    <3> HIDE DEF s
    <3>3. Same(s, x)
      BY <3>2, SameSym
    <3> QED BY <3>3 DEF s
  <2>4. x = U16 => p + q = 1
    <3>1. ASSUME x = U16 PROVE p = 1 /\ q = 0
      <4>1. U16 * (1 - p) = q /\ U16 * (p - 1) = -q
        BY <1>0, <1>1, <3>1, Z3
      <4>2. 1 - p = 0
        <5>1. U16 * (1 - p) < U16 /\ U16 * (1 - p) > -U16 /\ U16 > 0 /\ 1 - p \in Int
          BY <1>0, <1>1, <4>1
        <5> DEFINE m == 1 - p
        <5>2. U16 * m < U16 /\ U16 * m > -U16 /\ m \in Int
          BY <5>1
        <5> HIDE DEF m
        <5>3. m = 0
          BY <1>0, <5>2, NoMultiple
        <5> QED BY <5>3 DEF m
      <4>3. p = 1
        BY <1>1, <4>2
      <4>4. U16 * (1 - p) = 0
        BY <1>0, <4>3
      <4> QED BY <4>1, <4>3, <4>4
    <3> QED BY <3>1
  <2> QED BY <1>1, <1>2, <1>4, <2>3, <2>4
<1> QED BY <1>3, <1>4

(* A round makes it smaller by nearly 16 bits. *)
LEMMA RoundBound ==
  ASSUME NEW x \in Nat, NEW B \in Nat, B > 0, x < U16 * B
  PROVE  Round(x) \in Nat /\ Round(x) <= (B - 1) + (U16 - 1)
<1>0. U16 \in Nat /\ U16 >= 4
  BY RadixSizes
<1> DEFINE p == x \div U16
           q == x % U16
<1>1. p \in Nat /\ q \in Nat /\ q < U16 /\ x = U16 * p + q
  BY <1>0, DivMod
<1>2. Round(x) = IF x < U16 THEN x ELSE p + q
  BY DEF Round
<1> HIDE DEF p, q
<1>3. p <= B - 1
  <2>1. ASSUME p >= B PROVE FALSE
    <3>1. U16 * p >= U16 * B /\ U16 * p \in Nat /\ U16 * B \in Nat
      BY <1>0, <1>1, <2>1, Z3
    <3> QED BY <1>1, <3>1
  <2> QED BY <1>1, <2>1
<1> QED BY <1>0, <1>1, <1>2, <1>3, RoundIsSame

(* Five rounds bring 64 bits down to 16. *)
LEMMA FiveRounds ==
  ASSUME NEW a \in Nat, a < U64
  PROVE  Round(Round(Round(Round(Round(a))))) \in 0..U16-1
<1> DEFINE w == U16 * U16
<1>0. U16 \in Nat /\ U16 >= 4 /\ w \in Nat /\ U64 = w * w
  BY RadixSizes
<1>1. a < U16 * (U16 * w) /\ U16 * w \in Nat /\ U16 * w > 0
  <2>1. w * w = U16 * (U16 * w)
    BY <1>0, Z3
  <2>2. w > 0
    BY <1>0, Z3
  <2> HIDE DEF w
  <2>3. U16 * w \in Nat /\ U16 * w > 0
    BY <1>0, <2>2, Z3
  <2> QED BY <1>0, <2>1, <2>3
<1> DEFINE b == Round(a)
           c == Round(b)
           d == Round(c)
           e == Round(d)
<1>2. b \in Nat /\ b < U16 * (w + 1) /\ w + 1 \in Nat /\ w + 1 > 0
  <2> DEFINE B == U16 * w
  <2>1. B \in Nat /\ B > 0 /\ a < U16 * B
    BY <1>1
  <2> HIDE DEF B
  <2>2. Round(a) \in Nat /\ Round(a) <= (B - 1) + (U16 - 1)
    BY <2>1, RoundBound
  <2> HIDE DEF w
  <2>3. U16 * (w + 1) = B + U16
    BY <1>0, Z3 DEF B
  <2> QED BY <1>0, <2>1, <2>2, <2>3
<1>3. c \in Nat /\ c < U16 * (U16 + 1)
  <2> HIDE DEF w, b
  <2> DEFINE B == w + 1
  <2>1. B \in Nat /\ B > 0 /\ b < U16 * B
    BY <1>2
  <2> HIDE DEF B
  <2>2. c \in Nat /\ c <= (B - 1) + (U16 - 1)
    BY <1>2, <2>1, RoundBound
  <2>3. U16 * (U16 + 1) = w + U16
    BY <1>0, Z3 DEF w
  <2> QED BY <1>0, <2>2, <2>3 DEF B
<1>4. d \in Nat /\ d < U16 * 2
  <2> HIDE DEF w, b, c
  <2> DEFINE B == U16 + 1
  <2>1. B \in Nat /\ B > 0 /\ c < U16 * B
    BY <1>0, <1>3
  <2> HIDE DEF B
  <2>2. d \in Nat /\ d <= (B - 1) + (U16 - 1)
    BY <1>3, <2>1, RoundBound
  <2> QED BY <1>0, <2>2 DEF B
<1>5. e \in Nat /\ e <= U16
  <2> HIDE DEF w, b, c, d
  <2>1. e \in Nat /\ e <= (2 - 1) + (U16 - 1)
    BY <1>4, RoundBound
  <2> QED BY <1>0, <2>1
<1> HIDE DEF w, b, c, d, e
<1>6. Round(e) \in 0..U16-1
  <2>1. CASE e = U16
    BY <1>0, <1>5, <2>1, RoundIsSame
  <2>2. CASE e # U16
    <3>1. e < U16
      BY <1>0, <1>5, <2>2
    <3> QED BY <1>0, <1>5, <3>1, RoundIsSame
  <2> QED BY <2>1, <2>2
<1> QED BY <1>6 DEF e, d, c, b

(* So eight rounds leave the sum in 16 bits. *)
LEMMA ChecksumFolds ==
  ASSUME NEW cpu, NEW b, NEW a, NEW v \in 0..U64-1, v = checksum_no_fold(cpu, b, a)
  PROVE  checksum(cpu, b, a) \in 0..U16-1 /\ Same(checksum(cpu, b, a), v)
<1> DEFINE h == [p \in Nat \X Nat |-> Round(p[2])]
<1>0. v \in Nat /\ v < U64 /\ U16 \in Nat /\ U16 >= 4
  BY RadixSizes
<1>1. h \in [Nat \X Nat -> Nat] /\ \A k, x \in Nat : h[<<k, x>>] = Round(x)
  <2>1. \A x \in Nat : Round(x) \in Nat
    BY RoundIsSame
  <2> QED BY <2>1
<1> HIDE DEF h
<1>2. PICK F : Steps(F, Nat, v, h, 8)
  BY <1>0, <1>1, Recursion
<1>3. ASSUME NEW k \in 1..8 PROVE F[k] = Round(F[k-1])
  <2>1. k - 1 \in 0..8 /\ k \in Nat
    OBVIOUS
  <2>2. F[k-1] \in Nat
    BY <1>2, <2>1 DEF Steps
  <2> QED BY <1>1, <1>2, <2>1, <2>2 DEF Steps
<1>4. F = [k \in 0..8 |-> IF k = 0 THEN v ELSE Round(F[k-1])]
  <2>1. ASSUME NEW k \in 0..8
        PROVE  F[k] = IF k = 0 THEN v ELSE Round(F[k-1])
    BY <1>2, <1>3 DEF Steps
  <2>2. F = [k \in 0..8 |-> F[k]]
    BY <1>2 DEF Steps
  <2> QED BY <2>1, <2>2, Zenon
<1> DEFINE S == CHOOSE f : f = [k \in 0..8 |-> IF k = 0 THEN v ELSE Round(f[k-1])]
<1>5. S = [k \in 0..8 |-> IF k = 0 THEN v ELSE Round(S[k-1])]
  BY <1>4, Zenon
<1>6. checksum(cpu, b, a) = S[8] % U16
  BY DEF checksum, Round
<1> HIDE DEF S
<1>7. S[0] = v /\ \A k \in 1..8 : S[k] = Round(S[k-1])
  BY <1>5
<1> DEFINE T == {k \in 0..8 : S[k] \in Nat /\ Same(S[k], v)}
<1>8. 0 \in T
  BY <1>0, <1>7, SameRefl
<1>9. ASSUME NEW k \in 0..8, k \in T, k < 8 PROVE k + 1 \in T
  <2> DEFINE j == k + 1
             x == S[k]
  <2>1. j \in 1..8 /\ j - 1 = k /\ j \in 0..8
    BY <1>9
  <2>2. x \in Nat /\ Same(x, v)
    BY <1>9
  <2> HIDE DEF j
  <2>3. S[j] = Round(x)
    BY <1>7, <2>1
  <2> HIDE DEF x
  <2>4. Round(x) \in Nat /\ Same(Round(x), x)
    BY <2>2, RoundIsSame
  <2>5. Same(Round(x), v)
    <3> DEFINE r == Round(x)
    <3>1. r \in Nat /\ Same(r, x)
      BY <2>4
    <3> HIDE DEF r
    <3>2. Same(r, v)
      BY <1>0, <2>2, <3>1, SameTrans
    <3> QED BY <3>2 DEF r
  <2>6. j \in T
    BY <2>1, <2>3, <2>4, <2>5
  <2> QED BY <2>6 DEF j
<1>10. \A k \in 0..8 : k \in T
  <2> HIDE DEF T
  <2> QED BY <1>8, <1>9, UpToLength
<1>11. S[5] \in 0..U16-1
  <2>1. /\ S[1] = Round(S[0]) /\ S[2] = Round(S[1]) /\ S[3] = Round(S[2])
        /\ S[4] = Round(S[3]) /\ S[5] = Round(S[4])
    BY <1>7
  <2>2. Round(Round(Round(Round(Round(v))))) \in 0..U16-1
    BY <1>0, FiveRounds
  <2> QED BY <1>7, <2>1, <2>2
<1>12. \A x \in 0..U16-1 : Round(x) = x
  BY <1>0, RoundIsSame
<1>13. S[8] \in 0..U16-1
  <2>1. S[6] = Round(S[5]) /\ S[7] = Round(S[6]) /\ S[8] = Round(S[7])
    BY <1>7
  <2> QED BY <1>11, <1>12, <2>1
<1> DEFINE s == S[8]
<1>14. s \in 0..U16-1 /\ Same(s, v)
  BY <1>10, <1>13
<1> HIDE DEF s
<1>15. s % U16 = s
  BY <1>0, <1>14
<1> QED BY <1>6, <1>14, <1>15 DEF s

-----------------------------------------------------------------------------
(* In one row. *)

(* Without an overflow the sum is exact. *)
LEMMA AddsUp ==
  ASSUME NEW b \in Seq(Byte), NEW x, IsSum(x, b), NEW a \in Nat, NEW cpu \in Cpu,
         a + x < U64
  PROVE  checksum_no_fold(cpu, b, a) = a + x
<1>1. x \in Nat /\ checksum_no_fold(cpu, b, a) = (a + x) % U64
  BY NoFoldIsSum
<1> DEFINE s == a + x
<1>2. s \in Nat /\ s < U64 /\ U64 \in Nat
  BY <1>1, RadixSizes
<1> HIDE DEF s
<1>3. s % U64 = s
  BY <1>2
<1> QED BY <1>1, <1>3 DEF s

LEMMA EvenSum ==
  ASSUME NEW j \in Nat, NEW k \in Nat, j % 2 = 0, k % 2 = 0
  PROVE  (j + k) % 2 = 0
<1>1. j = 2 * (j \div 2) /\ k = 2 * (k \div 2) /\ j \div 2 \in Nat /\ k \div 2 \in Nat
  OBVIOUS
<1> DEFINE m == j \div 2
           n == k \div 2
<1>2. j + k = 2 * (m + n) /\ m + n \in Nat
  BY <1>1
<1>3. \A l \in Nat : (2 * l) % 2 = 0
  OBVIOUS
<1> HIDE DEF m, n
<1> QED BY <1>2, <1>3

(* Four pieces, three of which have whole words. *)
LEMMA PiecesInOneRow ==
  ASSUME NEW src \in Seq(Byte), NEW dst \in Seq(Byte), NEW fields \in Seq(Byte),
         NEW data \in Seq(Byte), NEW cpu \in Cpu,
         Len(src) % 2 = 0, Len(dst) % 2 = 0, Len(fields) = 4,
         Len(src) + Len(dst) + 4 + Len(data) < U16 * U16
  PROVE  checksum(cpu, data, checksum_no_fold(cpu, fields,
                               checksum_no_fold(cpu, dst, checksum_no_fold(cpu, src, 0))))
           = Reference(src \o dst \o fields \o data)
<1> DEFINE w == U16 * U16
           m1 == Len(src)
           m2 == Len(dst)
           m4 == Len(data)
<1>1. m1 \in Nat /\ m2 \in Nat /\ m4 \in Nat /\ w \in Nat /\ U64 = w * w /\ U64 \in Nat
  <2>1. m1 \in Nat /\ m2 \in Nat /\ m4 \in Nat
    OBVIOUS
  <2>2. w \in Nat /\ U64 = w * w /\ U64 \in Nat
    BY RadixSizes
  <2> QED BY <2>1, <2>2
<1>2. PICK x1 \in Nat : IsSum(x1, src)
  BY SumExists
<1>3. PICK x2 \in Nat : IsSum(x2, dst)
  BY SumExists
<1>4. PICK x3 \in Nat : IsSum(x3, fields)
  BY SumExists
<1>5. PICK x4 \in Nat : IsSum(x4, data)
  BY SumExists
<1>6. x1 <= w * m1 /\ x2 <= w * m2 /\ x3 <= w * 4 /\ x4 <= w * m4
  BY <1>2, <1>3, <1>4, <1>5, SumBound
<1>7. m1 + m2 + 4 + m4 < w
  OBVIOUS
<1> HIDE DEF w, m1, m2, m4
<1>8. x1 + x2 + x3 + x4 < U64
  <2>1. w * m1 + w * m2 + w * 4 + w * m4 = w * (m1 + m2 + 4 + m4)
    BY <1>1, Z3
  <2> DEFINE m == m1 + m2 + 4 + m4
  <2>2. m \in Nat /\ m <= w - 1
    BY <1>1, <1>7
  <2> HIDE DEF m
  <2>3. w * m <= w * (w - 1) /\ w * (w - 1) = w * w - w /\ w * m \in Nat
    BY <1>1, <2>2, Z3
  <2>4. w > 0
    BY <1>1, <1>7
  <2>5. w * m < U64
    <3> DEFINE q == w * w
               p == w * m
               r == w * (w - 1)
    <3>1. p <= r /\ r = q - w /\ p \in Nat /\ U64 = q
      BY <1>1, <2>3
    <3> HIDE DEF p, q, r
    <3>2. p < U64
      BY <1>1, <2>4, <3>1
    <3> QED BY <3>2 DEF p
  <2> DEFINE k1 == w * m1
             k2 == w * m2
             k3 == w * 4
             k4 == w * m4
  <2>6. k1 \in Nat /\ k2 \in Nat /\ k3 \in Nat /\ k4 \in Nat
    BY <1>1, Z3
  <2>7. k1 + k2 + k3 + k4 < U64 /\ x1 <= k1 /\ x2 <= k2 /\ x3 <= k3 /\ x4 <= k4
    BY <1>6, <2>1, <2>5 DEF m
  <2> HIDE DEF k1, k2, k3, k4
  <2> QED BY <1>1, <2>6, <2>7
<1> DEFINE s1 == checksum_no_fold(cpu, src, 0)
           s2 == checksum_no_fold(cpu, dst, s1)
           s3 == checksum_no_fold(cpu, fields, s2)
           s4 == checksum_no_fold(cpu, data, s3)
<1>9. s1 = x1
  <2>1. 0 + x1 = x1 /\ 0 + x1 < U64 /\ 0 \in Nat
    BY <1>1, <1>8
  <2> QED BY <1>2, <2>1, AddsUp
<1>10. s2 = x1 + x2
  <2> HIDE DEF s1
  <2>1. s1 + x2 = x1 + x2 /\ s1 + x2 < U64 /\ s1 \in Nat
    BY <1>1, <1>8, <1>9
  <2> QED BY <1>3, <2>1, AddsUp
<1>11. s3 = x1 + x2 + x3
  <2> HIDE DEF s2
  <2>1. s2 + x3 = x1 + x2 + x3 /\ s2 + x3 < U64 /\ s2 \in Nat
    BY <1>1, <1>8, <1>10
  <2> QED BY <1>4, <2>1, AddsUp
<1>12. s4 = x1 + x2 + x3 + x4
  <2> HIDE DEF s3
  <2>1. s3 + x4 = x1 + x2 + x3 + x4 /\ s3 + x4 < U64 /\ s3 \in Nat
    BY <1>1, <1>8, <1>11
  <2> QED BY <1>5, <2>1, AddsUp
<1>13. PICK y1 \in Nat : IsWordSum(y1, src)
  BY WordSumExists
<1>14. PICK y2 \in Nat : IsWordSum(y2, dst)
  BY WordSumExists
<1>15. PICK y3 \in Nat : IsWordSum(y3, fields)
  BY WordSumExists
<1>16. PICK y4 \in Nat : IsWordSum(y4, data)
  BY WordSumExists
<1>17. Same(x1, y1) /\ Same(x2, y2) /\ Same(x3, y3) /\ Same(x4, y4)
  BY <1>2, <1>3, <1>4, <1>5, <1>13, <1>14, <1>15, <1>16, SumIsWordSum
<1>18. Same(x1 + x2 + x3 + x4, y1 + y2 + y3 + y4)
  <2>1. Same(x1 + x2, y1 + y2) /\ x1 + x2 \in Nat /\ y1 + y2 \in Nat
    BY <1>17, SameAdd
  <2>2. Same(x1 + x2 + x3, y1 + y2 + y3) /\ x1 + x2 + x3 \in Nat /\ y1 + y2 + y3 \in Nat
    BY <1>17, <2>1, SameAdd
  <2> QED BY <1>17, <2>2, SameAdd
<1> DEFINE row2 == src \o dst
           row3 == row2 \o fields
           row4 == row3 \o data
<1>19. /\ row2 \in Seq(Byte) /\ Len(row2) \in Nat /\ Len(row2) % 2 = 0
       /\ IsWordSum(y1 + y2, row2)
  <2>1. row2 \in Seq(Byte) /\ Len(row2) = Len(src) + Len(dst)
    BY JoinedAt
  <2>2. IsWordSum(y1 + y2, row2)
    BY <1>13, <1>14, JoinWords
  <2> HIDE DEF row2
  <2>3. Len(src) \in Nat /\ Len(dst) \in Nat
    OBVIOUS
  <2>4. Len(row2) \in Nat /\ Len(row2) % 2 = 0
    <3> DEFINE j == Len(src)
               k == Len(dst)
    <3>1. j \in Nat /\ k \in Nat /\ j % 2 = 0 /\ k % 2 = 0 /\ Len(row2) = j + k
      BY <2>1, <2>3
    <3> HIDE DEF j, k
    <3>2. (j + k) % 2 = 0
      BY <3>1, EvenSum, Zenon
    <3>3. j + k \in Nat
      BY <3>1
    <3> QED BY <3>1, <3>2, <3>3
  <2> QED BY <2>1, <2>2, <2>4
<1>20. /\ row3 \in Seq(Byte) /\ Len(row3) % 2 = 0 /\ IsWordSum(y1 + y2 + y3, row3)
  <2> HIDE DEF row2
  <2>1. row3 \in Seq(Byte) /\ Len(row3) = Len(row2) + Len(fields)
    BY <1>19, JoinedAt
  <2>2. IsWordSum(y1 + y2 + y3, row3)
    BY <1>15, <1>19, JoinWords
  <2> HIDE DEF row3
  <2>3. Len(row3) % 2 = 0
    <3>1. 4 % 2 = 0
      OBVIOUS
    <3> DEFINE j == Len(row2)
    <3>2. j \in Nat /\ j % 2 = 0 /\ Len(row3) = j + 4
      BY <1>19, <2>1
    <3> HIDE DEF j
    <3>3. (j + 4) % 2 = 0
      BY <3>1, <3>2, EvenSum
    <3> QED BY <3>2, <3>3
  <2> QED BY <2>1, <2>2, <2>3
<1>21. row4 \in Seq(Byte) /\ IsWordSum(y1 + y2 + y3 + y4, row4)
  <2> HIDE DEF row3
  <2> QED BY <1>16, <1>20, JoinedAt, JoinWords
<1> HIDE DEF s1, s2, s3, s4, row2, row3, row4
<1> DEFINE x == x1 + x2 + x3 + x4
           y == y1 + y2 + y3 + y4
           l == checksum(cpu, data, s3)
           r == Reference(row4)
<1>22. x \in 0..U64-1 /\ x = checksum_no_fold(cpu, data, s3) /\ x \in Nat /\ y \in Nat
       /\ Same(x, y) /\ IsWordSum(y, row4)
  BY <1>1, <1>8, <1>12, <1>18, <1>21 DEF s4
<1> HIDE DEF x, y
<1>23. l \in 0..U16-1 /\ Same(l, x)
  BY <1>22, ChecksumFolds
<1>24. r \in 0..U16-1 /\ Same(r, y)
  BY <1>21, <1>22, ReferenceIsWordSum
<1> HIDE DEF l, r
<1>25. l = r
  <2>1. l \in Nat /\ r \in Nat
    BY <1>23, <1>24, RadixSizes
  <2>2. Same(l, y)
    BY <1>22, <1>23, <2>1, SameTrans
  <2>3. Same(y, r)
    BY <1>22, <1>24, <2>1, SameSym
  <2>4. Same(l, r)
    BY <1>22, <2>1, <2>2, <2>3, SameTrans
  <2> QED BY <1>23, <1>24, <2>4, SameIsEqual
<1> QED BY <1>25 DEF l, r, s1, s2, s3, row2, row3, row4

LEMMA SumsAlwaysAgree == SumsAgree
<1> SUFFICES ASSUME NEW c \in ChecksumCase, NEW cpu \in Cpu
    PROVE LET total_len == Len(c.data) % U16
              initial == pseudo_header_checksum_no_fold(cpu, c.protocol, c.src, c.dst, total_len)
          IN  checksum(cpu, c.data, initial) = Reference(Row(c, total_len))
  BY DEF SumsAgree
<1> DEFINE t == Len(c.data) % U16
           p == t \div Radix
           q == t % Radix
           fields == <<0, c.protocol, p, q>>
           src == c.src
           dst == c.dst
           data == c.data
<1>1. /\ src \in Seq(Byte) /\ dst \in Seq(Byte) /\ data \in Seq(Byte) /\ c.protocol \in Byte
      /\ Len(src) % 2 = 0 /\ Len(dst) % 2 = 0
      /\ Len(src) + Len(dst) + 4 + Len(data) < U16 * U16
  BY CaseAssumption
<1>2. t \in Nat /\ t < U16
  <2>1. Len(data) \in Nat /\ U16 \in Nat /\ U16 > 0
    BY <1>1, RadixSizes
  <2> QED BY <2>1, DivMod
<1>3. p \in Byte /\ q \in Byte /\ 0 \in Byte
  <2> HIDE DEF t
  <2>1. /\ p \in Nat /\ q \in Nat /\ q < Radix /\ t = Radix * p + q
        /\ Radix \in Nat /\ Radix >= 2
    BY <1>2, RadixSizes, DivMod
  <2> HIDE DEF p, q
  <2>2. ~(p >= Radix)
    <3>1. ASSUME p >= Radix PROVE FALSE
      <4>1. Radix * p >= Radix * Radix /\ Radix * p \in Nat /\ Radix * Radix \in Nat
        BY <2>1, <3>1, Z3
      <4>2. t < Radix * Radix
        BY <1>2 DEF U16
      <4> QED BY <1>2, <2>1, <4>1, <4>2
    <3> QED BY <3>1
  <2> QED BY <2>1, <2>2 DEF Byte
<1>4. fields \in Seq(Byte) /\ Len(fields) = 4
  BY <1>1, <1>3
<1>5. pseudo_header_checksum_no_fold(cpu, c.protocol, src, dst, t)
        = checksum_no_fold(cpu, fields, checksum_no_fold(cpu, dst, checksum_no_fold(cpu, src, 0)))
  BY DEF pseudo_header_checksum_no_fold
<1>6. Row(c, t) = src \o dst \o fields \o data
  BY DEF Row
<1> HIDE DEF t, src, dst, data, fields
<1>7. checksum(cpu, data, pseudo_header_checksum_no_fold(cpu, c.protocol, src, dst, t))
        = Reference(Row(c, t))
  BY <1>1, <1>4, <1>5, <1>6, PiecesInOneRow
<1> QED BY <1>7 DEF t, src, dst, data

(* checksum and checksum_no_fold: for every Radix and every ChecksumCase, all *)
(* versions of the sum over a pseudo-header and data, reduced and folded as   *)
(* in the code, give the RFC 1071 sum of all the bytes in one row; so what    *)
(* the runs evaluate holds in every state.                                    *)
THEOREM ChecksumsAreExact == SumsAgree /\ (Spec => []ChecksumExact)
<1>1. ChecksumExact
  BY SumsAlwaysAgree DEF ChecksumExact
<1>2. Spec => []ChecksumExact
  BY <1>1, PTL
<1> QED BY <1>2, SumsAlwaysAgree
=============================================================================
