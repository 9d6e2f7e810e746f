----------------------------- MODULE UnixAsync -----------------------------
(***************************************************************************)
(* The asynchronous device of the Unix systems: the poll_*, awaiting and   *)
(* try_* operations of AsyncDevice (src/async_device/unix/mod.rs and       *)
(* tokio.rs) over one non-blocking descriptor, and the framing of a packet *)
(* on the systems whose packets carry an address family                    *)
(* (src/platform/unix/tun.rs, fd.rs).                                      *)
(*                                                                         *)
(* tokio's AsyncFd is external.  For each direction it keeps whether the   *)
(* descriptor is ready, which only an event of the kernel sets, and a tick *)
(* that counts these events: an attempt that finds nothing clears the      *)
(* readiness it had seen, not a newer one.  The kernel reports a change    *)
(* once, so readiness that is cleared wrongly never comes back.            *)
(***************************************************************************)
EXTENDS Integers, Sequences, SequencesExt

CONSTANTS Task,        \* the tasks that share the device
          Op,          \* the operations they may call
          Packet,      \* the packets the kernel may have for the program
          MaxIov,      \* max_iov()
          TxCap,       \* frames the kernel takes before it refuses
          MaxPackets,  \* packets that arrive
          MaxOps       \* operations called, set_ignore_packet_info included

ASSUME SizesAssumption ==
  /\ MaxIov \in Nat \ {0} /\ TxCap \in Nat \ {0} /\ MaxPackets \in Nat /\ MaxOps \in Nat
  /\ \A o \in Op : o.dir \in {"recv", "send"} /\ o.form \in {"poll", "await", "try"}

\* What is received goes into buffers of some capacities, what is sent comes from buffers
\* of bytes.
ASSUME BytesAssumption ==
  /\ Packet \subseteq Seq(Nat)
  /\ \A o \in Op : o.bufs \in IF o.dir = "recv" THEN Seq(Nat) ELSE Seq(Seq(Nat))

VARIABLES pi,       \* do packets carry an address family? (FreeBSD, macOS)
          ignore,   \* Tun::ignore_packet_information
          rx, tx,   \* the kernel's queues of frames
          ready,    \* AsyncFd: readiness of each direction
          event,    \* the kernel has something to report
          th,       \* the operation each task is in
          packets, ops

vars == <<pi, ignore, rx, tx, ready, event, th, packets, ops>>

Dir == {"recv", "send"}

(***************************************************************************)
(* Framing.  A frame is a sequence of bytes; the header takes PIL of them. *)
(***************************************************************************)

PIL == 2
AF_INET == 2
AF_INET6 == 28

\* The first nibble of a packet is its first byte here; -1 is InvalidData.
is_ipv6(buf) ==
  IF buf = <<>> THEN -1 ELSE IF Head(buf) = 4 THEN 0 ELSE IF Head(buf) = 6 THEN 1 ELSE -1

generate_packet_information(ipv6) == <<0, IF ipv6 = 1 THEN AF_INET6 ELSE AF_INET>>

Ok(n, data) == [status |-> "ok", n |-> n, data |-> data]
Err(e) == [status |-> e, n |-> 0, data |-> <<>>]

\* What buffers of these capacities hold.
Total(caps) ==
  LET sum[n \in 0 .. Len(caps)] == IF n = 0 THEN 0 ELSE sum[n - 1] + caps[n]
  IN  sum[Len(caps)]

\* read and readv take one frame, and what does not fit is lost.
Taken(caps) == SubSeq(Head(rx), 1, IF Total(caps) < Len(Head(rx)) THEN Total(caps)
                                                                  ELSE Len(Head(rx)))
readv(caps) ==
  IF Len(caps) > MaxIov THEN Err("InvalidInput")
  ELSE IF rx = <<>> THEN Err("WouldBlock")
  ELSE Ok(Len(Taken(caps)), Taken(caps))

writev(bufs) ==
  IF Len(bufs) > MaxIov THEN Err("InvalidInput")
  ELSE IF Len(tx) >= TxCap THEN Err("WouldBlock")
  ELSE Ok(Len(FlattenSeq(bufs)), FlattenSeq(bufs))

saturating_sub(a, b) == IF a < b THEN 0 ELSE a - b

\* recv is recv_vectored of one buffer.
recv_vectored(caps) ==
  IF pi /\ ignore THEN
    IF MaxIov - 1 < Len(caps) THEN Err("InvalidInput")
    ELSE LET r == readv(<<PIL>> \o caps) IN
         IF r.status # "ok" THEN r
         ELSE Ok(saturating_sub(r.n, PIL), SubSeq(r.data, PIL + 1, r.n))
  ELSE readv(caps)

\* Mutant: the family is that of the first buffer, empty or not.
first_buffer(bufs) == IF bufs = <<>> THEN <<>> ELSE Head(bufs)

\* The first buffer that has a byte in it.
first_nonempty(bufs) ==
  LET k == SelectInSeq(bufs, LAMBDA b : b # <<>>) IN IF k = 0 THEN <<>> ELSE bufs[k]

\* send is send_vectored of one buffer.
send_vectored(bufs) ==
  IF pi /\ ignore THEN
    IF MaxIov - 1 < Len(bufs) THEN Err("InvalidInput")
    ELSE IF is_ipv6(first_nonempty(bufs)) = -1 THEN Err("InvalidData")
    ELSE LET head == generate_packet_information(is_ipv6(first_nonempty(bufs)))
             r == writev(<<head>> \o bufs)
         IN  IF r.status # "ok" THEN r ELSE [r EXCEPT !.n = saturating_sub(@, PIL)]
  ELSE writev(bufs)

Attempt(o) == IF o.dir = "recv" THEN recv_vectored(o.bufs) ELSE send_vectored(o.bufs)

(***************************************************************************)
(* State.                                                                  *)
(***************************************************************************)

NoOp == [dir |-> "recv", form |-> "try", io |-> FALSE, bufs |-> <<>>]

\* current: the readiness the task has seen is the newest.
IdleTask == [phase |-> "idle", op |-> NoOp, current |-> FALSE]

Busy(t, d) == th[t].phase # "idle" /\ th[t].op.dir = d

\* TokioAsyncFd::new on a device that was set to non-blocking: there is room to write.
Init ==
  /\ pi \in BOOLEAN /\ ignore \in (IF pi THEN BOOLEAN ELSE {TRUE})
  /\ rx = <<>> /\ tx = <<>>
  /\ ready = [d \in Dir |-> FALSE] /\ event = [d \in Dir |-> d = "send"]
  /\ th = [t \in Task |-> IdleTask]
  /\ packets = 0 /\ ops = 0

(***************************************************************************)
(* Operations.                                                             *)
(***************************************************************************)

Begin(t, o) ==
  /\ th[t].phase = "idle" /\ ops < MaxOps
  /\ ops' = ops + 1
  /\ th' = [th EXCEPT ![t] = [IdleTask EXCEPT !.phase = "check", !.op = o]]
  /\ UNCHANGED <<pi, ignore, rx, tx, ready, event, packets>>

\* A task whose waker takes the place of u's in the slot of its direction.
Displaces(t, u) ==
  /\ t # u /\ th[u].phase = "parked" /\ th[u].op.dir = th[t].op.dir
  /\ th[t].op.form = "poll" /\ th[u].op.form = "poll"

\* poll_read_ready, readiness, and the first half of try_io: the readiness, or a waker
\* left behind.  poll_readable and readable want no more than that.
Check(t) ==
  LET o == th[t].op IN
  /\ th[t].phase = "check"
  /\ th' = [u \in Task |->
              IF u = t THEN
                IF ready[o.dir] THEN
                  IF o.io THEN [th[t] EXCEPT !.phase = "io", !.current = TRUE]
                  ELSE IdleTask
                ELSE IF o.form = "try" THEN IdleTask
                ELSE [th[t] EXCEPT !.phase = "parked"]
              ELSE IF ~ready[o.dir] /\ Displaces(t, u) THEN [th[u] EXCEPT !.phase = "displaced"]
              ELSE th[u]]
  /\ UNCHANGED <<pi, ignore, rx, tx, ready, event, packets, ops>>

\* Mutant: the readiness is used up by every attempt.
AttemptClears(t, r) == [th[t] EXCEPT !.phase = "clear"]

\* An attempt that found nothing clears what it saw, any other one returns its result.
AfterAttempt(t, r) ==
  IF r.status = "WouldBlock" THEN [th[t] EXCEPT !.phase = "clear"] ELSE IdleTask

\* The closure: the packet info flag is read again in every attempt.
Io(t) ==
  LET o == th[t].op
      r == Attempt(o)
  IN
  /\ th[t].phase = "io"
  /\ rx' = IF o.dir = "recv" /\ r.status = "ok" THEN Tail(rx) ELSE rx
  /\ tx' = IF o.dir = "send" /\ r.status = "ok" THEN Append(tx, r.data) ELSE tx
  /\ th' = [th EXCEPT ![t] = AfterAttempt(t, r)]
  /\ UNCHANGED <<pi, ignore, ready, event, packets, ops>>

\* Mutant: WouldBlock is answered with Pending right away.
ParkAfterClear(t) ==
  IF th[t].op.form = "try" THEN IdleTask
  ELSE [th[t] EXCEPT !.phase = "asleep", !.current = FALSE]

\* try_* returns WouldBlock; poll_* and the others go round again (`continue`).
AfterClear(t) ==
  IF th[t].op.form = "try" THEN IdleTask
  ELSE [th[t] EXCEPT !.phase = "check", !.current = FALSE]

\* clear_readiness: if the tick is still the one that Check saw.
Clear(t) ==
  /\ th[t].phase = "clear"
  /\ ready' = IF th[t].current THEN [ready EXCEPT ![th[t].op.dir] = FALSE] ELSE ready
  /\ th' = [th EXCEPT ![t] = AfterClear(t)]
  /\ UNCHANGED <<pi, ignore, rx, tx, event, packets, ops>>

\* The caller stops polling, or drops the future.
Cancel(t) ==
  /\ th[t].phase \in {"check", "parked", "displaced"} /\ th[t].op.form # "try"
  /\ th' = [th EXCEPT ![t] = IdleTask]
  /\ UNCHANGED <<pi, ignore, rx, tx, ready, event, packets, ops>>

\* The executor polls a task for some other reason.
Repoll(t) ==
  /\ th[t].phase \in {"parked", "displaced"}
  /\ th' = [th EXCEPT ![t].phase = "check"]
  /\ UNCHANGED <<pi, ignore, rx, tx, ready, event, packets, ops>>

set_ignore_packet_info(ign) ==
  /\ pi /\ ops < MaxOps /\ ign # ignore
  /\ ops' = ops + 1 /\ ignore' = ign
  /\ UNCHANGED <<pi, rx, tx, ready, event, th, packets>>

(***************************************************************************)
(* tokio's driver and the kernel.                                          *)
(***************************************************************************)

\* The driver takes the event, counts a tick and wakes whoever waits.
Dispatch(d) ==
  /\ event[d]
  /\ event' = [event EXCEPT ![d] = FALSE] /\ ready' = [ready EXCEPT ![d] = TRUE]
  /\ th' = [t \in Task |->
              IF ~Busy(t, d) THEN th[t]
              ELSE [th[t] EXCEPT !.current = FALSE,
                                 !.phase = IF @ = "parked" THEN "check" ELSE @]]
  /\ UNCHANGED <<pi, ignore, rx, tx, packets, ops>>

\* On the systems that have one, the kernel puts the header there.
Frame(p) == (IF pi THEN generate_packet_information(is_ipv6(p)) ELSE <<>>) \o p

Arrive(p) ==
  /\ packets < MaxPackets
  /\ packets' = packets + 1
  /\ rx' = Append(rx, Frame(p)) /\ event' = [event EXCEPT !["recv"] = TRUE]
  /\ UNCHANGED <<pi, ignore, tx, ready, th, ops>>

\* Room in a full queue is reported.
Drain ==
  /\ tx # <<>>
  /\ tx' = Tail(tx)
  /\ event' = IF Len(tx) >= TxCap THEN [event EXCEPT !["send"] = TRUE] ELSE event
  /\ UNCHANGED <<pi, ignore, rx, ready, th, packets, ops>>

Step(t) == Check(t) \/ Io(t) \/ Clear(t)

Next ==
  \/ \E t \in Task : (\E o \in Op : Begin(t, o)) \/ Step(t) \/ Cancel(t) \/ Repoll(t)
  \/ \E ign \in BOOLEAN : set_ignore_packet_info(ign)
  \/ \E d \in Dir : Dispatch(d)
  \/ \E p \in Packet : Arrive(p)
  \/ Drain

\* The executor runs the tasks that were woken, the driver runs, and the kernel takes
\* what was written to it.  Nobody has to call, to cancel or to send a packet.
Fairness ==
  /\ \A t \in Task : WF_vars(Step(t))
  /\ \A d \in Dir : WF_vars(Dispatch(d))
  /\ WF_vars(Drain)

Spec == Init /\ [][Next]_vars /\ Fairness

(***************************************************************************)
(* Properties.                                                             *)
(***************************************************************************)

\* Readiness is never lost.  While the kernel has a packet, or room for one, the device is
\* marked ready or an event is on its way: whatever attempts of several tasks, arrivals
\* and wakeups interleave, no clearing hides a packet (poll_recv, poll_send, read_with,
\* write_with, try_read_io, try_write_io).
NoLostReadiness ==
  /\ rx # <<>> => ready["recv"] \/ event["recv"]
  /\ Len(tx) < TxCap => ready["send"] \/ event["send"]

\* In an operation, and not a task whose waker a later poll has replaced ("only the Waker
\* from the Context passed to the most recent call will be scheduled to receive a wakeup").
Waits(t, d) == Busy(t, d) /\ th[t].phase # "displaced"

\* Nobody sleeps beside a packet: while a receiver waits, the packets get read, unless all
\* receivers give up.  And every send comes to an end, since the kernel makes room.
IoCompletes ==
  /\ (rx # <<>> /\ \E t \in Task : Waits(t, "recv"))
       ~> (rx = <<>> \/ \A t \in Task : ~Waits(t, "recv"))
  /\ \A t \in Task : Waits(t, "send") ~> ~Waits(t, "send")

\* What the kernel makes of a frame it is given, and of the packets it gave.
Family(f) == IF f[PIL] = AF_INET6 THEN 6 ELSE 4
Body(f) == IF pi THEN SubSeq(f, PIL + 1, Len(f)) ELSE f
Hidden == IF pi /\ ignore THEN 1 ELSE 0
Valid(b) == b # <<>> /\ Head(b) \in {4, 6}

\* send counts and delivers the caller's bytes, in one frame of the right family, and
\* refuses only what is no packet or has too many buffers.
SendFramed(o, r, bytes) ==
  /\ r.status = "ok" =>
       /\ r.n = Len(bytes)
       /\ Len(tx') = Len(tx) + 1
       /\ IF Hidden = 1 THEN Body(Last(tx')) = bytes /\ Family(Last(tx')) = Head(bytes)
          ELSE Last(tx') = bytes
  /\ r.status = "InvalidData" => Hidden = 1 /\ ~Valid(bytes)
  /\ r.status = "InvalidInput" => Len(o.bufs) + Hidden > MaxIov

\* recv delivers a prefix of one packet, as much of it as the buffers hold; with
\* packet_information it delivers the header as well.
RecvFramed(o, r) ==
  /\ r.status = "ok" =>
       LET whole == IF Hidden = 1 THEN Body(Head(rx)) ELSE Head(rx) IN
       /\ rx' = Tail(rx)
       /\ IsPrefix(r.data, whole) /\ r.n = Len(r.data)
       /\ r.n = Len(whole) \/ r.n = Total(o.bufs)
  /\ r.status = "InvalidInput" => Len(o.bufs) + Hidden > MaxIov
  /\ r.status # "InvalidData"

\* Every attempt that ends an operation frames the packet as said above, whether or not
\* another task has just switched the packet information on or off.
Framed ==
  [][\A t \in Task :
       th[t].phase = "io" /\ th'[t].phase = "idle"
         => LET o == th[t].op
                r == Attempt(o)
            IN  IF o.dir = "recv" THEN RecvFramed(o, r)
                ELSE SendFramed(o, r, FlattenSeq(o.bufs))]_vars
=============================================================================
