-------------------------- MODULE UnixAsyncProofs --------------------------
(***************************************************************************)
(* Proofs about the asynchronous device of the Unix systems, for any       *)
(* tasks, operations, packets and queue lengths: readiness is never lost,  *)
(* and every packet is framed.                                             *)
(*                                                                         *)
(* The first is not inductive: clearing the readiness is harmless only because  *)
(* of what the task that clears it saw before.  ClearInv says what it      *)
(* still knows: the direction was blocked when its attempt failed, and if  *)
(* it no longer is, an event says so, or a newer tick keeps it from        *)
(* clearing.                                                               *)
(*                                                                         *)
(* The second is about buffers of any number: FlattenSeq and Total are     *)
(* recursive functions, whose values are followed from one buffer to the   *)
(* next by UpToLength.                                                     *)
(***************************************************************************)
EXTENDS UnixAsync, WellFoundedInduction, SequenceTheorems, TLAPS

(* Nothing to read, or no room to write. *)
Blocked(d) == IF d = "recv" THEN rx = <<>> ELSE ~(Len(tx) < TxCap)

(* The variables that readiness is about.  What a frame consists of does   *)
(* not matter.                                                             *)
Phase == {"idle", "check", "io", "clear", "parked", "displaced"}

ShapeInv ==
  /\ \E S : rx \in Seq(S)
  /\ \E S : tx \in Seq(S)
  /\ ready \in [Dir -> BOOLEAN] /\ event \in [Dir -> BOOLEAN]
  /\ th \in [Task -> [phase : Phase, op : Op \cup {NoOp}, current : BOOLEAN]]

(* A task that is about to clear the readiness of its direction. *)
WillClear(t) == th[t].phase = "clear" /\ th[t].current

ClearInv ==
  \A t \in Task : WillClear(t) => Blocked(th[t].op.dir) \/ event[th[t].op.dir]

IInv == ShapeInv /\ ClearInv /\ NoLostReadiness

-----------------------------------------------------------------------------
(* Queues. *)

(* A queue stays one when a frame is added, and gets longer. *)
LEMMA AppendQueue ==
  ASSUME NEW q, \E S : q \in Seq(S), NEW e
  PROVE  /\ \E S : Append(q, e) \in Seq(S)
         /\ Len(q) \in Nat /\ Len(Append(q, e)) = Len(q) + 1
<1>1. PICK S : q \in Seq(S)
  OBVIOUS
<1>2. q \in Seq(S \cup {e}) /\ e \in S \cup {e}
  BY <1>1
<1>3. Append(q, e) \in Seq(S \cup {e}) /\ Len(Append(q, e)) = Len(q) + 1
  BY <1>2
<1> QED BY <1>2, <1>3

(* And when one is taken off. *)
LEMMA TailQueue ==
  ASSUME NEW q, \E S : q \in Seq(S), q # <<>>
  PROVE  /\ \E S : Tail(q) \in Seq(S)
         /\ Len(q) \in Nat /\ Len(Tail(q)) = Len(q) - 1
  OBVIOUS

(* The direction of an operation. *)
LEMMA OpDir ==
  ASSUME NEW o \in Op \cup {NoOp} PROVE o.dir \in Dir
  BY SizesAssumption DEF NoOp, Dir

(* An attempt to receive gets nothing from an empty queue. *)
LEMMA EmptyTakesNothing ==
  ASSUME NEW o, rx = <<>>, o.dir = "recv" PROVE Attempt(o).status # "ok"
<1>1. \A caps : readv(caps).status # "ok"
  BY DEF readv, Err, Ok
<1>2. recv_vectored(o.bufs).status # "ok"
  BY <1>1 DEF recv_vectored, Err, Ok
<1> QED BY <1>2 DEF Attempt

(* An attempt says WouldBlock only if its direction is blocked. *)
LEMMA WouldBlockIsBlocked ==
  ASSUME ShapeInv, NEW o, o.dir \in Dir, Attempt(o).status = "WouldBlock"
  PROVE  Blocked(o.dir)
<1>1. CASE o.dir = "recv"
  <2>1. ASSUME NEW caps, readv(caps).status = "WouldBlock" PROVE rx = <<>>
    BY <2>1 DEF readv, Err, Ok
  <2>2. recv_vectored(o.bufs).status = "WouldBlock"
    BY <1>1 DEF Attempt
  <2>3. \E caps : readv(caps).status = "WouldBlock"
    BY <2>2 DEF recv_vectored, Err, Ok
  <2> QED BY <1>1, <2>1, <2>3 DEF Blocked
<1>2. CASE o.dir = "send"
  <2>1. ASSUME NEW bufs, writev(bufs).status = "WouldBlock" PROVE Len(tx) >= TxCap
    BY <2>1 DEF writev, Err, Ok
  <2>2. send_vectored(o.bufs).status = "WouldBlock"
    BY <1>2 DEF Attempt
  <2>3. \E bufs : writev(bufs).status = "WouldBlock"
    BY <2>2 DEF send_vectored, Err, Ok
  <2>4. Len(tx) \in Nat
    BY DEF ShapeInv
  <2>5. ~(Len(tx) < TxCap)
    BY <2>1, <2>3, <2>4, SizesAssumption
  <2> QED BY <1>2, <2>5 DEF Blocked
<1> QED BY <1>1, <1>2 DEF Dir

-----------------------------------------------------------------------------
(* One lemma per part of the invariant, one step per action. *)

(* The shape of the state is kept by every step. *)
LEMMA ShapeStep ==
  ASSUME IInv, [Next]_vars PROVE ShapeInv'
<1> USE DEF IInv, ShapeInv, IdleTask, Phase
<1>1. ASSUME NEW t \in Task, NEW o \in Op, Begin(t, o) PROVE ShapeInv'
  BY <1>1 DEF Begin
<1>2. ASSUME NEW t \in Task, Check(t) PROVE ShapeInv'
  BY <1>2 DEF Check
<1>3. ASSUME NEW t \in Task, Io(t) PROVE ShapeInv'
  <2>1. \E S : rx' \in Seq(S)
    <3>1. rx' = rx \/ rx' = Tail(rx)
      BY <1>3 DEF Io
    <3>2. CASE rx # <<>>
      <4>1. \E S : Tail(rx) \in Seq(S)
        BY <3>2, TailQueue
      <4> QED BY <3>1, <4>1
    <3>3. CASE rx = <<>>
      BY <1>3, <3>3, EmptyTakesNothing DEF Io
    <3> QED BY <3>2, <3>3
  <2>2. \E S : tx' \in Seq(S)
    <3>1. tx' = tx \/ tx' = Append(tx, Attempt(th[t].op).data)
      BY <1>3 DEF Io
    <3>2. \E S : Append(tx, Attempt(th[t].op).data) \in Seq(S)
      BY AppendQueue
    <3> QED BY <3>1, <3>2
  <2>3. th' = [th EXCEPT ![t] = AfterAttempt(t, Attempt(th[t].op))]
    BY <1>3 DEF Io
  <2>4. AfterAttempt(t, Attempt(th[t].op)) \in
          [phase : Phase, op : Op \cup {NoOp}, current : BOOLEAN]
    BY DEF AfterAttempt
  <2>5. UNCHANGED <<ready, event>>
    BY <1>3 DEF Io
  <2> QED BY <2>1, <2>2, <2>3, <2>4, <2>5
<1>4. ASSUME NEW t \in Task, Clear(t) PROVE ShapeInv'
  <2>1. ready' \in [Dir -> BOOLEAN]
    BY <1>4 DEF Clear
  <2>2. AfterClear(t) \in [phase : Phase, op : Op \cup {NoOp}, current : BOOLEAN]
    BY DEF AfterClear
  <2>3. th' = [th EXCEPT ![t] = AfterClear(t)] /\ UNCHANGED <<rx, tx, event>>
    BY <1>4 DEF Clear
  <2> QED BY <2>1, <2>2, <2>3
<1>5. ASSUME NEW t \in Task, Cancel(t) PROVE ShapeInv'
  BY <1>5 DEF Cancel
<1>6. ASSUME NEW t \in Task, Repoll(t) PROVE ShapeInv'
  BY <1>6 DEF Repoll
<1>7. ASSUME NEW ign \in BOOLEAN, set_ignore_packet_info(ign) PROVE ShapeInv'
  BY <1>7 DEF set_ignore_packet_info
<1>8. ASSUME NEW d \in Dir, Dispatch(d) PROVE ShapeInv'
  BY <1>8 DEF Dispatch
<1>9. ASSUME NEW p \in Packet, Arrive(p) PROVE ShapeInv'
  <2>1. \E S : rx' \in Seq(S)
    BY <1>9, AppendQueue DEF Arrive
  <2> QED BY <1>9, <2>1 DEF Arrive
<1>10. CASE Drain
  <2>1. \E S : tx' \in Seq(S)
    BY <1>10, TailQueue DEF Drain
  <2> QED BY <1>10, <2>1 DEF Drain
<1>11. CASE UNCHANGED vars
  BY <1>11 DEF vars
<1> QED BY <1>1, <1>2, <1>3, <1>4, <1>5, <1>6, <1>7, <1>8, <1>9, <1>10, <1>11
        DEF Next, Step

(* Readiness and events of the other direction are not touched, and a     *)
(* direction that is blocked only stops being so with an event.            *)
LEMMA ClearStep ==
  ASSUME IInv, [Next]_vars PROVE ClearInv'
<1> USE DEF IInv, ShapeInv, IdleTask
<1> SUFFICES ASSUME NEW u \in Task, WillClear(u)'
             PROVE  Blocked(th[u].op.dir)' \/ event'[th'[u].op.dir]
  BY DEF ClearInv
<1>0. /\ \A v \in Task : th[v].op.dir \in Dir
      /\ th'[u].op.dir \in Dir
  BY OpDir, ShapeStep
<1>q. Len(tx) \in Nat
  OBVIOUS
<1>s. ASSUME th'[u] = th[u], UNCHANGED <<rx, tx, event>>
      PROVE  Blocked(th[u].op.dir)' \/ event'[th'[u].op.dir]
  BY <1>s DEF ClearInv, WillClear, Blocked
<1>1. ASSUME NEW t \in Task, NEW o \in Op, Begin(t, o)
      PROVE  Blocked(th[u].op.dir)' \/ event'[th'[u].op.dir]
  <2>1. th'[u] = th[u] /\ UNCHANGED <<rx, tx, event>>
    BY <1>1 DEF Begin, WillClear
  <2> QED BY <2>1, <1>s
<1>2. ASSUME NEW t \in Task, Check(t)
      PROVE  Blocked(th[u].op.dir)' \/ event'[th'[u].op.dir]
  <2>1. th'[u] = th[u] /\ UNCHANGED <<rx, tx, event>>
    BY <1>2 DEF Check, WillClear
  <2> QED BY <2>1, <1>s
<1>3. ASSUME NEW t \in Task, Io(t)
      PROVE  Blocked(th[u].op.dir)' \/ event'[th'[u].op.dir]
  <2>1. UNCHANGED event /\ th' = [th EXCEPT ![t] = AfterAttempt(t, Attempt(th[t].op))]
    BY <1>3 DEF Io
  <2>2. CASE u = t
    <3>1. Attempt(th[t].op).status = "WouldBlock" /\ th'[u].op = th[u].op
      BY <2>1, <2>2 DEF AfterAttempt, WillClear
    <3>2. Blocked(th[t].op.dir)
      BY <3>1, <1>0, WouldBlockIsBlocked
    <3>3. UNCHANGED <<rx, tx>>
      BY <1>3, <3>1 DEF Io
    <3> QED BY <2>2, <3>1, <3>2, <3>3 DEF Blocked
  <2>3. CASE u # t
    <3>1. th'[u] = th[u]
      BY <2>1, <2>3
    <3>2. Blocked(th[u].op.dir) \/ event[th[u].op.dir]
      BY <3>1 DEF ClearInv, WillClear
    <3>3. rx = <<>> => rx' = rx
      BY <1>3, EmptyTakesNothing DEF Io
    <3>4. Len(tx') \in Nat /\ Len(tx') >= Len(tx)
      <4>1. tx' = tx \/ tx' = Append(tx, Attempt(th[t].op).data)
        BY <1>3 DEF Io
      <4> QED BY <4>1, <1>q, AppendQueue
    <3>5. Blocked(th[u].op.dir) => Blocked(th[u].op.dir)'
      BY <3>1, <3>3, <3>4, <1>q, SizesAssumption DEF Blocked
    <3> QED BY <3>1, <3>2, <3>5, <2>1
  <2> QED BY <2>2, <2>3
<1>4. ASSUME NEW t \in Task, Clear(t)
      PROVE  Blocked(th[u].op.dir)' \/ event'[th'[u].op.dir]
  <2>1. th'[u] = th[u] /\ UNCHANGED <<rx, tx, event>>
    BY <1>4 DEF Clear, AfterClear, WillClear
  <2> QED BY <2>1, <1>s
<1>5. ASSUME NEW t \in Task, Cancel(t) \/ Repoll(t)
      PROVE  Blocked(th[u].op.dir)' \/ event'[th'[u].op.dir]
  <2>1. th'[u] = th[u] /\ UNCHANGED <<rx, tx, event>>
    BY <1>5 DEF Cancel, Repoll, WillClear
  <2> QED BY <2>1, <1>s
<1>7. ASSUME NEW ign \in BOOLEAN, set_ignore_packet_info(ign)
      PROVE  Blocked(th[u].op.dir)' \/ event'[th'[u].op.dir]
  BY <1>7, <1>s DEF set_ignore_packet_info
<1>8. ASSUME NEW d \in Dir, Dispatch(d)
      PROVE  Blocked(th[u].op.dir)' \/ event'[th'[u].op.dir]
  <2>1. th'[u] = th[u] /\ th[u].op.dir # d
    BY <1>8 DEF Dispatch, Busy, WillClear
  <2>2. event' = [event EXCEPT ![d] = FALSE] /\ UNCHANGED <<rx, tx>>
    BY <1>8 DEF Dispatch
  <2>3. event'[th[u].op.dir] = event[th[u].op.dir]
    BY <2>1, <2>2, <1>0
  <2> QED BY <2>1, <2>2, <2>3 DEF ClearInv, WillClear, Blocked
<1>9. ASSUME NEW p \in Packet, Arrive(p)
      PROVE  Blocked(th[u].op.dir)' \/ event'[th'[u].op.dir]
  <2>1. th'[u] = th[u] /\ tx' = tx /\ event' = [event EXCEPT !["recv"] = TRUE]
    BY <1>9 DEF Arrive
  <2>2. CASE th[u].op.dir = "recv"
    BY <2>1, <2>2 DEF Dir
  <2>3. CASE th[u].op.dir # "recv"
    BY <2>1, <2>3, <1>0 DEF ClearInv, WillClear, Blocked
  <2> QED BY <2>2, <2>3
<1>10. CASE Drain
  <2>1. th' = th /\ rx' = rx /\ Len(tx') \in Nat /\ Len(tx') = Len(tx) - 1
    BY <1>10, TailQueue DEF Drain
  <2>2. CASE Len(tx) >= TxCap
    BY <1>10, <2>1, <2>2, <1>0 DEF Drain, ClearInv, WillClear, Blocked, Dir
  <2>3. CASE ~(Len(tx) >= TxCap)
    <3>1. event' = event
      BY <1>10, <2>3 DEF Drain
    <3>2. Len(tx) < TxCap
      BY <2>3, <1>q, SizesAssumption
    <3> QED BY <2>1, <3>1, <3>2, <1>0 DEF ClearInv, WillClear, Blocked, Dir
  <2> QED BY <2>2, <2>3
<1>11. CASE UNCHANGED vars
  BY <1>11, <1>s DEF vars
<1> QED BY <1>1, <1>2, <1>3, <1>4, <1>5, <1>7, <1>8, <1>9, <1>10, <1>11
        DEF Next, Step

(* Readiness, and what a task still knows when it clears it, are kept.     *)
LEMMA ReadinessStep ==
  ASSUME IInv, [Next]_vars PROVE NoLostReadiness'
<1> USE DEF IInv, ShapeInv, NoLostReadiness
<1>q. Len(tx) \in Nat
  OBVIOUS
<1>s. ASSUME UNCHANGED <<rx, tx, ready, event>> PROVE NoLostReadiness'
  BY <1>s
<1>1. ASSUME NEW t \in Task, NEW o \in Op, Begin(t, o) PROVE NoLostReadiness'
  BY <1>1, <1>s DEF Begin
<1>2. ASSUME NEW t \in Task, Check(t) PROVE NoLostReadiness'
  BY <1>2, <1>s DEF Check
<1>3. ASSUME NEW t \in Task, Io(t) PROVE NoLostReadiness'
  <2>1. rx = <<>> => rx' = rx
    BY <1>3, EmptyTakesNothing DEF Io
  <2>2. Len(tx') \in Nat /\ Len(tx') >= Len(tx)
    <3>1. tx' = tx \/ tx' = Append(tx, Attempt(th[t].op).data)
      BY <1>3 DEF Io
    <3> QED BY <3>1, <1>q, AppendQueue
  <2>3. UNCHANGED <<ready, event>>
    BY <1>3 DEF Io
  <2> QED BY <2>1, <2>2, <2>3, <1>q, SizesAssumption
<1>4. ASSUME NEW t \in Task, Clear(t) PROVE NoLostReadiness'
  <2>1. UNCHANGED <<rx, tx, event>>
    BY <1>4 DEF Clear
  <2>2. CASE th[t].current
    <3>1. ready' = [ready EXCEPT ![th[t].op.dir] = FALSE]
      BY <1>4, <2>2 DEF Clear
    <3>2. Blocked(th[t].op.dir) \/ event[th[t].op.dir]
      BY <1>4, <2>2 DEF ClearInv, WillClear, Clear
    <3>3. th[t].op.dir \in Dir
      BY OpDir
    <3> QED BY <2>1, <3>1, <3>2, <3>3 DEF Blocked, Dir
  <2>3. CASE ~th[t].current
    BY <1>4, <1>s, <2>3 DEF Clear
  <2> QED BY <2>2, <2>3
<1>5. ASSUME NEW t \in Task, Cancel(t) \/ Repoll(t) PROVE NoLostReadiness'
  BY <1>5, <1>s DEF Cancel, Repoll
<1>7. ASSUME NEW ign \in BOOLEAN, set_ignore_packet_info(ign) PROVE NoLostReadiness'
  BY <1>7, <1>s DEF set_ignore_packet_info
<1>8. ASSUME NEW d \in Dir, Dispatch(d) PROVE NoLostReadiness'
  BY <1>8 DEF Dispatch, Dir
<1>9. ASSUME NEW p \in Packet, Arrive(p) PROVE NoLostReadiness'
  BY <1>9 DEF Arrive, Dir
<1>10. CASE Drain
  <2>1. UNCHANGED <<rx, ready>>
    BY <1>10 DEF Drain
  <2>2. CASE Len(tx) >= TxCap
    BY <1>10, <2>1, <2>2 DEF Drain, Dir
  <2>3. CASE ~(Len(tx) >= TxCap)
    BY <1>10, <1>q, <2>1, <2>3, SizesAssumption DEF Drain
  <2> QED BY <2>2, <2>3
<1>11. CASE UNCHANGED vars
  BY <1>11, <1>s DEF vars
<1> QED BY <1>1, <1>2, <1>3, <1>4, <1>5, <1>7, <1>8, <1>9, <1>10, <1>11
        DEF Next, Step

-----------------------------------------------------------------------------
(* IInv is inductive, so readiness is never lost: whatever attempts of     *)
(* several tasks, arrivals and events interleave, nobody clears the        *)
(* readiness that a packet, or room for one, is behind.                    *)
LEMMA InitIInv == Init => IInv
<1> SUFFICES ASSUME Init PROVE IInv
  OBVIOUS
<1>1. ShapeInv
  <2>1. rx \in Seq({}) /\ tx \in Seq({})
    BY DEF Init
  <2> QED BY <2>1 DEF Init, ShapeInv, Phase, IdleTask, Dir
<1>2. ClearInv
  BY DEF Init, ClearInv, WillClear, IdleTask
<1>3. NoLostReadiness
  BY DEF Init, NoLostReadiness, Dir
<1> QED BY <1>1, <1>2, <1>3 DEF IInv

(* The inductive invariant holds in every state. *)
THEOREM Invariance == Spec => []IInv
<1>1. IInv /\ [Next]_vars => IInv'
  BY ShapeStep, ClearStep, ReadinessStep DEF IInv
<1> QED BY <1>1, InitIInv, PTL DEF Spec

(* NoLostReadiness, for any number of tasks and any operations: while the  *)
(* kernel has a packet, or room for one, the device is marked ready or an  *)
(* event is on its way (poll_recv, poll_send, read_with, write_with,       *)
(* try_read_io, try_write_io of the asynchronous device).                  *)
THEOREM ReadinessKept == Spec => []NoLostReadiness
<1>1. IInv => NoLostReadiness
  BY DEF IInv
<1> QED BY <1>1, Invariance, PTL

-----------------------------------------------------------------------------
(* Buffers that are joined. *)

(* A set of numbers that has an element has a least one.                   *)
LEMMA LeastNumber ==
  ASSUME NEW T, T \subseteq Nat, T # {}
  PROVE  \E m \in T : \A k \in T : m <= k
<1>1. PICK m \in T : \A k \in T : ~(<<k, m>> \in OpToRel(<, Nat))
  BY NatLessThanWellFounded, WFMin
<1>2. ASSUME NEW k \in T PROVE m <= k
  <2>1. ~(k < m)
    BY <1>1, <1>2 DEF OpToRel
  <2>2. k \in Nat /\ m \in Nat
    OBVIOUS
  <2> QED BY <2>1, <2>2
<1> QED BY <1>2

(* What holds of 0 and with n of n + 1 holds up to N: the least number     *)
(* without it would have a predecessor without it.                         *)
LEMMA UpToLength ==
  ASSUME NEW N \in Nat, NEW T, 0 \in T,
         \A n \in 0..N : n \in T /\ n < N => n + 1 \in T
  PROVE  \A n \in 0..N : n \in T
<1> DEFINE U == {n \in 0..N : n \notin T}
<1> SUFFICES ASSUME U # {} PROVE FALSE
  OBVIOUS
<1>0. U \subseteq Nat
  OBVIOUS
<1>1. \E m \in U : \A k \in U : m <= k
  <2> HIDE DEF U
  <2> QED BY <1>0, LeastNumber
<1>2. PICK m \in U : \A k \in U : m <= k
  BY <1>1
<1>3. m # 0 /\ m \in 0..N
  OBVIOUS
<1>4. m - 1 \in 0..N /\ m - 1 < N /\ ~(m <= m - 1) /\ m - 1 + 1 = m
  BY <1>3
<1>5. m - 1 \in T
  BY <1>2, <1>4
<1> QED BY <1>4, <1>5

(* F is the recursive function that FlattenSeq is defined with: F[i] joins *)
(* the first i buffers.                                                    *)
Joins(F, s, n) ==
  F = [i \in 1..n |-> IF i = 1 THEN s[i] ELSE F[i-1] \o s[i]]

(* There is such a function, one buffer longer at a time ...               *)
LEMMA JoinsExists ==
  ASSUME NEW S, NEW s \in Seq(S)
  PROVE  \E F : Joins(F, s, Len(s))
<1> DEFINE T == {n \in 0..Len(s) : \E F : Joins(F, s, n)}
<1>1. 0 \in T
  <2> DEFINE F == [i \in 1..0 |-> s[i]]
  <2>1. F = [i \in 1..0 |-> IF i = 1 THEN s[i] ELSE F[i-1] \o s[i]]
    OBVIOUS
  <2> HIDE DEF F
  <2>2. Joins(F, s, 0)
    BY <2>1 DEF Joins
  <2>3. 0 \in 0..Len(s)
    OBVIOUS
  <2> QED BY <2>2, <2>3
<1>2. ASSUME NEW n \in 0..Len(s), n \in T, n < Len(s) PROVE n + 1 \in T
  <2>1. PICK F : Joins(F, s, n)
    BY <1>2
  <2> DEFINE G == [i \in 1..n+1 |-> IF i = 1 THEN s[i] ELSE F[i-1] \o s[i]]
  <2>2. ASSUME NEW i \in 1..n PROVE G[i] = F[i]
    <3>1. F[i] = IF i = 1 THEN s[i] ELSE F[i-1] \o s[i]
      BY <2>1, Zenon DEF Joins
    <3>2. i \in 1..n+1
      OBVIOUS
    <3> QED BY <3>1, <3>2
  <2>3. ASSUME NEW i \in 1..n+1, i # 1 PROVE G[i-1] = F[i-1]
    <3>1. i - 1 \in 1..n
      BY <2>3
    <3> HIDE DEF G
    <3> QED BY <3>1, <2>2
  <2>4. G = [i \in 1..n+1 |-> IF i = 1 THEN s[i] ELSE G[i-1] \o s[i]]
    <3>1. ASSUME NEW i \in 1..n+1
          PROVE  (IF i = 1 THEN s[i] ELSE F[i-1] \o s[i])
                   = (IF i = 1 THEN s[i] ELSE G[i-1] \o s[i])
      <4> HIDE DEF G
      <4> QED BY <2>3
    <3> DEFINE H == [i \in 1..n+1 |-> IF i = 1 THEN s[i] ELSE G[i-1] \o s[i]]
    <3>2. H = [i \in 1..n+1 |-> IF i = 1 THEN s[i] ELSE F[i-1] \o s[i]]
      <4> HIDE DEF G
      <4> QED BY <3>1, Zenon
    <3> QED BY <3>2, Zenon
  <2> HIDE DEF G
  <2>5. Joins(G, s, n + 1)
    BY <2>4 DEF Joins
  <2>6. n + 1 \in 0..Len(s)
    BY <1>2
  <2> QED BY <2>5, <2>6
<1> HIDE DEF T
<1>3. \A n \in 0..Len(s) : n \in T
  BY <1>1, <1>2, UpToLength
<1> QED BY <1>3 DEF T

(* ... and FlattenSeq is its last value.                                   *)
LEMMA FlattenJoins ==
  ASSUME NEW S, NEW s \in Seq(S), s # <<>>
  PROVE  \E F : Joins(F, s, Len(s)) /\ FlattenSeq(s) = F[Len(s)]
<1> DEFINE F == CHOOSE f : f = [i \in 1..Len(s) |-> IF i = 1 THEN s[i] ELSE f[i-1] \o s[i]]
<1>1. \E f : f = [i \in 1..Len(s) |-> IF i = 1 THEN s[i] ELSE f[i-1] \o s[i]]
  BY JoinsExists DEF Joins
<1>2. F = [i \in 1..Len(s) |-> IF i = 1 THEN s[i] ELSE F[i-1] \o s[i]]
  BY <1>1
<1>3. Len(s) # 0
  OBVIOUS
<1>4. FlattenSeq(s) = F[Len(s)]
  BY <1>3 DEF FlattenSeq
<1> QED BY <1>2, <1>4 DEF Joins

(* The steps of a join. *)
LEMMA JoinsStep ==
  ASSUME NEW F, NEW s, NEW n \in Nat, Joins(F, s, n), NEW i \in 1..n
  PROVE  F[i] = IF i = 1 THEN s[i] ELSE F[i-1] \o s[i]
BY Zenon DEF Joins

(* Buffers of bytes join to bytes. *)
LEMMA JoinsBytes ==
  ASSUME NEW s \in Seq(Seq(Nat)), NEW F, Joins(F, s, Len(s))
  PROVE  \A i \in 1..Len(s) : F[i] \in Seq(Nat)
<1> DEFINE T == {n \in 0..Len(s) : n = 0 \/ F[n] \in Seq(Nat)}
<1>1. 0 \in T
  OBVIOUS
<1>2. ASSUME NEW n \in 0..Len(s), n \in T, n < Len(s) PROVE n + 1 \in T
  <2>1. n + 1 \in 1..Len(s) /\ n + 1 - 1 = n
    BY <1>2
  <2>2. F[n+1] = IF n + 1 = 1 THEN s[n+1] ELSE F[n] \o s[n+1]
    BY <2>1, JoinsStep
  <2>3. s[n+1] \in Seq(Nat)
    BY <2>1
  <2>4. F[n+1] \in Seq(Nat)
    <3>1. CASE n = 0
      BY <3>1, <2>2, <2>3
    <3>2. CASE n # 0
      <4>1. F[n] \in Seq(Nat)
        BY <1>2, <3>2
      <4>2. n + 1 # 1
        BY <3>2
      <4>3. F[n+1] = F[n] \o s[n+1]
        BY <2>2, <4>2
      <4> QED BY <4>1, <4>3, <2>3, ConcatProperties
    <3> QED BY <3>1, <3>2
  <2> QED BY <2>1, <2>4
<1>3. Len(s) \in Nat
  OBVIOUS
<1> HIDE DEF T
<1>4. \A n \in 0..Len(s) : n \in T
  BY <1>1, <1>2, <1>3, UpToLength
<1> QED BY <1>4 DEF T

(* Joining is associative.                                                 *)
LEMMA BytesAssociative ==
  ASSUME NEW a \in Seq(Nat), NEW b \in Seq(Nat), NEW c \in Seq(Nat)
  PROVE  (a \o b) \o c = a \o (b \o c)
OBVIOUS

(* So FlattenSeq is a sequence of bytes.                                   *)
LEMMA FlattenBytes ==
  ASSUME NEW s \in Seq(Seq(Nat))
  PROVE  FlattenSeq(s) \in Seq(Nat)
<1>1. CASE s = <<>>
  BY <1>1 DEF FlattenSeq
<1>2. CASE s # <<>>
  <2>1. PICK F : Joins(F, s, Len(s)) /\ FlattenSeq(s) = F[Len(s)]
    BY <1>2, FlattenJoins
  <2>2. Len(s) \in 1..Len(s)
    BY <1>2
  <2> QED BY <2>1, <2>2, JoinsBytes
<1> QED BY <1>1, <1>2

(* A header in front of the buffers is in front of their bytes. *)
LEMMA HeaderInFront ==
  ASSUME NEW h \in Seq(Nat), NEW s \in Seq(Seq(Nat))
  PROVE  /\ FlattenSeq(s) \in Seq(Nat)
         /\ FlattenSeq(<<h>> \o s) = h \o FlattenSeq(s)
<1> DEFINE u == <<h>> \o s
<1>1. /\ u \in Seq(Seq(Nat)) /\ Len(u) = Len(s) + 1 /\ u # <<>> /\ u[1] = h
      /\ \A i \in 1..Len(s) : u[i+1] = s[i]
  <2>1. <<h>> \in Seq(Seq(Nat)) /\ Len(<<h>>) = 1
    OBVIOUS
  <2>2. u \in Seq(Seq(Nat)) /\ Len(u) = Len(s) + 1
    BY <2>1, ConcatProperties
  <2>3. u[1] = h
    OBVIOUS
  <2>4. ASSUME NEW i \in 1..Len(s) PROVE u[i+1] = s[i]
    BY <2>4
  <2>5. u # <<>>
    BY <2>2
  <2> QED BY <2>2, <2>3, <2>4, <2>5
<1> HIDE DEF u
<1>n. Len(s) \in Nat /\ Len(u) \in Nat
  BY <1>1
<1>2. PICK G : Joins(G, u, Len(u)) /\ FlattenSeq(u) = G[Len(u)]
  BY <1>1, FlattenJoins
<1>g. \A i \in 1..Len(u) : G[i] = IF i = 1 THEN u[i] ELSE G[i-1] \o u[i]
  BY <1>2, <1>n, JoinsStep
<1>3. CASE s = <<>>
  <2>1. Len(u) = 1 /\ G[1] = h
    <3>1. Len(u) = 1 /\ 1 \in 1..Len(u)
      BY <1>1, <1>3
    <3> QED BY <3>1, <1>1, <1>2, JoinsStep
  <2>2. FlattenSeq(s) = <<>>
    BY <1>3 DEF FlattenSeq
  <2> QED BY <2>1, <2>2, <1>2 DEF u
<1>4. CASE s # <<>>
  <2>1. PICK F : Joins(F, s, Len(s)) /\ FlattenSeq(s) = F[Len(s)]
    BY <1>4, FlattenJoins
  <2>2. \A i \in 1..Len(s) : F[i] \in Seq(Nat)
    BY <2>1, JoinsBytes
  <2> DEFINE T == {n \in 0..Len(s) : G[n+1] = h \o (IF n = 0 THEN <<>> ELSE F[n])}
  <2>3. 0 \in T
    <3>1. 1 \in 1..Len(u) /\ Len(u) \in Nat
      BY <1>1
    <3>2. G[1] = h
      BY <3>1, <1>1, <1>2, JoinsStep
    <3>3. h \o <<>> = h
      OBVIOUS
    <3>4. G[0+1] = h \o <<>>
      BY <3>2, <3>3
    <3> QED BY <3>4
  <2>4. ASSUME NEW n \in 0..Len(s), n \in T, n < Len(s) PROVE n + 1 \in T
    <3>1. /\ n + 1 \in 1..Len(s) /\ n + 1 - 1 = n /\ n + 2 \in 1..Len(u)
          /\ n + 2 - 1 = n + 1 /\ n + 2 # 1 /\ n + 1 + 1 = n + 2
      <4>1. n \in Nat /\ n < Len(s) /\ Len(u) = Len(s) + 1
        BY <2>4, <1>1
      <4> QED BY <4>1, <1>n
    <3>2. G[n+2] = G[n+1] \o u[n+2]
      <4> DEFINE k == n + 2
      <4>1. k \in 1..Len(u) /\ k # 1 /\ k - 1 = n + 1 /\ k = n + 2
        BY <3>1
      <4> HIDE DEF k
      <4>2. G[k] = G[k-1] \o u[k]
        BY <4>1, <1>g
      <4> QED BY <4>1, <4>2
    <3>3. u[n+2] = s[n+1] /\ s[n+1] \in Seq(Nat)
      BY <1>1, <3>1
    <3>4. F[n+1] = IF n = 0 THEN s[n+1] ELSE F[n] \o s[n+1]
      BY <3>1, <2>1, JoinsStep
    <3>5. G[n+2] = h \o F[n+1]
      <4>1. CASE n = 0
        <5>1. G[n+1] = h \o <<>>
          BY <2>4, <4>1
        <5>2. h \o <<>> = h
          OBVIOUS
        <5> QED BY <5>1, <5>2, <4>1, <3>2, <3>3, <3>4
      <4>2. CASE n # 0
        <5>1. G[n+1] = h \o F[n] /\ F[n+1] = F[n] \o s[n+1]
          BY <2>4, <4>2, <3>4
        <5>2. F[n] \in Seq(Nat)
          BY <4>2, <2>2
        <5>3. (h \o F[n]) \o s[n+1] = h \o (F[n] \o s[n+1])
          BY <5>2, <3>3, BytesAssociative
        <5> QED BY <5>1, <5>3, <3>2, <3>3
      <4> QED BY <4>1, <4>2
    <3>6. n + 1 # 0 /\ n + 1 \in 0..Len(s)
      BY <3>1
    <3> QED BY <3>1, <3>5, <3>6
  <2>5. \A n \in 0..Len(s) : n \in T
    <3> HIDE DEF T
    <3> QED BY <2>3, <2>4, <1>n, UpToLength
  <2>6. Len(s) \in 0..Len(s) /\ Len(s) # 0 /\ Len(s) \in 1..Len(s)
    BY <1>4
  <2>7. G[Len(s)+1] = h \o F[Len(s)]
    BY <2>5, <2>6
  <2> QED BY <2>7, <2>1, <2>2, <2>6, <1>1, <1>2 DEF u
<1> QED BY <1>3, <1>4

(* What the first n buffers say of the first byte. *)
Starts(F, s, n) ==
  /\ (\A i \in 1..n : s[i] = <<>>) => F[n] = <<>>
  /\ \A k \in 1..n :
       s[k] # <<>> /\ (\A i \in 1..k-1 : s[i] = <<>>) => F[n] # <<>> /\ F[n][1] = s[k][1]

(* A byte in front of others stays the first. *)
LEMMA FirstOfJoin ==
  ASSUME NEW a \in Seq(Nat), NEW b \in Seq(Nat)
  PROVE  /\ a # <<>> => a \o b # <<>> /\ (a \o b)[1] = a[1]
         /\ a = <<>> => a \o b = b
OBVIOUS

(* The first byte of what is joined is that of the first buffer that has   *)
(* one.                                                                    *)
LEMMA JoinsStart ==
  ASSUME NEW s \in Seq(Seq(Nat)), NEW F, Joins(F, s, Len(s))
  PROVE  \A n \in 1..Len(s) : Starts(F, s, n)
<1> DEFINE T == {n \in 0..Len(s) : n = 0 \/ Starts(F, s, n)}
<1>0. Len(s) \in Nat
  OBVIOUS
<1>1. 0 \in T
  OBVIOUS
<1>2. ASSUME NEW n \in 0..Len(s), n \in T, n < Len(s) PROVE n + 1 \in T
  <2>1. n \in Nat /\ n + 1 \in 1..Len(s) /\ n + 1 - 1 = n
    BY <1>2
  <2>2. F[n+1] = IF n + 1 = 1 THEN s[n+1] ELSE F[n] \o s[n+1]
    BY <2>1, JoinsStep
  <2>3. s[n+1] \in Seq(Nat)
    BY <2>1
  <2>4. Starts(F, s, n + 1)
    <3>1. CASE n = 0
      <4>1. F[1] = s[1]
        BY <3>1, <2>2
      <4>2. \A k \in 1..1 : k = 1
        OBVIOUS
      <4> QED BY <3>1, <4>1, <4>2 DEF Starts
    <3>2. CASE n # 0
      <4>1. F[n] \in Seq(Nat) /\ n \in 1..Len(s)
        BY <2>1, <3>2, JoinsBytes
      <4>2. n + 1 # 1
        BY <3>2
      <4>3. F[n+1] = F[n] \o s[n+1]
        BY <2>2, <4>2
      <4>4. /\ F[n] # <<>> => F[n+1] # <<>> /\ F[n+1][1] = F[n][1]
            /\ F[n] = <<>> => F[n+1] = s[n+1]
        BY <4>1, <4>3, <2>3, FirstOfJoin
      <4>5. Starts(F, s, n)
        BY <1>2, <3>2
      <4>6. ASSUME \A i \in 1..n+1 : s[i] = <<>> PROVE F[n+1] = <<>>
        <5>1. \A i \in 1..n : s[i] = <<>>
          BY <4>6, <2>1
        <5>2. s[n+1] = <<>>
          BY <4>6, <2>1
        <5> QED BY <5>1, <5>2, <4>4, <4>5 DEF Starts
      <4>7. ASSUME NEW k \in 1..n+1, s[k] # <<>>, \A i \in 1..k-1 : s[i] = <<>>
            PROVE  F[n+1] # <<>> /\ F[n+1][1] = s[k][1]
        <5>1. CASE k \in 1..n
          <6>1. F[n] # <<>> /\ F[n][1] = s[k][1]
            BY <5>1, <4>7, <4>5 DEF Starts
          <6> QED BY <6>1, <4>4
        <5>2. CASE k \notin 1..n
          <6>1. k = n + 1 /\ k - 1 = n
            BY <5>2, <2>1
          <6>2. F[n] = <<>>
            BY <6>1, <4>7, <4>5 DEF Starts
          <6> QED BY <6>1, <6>2, <4>4, <4>7
        <5> QED BY <5>1, <5>2
      <4> QED BY <4>6, <4>7, Zenon DEF Starts
    <3> QED BY <3>1, <3>2
  <2> QED BY <2>1, <2>4
<1> HIDE DEF T
<1>3. \A n \in 0..Len(s) : n \in T
  BY <1>0, <1>1, <1>2, UpToLength
<1> QED BY <1>3 DEF T

(* The first buffer with a byte in it, if there is one. *)
LEMMA FirstIndex ==
  ASSUME NEW s \in Seq(Seq(Nat))
  PROVE  \/ (\A i \in 1..Len(s) : s[i] = <<>>) /\ first_nonempty(s) = <<>>
         \/ \E k \in 1..Len(s) : /\ s[k] # <<>> /\ first_nonempty(s) = s[k]
                                 /\ \A i \in 1..k-1 : s[i] = <<>>
<1> DEFINE I == {i \in 1..Len(s) : s[i] # <<>>}
<1>1. CASE I = {}
  <2>1. first_nonempty(s) = <<>>
    BY <1>1 DEF first_nonempty, SelectInSeq
  <2> QED BY <1>1, <2>1
<1>2. CASE I # {}
  <2>1. I \subseteq Nat
    OBVIOUS
  <2>2. \E k \in I : \A i \in I : k <= i
    <3> HIDE DEF I
    <3> QED BY <1>2, <2>1, LeastNumber
  <2>3. Min(I) \in I /\ \A i \in I : Min(I) <= i
    <3> HIDE DEF I
    <3> QED BY <2>2 DEF Min
  <2>4. first_nonempty(s) = s[Min(I)]
    <3>1. SelectInSeq(s, LAMBDA b : b # <<>>) = Min(I)
      BY <1>2 DEF SelectInSeq
    <3> QED BY <3>1, <2>3 DEF first_nonempty
  <2> DEFINE k == Min(I)
  <2>5. k \in 1..Len(s) /\ s[k] # <<>> /\ \A i \in 1..Len(s) : s[i] # <<>> => k <= i
    <3> HIDE DEF k
    <3> QED BY <2>3 DEF k
  <2>6. first_nonempty(s) = s[k]
    BY <2>4
  <2> HIDE DEF k
  <2>7. \A i \in 1..k-1 : s[i] = <<>>
    BY <2>5
  <2> QED BY <2>5, <2>6, <2>7
<1> QED BY <1>1, <1>2

(* What is sent starts with the first byte of that buffer. *)
LEMMA FirstByte ==
  ASSUME NEW s \in Seq(Seq(Nat))
  PROVE  /\ first_nonempty(s) \in Seq(Nat)
         /\ first_nonempty(s) = <<>> <=> FlattenSeq(s) = <<>>
         /\ first_nonempty(s) # <<>> => Head(FlattenSeq(s)) = Head(first_nonempty(s))
<1>1. CASE s = <<>>
  <2>1. FlattenSeq(s) = <<>> /\ ~ \E k \in 1..Len(s) : TRUE
    BY <1>1 DEF FlattenSeq
  <2> QED BY <2>1, FirstIndex
<1>2. CASE s # <<>>
  <2>1. PICK F : Joins(F, s, Len(s)) /\ FlattenSeq(s) = F[Len(s)]
    BY <1>2, FlattenJoins
  <2>2. Len(s) \in 1..Len(s)
    BY <1>2
  <2>3. Starts(F, s, Len(s))
    BY <2>1, <2>2, JoinsStart
  <2>4. FlattenSeq(s) \in Seq(Nat)
    BY <2>1, <2>2, JoinsBytes
  <2>5. CASE (\A i \in 1..Len(s) : s[i] = <<>>) /\ first_nonempty(s) = <<>>
    BY <2>1, <2>3, <2>5 DEF Starts
  <2>6. ASSUME NEW k \in 1..Len(s), s[k] # <<>>, first_nonempty(s) = s[k],
               \A i \in 1..k-1 : s[i] = <<>>
        PROVE  /\ first_nonempty(s) \in Seq(Nat)
               /\ first_nonempty(s) = <<>> <=> FlattenSeq(s) = <<>>
               /\ first_nonempty(s) # <<>> => Head(FlattenSeq(s)) = Head(first_nonempty(s))
    <3>1. FlattenSeq(s) # <<>> /\ FlattenSeq(s)[1] = s[k][1]
      BY <2>1, <2>3, <2>6 DEF Starts
    <3>2. s[k] \in Seq(Nat)
      OBVIOUS
    <3> QED BY <3>1, <3>2, <2>4, <2>6
  <2> QED BY <2>5, <2>6, FirstIndex
<1> QED BY <1>1, <1>2

-----------------------------------------------------------------------------

(* F is the recursive function of Total.                                   *)
Sums(F, c, m) == F = [n \in 0..m |-> IF n = 0 THEN 0 ELSE F[n-1] + c[n]]

(* There is such a function ...                                            *)
LEMMA SumsExist ==
  ASSUME NEW c \in Seq(Nat)
  PROVE  \E F : Sums(F, c, Len(c))
<1> DEFINE T == {n \in 0..Len(c) : \E F : Sums(F, c, n)}
<1>0. Len(c) \in Nat
  OBVIOUS
<1>1. 0 \in T
  <2> DEFINE F == [n \in 0..0 |-> 0]
  <2>1. F = [n \in 0..0 |-> IF n = 0 THEN 0 ELSE F[n-1] + c[n]]
    OBVIOUS
  <2> HIDE DEF F
  <2>2. Sums(F, c, 0)
    BY <2>1 DEF Sums
  <2>3. 0 \in 0..Len(c)
    OBVIOUS
  <2> QED BY <2>2, <2>3
<1>2. ASSUME NEW m \in 0..Len(c), m \in T, m < Len(c) PROVE m + 1 \in T
  <2>1. PICK F : Sums(F, c, m)
    BY <1>2
  <2> DEFINE G == [n \in 0..m+1 |-> IF n = 0 THEN 0 ELSE F[n-1] + c[n]]
  <2>2. ASSUME NEW n \in 0..m PROVE G[n] = F[n]
    <3>1. F[n] = IF n = 0 THEN 0 ELSE F[n-1] + c[n]
      BY <2>1, Zenon DEF Sums
    <3>2. n \in 0..m+1
      OBVIOUS
    <3> QED BY <3>1, <3>2
  <2>3. ASSUME NEW n \in 0..m+1, n # 0 PROVE G[n-1] = F[n-1]
    <3>1. n - 1 \in 0..m
      BY <2>3
    <3> HIDE DEF G
    <3> QED BY <3>1, <2>2
  <2>4. G = [n \in 0..m+1 |-> IF n = 0 THEN 0 ELSE G[n-1] + c[n]]
    <3>1. ASSUME NEW n \in 0..m+1
          PROVE  (IF n = 0 THEN 0 ELSE F[n-1] + c[n])
                   = (IF n = 0 THEN 0 ELSE G[n-1] + c[n])
      <4> HIDE DEF G
      <4> QED BY <2>3
    <3> DEFINE H == [n \in 0..m+1 |-> IF n = 0 THEN 0 ELSE G[n-1] + c[n]]
    <3>2. H = [n \in 0..m+1 |-> IF n = 0 THEN 0 ELSE F[n-1] + c[n]]
      <4> HIDE DEF G
      <4> QED BY <3>1, Zenon
    <3> QED BY <3>2, Zenon
  <2> HIDE DEF G
  <2>5. Sums(G, c, m + 1)
    BY <2>4 DEF Sums
  <2>6. m + 1 \in 0..Len(c)
    BY <1>2
  <2> QED BY <2>5, <2>6
<1> HIDE DEF T
<1>3. \A n \in 0..Len(c) : n \in T
  BY <1>0, <1>1, <1>2, UpToLength
<1> QED BY <1>0, <1>3 DEF T

(* ... and Total is its last value.                                        *)
LEMMA TotalSums ==
  ASSUME NEW c \in Seq(Nat)
  PROVE  \E F : Sums(F, c, Len(c)) /\ Total(c) = F[Len(c)]
<1> DEFINE F == CHOOSE f : f = [n \in 0..Len(c) |-> IF n = 0 THEN 0 ELSE f[n-1] + c[n]]
<1>1. \E f : f = [n \in 0..Len(c) |-> IF n = 0 THEN 0 ELSE f[n-1] + c[n]]
  BY SumsExist DEF Sums
<1>2. F = [n \in 0..Len(c) |-> IF n = 0 THEN 0 ELSE F[n-1] + c[n]]
  BY <1>1
<1>3. Total(c) = F[Len(c)]
  BY DEF Total
<1> QED BY <1>2, <1>3 DEF Sums

(* The steps of a sum.                                                     *)
LEMMA SumsStep ==
  ASSUME NEW F, NEW c, NEW m \in Nat, Sums(F, c, m), NEW n \in 0..m
  PROVE  F[n] = IF n = 0 THEN 0 ELSE F[n-1] + c[n]
BY Zenon DEF Sums

(* A buffer in front adds its capacity. *)
LEMMA TotalInFront ==
  ASSUME NEW a \in Nat, NEW c \in Seq(Nat)
  PROVE  Total(c) \in Nat /\ Total(<<a>> \o c) = a + Total(c)
<1> DEFINE u == <<a>> \o c
<1>1. /\ u \in Seq(Nat) /\ Len(u) = Len(c) + 1 /\ u[1] = a
      /\ \A i \in 1..Len(c) : u[i+1] = c[i]
  <2>1. <<a>> \in Seq(Nat) /\ Len(<<a>>) = 1
    OBVIOUS
  <2>2. u \in Seq(Nat) /\ Len(u) = Len(c) + 1
    BY <2>1, ConcatProperties
  <2>3. u[1] = a
    OBVIOUS
  <2>4. ASSUME NEW i \in 1..Len(c) PROVE u[i+1] = c[i]
    BY <2>4
  <2> QED BY <2>2, <2>3, <2>4
<1> HIDE DEF u
<1>n. Len(c) \in Nat /\ Len(u) \in Nat
  BY <1>1
<1>2. PICK G : Sums(G, u, Len(u)) /\ Total(u) = G[Len(u)]
  BY <1>1, TotalSums
<1>3. PICK F : Sums(F, c, Len(c)) /\ Total(c) = F[Len(c)]
  BY TotalSums
<1>f. \A n \in 0..Len(c) : F[n] = IF n = 0 THEN 0 ELSE F[n-1] + c[n]
  BY <1>3, <1>n, SumsStep
<1>g. \A n \in 0..Len(u) : G[n] = IF n = 0 THEN 0 ELSE G[n-1] + u[n]
  BY <1>2, <1>n, SumsStep
<1> DEFINE T == {n \in 0..Len(c) : F[n] \in Nat /\ G[n+1] = a + F[n]}
<1>4. 0 \in T
  <2>1. F[0] = 0 /\ 0 \in 0..Len(c)
    BY <1>f, <1>n
  <2>2. G[0] = 0
    BY <1>g, <1>n
  <2>3. 1 \in 0..Len(u) /\ 1 # 0 /\ 1 - 1 = 0
    BY <1>1, <1>n
  <2>4. G[1] = G[0] + u[1]
    BY <2>3, <1>g
  <2> QED BY <2>1, <2>2, <2>4, <1>1
<1>5. ASSUME NEW n \in 0..Len(c), n \in T, n < Len(c) PROVE n + 1 \in T
  <2> DEFINE j == n + 1
             k == n + 2
  <2>1. j \in 0..Len(c) /\ j # 0 /\ j - 1 = n /\ j \in 1..Len(c) /\ j + 1 = k
    BY <1>5, <1>n
  <2>2. k \in 0..Len(u) /\ k # 0 /\ k - 1 = n + 1
    BY <1>5, <1>n, <1>1
  <2> HIDE DEF j, k
  <2>3. F[j] = F[n] + c[j]
    BY <2>1, <1>f
  <2>4. G[k] = G[n+1] + u[k]
    BY <2>2, <1>g
  <2>5. u[k] = c[j] /\ c[j] \in Nat
    <3>1. u[j+1] = c[j]
      BY <2>1, <1>1
    <3> QED BY <3>1, <2>1
  <2>6. F[j] \in Nat /\ G[j+1] = a + F[j]
    <3>1. F[n] \in Nat /\ G[n+1] = a + F[n]
      BY <1>5
    <3>2. G[k] = a + (F[n] + c[j])
      BY <3>1, <2>4, <2>5
    <3> QED BY <3>1, <3>2, <2>3, <2>5, <2>1
  <2> QED BY <2>1, <2>6 DEF j
<1>6. \A n \in 0..Len(c) : n \in T
  <2> HIDE DEF T
  <2> QED BY <1>4, <1>5, <1>n, UpToLength
<1>7. F[Len(c)] \in Nat /\ G[Len(c)+1] = a + F[Len(c)]
  BY <1>6, <1>n
<1> QED BY <1>7, <1>1, <1>2, <1>3 DEF u

-----------------------------------------------------------------------------

(* A frame that was sent is the last in the queue.                         *)
LEMMA SentFrame ==
  ASSUME NEW q, \E S : q \in Seq(S), NEW e
  PROVE  Len(Append(q, e)) = Len(q) + 1 /\ Last(Append(q, e)) = e
<1>1. PICK S : q \in Seq(S)
  OBVIOUS
<1>2. q \in Seq(S \cup {e}) /\ e \in S \cup {e}
  BY <1>1
<1> QED BY <1>2 DEF Last

(* What follows a header of two bytes. *)
LEMMA BehindHeader ==
  ASSUME NEW x \in Nat, NEW y \in Nat, NEW b \in Seq(Nat)
  PROVE  LET f == <<x, y>> \o b IN
         /\ Len(f) = Len(b) + 2 /\ f[2] = y /\ SubSeq(f, 3, Len(f)) = b
<1> DEFINE h == <<x, y>>
           f == h \o b
<1>0. h \in Seq(Nat) /\ Len(h) = 2 /\ h[2] = y /\ Len(b) \in Nat
  OBVIOUS
<1>1. f \in Seq(Nat) /\ Len(f) = Len(b) + 2
  BY <1>0, ConcatProperties
<1>2. f[2] = y
  BY <1>0
<1>3. \A i \in 1..Len(b) : f[i+2] = b[i]
  BY <1>0
<1> HIDE DEF f, h
<1> DEFINE g == SubSeq(f, 3, Len(f))
<1>4. g \in Seq(Nat) /\ Len(g) = Len(b)
  <2>1. \A i \in 3..Len(f) : f[i] \in Nat
    BY <1>1
  <2>2. 3 \in Int /\ Len(f) \in Int
    BY <1>0, <1>1
  <2>3. g \in Seq(Nat) /\ Len(g) = IF 3 <= Len(f) THEN Len(f) - 3 + 1 ELSE 0
    BY <2>1, <2>2, SubSeqProperties
  <2> QED BY <2>3, <1>0, <1>1
<1>5. ASSUME NEW i \in 1..Len(b) PROVE g[i] = b[i]
  <2>1. 3 + i - 1 = i + 2 /\ Len(f) - 3 + 1 = Len(b) /\ Len(f) \in Nat
    BY <1>0, <1>1
  <2>2. g[i] = f[i + 2]
    BY <2>1, <1>1, <1>0
  <2> QED BY <2>2, <1>3
<1>6. g = b
  <2> HIDE DEF g
  <2> QED BY <1>4, <1>5, SeqEqual
<1> QED BY <1>1, <1>2, <1>6 DEF f, h

(* What a write of these buffers returns.                                  *)
LEMMA WritevResult ==
  ASSUME NEW bufs
  PROVE  \/ writev(bufs) = Err("InvalidInput") /\ Len(bufs) > MaxIov
         \/ writev(bufs) = Err("WouldBlock")
         \/ writev(bufs) = Ok(Len(FlattenSeq(bufs)), FlattenSeq(bufs))
BY DEF writev

(* send_vectored: the family is that of the packet, and header and buffers *)
(* are one frame whose body is what the caller gave.                       *)
LEMMA SendIsFramed ==
  ASSUME \E S : tx \in Seq(S), NEW o \in Op, o.dir = "send",
         tx' = IF send_vectored(o.bufs).status = "ok"
               THEN Append(tx, send_vectored(o.bufs).data) ELSE tx
  PROVE  SendFramed(o, send_vectored(o.bufs), FlattenSeq(o.bufs))
<1> DEFINE bufs == o.bufs
           r == send_vectored(bufs)
           bytes == FlattenSeq(bufs)
<1>1. bufs \in Seq(Seq(Nat))
  BY BytesAssumption
<1>2. bytes \in Seq(Nat) /\ Len(bufs) \in Nat /\ Len(bytes) \in Nat
  <2>1. bytes \in Seq(Nat)
    BY <1>1, FlattenBytes
  <2> QED BY <1>1, <2>1
<1>3. r.status = "ok" => Len(tx') = Len(tx) + 1 /\ Last(tx') = r.data
  BY SentFrame
<1> HIDE DEF bufs
<1>4. CASE ~(pi /\ ignore)
  <2>1. r = writev(bufs) /\ Hidden = 0
    BY <1>4 DEF send_vectored, Hidden
  <2> HIDE DEF r
  <2>2. CASE r = Err("InvalidInput") /\ Len(bufs) > MaxIov
    <3>1. r.status = "InvalidInput" /\ Len(o.bufs) + 0 > MaxIov
      BY <2>2, <1>2, SizesAssumption DEF Err, bufs
    <3> QED BY <3>1, <2>1 DEF SendFramed, r, bufs
  <2>3. CASE r = Err("WouldBlock")
    BY <2>3 DEF SendFramed, r, bufs, Err
  <2>4. CASE r = Ok(Len(bytes), bytes)
    <3>1. r.status = "ok" /\ r.n = Len(bytes) /\ r.data = bytes
      BY <2>4 DEF Ok
    <3> HIDE DEF bytes
    <3>2. SendFramed(o, r, bytes)
      BY <3>1, <1>3, <2>1 DEF SendFramed
    <3> QED BY <3>2 DEF r, bufs, bytes
  <2> QED BY <2>1, <2>2, <2>3, <2>4, WritevResult
<1>5. CASE pi /\ ignore
  <2> DEFINE first == first_nonempty(bufs)
             head == generate_packet_information(is_ipv6(first))
             w == writev(<<head>> \o bufs)
  <2>1. Hidden = 1
    BY <1>5 DEF Hidden
  <2>2. CASE MaxIov - 1 < Len(bufs)
    <3>1. r.status = "InvalidInput"
      BY <1>5, <2>2 DEF send_vectored, Err
    <3>2. Len(o.bufs) + 1 > MaxIov
      BY <2>2, <1>2, SizesAssumption DEF bufs
    <3> HIDE DEF r
    <3>3. SendFramed(o, r, bytes)
      BY <3>1, <3>2, <2>1 DEF SendFramed
    <3> QED BY <3>3 DEF r, bufs
  <2>3. CASE ~(MaxIov - 1 < Len(bufs)) /\ is_ipv6(first) = -1
    <3>1. r.status = "InvalidData"
      BY <1>5, <2>3 DEF send_vectored, Err
    <3>2. ~Valid(bytes)
      BY <2>3, <1>1, FirstByte DEF Valid, is_ipv6
    <3> HIDE DEF r, bytes
    <3>3. SendFramed(o, r, bytes)
      BY <3>1, <3>2, <2>1 DEF SendFramed
    <3> QED BY <3>3 DEF r, bufs, bytes
  <2>4. CASE ~(MaxIov - 1 < Len(bufs)) /\ is_ipv6(first) # -1
    <3>1. r = IF w.status # "ok" THEN w ELSE [w EXCEPT !.n = saturating_sub(@, PIL)]
      BY <1>5, <2>4 DEF send_vectored
    <3>2. /\ head = <<0, IF is_ipv6(first) = 1 THEN AF_INET6 ELSE AF_INET>>
          /\ head \in Seq(Nat)
      BY DEF generate_packet_information, AF_INET, AF_INET6
    <3>3. FlattenSeq(<<head>> \o bufs) = head \o bytes
      <4> HIDE DEF head
      <4> QED BY <3>2, <1>1, HeaderInFront
    <3>4. Len(<<head>> \o bufs) = Len(bufs) + 1
      <4>1. <<head>> \in Seq(Seq(Nat)) /\ Len(<<head>>) = 1
        BY <3>2
      <4> HIDE DEF head
      <4> QED BY <4>1, <1>1, ConcatProperties
    <3> DEFINE af == IF is_ipv6(first) = 1 THEN AF_INET6 ELSE AF_INET
               f == <<0, af>> \o bytes
    <3>5. af \in Nat /\ head = <<0, af>>
      BY <3>2 DEF AF_INET, AF_INET6
    <3>6. Len(f) = Len(bytes) + 2 /\ f[2] = af /\ SubSeq(f, 3, Len(f)) = bytes
      <4> HIDE DEF af, bytes
      <4> QED BY <3>5, <1>2, BehindHeader
    <3>7. FlattenSeq(<<head>> \o bufs) = f
      BY <3>3, <3>5
    <3> HIDE DEF f, head
    <3>8. CASE w = Err("InvalidInput") /\ Len(<<head>> \o bufs) > MaxIov
      <4>1. r.status = "InvalidInput"
        BY <3>1, <3>8 DEF Err
      <4>2. Len(o.bufs) + 1 > MaxIov
        BY <3>8, <3>4 DEF bufs
      <4> HIDE DEF r
      <4>3. SendFramed(o, r, bytes)
        BY <4>1, <4>2, <2>1 DEF SendFramed
      <4> QED BY <4>3 DEF r, bufs
    <3>9. CASE w = Err("WouldBlock")
      <4>1. r.status = "WouldBlock"
        BY <3>1, <3>9 DEF Err
      <4> HIDE DEF r
      <4>2. SendFramed(o, r, bytes)
        BY <4>1 DEF SendFramed
      <4> QED BY <4>2 DEF r, bufs
    <3>10. CASE w = Ok(Len(f), f)
      <4>1. r.status = "ok" /\ r.data = f /\ r.n = saturating_sub(Len(f), PIL)
        BY <3>1, <3>10 DEF Ok
      <4>2. r.n = Len(bytes)
        BY <4>1, <3>6, <1>2 DEF saturating_sub, PIL
      <4>3. Body(f) = bytes
        BY <3>6, <1>5 DEF Body, PIL
      <4>4. Family(f) = Head(bytes)
        <5>1. first # <<>> /\ Head(first) \in {4, 6}
          BY <2>4 DEF is_ipv6
        <5>2. Head(bytes) = Head(first)
          BY <5>1, <1>1, FirstByte
        <5>3. af = IF Head(first) = 6 THEN AF_INET6 ELSE AF_INET
          BY <5>1 DEF is_ipv6
        <5> HIDE DEF af, first, bytes
        <5> QED BY <5>1, <5>2, <5>3, <3>6 DEF Family, PIL, AF_INET, AF_INET6
      <4> HIDE DEF r, bytes
      <4>5. SendFramed(o, r, bytes)
        <5>1. /\ Len(tx') = Len(tx) + 1 /\ Body(Last(tx')) = bytes
              /\ Family(Last(tx')) = Head(bytes)
          BY <4>1, <4>3, <4>4, <1>3
        <5> QED BY <4>1, <4>2, <5>1, <2>1 DEF SendFramed
      <4> QED BY <4>5 DEF r, bufs, bytes
    <3> HIDE DEF r, bytes
    <3> QED BY <3>7, <3>8, <3>9, <3>10, WritevResult
  <2> QED BY <2>2, <2>3, <2>4
<1> QED BY <1>4, <1>5

(* The front of a sequence of bytes.                                       *)
LEMMA FrontOf ==
  ASSUME NEW f \in Seq(Nat), NEW n \in 0..Len(f)
  PROVE  /\ SubSeq(f, 1, n) \in Seq(Nat) /\ Len(SubSeq(f, 1, n)) = n
         /\ \A i \in 1..n : SubSeq(f, 1, n)[i] = f[i]
<1> DEFINE g == SubSeq(f, 1, n)
<1>1. Len(f) \in Nat /\ n \in Nat /\ n <= Len(f)
  OBVIOUS
<1>2. \A i \in 1..n : f[i] \in Nat
  BY <1>1
<1>3. g \in Seq(Nat) /\ Len(g) = IF 1 <= n THEN n - 1 + 1 ELSE 0
  BY <1>1, <1>2, SubSeqProperties
<1>4. Len(g) = n
  BY <1>1, <1>3
<1>5. \A i \in 1..n : g[i] = f[i]
  BY <1>1
<1> QED BY <1>3, <1>4, <1>5

(* What is behind the header of a sequence of bytes.                       *)
LEMMA BehindOf ==
  ASSUME NEW f \in Seq(Nat), NEW n \in Nat
  PROVE  /\ SubSeq(f, 3, Len(f)) \in Seq(Nat)
         /\ Len(SubSeq(f, 3, Len(f))) = IF Len(f) < 2 THEN 0 ELSE Len(f) - 2
         /\ \A i \in 1..Len(f)-2 : SubSeq(f, 3, Len(f))[i] = f[i+2]
<1> DEFINE g == SubSeq(f, 3, Len(f))
<1>1. Len(f) \in Nat
  OBVIOUS
<1>2. \A i \in 3..Len(f) : f[i] \in Nat
  BY <1>1
<1>3. g \in Seq(Nat) /\ Len(g) = IF 3 <= Len(f) THEN Len(f) - 3 + 1 ELSE 0
  BY <1>1, <1>2, SubSeqProperties
<1>4. Len(g) = IF Len(f) < 2 THEN 0 ELSE Len(f) - 2
  BY <1>1, <1>3
<1>5. ASSUME NEW i \in 1..Len(f)-2 PROVE g[i] = f[i+2]
  <2>1. 3 + i - 1 = i + 2 /\ i \in 1..Len(f)-3+1
    BY <1>1
  <2> QED BY <2>1, <1>1
<1> QED BY <1>3, <1>4, <1>5

(* IsPrefix, byte by byte.                                                 *)
LEMMA PrefixOf ==
  ASSUME NEW a \in Seq(Nat), NEW b \in Seq(Nat), Len(a) <= Len(b),
         \A i \in 1..Len(a) : a[i] = b[i]
  PROVE  IsPrefix(a, b)
<1>0. Len(a) \in 0..Len(b) /\ Len(a) \in 0..Len(a)
  OBVIOUS
<1> DEFINE n == Len(a)
           c == SubSeq(a, 1, n)
           d == SubSeq(b, 1, n)
<1>1. c \in Seq(Nat) /\ Len(c) = n /\ \A i \in 1..n : c[i] = a[i]
  BY <1>0, FrontOf
<1>2. d \in Seq(Nat) /\ Len(d) = n /\ \A i \in 1..n : d[i] = b[i]
  BY <1>0, FrontOf
<1> HIDE DEF c, d
<1>3. c = d
  BY <1>1, <1>2, SeqEqual
<1> QED BY <1>0, <1>3 DEF IsPrefix, c, d

(* A read into these buffers. *)
LEMMA ReadvResult ==
  ASSUME rx \in Seq(Seq(Nat)), NEW c \in Seq(Nat)
  PROVE  \/ readv(c) = Err("InvalidInput") /\ Len(c) > MaxIov
         \/ readv(c) = Err("WouldBlock")
         \/ \E n \in 0..Len(Head(rx)) :
              /\ rx # <<>> /\ readv(c) = Ok(n, SubSeq(Head(rx), 1, n))
              /\ n = Len(Head(rx)) \/ n = Total(c)
<1> SUFFICES ASSUME rx # <<>>, ~(Len(c) > MaxIov)
             PROVE  \E n \in 0..Len(Head(rx)) :
                      /\ rx # <<>> /\ readv(c) = Ok(n, SubSeq(Head(rx), 1, n))
                      /\ n = Len(Head(rx)) \/ n = Total(c)
  BY DEF readv
<1> DEFINE f == Head(rx)
           n == IF Total(c) < Len(f) THEN Total(c) ELSE Len(f)
<1>1. f \in Seq(Nat) /\ Len(f) \in Nat
  OBVIOUS
<1>2. Total(c) \in Nat
  BY TotalInFront
<1>3. n \in 0..Len(f) /\ (n = Len(f) \/ n = Total(c))
  BY <1>1, <1>2
<1>4. Taken(c) = SubSeq(f, 1, n)
  BY DEF Taken
<1>5. Len(SubSeq(f, 1, n)) = n
  <2> HIDE DEF n, f
  <2> QED BY <1>1, <1>3, FrontOf
<1>6. readv(c) = Ok(n, SubSeq(f, 1, n))
  <2>1. readv(c) = Ok(Len(Taken(c)), Taken(c))
    BY DEF readv
  <2> HIDE DEF n, f
  <2> QED BY <2>1, <1>4, <1>5
<1> QED BY <1>3, <1>6

(* recv_vectored: the extra buffer in front takes the header and nothing   *)
(* else, so that the caller gets a prefix of the packet.                   *)
LEMMA RecvIsFramed ==
  ASSUME rx \in Seq(Seq(Nat)), NEW o \in Op \cup {NoOp}, o.dir = "recv",
         rx' = IF recv_vectored(o.bufs).status = "ok" THEN Tail(rx) ELSE rx
  PROVE  RecvFramed(o, recv_vectored(o.bufs))
<1> DEFINE c == o.bufs
           r == recv_vectored(c)
           f == Head(rx)
<1>1. c \in Seq(Nat) /\ Len(c) \in Nat
  <2>1. CASE o \in Op
    BY <2>1, BytesAssumption
  <2>2. CASE o = NoOp
    BY <2>2 DEF NoOp
  <2> QED BY <2>1, <2>2
<1>2. rx # <<>> => f \in Seq(Nat)
  OBVIOUS
<1>3. r.status = "ok" => rx' = Tail(rx)
  OBVIOUS
<1> HIDE DEF c, f
<1>4. CASE ~(pi /\ ignore)
  <2>1. r = readv(c) /\ Hidden = 0
    BY <1>4 DEF recv_vectored, Hidden
  <2> HIDE DEF r
  <2>2. CASE r = Err("InvalidInput") /\ Len(c) > MaxIov
    <3>1. r.status = "InvalidInput" /\ Len(o.bufs) + 0 > MaxIov
      BY <2>2, <1>1, SizesAssumption DEF Err, c
    <3> QED BY <3>1, <2>1 DEF RecvFramed, r, c
  <2>3. CASE r = Err("WouldBlock")
    BY <2>3 DEF RecvFramed, r, c, Err
  <2>4. ASSUME NEW n \in 0..Len(f), rx # <<>>, r = Ok(n, SubSeq(f, 1, n)),
               n = Len(f) \/ n = Total(c)
        PROVE  RecvFramed(o, r)
    <3>1. r.status = "ok" /\ r.n = n /\ r.data = SubSeq(f, 1, n)
      BY <2>4 DEF Ok
    <3> DEFINE d == SubSeq(f, 1, n)
    <3>2. d \in Seq(Nat) /\ Len(d) = n /\ \A i \in 1..n : d[i] = f[i]
      BY <2>4, <1>2, FrontOf
    <3>3. IsPrefix(d, f)
      <4>1. Len(d) <= Len(f)
        BY <3>2, <2>4, <1>2
      <4> HIDE DEF d
      <4> QED BY <4>1, <3>2, <2>4, <1>2, PrefixOf
    <3> HIDE DEF d
    <3> QED BY <3>1, <3>2, <3>3, <2>1, <2>4, <1>3 DEF RecvFramed, f, c, d
  <2> QED BY <2>1, <2>2, <2>3, <2>4, <1>1, ReadvResult DEF r, c, f
<1>5. CASE pi /\ ignore
  <2> DEFINE u == <<PIL>> \o c
             w == readv(u)
  <2>1. Hidden = 1
    BY <1>5 DEF Hidden
  <2>u. u \in Seq(Nat) /\ Len(u) = Len(c) + 1 /\ Total(c) \in Nat /\ Total(u) = 2 + Total(c)
    <3>1. <<PIL>> \in Seq(Nat) /\ Len(<<PIL>>) = 1
      BY DEF PIL
    <3>2. u \in Seq(Nat) /\ Len(u) = Len(c) + 1
      BY <3>1, <1>1, ConcatProperties
    <3>3. Total(c) \in Nat /\ Total(u) = 2 + Total(c)
      BY <1>1, TotalInFront DEF PIL
    <3> QED BY <3>2, <3>3
  <2>2. CASE MaxIov - 1 < Len(c)
    <3>1. r.status = "InvalidInput"
      BY <1>5, <2>2 DEF recv_vectored, Err
    <3>2. Len(o.bufs) + 1 > MaxIov
      BY <2>2, <1>1, SizesAssumption DEF c
    <3> HIDE DEF r
    <3>3. RecvFramed(o, r)
      BY <3>1, <3>2, <2>1 DEF RecvFramed
    <3> QED BY <3>3 DEF r, c
  <2>3. CASE ~(MaxIov - 1 < Len(c))
    <3>1. r = IF w.status # "ok" THEN w
              ELSE Ok(saturating_sub(w.n, PIL), SubSeq(w.data, PIL + 1, w.n))
      BY <1>5, <2>3 DEF recv_vectored
    <3> HIDE DEF u
    <3>2. CASE w = Err("InvalidInput") /\ Len(u) > MaxIov
      <4>1. r.status = "InvalidInput"
        BY <3>1, <3>2 DEF Err
      <4>2. Len(o.bufs) + 1 > MaxIov
        BY <3>2, <2>u DEF c
      <4> HIDE DEF r
      <4>3. RecvFramed(o, r)
        BY <4>1, <4>2, <2>1 DEF RecvFramed
      <4> QED BY <4>3 DEF r, c
    <3>3. CASE w = Err("WouldBlock")
      <4>1. r.status = "WouldBlock"
        BY <3>1, <3>3 DEF Err
      <4> HIDE DEF r
      <4>2. RecvFramed(o, r)
        BY <4>1 DEF RecvFramed
      <4> QED BY <4>2 DEF r, c
    <3>4. ASSUME NEW n \in 0..Len(f), rx # <<>>, w = Ok(n, SubSeq(f, 1, n)),
                 n = Len(f) \/ n = Total(u)
          PROVE  RecvFramed(o, r)
      <4> DEFINE d == SubSeq(f, 1, n)
                 e == SubSeq(d, 3, n)
                 g == SubSeq(f, 3, Len(f))
      <4>1. r.status = "ok" /\ r.n = saturating_sub(n, PIL) /\ r.data = SubSeq(d, 3, n)
        BY <3>1, <3>4 DEF Ok, PIL
      <4>2. d \in Seq(Nat) /\ Len(d) = n /\ \A i \in 1..n : d[i] = f[i]
        BY <3>4, <1>2, FrontOf
      <4>3. n \in Nat /\ n <= Len(f) /\ Len(f) \in Nat
        BY <1>2, <3>4
      <4>4. /\ g \in Seq(Nat) /\ Len(g) = (IF Len(f) < 2 THEN 0 ELSE Len(f) - 2)
            /\ \A i \in 1..Len(f)-2 : g[i] = f[i+2]
        BY <1>2, <3>4, BehindOf
      <4> HIDE DEF d
      <4>5. /\ e \in Seq(Nat) /\ Len(e) = (IF n < 2 THEN 0 ELSE n - 2)
            /\ \A i \in 1..n-2 : e[i] = d[i+2]
        BY <4>2, BehindOf
      <4> HIDE DEF e, g
      <4>6. r.n = Len(e) /\ r.data = e
        BY <4>1, <4>5, <4>3 DEF saturating_sub, PIL, e
      <4>7. IsPrefix(e, g)
        <5>1. Len(e) <= Len(g)
          BY <4>3, <4>4, <4>5
        <5>2. ASSUME NEW i \in 1..Len(e) PROVE e[i] = g[i]
          <6>1. i \in 1..n-2 /\ i \in 1..Len(f)-2 /\ i + 2 \in 1..n
            BY <4>3, <4>5
          <6> QED BY <6>1, <4>2, <4>4, <4>5
        <5> QED BY <5>1, <5>2, <4>4, <4>5, PrefixOf
      <4>8. Len(e) = Len(g) \/ Len(e) = Total(c)
        <5>1. CASE n = Len(f)
          BY <5>1, <4>4, <4>5
        <5>2. CASE n = Total(u)
          <6>1. n = 2 + Total(c) /\ Total(c) \in Nat
            BY <5>2, <2>u
          <6>2. ~(n < 2) /\ n - 2 = Total(c)
            <7>1. ASSUME NEW a \in Nat, NEW b \in Nat, b = 2 + a PROVE ~(b < 2) /\ b - 2 = a
              BY <7>1
            <7> QED BY <6>1, <4>3, <7>1
          <6> QED BY <6>2, <4>5
        <5> QED BY <3>4, <5>1, <5>2
      <4>9. Body(f) = g
        BY <1>5 DEF Body, PIL, g
      <4> HIDE DEF r
      <4>10. RecvFramed(o, r)
        BY <4>1, <4>6, <4>7, <4>8, <4>9, <2>1, <1>3 DEF RecvFramed, f, c
      <4> QED BY <4>10 DEF r, c
    <3> HIDE DEF r
    <3>5. \/ w = Err("InvalidInput") /\ Len(u) > MaxIov
          \/ w = Err("WouldBlock")
          \/ \E n \in 0..Len(f) : /\ rx # <<>> /\ w = Ok(n, SubSeq(f, 1, n))
                                  /\ n = Len(f) \/ n = Total(u)
      BY <2>u, ReadvResult DEF f
    <3> QED BY <3>2, <3>3, <3>4, <3>5 DEF r, c
  <2> QED BY <2>2, <2>3
<1> QED BY <1>4, <1>5

-----------------------------------------------------------------------------
(* What the kernel has for the program are sequences of bytes. *)
BytesInv == rx \in Seq(Seq(Nat))

(* So is what it makes of a packet. *)
LEMMA FrameBytes ==
  ASSUME NEW p \in Packet PROVE Frame(p) \in Seq(Nat)
<1>1. p \in Seq(Nat)
  BY BytesAssumption
<1>2. generate_packet_information(is_ipv6(p)) \in Seq(Nat)
  BY DEF generate_packet_information, AF_INET, AF_INET6
<1>3. (IF pi THEN generate_packet_information(is_ipv6(p)) ELSE <<>>) \in Seq(Nat)
  BY <1>2
<1> QED BY <1>1, <1>3, ConcatProperties DEF Frame

(* Only arrivals and reads touch that queue. *)
LEMMA BytesStep ==
  ASSUME IInv, BytesInv, [Next]_vars PROVE BytesInv'
<1>1. ASSUME NEW t \in Task, Io(t) PROVE BytesInv'
  <2>1. CASE rx = <<>>
    BY <1>1, <2>1, EmptyTakesNothing DEF Io, BytesInv
  <2>2. CASE rx # <<>>
    <3>1. rx' = rx \/ rx' = Tail(rx)
      BY <1>1 DEF Io
    <3> QED BY <2>2, <3>1, HeadTailProperties DEF BytesInv
  <2> QED BY <2>1, <2>2
<1>2. ASSUME NEW p \in Packet, Arrive(p) PROVE BytesInv'
  BY <1>2, FrameBytes, AppendProperties DEF Arrive, BytesInv
<1>3. ASSUME UNCHANGED rx PROVE BytesInv'
  BY <1>3 DEF BytesInv
<1>4. \/ \E t \in Task : Io(t)
      \/ \E p \in Packet : Arrive(p)
      \/ UNCHANGED rx
  BY DEF Next, Step, Begin, Check, Clear, Cancel, Repoll, set_ignore_packet_info,
         Dispatch, Drain, vars
<1> QED BY <1>1, <1>2, <1>3, <1>4

(* An attempt that ends an operation is a step of Io that got a result. *)
LEMMA EndsInIo ==
  ASSUME IInv, [Next]_vars, NEW t \in Task, th[t].phase = "io", th'[t].phase = "idle"
  PROVE  Io(t)
<1> USE DEF IInv, ShapeInv
<1>0. th'[t] # th[t] /\ th'[t].phase # "displaced"
  OBVIOUS
<1>1. ASSUME NEW u \in Task, NEW o \in Op, Begin(u, o) PROVE FALSE
  BY <1>0, <1>1 DEF Begin
<1>2. ASSUME NEW u \in Task, Check(u) PROVE FALSE
  <2>1. u # t
    BY <1>2 DEF Check
  <2>2. th'[t] = IF ~ready[th[u].op.dir] /\ Displaces(u, t)
                 THEN [th[t] EXCEPT !.phase = "displaced"] ELSE th[t]
    BY <1>2, <2>1 DEF Check
  <2>3. [th[t] EXCEPT !.phase = "displaced"].phase = "displaced"
    OBVIOUS
  <2> QED BY <1>0, <2>2, <2>3
<1>3. ASSUME NEW u \in Task, Io(u) PROVE Io(t)
  <2>1. th' = [th EXCEPT ![u] = AfterAttempt(u, Attempt(th[u].op))]
    BY <1>3 DEF Io
  <2>2. u = t
    BY <1>0, <2>1
  <2> QED BY <1>3, <2>2
<1>4. ASSUME NEW u \in Task, Clear(u) \/ Cancel(u) \/ Repoll(u) PROVE FALSE
  BY <1>0, <1>4 DEF Clear, Cancel, Repoll
<1>5. ASSUME NEW d \in Dir, Dispatch(d) PROVE FALSE
  <2>1. th'[t] = th[t] \/ th'[t] = [th[t] EXCEPT !.current = FALSE,
                                       !.phase = IF @ = "parked" THEN "check" ELSE @]
    BY <1>5 DEF Dispatch
  <2>2. th'[t].phase = "io"
    BY <2>1
  <2> QED BY <2>2
<1>6. ASSUME UNCHANGED th PROVE FALSE
  BY <1>0, <1>6
<1>7. \/ \E u \in Task : \/ \E o \in Op : Begin(u, o)
                         \/ Check(u) \/ Io(u) \/ Clear(u) \/ Cancel(u) \/ Repoll(u)
      \/ \E d \in Dir : Dispatch(d)
      \/ UNCHANGED th
  BY DEF Next, Step, set_ignore_packet_info, Arrive, Drain, vars
<1> QED BY <1>1, <1>2, <1>3, <1>4, <1>5, <1>6, <1>7

(* And it frames the packet. *)
LEMMA AttemptFramed ==
  ASSUME IInv, BytesInv, NEW t \in Task, Io(t)
  PROVE  IF th[t].op.dir = "recv" THEN RecvFramed(th[t].op, Attempt(th[t].op))
         ELSE SendFramed(th[t].op, Attempt(th[t].op), FlattenSeq(th[t].op.bufs))
<1> DEFINE o == th[t].op
<1>1. o \in Op \cup {NoOp}
  BY DEF IInv, ShapeInv
<1>2. CASE o.dir = "recv"
  <2>1. Attempt(o) = recv_vectored(o.bufs)
    BY <1>2 DEF Attempt
  <2>2. rx' = IF recv_vectored(o.bufs).status = "ok" THEN Tail(rx) ELSE rx
    BY <1>2, <2>1 DEF Io
  <2> HIDE DEF o
  <2>3. RecvFramed(o, recv_vectored(o.bufs))
    BY <1>1, <1>2, <2>2, RecvIsFramed DEF BytesInv
  <2> QED BY <1>2, <2>1, <2>3 DEF o
<1>3. CASE o.dir # "recv"
  <2>1. o \in Op /\ o.dir = "send"
    BY <1>1, <1>3, SizesAssumption DEF NoOp
  <2>2. Attempt(o) = send_vectored(o.bufs)
    BY <1>3 DEF Attempt
  <2>3. tx' = IF send_vectored(o.bufs).status = "ok"
              THEN Append(tx, send_vectored(o.bufs).data) ELSE tx
    BY <2>1, <2>2 DEF Io
  <2>4. \E S : tx \in Seq(S)
    BY DEF IInv, ShapeInv
  <2> HIDE DEF o
  <2>5. SendFramed(o, send_vectored(o.bufs), FlattenSeq(o.bufs))
    BY <2>1, <2>3, <2>4, SendIsFramed
  <2> QED BY <1>3, <2>2, <2>5 DEF o
<1> QED BY <1>2, <1>3

(* Framed, for any buffers and packets: what is sent is one frame of the   *)
(* right family whose body is the caller's bytes, and what is received is  *)
(* a prefix of one packet, as much as the buffers hold, whether or not the *)
(* packet information was switched on or off just before (recv_vectored    *)
(* and send_vectored of Tun).                                              *)
THEOREM PacketsFramed == Spec => Framed
<1>1. Init => IInv /\ BytesInv
  <2>1. Init => BytesInv
    BY DEF Init, BytesInv
  <2> QED BY <2>1, InitIInv
<1>2. IInv /\ BytesInv /\ [Next]_vars => IInv' /\ BytesInv'
  BY ShapeStep, ClearStep, ReadinessStep, BytesStep DEF IInv
<1>3. IInv /\ BytesInv /\ [Next]_vars =>
        [\A t \in Task :
           th[t].phase = "io" /\ th'[t].phase = "idle"
             => LET o == th[t].op
                    r == Attempt(o)
                IN  IF o.dir = "recv" THEN RecvFramed(o, r)
                    ELSE SendFramed(o, r, FlattenSeq(o.bufs))]_vars
  <2> SUFFICES ASSUME IInv, BytesInv, [Next]_vars, NEW t \in Task,
                      th[t].phase = "io", th'[t].phase = "idle"
               PROVE  IF th[t].op.dir = "recv" THEN RecvFramed(th[t].op, Attempt(th[t].op))
                      ELSE SendFramed(th[t].op, Attempt(th[t].op), FlattenSeq(th[t].op.bufs))
    BY Zenon
  <2> QED BY EndsInIo, AttemptFramed
<1> QED BY <1>1, <1>2, <1>3, PTL DEF Spec, Framed
=============================================================================
