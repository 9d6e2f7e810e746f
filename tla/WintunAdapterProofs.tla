------------------------ MODULE WintunAdapterProofs ------------------------
(***************************************************************************)
(* Proofs about WintunAdapter, for any number of threads and sessions.     *)
(* The inductive invariant is Inv: who holds which lock at which program   *)
(* point, what session and flag are at each point of a control operation,  *)
(* and how long the event stays signalled.                                 *)
(***************************************************************************)
EXTENDS WintunAdapter, TLAPS

(* Program points at which a thread holds the mutex, the write guard, the  *)
(* read guard.                                                             *)
InMutex == {"check", "set", "write", "queued", "take", "reset", "start", "publish"}
InWrite == {"take", "start", "publish"}
InRead == {"try", "check", "wait"}

(* The program point decides who holds what, and readers exclude writers. *)
LockInv ==
  /\ \A c \in Controller :
       /\ pc[c] \in ControllerPc
       /\ pc[c] \in InMutex <=> mutex = c
       /\ pc[c] = "queued" <=> c \in waiting
       /\ pc[c] \in InWrite <=> wr = c
  /\ \A t \in Worker :
       /\ pc[t] \in WorkerPc
       /\ pc[t] \in InRead <=> t \in rd
  /\ wr # None => rd = {}

(* What a control operation has done at each of its program points. *)
ControlInv ==
  \A c \in Controller :
    /\ pc[c] \in {"set", "take", "reset"} => op[c] = "disable"
    /\ pc[c] \in {"start", "publish"} => op[c] = "enable"
    /\ pc[c] \in {"lock", "check", "write", "queued"} => op[c] \in {"enable", "disable"}
    /\ pc[c] \in InMutex \ {"check"} => ~enabled
    /\ pc[c] \in {"set", "take"} => session # 0
    /\ pc[c] \in {"write", "queued"} => (op[c] = "disable" <=> session # 0)
    /\ pc[c] \in {"reset", "start", "publish"} => session = 0
    /\ pc[c] = "check" => (enabled <=> session # 0)

(* The flag, the session of the adapter and the sessions of the driver. *)
SessionInv ==
  /\ mutex = None /\ open => (enabled <=> session # 0)
  /\ ~open => session = 0 /\ \A t \in Thread : pc[t] = "idle"
  /\ \A c \in Controller : pc[c] = "publish" => started # 0 /\ alive = {started}
  /\ (\A c \in Controller : pc[c] # "publish") => alive = {session} \ {0}
  /\ \A t \in rd : using[t] = session /\ session # 0
  /\ \A t \in Worker \ rd : using[t] = 0

(* The event is signalled only while a disable is under way. *)
EventInv ==
  event /\ ~ResetMayFail =>
    \E c \in Controller :
      pc[c] \in {"write", "queued", "take", "reset"} /\ op[c] = "disable"

(* An operation that runs while the interface is disabled has seen it. *)
SeenInv ==
  /\ \A t \in Worker : pc[t] # "idle" /\ ~enabled => disabledSeen[t]
  /\ ~ResetMayFail => NoSpuriousDisabled

Inv == TypeOK /\ LockInv /\ ControlInv /\ SessionInv /\ EventInv /\ SeenInv

-----------------------------------------------------------------------------
(* One lemma per part of Inv, one step per action. *)

(* Ending a session keeps the driver's variables well typed. *)
LEMMA EndSessionTyped ==
  ASSUME TypeOK, NEW s, EndSession(s)
  PROVE  /\ alive' \in SUBSET (1..started)
         /\ ring' \in 0..RingCap
         /\ unsent' \in 0..SendCap
         /\ read_event' \in BOOLEAN
<1>1. alive' \in SUBSET (1..started)
  BY DEF TypeOK, EndSession
<1>2. ring' \in 0..RingCap /\ unsent' \in 0..SendCap
  BY BoundAssumption DEF EndSession
<1>3. read_event' \in BOOLEAN
  BY DEF EndSession
<1> QED BY <1>1, <1>2, <1>3

(* Every action keeps the types. *)
LEMMA TypeStep ==
  ASSUME TypeOK, [Next]_vars PROVE TypeOK'
<1> USE BoundAssumption DEF TypeOK, WorkerPc, ControllerPc, SendOp, RecvOp,
        WorkerOp, Goto, At, Thread, lockVars, driverVars, workerVars
<1>1. ASSUME NEW t \in Worker, WorkerStep(t) PROVE TypeOK'
  <2>1. CASE LockDisabled(t)
    BY <2>1 DEF LockDisabled, Finish, CanRead
  <2>2. CASE LockSession(t)
    BY <2>2 DEF LockSession, CanRead
  <2>3. CASE SendPacket(t)
    BY <2>3 DEF SendPacket, Leave, Finish
  <2>4. CASE SendRingFull(t)
    BY <2>4 DEF SendRingFull
  <2>5. CASE ReceivePacket(t)
    BY <2>5 DEF ReceivePacket, Leave, Finish
  <2>6. CASE RecvRingEmpty(t)
    BY <2>6 DEF RecvRingEmpty
  <2>7. CASE WouldBlock(t)
    BY <2>7 DEF WouldBlock, Leave, Finish
  <2>8. CASE SendGivesUp(t)
    BY <2>8 DEF SendGivesUp, Leave, Finish, SendVerdict
  <2>9. CASE SendRetries(t)
    BY <2>9 DEF SendRetries, SendVerdict
  <2>10. CASE WaitData(t)
    <3>1. CASE op[t] = "recv"
      BY <2>10, <3>1 DEF WaitData, Leave, Finish
    <3>2. CASE op[t] # "recv"
      <4>1. read_event' \in BOOLEAN
        BY <2>10 DEF WaitData
      <4>2. Leave(t, "ok") /\ UNCHANGED <<ring, unsent>>
        BY <2>10, <3>2 DEF WaitData
      <4> QED BY <4>1, <4>2 DEF Leave, Finish
    <3> QED BY <3>1, <3>2
  <2>11. CASE WaitDisabled(t)
    BY <2>11 DEF WaitDisabled, Leave, Finish
  <2>12. CASE WaitInterrupted(t)
    BY <2>12 DEF WaitInterrupted, Leave, Finish
  <2> QED BY <1>1, <2>1, <2>2, <2>3, <2>4, <2>5, <2>6, <2>7, <2>8, <2>9, <2>10,
             <2>11, <2>12 DEF WorkerStep
<1>2. ASSUME NEW c \in Controller, ControllerStep(c) PROVE TypeOK'
  <2>1. CASE LockState(c)
    BY <2>1 DEF LockState
  <2>2. CASE NothingToDo(c)
    BY <2>2 DEF NothingToDo, Done
  <2>3. CASE DisableStore(c)
    BY <2>3 DEF DisableStore
  <2>4. CASE DisableSetEvent(c)
    BY <2>4 DEF DisableSetEvent
  <2>5. CASE DisableSetFails(c)
    BY <2>5 DEF DisableSetFails, Done
  <2>6. CASE QueueWrite(c)
    BY <2>6 DEF QueueWrite
  <2>7. CASE AcquireWrite(c)
    BY <2>7 DEF AcquireWrite, CanWrite
  <2>8. CASE TakeSession(c)
    BY <2>8, EndSessionTyped DEF TakeSession
  <2>9. CASE DisableResetEvent(c)
    BY <2>9 DEF DisableResetEvent, Done
  <2>10. CASE DisableResetFails(c)
    BY <2>10 DEF DisableResetFails, Done
  <2>11. CASE EnableBegin(c)
    BY <2>11 DEF EnableBegin
  <2>12. CASE StartSession(c)
    BY <2>12 DEF StartSession
  <2>13. CASE StartFails(c)
    BY <2>13 DEF StartFails, Done
  <2>14. CASE ReadEventFails(c)
    BY <2>14, EndSessionTyped DEF ReadEventFails, Done
  <2>15. CASE Publish(c)
    BY <2>15 DEF Publish, Done
  <2> QED BY <1>2, <2>1, <2>2, <2>3, <2>4, <2>5, <2>6, <2>7, <2>8, <2>9, <2>10,
             <2>11, <2>12, <2>13, <2>14, <2>15 DEF ControllerStep
<1>3. ASSUME NEW t \in Worker, NEW o \in WorkerOp, Begin(t, o) PROVE TypeOK'
  BY <1>3 DEF Begin
<1>4. ASSUME NEW t \in Worker, DriverError(t) PROVE TypeOK'
  BY <1>4 DEF DriverError, Leave, Finish
<1>5. ASSUME NEW t \in Worker, WaitTimesOut(t) PROVE TypeOK'
  BY <1>5 DEF WaitTimesOut, Leave, Finish
<1>6. ASSUME NEW t \in Worker, Trigger(t) PROVE TypeOK'
  BY <1>6 DEF Trigger
<1>7. ASSUME NEW c \in Controller, NEW o \in {"enable", "disable"}, BeginControl(c, o)
      PROVE TypeOK'
  BY <1>7 DEF BeginControl
<1>8. CASE Drop
  <2>1. open' \in BOOLEAN
    BY <1>8 DEF Drop
  <2>2. session' = 0 /\ EndSession(session)
        /\ UNCHANGED <<enabled, event, lockVars, started, pc, op, workerVars, ret>>
    BY <1>8 DEF Drop
  <2> QED BY <2>1, <2>2, EndSessionTyped
<1>9. CASE Arrive
  BY <1>9 DEF Arrive
<1>10. CASE Drain
  BY <1>10 DEF Drain
<1>11. CASE UNCHANGED vars
  BY <1>11 DEF vars
<1> QED BY <1>1, <1>2, <1>3, <1>4, <1>5, <1>6, <1>7, <1>8, <1>9, <1>10, <1>11
           DEF Next

(* Who holds which lock follows from the program points alone. *)
LEMMA LockStep ==
  ASSUME TypeOK, LockInv, [Next]_vars PROVE LockInv'
<1> USE ThreadAssumption DEF TypeOK, LockInv, InMutex, InWrite, InRead,
        WorkerPc, ControllerPc, Goto, At, Thread, lockVars, driverVars,
        workerVars
<1>1. ASSUME NEW t \in Worker, WorkerStep(t) PROVE LockInv'
  <2>1. CASE LockDisabled(t)
    BY <2>1 DEF LockDisabled, Finish, CanRead
  <2>2. CASE LockSession(t)
    BY <2>2 DEF LockSession, CanRead
  <2>3. CASE SendPacket(t)
    BY <2>3 DEF SendPacket, Leave, Finish
  <2>4. CASE SendRingFull(t)
    BY <2>4 DEF SendRingFull
  <2>5. CASE ReceivePacket(t)
    BY <2>5 DEF ReceivePacket, Leave, Finish
  <2>6. CASE RecvRingEmpty(t)
    BY <2>6 DEF RecvRingEmpty
  <2>7. CASE WouldBlock(t)
    BY <2>7 DEF WouldBlock, Leave, Finish
  <2>8. CASE SendGivesUp(t)
    BY <2>8 DEF SendGivesUp, Leave, Finish, SendVerdict
  <2>9. CASE SendRetries(t)
    BY <2>9 DEF SendRetries, SendVerdict
  <2>10. CASE WaitData(t)
    BY <2>10 DEF WaitData, Leave, Finish
  <2>11. CASE WaitDisabled(t)
    BY <2>11 DEF WaitDisabled, Leave, Finish
  <2>12. CASE WaitInterrupted(t)
    BY <2>12 DEF WaitInterrupted, Leave, Finish
  <2> QED BY <1>1, <2>1, <2>2, <2>3, <2>4, <2>5, <2>6, <2>7, <2>8, <2>9, <2>10,
             <2>11, <2>12 DEF WorkerStep
<1>2. ASSUME NEW c \in Controller, ControllerStep(c) PROVE LockInv'
  <2>1. CASE LockState(c)
    BY <2>1 DEF LockState
  <2>2. CASE NothingToDo(c)
    BY <2>2 DEF NothingToDo, Done
  <2>3. CASE DisableStore(c)
    BY <2>3 DEF DisableStore
  <2>4. CASE DisableSetEvent(c)
    BY <2>4 DEF DisableSetEvent
  <2>5. CASE DisableSetFails(c)
    BY <2>5 DEF DisableSetFails, Done
  <2>6. CASE QueueWrite(c)
    BY <2>6 DEF QueueWrite
  <2>7. CASE AcquireWrite(c)
    BY <2>7 DEF AcquireWrite, CanWrite
  <2>8. CASE TakeSession(c)
    BY <2>8 DEF TakeSession, EndSession
  <2>9. CASE DisableResetEvent(c)
    BY <2>9 DEF DisableResetEvent, Done
  <2>10. CASE DisableResetFails(c)
    BY <2>10 DEF DisableResetFails, Done
  <2>11. CASE EnableBegin(c)
    BY <2>11 DEF EnableBegin
  <2>12. CASE StartSession(c)
    BY <2>12 DEF StartSession
  <2>13. CASE StartFails(c)
    BY <2>13 DEF StartFails, Done
  <2>14. CASE ReadEventFails(c)
    BY <2>14 DEF ReadEventFails, Done, EndSession
  <2>15. CASE Publish(c)
    BY <2>15 DEF Publish, Done
  <2> QED BY <1>2, <2>1, <2>2, <2>3, <2>4, <2>5, <2>6, <2>7, <2>8, <2>9, <2>10,
             <2>11, <2>12, <2>13, <2>14, <2>15 DEF ControllerStep
<1>3. ASSUME NEW t \in Worker, NEW o \in WorkerOp, Begin(t, o) PROVE LockInv'
  BY <1>3 DEF Begin
<1>4. ASSUME NEW t \in Worker, DriverError(t) PROVE LockInv'
  BY <1>4 DEF DriverError, Leave, Finish
<1>5. ASSUME NEW t \in Worker, WaitTimesOut(t) PROVE LockInv'
  BY <1>5 DEF WaitTimesOut, Leave, Finish
<1>6. ASSUME NEW t \in Worker, Trigger(t) PROVE LockInv'
  BY <1>6 DEF Trigger
<1>7. ASSUME NEW c \in Controller, NEW o \in {"enable", "disable"}, BeginControl(c, o)
      PROVE LockInv'
  BY <1>7 DEF BeginControl
<1>8. CASE Drop
  BY <1>8 DEF Drop, EndSession
<1>9. CASE Arrive
  BY <1>9 DEF Arrive
<1>10. CASE Drain
  BY <1>10 DEF Drain
<1>11. CASE UNCHANGED vars
  BY <1>11 DEF vars
<1> QED BY <1>1, <1>2, <1>3, <1>4, <1>5, <1>6, <1>7, <1>8, <1>9, <1>10, <1>11
           DEF Next

(* A control operation finds what its earlier steps left: nobody else     *)
(* changes flag or session while it has the mutex.                         *)
LEMMA ControlStep ==
  ASSUME TypeOK, LockInv, ControlInv, SessionInv, [Next]_vars PROVE ControlInv'
<1> USE ThreadAssumption DEF TypeOK, LockInv, ControlInv, SessionInv, InMutex,
        InWrite, InRead, WorkerPc, ControllerPc, Goto, At, Thread, lockVars,
        driverVars, workerVars
<1>1. ASSUME NEW t \in Worker, WorkerStep(t) PROVE ControlInv'
  <2>1. CASE LockDisabled(t)
    BY <2>1 DEF LockDisabled, Finish, CanRead
  <2>2. CASE LockSession(t)
    BY <2>2 DEF LockSession, CanRead
  <2>3. CASE SendPacket(t)
    BY <2>3 DEF SendPacket, Leave, Finish
  <2>4. CASE SendRingFull(t)
    BY <2>4 DEF SendRingFull
  <2>5. CASE ReceivePacket(t)
    BY <2>5 DEF ReceivePacket, Leave, Finish
  <2>6. CASE RecvRingEmpty(t)
    BY <2>6 DEF RecvRingEmpty
  <2>7. CASE WouldBlock(t)
    BY <2>7 DEF WouldBlock, Leave, Finish
  <2>8. CASE SendGivesUp(t)
    BY <2>8 DEF SendGivesUp, Leave, Finish, SendVerdict
  <2>9. CASE SendRetries(t)
    BY <2>9 DEF SendRetries, SendVerdict
  <2>10. CASE WaitData(t)
    BY <2>10 DEF WaitData, Leave, Finish
  <2>11. CASE WaitDisabled(t)
    BY <2>11 DEF WaitDisabled, Leave, Finish
  <2>12. CASE WaitInterrupted(t)
    BY <2>12 DEF WaitInterrupted, Leave, Finish
  <2> QED BY <1>1, <2>1, <2>2, <2>3, <2>4, <2>5, <2>6, <2>7, <2>8, <2>9, <2>10,
             <2>11, <2>12 DEF WorkerStep
<1>2. ASSUME NEW c \in Controller, ControllerStep(c) PROVE ControlInv'
  <2>1. CASE LockState(c)
    BY <2>1 DEF LockState
  <2>2. CASE NothingToDo(c)
    BY <2>2 DEF NothingToDo, Done
  <2>3. CASE DisableStore(c)
    BY <2>3 DEF DisableStore
  <2>4. CASE DisableSetEvent(c)
    BY <2>4 DEF DisableSetEvent
  <2>5. CASE DisableSetFails(c)
    BY <2>5 DEF DisableSetFails, Done
  <2>6. CASE QueueWrite(c)
    BY <2>6 DEF QueueWrite
  <2>7. CASE AcquireWrite(c)
    BY <2>7 DEF AcquireWrite, CanWrite
  <2>8. CASE TakeSession(c)
    BY <2>8 DEF TakeSession, EndSession
  <2>9. CASE DisableResetEvent(c)
    BY <2>9 DEF DisableResetEvent, Done
  <2>10. CASE DisableResetFails(c)
    BY <2>10 DEF DisableResetFails, Done
  <2>11. CASE EnableBegin(c)
    BY <2>11 DEF EnableBegin
  <2>12. CASE StartSession(c)
    BY <2>12 DEF StartSession
  <2>13. CASE StartFails(c)
    BY <2>13 DEF StartFails, Done
  <2>14. CASE ReadEventFails(c)
    BY <2>14 DEF ReadEventFails, Done, EndSession
  <2>15. CASE Publish(c)
    BY <2>15 DEF Publish, Done
  <2> QED BY <1>2, <2>1, <2>2, <2>3, <2>4, <2>5, <2>6, <2>7, <2>8, <2>9, <2>10,
             <2>11, <2>12, <2>13, <2>14, <2>15 DEF ControllerStep
<1>3. ASSUME NEW t \in Worker, NEW o \in WorkerOp, Begin(t, o) PROVE ControlInv'
  BY <1>3 DEF Begin
<1>4. ASSUME NEW t \in Worker, DriverError(t) PROVE ControlInv'
  BY <1>4 DEF DriverError, Leave, Finish
<1>5. ASSUME NEW t \in Worker, WaitTimesOut(t) PROVE ControlInv'
  BY <1>5 DEF WaitTimesOut, Leave, Finish
<1>6. ASSUME NEW t \in Worker, Trigger(t) PROVE ControlInv'
  BY <1>6 DEF Trigger
<1>7. ASSUME NEW c \in Controller, NEW o \in {"enable", "disable"}, BeginControl(c, o)
      PROVE ControlInv'
  BY <1>7 DEF BeginControl
<1>8. CASE Drop
  BY <1>8 DEF Drop, EndSession
<1>9. CASE Arrive
  BY <1>9 DEF Arrive
<1>10. CASE Drain
  BY <1>10 DEF Drain
<1>11. CASE UNCHANGED vars
  BY <1>11 DEF vars
<1> QED BY <1>1, <1>2, <1>3, <1>4, <1>5, <1>6, <1>7, <1>8, <1>9, <1>10, <1>11
           DEF Next

(* A session is only replaced by the holder of the write guard, so every   *)
(* reader keeps the session it read.                                       *)
LEMMA SessionStep ==
  ASSUME TypeOK, LockInv, ControlInv, SessionInv, [Next]_vars PROVE SessionInv'
<1> USE ThreadAssumption DEF TypeOK, LockInv, ControlInv, SessionInv, InMutex,
        InWrite, InRead, WorkerPc, ControllerPc, Goto, At, Thread, lockVars,
        driverVars, workerVars
<1>1. ASSUME NEW t \in Worker, WorkerStep(t) PROVE SessionInv'
  <2>1. CASE LockDisabled(t)
    BY <2>1 DEF LockDisabled, Finish, CanRead
  <2>2. CASE LockSession(t)
    BY <2>2 DEF LockSession, CanRead
  <2>3. CASE SendPacket(t)
    BY <2>3 DEF SendPacket, Leave, Finish
  <2>4. CASE SendRingFull(t)
    BY <2>4 DEF SendRingFull
  <2>5. CASE ReceivePacket(t)
    BY <2>5 DEF ReceivePacket, Leave, Finish
  <2>6. CASE RecvRingEmpty(t)
    BY <2>6 DEF RecvRingEmpty
  <2>7. CASE WouldBlock(t)
    BY <2>7 DEF WouldBlock, Leave, Finish
  <2>8. CASE SendGivesUp(t)
    BY <2>8 DEF SendGivesUp, Leave, Finish, SendVerdict
  <2>9. CASE SendRetries(t)
    BY <2>9 DEF SendRetries, SendVerdict
  <2>10. CASE WaitData(t)
    BY <2>10 DEF WaitData, Leave, Finish
  <2>11. CASE WaitDisabled(t)
    BY <2>11 DEF WaitDisabled, Leave, Finish
  <2>12. CASE WaitInterrupted(t)
    BY <2>12 DEF WaitInterrupted, Leave, Finish
  <2> QED BY <1>1, <2>1, <2>2, <2>3, <2>4, <2>5, <2>6, <2>7, <2>8, <2>9, <2>10,
             <2>11, <2>12 DEF WorkerStep
<1>2. ASSUME NEW c \in Controller, ControllerStep(c) PROVE SessionInv'
  <2>1. CASE LockState(c)
    BY <2>1 DEF LockState
  <2>2. CASE NothingToDo(c)
    BY <2>2 DEF NothingToDo, Done
  <2>3. CASE DisableStore(c)
    BY <2>3 DEF DisableStore
  <2>4. CASE DisableSetEvent(c)
    BY <2>4 DEF DisableSetEvent
  <2>5. CASE DisableSetFails(c)
    BY <2>5 DEF DisableSetFails, Done
  <2>6. CASE QueueWrite(c)
    BY <2>6 DEF QueueWrite
  <2>7. CASE AcquireWrite(c)
    BY <2>7 DEF AcquireWrite, CanWrite
  <2>8. CASE TakeSession(c)
    BY <2>8 DEF TakeSession, EndSession
  <2>9. CASE DisableResetEvent(c)
    BY <2>9 DEF DisableResetEvent, Done
  <2>10. CASE DisableResetFails(c)
    BY <2>10 DEF DisableResetFails, Done
  <2>11. CASE EnableBegin(c)
    BY <2>11 DEF EnableBegin
  <2>12. CASE StartSession(c)
    BY <2>12 DEF StartSession
  <2>13. CASE StartFails(c)
    BY <2>13 DEF StartFails, Done
  <2>14. CASE ReadEventFails(c)
    BY <2>14 DEF ReadEventFails, Done, EndSession
  <2>15. CASE Publish(c)
    BY <2>15 DEF Publish, Done
  <2> QED BY <1>2, <2>1, <2>2, <2>3, <2>4, <2>5, <2>6, <2>7, <2>8, <2>9, <2>10,
             <2>11, <2>12, <2>13, <2>14, <2>15 DEF ControllerStep
<1>3. ASSUME NEW t \in Worker, NEW o \in WorkerOp, Begin(t, o) PROVE SessionInv'
  BY <1>3 DEF Begin
<1>4. ASSUME NEW t \in Worker, DriverError(t) PROVE SessionInv'
  BY <1>4 DEF DriverError, Leave, Finish
<1>5. ASSUME NEW t \in Worker, WaitTimesOut(t) PROVE SessionInv'
  BY <1>5 DEF WaitTimesOut, Leave, Finish
<1>6. ASSUME NEW t \in Worker, Trigger(t) PROVE SessionInv'
  BY <1>6 DEF Trigger
<1>7. ASSUME NEW c \in Controller, NEW o \in {"enable", "disable"}, BeginControl(c, o)
      PROVE SessionInv'
  BY <1>7 DEF BeginControl
<1>8. CASE Drop
  BY <1>8 DEF Drop, EndSession
<1>9. CASE Arrive
  BY <1>9 DEF Arrive
<1>10. CASE Drain
  BY <1>10 DEF Drain
<1>11. CASE UNCHANGED vars
  BY <1>11 DEF vars
<1> QED BY <1>1, <1>2, <1>3, <1>4, <1>5, <1>6, <1>7, <1>8, <1>9, <1>10, <1>11
           DEF Next

(* set_event happens in disable only, which resets the event at its end. *)
LEMMA EventStep ==
  ASSUME TypeOK, LockInv, ControlInv, EventInv, [Next]_vars PROVE EventInv'
<1> USE ThreadAssumption DEF TypeOK, LockInv, ControlInv, EventInv, InMutex,
        InWrite, InRead, WorkerPc, ControllerPc, Goto, At, Thread, lockVars,
        driverVars, workerVars
<1>1. ASSUME NEW t \in Worker, WorkerStep(t) PROVE EventInv'
  <2>1. CASE LockDisabled(t)
    BY <2>1 DEF LockDisabled, Finish, CanRead
  <2>2. CASE LockSession(t)
    BY <2>2 DEF LockSession, CanRead
  <2>3. CASE SendPacket(t)
    BY <2>3 DEF SendPacket, Leave, Finish
  <2>4. CASE SendRingFull(t)
    BY <2>4 DEF SendRingFull
  <2>5. CASE ReceivePacket(t)
    BY <2>5 DEF ReceivePacket, Leave, Finish
  <2>6. CASE RecvRingEmpty(t)
    BY <2>6 DEF RecvRingEmpty
  <2>7. CASE WouldBlock(t)
    BY <2>7 DEF WouldBlock, Leave, Finish
  <2>8. CASE SendGivesUp(t)
    BY <2>8 DEF SendGivesUp, Leave, Finish, SendVerdict
  <2>9. CASE SendRetries(t)
    BY <2>9 DEF SendRetries, SendVerdict
  <2>10. CASE WaitData(t)
    <3>1. /\ UNCHANGED event
          /\ \A c \in Controller : pc'[c] = pc[c] /\ op'[c] = op[c]
      BY <2>10 DEF WaitData, Leave, Finish
    <3> QED BY <3>1
  <2>11. CASE WaitDisabled(t)
    BY <2>11 DEF WaitDisabled, Leave, Finish
  <2>12. CASE WaitInterrupted(t)
    BY <2>12 DEF WaitInterrupted, Leave, Finish
  <2> QED BY <1>1, <2>1, <2>2, <2>3, <2>4, <2>5, <2>6, <2>7, <2>8, <2>9, <2>10,
             <2>11, <2>12 DEF WorkerStep
<1>2. ASSUME NEW c \in Controller, ControllerStep(c) PROVE EventInv'
  <2>1. CASE LockState(c)
    BY <2>1 DEF LockState
  <2>2. CASE NothingToDo(c)
    BY <2>2 DEF NothingToDo, Done
  <2>3. CASE DisableStore(c)
    BY <2>3 DEF DisableStore
  <2>4. CASE DisableSetEvent(c)
    BY <2>4 DEF DisableSetEvent
  <2>5. CASE DisableSetFails(c)
    BY <2>5 DEF DisableSetFails, Done
  <2>6. CASE QueueWrite(c)
    BY <2>6 DEF QueueWrite
  <2>7. CASE AcquireWrite(c)
    BY <2>7 DEF AcquireWrite, CanWrite
  <2>8. CASE TakeSession(c)
    BY <2>8 DEF TakeSession, EndSession
  <2>9. CASE DisableResetEvent(c)
    BY <2>9 DEF DisableResetEvent, Done
  <2>10. CASE DisableResetFails(c)
    BY <2>10 DEF DisableResetFails, Done
  <2>11. CASE EnableBegin(c)
    BY <2>11 DEF EnableBegin
  <2>12. CASE StartSession(c)
    BY <2>12 DEF StartSession
  <2>13. CASE StartFails(c)
    BY <2>13 DEF StartFails, Done
  <2>14. CASE ReadEventFails(c)
    BY <2>14 DEF ReadEventFails, Done, EndSession
  <2>15. CASE Publish(c)
    BY <2>15 DEF Publish, Done
  <2> QED BY <1>2, <2>1, <2>2, <2>3, <2>4, <2>5, <2>6, <2>7, <2>8, <2>9, <2>10,
             <2>11, <2>12, <2>13, <2>14, <2>15 DEF ControllerStep
<1>3. ASSUME NEW t \in Worker, NEW o \in WorkerOp, Begin(t, o) PROVE EventInv'
  BY <1>3 DEF Begin
<1>4. ASSUME NEW t \in Worker, DriverError(t) PROVE EventInv'
  BY <1>4 DEF DriverError, Leave, Finish
<1>5. ASSUME NEW t \in Worker, WaitTimesOut(t) PROVE EventInv'
  BY <1>5 DEF WaitTimesOut, Leave, Finish
<1>6. ASSUME NEW t \in Worker, Trigger(t) PROVE EventInv'
  BY <1>6 DEF Trigger
<1>7. ASSUME NEW c \in Controller, NEW o \in {"enable", "disable"}, BeginControl(c, o)
      PROVE EventInv'
  BY <1>7 DEF BeginControl
<1>8. CASE Drop
  BY <1>8 DEF Drop, EndSession
<1>9. CASE Arrive
  BY <1>9 DEF Arrive
<1>10. CASE Drain
  BY <1>10 DEF Drain
<1>11. CASE UNCHANGED vars
  BY <1>11 DEF vars
<1> QED BY <1>1, <1>2, <1>3, <1>4, <1>5, <1>6, <1>7, <1>8, <1>9, <1>10, <1>11
           DEF Next

(* Every verdict "disabled" comes from the flag, the event or the session. *)
LEMMA SeenStep ==
  ASSUME TypeOK, LockInv, ControlInv, SessionInv, EventInv, SeenInv, [Next]_vars PROVE SeenInv'
<1> USE ThreadAssumption DEF TypeOK, LockInv, ControlInv, SessionInv, EventInv,
        SeenInv, NoSpuriousDisabled, InMutex, InWrite, InRead, WorkerPc,
        ControllerPc, Goto, At, Thread, lockVars, driverVars, workerVars
<1>1. ASSUME NEW t \in Worker, WorkerStep(t) PROVE SeenInv'
  <2>1. CASE LockDisabled(t)
    BY <2>1 DEF LockDisabled, Finish, CanRead
  <2>2. CASE LockSession(t)
    BY <2>2 DEF LockSession, CanRead
  <2>3. CASE SendPacket(t)
    BY <2>3 DEF SendPacket, Leave, Finish
  <2>4. CASE SendRingFull(t)
    BY <2>4 DEF SendRingFull
  <2>5. CASE ReceivePacket(t)
    BY <2>5 DEF ReceivePacket, Leave, Finish
  <2>6. CASE RecvRingEmpty(t)
    BY <2>6 DEF RecvRingEmpty
  <2>7. CASE WouldBlock(t)
    BY <2>7 DEF WouldBlock, Leave, Finish
  <2>8. CASE SendGivesUp(t)
    BY <2>8 DEF SendGivesUp, Leave, Finish, SendVerdict
  <2>9. CASE SendRetries(t)
    BY <2>9 DEF SendRetries, SendVerdict
  <2>10. CASE WaitData(t)
    BY <2>10 DEF WaitData, Leave, Finish
  <2>11. CASE WaitDisabled(t)
    BY <2>11 DEF WaitDisabled, Leave, Finish
  <2>12. CASE WaitInterrupted(t)
    BY <2>12 DEF WaitInterrupted, Leave, Finish
  <2> QED BY <1>1, <2>1, <2>2, <2>3, <2>4, <2>5, <2>6, <2>7, <2>8, <2>9, <2>10,
             <2>11, <2>12 DEF WorkerStep
<1>2. ASSUME NEW c \in Controller, ControllerStep(c) PROVE SeenInv'
  <2>1. CASE LockState(c)
    BY <2>1 DEF LockState
  <2>2. CASE NothingToDo(c)
    BY <2>2 DEF NothingToDo, Done
  <2>3. CASE DisableStore(c)
    BY <2>3 DEF DisableStore
  <2>4. CASE DisableSetEvent(c)
    BY <2>4 DEF DisableSetEvent
  <2>5. CASE DisableSetFails(c)
    BY <2>5 DEF DisableSetFails, Done
  <2>6. CASE QueueWrite(c)
    BY <2>6 DEF QueueWrite
  <2>7. CASE AcquireWrite(c)
    BY <2>7 DEF AcquireWrite, CanWrite
  <2>8. CASE TakeSession(c)
    BY <2>8 DEF TakeSession, EndSession
  <2>9. CASE DisableResetEvent(c)
    BY <2>9 DEF DisableResetEvent, Done
  <2>10. CASE DisableResetFails(c)
    BY <2>10 DEF DisableResetFails, Done
  <2>11. CASE EnableBegin(c)
    BY <2>11 DEF EnableBegin
  <2>12. CASE StartSession(c)
    BY <2>12 DEF StartSession
  <2>13. CASE StartFails(c)
    BY <2>13 DEF StartFails, Done
  <2>14. CASE ReadEventFails(c)
    BY <2>14 DEF ReadEventFails, Done, EndSession
  <2>15. CASE Publish(c)
    BY <2>15 DEF Publish, Done
  <2> QED BY <1>2, <2>1, <2>2, <2>3, <2>4, <2>5, <2>6, <2>7, <2>8, <2>9, <2>10,
             <2>11, <2>12, <2>13, <2>14, <2>15 DEF ControllerStep
<1>3. ASSUME NEW t \in Worker, NEW o \in WorkerOp, Begin(t, o) PROVE SeenInv'
  <2>1. /\ UNCHANGED enabled
        /\ disabledSeen' = [disabledSeen EXCEPT ![t] = ~enabled]
        /\ pc' = [pc EXCEPT ![t] = "lock"]
        /\ ret' = [ret EXCEPT ![t] = "none"]
    BY <1>3 DEF Begin
  <2>2. \A u \in Worker : pc'[u] # "idle" /\ ~enabled' => disabledSeen'[u]
    BY <2>1
  <2>3. ~ResetMayFail => NoSpuriousDisabled'
    BY <2>1
  <2> QED BY <2>2, <2>3
<1>4. ASSUME NEW t \in Worker, DriverError(t) PROVE SeenInv'
  BY <1>4 DEF DriverError, Leave, Finish
<1>5. ASSUME NEW t \in Worker, WaitTimesOut(t) PROVE SeenInv'
  BY <1>5 DEF WaitTimesOut, Leave, Finish
<1>6. ASSUME NEW t \in Worker, Trigger(t) PROVE SeenInv'
  BY <1>6 DEF Trigger
<1>7. ASSUME NEW c \in Controller, NEW o \in {"enable", "disable"}, BeginControl(c, o)
      PROVE SeenInv'
  BY <1>7 DEF BeginControl
<1>8. CASE Drop
  BY <1>8 DEF Drop, EndSession
<1>9. CASE Arrive
  BY <1>9 DEF Arrive
<1>10. CASE Drain
  BY <1>10 DEF Drain
<1>11. CASE UNCHANGED vars
  BY <1>11 DEF vars
<1> QED BY <1>1, <1>2, <1>3, <1>4, <1>5, <1>6, <1>7, <1>8, <1>9, <1>10, <1>11
           DEF Next

(* The initial states satisfy the invariant. *)
LEMMA InvInit == Init => Inv
<1> SUFFICES ASSUME Init PROVE Inv
  OBVIOUS
<1> USE ThreadAssumption, BoundAssumption DEF Init, Thread
<1>1. TypeOK
  <2>1. /\ enabled \in BOOLEAN /\ event \in BOOLEAN /\ open \in BOOLEAN
        /\ read_event \in BOOLEAN
    OBVIOUS
  <2>2. /\ pc \in [Thread -> WorkerPc \cup ControllerPc]
        /\ op \in [Thread -> WorkerOp \cup {"enable", "disable", "none"}]
        /\ ret \in [Thread -> {"none", "ok", "disabled", "would_block",
                               "timed_out", "interrupted", "err"}]
    BY DEF WorkerPc
  <2>3. /\ using \in [Worker -> Nat] /\ tries \in [Worker -> 0..MaxTries]
        /\ interrupt \in [Worker -> BOOLEAN]
        /\ disabledSeen \in [Worker -> BOOLEAN]
    OBVIOUS
  <2>4. /\ mutex \in Controller \cup {None} /\ wr \in Controller \cup {None}
        /\ rd \in SUBSET Worker /\ waiting \in SUBSET Controller
        /\ started \in Nat /\ session \in 0..started
        /\ alive \in SUBSET (1..started)
        /\ ring \in 0..RingCap /\ unsent \in 0..SendCap
    OBVIOUS
  <2> HIDE DEF Init
  <2> QED BY <2>1, <2>2, <2>3, <2>4 DEF TypeOK
<1>2. LockInv
  BY DEF LockInv, InMutex, InWrite, InRead, WorkerPc, ControllerPc
<1>3. ControlInv
  BY DEF ControlInv, InMutex
<1>4. SessionInv
  BY DEF SessionInv
<1>5. EventInv /\ SeenInv
  BY DEF EventInv, SeenInv, NoSpuriousDisabled
<1> QED BY <1>1, <1>2, <1>3, <1>4, <1>5 DEF Inv

-----------------------------------------------------------------------------
(* Inv holds in every reachable state of the adapter. *)
THEOREM Invariance == Spec => []Inv
<1>1. ASSUME Inv, [Next]_vars PROVE Inv'
  BY <1>1, TypeStep, LockStep, ControlStep, SessionStep, EventStep, SeenStep
  DEF Inv
<1> QED BY InvInit, <1>1, PTL DEF Spec

(* The adapter's variables keep their types. *)
THEOREM TypeCorrect == Spec => []TypeOK
<1>1. Inv => TypeOK
  BY DEF Inv
<1> QED BY Invariance, <1>1, PTL

(* No thread ever uses a session that WintunEndSession has ended, for any  *)
(* number of workers and controllers: disable cannot take the session      *)
(* away from a blocked recv or a retrying send.                            *)
THEOREM SessionSafety == Spec => []SessionSafe
<1>1. Inv => SessionSafe
  <2> SUFFICES ASSUME Inv, NEW t \in Worker, using[t] # 0
               PROVE  using[t] = session /\ using[t] \in alive
    BY DEF SessionSafe
  <2>1. t \in rd /\ using[t] = session /\ session # 0
    BY DEF Inv, SessionInv
  <2>2. \A c \in Controller : pc[c] # "publish"
    BY <2>1, ThreadAssumption DEF Inv, LockInv, InWrite
  <2>3. alive = {session} \ {0}
    BY <2>2 DEF Inv, SessionInv
  <2> QED BY <2>1, <2>3
<1> QED BY Invariance, <1>1, PTL

(* No session is leaked by a failing enable, by disable or by Drop. *)
THEOREM NoLeak == Spec => []NoLeakedSession
<1>1. Inv => NoLeakedSession
  <2> SUFFICES ASSUME Inv PROVE NoLeakedSession
    OBVIOUS
  <2>1. ASSUME mutex = None PROVE alive = {session} \ {0}
    BY <2>1, ThreadAssumption DEF Inv, LockInv, SessionInv, InMutex
  <2>2. ASSUME ~open PROVE alive = {}
    BY <2>2 DEF Inv, SessionInv, Thread
  <2> QED BY <2>1, <2>2 DEF NoLeakedSession
<1> QED BY Invariance, <1>1, PTL

(* Flag and session agree between control operations. *)
THEOREM FlagAgrees == Spec => []FlagMatchesSession
<1>1. Inv => FlagMatchesSession
  BY DEF Inv, SessionInv, FlagMatchesSession
<1> QED BY Invariance, <1>1, PTL

(* When ResetEvent does not fail, only operations during which the         *)
(* interface was disabled report that it was.                              *)
THEOREM DisabledIsTrue ==
  ASSUME ~ResetMayFail PROVE Spec => []NoSpuriousDisabled
<1>1. Inv => NoSpuriousDisabled
  BY DEF Inv, SeenInv
<1> QED BY Invariance, <1>1, PTL
=============================================================================
