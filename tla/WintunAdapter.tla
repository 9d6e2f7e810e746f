--------------------------- MODULE WintunAdapter ---------------------------
(***************************************************************************)
(* WinTunAdapter (platform/windows/tun/mod.rs): one Wintun session behind  *)
(* a RwLock, shared by threads that send, receive and wait, while other    *)
(* threads enable and disable the interface.  disable must get the write   *)
(* lock although receivers block inside the driver with the read lock      *)
(* held: it stores the state flag and signals a manual-reset event first,  *)
(* which every blocking loop looks at.                                     *)
(*                                                                         *)
(* External, modelled from how the code uses them: the Wintun driver (two  *)
(* bounded rings and an auto-reset read event per session), Win32 events,  *)
(* and std's Mutex and RwLock.  A reader does not overtake a waiting       *)
(* writer, as in the futex RwLock std uses on Windows.                     *)
(***************************************************************************)
EXTENDS Integers, FiniteSets

CONSTANTS
  Worker,        \* threads that send, receive and wait
  Receiver,      \* the workers that receive and wait; the others only send
  Controller,    \* threads that enable and disable
  None,          \* no thread
  RingCap,       \* packets the receive ring holds
  SendCap,       \* packets the send ring holds
  MaxTries,      \* bound: retries of a send before its 5 s are over
  MaxSession,    \* bound: sessions started
  SetMayFail,    \* SetEvent may fail
  ResetMayFail   \* ResetEvent may fail

ASSUME ThreadAssumption ==
  /\ Worker \cap Controller = {}
  /\ Receiver \subseteq Worker
  /\ None \notin Worker \cup Controller

ASSUME BoundAssumption ==
  /\ RingCap \in Nat /\ SendCap \in Nat /\ MaxTries \in Nat
  /\ MaxSession \in Nat
  /\ SetMayFail \in BOOLEAN /\ ResetMayFail \in BOOLEAN

VARIABLES
  enabled,    \* State::state, the AtomicBool
  mutex,      \* holder of State::lock
  session,    \* the session inside the RwLock: its number, 0 for None
  rd,         \* threads holding the RwLock for reading
  wr,         \* the thread holding it for writing
  waiting,    \* threads waiting to write
  event,      \* WinTunAdapter::event (manual reset)
  open,       \* the adapter handle has not been closed
  alive,      \* driver: sessions started and not ended
  started,    \* driver: number of sessions started so far
  ring,       \* driver: packets in the receive ring
  unsent,     \* driver: packets in the send ring
  read_event, \* driver: the session's read event (auto reset)
  pc,         \* where each thread is
  op,         \* the operation each thread is in
  using,      \* the session a worker's reference points at, 0 for none
  tries,      \* retries of the current send
  interrupt,  \* the interrupt event passed with the operation
  ret,        \* what the thread's last operation returned
  disabledSeen \* the interface was disabled at some time of the operation

lockVars == <<mutex, rd, wr, waiting>>
driverVars == <<alive, started, ring, unsent, read_event>>
workerVars == <<using, tries, interrupt, disabledSeen>>
vars == <<enabled, session, event, open, lockVars, driverVars, pc, op,
          workerVars, ret>>

Thread == Worker \cup Controller
SendOp == {"send", "send_interruptible", "try_send"}
RecvOp == {"recv", "try_recv"}
WorkerOp == SendOp \cup RecvOp \cup {"wait_readable"}
Interruptible == {"send_interruptible", "wait_readable"}

WorkerPc == {"idle", "lock", "try", "check", "wait"}
ControllerPc == {"idle", "lock", "check", "set", "write", "queued", "take",
                 "reset", "start", "publish"}

TypeOK ==
  /\ enabled \in BOOLEAN
  /\ mutex \in Controller \cup {None}
  /\ session \in 0..started
  /\ rd \in SUBSET Worker
  /\ wr \in Controller \cup {None}
  /\ waiting \in SUBSET Controller
  /\ event \in BOOLEAN
  /\ open \in BOOLEAN
  /\ started \in Nat
  /\ alive \in SUBSET (1..started)
  /\ ring \in 0..RingCap
  /\ unsent \in 0..SendCap
  /\ read_event \in BOOLEAN
  /\ pc \in [Thread -> WorkerPc \cup ControllerPc]
  /\ op \in [Thread -> WorkerOp \cup {"enable", "disable", "none"}]
  /\ using \in [Worker -> Nat]
  /\ tries \in [Worker -> 0..MaxTries]
  /\ interrupt \in [Worker -> BOOLEAN]
  /\ disabledSeen \in [Worker -> BOOLEAN]
  /\ ret \in [Thread -> {"none", "ok", "disabled", "would_block", "timed_out",
                         "interrupted", "err"}]

Init ==
  /\ enabled = FALSE
  /\ mutex = None
  /\ session = 0
  /\ rd = {} /\ wr = None /\ waiting = {}
  /\ event = FALSE
  /\ open = TRUE
  /\ alive = {} /\ started = 0
  /\ ring = 0 /\ unsent = 0 /\ read_event = FALSE
  /\ pc = [t \in Thread |-> "idle"]
  /\ op = [t \in Thread |-> "none"]
  /\ using = [t \in Worker |-> 0]
  /\ tries = [t \in Worker |-> 0]
  /\ interrupt = [t \in Worker |-> FALSE]
  /\ disabledSeen = [t \in Worker |-> FALSE]
  /\ ret = [t \in Thread |-> "none"]

At(t, where) == pc[t] = where
Goto(t, where) == pc' = [pc EXCEPT ![t] = where]

-----------------------------------------------------------------------------
(* Workers: send, recv, try_send, try_recv, wait_readable_interruptible.   *)

Begin(t, o) ==
  /\ open
  /\ At(t, "idle")
  /\ t \in Receiver \/ o \in SendOp
  /\ Goto(t, "lock")
  /\ op' = [op EXCEPT ![t] = o]
  /\ disabledSeen' = [disabledSeen EXCEPT ![t] = ~enabled]
  /\ ret' = [ret EXCEPT ![t] = "none"]
  /\ UNCHANGED <<enabled, session, event, open, lockVars, driverVars, using,
                 tries, interrupt>>

(* The method returns, and with it the operation's own state goes. *)
Finish(t, r) ==
  /\ Goto(t, "idle")
  /\ op' = [op EXCEPT ![t] = "none"]
  /\ tries' = [tries EXCEPT ![t] = 0]
  /\ interrupt' = [interrupt EXCEPT ![t] = FALSE]
  /\ ret' = [ret EXCEPT ![t] = r]
  /\ UNCHANGED disabledSeen

(* self.session.read() *)
CanRead == wr = None /\ waiting = {}

LockDisabled(t) ==
  /\ At(t, "lock")
  /\ CanRead
  /\ session = 0
  /\ Finish(t, "disabled")
  /\ UNCHANGED <<enabled, session, event, open, lockVars, driverVars, using>>

(* Mutant: the guard is dropped once the session has been looked up. *)
LockSessionNoGuard(t) ==
  /\ At(t, "lock")
  /\ CanRead
  /\ session # 0
  /\ using' = [using EXCEPT ![t] = session]
  /\ Goto(t, IF op[t] = "wait_readable" THEN "wait" ELSE "try")
  /\ UNCHANGED <<enabled, session, event, open, lockVars, driverVars, op, tries,
                 interrupt, disabledSeen, ret>>

(* Mutant: recv waits before it looks at the ring. *)
LockSessionWaits(t) ==
  /\ At(t, "lock")
  /\ CanRead
  /\ session # 0
  /\ rd' = rd \cup {t}
  /\ using' = [using EXCEPT ![t] = session]
  /\ Goto(t, IF op[t] \in {"recv", "wait_readable"} THEN "wait" ELSE "try")
  /\ UNCHANGED <<enabled, session, event, open, mutex, wr, waiting, driverVars,
                 op, tries, interrupt, disabledSeen, ret>>

LockSession(t) ==
  /\ At(t, "lock")
  /\ CanRead
  /\ session # 0
  /\ rd' = rd \cup {t}
  /\ using' = [using EXCEPT ![t] = session]
  /\ Goto(t, IF op[t] = "wait_readable" THEN "wait" ELSE "try")
  /\ UNCHANGED <<enabled, session, event, open, mutex, wr, waiting, driverVars,
                 op, tries, interrupt, disabledSeen, ret>>

(* The method returns while it has the read guard, which goes out of scope. *)
Leave(t, r) ==
  /\ Finish(t, r)
  /\ rd' = rd \ {t}
  /\ using' = [using EXCEPT ![t] = 0]
  /\ UNCHANGED <<enabled, session, event, open, mutex, wr, waiting, alive,
                 started>>

(* WintunAllocateSendPacket and WintunSendPacket *)
SendPacket(t) ==
  /\ At(t, "try") /\ op[t] \in SendOp
  /\ unsent < SendCap
  /\ unsent' = unsent + 1
  /\ Leave(t, "ok")
  /\ UNCHANGED <<ring, read_event>>

SendRingFull(t) ==
  /\ At(t, "try") /\ op[t] \in SendOp \ {"try_send"}
  /\ unsent = SendCap
  /\ Goto(t, "check")
  /\ UNCHANGED <<enabled, session, event, open, lockVars, driverVars, op,
                 workerVars, ret>>

(* WintunReceivePacket and WintunReleaseReceivePacket: a packet larger     *)
(* than the caller's buffer is released unread and reported.               *)
ReceivePacket(t) ==
  /\ At(t, "try") /\ op[t] \in RecvOp
  /\ ring > 0
  /\ ring' = ring - 1
  /\ \E r \in {"ok", "err"} : Leave(t, r)
  /\ UNCHANGED <<unsent, read_event>>

RecvRingEmpty(t) ==
  /\ At(t, "try") /\ op[t] = "recv"
  /\ ring = 0
  /\ Goto(t, "wait")
  /\ UNCHANGED <<enabled, session, event, open, lockVars, driverVars, op,
                 workerVars, ret>>

WouldBlock(t) ==
  /\ At(t, "try")
  /\ \/ op[t] = "try_send" /\ unsent = SendCap
     \/ op[t] = "try_recv" /\ ring = 0
  /\ Leave(t, "would_block")
  /\ UNCHANGED <<ring, unsent, read_event>>

(* Any other error of the driver, such as ERROR_HANDLE_EOF or WAIT_FAILED. *)
DriverError(t) ==
  /\ At(t, "try") \/ At(t, "wait")
  /\ Leave(t, "err")
  /\ UNCHANGED <<ring, unsent, read_event>>

(* Mutant: one round too many. *)
SendVerdictLate(t) ==
  IF ~enabled THEN "disabled"
  ELSE IF tries[t] > MaxTries THEN "timed_out"
  ELSE IF op[t] \in Interruptible /\ interrupt[t] THEN "interrupted"
  ELSE "retry"

(* WinTunSession::send after WouldBlock: state, then time, then interrupt. *)
SendVerdict(t) ==
  IF ~enabled THEN "disabled"
  ELSE IF tries[t] = MaxTries THEN "timed_out"
  ELSE IF op[t] \in Interruptible /\ interrupt[t] THEN "interrupted"
  ELSE "retry"

SendGivesUp(t) ==
  /\ At(t, "check")
  /\ SendVerdict(t) # "retry"
  /\ Leave(t, SendVerdict(t))
  /\ UNCHANGED <<ring, unsent, read_event>>

(* Mutant: the clock is read again in every round. *)
SendRetriesAnew(t) ==
  /\ At(t, "check")
  /\ SendVerdict(t) = "retry"
  /\ Goto(t, "try")
  /\ UNCHANGED <<enabled, session, event, open, lockVars, driverVars, op,
                 workerVars, ret>>

SendRetries(t) ==
  /\ At(t, "check")
  /\ SendVerdict(t) = "retry"
  /\ tries' = [tries EXCEPT ![t] = @ + 1]
  /\ Goto(t, "try")
  /\ UNCHANGED <<enabled, session, event, open, lockVars, driverVars, op,
                 using, interrupt, disabledSeen, ret>>

(* WaitForMultipleObjects reports the signalled object of lowest index:    *)
(* the read event, the disable event, then the interrupt event.            *)
WaitData(t) ==
  /\ At(t, "wait")
  /\ read_event
  /\ read_event' = FALSE
  /\ \/ /\ op[t] = "recv"
        /\ Goto(t, "try")
        /\ UNCHANGED <<enabled, session, event, open, lockVars, alive, started,
                       op, workerVars, ret>>
     \/ op[t] = "wait_readable" /\ Leave(t, "ok")
  /\ UNCHANGED <<ring, unsent>>

WaitDisabled(t) ==
  /\ At(t, "wait")
  /\ ~read_event /\ event
  /\ Leave(t, "disabled")
  /\ UNCHANGED <<ring, unsent, read_event>>

WaitInterrupted(t) ==
  /\ At(t, "wait") /\ op[t] \in Interruptible
  /\ ~read_event /\ ~event /\ interrupt[t]
  /\ Leave(t, "interrupted")
  /\ UNCHANGED <<ring, unsent, read_event>>

(* wait_readable_interruptible with a timeout. *)
WaitTimesOut(t) ==
  /\ At(t, "wait") /\ op[t] = "wait_readable"
  /\ ~read_event /\ ~event /\ ~interrupt[t]
  /\ Leave(t, "timed_out")
  /\ UNCHANGED <<ring, unsent, read_event>>

-----------------------------------------------------------------------------
(* Controllers: enable, disable (and shutdown, which is disable).          *)

BeginControl(c, o) ==
  /\ open
  /\ At(c, "idle")
  /\ Goto(c, "lock")
  /\ op' = [op EXCEPT ![c] = o]
  /\ ret' = [ret EXCEPT ![c] = "none"]
  /\ UNCHANGED <<enabled, session, event, open, lockVars, driverVars,
                 workerVars>>

LockState(c) ==
  /\ At(c, "lock")
  /\ mutex = None
  /\ mutex' = c
  /\ Goto(c, "check")
  /\ UNCHANGED <<enabled, session, event, open, rd, wr, waiting, driverVars,
                 op, workerVars, ret>>

(* Returning drops the mutex guard, and the write guard if there is one. *)
Done(c, r) ==
  /\ Goto(c, "idle")
  /\ op' = [op EXCEPT ![c] = "none"]
  /\ ret' = [ret EXCEPT ![c] = r]
  /\ mutex' = None
  /\ wr' = None
  /\ UNCHANGED <<open, rd, waiting, workerVars>>

NothingToDo(c) ==
  /\ At(c, "check")
  /\ op[c] = "enable" <=> enabled
  /\ Done(c, "ok")
  /\ UNCHANGED <<enabled, session, event, driverVars>>

(* disable: the flag is stored before the event is signalled. *)
DisableStore(c) ==
  /\ At(c, "check")
  /\ op[c] = "disable" /\ enabled
  /\ enabled' = FALSE
  /\ disabledSeen' = [t \in Worker |-> TRUE]
  /\ Goto(c, "set")
  /\ UNCHANGED <<session, event, open, lockVars, driverVars, op, using, tries,
                 interrupt, ret>>

(* Mutant: nobody is told that the interface is being disabled. *)
DisableSilently(c) ==
  /\ At(c, "set")
  /\ Goto(c, "write")
  /\ UNCHANGED <<enabled, session, event, open, lockVars, driverVars, op,
                 workerVars, ret>>

DisableSetEvent(c) ==
  /\ At(c, "set")
  /\ event' = TRUE
  /\ Goto(c, "write")
  /\ UNCHANGED <<enabled, session, open, lockVars, driverVars, op, workerVars,
                 ret>>

(* Mutant: the flag is not restored. *)
DisableSetFailsNoRollback(c) ==
  /\ At(c, "set")
  /\ SetMayFail
  /\ Done(c, "err")
  /\ UNCHANGED <<enabled, session, event, driverVars>>

DisableSetFails(c) ==
  /\ At(c, "set")
  /\ SetMayFail
  /\ enabled' = TRUE
  /\ Done(c, "err")
  /\ UNCHANGED <<session, event, driverVars>>

(* self.session.write() in both enable and disable: from here on no new    *)
(* reader gets in, and the writer gets in when the last one is out.        *)
QueueWrite(c) ==
  /\ At(c, "write")
  /\ waiting' = waiting \cup {c}
  /\ Goto(c, "queued")
  /\ UNCHANGED <<enabled, session, event, open, mutex, rd, wr, driverVars, op,
                 workerVars, ret>>

CanWrite == wr = None /\ rd = {}

AcquireWrite(c) ==
  /\ At(c, "queued")
  /\ CanWrite
  /\ wr' = c
  /\ waiting' = waiting \ {c}
  /\ Goto(c, IF op[c] = "disable" THEN "take" ELSE "start")
  /\ UNCHANGED <<enabled, session, event, open, mutex, rd, driverVars, op,
                 workerVars, ret>>

(* The driver forgets a session's rings and its read event. *)
EndSession(s) ==
  /\ alive' = alive \ {s}
  /\ ring' = 0 /\ unsent' = 0 /\ read_event' = FALSE

(* take() drops the session, and with it WintunEndSession is called. *)
TakeSession(c) ==
  /\ At(c, "take")
  /\ EndSession(session)
  /\ session' = 0
  /\ wr' = None
  /\ Goto(c, "reset")
  /\ UNCHANGED <<enabled, event, open, mutex, rd, waiting, started, op,
                 workerVars, ret>>

(* Mutant: the event stays signalled. *)
DisableNoReset(c) ==
  /\ At(c, "reset")
  /\ Done(c, "ok")
  /\ UNCHANGED <<enabled, session, event, driverVars>>

DisableResetEvent(c) ==
  /\ At(c, "reset")
  /\ event' = FALSE
  /\ Done(c, "ok")
  /\ UNCHANGED <<enabled, session, driverVars>>

DisableResetFails(c) ==
  /\ At(c, "reset")
  /\ ResetMayFail
  /\ Done(c, "err")
  /\ UNCHANGED <<enabled, session, event, driverVars>>

EnableBegin(c) ==
  /\ At(c, "check")
  /\ op[c] = "enable" /\ ~enabled
  /\ Goto(c, "write")
  /\ UNCHANGED <<enabled, session, event, open, lockVars, driverVars, op,
                 workerVars, ret>>

StartSession(c) ==
  /\ At(c, "start")
  /\ started < MaxSession
  /\ started' = started + 1
  /\ alive' = alive \cup {started + 1}
  /\ Goto(c, "publish")
  /\ UNCHANGED <<enabled, session, event, open, lockVars, ring, unsent,
                 read_event, op, workerVars, ret>>

StartFails(c) ==
  /\ At(c, "start")
  /\ Done(c, "err")
  /\ UNCHANGED <<enabled, session, event, driverVars>>

(* Mutant: the new session is left to the driver. *)
ReadEventFailsLeaks(c) ==
  /\ At(c, "publish")
  /\ Done(c, "err")
  /\ UNCHANGED <<enabled, session, event, driverVars>>

(* WintunGetReadWaitEvent failed: the new session is ended again. *)
ReadEventFails(c) ==
  /\ At(c, "publish")
  /\ EndSession(started)
  /\ Done(c, "err")
  /\ UNCHANGED <<enabled, session, event, started>>

(* session.replace, then state.enable(), with both guards still held. *)
Publish(c) ==
  /\ At(c, "publish")
  /\ session' = started
  /\ enabled' = TRUE
  /\ Done(c, "ok")
  /\ UNCHANGED <<event, driverVars>>

-----------------------------------------------------------------------------
(* Drop for WinTunAdapter: nobody else has a reference any more.           *)

Drop ==
  /\ open
  /\ \A t \in Thread : At(t, "idle")
  /\ open' = FALSE
  /\ session' = 0
  /\ EndSession(session)
  /\ UNCHANGED <<enabled, event, lockVars, started, pc, op, workerVars, ret>>

(* The environment: packets arrive, the driver sends, a wait is cancelled. *)

Arrive ==
  /\ alive # {}
  /\ ring < RingCap
  /\ ring' = ring + 1
  /\ read_event' = TRUE
  /\ UNCHANGED <<enabled, session, event, open, lockVars, alive, started,
                 unsent, pc, op, workerVars, ret>>

Drain ==
  /\ unsent > 0
  /\ unsent' = unsent - 1
  /\ UNCHANGED <<enabled, session, event, open, lockVars, alive, started,
                 ring, read_event, pc, op, workerVars, ret>>

Trigger(t) ==
  /\ ~At(t, "idle")
  /\ op[t] \in Interruptible
  /\ ~interrupt[t]
  /\ interrupt' = [interrupt EXCEPT ![t] = TRUE]
  /\ UNCHANGED <<enabled, session, event, open, lockVars, driverVars, pc, op,
                 using, tries, disabledSeen, ret>>

-----------------------------------------------------------------------------
WorkerStep(t) ==
  \/ LockDisabled(t)
  \/ LockSession(t)
  \/ SendPacket(t)
  \/ SendRingFull(t)
  \/ ReceivePacket(t)
  \/ RecvRingEmpty(t)
  \/ WouldBlock(t)
  \/ SendGivesUp(t)
  \/ SendRetries(t)
  \/ WaitData(t)
  \/ WaitDisabled(t)
  \/ WaitInterrupted(t)

ControllerStep(c) ==
  \/ LockState(c)
  \/ NothingToDo(c)
  \/ DisableStore(c)
  \/ DisableSetEvent(c)
  \/ DisableSetFails(c)
  \/ QueueWrite(c)
  \/ AcquireWrite(c)
  \/ TakeSession(c)
  \/ DisableResetEvent(c)
  \/ DisableResetFails(c)
  \/ EnableBegin(c)
  \/ StartSession(c)
  \/ StartFails(c)
  \/ ReadEventFails(c)
  \/ Publish(c)

Next ==
  \/ \E t \in Worker : WorkerStep(t)
  \/ \E t \in Worker, o \in WorkerOp : Begin(t, o)
  \/ \E t \in Worker : DriverError(t) \/ WaitTimesOut(t)
  \/ \E t \in Worker : Trigger(t)
  \/ \E c \in Controller : ControllerStep(c)
  \/ \E c \in Controller, o \in {"enable", "disable"} : BeginControl(c, o)
  \/ Drop
  \/ Arrive
  \/ Drain

(* A thread inside an operation keeps running when it can; nobody has to   *)
(* start one, and neither the network nor the driver has to move.          *)
Fairness ==
  /\ \A t \in Worker : WF_vars(WorkerStep(t))
  /\ \A c \in Controller : WF_vars(ControllerStep(c))

Spec == Init /\ [][Next]_vars /\ Fairness

-----------------------------------------------------------------------------
(* Properties. *)

(* No use after WintunEndSession: whatever enable and disable do           *)
(* meanwhile, a thread between session.read() and the end of its method    *)
(* works on the session the adapter holds, which the driver has not ended. *)
SessionSafe ==
  \A t \in Worker : using[t] # 0 => using[t] = session /\ using[t] \in alive

(* No session leaks: between two control operations the driver knows the   *)
(* session of the adapter and no other, although StartSession may be       *)
(* followed by a failure; after Drop for WinTunAdapter it knows none.      *)
NoLeakedSession ==
  /\ mutex = None => alive = {session} \ {0}
  /\ ~open => alive = {}

(* State::state and the Option in the RwLock are two copies of one fact:   *)
(* they agree whenever no control operation is under way, after its error  *)
(* paths too.                                                              *)
FlagMatchesSession == mutex = None /\ open => (enabled <=> session # 0)

(* "The interface has been disabled" is only returned by an operation      *)
(* during which it was: the event of one disable never reaches the         *)
(* receivers of the session that a later enable starts.                    *)
NoSpuriousDisabled ==
  \A t \in Worker : ret[t] = "disabled" => disabledSeen[t]

(* enable and disable return: the threads that hold the RwLock blocked in  *)
(* the driver, or retrying on a full ring, get out of the writer's way.    *)
ControlReturns == \A c \in Controller : mutex = c ~> mutex # c

(* A send on a ring that stays full ends, with TimedOut if nothing else. *)
SendReturns == \A t \in Worker : At(t, "check") ~> At(t, "idle")

(* No lost wake-up: a blocked recv does not stay blocked while the ring    *)
(* holds a packet (one receiver; the driver's event wakes a single one).   *)
RecvWakes ==
  \A t \in Worker :
    At(t, "wait") /\ op[t] = "recv" /\ ring > 0 ~> ~At(t, "wait")
=============================================================================
