---------------------------- MODULE WintunAsync ----------------------------
(***************************************************************************)
(* AsyncDevice on Windows (async_device/windows/mod.rs).  Nothing there is *)
(* asynchronous: what would block is done by a thread of a pool.  poll_recv *)
(* and poll_send keep the pool's task in a slot of the device, from one    *)
(* poll to the next; readable, recv and send await it, and a future that   *)
(* is dropped signals a cancel event and waits, at most 10 ms, until the   *)
(* thread has let go of the device.                                        *)
(*                                                                         *)
(* The device is what WintunAdapter shows it to be: its operations work on *)
(* the session they found, and disable waits for those that are inside.    *)
(* External: the pool, whose tasks wake the waker of their latest poll,    *)
(* and the driver's rings and auto-reset read event.                       *)
(***************************************************************************)
EXTENDS Integers, Sequences, SequencesExt

CONSTANTS
  Task,        \* the program's asynchronous tasks
  Job,         \* bound: tasks of the pool at one time
  None,
  SendCap,     \* packets the send ring holds
  Programs     \* the programs that use the device, see Program

AllOps == {"poll_recv", "poll_send", "recv", "readable", "send", "enabled"}

(* What a program does with the device: which task calls which operation,  *)
(* which of them it may give up, the lengths of its buffers and packets,   *)
(* whether a cancelled thread may take longer than 10 ms, and two bounds:  *)
(* packets that arrive and calls that send.                                *)
Program == [uses : SUBSET (Task \X AllOps), abandons : SUBSET AllOps,
            bufLen : SUBSET Nat, exitLate : BOOLEAN,
            maxArrived : Nat, maxData : Nat]

ASSUME AsyncAssumption ==
  /\ None \notin Task \cup Job
  /\ SendCap \in Nat
  /\ Programs \subseteq Program

VARIABLES
  program,     \* the program; it never changes
  enabled,     \* the interface is enabled
  ring,        \* driver: packets received, see Packet
  read_event,  \* driver: the read event
  unsent,      \* driver: number of packets in the send ring
  job,         \* the pool's tasks, see JobType
  slot,        \* what recv_task_lock and send_task_lock protect
  guard,       \* who holds these mutexes
  pc,          \* where each asynchronous task is
  fut,         \* its operation: kind, buffer length or data, pool task
  woken,       \* tasks whose waker was called
  dropped,     \* how far Drop for AsyncDevice has come
  arrived,     \* history: number of packets that arrived
  got,         \* history: packets returned by poll_recv
  gone,        \* history: packets taken or refused otherwise
  data,        \* history: number of calls that send
  wire,        \* history: data handed to the driver
  okd,         \* history: data of calls that returned Ok
  ended        \* history: data of calls that are over

life == <<dropped, program>>
deviceVars == <<enabled, ring, read_event, unsent>>
history == <<arrived, got, gone, data, wire, okd, ended>>
vars == <<deviceVars, job, slot, guard, pc, fut, woken, life, history>>

Packet == [id : Nat, size : Nat]
NoPacket == [id |-> 0, size |-> 0]

Channel == {"poll_recv", "poll_send"}
FutType == [op : AllOps \cup {"none"}, arg : Nat, job : Job \cup {None}]
Idle == [op |-> "none", arg |-> 0, job |-> None]

(* A task of the pool: "queued", "run" before it has the session, "try" and *)
(* "wait" inside the device, "exiting" with the device released, "done".   *)
(* exit and cancel are the Canceller's events, detached says that the      *)
(* handle has been dropped.                                                *)
JobType == [at : {"free", "queued", "run", "try", "wait", "exiting", "done"},
            op : AllOps \cup {"none"}, arg : Nat, ok : BOOLEAN, pkt : Packet,
            cancel : BOOLEAN, exit : BOOLEAN, detached : BOOLEAN,
            waker : Task \cup {None}]
Free == [at |-> "free", op |-> "none", arg |-> 0, ok |-> FALSE,
         pkt |-> NoPacket, cancel |-> FALSE, exit |-> FALSE,
         detached |-> FALSE, waker |-> None]

TypeOK ==
  /\ program \in Programs
  /\ enabled \in BOOLEAN /\ read_event \in BOOLEAN
  /\ ring \in Seq(Packet)
  /\ unsent \in 0..SendCap
  /\ job \in [Job -> JobType]
  /\ slot \in [Channel -> Job \cup {None}]
  /\ guard \in [Channel -> Task \cup {None}]
  /\ pc \in [Task -> {"idle", "polling", "pending", "try", "await", "trigger",
                      "cancel"}]
  /\ fut \in [Task -> FutType]
  /\ woken \in SUBSET Task
  /\ dropped \in {"no", "shutdown", "gone"}
  /\ arrived \in 0..program.maxArrived /\ data \in 0..program.maxData
  /\ got \in Seq(1..arrived)
  /\ gone \subseteq 1..arrived
  /\ wire \in Seq(1..data)
  /\ okd \subseteq 1..data /\ ended \subseteq 1..data

Init ==
  /\ enabled = TRUE /\ read_event = FALSE
  /\ ring = <<>> /\ unsent = 0
  /\ job = [j \in Job |-> Free]
  /\ slot = [c \in Channel |-> None]
  /\ guard = [c \in Channel |-> None]
  /\ pc = [t \in Task |-> "idle"]
  /\ fut = [t \in Task |-> Idle]
  /\ woken = {}
  /\ dropped = "no"
  /\ program \in Programs
  /\ arrived = 0 /\ data = 0
  /\ got = <<>> /\ gone = {} /\ wire = <<>> /\ okd = {} /\ ended = {}

At(t, where) == pc[t] = where
Goto(t, where) == pc' = [pc EXCEPT ![t] = where]
Inside == {j \in Job : job[j].at \in {"try", "wait"}}

-----------------------------------------------------------------------------
(* Calls *)

IsSend(o) == o \in {"poll_send", "send"}

(* A call of an operation of the device: its futures borrow it. *)
Begin(t, o, n) ==
  /\ <<t, o>> \in program.uses /\ o # "enabled"
  /\ dropped = "no"
  /\ At(t, "idle")
  /\ IF IsSend(o) THEN data < program.maxData /\ n = data + 1 /\ data' = n
     ELSE n \in program.bufLen /\ UNCHANGED data
  /\ fut' = [fut EXCEPT ![t] = [op |-> o, arg |-> n, job |-> None]]
  /\ Goto(t, IF o \in Channel THEN "pending" ELSE "try")
  /\ woken' = woken \cup {t}
  /\ UNCHANGED <<deviceVars, job, slot, guard, life, arrived, got, gone,
                 wire, okd, ended>>

(* The call is over, with Ok or with an error. *)
Return(t, ok) ==
  /\ Goto(t, "idle")
  /\ fut' = [fut EXCEPT ![t] = Idle]
  /\ woken' = woken \ {t}
  /\ IF IsSend(fut[t].op)
     THEN /\ ended' = ended \cup {fut[t].arg}
          /\ okd' = IF ok THEN okd \cup {fut[t].arg} ELSE okd
     ELSE UNCHANGED <<ended, okd>>

(* blocking::unblock *)
FreeJobs == {j \in Job : job[j].at = "free"}
NewJob == CHOOSE j \in FreeJobs : TRUE

Spawn(t) ==
  /\ FreeJobs # {}
  /\ job' = [job EXCEPT ![NewJob] = [Free EXCEPT !.at = "queued",
                                        !.op = fut[t].op, !.arg = fut[t].arg]]
  /\ fut' = [fut EXCEPT ![t].job = NewJob]

(* try_recv and try_send, on the task's own thread *)
TakePacket ==
  /\ ring' = Tail(ring)
  /\ UNCHANGED <<enabled, read_event, unsent>>

SendPacket(d) ==
  /\ unsent' = unsent + 1
  /\ wire' = Append(wire, d)
  /\ UNCHANGED <<enabled, ring, read_event>>

TryBlocks(o) == enabled /\ IF IsSend(o) THEN unsent = SendCap ELSE ring = <<>>

(* One try that does not block, and the end of the call with it: the       *)
(* interface is disabled or the driver reports an error, or there is room  *)
(* or a packet.                                                            *)
TryReturns(t) ==
  \/ /\ Return(t, FALSE)
     /\ UNCHANGED <<deviceVars, wire, got, gone>>
  \/ /\ enabled /\ IsSend(fut[t].op)
     /\ unsent < SendCap
     /\ SendPacket(fut[t].arg)
     /\ Return(t, TRUE)
     /\ UNCHANGED <<got, gone>>
  \/ /\ enabled /\ fut[t].op \in {"poll_recv", "recv"}
     /\ ring # <<>>
     /\ TakePacket
     /\ LET fits == Head(ring).size <= fut[t].arg
        IN  /\ Return(t, fits)
            /\ IF fits /\ fut[t].op = "poll_recv"
               THEN got' = Append(got, Head(ring).id) /\ UNCHANGED gone
               ELSE gone' = gone \cup {Head(ring).id} /\ UNCHANGED got
     /\ UNCHANGED wire

-----------------------------------------------------------------------------
(* poll_recv and poll_send *)

(* The task is polled because it was woken, or for another reason. *)
Polls(t, c) ==
  /\ At(t, "pending") /\ fut[t].op = c
  /\ guard[c] = None

PollTry(t, c) ==
  /\ Polls(t, c)
  /\ slot[c] = None
  /\ TryReturns(t)
  /\ UNCHANGED <<job, slot, guard, life, arrived, data>>

(* The guard is held from here to the poll of the pool's task. *)
PollTake(t, c) ==
  /\ Polls(t, c)
  /\ slot[c] # None
  /\ fut' = [fut EXCEPT ![t].job = slot[c]]
  /\ slot' = [slot EXCEPT ![c] = None]
  /\ guard' = [guard EXCEPT ![c] = t]
  /\ Goto(t, "polling")
  /\ UNCHANGED <<deviceVars, job, woken, life, history>>

PollSpawn(t, c) ==
  /\ Polls(t, c)
  /\ slot[c] = None
  /\ TryBlocks(c)
  /\ Spawn(t)
  /\ guard' = [guard EXCEPT ![c] = t]
  /\ Goto(t, "polling")
  /\ UNCHANGED <<deviceVars, slot, woken, life, history>>

(* Mutant: the task is dropped instead of being put back. *)
PutBackNot(c, j, t) ==
  /\ UNCHANGED slot
  /\ job' = [job EXCEPT ![j].detached = TRUE]

PutBack(c, j, t) ==
  /\ slot' = [slot EXCEPT ![c] = j]
  /\ job' = [job EXCEPT ![j].waker = t]

PollPending(t, c) ==
  /\ At(t, "polling") /\ fut[t].op = c
  /\ job[fut[t].job].at # "done"
  /\ PutBack(c, fut[t].job, t)
  /\ guard' = [guard EXCEPT ![c] = None]
  /\ fut' = [fut EXCEPT ![t].job = None]
  /\ Goto(t, "pending")
  /\ woken' = woken \ {t}
  /\ UNCHANGED <<deviceVars, life, history>>

(* The buffer may be another one than at the poll that made the task. *)
Copies(t, j) == job[j].ok /\ job[j].pkt.size <= fut[t].arg

(* Mutant: a task that is done has sent. *)
SendResultOk(j) == TRUE

SendResult(j) == job[j].ok

PollReady(t, c) ==
  LET j == fut[t].job
  IN  /\ At(t, "polling") /\ fut[t].op = c
      /\ job[j].at = "done"
      /\ guard' = [guard EXCEPT ![c] = None]
      /\ job' = [job EXCEPT ![j] = Free]
      /\ \/ /\ c = "poll_send"
            /\ Return(t, SendResult(j)) /\ UNCHANGED <<got, gone>>
         \/ /\ c = "poll_recv" /\ Copies(t, j)
            /\ Return(t, TRUE)
            /\ got' = Append(got, job[j].pkt.id) /\ UNCHANGED gone
         \/ /\ c = "poll_recv" /\ ~Copies(t, j)
            /\ Return(t, FALSE)
            /\ gone' = gone \cup ({job[j].pkt.id} \ {0}) /\ UNCHANGED got
      /\ UNCHANGED <<deviceVars, slot, life, arrived, data, wire>>

(* The caller does not poll again. *)
Abandon(t) ==
  /\ fut[t].op \in program.abandons
  /\ At(t, "pending")
  /\ Return(t, FALSE)
  /\ UNCHANGED <<deviceVars, job, slot, guard, life, arrived, data, got,
                 gone, wire>>

-----------------------------------------------------------------------------
(* readable, recv and send *)

(* Mutant: recv awaits before it has looked at the ring. *)
AwaitsAtOnceAlways(o) == o \in {"readable", "recv"}

AwaitsAtOnce(o) == o = "readable"

Try(t) ==
  /\ At(t, "try")
  /\ ~AwaitsAtOnce(fut[t].op)
  /\ TryReturns(t)
  /\ UNCHANGED <<job, slot, guard, life, arrived, data>>

(* The events of the Canceller are made first, which may fail. *)
AwaitJob(t) ==
  /\ At(t, "try")
  /\ AwaitsAtOnce(fut[t].op) \/ TryBlocks(fut[t].op)
  /\ \/ /\ Spawn(t)
        /\ Goto(t, "await")
        /\ UNCHANGED <<woken, ended, okd>>
     \/ Return(t, FALSE) /\ UNCHANGED job
  /\ UNCHANGED <<deviceVars, slot, guard, life, arrived, data, got, gone,
                 wire>>

(* The guard is forgotten, or dropped after an error, when the exit event  *)
(* is set already.  recv tries again after readable.                       *)
AwaitReady(t) ==
  LET j == fut[t].job
  IN  /\ At(t, "await")
      /\ job[j].at = "done"
      /\ job' = [job EXCEPT ![j] = Free]
      /\ IF fut[t].op = "recv" /\ job[j].ok
         THEN /\ Goto(t, "try")
              /\ fut' = [fut EXCEPT ![t].job = None]
              /\ UNCHANGED <<woken, ended, okd>>
         ELSE Return(t, job[j].ok)
      /\ UNCHANGED <<deviceVars, slot, guard, life, arrived, data, got,
                     gone, wire>>

(* The future is dropped: the pool's task first, then CancelWaitGuard. *)
CancelBegin(t) ==
  /\ fut[t].op \in program.abandons
  /\ At(t, "await")
  /\ job' = [job EXCEPT ![fut[t].job].detached = TRUE]
  /\ Goto(t, "trigger")
  /\ UNCHANGED <<deviceVars, slot, guard, fut, woken, life, history>>

(* Mutant: the drop only waits. *)
TriggerNot(j) == UNCHANGED job

Trigger(j) == job' = [job EXCEPT ![j].cancel = TRUE]

CancelTrigger(t) ==
  /\ At(t, "trigger")
  /\ Trigger(fut[t].job)
  /\ Goto(t, "cancel")
  /\ UNCHANGED <<deviceVars, slot, guard, fut, woken, life, history>>

(* Mutant: the drop does not wait. *)
ExitSeenAlways(j) == TRUE

ExitSeen(j) == job[j].exit

(* The last of the two to go frees the pool's task. *)
CancelEnds(t) ==
  LET j == fut[t].job
  IN  /\ At(t, "cancel")
      /\ ExitSeen(j) \/ program.exitLate
      /\ job' = [job EXCEPT ![j] = IF @.at = "done" THEN Free ELSE @]
      /\ Return(t, FALSE)
      /\ UNCHANGED <<deviceVars, slot, guard, life, arrived, data, got,
                     gone, wire>>

-----------------------------------------------------------------------------
(* The pool's threads *)

HasCanceller(j) == job[j].op \notin Channel
Wanted(j) == ~job[j].detached \/ \E t \in Task : fut[t].job = j

(* The closure is over.  Its device reference goes first, then, for an     *)
(* operation with a Canceller, the exit event is set.                      *)
Finish(j, ok, pkt) ==
  /\ job' = [job EXCEPT ![j] =
               IF HasCanceller(j)
               THEN [@ EXCEPT !.at = "exiting", !.ok = ok]
               ELSE IF Wanted(j)
               THEN [@ EXCEPT !.at = "done", !.ok = ok, !.pkt = pkt]
               ELSE Free]
  /\ woken' = woken \cup ({job[j].waker} \ {None})
  /\ UNCHANGED <<slot, guard, pc, fut, life, arrived, got, data, okd, ended>>

Move(j, where) ==
  /\ job' = [job EXCEPT ![j].at = where]
  /\ UNCHANGED <<slot, guard, pc, fut, woken, life, history>>

JobStart(j) ==
  /\ job[j].at = "queued" /\ ~job[j].detached
  /\ Move(j, "run")
  /\ UNCHANGED deviceVars

(* A task whose handle was dropped before it started is never run. *)
JobDiscard(j) ==
  /\ job[j].at = "queued" /\ job[j].detached
  /\ Finish(j, FALSE, NoPacket)
  /\ UNCHANGED <<deviceVars, gone, wire>>

JobLock(j) ==
  /\ job[j].at = "run"
  /\ \/ ~enabled /\ Finish(j, FALSE, NoPacket) /\ UNCHANGED <<gone, wire>>
     \/ /\ enabled
        /\ Move(j, IF job[j].op \in {"readable", "recv"} THEN "wait" ELSE "try")
  /\ UNCHANGED deviceVars

(* The buffer is as long as that of the poll that made the task. *)
JobRecv(j) ==
  /\ job[j].at = "try" /\ ~IsSend(job[j].op)
  /\ \/ ring = <<>> /\ Move(j, "wait") /\ UNCHANGED deviceVars
     \/ /\ ring # <<>>
        /\ TakePacket
        /\ \/ /\ Head(ring).size <= job[j].arg
              /\ Finish(j, TRUE, Head(ring))
              /\ UNCHANGED gone
           \/ /\ Head(ring).size > job[j].arg
              /\ Finish(j, FALSE, NoPacket)
              /\ gone' = gone \cup {Head(ring).id}
        /\ UNCHANGED wire

JobSend(j) ==
  /\ job[j].at = "try" /\ IsSend(job[j].op)
  /\ unsent < SendCap
  /\ SendPacket(job[j].arg)
  /\ Finish(j, TRUE, NoPacket)
  /\ UNCHANGED gone

(* The read event comes before the disable event and the cancel event. *)
JobWait(j) ==
  /\ job[j].at = "wait" /\ read_event
  /\ read_event' = FALSE
  /\ \/ HasCanceller(j) /\ Finish(j, TRUE, NoPacket) /\ UNCHANGED <<gone, wire>>
     \/ ~HasCanceller(j) /\ Move(j, "try")
  /\ UNCHANGED <<enabled, ring, unsent>>

Cancelled(j) == HasCanceller(j) /\ job[j].cancel

(* Mutant: a wait listens to its cancel event only. *)
JobStopsDeaf(j) ==
  /\ \/ job[j].at = "wait" /\ ~read_event /\ Cancelled(j)
     \/ /\ job[j].at = "try" /\ IsSend(job[j].op) /\ unsent = SendCap
        /\ ~enabled \/ Cancelled(j)
  /\ Finish(j, FALSE, NoPacket)
  /\ UNCHANGED <<deviceVars, gone, wire>>

(* A wait, or a send on a full ring, ends because the interface is being   *)
(* disabled or the operation cancelled.                                    *)
JobStops(j) ==
  /\ \/ job[j].at = "wait" /\ ~read_event
     \/ job[j].at = "try" /\ IsSend(job[j].op) /\ unsent = SendCap
  /\ ~enabled \/ Cancelled(j)
  /\ Finish(j, FALSE, NoPacket)
  /\ UNCHANGED <<deviceVars, gone, wire>>

(* Any other error of the driver, the timeout of send, and the flag that a *)
(* send found down while a disable failed.                                 *)
JobFails(j) ==
  /\ j \in Inside
  /\ Finish(j, FALSE, NoPacket)
  /\ UNCHANGED <<deviceVars, gone, wire>>

JobExits(j) ==
  /\ job[j].at = "exiting"
  /\ job' = [job EXCEPT ![j] =
               IF Wanted(j) THEN [@ EXCEPT !.at = "done", !.exit = TRUE]
               ELSE Free]
  /\ UNCHANGED <<deviceVars, slot, guard, pc, fut, woken, life, history>>

-----------------------------------------------------------------------------
(* The interface, Drop for AsyncDevice, and the driver *)

(* If SetEvent fails, disable puts the flag back and returns an error: the *)
(* session stays and nobody inside is woken.  For the caller of enabled    *)
(* that is a stuttering step, as is an enable that fails.                  *)
Disable ==
  /\ \E t \in Task : <<t, "enabled">> \in program.uses
  /\ dropped = "no" /\ enabled
  /\ enabled' = FALSE
  /\ UNCHANGED <<ring, read_event, unsent, job, slot, guard, pc, fut, woken,
                 life, history>>

(* disable has returned, so nobody is inside; the new session is empty. *)
Ids(s) == {s[k].id : k \in DOMAIN s}

NewSession ==
  /\ Inside = {}
  /\ ring' = <<>> /\ unsent' = 0 /\ read_event' = FALSE
  /\ gone' = gone \cup Ids(ring)

Enable ==
  /\ dropped = "no" /\ ~enabled
  /\ NewSession
  /\ enabled' = TRUE
  /\ UNCHANGED <<job, slot, guard, pc, fut, woken, life, arrived, got, data,
                 wire, okd, ended>>

(* shutdown is disable, and Drop ignores the error. *)
Shutdown ==
  \/ enabled' = FALSE
  \/ UNCHANGED enabled

(* Futures borrow the device; a task in a slot does not. *)
DropBegin ==
  /\ dropped = "no"
  /\ \A t \in Task : At(t, "idle")
  /\ dropped' = "shutdown"
  /\ Shutdown
  /\ UNCHANGED <<ring, read_event, unsent, job, slot, guard, pc, fut, woken,
                 program, history>>

(* shutdown waits for the operations inside, unless it has failed, which   *)
(* left the interface enabled; then the fields are dropped.                *)
DropFields ==
  /\ dropped = "shutdown"
  /\ enabled \/ Inside = {}
  /\ dropped' = "gone"
  /\ slot' = [c \in Channel |-> None]
  /\ job' = [j \in Job |->
               IF \A c \in Channel : slot[c] # j THEN job[j]
               ELSE IF job[j].at = "done" THEN Free
               ELSE [job[j] EXCEPT !.detached = TRUE]]
  /\ UNCHANGED <<deviceVars, guard, pc, fut, woken, program, history>>

(* The device is closed with its last reference.  The pool's tasks have    *)
(* one each, until their closure is over.                                  *)
Keeps(j) == job[j].at \in {"queued", "run", "try", "wait"}
Open == dropped # "gone" \/ \E j \in Job : Keeps(j)

Arrive ==
  /\ enabled /\ Open /\ arrived < program.maxArrived
  /\ arrived' = arrived + 1
  /\ \E n \in program.bufLen :
       ring' = Append(ring, [id |-> arrived + 1, size |-> n])
  /\ read_event' = TRUE
  /\ UNCHANGED <<enabled, unsent, job, slot, guard, pc, fut, woken, life, got,
                 gone, data, wire, okd, ended>>

Drain ==
  /\ unsent > 0
  /\ unsent' = unsent - 1
  /\ UNCHANGED <<enabled, ring, read_event, job, slot, guard, pc, fut, woken,
                 life, history>>

-----------------------------------------------------------------------------
Poll(t) ==
  \E c \in Channel :
    \/ PollTry(t, c)
    \/ PollTake(t, c)
    \/ PollSpawn(t, c)
    \/ PollPending(t, c)
    \/ PollReady(t, c)

Await(t) ==
  \/ Try(t)
  \/ AwaitJob(t)
  \/ AwaitReady(t)
  \/ CancelTrigger(t)
  \/ CancelEnds(t)

JobStep(j) ==
  \/ JobStart(j)
  \/ JobDiscard(j)
  \/ JobLock(j)
  \/ JobRecv(j)
  \/ JobSend(j)
  \/ JobWait(j)
  \/ JobStops(j)
  \/ JobExits(j)

Next ==
  \/ \E t \in Task, o \in AllOps, n \in program.bufLen \cup {data + 1} :
       Begin(t, o, n)
  \/ \E t \in Task : Poll(t)
  \/ \E t \in Task : Await(t)
  \/ \E t \in Task : Abandon(t) \/ CancelBegin(t)
  \/ \E j \in Job : JobStep(j)
  \/ \E j \in Job : JobFails(j)
  \/ Disable
  \/ Enable
  \/ DropBegin
  \/ DropFields
  \/ Arrive
  \/ Drain

(* The executor polls a task that was woken, and one that has begun a step *)
(* of its own goes on; the pool runs its tasks.  Nobody has to call, poll  *)
(* without having been woken or give up, and packets need not come.        *)
Fairness ==
  /\ \A t \in Task : WF_vars(Poll(t) /\ (t \in woken \/ At(t, "polling")))
  /\ \A t \in Task : WF_vars(Await(t))
  /\ \A j \in Job : WF_vars(JobStep(j))
  /\ WF_vars(DropFields)

Spec == Init /\ [][Next]_vars /\ Fairness

-----------------------------------------------------------------------------
(* Properties. *)

(* Where a packet may be while nobody has it: in the ring, or with the     *)
(* pool's task in the slot.                                                *)
Kept ==
  Ids(ring) \cup
    {job[j].pkt.id : j \in {i \in Job :
       \/ \E c \in Channel : slot[c] = i
       \/ \E t \in Task : At(t, "polling") /\ fut[t].job = i}}

(* No packet gets lost between two polls: what the pool's thread received  *)
(* is returned by a later poll_recv, of whichever task, or refused because *)
(* of the length of its buffer; a caller that stops polling loses none.    *)
(* And packets are returned in the order of their arrival, none twice,     *)
(* although some come from the pool and some from the ring.                *)
PollDelivers ==
  /\ dropped = "no" => 1..arrived \subseteq ToSet(got) \cup gone \cup Kept
  /\ \A a, b \in DOMAIN got : a < b => got[a] < got[b]

(* After Drop for AsyncDevice no thread of the pool keeps the device: the  *)
(* one that waits in poll_recv's task is woken by shutdown, since it has   *)
(* no cancel event.  If shutdown fails, which leaves the interface enabled *)
(* and which Drop does not notice, the fields are dropped nevertheless,    *)
(* and only a thread without a cancel event stays, in the driver.          *)
DropReleases ==
  dropped = "shutdown"
    ~> /\ dropped = "gone"
       /\ \A j \in Job :
            Keeps(j) => enabled /\ ~HasCanceller(j) /\ j \in Inside

(* Ok means sent, and nothing is sent twice: a poll_send that was Pending  *)
(* does not start over, and a send that found the ring full hands its data *)
(* to one thread only.                                                     *)
OkSentOnce ==
  /\ okd \subseteq ToSet(wire)
  /\ \A a, b \in DOMAIN wire : wire[a] = wire[b] => a = b

(* After a send future has been dropped, and the drop saw the exit event,  *)
(* the thread that worked for it sends nothing any more.                   *)
CancelledStops ==
  [][Len(wire') > Len(wire) => wire'[Len(wire')] \notin ended]_vars

(* Dropping a future ends: the thread leaves because of the cancel event,  *)
(* wherever it is, and need not be given up after 10 ms.                   *)
CancelReturns == \A t \in Task : At(t, "cancel") ~> ~At(t, "cancel")

(* An awaited recv does not sleep while there is a packet, whatever was    *)
(* cancelled before it, as long as the cancelled threads were gone in time *)
(* (one task that receives).                                               *)
RecvWakes ==
  \A t \in Task :
    ~program.exitLate /\ At(t, "await") /\ fut[t].op = "recv" /\ ring # <<>>
      ~> ~At(t, "await") \/ ring = <<>>
=============================================================================
