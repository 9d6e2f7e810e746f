-------------------------- MODULE WintunAsyncProofs --------------------------
(***************************************************************************)
(* Proofs about the asynchronous device on Windows, for any tasks, pool,   *)
(* ring size and programs: no packet is lost between two polls, Ok means   *)
(* sent once, and what is over sends nothing any more.                     *)
(*                                                                         *)
(* All of it rests on who owns a task of the pool: one future or one slot  *)
(* (OwnerInv), and the slot's mutex is held from the take to the put back  *)
(* (GuardInv).  So poll_recv has one thread, and its packet comes between  *)
(* those returned and those in the ring (PacketInv).  What is sent is      *)
(* followed from the call to its thread and to the wire (SendInv), and no  *)
(* thread is left with the data of a call that is over (EndedInv).         *)
(***************************************************************************)
EXTENDS WintunAsync, SequenceTheorems, TLAPS

-----------------------------------------------------------------------------
(* The inductive invariant. *)

Working == {"polling", "await", "trigger", "cancel"}
Awaited == {"recv", "readable", "send"}

(* Where a task is, what it calls and whether it has a task of the pool.   *)
Fits(p, f) ==
  /\ p = "idle" <=> f.op = "none"
  /\ p \in {"pending", "polling"} => f.op \in Channel
  /\ p \in {"try", "await", "trigger", "cancel"} => f.op \in Awaited
  /\ f.job # None <=> p \in Working

TaskInv ==
  \A t \in Task : Fits(pc[t], fut[t]) /\ (dropped # "no" => pc[t] = "idle")

(* A task of the pool has one owner: a future, or a slot.                  *)
OwnerInv ==
  /\ \A t \in Task : fut[t].job # None => /\ job[fut[t].job].at # "free"
                                          /\ job[fut[t].job].op = fut[t].op
  /\ \A t, u \in Task : fut[t].job # None /\ fut[t].job = fut[u].job => t = u
  /\ \A c \in Channel : slot[c] # None =>
       /\ job[slot[c]].at # "free" /\ job[slot[c]].op = c /\ ~job[slot[c]].detached
       /\ \A t \in Task : fut[t].job # slot[c]

(* The guard is held by the task that polls; the slot is empty meanwhile.  *)
GuardInv ==
  /\ \A c \in Channel : guard[c] # None =>
       /\ slot[c] = None
       /\ pc[guard[c]] = "polling" /\ fut[guard[c]].op = c
  /\ \A t \in Task : pc[t] = "polling" => /\ guard[fut[t].op] = t
                                           /\ ~job[fut[t].job].detached

(* Where the pool's tasks can be.  One of poll_recv or poll_send is not    *)
(* forgotten before the device is dropped.                                 *)
Held(j) ==
  \/ \E c \in Channel : slot[c] = j
  \/ \E t \in Task : At(t, "polling") /\ fut[t].job = j

JobShape(r) ==
  /\ r.at = "try" => r.op \in {"poll_recv", "poll_send", "send"}
  /\ r.at = "wait" => r.op \in {"poll_recv", "recv", "readable"}
  /\ r.at = "exiting" => r.op \notin Channel
  /\ r.at # "free" => r.op \in Channel \cup Awaited

JobInv ==
  \A j \in Job :
    /\ JobShape(job[j])
    /\ dropped = "no" /\ job[j].at # "free" /\ job[j].op \in Channel => Held(j)

(* The packets in the hands of the pool and in the ring, and their order.  *)
JobPkt(r) ==
  /\ r.op # "poll_recv" \/ r.at # "done" => r.pkt = NoPacket
  /\ r.pkt.id <= arrived
  /\ r.op = "poll_recv" /\ r.at = "done" /\ r.ok => r.pkt.id # 0

PacketInv ==
  /\ \A j \in Job : JobPkt(job[j])
  /\ \A a \in DOMAIN ring : ring[a].id \in 1..arrived
  /\ \A a, b \in DOMAIN ring : a < b => ring[a].id < ring[b].id
  /\ \A a \in DOMAIN got, b \in DOMAIN ring : got[a] < ring[b].id
  /\ dropped = "no" =>
       \A j \in Job : job[j].pkt.id # 0 =>
         /\ \A a \in DOMAIN got : got[a] < job[j].pkt.id
         /\ \A b \in DOMAIN ring : job[j].pkt.id < ring[b].id

(* What is sent has the number of a call. *)
DataInv ==
  /\ \A t \in Task : IsSend(fut[t].op) => fut[t].arg \in 1..data
  /\ \A j \in Job : job[j].at # "free" /\ IsSend(job[j].op) => job[j].arg \in 1..data

IInv ==
  /\ TypeOK /\ TaskInv /\ OwnerInv /\ GuardInv /\ JobInv /\ PacketInv /\ DataInv
  /\ PollDelivers

(* poll_send is left to one task, which polls until it is Ready, as the    *)
(* callers of such a function do.                                          *)
OneSender ==
  \A p \in Programs :
    /\ "poll_send" \notin p.abandons
    /\ \A t, u \in Task : <<t, "poll_send">> \in p.uses /\ <<u, "poll_send">> \in p.uses => t = u

(* Data that a call, or a thread of the pool, may still send, and the      *)
(* thread that works for a call.                                           *)
Fresh(t) ==
  \/ At(t, "try") /\ fut[t].op = "send"
  \/ At(t, "pending") /\ fut[t].op = "poll_send" /\ slot["poll_send"] = None

Busy(j) == job[j].at \in {"queued", "run", "try"} /\ IsSend(job[j].op)

WorksFor(j, t) == j = fut[t].job \/ (At(t, "pending") /\ j = slot["poll_send"])

(* Every call that sends has data of its own. *)
CallInv ==
  /\ \A t \in Task : fut[t].op # "none" => <<t, fut[t].op>> \in program.uses
  /\ \A t, u \in Task : IsSend(fut[t].op) /\ IsSend(fut[u].op) /\ fut[t].arg = fut[u].arg => t = u

(* The pool's task has the data of the call that it works for.             *)
HandInv ==
  /\ \A t \in Task : fut[t].job # None /\ IsSend(fut[t].op) => job[fut[t].job].arg = fut[t].arg
  /\ slot["poll_send"] # None =>
       \E t \in Task : /\ pc[t] = "pending" /\ fut[t].op = "poll_send"
                       /\ job[slot["poll_send"]].arg = fut[t].arg

(* What may still be sent has not been sent, and only one will send it.    *)
UnsentInv ==
  /\ \A t \in Task : Fresh(t) => fut[t].arg \notin ToSet(wire)
  /\ \A t \in Task, j \in Job : IsSend(fut[t].op) /\ Busy(j) /\ job[j].arg = fut[t].arg =>
       WorksFor(j, t)
  /\ \A j \in Job : Busy(j) => job[j].arg \notin ToSet(wire)
  /\ \A j, k \in Job : Busy(j) /\ Busy(k) /\ job[j].arg = job[k].arg => j = k

(* A thread that reports success has sent. *)
ReportInv ==
  \A j \in Job : job[j].at \in {"exiting", "done"} /\ IsSend(job[j].op) /\ job[j].ok =>
    job[j].arg \in ToSet(wire)

SendInv == CallInv /\ HandInv /\ UnsentInv /\ ReportInv /\ OkSentOnce

(* The thread of a cancelled send leaves within the time the drop waits    *)
(* for it.                                                                 *)
InTime == \A p \in Programs : p.exitLate => \A t \in Task : <<t, "send">> \notin p.uses

(* Nobody has the data of a call that is over, and a thread that set the   *)
(* exit event has gone.                                                    *)
EndedInv ==
  /\ \A t \in Task : IsSend(fut[t].op) => fut[t].arg \notin ended
  /\ \A j \in Job : Busy(j) => job[j].arg \notin ended
  /\ \A j \in Job : job[j].exit => job[j].at \in {"done", "free"}

(***************************************************************************)
(* Types of what the steps are made of.                                    *)
(***************************************************************************)

Pcs == {"idle", "polling", "pending", "try", "await", "trigger", "cancel"}
Ats == {"free", "queued", "run", "try", "wait", "exiting", "done"}

(* The fields of a task of the pool, and of a future. *)
LEMMA JobFields ==
  ASSUME NEW r \in JobType
  PROVE  /\ r.at \in Ats /\ r.op \in AllOps \cup {"none"} /\ r.arg \in Nat
         /\ r.ok \in BOOLEAN /\ r.pkt \in Packet /\ r.cancel \in BOOLEAN
         /\ r.exit \in BOOLEAN /\ r.detached \in BOOLEAN /\ r.waker \in Task \cup {None}
         /\ r.pkt.id \in Nat /\ r.pkt.size \in Nat
  BY DEF JobType, Packet, Ats

(* The fields of a future. *)
LEMMA FutFields ==
  ASSUME NEW f \in FutType
  PROVE  /\ f.op \in AllOps \cup {"none"} /\ f.arg \in Nat /\ f.job \in Job \cup {None}
  BY DEF FutType

(* The functions of the state. *)
LEMMA Types ==
  ASSUME IInv
  PROVE  /\ pc \in [Task -> Pcs] /\ fut \in [Task -> FutType] /\ job \in [Job -> JobType]
         /\ slot \in [Channel -> Job \cup {None}] /\ guard \in [Channel -> Task \cup {None}]
         /\ \A t \in Task : /\ fut[t].op \in AllOps \cup {"none"} /\ fut[t].arg \in Nat
                            /\ fut[t].job \in Job \cup {None} /\ fut[t] \in FutType
         /\ \A j \in Job : job[j] \in JobType
         /\ None \notin Task /\ None \notin Job
         /\ dropped \in {"no", "shutdown", "gone"} /\ program \in Programs
<1>1. /\ pc \in [Task -> Pcs] /\ fut \in [Task -> FutType] /\ job \in [Job -> JobType]
      /\ slot \in [Channel -> Job \cup {None}] /\ guard \in [Channel -> Task \cup {None}]
      /\ dropped \in {"no", "shutdown", "gone"} /\ program \in Programs
  BY DEF IInv, TypeOK, Pcs
<1> QED BY <1>1, FutFields, AsyncAssumption

(***************************************************************************)
(* What the steps of a task do to its place and its future.                *)
(***************************************************************************)

Moves(t) ==
  \E p \in Pcs, f \in FutType :
    /\ pc' = [pc EXCEPT ![t] = p] /\ fut' = [fut EXCEPT ![t] = f] /\ Fits(p, f)

(* Return makes the task idle and forgets its future. *)
LEMMA ReturnMoves ==
  ASSUME NEW t \in Task, NEW ok, Return(t, ok)
  PROVE  /\ pc' = [pc EXCEPT ![t] = "idle"] /\ fut' = [fut EXCEPT ![t] = Idle]
         /\ Idle \in FutType /\ Fits("idle", Idle) /\ Idle.job = None /\ Moves(t)
<1>1. pc' = [pc EXCEPT ![t] = "idle"] /\ fut' = [fut EXCEPT ![t] = Idle]
  BY DEF Return, Goto
<1>2. Idle \in FutType /\ Fits("idle", Idle) /\ Idle.job = None
  BY DEF Idle, FutType, Fits, Working
<1> QED BY <1>1, <1>2 DEF Moves, Pcs

(* The pool takes a task that nobody has.                                  *)
LEMMA SpawnMakes ==
  ASSUME IInv, NEW t \in Task, Spawn(t)
  PROVE  \E n \in Job, q \in JobType :
           /\ job[n].at = "free" /\ job' = [job EXCEPT ![n] = q]
           /\ q.at = "queued" /\ q.op = fut[t].op /\ q.arg = fut[t].arg
           /\ q.pkt = NoPacket /\ ~q.exit /\ ~q.detached /\ ~q.ok
           /\ fut' = [fut EXCEPT ![t] = [@ EXCEPT !.job = n]]
<1>1. NewJob \in Job /\ job[NewJob].at = "free"
  BY DEF Spawn, NewJob, FreeJobs
<1> DEFINE q == [Free EXCEPT !.at = "queued", !.op = fut[t].op, !.arg = fut[t].arg]
<1>2. q \in JobType /\ q.at = "queued" /\ q.op = fut[t].op /\ q.arg = fut[t].arg
      /\ q.pkt = NoPacket /\ ~q.exit /\ ~q.detached /\ ~q.ok
  BY Types DEF Free, JobType, NoPacket, Packet
<1>3. job' = [job EXCEPT ![NewJob] = q] /\ fut' = [fut EXCEPT ![t] = [@ EXCEPT !.job = NewJob]]
  BY DEF Spawn
<1> HIDE DEF q
<1> QED BY <1>1, <1>2, <1>3

(* The steps of task t. *)
TaskStep(t) ==
  \/ \E o \in AllOps, n \in program.bufLen \cup {data + 1} : Begin(t, o, n)
  \/ Poll(t) \/ Await(t) \/ Abandon(t) \/ CancelBegin(t)

(* A task changes its own place and its own future, and only while the     *)
(* device has not been dropped.                                            *)
LEMMA TaskMoves ==
  ASSUME IInv, NEW t \in Task, TaskStep(t)
  PROVE  Moves(t) /\ dropped = "no" /\ dropped' = "no" /\ program' = program
<1>1. /\ Fits(pc[t], fut[t]) /\ dropped \in {"no", "shutdown", "gone"}
      /\ dropped # "no" => pc[t] = "idle"
  BY Types DEF IInv, TaskInv
<1>2. /\ pc[t] \in Pcs /\ fut[t] \in FutType /\ fut[t].op \in AllOps \cup {"none"}
      /\ \A c \in Channel : slot[c] \in Job \cup {None}
      /\ None \notin Job
  BY Types
<1>3. ASSUME NEW o \in AllOps, NEW n \in program.bufLen \cup {data + 1}, Begin(t, o, n)
      PROVE  Moves(t) /\ dropped = "no" /\ dropped' = "no" /\ program' = program
  <2> DEFINE p == IF o \in Channel THEN "pending" ELSE "try"
             f == [op |-> o, arg |-> n, job |-> None]
  <2>1. n \in Nat
    BY AsyncAssumption DEF IInv, TypeOK, Program
  <2>2. p \in Pcs /\ f \in FutType /\ Fits(p, f)
    BY <1>3, <2>1 DEF Begin, Fits, Pcs, FutType, Channel, AllOps, Awaited, Working
  <2>3. pc' = [pc EXCEPT ![t] = p] /\ fut' = [fut EXCEPT ![t] = f]
    BY <1>3 DEF Begin, Goto
  <2> HIDE DEF p, f
  <2> QED BY <1>3, <2>2, <2>3 DEF Begin, Moves, life
<1>4. CASE TryReturns(t) /\ UNCHANGED life /\ pc[t] # "idle"
  BY <1>1, <1>4, ReturnMoves DEF TryReturns, life
<1>5. ASSUME NEW c \in Channel, PollTake(t, c)
      PROVE  Moves(t) /\ dropped = "no" /\ dropped' = "no" /\ program' = program
  <2>1. Fits("polling", [fut[t] EXCEPT !.job = slot[c]])
    BY <1>1, <1>2, <1>5 DEF PollTake, Polls, At, Fits, Working, FutType
  <2>2. [fut[t] EXCEPT !.job = slot[c]] \in FutType
    BY <1>2 DEF FutType
  <2> QED BY <1>1, <1>5, <2>1, <2>2 DEF PollTake, Polls, At, Goto, Moves, Pcs, life
<1>6. ASSUME NEW c \in Channel, PollSpawn(t, c)
      PROVE  Moves(t) /\ dropped = "no" /\ dropped' = "no" /\ program' = program
  <2>1. PICK n \in Job : fut' = [fut EXCEPT ![t] = [@ EXCEPT !.job = n]]
    BY <1>6, SpawnMakes DEF PollSpawn
  <2>2. Fits("polling", [fut[t] EXCEPT !.job = n])
    BY <1>1, <1>2, <1>6 DEF PollSpawn, Polls, At, Fits, Working, FutType
  <2>3. [fut[t] EXCEPT !.job = n] \in FutType
    BY <1>2 DEF FutType
  <2> QED BY <1>1, <1>6, <2>1, <2>2, <2>3 DEF PollSpawn, Polls, At, Goto, Moves, Pcs, life
<1>7. ASSUME NEW c \in Channel, PollPending(t, c)
      PROVE  Moves(t) /\ dropped = "no" /\ dropped' = "no" /\ program' = program
  <2>1. Fits("pending", [fut[t] EXCEPT !.job = None])
    BY <1>1, <1>2, <1>7 DEF PollPending, At, Fits, Working, FutType
  <2>2. [fut[t] EXCEPT !.job = None] \in FutType
    BY <1>2 DEF FutType
  <2> QED BY <1>1, <1>7, <2>1, <2>2 DEF PollPending, At, Goto, Moves, Pcs, life
<1>8. ASSUME NEW c \in Channel, PollReady(t, c)
      PROVE  Moves(t) /\ dropped = "no" /\ dropped' = "no" /\ program' = program
  BY <1>1, <1>8, ReturnMoves DEF PollReady, At, life
<1>9. CASE AwaitJob(t)
  <2>1. CASE Spawn(t) /\ Goto(t, "await")
    <3>1. PICK n \in Job : fut' = [fut EXCEPT ![t] = [@ EXCEPT !.job = n]]
      BY <2>1, SpawnMakes
    <3>2. Fits("await", [fut[t] EXCEPT !.job = n])
      BY <1>1, <1>2, <1>9 DEF AwaitJob, At, Fits, Working, FutType
    <3>3. [fut[t] EXCEPT !.job = n] \in FutType
      BY <1>2 DEF FutType
    <3> QED BY <1>1, <1>9, <2>1, <3>1, <3>2, <3>3 DEF AwaitJob, At, Goto, Moves, Pcs, life
  <2>2. CASE Return(t, FALSE)
    BY <1>1, <1>9, <2>2, ReturnMoves DEF AwaitJob, At, life
  <2> QED BY <1>9, <2>1, <2>2 DEF AwaitJob
<1>10. CASE AwaitReady(t)
  <2>1. CASE Goto(t, "try") /\ fut' = [fut EXCEPT ![t].job = None]
    <3>1. Fits("try", [fut[t] EXCEPT !.job = None])
      BY <1>1, <1>2, <1>10 DEF AwaitReady, At, Fits, Working, FutType
    <3>2. [fut[t] EXCEPT !.job = None] \in FutType
      BY <1>2 DEF FutType
    <3> QED BY <1>1, <1>10, <2>1, <3>1, <3>2 DEF AwaitReady, At, Goto, Moves, Pcs, life
  <2>2. CASE Return(t, job[fut[t].job].ok)
    BY <1>1, <1>10, <2>2, ReturnMoves DEF AwaitReady, At, life
  <2> QED BY <1>10, <2>1, <2>2 DEF AwaitReady
<1>11. CASE Abandon(t) \/ CancelEnds(t)
  BY <1>1, <1>11, ReturnMoves DEF Abandon, CancelEnds, At, life
<1>12. ASSUME NEW p \in Pcs, Goto(t, p), fut' = fut, Fits(p, fut[t]), UNCHANGED life,
              pc[t] # "idle"
       PROVE  Moves(t) /\ dropped = "no" /\ dropped' = "no" /\ program' = program
  <2>1. fut' = [fut EXCEPT ![t] = fut[t]]
    BY <1>12, Types
  <2> QED BY <1>1, <1>2, <1>12, <2>1 DEF Goto, Moves, life
<1>13. CASE CancelBegin(t)
  BY <1>1, <1>12, <1>13 DEF CancelBegin, At, Fits, Working, Pcs
<1>14. CASE CancelTrigger(t)
  BY <1>1, <1>12, <1>14 DEF CancelTrigger, At, Fits, Working, Pcs
<1>15. ASSUME NEW c \in Channel, PollTry(t, c)
       PROVE  Moves(t) /\ dropped = "no" /\ dropped' = "no" /\ program' = program
  BY <1>4, <1>15 DEF PollTry, Polls, At
<1>16. CASE Try(t)
  BY <1>4, <1>16 DEF Try, At
<1>17. CASE Poll(t)
  BY <1>5, <1>6, <1>7, <1>8, <1>15, <1>17 DEF Poll
<1>18. CASE Await(t)
  BY <1>9, <1>10, <1>11, <1>14, <1>16, <1>18 DEF Await
<1> QED BY <1>3, <1>11, <1>13, <1>17, <1>18 DEF TaskStep

(***************************************************************************)
(* What the steps of the pool and of the others do.                        *)
(***************************************************************************)

(* A task of the pool goes on, or ends when nobody wants it any more.      *)
GoesOn(r, q) ==
  /\ q.at \notin {"free", "queued"} /\ q.op = r.op /\ q.arg = r.arg /\ q.detached = r.detached
  /\ q.at = "try" => q.op \in {"poll_recv", "poll_send", "send"}
  /\ q.at = "wait" => q.op \in {"poll_recv", "recv", "readable"}
  /\ q.at = "exiting" => q.op \notin Channel
  /\ q.at = "run" => r.at = "queued"
  /\ q.exit => r.exit \/ q.at = "done"

JobMoves(j) ==
  /\ pc' = pc /\ fut' = fut /\ slot' = slot /\ guard' = guard
  /\ dropped' = dropped /\ program' = program
  /\ job[j].at # "free"
  /\ \E q \in JobType : /\ job' = [job EXCEPT ![j] = q]
                        /\ GoesOn(job[j], q) \/ (q = Free /\ ~Wanted(j))

(* Finish: the closure of the pool's task is over. *)
LEMMA FinishMoves ==
  ASSUME IInv, NEW j \in Job, NEW ok \in BOOLEAN, NEW pkt \in Packet, Finish(j, ok, pkt),
         job[j].at \notin {"free", "done", "exiting"}
  PROVE  JobMoves(j)
<1>1. job[j] \in JobType /\ job[j].op \in AllOps \cup {"none"}
  BY Types, JobFields
<1>2. /\ pc' = pc /\ fut' = fut /\ slot' = slot /\ guard' = guard
      /\ dropped' = dropped /\ program' = program
  BY DEF Finish, life
<1>3. CASE HasCanceller(j)
  <2> DEFINE q == [job[j] EXCEPT !.at = "exiting", !.ok = ok]
  <2>1. q \in JobType /\ GoesOn(job[j], q)
    BY <1>1, <1>3 DEF JobType, GoesOn, HasCanceller
  <2>2. job' = [job EXCEPT ![j] = q]
    BY <1>3 DEF Finish
  <2> HIDE DEF q
  <2> QED BY <1>2, <2>1, <2>2 DEF JobMoves
<1>4. CASE ~HasCanceller(j) /\ Wanted(j)
  <2> DEFINE q == [job[j] EXCEPT !.at = "done", !.ok = ok, !.pkt = pkt]
  <2>1. q \in JobType /\ GoesOn(job[j], q)
    BY <1>1 DEF JobType, GoesOn
  <2>2. job' = [job EXCEPT ![j] = q]
    BY <1>4 DEF Finish
  <2> HIDE DEF q
  <2> QED BY <1>2, <2>1, <2>2 DEF JobMoves
<1>5. CASE ~HasCanceller(j) /\ ~Wanted(j)
  <2>1. job' = [job EXCEPT ![j] = Free] /\ Free \in JobType
    BY <1>5 DEF Finish, Free, JobType, NoPacket, Packet
  <2> QED BY <1>2, <1>5, <2>1 DEF JobMoves
<1> QED BY <1>3, <1>4, <1>5

(* Move: the thread goes from one wait of the closure to the next. *)
LEMMA MoveMoves ==
  ASSUME IInv, NEW j \in Job, NEW where \in Ats, Move(j, where),
         job[j].at # "free", where \notin {"free", "queued", "exiting", "done"},
         where = "try" => job[j].op \in {"poll_recv", "poll_send", "send"},
         where = "wait" => job[j].op \in {"poll_recv", "recv", "readable"},
         where = "run" => job[j].at = "queued"
  PROVE  JobMoves(j)
<1>1. job[j] \in JobType
  BY Types
<1> DEFINE q == [job[j] EXCEPT !.at = where]
<1>2. q \in JobType /\ GoesOn(job[j], q)
  BY <1>1 DEF JobType, GoesOn, Ats
<1>3. job' = [job EXCEPT ![j] = q]
  BY DEF Move
<1> HIDE DEF q
<1> QED BY <1>2, <1>3 DEF Move, JobMoves, life

(* The ring's packets are packets. *)
LEMMA HeadPacket ==
  ASSUME IInv, ring # <<>>
  PROVE  Head(ring) = ring[1] /\ 1 \in DOMAIN ring /\ ring[1] \in Packet
  BY DEF IInv, TypeOK

(* A thread changes only its own task of the pool. *)
LEMMA JobStepMoves ==
  ASSUME IInv, NEW j \in Job, JobStep(j) \/ JobFails(j)
  PROVE  JobMoves(j)
<1>1. /\ job[j].op \in AllOps \cup {"none"} /\ job[j] \in JobType
      /\ job[j].at = "try" => job[j].op \in {"poll_recv", "poll_send", "send"}
      /\ job[j].at = "wait" => job[j].op \in {"poll_recv", "recv", "readable"}
      /\ job[j].at # "free" => job[j].op \in Channel \cup Awaited
      /\ NoPacket \in Packet
  BY Types, JobFields DEF IInv, JobInv, JobShape, Packet, NoPacket
<1>2. CASE JobStart(j)
  BY <1>1, <1>2, MoveMoves DEF JobStart, Ats
<1>3. CASE JobDiscard(j)
  BY <1>1, <1>3, FinishMoves DEF JobDiscard
<1>4. CASE JobLock(j)
  <2>1. CASE Finish(j, FALSE, NoPacket)
    BY <1>1, <1>4, <2>1, FinishMoves DEF JobLock
  <2>2. CASE Move(j, IF job[j].op \in {"readable", "recv"} THEN "wait" ELSE "try")
    <3> DEFINE where == IF job[j].op \in {"readable", "recv"} THEN "wait" ELSE "try"
    <3>1. /\ where \in Ats /\ job[j].at # "free"
          /\ where \notin {"free", "queued", "exiting", "done", "run"}
          /\ where = "wait" => job[j].op \in {"poll_recv", "recv", "readable"}
      BY <1>4 DEF JobLock, Ats
    <3>2. where = "try" => job[j].op \in {"poll_recv", "poll_send", "send"}
      BY <1>1, <1>4 DEF JobLock, Channel, Awaited
    <3> HIDE DEF where
    <3>3. Move(j, where)
      BY <2>2 DEF where
    <3> QED BY <3>1, <3>2, <3>3, MoveMoves
  <2> QED BY <1>4, <2>1, <2>2 DEF JobLock
<1>5. CASE JobRecv(j)
  <2>1. CASE Move(j, "wait")
    BY <1>1, <1>5, <2>1, MoveMoves DEF JobRecv, Ats, IsSend
  <2>2. CASE ring # <<>> /\ Finish(j, TRUE, Head(ring))
    BY <1>1, <1>5, <2>2, HeadPacket, FinishMoves DEF JobRecv
  <2>3. CASE Finish(j, FALSE, NoPacket)
    BY <1>1, <1>5, <2>3, FinishMoves DEF JobRecv
  <2> QED BY <1>5, <2>1, <2>2, <2>3 DEF JobRecv
<1>6. CASE JobSend(j)
  BY <1>1, <1>6, FinishMoves DEF JobSend
<1>7. CASE JobWait(j)
  <2>1. CASE Finish(j, TRUE, NoPacket)
    BY <1>1, <1>7, <2>1, FinishMoves DEF JobWait
  <2>2. CASE ~HasCanceller(j) /\ Move(j, "try")
    BY <1>1, <1>7, <2>2, MoveMoves DEF JobWait, HasCanceller, Channel, Ats
  <2> QED BY <1>7, <2>1, <2>2 DEF JobWait
<1>8. CASE JobStops(j)
  BY <1>1, <1>8, FinishMoves DEF JobStops
<1>9. CASE JobFails(j)
  BY <1>1, <1>9, FinishMoves DEF JobFails, Inside
<1>10. CASE JobExits(j)
  <2>0. /\ pc' = pc /\ fut' = fut /\ slot' = slot /\ guard' = guard /\ dropped' = dropped
        /\ program' = program /\ job[j].at # "free"
    BY <1>10 DEF JobExits, life
  <2>1. CASE Wanted(j)
    <3> DEFINE q == [job[j] EXCEPT !.at = "done", !.exit = TRUE]
    <3>1. q \in JobType /\ GoesOn(job[j], q)
      BY <1>1 DEF JobType, GoesOn
    <3>2. job' = [job EXCEPT ![j] = q]
      BY <1>10, <2>1 DEF JobExits
    <3> HIDE DEF q
    <3> QED BY <2>0, <3>1, <3>2 DEF JobMoves
  <2>2. CASE ~Wanted(j)
    <3>1. job' = [job EXCEPT ![j] = Free] /\ Free \in JobType
      BY <1>10, <2>2 DEF JobExits, Free, JobType, NoPacket, Packet
    <3> QED BY <2>0, <2>2, <3>1 DEF JobMoves
  <2> QED BY <2>1, <2>2
<1> QED BY <1>2, <1>3, <1>4, <1>5, <1>6, <1>7, <1>8, <1>9, <1>10 DEF JobStep

(* The steps that touch neither the tasks nor the pool. *)
Outside == Disable \/ Enable \/ Arrive \/ Drain

(* enable, disable and the driver leave the tasks and the pool alone. *)
LEMMA OutsideMoves ==
  ASSUME Outside
  PROVE  /\ pc' = pc /\ fut' = fut /\ job' = job /\ slot' = slot /\ guard' = guard
         /\ dropped' = dropped /\ program' = program
  BY DEF Outside, Disable, Enable, Arrive, Drain, life

(* Who takes a step: a task, a thread of the pool, the others, or Drop. *)
LEMMA NextCases ==
  ASSUME Next
  PROVE  \/ \E t \in Task : TaskStep(t)
         \/ \E j \in Job : JobStep(j) \/ JobFails(j)
         \/ Outside \/ DropBegin \/ DropFields
  BY DEF Next, TaskStep, Outside

(***************************************************************************)
(* TaskInv, OwnerInv, GuardInv and JobInv: who has what.                   *)
(***************************************************************************)

(* Every step keeps TaskInv: what a task has fits where it is. *)
LEMMA TaskOk ==
  ASSUME IInv, Next
  PROVE  TaskInv'
<1>1. \A t \in Task : Fits(pc[t], fut[t]) /\ (dropped # "no" => pc[t] = "idle")
  BY DEF IInv, TaskInv
<1>2. pc \in [Task -> Pcs] /\ fut \in [Task -> FutType]
  BY Types
<1>3. ASSUME NEW t \in Task, TaskStep(t) PROVE TaskInv'
  <2>1. PICK p \in Pcs, f \in FutType :
          /\ pc' = [pc EXCEPT ![t] = p] /\ fut' = [fut EXCEPT ![t] = f] /\ Fits(p, f)
    BY <1>3, TaskMoves DEF Moves
  <2>2. ASSUME NEW u \in Task PROVE Fits(pc'[u], fut'[u])
    <3>1. CASE u = t
      BY <1>2, <2>1, <3>1
    <3>2. CASE u # t
      BY <1>1, <1>2, <2>1, <3>2
    <3> QED BY <3>1, <3>2
  <2> QED BY <1>3, <2>2, TaskMoves DEF TaskInv, Fits
<1>4. ASSUME pc' = pc, fut' = fut, dropped' # "no" => \A t \in Task : pc[t] = "idle"
      PROVE  TaskInv'
  BY <1>1, <1>4 DEF TaskInv, Fits
<1>5. ASSUME NEW j \in Job, JobStep(j) \/ JobFails(j) PROVE TaskInv'
  BY <1>1, <1>4, <1>5, JobStepMoves DEF JobMoves
<1>6. CASE Outside
  BY <1>1, <1>4, <1>6, OutsideMoves
<1>7. CASE DropBegin
  BY <1>4, <1>7 DEF DropBegin, At
<1>8. CASE DropFields
  BY <1>1, <1>4, <1>8 DEF DropFields
<1> QED BY <1>3, <1>5, <1>6, <1>7, <1>8, NextCases

Owned(t) == fut[t].job # None

(* A future lets go of its pool's task, or had none; the others keep       *)
(* theirs.                                                                 *)
LEMMA LetGoOwner ==
  ASSUME IInv, NEW t \in Task, NEW f \in FutType, fut' = [fut EXCEPT ![t] = f], f.job = None,
         slot' = slot, NEW r \in JobType,
         job' = job \/ (Owned(t) /\ job' = [job EXCEPT ![fut[t].job] = r])
  PROVE  OwnerInv'
<1>1. /\ \A u \in Task : fut[u].job # None => /\ job[fut[u].job].at # "free"
                                               /\ job[fut[u].job].op = fut[u].op
      /\ \A u, v \in Task : fut[u].job # None /\ fut[u].job = fut[v].job => u = v
      /\ \A c \in Channel : slot[c] # None =>
           /\ job[slot[c]].at # "free" /\ job[slot[c]].op = c /\ ~job[slot[c]].detached
           /\ \A u \in Task : fut[u].job # slot[c]
  BY DEF IInv, OwnerInv
<1>2. /\ fut \in [Task -> FutType] /\ job \in [Job -> JobType]
      /\ slot \in [Channel -> Job \cup {None}]
      /\ \A u \in Task : fut[u].job \in Job \cup {None}
  BY Types
<1>3. /\ fut'[t] = f /\ \A u \in Task : u # t => fut'[u] = fut[u]
  BY <1>2
<1>4. ASSUME NEW j \in Job, j # fut[t].job PROVE job'[j] = job[j]
  BY <1>2, <1>4
<1>5. ASSUME NEW u \in Task, fut'[u].job # None
      PROVE  /\ job'[fut'[u].job].at # "free" /\ job'[fut'[u].job].op = fut'[u].op
  BY <1>1, <1>2, <1>3, <1>4, <1>5 DEF Owned
<1>6. ASSUME NEW u \in Task, NEW v \in Task, fut'[u].job # None, fut'[u].job = fut'[v].job
      PROVE  u = v
  BY <1>1, <1>3, <1>6
<1>7. ASSUME NEW c \in Channel, slot[c] # None
      PROVE  /\ job'[slot[c]].at # "free" /\ job'[slot[c]].op = c /\ ~job'[slot[c]].detached
             /\ \A u \in Task : fut'[u].job # slot[c]
  BY <1>1, <1>2, <1>3, <1>4, <1>7
<1> QED BY <1>5, <1>6, <1>7 DEF OwnerInv

(* A task of the pool changes and stays whose it is.                       *)
LEMMA ChangeOwner ==
  ASSUME IInv, NEW j \in Job, NEW q \in JobType, job' = [job EXCEPT ![j] = q],
         fut' = fut, slot' = slot,
         (q.op = job[j].op /\ q.at # "free") \/ \A t \in Task : fut[t].job # j,
         \A c \in Channel : slot[c] = j => q.at # "free" /\ q.op = job[j].op /\ ~q.detached
  PROVE  OwnerInv'
<1>1. /\ \A u \in Task : fut[u].job # None => /\ job[fut[u].job].at # "free"
                                               /\ job[fut[u].job].op = fut[u].op
      /\ \A u, v \in Task : fut[u].job # None /\ fut[u].job = fut[v].job => u = v
      /\ \A c \in Channel : slot[c] # None =>
           /\ job[slot[c]].at # "free" /\ job[slot[c]].op = c /\ ~job[slot[c]].detached
           /\ \A u \in Task : fut[u].job # slot[c]
  BY DEF IInv, OwnerInv
<1>2. /\ job \in [Job -> JobType] /\ slot \in [Channel -> Job \cup {None}]
      /\ \A u \in Task : fut[u].job \in Job \cup {None}
  BY Types
<1>3. job'[j] = q /\ \A k \in Job : k # j => job'[k] = job[k]
  BY <1>2
<1>4. ASSUME NEW u \in Task, fut[u].job # None
      PROVE  job'[fut[u].job].at # "free" /\ job'[fut[u].job].op = fut[u].op
  BY <1>1, <1>2, <1>3, <1>4
<1>5. ASSUME NEW c \in Channel, slot[c] # None
      PROVE  /\ job'[slot[c]].at # "free" /\ job'[slot[c]].op = c /\ ~job'[slot[c]].detached
  BY <1>1, <1>2, <1>3, <1>5
<1> QED BY <1>1, <1>4, <1>5 DEF OwnerInv

(* A future gets a new task of the pool.                                   *)
LEMMA SpawnOwner ==
  ASSUME IInv, NEW t \in Task, Spawn(t), slot' = slot
  PROVE  OwnerInv'
<1>1. /\ \A u \in Task : fut[u].job # None => /\ job[fut[u].job].at # "free"
                                               /\ job[fut[u].job].op = fut[u].op
      /\ \A u, v \in Task : fut[u].job # None /\ fut[u].job = fut[v].job => u = v
      /\ \A c \in Channel : slot[c] # None =>
           /\ job[slot[c]].at # "free" /\ job[slot[c]].op = c /\ ~job[slot[c]].detached
           /\ \A u \in Task : fut[u].job # slot[c]
  BY DEF IInv, OwnerInv
<1>2. /\ fut \in [Task -> FutType] /\ job \in [Job -> JobType]
      /\ slot \in [Channel -> Job \cup {None}] /\ None \notin Job
      /\ \A u \in Task : fut[u].job \in Job \cup {None} /\ fut[u] \in FutType
  BY Types
<1>3. PICK n \in Job, q \in JobType :
        /\ job[n].at = "free" /\ job' = [job EXCEPT ![n] = q]
        /\ q.at = "queued" /\ q.op = fut[t].op
        /\ fut' = [fut EXCEPT ![t] = [@ EXCEPT !.job = n]]
  BY SpawnMakes
<1>4. /\ job'[n] = q /\ \A k \in Job : k # n => job'[k] = job[k]
      /\ fut'[t] = [fut[t] EXCEPT !.job = n] /\ \A u \in Task : u # t => fut'[u] = fut[u]
  BY <1>2, <1>3
<1>5. /\ fut'[t].job = n /\ fut'[t].op = fut[t].op
      /\ \A u \in Task : u # t => fut'[u].job = fut[u].job
  <2>1. fut'[t].job = n /\ fut'[t].op = fut[t].op
    BY <1>2, <1>4 DEF FutType
  <2> QED BY <1>4, <2>1
<1>6. ASSUME NEW u \in Task PROVE fut[u].job # n
  BY <1>1, <1>2, <1>3
<1>7. ASSUME NEW u \in Task, fut'[u].job # None
      PROVE  /\ job'[fut'[u].job].at # "free" /\ job'[fut'[u].job].op = fut'[u].op
  <2>1. CASE u = t
    BY <1>3, <1>4, <1>5, <2>1
  <2>2. CASE u # t
    <3>1. fut'[u] = fut[u]
      BY <1>4, <2>2
    <3>2. fut[u].job \in Job /\ fut[u].job # n /\ fut[u].job # None
      BY <1>2, <1>6, <1>7, <3>1
    <3>3. job'[fut[u].job] = job[fut[u].job]
      BY <1>4, <3>2
    <3> QED BY <1>1, <3>1, <3>2, <3>3
  <2> QED BY <2>1, <2>2
<1>8. ASSUME NEW u \in Task, NEW v \in Task, fut'[u].job # None, fut'[u].job = fut'[v].job
      PROVE  u = v
  BY <1>1, <1>5, <1>6, <1>8
<1>9. ASSUME NEW c \in Channel, slot[c] # None
      PROVE  /\ job'[slot[c]].at # "free" /\ job'[slot[c]].op = c /\ ~job'[slot[c]].detached
             /\ \A u \in Task : fut'[u].job # slot[c]
  <2>1. slot[c] # n /\ slot[c] \in Job
    BY <1>1, <1>2, <1>3, <1>9
  <2>2. job'[slot[c]] = job[slot[c]]
    BY <1>4, <2>1
  <2>3. ASSUME NEW u \in Task PROVE fut'[u].job # slot[c]
    BY <1>1, <1>5, <1>9, <2>1
  <2> QED BY <1>1, <1>9, <2>2, <2>3
<1> QED BY <1>7, <1>8, <1>9 DEF OwnerInv

(* poll_recv and poll_send take the pool's task out of the slot, and put   *)
(* it back.                                                                *)
LEMMA SlotOwner ==
  ASSUME IInv, NEW t \in Task, NEW c \in Channel, PollTake(t, c) \/ PollPending(t, c)
  PROVE  OwnerInv'
<1>1. /\ \A u \in Task : fut[u].job # None => /\ job[fut[u].job].at # "free"
                                               /\ job[fut[u].job].op = fut[u].op
      /\ \A u, v \in Task : fut[u].job # None /\ fut[u].job = fut[v].job => u = v
      /\ \A d \in Channel : slot[d] # None =>
           /\ job[slot[d]].at # "free" /\ job[slot[d]].op = d /\ ~job[slot[d]].detached
           /\ \A u \in Task : fut[u].job # slot[d]
  BY DEF IInv, OwnerInv
<1>2. /\ fut \in [Task -> FutType] /\ job \in [Job -> JobType]
      /\ slot \in [Channel -> Job \cup {None}] /\ None \notin Job
      /\ \A u \in Task : fut[u].job \in Job \cup {None} /\ fut[u] \in FutType
  BY Types
<1>3. CASE PollTake(t, c)
  <2>1. /\ slot[c] # None /\ job' = job /\ slot' = [slot EXCEPT ![c] = None]
        /\ fut' = [fut EXCEPT ![t] = [@ EXCEPT !.job = slot[c]]] /\ fut[t].op = c
    BY <1>3 DEF PollTake, Polls
  <2>2. /\ fut'[t].job = slot[c] /\ fut'[t].op = c
        /\ \A u \in Task : u # t => fut'[u] = fut[u]
    BY <1>2, <2>1 DEF FutType
  <2>3. slot'[c] = None /\ \A d \in Channel : d # c => slot'[d] = slot[d]
    BY <1>2, <2>1
  <2>4. ASSUME NEW u \in Task, fut'[u].job # None
        PROVE  /\ job[fut'[u].job].at # "free" /\ job[fut'[u].job].op = fut'[u].op
    <3>1. CASE u = t
      BY <1>1, <2>1, <2>2, <3>1
    <3>2. CASE u # t
      BY <1>1, <2>2, <2>4, <3>2
    <3> QED BY <3>1, <3>2
  <2>5. ASSUME NEW u \in Task, NEW v \in Task, fut'[u].job # None, fut'[u].job = fut'[v].job
        PROVE  u = v
    BY <1>1, <2>1, <2>2, <2>5
  <2>6. ASSUME NEW d \in Channel, slot'[d] # None
        PROVE  /\ job[slot'[d]].at # "free" /\ job[slot'[d]].op = d /\ ~job[slot'[d]].detached
               /\ \A u \in Task : fut'[u].job # slot'[d]
    <3>1. d # c /\ slot'[d] = slot[d] /\ slot[d] # slot[c]
      BY <1>1, <2>1, <2>3, <2>6
    <3> QED BY <1>1, <2>2, <2>6, <3>1
  <2> QED BY <2>1, <2>4, <2>5, <2>6 DEF OwnerInv
<1>4. CASE PollPending(t, c)
  <2> DEFINE j == fut[t].job
             q == [job[j] EXCEPT !.waker = t]
  <2>1. /\ pc[t] = "polling" /\ fut[t].op = c /\ slot' = [slot EXCEPT ![c] = j]
        /\ job' = [job EXCEPT ![j] = q]
        /\ fut' = [fut EXCEPT ![t] = [@ EXCEPT !.job = None]]
    BY <1>4 DEF PollPending, PutBack, At
  <2>2. j # None /\ j \in Job /\ job[j] \in JobType /\ slot[c] # j
        /\ job[j].at # "free" /\ job[j].op = c /\ ~job[j].detached
    <3>1. j # None
      BY <2>1 DEF IInv, TaskInv, Fits, Working
    <3>2. job[j].at # "free" /\ job[j].op = c /\ slot[c] # j /\ j \in Job
      BY <1>1, <1>2, <2>1, <3>1
    <3>3. ~job[j].detached
      BY <2>1, <3>1, <3>2 DEF IInv, GuardInv
    <3> QED BY <1>2, <3>1, <3>2, <3>3
  <2>3. q \in JobType /\ q.at = job[j].at /\ q.op = job[j].op /\ q.detached = job[j].detached
    BY <2>2 DEF JobType
  <2>4. job'[j] = q /\ \A k \in Job : k # j => job'[k] = job[k]
    BY <1>2, <2>1, <2>2
  <2>5. /\ fut'[t].job = None /\ \A u \in Task : u # t => fut'[u] = fut[u]
    BY <1>2, <2>1 DEF FutType
  <2>6. slot'[c] = j /\ \A d \in Channel : d # c => slot'[d] = slot[d]
    BY <1>2, <2>1
  <2>10. \A u \in Task : u # t => fut[u].job # j
    BY <1>1, <2>2
  <2> HIDE DEF j, q
  <2>7. ASSUME NEW u \in Task, fut'[u].job # None
        PROVE  /\ job'[fut'[u].job].at # "free" /\ job'[fut'[u].job].op = fut'[u].op
    <3>1. u # t /\ fut'[u] = fut[u] /\ fut[u].job # j /\ fut[u].job \in Job /\ fut[u].job # None
      BY <1>2, <2>5, <2>7, <2>10
    <3>2. job'[fut[u].job] = job[fut[u].job]
      BY <2>4, <3>1
    <3> QED BY <1>1, <3>1, <3>2
  <2>8. ASSUME NEW u \in Task, NEW v \in Task, fut'[u].job # None, fut'[u].job = fut'[v].job
        PROVE  u = v
    BY <1>1, <2>5, <2>8
  <2>9. ASSUME NEW d \in Channel, slot'[d] # None
        PROVE  /\ job'[slot'[d]].at # "free" /\ job'[slot'[d]].op = d /\ ~job'[slot'[d]].detached
               /\ \A u \in Task : fut'[u].job # slot'[d]
    <3>1. CASE d = c
      BY <2>2, <2>3, <2>4, <2>5, <2>6, <2>10, <3>1
    <3>2. CASE d # c
      <4>1. slot'[d] = slot[d] /\ slot[d] \in Job /\ slot[d] # j
        BY <1>1, <1>2, <2>2, <2>6, <2>9, <3>2
      <4>2. job'[slot[d]] = job[slot[d]]
        BY <2>4, <4>1
      <4> QED BY <1>1, <2>5, <2>9, <4>1, <4>2
    <3> QED BY <3>1, <3>2
  <2> QED BY <2>7, <2>8, <2>9 DEF OwnerInv
<1> QED BY <1>3, <1>4

(* Every step keeps OwnerInv: a task of the pool has one owner, across     *)
(* spawn, put back, take and cancel.                                       *)
LEMMA OwnerOk ==
  ASSUME IInv, Next
  PROVE  OwnerInv'
<1>0. /\ fut \in [Task -> FutType] /\ job \in [Job -> JobType] /\ None \notin Job
      /\ \A t \in Task : fut[t].job \in Job \cup {None} /\ fut[t] \in FutType
      /\ \A j \in Job : job[j] \in JobType
      /\ \A c \in Channel : slot[c] \in Job \cup {None}
      /\ Free \in JobType
  BY Types DEF Free, JobType, NoPacket, Packet
<1>1. /\ \A t \in Task : Fits(pc[t], fut[t])
      /\ \A c \in Channel : slot[c] # None => ~job[slot[c]].detached
      /\ \A c \in Channel, t \in Task : slot[c] # None => fut[t].job # slot[c]
  BY DEF IInv, TaskInv, OwnerInv
<1>2. ASSUME NEW t \in Task, NEW ok, Return(t, ok), slot' = slot,
             \/ job' = job
             \/ fut[t].job # None /\ \E r \in JobType : job' = [job EXCEPT ![fut[t].job] = r]
      PROVE  OwnerInv'
  <2>1. fut' = [fut EXCEPT ![t] = Idle] /\ Idle \in FutType /\ Idle.job = None
    BY <1>2, ReturnMoves
  <2>2. \E r \in JobType : job' = job \/ (Owned(t) /\ job' = [job EXCEPT ![fut[t].job] = r])
    BY <1>0, <1>2 DEF Owned
  <2> HIDE DEF Idle, Owned
  <2> QED BY <1>2, <2>1, <2>2, LetGoOwner
<1>3. ASSUME NEW t \in Task, NEW o \in AllOps, NEW n \in program.bufLen \cup {data + 1},
             Begin(t, o, n)
      PROVE  OwnerInv'
  <2> DEFINE f == [op |-> o, arg |-> n, job |-> None]
  <2>1. n \in Nat
    BY AsyncAssumption DEF IInv, TypeOK, Program
  <2>2. f \in FutType /\ f.job = None
    BY <2>1 DEF FutType
  <2>3. fut' = [fut EXCEPT ![t] = f] /\ slot' = slot /\ job' = job
    BY <1>3 DEF Begin
  <2> HIDE DEF f
  <2> QED BY <1>0, <2>2, <2>3, LetGoOwner
<1>4. ASSUME NEW t \in Task, Poll(t) PROVE OwnerInv'
  <2>1. ASSUME NEW c \in Channel, PollTry(t, c) PROVE OwnerInv'
    BY <1>2, <2>1 DEF PollTry, TryReturns
  <2>2. ASSUME NEW c \in Channel, PollSpawn(t, c) PROVE OwnerInv'
    BY <2>2, SpawnOwner DEF PollSpawn
  <2>3. ASSUME NEW c \in Channel, PollReady(t, c) PROVE OwnerInv'
    <3>1. slot' = slot /\ job' = [job EXCEPT ![fut[t].job] = Free] /\ fut[t].job # None
      BY <1>1, <2>3 DEF PollReady, At, Fits, Working
    <3>2. \E ok : Return(t, ok)
      BY <2>3 DEF PollReady
    <3> QED BY <1>0, <1>2, <3>1, <3>2
  <2> QED BY <1>4, <2>1, <2>2, <2>3, SlotOwner DEF Poll
<1>5. ASSUME NEW t \in Task, Await(t) PROVE OwnerInv'
  <2>1. CASE Try(t)
    BY <1>2, <2>1 DEF Try, TryReturns
  <2>2. CASE AwaitJob(t)
    BY <1>2, <2>2, SpawnOwner DEF AwaitJob
  <2>3. CASE AwaitReady(t)
    <3>1. slot' = slot /\ job' = [job EXCEPT ![fut[t].job] = Free] /\ fut[t].job # None
      BY <1>1, <2>3 DEF AwaitReady, At, Fits, Working
    <3>2. CASE fut' = [fut EXCEPT ![t].job = None]
      <4>1. [fut[t] EXCEPT !.job = None] \in FutType /\ [fut[t] EXCEPT !.job = None].job = None
        BY <1>0 DEF FutType
      <4> QED BY <1>0, <3>1, <3>2, <4>1, LetGoOwner DEF Owned
    <3>3. CASE Return(t, job[fut[t].job].ok)
      BY <1>0, <1>2, <3>1, <3>3
    <3> QED BY <2>3, <3>2, <3>3 DEF AwaitReady
  <2>4. CASE CancelTrigger(t)
    <3> DEFINE j == fut[t].job
               q == [job[j] EXCEPT !.cancel = TRUE]
    <3>1. /\ fut' = fut /\ slot' = slot /\ job' = [job EXCEPT ![j] = q] /\ j \in Job
          /\ job[j].at # "free"
      BY <1>0, <1>1, <2>4 DEF CancelTrigger, Trigger, At, Fits, Working, IInv, OwnerInv
    <3>2. q \in JobType /\ q.op = job[j].op /\ q.at = job[j].at
      BY <1>0, <3>1 DEF JobType
    <3>3. \A c \in Channel : slot[c] # j
      BY <1>0, <1>1, <3>1
    <3> HIDE DEF j, q
    <3> QED BY <3>1, <3>2, <3>3, ChangeOwner
  <2>5. CASE CancelEnds(t)
    <3> DEFINE r == IF job[fut[t].job].at = "done" THEN Free ELSE job[fut[t].job]
    <3>1. slot' = slot /\ job' = [job EXCEPT ![fut[t].job] = r] /\ fut[t].job # None
      BY <1>1, <2>5 DEF CancelEnds, At, Fits, Working
    <3>2. r \in JobType
      BY <1>0, <3>1
    <3> HIDE DEF r
    <3> QED BY <1>2, <2>5, <3>1, <3>2 DEF CancelEnds
  <2> QED BY <1>5, <2>1, <2>2, <2>3, <2>4, <2>5 DEF Await
<1>6. ASSUME NEW t \in Task, CancelBegin(t) PROVE OwnerInv'
  <2> DEFINE j == fut[t].job
             q == [job[j] EXCEPT !.detached = TRUE]
  <2>1. /\ fut' = fut /\ slot' = slot /\ job' = [job EXCEPT ![j] = q] /\ j \in Job
        /\ job[j].at # "free"
    BY <1>0, <1>1, <1>6 DEF CancelBegin, At, Fits, Working, IInv, OwnerInv
  <2>2. q \in JobType /\ q.op = job[j].op /\ q.at = job[j].at
    BY <1>0, <2>1 DEF JobType
  <2>3. \A c \in Channel : slot[c] # j
    BY <1>0, <1>1, <2>1
  <2> HIDE DEF j, q
  <2> QED BY <2>1, <2>2, <2>3, ChangeOwner
<1>7. ASSUME NEW t \in Task, TaskStep(t) PROVE OwnerInv'
  BY <1>2, <1>3, <1>4, <1>5, <1>6, <1>7 DEF TaskStep, Abandon
<1>8. ASSUME NEW j \in Job, JobStep(j) \/ JobFails(j) PROVE OwnerInv'
  <2>0. JobMoves(j)
    BY <1>8, JobStepMoves
  <2>1. PICK q \in JobType : /\ job' = [job EXCEPT ![j] = q]
                             /\ GoesOn(job[j], q) \/ (q = Free /\ ~Wanted(j))
    BY <2>0 DEF JobMoves
  <2>2. fut' = fut /\ slot' = slot
    BY <2>0 DEF JobMoves
  <2>3. CASE GoesOn(job[j], q)
    <3>1. q.op = job[j].op /\ q.at # "free" /\ q.detached = job[j].detached
      BY <2>3 DEF GoesOn
    <3>2. \A c \in Channel : slot[c] = j => ~q.detached
      BY <1>0, <1>1, <3>1
    <3> QED BY <2>1, <2>2, <3>1, <3>2, ChangeOwner
  <2>4. CASE ~Wanted(j)
    <3>1. /\ \A t \in Task : fut[t].job # j
          /\ \A c \in Channel : slot[c] # j
      BY <1>0, <1>1, <2>4 DEF Wanted
    <3> QED BY <2>1, <2>2, <3>1, ChangeOwner
  <2> QED BY <2>1, <2>3, <2>4
<1>9. CASE Outside \/ DropBegin
  <2>1. fut' = fut /\ job' = job /\ slot' = slot
    BY <1>9, OutsideMoves DEF DropBegin
  <2> QED BY <2>1 DEF IInv, OwnerInv
<1>10. CASE DropFields
  <2>1. fut' = fut /\ \A c \in Channel : slot'[c] = None
    BY <1>10 DEF DropFields
  <2>2. \A t \in Task : fut[t].job = None
    BY <1>10 DEF DropFields, IInv, TaskInv, Fits, Working
  <2> QED BY <2>1, <2>2 DEF OwnerInv
<1> QED BY <1>7, <1>8, <1>9, <1>10, NextCases

(* A task that neither polls nor begins to, and leaves the slots and the   *)
(* pool's tasks of the others alone, disturbs nobody's guard and nobody's  *)
(* hold on a task of the pool.                                             *)
LEMMA GuardKept ==
  ASSUME IInv, NEW t \in Task, guard' = guard, slot' = slot, Moves(t),
         pc[t] # "polling", pc'[t] # "polling",
         \A u \in Task : pc[u] = "polling" => job'[fut[u].job] = job[fut[u].job]
  PROVE  GuardInv' /\ \A k \in Job : Held(k) => Held(k)'
<1>1. PICK p \in Pcs, f \in FutType :
        pc' = [pc EXCEPT ![t] = p] /\ fut' = [fut EXCEPT ![t] = f]
  BY DEF Moves
<1>2. \A u \in Task : u # t => pc'[u] = pc[u] /\ fut'[u] = fut[u]
  BY <1>1, Types
<1>3. \A c \in Channel : guard[c] \in Task \cup {None}
  BY Types
<1>4. GuardInv
  BY DEF IInv
<1>5. ASSUME NEW c \in Channel, guard[c] # None
      PROVE  slot[c] = None /\ pc'[guard[c]] = "polling" /\ fut'[guard[c]].op = c
  BY <1>2, <1>3, <1>4, <1>5 DEF GuardInv
<1>6. ASSUME NEW u \in Task, pc'[u] = "polling"
      PROVE  guard[fut'[u].op] = u /\ ~job'[fut'[u].job].detached
  BY <1>2, <1>4, <1>6 DEF GuardInv
<1>7. ASSUME NEW k \in Job, Held(k) PROVE Held(k)'
  BY <1>2, <1>7 DEF Held, At
<1> QED BY <1>5, <1>6, <1>7 DEF GuardInv

(* What is the same for both invariants about the pool.                    *)
PoolInv == GuardInv /\ JobInv

(* A step that leaves the guards and the slots as they are and changes at  *)
(* most the task of readable, recv or send keeps GuardInv and JobInv.      *)
LEMMA PoolKept ==
  ASSUME IInv, NEW t \in Task, guard' = guard, slot' = slot, Moves(t), dropped = "no",
         pc[t] # "polling", pc'[t] # "polling",
         \/ job' = job
         \/ /\ fut[t].job # None
            /\ \E r \in JobType : /\ job' = [job EXCEPT ![fut[t].job] = r] /\ JobShape(r)
                                  /\ r.op \notin Channel
  PROVE  PoolInv'
<1>1. /\ job \in [Job -> JobType] /\ \A u \in Task : fut[u].job \in Job \cup {None}
  BY Types
<1>2. \A u \in Task : pc[u] = "polling" => job'[fut[u].job] = job[fut[u].job]
  <2> SUFFICES ASSUME NEW u \in Task, pc[u] = "polling"
               PROVE  job'[fut[u].job] = job[fut[u].job]
    OBVIOUS
  <2>1. fut[u].job # None /\ (fut[u].job = fut[t].job => u = t)
    BY DEF IInv, TaskInv, Fits, Working, OwnerInv
  <2> QED BY <1>1, <2>1
<1>3. GuardInv' /\ \A k \in Job : Held(k) => Held(k)'
  BY <1>2, GuardKept
<1>4. ASSUME NEW k \in Job
      PROVE  /\ JobShape(job'[k])
             /\ job'[k].at # "free" /\ job'[k].op \in Channel => Held(k)'
  <2>1. /\ JobShape(job[k]) /\ (job[k].at # "free" /\ job[k].op \in Channel => Held(k))
    BY DEF IInv, JobInv
  <2>2. CASE job'[k] = job[k]
    BY <1>3, <2>1, <2>2
  <2>3. CASE job'[k] # job[k]
    <3>1. PICK r \in JobType : /\ job' = [job EXCEPT ![fut[t].job] = r] /\ JobShape(r)
                               /\ r.op \notin Channel
      BY <2>3
    <3>2. job'[k] = r
      BY <1>1, <2>3, <3>1
    <3> QED BY <3>1, <3>2
  <2> QED BY <2>2, <2>3
<1> QED BY <1>3, <1>4 DEF PoolInv, JobInv, JobShape

(* The steps of poll_recv and poll_send under the guard.                   *)
LEMMA PollPool ==
  ASSUME IInv, NEW t \in Task, NEW c \in Channel,
         PollTake(t, c) \/ PollSpawn(t, c) \/ PollPending(t, c) \/ PollReady(t, c)
  PROVE  PoolInv'
<1>0. /\ fut \in [Task -> FutType] /\ job \in [Job -> JobType] /\ None \notin Job
      /\ None \notin Task /\ pc \in [Task -> Pcs]
      /\ slot \in [Channel -> Job \cup {None}] /\ guard \in [Channel -> Task \cup {None}]
      /\ \A u \in Task : fut[u].job \in Job \cup {None} /\ fut[u] \in FutType
      /\ \A j \in Job : job[j] \in JobType
  BY Types
<1>1. /\ GuardInv /\ OwnerInv /\ \A u \in Task : Fits(pc[u], fut[u])
      /\ \A k \in Job : JobShape(job[k])
                        /\ (job[k].at # "free" /\ job[k].op \in Channel => Held(k))
  <2>1. dropped = "no"
    BY TaskMoves DEF TaskStep, Poll
  <2> QED BY <2>1 DEF IInv, TaskInv, JobInv
<1>2. CASE PollTake(t, c)
  <2>1. /\ pc[t] = "pending" /\ fut[t].op = c /\ guard[c] = None /\ slot[c] # None /\ job' = job
        /\ slot' = [slot EXCEPT ![c] = None] /\ guard' = [guard EXCEPT ![c] = t]
        /\ fut' = [fut EXCEPT ![t] = [@ EXCEPT !.job = slot[c]]]
        /\ pc' = [pc EXCEPT ![t] = "polling"]
    BY <1>2 DEF PollTake, Polls, At, Goto
  <2>2. /\ pc'[t] = "polling" /\ fut'[t].job = slot[c] /\ fut'[t].op = c
        /\ guard'[c] = t /\ slot'[c] = None
    BY <1>0, <2>1 DEF FutType
  <2>3. /\ \A u \in Task : u # t => pc'[u] = pc[u] /\ fut'[u] = fut[u]
        /\ \A d \in Channel : d # c => slot'[d] = slot[d] /\ guard'[d] = guard[d]
    BY <1>0, <2>1
  <2>4. ASSUME NEW k \in Job, Held(k) PROVE Held(k)'
    <3>1. CASE slot[c] = k
      BY <2>2, <3>1 DEF Held, At
    <3>2. ASSUME NEW d \in Channel, d # c, slot[d] = k PROVE Held(k)'
      BY <2>3, <3>2 DEF Held
    <3>3. ASSUME NEW u \in Task, pc[u] = "polling", fut[u].job = k PROVE Held(k)'
      BY <2>1, <2>3, <3>3 DEF Held, At
    <3> QED BY <2>4, <3>1, <3>2, <3>3 DEF Held, At
  <2>5. ASSUME NEW d \in Channel, guard'[d] # None
        PROVE  slot'[d] = None /\ pc'[guard'[d]] = "polling" /\ fut'[guard'[d]].op = d
    <3>1. CASE d = c
      BY <2>2, <3>1
    <3>2. CASE d # c
      <4>1. guard'[d] = guard[d] /\ slot'[d] = slot[d] /\ guard[d] \in Task
        BY <1>0, <2>3, <2>5, <3>2
      <4>2. slot[d] = None /\ pc[guard[d]] = "polling" /\ fut[guard[d]].op = d
        BY <1>1, <2>5, <4>1 DEF GuardInv
      <4>3. guard[d] # t
        BY <2>1, <4>2
      <4> QED BY <2>3, <4>1, <4>2, <4>3
    <3> QED BY <3>1, <3>2
  <2>6. ASSUME NEW u \in Task, pc'[u] = "polling"
        PROVE  guard'[fut'[u].op] = u /\ ~job'[fut'[u].job].detached
    <3>1. CASE u = t
      BY <1>1, <2>1, <2>2, <3>1 DEF OwnerInv
    <3>2. CASE u # t
      <4>1. pc[u] = "polling" /\ fut'[u] = fut[u] /\ fut[u].op \in Channel
        BY <1>1, <2>3, <2>6, <3>2 DEF Fits
      <4>2. guard[fut[u].op] = u /\ ~job[fut[u].job].detached
        BY <1>1, <4>1 DEF GuardInv
      <4>3. fut[u].op # c
        BY <1>0, <2>1, <4>2
      <4> QED BY <2>1, <2>3, <4>1, <4>2, <4>3
    <3> QED BY <3>1, <3>2
  <2> QED BY <1>1, <2>1, <2>4, <2>5, <2>6 DEF PoolInv, GuardInv, JobInv
<1>3. CASE PollSpawn(t, c)
  <2>0. PICK n \in Job, q \in JobType :
          /\ job[n].at = "free" /\ job' = [job EXCEPT ![n] = q]
          /\ q.at = "queued" /\ q.op = fut[t].op /\ ~q.detached
          /\ fut' = [fut EXCEPT ![t] = [@ EXCEPT !.job = n]]
    BY <1>3, SpawnMakes DEF PollSpawn
  <2>1. /\ pc[t] = "pending" /\ fut[t].op = c /\ guard[c] = None /\ slot[c] = None
        /\ slot' = slot /\ guard' = [guard EXCEPT ![c] = t]
        /\ pc' = [pc EXCEPT ![t] = "polling"]
    BY <1>3 DEF PollSpawn, Polls, At, Goto
  <2>2. /\ pc'[t] = "polling" /\ fut'[t].job = n /\ fut'[t].op = c
        /\ guard'[c] = t /\ job'[n] = q
    BY <1>0, <2>0, <2>1 DEF FutType
  <2>3. /\ \A u \in Task : u # t => pc'[u] = pc[u] /\ fut'[u] = fut[u]
        /\ \A d \in Channel : d # c => guard'[d] = guard[d]
        /\ \A k \in Job : k # n => job'[k] = job[k]
    BY <1>0, <2>0, <2>1
  <2>4. ASSUME NEW k \in Job, k = n \/ Held(k) PROVE Held(k)'
    <3>1. CASE k = n
      BY <2>2, <3>1 DEF Held, At
    <3>2. ASSUME NEW d \in Channel, slot[d] = k PROVE Held(k)'
      BY <2>1, <3>2 DEF Held
    <3>3. ASSUME NEW u \in Task, pc[u] = "polling", fut[u].job = k PROVE Held(k)'
      BY <2>1, <2>3, <3>3 DEF Held, At
    <3> QED BY <2>4, <3>1, <3>2, <3>3 DEF Held, At
  <2>5. ASSUME NEW d \in Channel, guard'[d] # None
        PROVE  slot'[d] = None /\ pc'[guard'[d]] = "polling" /\ fut'[guard'[d]].op = d
    <3>1. CASE d = c
      BY <2>1, <2>2, <3>1
    <3>2. CASE d # c
      <4>1. guard'[d] = guard[d] /\ slot'[d] = slot[d] /\ guard[d] \in Task
        BY <1>0, <2>1, <2>3, <2>5, <3>2
      <4>2. slot[d] = None /\ pc[guard[d]] = "polling" /\ fut[guard[d]].op = d
        BY <1>1, <2>5, <4>1 DEF GuardInv
      <4>3. guard[d] # t
        BY <2>1, <4>2
      <4> QED BY <2>3, <4>1, <4>2, <4>3
    <3> QED BY <3>1, <3>2
  <2>6. ASSUME NEW u \in Task, pc'[u] = "polling"
        PROVE  guard'[fut'[u].op] = u /\ ~job'[fut'[u].job].detached
    <3>1. CASE u = t
      BY <2>0, <2>2, <3>1
    <3>2. CASE u # t
      <4>1. pc[u] = "polling" /\ fut'[u] = fut[u] /\ fut[u].op \in Channel
        BY <1>1, <2>3, <2>6, <3>2 DEF Fits
      <4>2. /\ guard[fut[u].op] = u /\ ~job[fut[u].job].detached
            /\ fut[u].job # n /\ fut[u].job \in Job
        BY <1>0, <1>1, <2>0, <4>1 DEF GuardInv, OwnerInv, Fits, Working
      <4>3. fut[u].op # c
        BY <1>0, <2>1, <4>2
      <4> QED BY <2>3, <4>1, <4>2, <4>3
    <3> QED BY <3>1, <3>2
  <2>7. ASSUME NEW k \in Job
        PROVE  /\ JobShape(job'[k])
               /\ job'[k].at # "free" /\ job'[k].op \in Channel => Held(k)'
    <3>1. CASE k = n
      BY <2>0, <2>1, <2>2, <2>4, <3>1 DEF JobShape
    <3>2. CASE k # n
      BY <1>1, <2>3, <2>4, <3>2
    <3> QED BY <3>1, <3>2
  <2> QED BY <2>5, <2>6, <2>7 DEF PoolInv, GuardInv, JobInv, JobShape
<1>4. CASE PollPending(t, c)
  <2> DEFINE j == fut[t].job
             q == [job[j] EXCEPT !.waker = t]
  <2>1. /\ pc[t] = "polling" /\ fut[t].op = c /\ slot' = [slot EXCEPT ![c] = j]
        /\ job' = [job EXCEPT ![j] = q] /\ guard' = [guard EXCEPT ![c] = None]
        /\ fut' = [fut EXCEPT ![t] = [@ EXCEPT !.job = None]]
        /\ pc' = [pc EXCEPT ![t] = "pending"]
    BY <1>4 DEF PollPending, PutBack, At, Goto
  <2>2. /\ j # None /\ j \in Job /\ guard[c] = t /\ slot[c] = None /\ ~job[j].detached
        /\ \A u \in Task : fut[u].job = j => u = t
    BY <1>0, <1>1, <2>1 DEF GuardInv, OwnerInv, Fits, Working
  <2>3. q.at = job[j].at /\ q.op = job[j].op /\ q.detached = job[j].detached
    BY <1>0, <2>2 DEF JobType
  <2>4. /\ pc'[t] = "pending" /\ guard'[c] = None /\ slot'[c] = j /\ job'[j] = q
    BY <1>0, <2>1, <2>2
  <2>5. /\ \A u \in Task : u # t => pc'[u] = pc[u] /\ fut'[u] = fut[u]
        /\ \A d \in Channel : d # c => slot'[d] = slot[d] /\ guard'[d] = guard[d]
        /\ \A k \in Job : k # j => job'[k] = job[k]
    BY <1>0, <2>1
  <2> HIDE DEF j, q
  <2>6. ASSUME NEW k \in Job, Held(k) PROVE Held(k)'
    <3>1. CASE k = j
      BY <2>4, <3>1 DEF Held
    <3>2. ASSUME NEW d \in Channel, slot[d] = k PROVE Held(k)'
      BY <1>0, <2>2, <2>5, <3>2 DEF Held
    <3>3. ASSUME NEW u \in Task, pc[u] = "polling", fut[u].job = k, k # j PROVE Held(k)'
      <4>1. u # t
        BY <3>3 DEF j
      <4> QED BY <2>5, <3>3, <4>1 DEF Held, At
    <3> QED BY <2>6, <3>1, <3>2, <3>3 DEF Held, At
  <2>7. ASSUME NEW d \in Channel, guard'[d] # None
        PROVE  slot'[d] = None /\ pc'[guard'[d]] = "polling" /\ fut'[guard'[d]].op = d
    <3>1. d # c
      BY <2>4, <2>7
    <3>2. guard'[d] = guard[d] /\ slot'[d] = slot[d] /\ guard[d] \in Task
      BY <1>0, <2>5, <2>7, <3>1
    <3>3. slot[d] = None /\ pc[guard[d]] = "polling" /\ fut[guard[d]].op = d
      BY <1>1, <2>7, <3>2 DEF GuardInv
    <3>4. guard[d] # t
      BY <2>1, <3>1, <3>3
    <3> QED BY <2>5, <3>2, <3>3, <3>4
  <2>8. ASSUME NEW u \in Task, pc'[u] = "polling"
        PROVE  guard'[fut'[u].op] = u /\ ~job'[fut'[u].job].detached
    <3>1. u # t
      BY <2>4, <2>8
    <3>2. pc[u] = "polling" /\ fut'[u] = fut[u] /\ fut[u].op \in Channel
      BY <1>1, <2>5, <2>8, <3>1 DEF Fits
    <3>3. guard[fut[u].op] = u /\ ~job[fut[u].job].detached
      BY <1>1, <3>2 DEF GuardInv
    <3>4. fut[u].op # c /\ fut[u].job # j /\ fut[u].job \in Job
      BY <1>0, <1>1, <2>2, <3>1, <3>2, <3>3 DEF Fits, Working
    <3> QED BY <2>5, <3>1, <3>2, <3>3, <3>4
  <2>9. ASSUME NEW k \in Job
        PROVE  /\ JobShape(job'[k])
               /\ job'[k].at # "free" /\ job'[k].op \in Channel => Held(k)'
    <3>1. job'[k].at = job[k].at /\ job'[k].op = job[k].op
      BY <2>3, <2>4, <2>5
    <3> QED BY <1>1, <2>6, <3>1 DEF JobShape
  <2> QED BY <2>7, <2>8, <2>9 DEF PoolInv, GuardInv, JobInv, JobShape
<1>5. CASE PollReady(t, c)
  <2> DEFINE j == fut[t].job
  <2>1. /\ pc[t] = "polling" /\ fut[t].op = c /\ slot' = slot
        /\ job' = [job EXCEPT ![j] = Free] /\ guard' = [guard EXCEPT ![c] = None]
        /\ fut' = [fut EXCEPT ![t] = Idle] /\ pc' = [pc EXCEPT ![t] = "idle"]
    BY <1>5 DEF PollReady, At, Return, Goto
  <2>2. /\ j # None /\ j \in Job /\ guard[c] = t
        /\ \A u \in Task : fut[u].job = j => u = t
        /\ \A d \in Channel : slot[d] # j
    BY <1>0, <1>1, <2>1 DEF GuardInv, OwnerInv, Fits, Working
  <2>3. /\ pc'[t] = "idle" /\ guard'[c] = None /\ job'[j] = Free
    BY <1>0, <2>1, <2>2
  <2>4. /\ \A u \in Task : u # t => pc'[u] = pc[u] /\ fut'[u] = fut[u]
        /\ \A d \in Channel : d # c => guard'[d] = guard[d]
        /\ \A k \in Job : k # j => job'[k] = job[k]
    BY <1>0, <2>1
  <2> HIDE DEF j
  <2>5. ASSUME NEW k \in Job, k # j, Held(k) PROVE Held(k)'
    <3>1. ASSUME NEW d \in Channel, slot[d] = k PROVE Held(k)'
      BY <2>1, <3>1 DEF Held
    <3>2. ASSUME NEW u \in Task, pc[u] = "polling", fut[u].job = k PROVE Held(k)'
      <4>1. u # t
        BY <2>5, <3>2 DEF j
      <4> QED BY <2>4, <3>2, <4>1 DEF Held, At
    <3> QED BY <2>5, <3>1, <3>2 DEF Held, At
  <2>6. ASSUME NEW d \in Channel, guard'[d] # None
        PROVE  slot'[d] = None /\ pc'[guard'[d]] = "polling" /\ fut'[guard'[d]].op = d
    <3>1. d # c
      BY <2>3, <2>6
    <3>2. guard'[d] = guard[d] /\ slot'[d] = slot[d] /\ guard[d] \in Task
      BY <1>0, <2>1, <2>4, <2>6, <3>1
    <3>3. slot[d] = None /\ pc[guard[d]] = "polling" /\ fut[guard[d]].op = d
      BY <1>1, <2>6, <3>2 DEF GuardInv
    <3>4. guard[d] # t
      BY <2>1, <3>1, <3>3
    <3> QED BY <2>4, <3>2, <3>3, <3>4
  <2>7. ASSUME NEW u \in Task, pc'[u] = "polling"
        PROVE  guard'[fut'[u].op] = u /\ ~job'[fut'[u].job].detached
    <3>1. u # t
      BY <2>3, <2>7
    <3>2. pc[u] = "polling" /\ fut'[u] = fut[u] /\ fut[u].op \in Channel
      BY <1>1, <2>4, <2>7, <3>1 DEF Fits
    <3>3. guard[fut[u].op] = u /\ ~job[fut[u].job].detached
      BY <1>1, <3>2 DEF GuardInv
    <3>4. fut[u].op # c /\ fut[u].job # j /\ fut[u].job \in Job
      BY <1>0, <1>1, <2>2, <3>1, <3>2, <3>3 DEF Fits, Working
    <3> QED BY <2>4, <3>1, <3>2, <3>3, <3>4
  <2>8. ASSUME NEW k \in Job
        PROVE  /\ JobShape(job'[k])
               /\ job'[k].at # "free" /\ job'[k].op \in Channel => Held(k)'
    <3>1. CASE k = j
      BY <2>3, <3>1 DEF Free, JobShape
    <3>2. CASE k # j
      BY <1>1, <2>4, <2>5, <3>2
    <3> QED BY <3>1, <3>2
  <2> QED BY <2>6, <2>7, <2>8 DEF PoolInv, GuardInv, JobInv, JobShape
<1> QED BY <1>2, <1>3, <1>4, <1>5

(* Every step keeps GuardInv and JobInv. *)
LEMMA PoolOk ==
  ASSUME IInv, Next
  PROVE  GuardInv' /\ JobInv'
<1>0. /\ fut \in [Task -> FutType] /\ job \in [Job -> JobType] /\ None \notin Job
      /\ None \notin Task /\ pc \in [Task -> Pcs]
      /\ \A u \in Task : fut[u].job \in Job \cup {None} /\ fut[u] \in FutType
      /\ \A j \in Job : job[j] \in JobType
      /\ Free \in JobType /\ JobShape(Free) /\ Free.op \notin Channel
  BY Types DEF Free, JobType, NoPacket, Packet, JobShape, Channel
<1>1. /\ GuardInv /\ OwnerInv /\ \A u \in Task : Fits(pc[u], fut[u])
      /\ \A u \in Task : dropped # "no" => pc[u] = "idle"
      /\ \A k \in Job : /\ JobShape(job[k])
                        /\ dropped = "no" /\ job[k].at # "free" /\ job[k].op \in Channel => Held(k)
  BY DEF IInv, TaskInv, JobInv
<1>2. ASSUME NEW t \in Task, NEW ok, Return(t, ok), pc[t] # "polling", dropped = "no",
             guard' = guard, slot' = slot,
             \/ job' = job
             \/ /\ fut[t].job # None
                /\ \E r \in JobType : /\ job' = [job EXCEPT ![fut[t].job] = r] /\ JobShape(r)
                                      /\ r.op \notin Channel
      PROVE  PoolInv'
  <2>1. Moves(t) /\ pc'[t] = "idle"
    BY <1>0, <1>2, ReturnMoves
  <2> QED BY <1>2, <2>1, PoolKept
<1>3. ASSUME NEW t \in Task, TaskStep(t) PROVE PoolInv'
  <2>0. Moves(t) /\ dropped = "no"
    BY <1>3, TaskMoves
  <2>1. ASSUME NEW o \in AllOps, NEW n \in program.bufLen \cup {data + 1}, Begin(t, o, n)
        PROVE  PoolInv'
    <3>1. /\ pc[t] = "idle" /\ pc'[t] # "polling" /\ guard' = guard /\ slot' = slot /\ job' = job
      BY <1>0, <2>1 DEF Begin, At, Goto
    <3> QED BY <2>0, <3>1, PoolKept
  <2>2. ASSUME NEW c \in Channel, PollTry(t, c) PROVE PoolInv'
    <3>1. \E ok : Return(t, ok)
      BY <2>2 DEF PollTry, TryReturns
    <3> QED BY <1>2, <2>0, <2>2, <3>1 DEF PollTry, Polls, At
  <2>3. CASE Poll(t)
    BY <2>2, <2>3, PollPool DEF Poll
  <2>4. CASE Try(t)
    <3>1. \E ok : Return(t, ok)
      BY <2>4 DEF Try, TryReturns
    <3> QED BY <1>2, <2>0, <2>4, <3>1 DEF Try, At
  <2>5. CASE AwaitJob(t) /\ Return(t, FALSE) /\ UNCHANGED job
    BY <1>2, <2>0, <2>5 DEF AwaitJob, At
  <2>6. CASE AwaitJob(t) /\ Spawn(t) /\ Goto(t, "await")
    <3>1. PICK n \in Job, q \in JobType :
            /\ job[n].at = "free" /\ job' = [job EXCEPT ![n] = q]
            /\ q.at = "queued" /\ q.op = fut[t].op
      BY <2>6, SpawnMakes
    <3>2. /\ guard' = guard /\ slot' = slot /\ pc[t] = "try" /\ pc'[t] = "await"
          /\ q.op \in Awaited
      BY <1>0, <1>1, <2>6, <3>1 DEF AwaitJob, At, Goto, Fits
    <3>3. \A u \in Task : pc[u] = "polling" => job'[fut[u].job] = job[fut[u].job]
      <4> SUFFICES ASSUME NEW u \in Task, pc[u] = "polling"
                   PROVE  job'[fut[u].job] = job[fut[u].job]
        OBVIOUS
      <4>1. fut[u].job \in Job /\ job[fut[u].job].at # "free"
        BY <1>0, <1>1 DEF OwnerInv, Fits, Working
      <4> QED BY <1>0, <3>1, <4>1
    <3>4. GuardInv' /\ \A k \in Job : Held(k) => Held(k)'
      BY <2>0, <3>2, <3>3, GuardKept
    <3>5. ASSUME NEW k \in Job
          PROVE  /\ JobShape(job'[k])
                 /\ job'[k].at # "free" /\ job'[k].op \in Channel => Held(k)'
      <4>1. CASE k = n
        <5>1. job'[k] = q
          BY <1>0, <3>1, <4>1
        <5> QED BY <3>1, <3>2, <5>1 DEF JobShape, Awaited, Channel
      <4>2. CASE k # n
        <5>1. job'[k] = job[k]
          BY <1>0, <3>1, <4>2
        <5> QED BY <1>1, <2>0, <3>4, <5>1
      <4> QED BY <4>1, <4>2
    <3> QED BY <3>4, <3>5 DEF PoolInv, JobInv, JobShape
  <2>7. CASE AwaitReady(t)
    <3>1. /\ fut[t].job # None /\ job' = [job EXCEPT ![fut[t].job] = Free] /\ pc[t] = "await"
          /\ guard' = guard /\ slot' = slot
      BY <1>1, <2>7 DEF AwaitReady, At, Fits, Working
    <3>2. pc'[t] \in {"try", "idle"}
      BY <1>0, <2>7 DEF AwaitReady, Goto, Return
    <3> QED BY <1>0, <2>0, <3>1, <3>2, PoolKept
  <2>8. CASE Abandon(t)
    BY <1>2, <2>0, <2>8 DEF Abandon, At
  <2>9. ASSUME NEW f, NEW p, p # "polling", pc[t] \in {"await", "trigger"},
               pc' = [pc EXCEPT ![t] = p],
               guard' = guard, slot' = slot, job' = [job EXCEPT ![fut[t].job] = f],
               f \in JobType, f.at = job[fut[t].job].at, f.op = job[fut[t].job].op
        PROVE  PoolInv'
    <3>1. /\ fut[t].job \in Job /\ fut[t].job # None /\ fut[t].op \in Awaited
          /\ job[fut[t].job].op = fut[t].op
      BY <1>0, <1>1, <2>9 DEF Fits, Working, OwnerInv
    <3>2. JobShape(f) /\ f.op \notin Channel
      BY <1>1, <2>9, <3>1 DEF JobShape, Awaited, Channel
    <3>3. pc'[t] # "polling"
      BY <1>0, <2>9
    <3> QED BY <2>0, <2>9, <3>1, <3>2, <3>3, PoolKept
  <2>10. CASE CancelBegin(t)
    <3> DEFINE q == [job[fut[t].job] EXCEPT !.detached = TRUE]
    <3>1. /\ pc[t] = "await" /\ pc' = [pc EXCEPT ![t] = "trigger"]
          /\ guard' = guard /\ slot' = slot /\ job' = [job EXCEPT ![fut[t].job] = q]
      BY <2>10 DEF CancelBegin, At, Goto
    <3>2. fut[t].job \in Job
      BY <1>0, <1>1, <3>1 DEF Fits, Working
    <3>3. q \in JobType /\ q.at = job[fut[t].job].at /\ q.op = job[fut[t].job].op
      BY <1>0, <3>2 DEF JobType
    <3> HIDE DEF q
    <3> QED BY <2>9, <3>1, <3>3
  <2>11. CASE CancelTrigger(t)
    <3> DEFINE q == [job[fut[t].job] EXCEPT !.cancel = TRUE]
    <3>1. /\ pc[t] = "trigger" /\ pc' = [pc EXCEPT ![t] = "cancel"]
          /\ guard' = guard /\ slot' = slot /\ job' = [job EXCEPT ![fut[t].job] = q]
      BY <2>11 DEF CancelTrigger, Trigger, At, Goto
    <3>2. fut[t].job \in Job
      BY <1>0, <1>1, <3>1 DEF Fits, Working
    <3>3. q \in JobType /\ q.at = job[fut[t].job].at /\ q.op = job[fut[t].job].op
      BY <1>0, <3>2 DEF JobType
    <3> HIDE DEF q
    <3> QED BY <2>9, <3>1, <3>3
  <2>12. CASE CancelEnds(t)
    <3> DEFINE r == IF job[fut[t].job].at = "done" THEN Free ELSE job[fut[t].job]
    <3>1. /\ fut[t].job \in Job /\ fut[t].job # None /\ fut[t].op \in Awaited
          /\ job[fut[t].job].op = fut[t].op /\ pc[t] # "polling"
      BY <1>0, <1>1, <2>12 DEF CancelEnds, At, Fits, Working, OwnerInv
    <3>2. r \in JobType /\ JobShape(r) /\ r.op \notin Channel
      BY <1>0, <1>1, <3>1 DEF Awaited, Channel
    <3>3. Return(t, FALSE) /\ guard' = guard /\ slot' = slot
          /\ job' = [job EXCEPT ![fut[t].job] = r]
      BY <2>12 DEF CancelEnds
    <3> HIDE DEF r
    <3> QED BY <1>2, <2>0, <3>1, <3>2, <3>3
  <2> QED BY <1>3, <2>1, <2>3, <2>4, <2>5, <2>6, <2>7, <2>8, <2>10, <2>11, <2>12
          DEF TaskStep, Await, AwaitJob
<1>4. ASSUME pc' = pc, fut' = fut, slot' = slot, guard' = guard,
             \A k \in Job : JobShape(job'[k]),
             \A k \in Job : dropped' = "no" /\ job'[k].at # "free" /\ job'[k].op \in Channel =>
                            dropped = "no" /\ job[k].at # "free" /\ job[k].op \in Channel,
             \A u \in Task : pc[u] = "polling" =>
                            job'[fut[u].job].detached = job[fut[u].job].detached
      PROVE  PoolInv'
  <2>1. GuardInv'
    BY <1>1, <1>4 DEF GuardInv
  <2>2. \A k \in Job : Held(k) => Held(k)'
    BY <1>4 DEF Held, At
  <2> QED BY <1>1, <1>4, <2>1, <2>2 DEF PoolInv, JobInv, JobShape
<1>5. ASSUME NEW j \in Job, JobStep(j) \/ JobFails(j) PROVE PoolInv'
  <2>1. JobMoves(j)
    BY <1>5, JobStepMoves
  <2>2. PICK q \in JobType : /\ job' = [job EXCEPT ![j] = q]
                             /\ GoesOn(job[j], q) \/ (q = Free /\ ~Wanted(j))
    BY <2>1 DEF JobMoves
  <2>3. job'[j] = q /\ \A k \in Job : k # j => job'[k] = job[k]
    BY <1>0, <2>2
  <2>4. JobShape(q) /\ (q.at # "free" => q.op = job[j].op /\ job[j].at # "free")
    BY <1>0, <1>1, <2>1, <2>2 DEF JobMoves, GoesOn, JobShape, Free
  <2>5. ASSUME NEW u \in Task, pc[u] = "polling"
        PROVE  job'[fut[u].job].detached = job[fut[u].job].detached
    <3>1. fut[u].job \in Job
      BY <1>0, <1>1, <2>5 DEF Fits, Working
    <3>2. fut[u].job = j => q.detached = job[j].detached
      BY <2>2 DEF GoesOn, Wanted
    <3> QED BY <2>3, <3>1, <3>2
  <2>6. ASSUME NEW k \in Job PROVE JobShape(job'[k])
    BY <1>1, <2>3, <2>4
  <2>7. dropped' = dropped /\ pc' = pc /\ fut' = fut /\ slot' = slot /\ guard' = guard
    BY <2>1 DEF JobMoves
  <2>8. ASSUME NEW k \in Job, job'[k].at # "free", job'[k].op \in Channel
        PROVE  job[k].at # "free" /\ job[k].op \in Channel
    BY <2>3, <2>4, <2>8
  <2> QED BY <1>4, <2>5, <2>6, <2>7, <2>8
<1>6. ASSUME Outside PROVE PoolInv'
  BY <1>1, <1>4, <1>6, OutsideMoves
<1>7. ASSUME DropBegin PROVE PoolInv'
  BY <1>1, <1>4, <1>7 DEF DropBegin
<1>8. ASSUME DropFields PROVE PoolInv'
  <2>1. /\ pc' = pc /\ fut' = fut /\ guard' = guard /\ dropped' = "gone"
        /\ \A c \in Channel : slot'[c] = None
        /\ \A u \in Task : pc[u] = "idle"
    BY <1>1, <1>8 DEF DropFields
  <2>2. ASSUME NEW k \in Job PROVE JobShape(job'[k])
    <3>1. job'[k] \in {job[k], Free, [job[k] EXCEPT !.detached = TRUE]}
      BY <1>8 DEF DropFields
    <3>2. /\ [job[k] EXCEPT !.detached = TRUE].at = job[k].at
          /\ [job[k] EXCEPT !.detached = TRUE].op = job[k].op
      BY <1>0 DEF JobType
    <3> QED BY <1>0, <1>1, <3>1, <3>2 DEF JobShape
  <2>3. GuardInv'
    BY <1>1, <2>1 DEF GuardInv
  <2> QED BY <2>1, <2>2, <2>3 DEF PoolInv, JobInv, JobShape
<1> QED BY <1>3, <1>5, <1>6, <1>7, <1>8, NextCases DEF PoolInv

(***************************************************************************)
(* What the steps of a task do to the pool.                                *)
(***************************************************************************)

Spawned(t, j, q) ==
  /\ job[j].at = "free" /\ q.at = "queued" /\ q.op = fut[t].op /\ q.arg = fut[t].arg
  /\ q.pkt = NoPacket /\ ~q.exit /\ ~q.detached /\ ~q.ok
  /\ fut[t].op # "none" /\ fut' = [fut EXCEPT ![t] = [@ EXCEPT !.job = j]]

(* Only the handle of the pool's task changes.                             *)
Touched(r, q) ==
  /\ q.at = r.at /\ q.op = r.op /\ q.arg = r.arg /\ q.pkt = r.pkt
  /\ (q.ok <=> r.ok) /\ (q.exit <=> r.exit)

PoolChanges(t) ==
  \/ job' = job
  \/ \E j \in Job, q \in JobType :
       /\ job' = [job EXCEPT ![j] = q]
       /\ \/ Spawned(t, j, q)
          \/ fut[t].job = j /\ Touched(job[j], q)
          \/ fut[t].job = j /\ job[j].at = "done" /\ q = Free

(* A task spawns a task of the pool, changes its handle, or frees one that *)
(* is done.                                                                *)
LEMMA TaskPool ==
  ASSUME IInv, NEW t \in Task, TaskStep(t)
  PROVE  PoolChanges(t)
<1>0. /\ Fits(pc[t], fut[t]) /\ fut[t].job \in Job \cup {None} /\ None \notin Job
      /\ job \in [Job -> JobType] /\ \A j \in Job : job[j] \in JobType
      /\ Free \in JobType
  BY Types DEF IInv, TaskInv, Free, JobType, NoPacket, Packet
<1>1. ASSUME Spawn(t), pc[t] # "idle" PROVE PoolChanges(t)
  <2>1. PICK n \in Job, q \in JobType :
          /\ job[n].at = "free" /\ job' = [job EXCEPT ![n] = q]
          /\ q.at = "queued" /\ q.op = fut[t].op /\ q.arg = fut[t].arg
          /\ q.pkt = NoPacket /\ ~q.exit /\ ~q.detached /\ ~q.ok
          /\ fut' = [fut EXCEPT ![t] = [@ EXCEPT !.job = n]]
    BY <1>1, SpawnMakes
  <2> QED BY <1>0, <1>1, <2>1 DEF PoolChanges, Spawned, Fits
<1>2. ASSUME job' = [job EXCEPT ![fut[t].job] = Free], job[fut[t].job].at = "done",
             pc[t] \in Working
      PROVE  PoolChanges(t)
  BY <1>0, <1>2 DEF PoolChanges, Fits
<1>3. ASSUME NEW c \in Channel, PollPending(t, c) PROVE PoolChanges(t)
  <2> DEFINE q == [job[fut[t].job] EXCEPT !.waker = t]
  <2>1. fut[t].job \in Job /\ job' = [job EXCEPT ![fut[t].job] = q]
    BY <1>0, <1>3 DEF PollPending, PutBack, At, Fits, Working
  <2>2. q \in JobType /\ Touched(job[fut[t].job], q)
    BY <1>0, <2>1 DEF JobType, Touched
  <2> HIDE DEF q
  <2> QED BY <2>1, <2>2 DEF PoolChanges
<1>4. ASSUME CancelBegin(t) PROVE PoolChanges(t)
  <2> DEFINE q == [job[fut[t].job] EXCEPT !.detached = TRUE]
  <2>1. fut[t].job \in Job /\ job' = [job EXCEPT ![fut[t].job] = q]
    BY <1>0, <1>4 DEF CancelBegin, At, Fits, Working
  <2>2. q \in JobType /\ Touched(job[fut[t].job], q)
    BY <1>0, <2>1 DEF JobType, Touched
  <2> HIDE DEF q
  <2> QED BY <2>1, <2>2 DEF PoolChanges
<1>5. ASSUME CancelTrigger(t) PROVE PoolChanges(t)
  <2> DEFINE q == [job[fut[t].job] EXCEPT !.cancel = TRUE]
  <2>1. fut[t].job \in Job /\ job' = [job EXCEPT ![fut[t].job] = q]
    BY <1>0, <1>5 DEF CancelTrigger, Trigger, At, Fits, Working
  <2>2. q \in JobType /\ Touched(job[fut[t].job], q)
    BY <1>0, <2>1 DEF JobType, Touched
  <2> HIDE DEF q
  <2> QED BY <2>1, <2>2 DEF PoolChanges
<1>6. ASSUME CancelEnds(t) PROVE PoolChanges(t)
  <2>1. pc[t] \in Working
    BY <1>6 DEF CancelEnds, At, Working
  <2>2. CASE job[fut[t].job].at = "done"
    BY <1>2, <1>6, <2>1, <2>2 DEF CancelEnds
  <2>3. CASE job[fut[t].job].at # "done"
    <3>1. job' = [job EXCEPT ![fut[t].job] = job[fut[t].job]]
      BY <1>6, <2>3 DEF CancelEnds
    <3>2. job' = job
      BY <1>0, <3>1
    <3> QED BY <3>2 DEF PoolChanges
  <2> QED BY <2>2, <2>3
<1>7. ASSUME AwaitReady(t) PROVE PoolChanges(t)
  BY <1>2, <1>7 DEF AwaitReady, At, Working
<1>8. ASSUME AwaitJob(t) PROVE PoolChanges(t)
  BY <1>1, <1>8 DEF AwaitJob, PoolChanges, At
<1>9. ASSUME NEW c \in Channel, PollReady(t, c) PROVE PoolChanges(t)
  BY <1>2, <1>9 DEF PollReady, At, Working
<1>10. ASSUME NEW c \in Channel, PollSpawn(t, c) PROVE PoolChanges(t)
  BY <1>1, <1>10 DEF PollSpawn, Polls, At
<1>11. ASSUME NEW c \in Channel, PollTry(t, c) \/ PollTake(t, c) PROVE PoolChanges(t)
  BY <1>11 DEF PollTry, PollTake, PoolChanges
<1>12. ASSUME Try(t) \/ Abandon(t) PROVE PoolChanges(t)
  BY <1>12 DEF Try, Abandon, PoolChanges
<1>13. ASSUME NEW o \in AllOps, NEW n \in program.bufLen \cup {data + 1}, Begin(t, o, n)
       PROVE  PoolChanges(t)
  BY <1>13 DEF Begin, PoolChanges
<1>14. ASSUME Poll(t) PROVE PoolChanges(t)
  BY <1>3, <1>9, <1>10, <1>11, <1>14 DEF Poll
<1>15. ASSUME Await(t) PROVE PoolChanges(t)
  BY <1>5, <1>6, <1>7, <1>8, <1>12, <1>15 DEF Await
<1> QED BY <1>4, <1>12, <1>13, <1>14, <1>15 DEF TaskStep

(***************************************************************************)
(* What a thread of the pool does to the rings.                            *)
(***************************************************************************)

Quiet(j, q) ==
  /\ ring' = ring /\ gone' = gone /\ wire' = wire
  /\ q.pkt = NoPacket /\ job[j].pkt = NoPacket
  /\ q.at = "done" /\ q.op = "poll_recv" => ~q.ok
  /\ q.at \in {"exiting", "done"} /\ q.ok /\ IsSend(q.op) =>
       job[j].at = "exiting" /\ job[j].ok

Receives(j, q) ==
  /\ ring # <<>> /\ ring' = Tail(ring) /\ gone' = gone /\ wire' = wire
  /\ job[j].op = "poll_recv" /\ job[j].at = "try"
  /\ \/ q.at = "done" /\ q.ok /\ q.op = "poll_recv" /\ q.pkt = Head(ring)
     \/ q = Free /\ ~Wanted(j)

Refuses(j, q) ==
  /\ ring # <<>> /\ ring' = Tail(ring) /\ gone' = gone \cup {Head(ring).id}
  /\ wire' = wire
  /\ job[j].op = "poll_recv" /\ job[j].at = "try"
  /\ q.pkt = NoPacket /\ ~q.ok /\ q.at \in {"free", "done"} /\ ~IsSend(q.op)

Sends(j, q) ==
  /\ ring' = ring /\ gone' = gone /\ wire' = Append(wire, job[j].arg)
  /\ job[j].at = "try" /\ IsSend(job[j].op)
  /\ q.pkt = NoPacket /\ q.at \in {"free", "exiting", "done"} /\ q.op # "poll_recv"

ThreadMoves(j, q) ==
  /\ job' = [job EXCEPT ![j] = q]
  /\ GoesOn(job[j], q) \/ (q = Free /\ ~Wanted(j))
  /\ q.at \in {"run", "try"} => job[j].at \in {"queued", "run", "wait"}

ThreadActs(j) ==
  \E q \in JobType :
    /\ ThreadMoves(j, q)
    /\ Quiet(j, q) \/ Receives(j, q) \/ Refuses(j, q) \/ Sends(j, q)

(* How the closure ends.                                                   *)
LEMMA FinishMakes ==
  ASSUME IInv, NEW j \in Job, NEW ok \in BOOLEAN, NEW pkt \in Packet, Finish(j, ok, pkt),
         job[j].at \notin {"free", "done", "exiting"}
  PROVE  \E q \in JobType :
           /\ ThreadMoves(j, q)
           /\ \/ HasCanceller(j) /\ q.at = "exiting" /\ (q.ok <=> ok) /\ q.pkt = NoPacket
              \/ ~HasCanceller(j) /\ q.at = "done" /\ (q.ok <=> ok) /\ q.pkt = pkt
              \/ ~HasCanceller(j) /\ q = Free /\ ~Wanted(j)
<1>1. job[j] \in JobType /\ job[j].op \in AllOps \cup {"none"} /\ job[j].pkt = NoPacket
  BY Types, JobFields DEF IInv, PacketInv, JobPkt
<1>3. CASE HasCanceller(j)
  <2> DEFINE q == [job[j] EXCEPT !.at = "exiting", !.ok = ok]
  <2>1. /\ q \in JobType /\ GoesOn(job[j], q) /\ q.at = "exiting" /\ (q.ok <=> ok)
        /\ q.pkt = NoPacket
    BY <1>1, <1>3 DEF JobType, GoesOn, HasCanceller
  <2>2. job' = [job EXCEPT ![j] = q]
    BY <1>3 DEF Finish
  <2> HIDE DEF q
  <2> QED BY <1>3, <2>1, <2>2 DEF ThreadMoves
<1>4. CASE ~HasCanceller(j) /\ Wanted(j)
  <2> DEFINE q == [job[j] EXCEPT !.at = "done", !.ok = ok, !.pkt = pkt]
  <2>1. /\ q \in JobType /\ GoesOn(job[j], q) /\ q.at = "done" /\ (q.ok <=> ok)
        /\ q.pkt = pkt
    BY <1>1 DEF JobType, GoesOn
  <2>2. job' = [job EXCEPT ![j] = q]
    BY <1>4 DEF Finish
  <2> HIDE DEF q
  <2> QED BY <1>4, <2>1, <2>2 DEF ThreadMoves
<1>5. CASE ~HasCanceller(j) /\ ~Wanted(j)
  <2>1. /\ job' = [job EXCEPT ![j] = Free] /\ Free \in JobType
        /\ Free.at = "free"
    BY <1>5 DEF Finish, Free, JobType, NoPacket, Packet
  <2> QED BY <1>5, <2>1 DEF ThreadMoves
<1> QED BY <1>3, <1>4, <1>5

(* A closure that ends without a packet leaves the rings alone. *)
LEMMA FinishQuiet ==
  ASSUME IInv, NEW j \in Job, NEW ok \in BOOLEAN, Finish(j, ok, NoPacket),
         job[j].at \notin {"free", "done", "exiting"},
         ring' = ring, gone' = gone, wire' = wire,
         ok => ~IsSend(job[j].op) /\ HasCanceller(j)
  PROVE  ThreadActs(j)
<1>1. job[j].pkt = NoPacket /\ NoPacket \in Packet /\ Free.pkt = NoPacket /\ Free.at = "free"
  BY DEF IInv, PacketInv, JobPkt, NoPacket, Packet, Free
<1>2. PICK q \in JobType :
        /\ ThreadMoves(j, q)
        /\ \/ HasCanceller(j) /\ q.at = "exiting" /\ (q.ok <=> ok) /\ q.pkt = NoPacket
           \/ ~HasCanceller(j) /\ q.at = "done" /\ (q.ok <=> ok) /\ q.pkt = NoPacket
           \/ ~HasCanceller(j) /\ q = Free /\ ~Wanted(j)
  BY <1>1, FinishMakes
<1>3. q.at \in {"exiting", "done"} => q.op = job[j].op
  BY <1>1, <1>2 DEF ThreadMoves, GoesOn
<1>4. Quiet(j, q)
  BY <1>1, <1>2, <1>3 DEF Quiet
<1> QED BY <1>2, <1>4 DEF ThreadActs

(* A thread that goes on leaves the rings alone. *)
LEMMA MoveQuiet ==
  ASSUME IInv, NEW j \in Job, NEW where \in {"run", "try", "wait"}, Move(j, where),
         job[j].at \in {"queued", "run", "try", "wait"},
         where = "try" => job[j].at \in {"run", "wait"}
                          /\ job[j].op \in {"poll_recv", "poll_send", "send"},
         where = "wait" => job[j].op \in {"poll_recv", "recv", "readable"},
         where = "run" => job[j].at = "queued",
         ring' = ring
  PROVE  ThreadActs(j)
<1>1. job[j] \in JobType
  BY Types
<1> DEFINE q == [job[j] EXCEPT !.at = where]
<1>2. q \in JobType /\ GoesOn(job[j], q) /\ q.at = where /\ q.pkt = job[j].pkt
      /\ job[j].pkt = NoPacket
  BY <1>1 DEF JobType, GoesOn, IInv, PacketInv, JobPkt
<1>3. job' = [job EXCEPT ![j] = q]
  BY DEF Move
<1> HIDE DEF q
<1>4. gone' = gone /\ wire' = wire
  BY DEF Move, history
<1>5. ThreadMoves(j, q) /\ Quiet(j, q)
  BY <1>2, <1>3, <1>4 DEF ThreadMoves, Quiet
<1> QED BY <1>2, <1>5 DEF ThreadActs

(* A thread leaves the rings alone, receives, refuses a packet that does   *)
(* not fit, or sends.                                                      *)
LEMMA ThreadPool ==
  ASSUME IInv, NEW j \in Job, JobStep(j) \/ JobFails(j)
  PROVE  ThreadActs(j)
<1>1. /\ job[j].op \in AllOps \cup {"none"} /\ job[j] \in JobType
      /\ job[j].at = "try" => job[j].op \in {"poll_recv", "poll_send", "send"}
      /\ job[j].at = "wait" => job[j].op \in {"poll_recv", "recv", "readable"}
      /\ job[j].at # "free" => job[j].op \in Channel \cup Awaited
      /\ job[j].at # "done" => job[j].pkt = NoPacket
      /\ NoPacket \in Packet /\ Free.pkt = NoPacket /\ Free.at = "free"
  BY Types, JobFields DEF IInv, JobInv, JobShape, PacketInv, JobPkt, Packet, NoPacket, Free
<1>2. ASSUME JobStart(j) PROVE ThreadActs(j)
  BY <1>1, <1>2, MoveQuiet DEF JobStart, deviceVars
<1>3. ASSUME JobDiscard(j) PROVE ThreadActs(j)
  BY <1>1, <1>3, FinishQuiet DEF JobDiscard, deviceVars
<1>4. ASSUME JobLock(j) PROVE ThreadActs(j)
  <2>1. CASE Finish(j, FALSE, NoPacket) /\ UNCHANGED <<gone, wire>>
    BY <1>1, <1>4, <2>1, FinishQuiet DEF JobLock, deviceVars
  <2>2. CASE Move(j, IF job[j].op \in {"readable", "recv"} THEN "wait" ELSE "try")
    <3> DEFINE where == IF job[j].op \in {"readable", "recv"} THEN "wait" ELSE "try"
    <3>1. /\ where \in {"run", "try", "wait"} /\ job[j].at = "run" /\ where # "run"
          /\ where = "wait" => job[j].op \in {"poll_recv", "recv", "readable"}
          /\ ring' = ring
      BY <1>4 DEF JobLock, deviceVars
    <3>2. where = "try" => job[j].op \in {"poll_recv", "poll_send", "send"}
      BY <1>1, <1>4 DEF JobLock, Channel, Awaited
    <3> HIDE DEF where
    <3>3. Move(j, where)
      BY <2>2 DEF where
    <3> QED BY <3>1, <3>2, <3>3, MoveQuiet
  <2> QED BY <1>4, <2>1, <2>2 DEF JobLock
<1>5. ASSUME JobRecv(j) PROVE ThreadActs(j)
  <2>0. job[j].at = "try" /\ job[j].op = "poll_recv" /\ ~HasCanceller(j)
    BY <1>1, <1>5 DEF JobRecv, IsSend, HasCanceller, Channel
  <2>1. CASE Move(j, "wait") /\ UNCHANGED deviceVars
    BY <1>1, <2>0, <2>1, MoveQuiet DEF deviceVars
  <2>2. CASE /\ ring # <<>> /\ TakePacket /\ UNCHANGED wire
             /\ Finish(j, TRUE, Head(ring)) /\ UNCHANGED gone
    <3>1. Head(ring) \in Packet
      BY <2>2, HeadPacket
    <3>2. PICK q \in JobType :
            /\ ThreadMoves(j, q)
            /\ \/ HasCanceller(j) /\ q.at = "exiting" /\ (q.ok <=> TRUE) /\ q.pkt = NoPacket
               \/ ~HasCanceller(j) /\ q.at = "done" /\ (q.ok <=> TRUE) /\ q.pkt = Head(ring)
               \/ ~HasCanceller(j) /\ q = Free /\ ~Wanted(j)
      BY <2>0, <2>2, <3>1, FinishMakes
    <3>3. q.at = "done" => q.op = job[j].op
      BY <1>1, <3>2 DEF ThreadMoves, GoesOn
    <3>4. Receives(j, q)
      BY <2>0, <2>2, <3>2, <3>3 DEF Receives, TakePacket
    <3> QED BY <3>2, <3>4 DEF ThreadActs
  <2>3. CASE /\ ring # <<>> /\ TakePacket /\ UNCHANGED wire
             /\ Finish(j, FALSE, NoPacket) /\ gone' = gone \cup {Head(ring).id}
    <3>2. PICK q \in JobType :
            /\ ThreadMoves(j, q)
            /\ \/ HasCanceller(j) /\ q.at = "exiting" /\ (q.ok <=> FALSE) /\ q.pkt = NoPacket
               \/ ~HasCanceller(j) /\ q.at = "done" /\ (q.ok <=> FALSE) /\ q.pkt = NoPacket
               \/ ~HasCanceller(j) /\ q = Free /\ ~Wanted(j)
      BY <1>1, <2>0, <2>3, FinishMakes
    <3>3. q.at = "done" => q.op = job[j].op
      BY <1>1, <3>2 DEF ThreadMoves, GoesOn
    <3>4. ~Free.ok /\ Free.op = "none"
      BY DEF Free
    <3>5. Refuses(j, q)
      BY <1>1, <2>0, <2>3, <3>2, <3>3, <3>4 DEF Refuses, TakePacket, IsSend
    <3> QED BY <3>2, <3>5 DEF ThreadActs
  <2> QED BY <1>5, <2>1, <2>2, <2>3 DEF JobRecv
<1>6. ASSUME JobSend(j) PROVE ThreadActs(j)
  <2>1. /\ job[j].at = "try" /\ IsSend(job[j].op) /\ Finish(j, TRUE, NoPacket)
        /\ ring' = ring /\ gone' = gone /\ wire' = Append(wire, job[j].arg)
    BY <1>6 DEF JobSend, SendPacket
  <2>2. PICK q \in JobType :
          /\ ThreadMoves(j, q)
          /\ \/ HasCanceller(j) /\ q.at = "exiting" /\ (q.ok <=> TRUE) /\ q.pkt = NoPacket
             \/ ~HasCanceller(j) /\ q.at = "done" /\ (q.ok <=> TRUE) /\ q.pkt = NoPacket
             \/ ~HasCanceller(j) /\ q = Free /\ ~Wanted(j)
    BY <1>1, <2>1, FinishMakes
  <2>3. q.op # "poll_recv"
    BY <1>1, <2>1, <2>2 DEF ThreadMoves, GoesOn, IsSend, Free
  <2>4. Sends(j, q)
    BY <1>1, <2>1, <2>2, <2>3 DEF Sends
  <2> QED BY <2>2, <2>4 DEF ThreadActs
<1>7. ASSUME JobWait(j) PROVE ThreadActs(j)
  <2>1. CASE HasCanceller(j) /\ Finish(j, TRUE, NoPacket) /\ UNCHANGED <<gone, wire>>
    BY <1>1, <1>7, <2>1, FinishQuiet DEF JobWait, IsSend
  <2>2. CASE ~HasCanceller(j) /\ Move(j, "try")
    BY <1>1, <1>7, <2>2, MoveQuiet DEF JobWait, HasCanceller, Channel
  <2> QED BY <1>7, <2>1, <2>2 DEF JobWait
<1>8. ASSUME JobStops(j) PROVE ThreadActs(j)
  BY <1>1, <1>8, FinishQuiet DEF JobStops, deviceVars
<1>9. ASSUME JobFails(j) PROVE ThreadActs(j)
  BY <1>1, <1>9, FinishQuiet DEF JobFails, Inside, deviceVars
<1>10. ASSUME JobExits(j) PROVE ThreadActs(j)
  <2>0. /\ job[j].at = "exiting" /\ ring' = ring /\ gone' = gone /\ wire' = wire
        /\ job[j].pkt = NoPacket /\ job[j].op # "poll_recv"
    BY <1>1, <1>10 DEF JobExits, deviceVars, history, IInv, JobInv, JobShape, Channel
  <2>1. CASE Wanted(j)
    <3> DEFINE q == [job[j] EXCEPT !.at = "done", !.exit = TRUE]
    <3>1. /\ q \in JobType /\ GoesOn(job[j], q) /\ q.at = "done" /\ q.pkt = NoPacket
          /\ (q.ok <=> job[j].ok) /\ q.op = job[j].op
      BY <1>1, <2>0 DEF JobType, GoesOn
    <3>2. job' = [job EXCEPT ![j] = q]
      BY <1>10, <2>1 DEF JobExits
    <3> HIDE DEF q
    <3>3. ThreadMoves(j, q) /\ Quiet(j, q)
      BY <2>0, <3>1, <3>2 DEF ThreadMoves, Quiet
    <3> QED BY <3>1, <3>3 DEF ThreadActs
  <2>2. CASE ~Wanted(j)
    <3>1. job' = [job EXCEPT ![j] = Free] /\ Free \in JobType
      BY <1>10, <2>2 DEF JobExits, Free, JobType, NoPacket, Packet
    <3>2. ThreadMoves(j, Free) /\ Quiet(j, Free)
      BY <1>1, <2>0, <2>2, <3>1 DEF ThreadMoves, Quiet
    <3> QED BY <3>1, <3>2 DEF ThreadActs
  <2> QED BY <2>1, <2>2
<1> QED BY <1>2, <1>3, <1>4, <1>5, <1>6, <1>7, <1>8, <1>9, <1>10 DEF JobStep

(***************************************************************************)
(* PacketInv and PollDelivers: the packets on their way.                   *)
(***************************************************************************)

(* Before the device is dropped, a task of the pool that works for         *)
(* poll_recv is in the slot, or with the task that holds the guard.        *)
LEMMA Receiver ==
  ASSUME IInv, dropped = "no", NEW j \in Job, job[j].at # "free", job[j].op = "poll_recv"
  PROVE  /\ \/ slot["poll_recv"] = j
            \/ \E t \in Task : guard["poll_recv"] = t /\ pc[t] = "polling" /\ fut[t].job = j
         /\ Wanted(j)
<1>1. Held(j) /\ "poll_recv" \in Channel /\ None \notin Job
  BY Types DEF IInv, JobInv, Channel
<1>2. ASSUME NEW c \in Channel, slot[c] = j
      PROVE  slot["poll_recv"] = j /\ Wanted(j)
  BY <1>1, <1>2 DEF IInv, OwnerInv, Wanted
<1>3. ASSUME NEW t \in Task, pc[t] = "polling", fut[t].job = j
      PROVE  guard["poll_recv"] = t /\ Wanted(j)
  BY <1>1, <1>3 DEF IInv, OwnerInv, GuardInv, Wanted
<1> QED BY <1>1, <1>2, <1>3 DEF Held, At

(* Two tasks of the pool for poll_recv are one: the slot and its mutex see *)
(* to that.                                                                *)
LEMMA OneReceiver ==
  ASSUME IInv, dropped = "no", NEW j \in Job, job[j].at # "free", job[j].op = "poll_recv",
         NEW k \in Job, job[k].at # "free", job[k].op = "poll_recv"
  PROVE  j = k
<1>1. "poll_recv" \in Channel /\ None \notin Job /\ None \notin Task
  BY Types DEF Channel
<1>2. guard["poll_recv"] # None => slot["poll_recv"] = None
  BY <1>1 DEF IInv, GuardInv
<1> QED BY <1>1, <1>2, Receiver

(* A task of the pool that has a packet is one of poll_recv that is done. *)
LEMMA PacketIsReceived ==
  ASSUME IInv, NEW j \in Job, job[j].pkt.id # 0
  PROVE  job[j].op = "poll_recv" /\ job[j].at = "done"
  BY DEF IInv, PacketInv, JobPkt, NoPacket

(* What is not lost is kept. *)
LEMMA KeptNext ==
  ASSUME JobInv', \A j \in Job : JobPkt(job[j])', dropped' = "no", NEW x, x # 0,
         \/ \E b \in DOMAIN ring' : ring'[b].id = x
         \/ \E j \in Job : job'[j].pkt.id = x
  PROVE  x \in Kept'
<1>1. CASE \E b \in DOMAIN ring' : ring'[b].id = x
  BY <1>1 DEF Kept, Ids
<1>2. ASSUME NEW j \in Job, job'[j].pkt.id = x PROVE x \in Kept'
  <2>1. job'[j].op = "poll_recv" /\ job'[j].at = "done"
    BY <1>2 DEF JobPkt, NoPacket
  <2>2. Held(j)'
    BY <2>1 DEF JobInv, Channel
  <2>3. \/ \E c \in Channel : slot'[c] = j
        \/ \E t \in Task : pc'[t] = "polling" /\ fut'[t].job = j
    BY <2>2 DEF Held, At
  <2> QED BY <1>2, <2>3 DEF Kept, At
<1> QED BY <1>1, <1>2

(* The same in the state before. *)
LEMMA KeptNow ==
  ASSUME NEW x \in Kept
  PROVE  \/ \E b \in DOMAIN ring : ring[b].id = x
         \/ \E j \in Job : job[j].pkt.id = x
  BY DEF Kept, Ids

(* The parts of both, with the numbers that they compare.                  *)
LEMMA PacketParts ==
  ASSUME IInv
  PROVE  /\ ring \in Seq(Packet) /\ got \in Seq(1..arrived) /\ arrived \in Nat
         /\ \A a \in DOMAIN got : got[a] \in 1..arrived
         /\ \A b \in DOMAIN ring : ring[b].id \in 1..arrived
         /\ \A a, b \in DOMAIN ring : a < b => ring[a].id < ring[b].id
         /\ \A a \in DOMAIN got, b \in DOMAIN ring : got[a] < ring[b].id
         /\ \A j \in Job : JobPkt(job[j]) /\ job[j].pkt.id \in Nat
         /\ dropped = "no" =>
              \A j \in Job : job[j].pkt.id # 0 =>
                /\ \A a \in DOMAIN got : got[a] < job[j].pkt.id
                /\ \A b \in DOMAIN ring : job[j].pkt.id < ring[b].id
         /\ dropped = "no" => \A x \in 1..arrived : x \in ToSet(got) \cup gone \cup Kept
         /\ \A a, b \in DOMAIN got : a < b => got[a] < got[b]
<1>1. ring \in Seq(Packet) /\ got \in Seq(1..arrived) /\ arrived \in 0..program.maxArrived
      /\ program.maxArrived \in Nat
  BY AsyncAssumption DEF IInv, TypeOK, Program
<1>2. \A a \in DOMAIN got : got[a] \in 1..arrived
  BY <1>1
<1>3. \A j \in Job : job[j].pkt.id \in Nat
  BY Types, JobFields
<1>4. PacketInv /\ PollDelivers
  BY DEF IInv
<1> QED BY <1>1, <1>2, <1>3, <1>4 DEF PacketInv, PollDelivers

(* A step that leaves the packets where they are.                          *)
LEMMA PacketsStay ==
  ASSUME IInv, JobInv', ring' = ring, got' = got, gone' = gone, arrived' = arrived,
         dropped' = "no" => dropped = "no",
         \A k \in Job : /\ JobPkt(job'[k])
                        /\ job'[k].pkt = job[k].pkt \/ (dropped' # "no" /\ job'[k].pkt = NoPacket)
  PROVE  PacketInv' /\ PollDelivers'
<1>1. \A k \in Job : JobPkt(job[k])'
  BY DEF JobPkt
<1>2. PacketInv'
  BY <1>1, PacketParts DEF PacketInv
<1>3. ASSUME dropped' = "no", NEW x \in 1..arrived
      PROVE  x \in ToSet(got) \cup gone \cup Kept'
  <2>1. x # 0 /\ x \in ToSet(got) \cup gone \cup Kept
    BY <1>3, PacketParts
  <2>2. CASE x \in Kept
    <3>1. \/ \E b \in DOMAIN ring' : ring'[b].id = x
          \/ \E j \in Job : job'[j].pkt.id = x
      BY <1>3, <2>2, KeptNow
    <3> QED BY <1>1, <1>3, <2>1, <3>1, KeptNext
  <2> QED BY <2>1, <2>2
<1> QED BY <1>2, <1>3, PacketParts DEF PollDelivers

(* The oldest packet is taken from the ring.                               *)
LEMMA RingTail ==
  ASSUME IInv, ring # <<>>, ring' = Tail(ring)
  PROVE  /\ Head(ring).id \in 1..arrived /\ ring[1] = Head(ring) /\ 1 \in DOMAIN ring
         /\ ring' \in Seq(Packet)
         /\ \A b \in DOMAIN ring' : b + 1 \in DOMAIN ring /\ ring'[b] = ring[b + 1]
         /\ \A b \in DOMAIN ring : b # 1 => b - 1 \in DOMAIN ring' /\ ring[b] = ring'[b - 1]
         /\ \A b \in DOMAIN ring' : Head(ring).id < ring'[b].id
         /\ \A b \in DOMAIN ring' : ring'[b].id \in 1..arrived
         /\ \A a, b \in DOMAIN ring' : a < b => ring'[a].id < ring'[b].id
         /\ \A a \in DOMAIN got : got[a] < Head(ring).id
         /\ \A a \in DOMAIN got, b \in DOMAIN ring' : got[a] < ring'[b].id
<1>0. /\ ring \in Seq(Packet) /\ got \in Seq(1..arrived) /\ arrived \in Nat
      /\ \A b \in DOMAIN ring : ring[b].id \in 1..arrived
      /\ \A a, b \in DOMAIN ring : a < b => ring[a].id < ring[b].id
      /\ \A a \in DOMAIN got, b \in DOMAIN ring : got[a] < ring[b].id
  BY PacketParts
<1>1. /\ ring' \in Seq(Packet) /\ Len(ring') = Len(ring) - 1 /\ Len(ring) \in Nat /\ Len(ring) > 0
      /\ \A b \in 1..Len(ring) - 1 : ring'[b] = ring[b + 1]
      /\ Head(ring) = ring[1]
  BY <1>0
<1>2. DOMAIN ring = 1..Len(ring) /\ DOMAIN ring' = 1..Len(ring) - 1
  BY <1>0, <1>1
<1>3. \A b \in DOMAIN ring' : b + 1 \in DOMAIN ring /\ ring'[b] = ring[b + 1] /\ 1 < b + 1
  BY <1>1, <1>2
<1>4. \A b \in DOMAIN ring : b # 1 => b - 1 \in DOMAIN ring' /\ ring[b] = ring'[b - 1]
  BY <1>1, <1>2
<1>5. 1 \in DOMAIN ring
  BY <1>1, <1>2
<1>6. \A b \in DOMAIN ring' : Head(ring).id < ring'[b].id /\ ring'[b].id \in 1..arrived
  BY <1>0, <1>1, <1>3, <1>5
<1>7. \A a, b \in DOMAIN ring' : a < b => ring'[a].id < ring'[b].id
  <2> SUFFICES ASSUME NEW a \in DOMAIN ring', NEW b \in DOMAIN ring', a < b
               PROVE  ring'[a].id < ring'[b].id
    OBVIOUS
  <2>1. a + 1 < b + 1
    BY <1>2
  <2> QED BY <1>0, <1>3, <2>1
<1>8. \A a \in DOMAIN got, b \in DOMAIN ring' : got[a] < ring'[b].id
  BY <1>0, <1>3
<1> QED BY <1>0, <1>1, <1>3, <1>4, <1>5, <1>6, <1>7, <1>8

(* A packet is returned: it comes after the others, which are kept.        *)
LEMMA GotAppend ==
  ASSUME IInv, NEW x \in 1..arrived, got' = Append(got, x), \A a \in DOMAIN got : got[a] < x
  PROVE  /\ got' \in Seq(1..arrived)
         /\ \A a, b \in DOMAIN got' : a < b => got'[a] < got'[b]
         /\ \A a \in DOMAIN got' : (a \in DOMAIN got /\ got'[a] = got[a]) \/ got'[a] = x
         /\ ToSet(got') = ToSet(got) \cup {x}
<1>0. /\ got \in Seq(1..arrived) /\ \A a, b \in DOMAIN got : a < b => got[a] < got[b]
  BY PacketParts
<1>1. /\ got' \in Seq(1..arrived) /\ DOMAIN got' = 1..Len(got) + 1 /\ DOMAIN got = 1..Len(got)
      /\ Len(got) \in Nat
      /\ \A a \in 1..Len(got) : got'[a] = got[a]
      /\ got'[Len(got) + 1] = x
  BY <1>0
<1>2. \A a \in DOMAIN got' : (a \in DOMAIN got /\ got'[a] = got[a]) \/ (a = Len(got) + 1 /\ got'[a] = x)
  BY <1>1
<1>3. \A a, b \in DOMAIN got' : a < b => got'[a] < got'[b]
  <2> SUFFICES ASSUME NEW a \in DOMAIN got', NEW b \in DOMAIN got', a < b
               PROVE  got'[a] < got'[b]
    OBVIOUS
  <2>1. a \in DOMAIN got /\ got'[a] = got[a]
    BY <1>1
  <2> QED BY <1>0, <1>2, <2>1
<1>4. ToSet(got') = ToSet(got) \cup {x}
  BY <1>1 DEF ToSet
<1> QED BY <1>1, <1>2, <1>3, <1>4

(* A packet is taken from the ring, by poll_recv itself, by the thread     *)
(* that works for it, or to be dropped.                                    *)
LEMMA PacketTaken ==
  ASSUME IInv, JobInv', ring # <<>>, ring' = Tail(ring), arrived' = arrived, dropped' = dropped,
         \A k \in Job : JobPkt(job'[k]),
         \/ /\ \A k \in Job : job'[k].pkt = job[k].pkt
            /\ got' = got /\ gone' = gone \cup {Head(ring).id}
         \/ /\ \A k \in Job : job'[k].pkt = job[k].pkt
            /\ dropped = "no"
            /\ \A k \in Job : job[k].pkt.id = 0
            /\ got' = Append(got, Head(ring).id) /\ gone' = gone
         \/ /\ got' = got /\ gone' = gone
            /\ dropped # "no"
         \/ /\ got' = got /\ gone' = gone
            /\ \A k \in Job : job[k].pkt.id = 0
            /\ \E j \in Job : /\ job'[j].pkt = Head(ring)
                              /\ \A k \in Job : k # j => job'[k].pkt = job[k].pkt
  PROVE  PacketInv' /\ PollDelivers'
<1>0. /\ \A k \in Job : JobPkt(job[k])'
      /\ \A b \in DOMAIN ring' : ring'[b].id \in 1..arrived
      /\ \A a, b \in DOMAIN ring' : a < b => ring'[a].id < ring'[b].id
      /\ Head(ring).id \in 1..arrived
      /\ \A b \in DOMAIN ring' : Head(ring).id < ring'[b].id
      /\ \A a \in DOMAIN got : got[a] < Head(ring).id
      /\ \A a \in DOMAIN got, b \in DOMAIN ring' : got[a] < ring'[b].id
  BY RingTail DEF JobPkt
<1>1. ASSUME NEW x \in Kept
      PROVE  \/ x = Head(ring).id
             \/ \E b \in DOMAIN ring' : ring'[b].id = x
             \/ \E j \in Job : job[j].pkt.id = x
  <2>1. ASSUME NEW b \in DOMAIN ring, ring[b].id = x
        PROVE  x = Head(ring).id \/ \E d \in DOMAIN ring' : ring'[d].id = x
    BY <2>1, RingTail
  <2> QED BY <2>1, KeptNow
<1>2. ASSUME got' = got,
             dropped = "no" => \A j \in Job : job'[j].pkt.id # 0 =>
                /\ \A a \in DOMAIN got : got[a] < job'[j].pkt.id
                /\ \A b \in DOMAIN ring' : job'[j].pkt.id < ring'[b].id,
             dropped = "no" => \A j \in Job : job[j].pkt.id # 0 => job'[j].pkt = job[j].pkt,
             dropped = "no" => Head(ring).id \in gone' \/ \E j \in Job : job'[j].pkt = Head(ring),
             gone \subseteq gone'
      PROVE  PacketInv' /\ PollDelivers'
  <2>1. PacketInv'
    BY <1>0, <1>2 DEF PacketInv
  <2>2. ASSUME dropped' = "no", NEW x \in 1..arrived
        PROVE  x \in ToSet(got) \cup gone' \cup Kept'
    <3>1. x # 0 /\ x \in ToSet(got) \cup gone \cup Kept
      BY <2>2, PacketParts
    <3>2. CASE x \in Kept /\ x \notin gone'
      <4>1. \/ \E b \in DOMAIN ring' : ring'[b].id = x
            \/ \E j \in Job : job'[j].pkt.id = x
        BY <1>1, <1>2, <2>2, <3>1, <3>2
      <4> QED BY <1>0, <2>2, <3>1, <4>1, KeptNext
    <3> QED BY <1>2, <3>1, <3>2
  <2> QED BY <1>2, <2>1, <2>2, PacketParts DEF PollDelivers
<1>3. CASE /\ \A k \in Job : job'[k].pkt = job[k].pkt
           /\ got' = got /\ gone' = gone \cup {Head(ring).id}
  <2>1. dropped = "no" => \A j \in Job : job'[j].pkt.id # 0 =>
                /\ \A a \in DOMAIN got : got[a] < job'[j].pkt.id
                /\ \A b \in DOMAIN ring' : job'[j].pkt.id < ring'[b].id
    BY <1>3, RingTail, PacketParts
  <2> QED BY <1>2, <1>3, <2>1
<1>4. CASE /\ \A k \in Job : job'[k].pkt = job[k].pkt
           /\ dropped = "no"
           /\ \A k \in Job : job[k].pkt.id = 0
           /\ got' = Append(got, Head(ring).id) /\ gone' = gone
  <2>1. /\ \A a, b \in DOMAIN got' : a < b => got'[a] < got'[b]
        /\ \A a \in DOMAIN got' : (a \in DOMAIN got /\ got'[a] = got[a]) \/ got'[a] = Head(ring).id
        /\ ToSet(got') = ToSet(got) \cup {Head(ring).id}
    BY <1>0, <1>4, GotAppend
  <2>2. \A a \in DOMAIN got', b \in DOMAIN ring' : got'[a] < ring'[b].id
    BY <1>0, <2>1
  <2>3. PacketInv'
    BY <1>0, <1>4, <2>2 DEF PacketInv
  <2>4. ASSUME dropped' = "no", NEW x \in 1..arrived
        PROVE  x \in ToSet(got') \cup gone' \cup Kept'
    <3>1. x # 0 /\ x \in ToSet(got) \cup gone \cup Kept
      BY <2>4, PacketParts
    <3>2. CASE x \in Kept /\ x # Head(ring).id
      <4>1. \E b \in DOMAIN ring' : ring'[b].id = x
        BY <1>1, <1>4, <3>1, <3>2
      <4> QED BY <1>0, <2>4, <3>1, <4>1, KeptNext
    <3> QED BY <1>4, <2>1, <3>1, <3>2
  <2> QED BY <2>1, <2>3, <2>4 DEF PollDelivers
<1>5. CASE got' = got /\ gone' = gone /\ dropped # "no"
  BY <1>2, <1>5
<1>6. CASE /\ got' = got /\ gone' = gone
           /\ \A k \in Job : job[k].pkt.id = 0
           /\ \E j \in Job : /\ job'[j].pkt = Head(ring)
                             /\ \A k \in Job : k # j => job'[k].pkt = job[k].pkt
  <2>1. \A j \in Job : job'[j].pkt.id # 0 =>
                /\ \A a \in DOMAIN got : got[a] < job'[j].pkt.id
                /\ \A b \in DOMAIN ring' : job'[j].pkt.id < ring'[b].id
    BY <1>0, <1>6
  <2> QED BY <1>2, <1>6, <2>1
<1> QED BY <1>3, <1>4, <1>5, <1>6

(* poll_recv returns, or refuses, what the thread received.                *)
LEMMA PacketReturned ==
  ASSUME IInv, JobInv', NEW t \in Task, PollReady(t, "poll_recv")
  PROVE  PacketInv' /\ PollDelivers'
<1> DEFINE j == fut[t].job
<1>0. /\ job \in [Job -> JobType] /\ None \notin Job /\ Fits(pc[t], fut[t])
      /\ fut[t].job \in Job \cup {None} /\ dropped = "no" /\ dropped' = "no"
  BY TaskMoves, Types DEF TaskStep, Poll, Channel, IInv, TaskInv
<1>1. /\ pc[t] = "polling" /\ fut[t].op = "poll_recv" /\ job[j].at = "done"
      /\ job' = [job EXCEPT ![j] = Free] /\ ring' = ring /\ arrived' = arrived
  BY DEF PollReady, At, deviceVars
<1>2. j \in Job /\ job[j].op = "poll_recv"
  BY <1>0, <1>1 DEF Fits, Working, IInv, OwnerInv
<1>3. job'[j] = Free /\ \A k \in Job : k # j => job'[k] = job[k]
  BY <1>0, <1>1, <1>2
<1>4. ASSUME NEW k \in Job, job[k].pkt.id # 0 PROVE k = j
  BY <1>0, <1>1, <1>2, <1>4, OneReceiver, PacketIsReceived
<1> DEFINE x == job[j].pkt.id
<1>5. /\ x \in 0..arrived /\ (job[j].ok => x # 0)
      /\ x # 0 => /\ \A a \in DOMAIN got : got[a] < x
                  /\ \A b \in DOMAIN ring : x < ring[b].id
  BY <1>0, <1>1, <1>2, PacketParts DEF JobPkt
<1>6. \/ /\ job[j].ok /\ got' = Append(got, x) /\ gone' = gone
      \/ got' = got /\ gone' = gone \cup ({x} \ {0})
  BY DEF PollReady, Copies
<1> HIDE DEF j
<1>7. \A k \in Job : job'[k].pkt.id = 0 /\ JobPkt(job[k])'
  <2>1. \A k \in Job : k # j => job[k].pkt.id = 0
    BY <1>4
  <2>2. \A k \in Job : k # j => JobPkt(job[k])
    BY PacketParts
  <2>3. \A k \in Job : k # j => JobPkt(job[k])'
    BY <1>1, <1>3, <2>2 DEF JobPkt
  <2>4. Free.pkt = NoPacket /\ NoPacket.id = 0 /\ Free.at = "free"
    BY DEF Free, NoPacket
  <2>5. 0 <= arrived'
    BY <1>1, PacketParts
  <2> QED BY <1>3, <2>1, <2>3, <2>4, <2>5 DEF JobPkt
<1>8. ASSUME NEW y \in Kept, y # 0 PROVE y = x \/ \E b \in DOMAIN ring : ring[b].id = y
  BY <1>4, <1>8, KeptNow
<1> HIDE DEF x
<1>9. ASSUME PacketInv', x # 0 => x \in ToSet(got') \cup gone',
             ToSet(got) \subseteq ToSet(got'), gone \subseteq gone',
             NEW y \in 1..arrived
      PROVE  y \in ToSet(got') \cup gone' \cup Kept'
  <2>1. y # 0 /\ y \in ToSet(got) \cup gone \cup Kept
    BY <1>0, <1>9, PacketParts
  <2>2. CASE y \in Kept /\ y # x
    <3>1. \E b \in DOMAIN ring' : ring'[b].id = y
      BY <1>1, <1>8, <2>1, <2>2
    <3>2. \A k \in Job : JobPkt(job[k])'
      BY <1>7 DEF JobPkt
    <3> QED BY <1>0, <2>1, <3>1, <3>2, KeptNext
  <2> QED BY <1>9, <2>1, <2>2
<1>10. CASE got' = got /\ gone' = gone \cup ({x} \ {0})
  <2>1. PacketInv'
    BY <1>1, <1>7, <1>10, PacketParts DEF PacketInv, JobPkt
  <2> QED BY <1>1, <1>9, <1>10, <2>1, PacketParts DEF PollDelivers
<1>11. CASE job[j].ok /\ got' = Append(got, x) /\ gone' = gone
  <2>0. x \in 1..arrived /\ \A a \in DOMAIN got : got[a] < x
    BY <1>5, <1>11, PacketParts
  <2>1. /\ \A a, b \in DOMAIN got' : a < b => got'[a] < got'[b]
        /\ \A a \in DOMAIN got' : (a \in DOMAIN got /\ got'[a] = got[a]) \/ got'[a] = x
        /\ ToSet(got') = ToSet(got) \cup {x}
    BY <1>11, <2>0, GotAppend
  <2>2. \A a \in DOMAIN got', b \in DOMAIN ring : got'[a] < ring[b].id
    BY <1>5, <2>0, <2>1, PacketParts
  <2>3. PacketInv'
    BY <1>1, <1>7, <2>2, PacketParts DEF PacketInv, JobPkt
  <2> QED BY <1>1, <1>9, <1>11, <2>1, <2>3 DEF PollDelivers
<1> QED BY <1>6, <1>10, <1>11

(* A packet arrives: it is the newest.                                     *)
LEMMA PacketArrives ==
  ASSUME IInv, JobInv', Arrive
  PROVE  PacketInv' /\ PollDelivers'
<1>1. /\ arrived' = arrived + 1 /\ job' = job /\ got' = got /\ gone' = gone
      /\ dropped' = dropped
  BY DEF Arrive, life
<1>2. PICK n \in program.bufLen : ring' = Append(ring, [id |-> arrived + 1, size |-> n])
  BY DEF Arrive
<1> DEFINE e == [id |-> arrived + 1, size |-> n]
<1>3. ring \in Seq(Packet) /\ arrived \in Nat /\ n \in Nat
  BY PacketParts, AsyncAssumption DEF IInv, TypeOK, Program
<1>4. e \in Packet /\ e.id = arrived + 1
  BY <1>3 DEF Packet
<1> HIDE DEF e
<1>5. /\ DOMAIN ring' = 1..Len(ring) + 1 /\ DOMAIN ring = 1..Len(ring) /\ Len(ring) \in Nat
      /\ \A b \in 1..Len(ring) : ring'[b] = ring[b]
      /\ ring'[Len(ring) + 1] = e
  BY <1>2, <1>3, <1>4 DEF e
<1>6. \A b \in DOMAIN ring' : \/ b \in DOMAIN ring /\ ring'[b] = ring[b]
                              \/ b = Len(ring) + 1 /\ ring'[b].id = arrived + 1
  BY <1>4, <1>5
<1>7. \A b \in DOMAIN ring' : ring'[b].id \in 1..arrived + 1
  <2>1. \A b \in DOMAIN ring : ring[b].id \in 1..arrived
    BY PacketParts
  <2> QED BY <1>3, <1>6, <2>1
<1>8. \A a, b \in DOMAIN ring' : a < b => ring'[a].id < ring'[b].id
  <2> SUFFICES ASSUME NEW a \in DOMAIN ring', NEW b \in DOMAIN ring', a < b
               PROVE  ring'[a].id < ring'[b].id
    OBVIOUS
  <2>1. a \in DOMAIN ring /\ ring'[a] = ring[a] /\ ring[a].id \in 1..arrived
    BY <1>5, PacketParts
  <2> QED BY <1>3, <1>6, <2>1, PacketParts
<1>9. \A a \in DOMAIN got, b \in DOMAIN ring' : got[a] < ring'[b].id
  BY <1>3, <1>6, PacketParts
<1>10. \A k \in Job : JobPkt(job[k])'
  BY <1>1, <1>3, PacketParts DEF JobPkt
<1>11. dropped = "no" =>
         \A j \in Job : job[j].pkt.id # 0 =>
           /\ \A a \in DOMAIN got : got[a] < job[j].pkt.id
           /\ \A b \in DOMAIN ring' : job[j].pkt.id < ring'[b].id
  <2>1. \A j \in Job : job[j].pkt.id < arrived + 1
    BY <1>3, PacketParts DEF JobPkt
  <2> QED BY <1>6, <2>1, PacketParts
<1>12. PacketInv'
  BY <1>1, <1>7, <1>8, <1>9, <1>10, <1>11 DEF PacketInv
<1>13. ASSUME dropped = "no", NEW x \in 1..arrived + 1
       PROVE  x \in ToSet(got) \cup gone \cup Kept'
  <2>0. x # 0
    OBVIOUS
  <2>1. CASE x = arrived + 1
    <3>1. Len(ring) + 1 \in DOMAIN ring' /\ ring'[Len(ring) + 1].id = x
      BY <1>4, <1>5, <2>1
    <3> QED BY <1>1, <1>10, <1>13, <2>0, <3>1, KeptNext
  <2>2. CASE x # arrived + 1
    <3>1. x \in ToSet(got) \cup gone \cup Kept
      BY <1>3, <1>13, <2>2, PacketParts
    <3>2. CASE x \in Kept
      <4>1. \/ \E b \in DOMAIN ring' : ring'[b].id = x
            \/ \E j \in Job : job'[j].pkt.id = x
        BY <1>1, <1>5, <3>2, KeptNow
      <4> QED BY <1>1, <1>10, <1>13, <2>0, <4>1, KeptNext
    <3> QED BY <3>1, <3>2
  <2> QED BY <2>1, <2>2
<1> QED BY <1>1, <1>12, <1>13, PacketParts DEF PollDelivers

(* The new session has an empty ring.                                      *)
LEMMA RingEmptied ==
  ASSUME IInv, JobInv', Enable
  PROVE  PacketInv' /\ PollDelivers'
<1>1. /\ arrived' = arrived /\ job' = job /\ got' = got /\ gone' = gone \cup Ids(ring)
      /\ dropped' = dropped /\ ring' = <<>> /\ DOMAIN ring' = {}
  BY DEF Enable, NewSession, life
<1>2. \A k \in Job : JobPkt(job[k])'
  BY <1>1, PacketParts DEF JobPkt
<1>3. PacketInv'
  BY <1>1, <1>2, PacketParts DEF PacketInv
<1>4. ASSUME dropped = "no", NEW x \in 1..arrived
      PROVE  x \in ToSet(got) \cup gone' \cup Kept'
  <2>1. x # 0 /\ x \in ToSet(got) \cup gone \cup Kept
    BY <1>4, PacketParts
  <2>2. CASE x \in Kept /\ x \notin Ids(ring)
    <3>1. \E j \in Job : job'[j].pkt.id = x
      BY <1>1, <2>2, KeptNow DEF Ids
    <3> QED BY <1>1, <1>2, <1>4, <2>1, <3>1, KeptNext
  <2> QED BY <1>1, <2>1, <2>2
<1> QED BY <1>1, <1>3, <1>4, PacketParts DEF PollDelivers

(* The packets in the hands of the pool, in a step that returns none.      *)
LEMMA TaskKeeps ==
  ASSUME IInv, NEW t \in Task, TaskStep(t),
         fut[t].op # "poll_recv" \/ \A j \in Job : fut[t].job = j => job[j].at # "done"
  PROVE  \A k \in Job : job'[k].pkt = job[k].pkt /\ JobPkt(job'[k])
<1>0. /\ job \in [Job -> JobType] /\ fut[t].op \in AllOps \cup {"none"}
      /\ fut[t].job \in Job \cup {None} /\ None \notin Job
      /\ \A k \in Job : JobPkt(job[k])
      /\ Free.pkt = NoPacket /\ Free.at = "free" /\ NoPacket.id = 0 /\ 0 <= arrived
  BY Types, PacketParts DEF Free, NoPacket
<1>1. CASE job' = job
  BY <1>0, <1>1
<1>2. ASSUME NEW j \in Job, NEW q \in JobType, job' = [job EXCEPT ![j] = q], Spawned(t, j, q)
      PROVE  \A k \in Job : job'[k].pkt = job[k].pkt /\ JobPkt(job'[k])
  <2>1. job[j].pkt = NoPacket /\ q.pkt = NoPacket /\ q.at = "queued"
    BY <1>0, <1>2 DEF Spawned, JobPkt
  <2>2. JobPkt(q)
    BY <1>0, <2>1 DEF JobPkt
  <2> QED BY <1>0, <1>2, <2>1, <2>2
<1>3. ASSUME NEW j \in Job, NEW q \in JobType, job' = [job EXCEPT ![j] = q],
             Touched(job[j], q)
      PROVE  \A k \in Job : job'[k].pkt = job[k].pkt /\ JobPkt(job'[k])
  <2>1. q.pkt = job[j].pkt
    BY <1>3 DEF Touched
  <2>2. JobPkt(q)
    BY <1>0, <1>3 DEF JobPkt, Touched
  <2> QED BY <1>0, <1>3, <2>1, <2>2
<1>4. ASSUME NEW j \in Job, job' = [job EXCEPT ![j] = Free], fut[t].job = j,
             job[j].at = "done"
      PROVE  \A k \in Job : job'[k].pkt = job[k].pkt /\ JobPkt(job'[k])
  <2>1. fut[t].op # "poll_recv" /\ job[j].op = fut[t].op
    BY <1>0, <1>4 DEF IInv, OwnerInv
  <2>2. job[j].pkt = NoPacket
    BY <1>0, <2>1 DEF JobPkt
  <2>3. JobPkt(Free)
    BY <1>0 DEF JobPkt
  <2> QED BY <1>0, <1>4, <2>2, <2>3
<1> QED BY <1>1, <1>2, <1>3, <1>4, TaskPool DEF PoolChanges

(* What a step of a task does to the ring and to the packets that it gave. *)
LEMMA TaskPackets ==
  ASSUME IInv, NEW t \in Task, TaskStep(t)
  PROVE  /\ arrived' = arrived
         /\ \/ PollReady(t, "poll_recv")
            \/ /\ fut[t].op # "poll_recv" \/ \A j \in Job : fut[t].job = j => job[j].at # "done"
               /\ \/ ring' = ring /\ got' = got /\ gone' = gone
                  \/ /\ ring # <<>> /\ ring' = Tail(ring)
                     /\ \/ got' = got /\ gone' = gone \cup {Head(ring).id}
                        \/ /\ slot["poll_recv"] = None /\ guard["poll_recv"] = None
                           /\ got' = Append(got, Head(ring).id) /\ gone' = gone
<1> DEFINE Idles == fut[t].op # "poll_recv" \/ \A j \in Job : fut[t].job = j => job[j].at # "done"
           Stays == ring' = ring /\ got' = got /\ gone' = gone /\ arrived' = arrived
<1>0. Fits(pc[t], fut[t]) /\ fut[t].job \in Job \cup {None} /\ None \notin Job
  BY Types DEF IInv, TaskInv
<1>1. pc[t] \notin Working => Idles
  BY <1>0 DEF Fits
<1>2. pc[t] # "polling" => Idles
  BY <1>0 DEF Fits, Working, Channel, Awaited
<1> HIDE DEF Idles
<1>3. ASSUME NEW o \in AllOps, NEW n \in program.bufLen \cup {data + 1}, Begin(t, o, n)
      PROVE  Idles /\ Stays
  BY <1>2, <1>3 DEF Begin, At, deviceVars
<1>4. ASSUME NEW c \in Channel, PollTake(t, c) \/ PollSpawn(t, c) PROVE Idles /\ Stays
  BY <1>2, <1>4 DEF PollTake, PollSpawn, Polls, At, deviceVars, history
<1>5. ASSUME NEW c \in Channel, PollPending(t, c) PROVE Idles /\ Stays
  BY <1>5 DEF PollPending, Idles, deviceVars, history
<1>6. ASSUME PollReady(t, "poll_send") PROVE Idles /\ Stays
  BY <1>6 DEF PollReady, Idles, deviceVars
<1>7. ASSUME AwaitJob(t) \/ AwaitReady(t) \/ CancelTrigger(t) \/ CancelEnds(t)
             \/ Abandon(t) \/ CancelBegin(t)
      PROVE  Idles /\ Stays
  BY <1>2, <1>7
     DEF AwaitJob, AwaitReady, CancelTrigger, CancelEnds, Abandon, CancelBegin, At,
         deviceVars, history
<1>8. ASSUME TryReturns(t), pc[t] # "polling", UNCHANGED arrived,
             fut[t].op = "poll_recv" => slot["poll_recv"] = None /\ guard["poll_recv"] = None
      PROVE  /\ Idles /\ arrived' = arrived
             /\ \/ ring' = ring /\ got' = got /\ gone' = gone
                \/ /\ ring # <<>> /\ ring' = Tail(ring)
                   /\ \/ got' = got /\ gone' = gone \cup {Head(ring).id}
                      \/ /\ slot["poll_recv"] = None /\ guard["poll_recv"] = None
                         /\ got' = Append(got, Head(ring).id) /\ gone' = gone
  BY <1>2, <1>8 DEF TryReturns, TakePacket, SendPacket, deviceVars
<1>9. ASSUME NEW c \in Channel, PollTry(t, c)
      PROVE  TryReturns(t) /\ pc[t] # "polling" /\ arrived' = arrived
             /\ (fut[t].op = "poll_recv" => slot["poll_recv"] = None /\ guard["poll_recv"] = None)
  BY <1>9 DEF PollTry, Polls, At
<1>10. ASSUME Try(t)
       PROVE  TryReturns(t) /\ pc[t] # "polling" /\ arrived' = arrived
              /\ fut[t].op # "poll_recv"
  BY <1>0, <1>10 DEF Try, At, Fits, Awaited
<1>11. ASSUME NEW c \in Channel, PollReady(t, c)
       PROVE  PollReady(t, "poll_recv") \/ PollReady(t, "poll_send")
  BY <1>11 DEF Channel
<1>12. PollReady(t, "poll_recv") => arrived' = arrived
  BY DEF PollReady
<1> QED BY <1>3, <1>4, <1>5, <1>6, <1>7, <1>8, <1>9, <1>10, <1>11, <1>12
        DEF TaskStep, Poll, Await, Idles

(* The history of a thread's step. *)
LEMMA ThreadHistory ==
  ASSUME NEW j \in Job, JobStep(j) \/ JobFails(j)
  PROVE  got' = got /\ arrived' = arrived /\ data' = data /\ okd' = okd /\ ended' = ended
  BY DEF JobStep, JobStart, JobDiscard, JobLock, JobRecv, JobSend, JobWait, JobStops, JobExits,
         JobFails, Finish, Move, history

(* Every step keeps PacketInv and PollDelivers. *)
LEMMA PacketOk ==
  ASSUME IInv, Next, JobInv'
  PROVE  PacketInv' /\ PollDelivers'
<1>0. /\ job \in [Job -> JobType] /\ \A k \in Job : JobPkt(job[k])
      /\ Free.pkt = NoPacket /\ Free.at = "free" /\ NoPacket.id = 0
      /\ arrived \in Nat
  BY Types, PacketParts DEF Free, NoPacket
<1>1. ASSUME NEW t \in Task, TaskStep(t) PROVE PacketInv' /\ PollDelivers'
  <2>0. dropped = "no" /\ dropped' = "no" /\ arrived' = arrived
    BY <1>1, TaskMoves, TaskPackets
  <2>1. CASE PollReady(t, "poll_recv")
    BY <2>1, PacketReturned
  <2>2. ASSUME fut[t].op # "poll_recv" \/ \A j \in Job : fut[t].job = j => job[j].at # "done"
        PROVE  \A k \in Job : job'[k].pkt = job[k].pkt /\ JobPkt(job'[k])
    BY <1>1, <2>2, TaskKeeps
  <2>3. ASSUME slot["poll_recv"] = None, guard["poll_recv"] = None, NEW k \in Job
        PROVE  job[k].pkt.id = 0
    BY <2>0, <2>3, PacketIsReceived, Receiver, Types
  <2>4. CASE /\ \A k \in Job : job'[k].pkt = job[k].pkt /\ JobPkt(job'[k])
             /\ ring' = ring /\ got' = got /\ gone' = gone
    BY <2>0, <2>4, PacketsStay
  <2>5. CASE /\ \A k \in Job : job'[k].pkt = job[k].pkt /\ JobPkt(job'[k])
             /\ ring # <<>> /\ ring' = Tail(ring)
             /\ got' = got /\ gone' = gone \cup {Head(ring).id}
    BY <2>0, <2>5, PacketTaken
  <2>6. CASE /\ \A k \in Job : job'[k].pkt = job[k].pkt /\ JobPkt(job'[k])
             /\ ring # <<>> /\ ring' = Tail(ring)
             /\ slot["poll_recv"] = None /\ guard["poll_recv"] = None
             /\ got' = Append(got, Head(ring).id) /\ gone' = gone
    BY <2>0, <2>3, <2>6, PacketTaken
  <2> QED BY <1>1, <2>1, <2>2, <2>4, <2>5, <2>6, TaskPackets
<1>2. ASSUME NEW j \in Job, JobStep(j) \/ JobFails(j) PROVE PacketInv' /\ PollDelivers'
  <2>0. got' = got /\ arrived' = arrived /\ dropped' = dropped
    BY <1>2, ThreadHistory, JobStepMoves DEF JobMoves
  <2>1. PICK q \in JobType :
          /\ ThreadMoves(j, q)
          /\ Quiet(j, q) \/ Receives(j, q) \/ Refuses(j, q) \/ Sends(j, q)
    BY <1>2, ThreadPool DEF ThreadActs
  <2>2. job'[j] = q /\ \A k \in Job : k # j => job'[k] = job[k]
    BY <1>0, <2>1 DEF ThreadMoves
  <2>3. q.at = "free" => q = Free
    BY <2>1 DEF ThreadMoves, GoesOn
  <2>4. job[j].at # "done" => job[j].pkt = NoPacket
    BY <1>0 DEF JobPkt
  <2>5. ASSUME JobPkt(q), NEW k \in Job PROVE JobPkt(job'[k])
    BY <1>0, <2>2, <2>5
  <2>6. CASE Quiet(j, q) \/ Sends(j, q)
    <3>1. /\ q.pkt = NoPacket /\ job[j].pkt = NoPacket /\ ring' = ring /\ gone' = gone
          /\ q.at = "done" /\ q.op = "poll_recv" => ~q.ok
      BY <2>4, <2>6 DEF Quiet, Sends
    <3>2. JobPkt(q)
      BY <1>0, <3>1 DEF JobPkt
    <3>3. \A k \in Job : job'[k].pkt = job[k].pkt
      BY <2>2, <3>1
    <3> QED BY <2>0, <2>5, <3>1, <3>2, <3>3, PacketsStay
  <2>7. CASE Refuses(j, q)
    <3>1. /\ q.pkt = NoPacket /\ job[j].pkt = NoPacket /\ ring # <<>> /\ ring' = Tail(ring)
          /\ gone' = gone \cup {Head(ring).id} /\ ~q.ok
      BY <2>4, <2>7 DEF Refuses
    <3>2. JobPkt(q)
      BY <1>0, <3>1 DEF JobPkt
    <3>3. \A k \in Job : job'[k].pkt = job[k].pkt
      BY <2>2, <3>1
    <3> QED BY <2>0, <2>5, <3>1, <3>2, <3>3, PacketTaken
  <2>8. CASE Receives(j, q)
    <3>1. /\ job[j].pkt = NoPacket /\ ring # <<>> /\ ring' = Tail(ring) /\ gone' = gone
          /\ job[j].op = "poll_recv" /\ job[j].at = "try"
      BY <2>4, <2>8 DEF Receives
    <3>2. CASE q.at = "done" /\ q.ok /\ q.op = "poll_recv" /\ q.pkt = Head(ring)
      <4>1. JobPkt(q)
        BY <1>0, <3>1, <3>2, RingTail DEF JobPkt
      <4>2. dropped = "no" => \A k \in Job : job[k].pkt.id = 0
        <5> SUFFICES ASSUME dropped = "no", NEW k \in Job, job[k].pkt.id # 0 PROVE FALSE
          OBVIOUS
        <5>1. job[k].op = "poll_recv" /\ job[k].at = "done"
          BY PacketIsReceived
        <5>2. j = k
          BY <3>1, <5>1, OneReceiver
        <5> QED BY <3>1, <5>1, <5>2
      <4>3. job'[j].pkt = Head(ring) /\ \A k \in Job : k # j => job'[k].pkt = job[k].pkt
        BY <2>2, <3>2
      <4> QED BY <2>0, <2>5, <3>1, <4>1, <4>2, <4>3, PacketTaken
    <3>3. CASE q = Free /\ ~Wanted(j)
      <4>1. dropped # "no"
        BY <3>1, <3>3, Receiver
      <4>2. JobPkt(q)
        BY <1>0, <3>3 DEF JobPkt
      <4> QED BY <2>0, <2>5, <3>1, <4>1, <4>2, PacketTaken
    <3> QED BY <2>8, <3>2, <3>3 DEF Receives
  <2> QED BY <2>1, <2>6, <2>7, <2>8
<1>3. CASE Outside
  <2>1. CASE Disable \/ Drain
    <3>1. /\ ring' = ring /\ got' = got /\ gone' = gone /\ arrived' = arrived
          /\ job' = job /\ dropped' = dropped
      BY <2>1 DEF Disable, Drain, life, history
    <3> QED BY <1>0, <3>1, PacketsStay
  <2> QED BY <1>3, <2>1, PacketArrives, RingEmptied DEF Outside
<1>4. CASE DropBegin
  <2>1. /\ ring' = ring /\ got' = got /\ gone' = gone /\ arrived' = arrived
        /\ job' = job /\ dropped' = "shutdown"
    BY <1>4 DEF DropBegin, history
  <2> QED BY <1>0, <2>1, PacketsStay
<1>5. CASE DropFields
  <2>1. /\ ring' = ring /\ got' = got /\ gone' = gone /\ arrived' = arrived
        /\ dropped' = "gone"
    BY <1>5 DEF DropFields, deviceVars, history
  <2>2. ASSUME NEW k \in Job
        PROVE  JobPkt(job'[k]) /\ (job'[k].pkt = job[k].pkt \/ job'[k].pkt = NoPacket)
    <3>1. job'[k] \in {job[k], Free, [job[k] EXCEPT !.detached = TRUE]}
      BY <1>5 DEF DropFields
    <3>2. JobPkt(Free)
      BY <1>0 DEF JobPkt
    <3> DEFINE d == [job[k] EXCEPT !.detached = TRUE]
    <3>3. /\ d.at = job[k].at /\ d.op = job[k].op /\ d.pkt = job[k].pkt
          /\ (d.ok <=> job[k].ok)
      BY <1>0 DEF JobType
    <3>4. JobPkt(d)
      BY <1>0, <3>3 DEF JobPkt
    <3> HIDE DEF d
    <3>5. job'[k] \in {job[k], Free, d}
      BY <3>1 DEF d
    <3> QED BY <1>0, <3>2, <3>3, <3>4, <3>5
  <2> QED BY <2>1, <2>2, PacketsStay
<1> QED BY <1>1, <1>2, <1>3, <1>4, <1>5, NextCases

(***************************************************************************)
(* DataInv and TypeOK.                                                     *)
(***************************************************************************)

(* A call keeps its data until it is over. *)
LEMMA TaskFuture ==
  ASSUME IInv, NEW t \in Task, TaskStep(t)
  PROVE  \/ \E o \in AllOps, n \in program.bufLen \cup {data + 1} : Begin(t, o, n)
         \/ /\ data' = data
            /\ \/ fut'[t].op = "none"
               \/ fut'[t].op = fut[t].op /\ fut'[t].arg = fut[t].arg
<1> DEFINE Same == data' = data /\ (fut'[t].op = "none" \/ (fut'[t].op = fut[t].op /\ fut'[t].arg = fut[t].arg))
<1>0. fut \in [Task -> FutType] /\ fut[t] \in FutType
  BY Types
<1>1. ASSUME NEW ok, Return(t, ok), data' = data PROVE Same
  <2>1. fut'[t] = Idle
    BY <1>0, <1>1, ReturnMoves
  <2> QED BY <1>1, <2>1 DEF Idle
<1>2. ASSUME NEW x, fut' = [fut EXCEPT ![t] = [@ EXCEPT !.job = x]], data' = data PROVE Same
  <2>1. fut'[t] = [fut[t] EXCEPT !.job = x]
    BY <1>0, <1>2
  <2>2. fut'[t].op = fut[t].op /\ fut'[t].arg = fut[t].arg
    BY <1>0, <2>1 DEF FutType
  <2> QED BY <1>2, <2>2
<1>3. ASSUME Spawn(t), data' = data PROVE Same
  BY <1>2, <1>3 DEF Spawn
<1>4. ASSUME fut' = fut, data' = data PROVE Same
  BY <1>4
<1> HIDE DEF Same
<1>5. ASSUME NEW c \in Channel, PollTry(t, c) \/ PollReady(t, c) PROVE Same
  BY <1>1, <1>5 DEF PollTry, PollReady, TryReturns
<1>6. ASSUME NEW c \in Channel, PollTake(t, c) \/ PollSpawn(t, c) \/ PollPending(t, c) PROVE Same
  BY <1>2, <1>3, <1>6 DEF PollTake, PollSpawn, PollPending, history
<1>7. ASSUME Await(t) PROVE Same
  <2>1. CASE Try(t) \/ CancelEnds(t)
    BY <1>1, <2>1 DEF Try, TryReturns, CancelEnds
  <2>2. CASE AwaitJob(t)
    BY <1>1, <1>3, <2>2 DEF AwaitJob
  <2>3. CASE AwaitReady(t)
    BY <1>1, <1>2, <2>3 DEF AwaitReady
  <2>4. CASE CancelTrigger(t)
    BY <1>4, <2>4 DEF CancelTrigger, history
  <2> QED BY <1>7, <2>1, <2>2, <2>3, <2>4 DEF Await
<1>8. CASE Abandon(t)
  BY <1>1, <1>8 DEF Abandon, Same
<1>9. CASE CancelBegin(t)
  BY <1>4, <1>9 DEF CancelBegin, history, Same
<1>10. Poll(t) => Same
  BY <1>5, <1>6 DEF Poll
<1> QED BY <1>7, <1>8, <1>9, <1>10 DEF TaskStep, Same

(* Every step keeps DataInv. *)
LEMMA DataOk ==
  ASSUME IInv, Next
  PROVE  DataInv'
<1>0. /\ fut \in [Task -> FutType] /\ job \in [Job -> JobType] /\ data \in Nat
      /\ \A t \in Task : IsSend(fut[t].op) => fut[t].arg \in 1..data
      /\ \A j \in Job : job[j].at # "free" /\ IsSend(job[j].op) => job[j].arg \in 1..data
      /\ \A j \in Job : job[j] \in JobType
  BY Types, AsyncAssumption DEF IInv, DataInv, TypeOK, Program
<1>1. ASSUME NEW t \in Task, TaskStep(t) PROVE DataInv'
  <2>1. \A u \in Task : u # t => fut'[u] = fut[u]
    BY <1>0, <1>1, TaskMoves DEF Moves
  <2>2. data' \in {data, data + 1}
    <3>1. ASSUME NEW o \in AllOps, NEW n \in program.bufLen \cup {data + 1}, Begin(t, o, n)
          PROVE  data' \in {data, data + 1}
      BY <3>1 DEF Begin
    <3> QED BY <1>1, <3>1, TaskFuture
  <2>3. IsSend(fut'[t].op) => fut'[t].arg \in 1..data'
    <3>1. ASSUME NEW o \in AllOps, NEW n \in program.bufLen \cup {data + 1}, Begin(t, o, n)
          PROVE  IsSend(fut'[t].op) => fut'[t].arg \in 1..data'
      <4>1. fut'[t] = [op |-> o, arg |-> n, job |-> None]
        BY <1>0, <3>1 DEF Begin
      <4>2. IsSend(o) => n = data + 1 /\ data' = n
        BY <3>1 DEF Begin
      <4> QED BY <1>0, <4>1, <4>2
    <3>2. CASE fut'[t].op = "none"
      BY <3>2 DEF IsSend
    <3> QED BY <1>0, <1>1, <3>1, <3>2, TaskFuture
  <2>4. \A u \in Task : IsSend(fut'[u].op) => fut'[u].arg \in 1..data'
    BY <1>0, <2>1, <2>2, <2>3
  <2>5. ASSUME NEW k \in Job, job'[k].at # "free", IsSend(job'[k].op)
        PROVE  job'[k].arg \in 1..data'
    <3>1. CASE job'[k] = job[k]
      BY <1>0, <2>2, <2>5, <3>1
    <3>2. ASSUME NEW q \in JobType, job' = [job EXCEPT ![k] = q], Spawned(t, k, q)
          PROVE  job'[k].arg \in 1..data'
      <4>1. job'[k] = q /\ q.op = fut[t].op /\ q.arg = fut[t].arg
        BY <1>0, <3>2 DEF Spawned
      <4> QED BY <1>0, <2>2, <2>5, <4>1
    <3>3. ASSUME NEW q \in JobType, job' = [job EXCEPT ![k] = q], Touched(job[k], q)
          PROVE  job'[k].arg \in 1..data'
      <4>1. job'[k] = q /\ q.op = job[k].op /\ q.arg = job[k].arg /\ q.at = job[k].at
        BY <1>0, <3>3 DEF Touched
      <4> QED BY <1>0, <2>2, <2>5, <4>1
    <3>4. CASE job' = [job EXCEPT ![k] = Free]
      BY <1>0, <2>5, <3>4 DEF Free
    <3>5. \A j \in Job, q \in JobType : job' = [job EXCEPT ![j] = q] /\ j # k => job'[k] = job[k]
      BY <1>0
    <3>6. CASE job' = job
      BY <3>1, <3>6
    <3>7. ASSUME NEW j \in Job, NEW q \in JobType, job' = [job EXCEPT ![j] = q],
                 Spawned(t, j, q) \/ Touched(job[j], q) \/ q = Free
          PROVE  job'[k].arg \in 1..data'
      <4>1. CASE j = k
        BY <3>2, <3>3, <3>4, <3>7, <4>1
      <4>2. CASE j # k
        BY <3>1, <3>5, <3>7, <4>2
      <4> QED BY <4>1, <4>2
    <3> QED BY <1>1, <3>6, <3>7, TaskPool DEF PoolChanges
  <2> QED BY <2>4, <2>5 DEF DataInv
<1>2. ASSUME fut' = fut, data' = data,
             \A k \in Job : job'[k].at # "free" =>
               job[k].at # "free" /\ job'[k].op = job[k].op /\ job'[k].arg = job[k].arg
      PROVE  DataInv'
  BY <1>0, <1>2 DEF DataInv
<1>3. ASSUME NEW j \in Job, JobStep(j) \/ JobFails(j) PROVE DataInv'
  <2>1. PICK q \in JobType : ThreadMoves(j, q)
    BY <1>3, ThreadPool DEF ThreadActs
  <2>2. fut' = fut /\ data' = data /\ job[j].at # "free"
    BY <1>3, ThreadHistory, JobStepMoves DEF JobMoves
  <2>3. job'[j] = q /\ \A k \in Job : k # j => job'[k] = job[k]
    BY <1>0, <2>1 DEF ThreadMoves
  <2>4. q.at # "free" => q.op = job[j].op /\ q.arg = job[j].arg
    BY <2>1 DEF ThreadMoves, GoesOn, Free
  <2> QED BY <1>2, <2>2, <2>3, <2>4
<1>4. CASE Outside
  BY <1>2, <1>4 DEF Outside, Disable, Enable, Arrive, Drain, history
<1>5. CASE DropBegin
  BY <1>2, <1>5 DEF DropBegin, history
<1>6. CASE DropFields
  <2>1. ASSUME NEW k \in Job, job'[k].at # "free"
        PROVE  job[k].at # "free" /\ job'[k].op = job[k].op /\ job'[k].arg = job[k].arg
    <3> DEFINE d == [job[k] EXCEPT !.detached = TRUE]
    <3>1. job'[k] \in {job[k], Free, d}
      BY <1>6 DEF DropFields
    <3>2. d.at = job[k].at /\ d.op = job[k].op /\ d.arg = job[k].arg
      BY <1>0 DEF JobType
    <3>3. Free.at = "free"
      BY DEF Free
    <3> HIDE DEF d
    <3> QED BY <2>1, <3>1, <3>2, <3>3
  <2>2. fut' = fut /\ data' = data
    BY <1>6 DEF DropFields, history
  <2> QED BY <1>2, <2>1, <2>2
<1> QED BY <1>1, <1>3, <1>4, <1>5, <1>6, NextCases

(* Types, with the bounds of the program.                                  *)
LEMMA TypeParts ==
  ASSUME IInv
  PROVE  /\ program \in Programs /\ program.maxArrived \in Nat /\ program.maxData \in Nat
         /\ program.bufLen \subseteq Nat /\ SendCap \in Nat
         /\ enabled \in BOOLEAN /\ read_event \in BOOLEAN /\ unsent \in 0..SendCap
         /\ ring \in Seq(Packet) /\ woken \subseteq Task
         /\ arrived \in 0..program.maxArrived /\ data \in 0..program.maxData
         /\ got \in Seq(1..arrived) /\ gone \subseteq 1..arrived
         /\ wire \in Seq(1..data) /\ okd \subseteq 1..data /\ ended \subseteq 1..data
  BY AsyncAssumption DEF IInv, TypeOK, Program

(* A sequence of some numbers is one of more numbers. *)
LEMMA SeqMore ==
  ASSUME NEW S, NEW T, S \subseteq T, NEW s \in Seq(S)
  PROVE  s \in Seq(T)
<1>1. s \in [1..Len(s) -> S] /\ Len(s) \in Nat
  OBVIOUS
<1>2. s \in [1..Len(s) -> T]
  BY <1>1
<1> QED BY <1>1, <1>2

(* The tasks, the pool and what protects the slots.                        *)
TaskTypes ==
  /\ job \in [Job -> JobType]
  /\ slot \in [Channel -> Job \cup {None}] /\ guard \in [Channel -> Task \cup {None}]
  /\ pc \in [Task -> Pcs] /\ fut \in [Task -> FutType]
  /\ dropped \in {"no", "shutdown", "gone"} /\ program \in Programs

(* Every step keeps the types of the tasks and of the pool. *)
LEMMA TaskTypesOk ==
  ASSUME IInv, Next
  PROVE  TaskTypes'
<1>0. /\ TaskTypes /\ Free \in JobType
      /\ \A t \in Task : fut[t].job \in Job \cup {None}
      /\ \A j \in Job : job[j] \in JobType
  BY Types DEF TaskTypes, Free, JobType, NoPacket, Packet
<1>1. ASSUME NEW t \in Task, TaskStep(t) PROVE TaskTypes'
  <2>1. /\ pc' \in [Task -> Pcs] /\ fut' \in [Task -> FutType]
        /\ dropped' \in {"no", "shutdown", "gone"} /\ program' \in Programs
    <3>1. PICK p \in Pcs, f \in FutType : pc' = [pc EXCEPT ![t] = p] /\ fut' = [fut EXCEPT ![t] = f]
      BY <1>1, TaskMoves DEF Moves
    <3> QED BY <1>0, <1>1, <3>1, TaskMoves DEF TaskTypes
  <2>2. job' \in [Job -> JobType]
    BY <1>0, <1>1, TaskPool DEF PoolChanges, TaskTypes
  <2>3. slot' \in [Channel -> Job \cup {None}] /\ guard' \in [Channel -> Task \cup {None}]
    <3>1. ASSUME slot' = slot, guard' = guard
          PROVE  slot' \in [Channel -> Job \cup {None}] /\ guard' \in [Channel -> Task \cup {None}]
      BY <1>0, <3>1 DEF TaskTypes
    <3>2. CASE Poll(t)
      <4>1. PICK c \in Channel : \/ PollTry(t, c) \/ PollTake(t, c) \/ PollSpawn(t, c)
                                 \/ PollPending(t, c) \/ PollReady(t, c)
        BY <3>2 DEF Poll
      <4>2. slot' \in {slot, [slot EXCEPT ![c] = None], [slot EXCEPT ![c] = fut[t].job]}
        BY <4>1 DEF PollTry, PollTake, PollSpawn, PollPending, PutBack, PollReady
      <4>3. guard' \in {guard, [guard EXCEPT ![c] = None], [guard EXCEPT ![c] = t]}
        BY <4>1 DEF PollTry, PollTake, PollSpawn, PollPending, PollReady
      <4> QED BY <1>0, <4>2, <4>3 DEF TaskTypes
    <3>3. CASE Await(t) \/ Abandon(t) \/ CancelBegin(t)
      BY <3>1, <3>3 DEF Await, Try, AwaitJob, AwaitReady, CancelTrigger, CancelEnds, Abandon,
         CancelBegin
    <3>4. ASSUME NEW o \in AllOps, NEW n \in program.bufLen \cup {data + 1}, Begin(t, o, n)
          PROVE  slot' \in [Channel -> Job \cup {None}] /\ guard' \in [Channel -> Task \cup {None}]
      BY <3>1, <3>4 DEF Begin
    <3> QED BY <1>1, <3>2, <3>3, <3>4 DEF TaskStep
  <2> QED BY <2>1, <2>2, <2>3 DEF TaskTypes
<1>2. ASSUME NEW j \in Job, JobStep(j) \/ JobFails(j) PROVE TaskTypes'
  <2>1. JobMoves(j)
    BY <1>2, JobStepMoves
  <2>2. job' \in [Job -> JobType]
    BY <1>0, <2>1 DEF JobMoves, TaskTypes
  <2> QED BY <1>0, <2>1, <2>2 DEF JobMoves, TaskTypes
<1>3. CASE Outside
  BY <1>0, <1>3, OutsideMoves DEF TaskTypes
<1>4. CASE DropBegin
  BY <1>0, <1>4 DEF DropBegin, TaskTypes
<1>5. CASE DropFields
  <2>1. job' \in [Job -> JobType]
    <3>1. ASSUME NEW k \in Job PROVE [job[k] EXCEPT !.detached = TRUE] \in JobType
      BY <1>0 DEF JobType
    <3> QED BY <1>0, <1>5, <3>1 DEF DropFields
  <2>2. slot' \in [Channel -> Job \cup {None}]
    BY <1>5 DEF DropFields
  <2> QED BY <1>0, <1>5, <2>1, <2>2 DEF DropFields, TaskTypes
<1> QED BY <1>1, <1>2, <1>3, <1>4, <1>5, NextCases

(* The driver, and the wakers. *)
DriverTypes ==
  /\ enabled \in BOOLEAN /\ read_event \in BOOLEAN /\ unsent \in 0..SendCap
  /\ ring \in Seq(Packet) /\ woken \subseteq Task

(* Every step keeps the types of the driver's rings and of the device. *)
LEMMA DriverTypesOk ==
  ASSUME IInv, Next
  PROVE  DriverTypes'
<1>0. DriverTypes /\ SendCap \in Nat
  BY TypeParts DEF DriverTypes
<1>1. ASSUME UNCHANGED deviceVars, woken' \subseteq Task PROVE DriverTypes'
  BY <1>0, <1>1 DEF DriverTypes, deviceVars
<1>2. ASSUME TakePacket, ring # <<>>, woken' \subseteq Task PROVE DriverTypes'
  BY <1>0, <1>2, RingTail DEF DriverTypes, TakePacket
<1>3. ASSUME NEW d, SendPacket(d), unsent < SendCap, woken' \subseteq Task PROVE DriverTypes'
  <2>1. unsent' \in 0..SendCap
    BY <1>0, <1>3 DEF DriverTypes, SendPacket
  <2> QED BY <1>0, <1>3, <2>1 DEF DriverTypes, SendPacket
<1>4. ASSUME NEW t \in Task, TaskStep(t) PROVE DriverTypes'
  <2>1. woken \subseteq Task /\ t \in Task
    BY <1>0 DEF DriverTypes
  <2>2. ASSUME NEW ok, Return(t, ok) PROVE woken' \subseteq Task
    BY <2>1, <2>2 DEF Return
  <2>3. ASSUME TryReturns(t) PROVE DriverTypes'
    BY <1>1, <1>2, <1>3, <2>2, <2>3 DEF TryReturns
  <2>4. CASE Poll(t)
    <3>1. ASSUME NEW c \in Channel, PollTry(t, c) PROVE DriverTypes'
      BY <2>3, <3>1 DEF PollTry
    <3>2. ASSUME NEW c \in Channel, PollTake(t, c) \/ PollSpawn(t, c) \/ PollPending(t, c)
          PROVE  DriverTypes'
      BY <1>1, <2>1, <3>2 DEF PollTake, PollSpawn, PollPending
    <3>3. ASSUME NEW c \in Channel, PollReady(t, c) PROVE DriverTypes'
      BY <1>1, <2>2, <3>3 DEF PollReady
    <3> QED BY <2>4, <3>1, <3>2, <3>3 DEF Poll
  <2>5. CASE Try(t)
    BY <2>3, <2>5 DEF Try
  <2>6. CASE AwaitJob(t) \/ AwaitReady(t) \/ CancelTrigger(t) \/ CancelEnds(t)
    BY <1>1, <2>1, <2>2, <2>6 DEF AwaitJob, AwaitReady, CancelTrigger, CancelEnds
  <2>7. CASE Abandon(t) \/ CancelBegin(t)
    BY <1>1, <2>1, <2>2, <2>7 DEF Abandon, CancelBegin
  <2>8. ASSUME NEW o \in AllOps, NEW n \in program.bufLen \cup {data + 1}, Begin(t, o, n)
        PROVE  DriverTypes'
    BY <1>1, <2>1, <2>8 DEF Begin
  <2> QED BY <1>4, <2>4, <2>5, <2>6, <2>7, <2>8 DEF TaskStep, Await
<1>5. ASSUME NEW j \in Job, JobStep(j) \/ JobFails(j) PROVE DriverTypes'
  <2>1. woken \subseteq Task /\ job[j].waker \in Task \cup {None}
    BY <1>0, Types, JobFields DEF DriverTypes
  <2>2. ASSUME NEW ok, NEW pkt, Finish(j, ok, pkt) PROVE woken' \subseteq Task
    BY <2>1, <2>2 DEF Finish
  <2>3. ASSUME NEW where, Move(j, where) PROVE woken' \subseteq Task
    BY <2>1, <2>3 DEF Move
  <2>4. CASE JobStart(j) \/ JobDiscard(j) \/ JobLock(j) \/ JobStops(j) \/ JobFails(j)
    BY <1>1, <2>2, <2>3, <2>4 DEF JobStart, JobDiscard, JobLock, JobStops, JobFails
  <2>5. CASE JobRecv(j)
    BY <1>1, <1>2, <2>2, <2>3, <2>5 DEF JobRecv
  <2>6. CASE JobSend(j)
    BY <1>3, <2>2, <2>6 DEF JobSend
  <2>7. CASE JobWait(j)
    <3>1. woken' \subseteq Task
      BY <2>2, <2>3, <2>7 DEF JobWait
    <3> QED BY <1>0, <2>7, <3>1 DEF JobWait, DriverTypes
  <2>8. CASE JobExits(j)
    BY <1>1, <2>1, <2>8 DEF JobExits
  <2> QED BY <1>5, <2>4, <2>5, <2>6, <2>7, <2>8 DEF JobStep
<1>6. CASE Disable \/ DropBegin
  BY <1>0, <1>6 DEF Disable, DropBegin, Shutdown, DriverTypes
<1>7. CASE Enable
  <2>1. <<>> \in Seq(Packet) /\ 0 \in 0..SendCap
    BY <1>0
  <2> QED BY <1>0, <1>7, <2>1 DEF Enable, NewSession, DriverTypes
<1>8. CASE DropFields
  BY <1>0, <1>1, <1>8 DEF DropFields, DriverTypes
<1>9. CASE Arrive
  <2>1. PICK n \in program.bufLen : ring' = Append(ring, [id |-> arrived + 1, size |-> n])
    BY <1>9 DEF Arrive
  <2>2. [id |-> arrived + 1, size |-> n] \in Packet
    BY TypeParts DEF Packet
  <2>3. ring' \in Seq(Packet)
    BY <1>0, <2>1, <2>2 DEF DriverTypes
  <2> QED BY <1>0, <1>9, <2>3 DEF Arrive, DriverTypes
<1>10. CASE Drain
  <2>1. unsent' \in 0..SendCap
    BY <1>0, <1>10 DEF Drain, DriverTypes
  <2> QED BY <1>0, <1>10, <2>1 DEF Drain, DriverTypes
<1> QED BY <1>4, <1>5, <1>6, <1>7, <1>8, <1>9, <1>10, NextCases DEF Outside

(* What the steps of a task add to the history of what is sent.            *)
LEMMA TaskWrites ==
  ASSUME IInv, NEW t \in Task, TaskStep(t)
  PROVE  /\ wire' = wire \/ (IsSend(fut[t].op) /\ wire' = Append(wire, fut[t].arg))
         /\ ended' = ended \/ (IsSend(fut[t].op) /\ ended' = ended \cup {fut[t].arg})
         /\ okd' = okd \/ (IsSend(fut[t].op) /\ okd' = okd \cup {fut[t].arg})
<1> DEFINE W == wire' = wire \/ (IsSend(fut[t].op) /\ wire' = Append(wire, fut[t].arg))
           R == /\ ended' = ended \/ (IsSend(fut[t].op) /\ ended' = ended \cup {fut[t].arg})
                /\ okd' = okd \/ (IsSend(fut[t].op) /\ okd' = okd \cup {fut[t].arg})
<1>1. ASSUME NEW ok, Return(t, ok) PROVE R
  BY <1>1 DEF Return
<1>2. ASSUME UNCHANGED <<okd, ended>> PROVE R
  BY <1>2
<1>3. ASSUME UNCHANGED wire PROVE W
  BY <1>3
<1>4. ASSUME TryReturns(t) PROVE W /\ R
  <2>1. R
    BY <1>1, <1>4 DEF TryReturns
  <2>2. W
    BY <1>4 DEF TryReturns, SendPacket
  <2> QED BY <2>1, <2>2
<1> HIDE DEF W, R
<1>5. ASSUME NEW c \in Channel, PollTry(t, c) PROVE W /\ R
  BY <1>4, <1>5 DEF PollTry
<1>6. ASSUME NEW c \in Channel, PollTake(t, c) \/ PollSpawn(t, c) \/ PollPending(t, c)
      PROVE  W /\ R
  BY <1>2, <1>3, <1>6 DEF PollTake, PollSpawn, PollPending, history
<1>7. ASSUME NEW c \in Channel, PollReady(t, c) PROVE W /\ R
  <2>1. R
    BY <1>1, <1>7 DEF PollReady
  <2> QED BY <1>3, <1>7, <2>1 DEF PollReady
<1>8. ASSUME Try(t) PROVE W /\ R
  BY <1>4, <1>8 DEF Try
<1>9. ASSUME AwaitJob(t) PROVE W /\ R
  BY <1>1, <1>2, <1>3, <1>9 DEF AwaitJob
<1>10. ASSUME AwaitReady(t) PROVE W /\ R
  BY <1>1, <1>2, <1>3, <1>10 DEF AwaitReady
<1>11. ASSUME CancelTrigger(t) \/ CancelBegin(t) PROVE W /\ R
  BY <1>2, <1>3, <1>11 DEF CancelTrigger, CancelBegin, history
<1>12. ASSUME CancelEnds(t) \/ Abandon(t) PROVE W /\ R
  BY <1>1, <1>3, <1>12 DEF CancelEnds, Abandon
<1>13. ASSUME NEW o \in AllOps, NEW n \in program.bufLen \cup {data + 1}, Begin(t, o, n)
       PROVE  W /\ R
  BY <1>2, <1>3, <1>13 DEF Begin
<1>14. Poll(t) => W /\ R
  BY <1>5, <1>6, <1>7 DEF Poll
<1>15. Await(t) => W /\ R
  BY <1>8, <1>9, <1>10, <1>11, <1>12 DEF Await
<1>16. W /\ R
  BY <1>11, <1>12, <1>13, <1>14, <1>15 DEF TaskStep
<1> QED BY <1>16 DEF W, R

(* The history. *)
HistoryTypes ==
  /\ arrived \in 0..program.maxArrived /\ data \in 0..program.maxData
  /\ got \in Seq(1..arrived) /\ gone \subseteq 1..arrived
  /\ wire \in Seq(1..data) /\ okd \subseteq 1..data /\ ended \subseteq 1..data

(* Every step keeps the types of the history. *)
LEMMA HistoryTypesOk ==
  ASSUME IInv, Next
  PROVE  HistoryTypes'
<1>0. HistoryTypes /\ program.maxArrived \in Nat /\ program.maxData \in Nat
  BY TypeParts DEF HistoryTypes
<1>1. ASSUME NEW t \in Task, TaskStep(t) PROVE HistoryTypes'
  <2>0. arrived' = arrived /\ program' = program /\ Fits(pc[t], fut[t])
        /\ fut[t].job \in Job \cup {None} /\ None \notin Job
    BY <1>1, TaskMoves, TaskPackets, Types DEF IInv, TaskInv
  <2>1. got' \in Seq(1..arrived) /\ gone' \subseteq 1..arrived
    <3>1. CASE PollReady(t, "poll_recv")
      <4> DEFINE j == fut[t].job
                 x == job[j].pkt.id
      <4>1. /\ pc[t] = "polling" /\ fut[t].op = "poll_recv" /\ job[j].at = "done"
            /\ \/ job[j].ok /\ got' = Append(got, x) /\ gone' = gone
               \/ got' = got /\ gone' = gone \cup ({x} \ {0})
        BY <3>1 DEF PollReady, At, Copies
      <4>2. j \in Job /\ job[j].op = "poll_recv"
        BY <2>0, <4>1 DEF Fits, Working, IInv, OwnerInv
      <4>3. x \in 0..arrived /\ (job[j].ok => x # 0)
        BY <4>1, <4>2, PacketParts DEF JobPkt
      <4> HIDE DEF x, j
      <4>0. got \in Seq(1..arrived) /\ gone \subseteq 1..arrived
        BY <1>0 DEF HistoryTypes
      <4>4. x # 0 => x \in 1..arrived
        BY <4>3, PacketParts
      <4>5. x \in 1..arrived => Append(got, x) \in Seq(1..arrived)
        BY <4>0
      <4> QED BY <4>0, <4>1, <4>3, <4>4, <4>5
    <3>2. CASE got' = got /\ gone' = gone
      BY <1>0, <3>2 DEF HistoryTypes
    <3>3. CASE /\ ring # <<>> /\ ring' = Tail(ring)
               /\ \/ got' = got /\ gone' = gone \cup {Head(ring).id}
                  \/ got' = Append(got, Head(ring).id) /\ gone' = gone
      <4>1. Head(ring).id \in 1..arrived
        BY <3>3, RingTail
      <4>2. got \in Seq(1..arrived) /\ gone \subseteq 1..arrived
        BY <1>0 DEF HistoryTypes
      <4> DEFINE x == Head(ring).id
      <4>3. got' = got \/ got' = Append(got, x)
        BY <3>3
      <4>4. gone' = gone \/ gone' = gone \cup {x}
        BY <3>3
      <4>5. x \in 1..arrived
        BY <4>1
      <4> HIDE DEF x
      <4>6. Append(got, x) \in Seq(1..arrived)
        BY <4>2, <4>5, AppendProperties
      <4> QED BY <4>2, <4>3, <4>4, <4>5, <4>6
    <3> QED BY <1>1, <3>1, <3>2, <3>3, TaskPackets
  <2>2. data' \in {data, data + 1} /\ data' \in 0..program.maxData
    <3>1. ASSUME NEW o \in AllOps, NEW n \in program.bufLen \cup {data + 1}, Begin(t, o, n)
          PROVE  data' \in {data, data + 1} /\ data' \in 0..program.maxData
      BY <1>0, <3>1 DEF Begin, HistoryTypes
    <3> QED BY <1>0, <1>1, <3>1, TaskFuture DEF HistoryTypes
  <2>3. 1..data \subseteq 1..data'
    BY <1>0, <2>2 DEF HistoryTypes
  <2>4. IsSend(fut[t].op) => fut[t].arg \in 1..data
    BY DEF IInv, DataInv
  <2>5. wire' \in Seq(1..data) /\ okd' \subseteq 1..data /\ ended' \subseteq 1..data
    <3>1. wire \in Seq(1..data) /\ okd \subseteq 1..data /\ ended \subseteq 1..data
      BY <1>0 DEF HistoryTypes
    <3> DEFINE d == fut[t].arg
    <3>2. /\ wire' = wire \/ (d \in 1..data /\ wire' = Append(wire, d))
          /\ ended' = ended \/ (d \in 1..data /\ ended' = ended \cup {d})
          /\ okd' = okd \/ (d \in 1..data /\ okd' = okd \cup {d})
      BY <1>1, <2>4, TaskWrites
    <3> HIDE DEF d
    <3>3. d \in 1..data => Append(wire, d) \in Seq(1..data)
      BY <3>1, AppendProperties
    <3> QED BY <3>1, <3>2, <3>3
  <2>6. wire' \in Seq(1..data')
    BY <2>3, <2>5, SeqMore
  <2> QED BY <1>0, <2>0, <2>1, <2>2, <2>3, <2>5, <2>6 DEF HistoryTypes
<1>2. ASSUME NEW j \in Job, JobStep(j) \/ JobFails(j) PROVE HistoryTypes'
  <2>0. /\ got' = got /\ arrived' = arrived /\ data' = data /\ okd' = okd /\ ended' = ended
        /\ program' = program
    BY <1>2, ThreadHistory, JobStepMoves DEF JobMoves
  <2>1. PICK q \in JobType :
          /\ ThreadMoves(j, q)
          /\ Quiet(j, q) \/ Receives(j, q) \/ Refuses(j, q) \/ Sends(j, q)
    BY <1>2, ThreadPool DEF ThreadActs
  <2>2. gone' \subseteq 1..arrived
    <3>1. CASE gone' = gone
      BY <1>0, <3>1 DEF HistoryTypes
    <3>2. CASE Refuses(j, q)
      BY <1>0, <3>2, RingTail DEF HistoryTypes, Refuses
    <3> QED BY <2>1, <3>1, <3>2 DEF Quiet, Receives, Sends
  <2>3. wire' \in Seq(1..data)
    <3>1. CASE wire' = wire
      BY <1>0, <3>1 DEF HistoryTypes
    <3>2. CASE Sends(j, q)
      <4>1. job[j].arg \in 1..data /\ wire' = Append(wire, job[j].arg)
        BY <3>2 DEF Sends, IInv, DataInv
      <4> QED BY <1>0, <4>1 DEF HistoryTypes
    <3> QED BY <2>1, <3>1, <3>2 DEF Quiet, Receives, Refuses
  <2> QED BY <1>0, <2>0, <2>2, <2>3 DEF HistoryTypes
<1>3. CASE Disable \/ Drain \/ DropBegin \/ DropFields
  BY <1>0, <1>3 DEF Disable, Drain, DropBegin, DropFields, history, life, HistoryTypes
<1>4. CASE Enable
  <2>1. Ids(ring) \subseteq 1..arrived
    BY PacketParts DEF Ids
  <2> QED BY <1>0, <1>4, <2>1 DEF Enable, NewSession, life, HistoryTypes
<1>5. CASE Arrive
  <2>1. /\ arrived' = arrived + 1 /\ arrived' \in 0..program.maxArrived /\ program' = program
        /\ 1..arrived \subseteq 1..arrived'
    BY <1>0, <1>5 DEF Arrive, life, HistoryTypes
  <2>2. got' \in Seq(1..arrived')
    <3>1. got' = got /\ got \in Seq(1..arrived)
      BY <1>0, <1>5 DEF Arrive, HistoryTypes
    <3> QED BY <2>1, <3>1, SeqMore
  <2> QED BY <1>0, <1>5, <2>1, <2>2 DEF Arrive, HistoryTypes
<1> QED BY <1>1, <1>2, <1>3, <1>4, <1>5, NextCases DEF Outside

(* Every step keeps TypeOK. *)
LEMMA TypeOk ==
  ASSUME IInv, Next
  PROVE  TypeOK'
<1>1. TaskTypes' /\ DriverTypes' /\ HistoryTypes'
  BY TaskTypesOk, DriverTypesOk, HistoryTypesOk
<1> QED BY <1>1 DEF TypeOK, TaskTypes, DriverTypes, HistoryTypes, Pcs

(***************************************************************************)
(* The theorems.                                                           *)
(***************************************************************************)

(* IInv holds when the device has been made. *)
LEMMA InitOk ==
  ASSUME Init
  PROVE  IInv
<1>0. /\ \A t \in Task : pc[t] = "idle" /\ fut[t] = Idle
      /\ \A j \in Job : job[j] = Free
      /\ \A c \in Channel : slot[c] = None /\ guard[c] = None
      /\ ring = <<>> /\ got = <<>> /\ dropped = "no" /\ arrived = 0 /\ data = 0
  BY DEF Init
<1>1. Idle \in FutType /\ Fits("idle", Idle) /\ Idle.job = None /\ Idle.op = "none"
      /\ Free \in JobType /\ Free.at = "free" /\ Free.op = "none" /\ Free.pkt = NoPacket
      /\ NoPacket.id = 0
  BY DEF Idle, FutType, Fits, Working, Free, JobType, NoPacket, Packet
<1>2. TypeOK
  <2>1. program.maxArrived \in Nat /\ program.maxData \in Nat /\ SendCap \in Nat
    BY AsyncAssumption DEF Init, Program
  <2>2. /\ job \in [Job -> JobType] /\ fut \in [Task -> FutType]
        /\ pc \in [Task -> {"idle", "polling", "pending", "try", "await", "trigger", "cancel"}]
        /\ slot \in [Channel -> Job \cup {None}] /\ guard \in [Channel -> Task \cup {None}]
    BY <1>1 DEF Init
  <2>3. /\ ring \in Seq(Packet) /\ got \in Seq(1..arrived) /\ wire \in Seq(1..data)
    <3>1. ring = <<>> /\ got = <<>> /\ wire = <<>>
      BY DEF Init
    <3>2. <<>> \in Seq(Packet) /\ <<>> \in Seq(1..arrived) /\ <<>> \in Seq(1..data)
      OBVIOUS
    <3> QED BY <3>1, <3>2
  <2>4. /\ program \in Programs /\ enabled \in BOOLEAN /\ read_event \in BOOLEAN
        /\ unsent \in 0..SendCap /\ woken \in SUBSET Task
        /\ dropped \in {"no", "shutdown", "gone"}
        /\ arrived \in 0..program.maxArrived /\ data \in 0..program.maxData
        /\ gone \subseteq 1..arrived /\ okd \subseteq 1..data /\ ended \subseteq 1..data
    <3>1. /\ program \in Programs /\ enabled = TRUE /\ read_event = FALSE /\ unsent = 0
          /\ woken = {} /\ dropped = "no" /\ arrived = 0 /\ data = 0
          /\ gone = {} /\ okd = {} /\ ended = {}
      BY DEF Init
    <3>2. enabled \in BOOLEAN /\ read_event \in BOOLEAN
      BY <3>1
    <3>3. /\ unsent \in 0..SendCap /\ arrived \in 0..program.maxArrived
          /\ data \in 0..program.maxData
      BY <2>1, <3>1
    <3>4. /\ woken \in SUBSET Task /\ gone \subseteq 1..arrived /\ okd \subseteq 1..data
          /\ ended \subseteq 1..data /\ dropped \in {"no", "shutdown", "gone"}
      BY <3>1
    <3> QED BY <3>1, <3>2, <3>3, <3>4
  <2> QED BY <2>2, <2>3, <2>4 DEF TypeOK
<1>3. TaskInv
  BY <1>0, <1>1 DEF TaskInv
<1>4. OwnerInv /\ GuardInv
  BY <1>0, <1>1 DEF OwnerInv, GuardInv
<1>5. JobInv /\ PacketInv
  BY <1>0, <1>1 DEF JobInv, JobShape, PacketInv, JobPkt
<1>6. DataInv
  BY <1>0, <1>1 DEF DataInv, IsSend
<1>7. PollDelivers
  BY <1>0 DEF PollDelivers
<1> QED BY <1>2, <1>3, <1>4, <1>5, <1>6, <1>7 DEF IInv

(* Every step keeps IInv. *)
LEMMA StepOk ==
  ASSUME IInv, [Next]_vars
  PROVE  IInv'
<1>1. CASE Next
  <2>1. TypeOK' /\ TaskInv' /\ OwnerInv' /\ DataInv'
    BY <1>1, TypeOk, TaskOk, OwnerOk, DataOk
  <2>2. GuardInv' /\ JobInv'
    BY <1>1, PoolOk
  <2>3. PacketInv' /\ PollDelivers'
    BY <1>1, <2>2, PacketOk
  <2> QED BY <2>1, <2>2, <2>3 DEF IInv
<1>2. CASE UNCHANGED vars
  <2>0. /\ program' = program /\ enabled' = enabled /\ ring' = ring /\ read_event' = read_event
        /\ unsent' = unsent /\ job' = job /\ slot' = slot /\ guard' = guard /\ pc' = pc
        /\ fut' = fut /\ woken' = woken /\ dropped' = dropped /\ arrived' = arrived
        /\ got' = got /\ gone' = gone /\ data' = data /\ wire' = wire /\ okd' = okd
        /\ ended' = ended
    BY <1>2 DEF vars, deviceVars, life, history
  <2>1. TypeOK'
    BY <2>0 DEF IInv, TypeOK
  <2>2. TaskInv' /\ OwnerInv' /\ GuardInv' /\ DataInv'
    BY <2>0 DEF IInv, TaskInv, OwnerInv, GuardInv, DataInv, Fits
  <2>3. JobInv'
    BY <2>0 DEF IInv, JobInv, JobShape, Held, At
  <2>4. PacketInv'
    BY <2>0 DEF IInv, PacketInv, JobPkt
  <2>5. PollDelivers'
    BY <2>0 DEF IInv, PollDelivers, Kept, Ids, At
  <2> QED BY <2>1, <2>2, <2>3, <2>4, <2>5 DEF IInv
<1> QED BY <1>1, <1>2

(* IInv is an invariant of the asynchronous device: every handle of a task *)
(* of the pool has one owner, whatever is polled, awaited, given up or     *)
(* dropped, and every packet is in one place.                              *)
THEOREM Invariance == Spec => []IInv
<1>1. Init => IInv
  BY InitOk
<1>2. IInv /\ [Next]_vars => IInv'
  BY StepOk
<1> QED BY <1>1, <1>2, PTL DEF Spec

(* No packet is lost between two polls, and none comes twice or out of     *)
(* order, whoever polls and whenever the callers give up.                  *)
THEOREM NothingIsLostBetweenPolls == Spec => []PollDelivers
<1>1. IInv => PollDelivers
  BY DEF IInv
<1> QED BY <1>1, Invariance, PTL

(***************************************************************************)
(* OkSentOnce: what is sent, and how often.                                *)
(***************************************************************************)

(* Only one call of poll_send is on its way. *)
LEMMA TheSender ==
  ASSUME IInv, CallInv, OneSender, NEW t \in Task, fut[t].op = "poll_send",
         NEW u \in Task, fut[u].op = "poll_send"
  PROVE  t = u /\ "poll_send" \notin program.abandons
  BY Types DEF CallInv, OneSender

(* The wire grows by data that is new to it, or not at all.                *)
WireGrows ==
  \/ wire' = wire
  \/ \E d \in 1..data :
       /\ wire' = Append(wire, d) /\ d \notin ToSet(wire)
       /\ \A t \in Task : Fresh(t)' => fut'[t].arg # d
       /\ \A j \in Job : Busy(j)' => job'[j].arg # d

(* What is said about the wire stays true when it grows by something new. *)
LEMMA WireNext ==
  ASSUME IInv, SendInv, WireGrows
  PROVE  /\ ToSet(wire) \subseteq ToSet(wire')
         /\ \A a, b \in DOMAIN wire' : wire'[a] = wire'[b] => a = b
         /\ \A t \in Task : Fresh(t)' /\ fut'[t].arg \notin ToSet(wire) => fut'[t].arg \notin ToSet(wire')
         /\ \A j \in Job : Busy(j)' /\ job'[j].arg \notin ToSet(wire) => job'[j].arg \notin ToSet(wire')
<1>1. CASE wire' = wire
  BY <1>1 DEF SendInv, OkSentOnce
<1>2. ASSUME NEW d \in 1..data, wire' = Append(wire, d), d \notin ToSet(wire),
             \A t \in Task : Fresh(t)' => fut'[t].arg # d,
             \A j \in Job : Busy(j)' => job'[j].arg # d
      PROVE  /\ ToSet(wire) \subseteq ToSet(wire')
             /\ \A a, b \in DOMAIN wire' : wire'[a] = wire'[b] => a = b
             /\ \A t \in Task : Fresh(t)' /\ fut'[t].arg \notin ToSet(wire) => fut'[t].arg \notin ToSet(wire')
             /\ \A j \in Job : Busy(j)' /\ job'[j].arg \notin ToSet(wire) => job'[j].arg \notin ToSet(wire')
  <2>1. wire \in Seq(1..data)
    BY TypeParts
  <2>2. /\ DOMAIN wire' = 1..Len(wire) + 1 /\ DOMAIN wire = 1..Len(wire) /\ Len(wire) \in Nat
        /\ \A a \in 1..Len(wire) : wire'[a] = wire[a]
        /\ wire'[Len(wire) + 1] = d
    BY <1>2, <2>1
  <2>3. ToSet(wire') = ToSet(wire) \cup {d}
    BY <2>2 DEF ToSet
  <2>4. \A a \in DOMAIN wire : wire[a] # d
    BY <1>2 DEF ToSet
  <2>5. ASSUME NEW a \in DOMAIN wire', NEW b \in DOMAIN wire', wire'[a] = wire'[b]
        PROVE  a = b
    <3>1. \A c, e \in DOMAIN wire : wire[c] = wire[e] => c = e
      BY DEF SendInv, OkSentOnce
    <3> QED BY <2>2, <2>4, <2>5, <3>1
  <2> QED BY <1>2, <2>3, <2>5
<1> QED BY <1>1, <1>2 DEF WireGrows

(* A step in which no call begins and no task of the pool is made.         *)
LEMMA SendKept ==
  ASSUME IInv, SendInv, WireGrows, okd' \subseteq ToSet(wire'), program' = program, HandInv',
         \A t \in Task : fut'[t].op = "none" \/ (fut'[t].op = fut[t].op /\ fut'[t].arg = fut[t].arg),
         \A t \in Task : Fresh(t)' => Fresh(t),
         \A j \in Job : Busy(j)' => Busy(j) /\ job'[j].arg = job[j].arg,
         \A t \in Task, j \in Job : IsSend(fut'[t].op) /\ Busy(j)' /\ WorksFor(j, t) => WorksFor(j, t)',
         \A j \in Job : job'[j].at \in {"exiting", "done"} /\ IsSend(job'[j].op) /\ job'[j].ok =>
           \/ /\ job[j].at \in {"exiting", "done"} /\ IsSend(job[j].op) /\ job[j].ok
              /\ job'[j].arg = job[j].arg
           \/ job'[j].arg \in ToSet(wire')
  PROVE  SendInv'
<1>0. /\ ~IsSend("none")
      /\ \A t \in Task : Fresh(t)' => fut'[t].op # "none"
  BY DEF IsSend, Fresh
<1>1. CallInv'
  BY <1>0 DEF SendInv, CallInv
<1>2. \A t \in Task : Fresh(t)' => fut'[t].arg \notin ToSet(wire')
  BY <1>0, WireNext DEF SendInv, UnsentInv
<1>3. ASSUME NEW t \in Task, NEW j \in Job, IsSend(fut'[t].op), Busy(j)', job'[j].arg = fut'[t].arg
      PROVE  WorksFor(j, t)'
  BY <1>0, <1>3 DEF SendInv, UnsentInv
<1>4. \A j \in Job : Busy(j)' => job'[j].arg \notin ToSet(wire')
  BY WireNext DEF SendInv, UnsentInv
<1>5. \A j, k \in Job : Busy(j)' /\ Busy(k)' /\ job'[j].arg = job'[k].arg => j = k
  BY DEF SendInv, UnsentInv
<1>6. UnsentInv'
  BY <1>2, <1>3, <1>4, <1>5 DEF UnsentInv
<1>7. ReportInv'
  BY WireNext DEF SendInv, ReportInv
<1>8. OkSentOnce'
  BY WireNext DEF OkSentOnce
<1> QED BY <1>1, <1>6, <1>7, <1>8 DEF SendInv

(* A call is over.  One of poll_send that is Pending, with a task of the   *)
(* pool in the slot, is not given up.                                      *)
LEMMA SendReturned ==
  ASSUME IInv, SendInv, WireGrows, NEW t \in Task, NEW ok \in BOOLEAN, Return(t, ok),
         IsSend(fut[t].op) /\ ok => fut[t].arg \in ToSet(wire'),
         program' = program, slot' = slot,
         pc[t] = "pending" /\ fut[t].op = "poll_send" => slot["poll_send"] = None,
         job' = job \/ (fut[t].job # None /\ job' = [job EXCEPT ![fut[t].job] = Free])
  PROVE  SendInv'
<1>0. /\ pc \in [Task -> Pcs] /\ fut \in [Task -> FutType] /\ job \in [Job -> JobType]
      /\ None \notin Job /\ slot \in [Channel -> Job \cup {None}]
      /\ \A u \in Task : fut[u].job \in Job \cup {None}
      /\ "poll_send" \in Channel /\ Free.at = "free" /\ ~IsSend(Free.op) /\ ~IsSend("none")
  BY Types DEF Free, Channel, IsSend
<1>1. /\ pc'[t] = "idle" /\ fut'[t] = Idle /\ fut'[t].op = "none" /\ fut'[t].job = None
      /\ \A u \in Task : u # t => pc'[u] = pc[u] /\ fut'[u] = fut[u]
  BY <1>0, ReturnMoves DEF Idle
<1>2. okd' \subseteq ToSet(wire')
  <2>1. okd \subseteq ToSet(wire')
    BY WireNext DEF SendInv, OkSentOnce
  <2> QED BY <2>1 DEF Return
<1>3. \A k \in Job : job'[k] = job[k] \/ (k = fut[t].job /\ job'[k] = Free)
  BY <1>0
<1>4. HandInv'
  <2>1. ASSUME NEW u \in Task, fut'[u].job # None, IsSend(fut'[u].op)
        PROVE  job'[fut'[u].job].arg = fut'[u].arg
    <3>1. u # t /\ fut'[u] = fut[u]
      BY <1>1, <2>1
    <3>2. fut[u].job \in Job /\ fut[u].job # fut[t].job
      BY <1>0, <2>1, <3>1 DEF IInv, OwnerInv
    <3> QED BY <1>3, <2>1, <3>1, <3>2 DEF SendInv, HandInv
  <2>2. ASSUME slot["poll_send"] # None
        PROVE  \E u \in Task : /\ pc'[u] = "pending" /\ fut'[u].op = "poll_send"
                               /\ job'[slot["poll_send"]].arg = fut'[u].arg
    <3>1. PICK u \in Task : /\ pc[u] = "pending" /\ fut[u].op = "poll_send"
                            /\ job[slot["poll_send"]].arg = fut[u].arg
      BY <2>2 DEF SendInv, HandInv
    <3>2. u # t
      BY <2>2, <3>1
    <3>3. slot["poll_send"] \in Job /\ slot["poll_send"] # fut[t].job
      BY <1>0, <2>2 DEF IInv, OwnerInv
    <3> QED BY <1>1, <1>3, <3>1, <3>2, <3>3
  <2> QED BY <2>1, <2>2 DEF HandInv
<1>5. \A u \in Task : fut'[u].op = "none" \/ (fut'[u].op = fut[u].op /\ fut'[u].arg = fut[u].arg)
  BY <1>1
<1>6. \A u \in Task : Fresh(u)' => Fresh(u)
  BY <1>1 DEF Fresh, At
<1>7. \A j \in Job : Busy(j)' => Busy(j) /\ job'[j].arg = job[j].arg
  BY <1>0, <1>3 DEF Busy
<1>8. ASSUME NEW u \in Task, NEW j \in Job, IsSend(fut'[u].op), WorksFor(j, u)
      PROVE  WorksFor(j, u)'
  <2>1. u # t
    BY <1>0, <1>1, <1>8
  <2> QED BY <1>1, <1>8, <2>1 DEF WorksFor, At
<1>9. \A j \in Job : job'[j].at \in {"exiting", "done"} /\ IsSend(job'[j].op) /\ job'[j].ok =>
        /\ job[j].at \in {"exiting", "done"} /\ IsSend(job[j].op) /\ job[j].ok
        /\ job'[j].arg = job[j].arg
  BY <1>0, <1>3
<1> QED BY <1>2, <1>4, <1>5, <1>6, <1>7, <1>8, <1>9, SendKept

(* A call goes on: its task and its pool's task change places, or only     *)
(* the handle changes.                                                     *)
LEMMA SendGoesOn ==
  ASSUME IInv, SendInv, NEW t \in Task, NEW p, NEW x \in Job \cup {None},
         pc' = [pc EXCEPT ![t] = p], fut' = [fut EXCEPT ![t] = [@ EXCEPT !.job = x]],
         wire' = wire, okd' = okd, program' = program,
         ~Fresh(t)', HandInv',
         \A j \in Job : \/ job'[j] = job[j] \/ Touched(job[j], job'[j])
                        \/ job'[j] = Free,
         \A u \in Task, j \in Job : u # t /\ IsSend(fut[u].op) /\ Busy(j)' =>
            (At(u, "pending") /\ j = slot["poll_send"] => j = slot'["poll_send"]),
         slot'["poll_send"] = None => slot["poll_send"] = None
                                      \/ \A u \in Task : u # t => fut[u].op # "poll_send",
         \A j \in Job : IsSend(fut[t].op) /\ Busy(j)' /\ WorksFor(j, t) => WorksFor(j, t)'
  PROVE  SendInv'
<1>0. /\ pc \in [Task -> Pcs] /\ fut \in [Task -> FutType] /\ job \in [Job -> JobType]
      /\ \A u \in Task : fut[u] \in FutType
      /\ Free.at = "free" /\ ~IsSend(Free.op)
  BY Types DEF Free, IsSend
<1>1. /\ fut'[t].op = fut[t].op /\ fut'[t].arg = fut[t].arg
      /\ \A u \in Task : u # t => pc'[u] = pc[u] /\ fut'[u] = fut[u]
  <2>1. fut'[t] = [fut[t] EXCEPT !.job = x]
    BY <1>0
  <2>2. fut'[t].op = fut[t].op /\ fut'[t].arg = fut[t].arg
    BY <1>0, <2>1 DEF FutType
  <2> QED BY <1>0, <2>2
<1>2. okd' \subseteq ToSet(wire') /\ WireGrows
  BY DEF SendInv, OkSentOnce, WireGrows
<1>5. \A u \in Task : fut'[u].op = "none" \/ (fut'[u].op = fut[u].op /\ fut'[u].arg = fut[u].arg)
  BY <1>1
<1>6. \A u \in Task : Fresh(u)' => Fresh(u)
  BY <1>1 DEF Fresh, At
<1>7. \A j \in Job : Busy(j)' => Busy(j) /\ job'[j].arg = job[j].arg
  BY <1>0 DEF Busy, Touched
<1>8. ASSUME NEW u \in Task, NEW j \in Job, IsSend(fut'[u].op), Busy(j)', WorksFor(j, u)
      PROVE  WorksFor(j, u)'
  <2>1. CASE u = t
    BY <1>1, <1>8, <2>1
  <2>2. CASE u # t
    BY <1>1, <1>8, <2>2 DEF WorksFor, At
  <2> QED BY <2>1, <2>2
<1>9. \A j \in Job : job'[j].at \in {"exiting", "done"} /\ IsSend(job'[j].op) /\ job'[j].ok =>
        /\ job[j].at \in {"exiting", "done"} /\ IsSend(job[j].op) /\ job[j].ok
        /\ job'[j].arg = job[j].arg
  BY <1>0 DEF Touched
<1> QED BY <1>2, <1>5, <1>6, <1>7, <1>8, <1>9, SendKept

(* Nobody else has, or has had, the data of a call that has not begun to   *)
(* send.                                                                   *)
LEMMA FreshAlone ==
  ASSUME IInv, SendInv, NEW t \in Task, Fresh(t)
  PROVE  /\ IsSend(fut[t].op) /\ fut[t].arg \in 1..data /\ fut[t].arg \notin ToSet(wire)
         /\ \A u \in Task : u # t /\ IsSend(fut[u].op) => fut[u].arg # fut[t].arg
         /\ \A j \in Job : Busy(j) => job[j].arg # fut[t].arg
         /\ fut[t].job = None
<1>0. /\ IsSend(fut[t].op) /\ fut[t].job = None /\ None \notin Job
      /\ At(t, "pending") => slot["poll_send"] = None
  BY Types DEF Fresh, At, IsSend, IInv, TaskInv, Fits, Working
<1>1. fut[t].arg \in 1..data
  BY <1>0 DEF IInv, DataInv
<1>2. ASSUME NEW j \in Job, Busy(j), job[j].arg = fut[t].arg PROVE FALSE
  <2>1. WorksFor(j, t)
    BY <1>0, <1>2 DEF SendInv, UnsentInv
  <2> QED BY <1>0, <2>1 DEF WorksFor
<1> QED BY <1>0, <1>1, <1>2 DEF SendInv, CallInv, UnsentInv

(* A call begins: its data are new. *)
LEMMA SendBegun ==
  ASSUME IInv, SendInv, NEW t \in Task, NEW o \in AllOps,
         NEW n \in program.bufLen \cup {data + 1}, Begin(t, o, n)
  PROVE  SendInv'
<1>0. /\ pc \in [Task -> Pcs] /\ fut \in [Task -> FutType] /\ data \in Nat
      /\ wire \in Seq(1..data) /\ None \notin Job
  BY Types, TypeParts
<1>1. /\ pc[t] = "idle" /\ <<t, o>> \in program.uses
      /\ fut' = [fut EXCEPT ![t] = [op |-> o, arg |-> n, job |-> None]]
      /\ job' = job /\ slot' = slot /\ wire' = wire /\ okd' = okd /\ program' = program
      /\ IsSend(o) => n = data + 1
  BY DEF Begin, At, deviceVars, life
<1>2. /\ fut'[t].op = o /\ fut'[t].arg = n /\ fut'[t].job = None
      /\ \A u \in Task : u # t => pc'[u] = pc[u] /\ fut'[u] = fut[u]
  BY <1>0, <1>1 DEF Begin, Goto
<1>3. /\ \A u \in Task : IsSend(fut[u].op) => fut[u].arg # data + 1
      /\ \A j \in Job : Busy(j) => job[j].arg # data + 1
      /\ data + 1 \notin ToSet(wire)
  <2>1. \A u \in Task : IsSend(fut[u].op) => fut[u].arg # data + 1
    BY <1>0 DEF IInv, DataInv
  <2>2. \A j \in Job : Busy(j) => job[j].arg # data + 1
    BY <1>0 DEF IInv, DataInv, Busy
  <2>3. data + 1 \notin ToSet(wire)
    <3>1. \A a \in DOMAIN wire : wire[a] \in 1..data
      BY <1>0
    <3>2. \A a \in DOMAIN wire : wire[a] # data + 1
      BY <1>0, <3>1
    <3> QED BY <3>2 DEF ToSet
  <2> QED BY <2>1, <2>2, <2>3
<1>4. CallInv'
  BY <1>1, <1>2, <1>3 DEF SendInv, CallInv
<1>5. HandInv'
  <2>1. ASSUME NEW u \in Task, fut'[u].job # None, IsSend(fut'[u].op)
        PROVE  job'[fut'[u].job].arg = fut'[u].arg
    <3>1. u # t /\ fut'[u] = fut[u]
      BY <1>2, <2>1
    <3> QED BY <1>1, <2>1, <3>1 DEF SendInv, HandInv
  <2>2. ASSUME slot["poll_send"] # None
        PROVE  \E u \in Task : /\ pc'[u] = "pending" /\ fut'[u].op = "poll_send"
                               /\ job[slot["poll_send"]].arg = fut'[u].arg
    <3>1. PICK u \in Task : /\ pc[u] = "pending" /\ fut[u].op = "poll_send"
                            /\ job[slot["poll_send"]].arg = fut[u].arg
      BY <2>2 DEF SendInv, HandInv
    <3>2. u # t
      BY <1>1, <3>1
    <3> QED BY <1>2, <3>1, <3>2
  <2> QED BY <1>1, <2>1, <2>2 DEF HandInv
<1>6. UnsentInv'
  <2>1. ASSUME NEW u \in Task, Fresh(u)' PROVE fut'[u].arg \notin ToSet(wire)
    <3>1. CASE u = t
      <4>1. IsSend(o)
        BY <1>2, <2>1, <3>1 DEF Fresh, IsSend
      <4> QED BY <1>1, <1>2, <1>3, <3>1, <4>1
    <3>2. CASE u # t
      <4>1. Fresh(u)
        BY <1>1, <1>2, <2>1, <3>2 DEF Fresh, At
      <4> QED BY <1>2, <3>2, <4>1 DEF SendInv, UnsentInv
    <3> QED BY <3>1, <3>2
  <2>2. ASSUME NEW u \in Task, NEW j \in Job, IsSend(fut'[u].op), Busy(j)', job'[j].arg = fut'[u].arg
        PROVE  WorksFor(j, u)'
    <3>1. Busy(j)
      BY <1>1, <2>2 DEF Busy
    <3>2. u # t
      BY <1>1, <1>2, <1>3, <2>2, <3>1
    <3>3. WorksFor(j, u)
      BY <1>1, <1>2, <2>2, <3>1, <3>2 DEF SendInv, UnsentInv
    <3> QED BY <1>1, <1>2, <3>2, <3>3 DEF WorksFor, At
  <2>3. /\ \A j \in Job : Busy(j)' => job'[j].arg \notin ToSet(wire')
        /\ \A j, k \in Job : Busy(j)' /\ Busy(k)' /\ job'[j].arg = job'[k].arg => j = k
    BY <1>1 DEF SendInv, UnsentInv, Busy
  <2> QED BY <1>1, <2>1, <2>2, <2>3 DEF UnsentInv
<1>7. ReportInv' /\ OkSentOnce'
  BY <1>1 DEF SendInv, ReportInv, OkSentOnce
<1> QED BY <1>4, <1>5, <1>6, <1>7 DEF SendInv

(* A call hands its data to a task of the pool.                            *)
LEMMA SendSpawned ==
  ASSUME IInv, SendInv, NEW t \in Task, Spawn(t),
         NEW p \in {"polling", "await"}, pc' = [pc EXCEPT ![t] = p],
         pc[t] = "try" \/ (pc[t] = "pending" /\ slot[fut[t].op] = None),
         slot' = slot, wire' = wire, okd' = okd, program' = program
  PROVE  SendInv'
<1>0. /\ pc \in [Task -> Pcs] /\ fut \in [Task -> FutType] /\ job \in [Job -> JobType]
      /\ None \notin Job /\ slot \in [Channel -> Job \cup {None}]
      /\ \A u \in Task : fut[u] \in FutType /\ fut[u].job \in Job \cup {None}
      /\ "poll_send" \in Channel
  BY Types DEF Channel
<1>1. PICK n \in Job, q \in JobType :
        /\ job[n].at = "free" /\ job' = [job EXCEPT ![n] = q]
        /\ q.at = "queued" /\ q.op = fut[t].op /\ q.arg = fut[t].arg
        /\ fut' = [fut EXCEPT ![t] = [@ EXCEPT !.job = n]]
  BY SpawnMakes
<1>2. /\ fut'[t].op = fut[t].op /\ fut'[t].arg = fut[t].arg /\ fut'[t].job = n
      /\ pc'[t] = p /\ job'[n] = q
      /\ \A u \in Task : u # t => pc'[u] = pc[u] /\ fut'[u] = fut[u]
      /\ \A k \in Job : k # n => job'[k] = job[k]
  <2>1. fut'[t] = [fut[t] EXCEPT !.job = n]
    BY <1>0, <1>1
  <2>2. fut'[t].op = fut[t].op /\ fut'[t].arg = fut[t].arg /\ fut'[t].job = n
    BY <1>0, <2>1 DEF FutType
  <2> QED BY <1>0, <1>1, <2>2
<1>3. IsSend(fut[t].op) => Fresh(t)
  BY DEF IsSend, Fresh, At, IInv, TaskInv, Fits, Channel, Awaited
<1>4. CallInv'
  <2>1. \A u \in Task : fut'[u].op = fut[u].op /\ fut'[u].arg = fut[u].arg
    BY <1>2
  <2> QED BY <2>1 DEF SendInv, CallInv
<1>5. HandInv'
  <2>1. ASSUME NEW u \in Task, fut'[u].job # None, IsSend(fut'[u].op)
        PROVE  job'[fut'[u].job].arg = fut'[u].arg
    <3>1. CASE u = t
      BY <1>1, <1>2, <3>1
    <3>2. CASE u # t
      <4>1. fut'[u] = fut[u] /\ fut[u].job \in Job /\ fut[u].job # n
        BY <1>0, <1>1, <1>2, <2>1, <3>2 DEF IInv, OwnerInv
      <4> QED BY <1>2, <2>1, <4>1 DEF SendInv, HandInv
    <3> QED BY <3>1, <3>2
  <2>2. ASSUME slot["poll_send"] # None
        PROVE  \E u \in Task : /\ pc'[u] = "pending" /\ fut'[u].op = "poll_send"
                               /\ job'[slot["poll_send"]].arg = fut'[u].arg
    <3>1. PICK u \in Task : /\ pc[u] = "pending" /\ fut[u].op = "poll_send"
                            /\ job[slot["poll_send"]].arg = fut[u].arg
      BY <2>2 DEF SendInv, HandInv
    <3>2. u # t
      BY <2>2, <3>1
    <3>3. slot["poll_send"] \in Job /\ slot["poll_send"] # n
      BY <1>0, <1>1, <2>2 DEF IInv, OwnerInv
    <3> QED BY <1>2, <3>1, <3>2, <3>3
  <2> QED BY <2>1, <2>2 DEF HandInv
<1>6. ASSUME NEW j \in Job, j # n PROVE Busy(j)' <=> Busy(j)
  BY <1>2, <1>6 DEF Busy
<1>7. Busy(n)' => IsSend(fut[t].op)
  BY <1>1, <1>2 DEF Busy
<1>8. UnsentInv'
  <2>1. ASSUME NEW u \in Task, Fresh(u)' PROVE fut'[u].arg \notin ToSet(wire)
    <3>1. u # t
      BY <1>2, <2>1 DEF Fresh, At
    <3>2. Fresh(u)
      BY <1>2, <2>1, <3>1 DEF Fresh, At
    <3> QED BY <1>2, <3>1, <3>2 DEF SendInv, UnsentInv
  <2>2. ASSUME NEW u \in Task, NEW j \in Job, IsSend(fut'[u].op), Busy(j)', job'[j].arg = fut'[u].arg
        PROVE  WorksFor(j, u)'
    <3>1. CASE j = n
      <4>1. u = t
        BY <1>1, <1>2, <1>3, <1>7, <2>2, <3>1, FreshAlone
      <4> QED BY <1>2, <3>1, <4>1 DEF WorksFor
    <3>2. CASE j # n
      <4>1. Busy(j) /\ job'[j] = job[j]
        BY <1>2, <1>6, <2>2, <3>2
      <4>2. u # t
        BY <1>2, <1>3, <2>2, <4>1, FreshAlone
      <4>3. WorksFor(j, u)
        BY <1>2, <2>2, <4>1, <4>2 DEF SendInv, UnsentInv
      <4> QED BY <1>2, <4>2, <4>3 DEF WorksFor, At
    <3> QED BY <3>1, <3>2
  <2>3. ASSUME NEW j \in Job, Busy(j)' PROVE job'[j].arg \notin ToSet(wire')
    <3>1. CASE j = n
      BY <1>1, <1>2, <1>3, <1>7, <2>3, <3>1, FreshAlone
    <3>2. CASE j # n
      BY <1>2, <1>6, <2>3, <3>2 DEF SendInv, UnsentInv
    <3> QED BY <3>1, <3>2
  <2>4. ASSUME NEW j \in Job, NEW k \in Job, Busy(j)', Busy(k)', job'[j].arg = job'[k].arg
        PROVE  j = k
    <3>1. ASSUME NEW i \in Job, i # n, Busy(i)', Busy(n)' PROVE job'[i].arg # q.arg
      BY <1>1, <1>2, <1>3, <1>6, <1>7, <3>1, FreshAlone
    <3>2. CASE j # n /\ k # n
      BY <1>2, <1>6, <2>4, <3>2 DEF SendInv, UnsentInv
    <3> QED BY <1>2, <2>4, <3>1, <3>2
  <2> QED BY <2>1, <2>2, <2>3, <2>4 DEF UnsentInv
<1>9. ReportInv'
  <2> SUFFICES ASSUME NEW j \in Job, job'[j].at \in {"exiting", "done"}, IsSend(job'[j].op), job'[j].ok
               PROVE  job'[j].arg \in ToSet(wire)
    BY DEF ReportInv
  <2>1. j # n
    BY <1>1, <1>2
  <2> QED BY <1>2, <2>1 DEF SendInv, ReportInv
<1>10. OkSentOnce'
  BY DEF SendInv, OkSentOnce
<1> QED BY <1>4, <1>5, <1>8, <1>9, <1>10 DEF SendInv

(* The slots stay as they are, and so does what the others have.           *)
LEMMA HandStays ==
  ASSUME IInv, SendInv, NEW t \in Task, slot' = slot, pc[t] # "pending",
         \A u \in Task : u # t => pc'[u] = pc[u] /\ fut'[u] = fut[u],
         \A k \in Job : \/ job'[k] = job[k]
                        \/ k = fut[t].job /\ (Touched(job[k], job'[k]) \/ fut'[t].job = None),
         \/ fut'[t].job = None
         \/ fut'[t].job = fut[t].job /\ fut'[t].op = fut[t].op /\ fut'[t].arg = fut[t].arg
  PROVE  HandInv'
<1>0. /\ None \notin Job /\ slot \in [Channel -> Job \cup {None}]
      /\ \A u \in Task : fut[u].job \in Job \cup {None}
      /\ "poll_send" \in Channel
  BY Types DEF Channel
<1>1. ASSUME NEW u \in Task, fut'[u].job # None, IsSend(fut'[u].op)
      PROVE  job'[fut'[u].job].arg = fut'[u].arg
  <2>1. CASE u = t
    BY <1>0, <1>1, <2>1 DEF SendInv, HandInv, Touched
  <2>2. CASE u # t
    <3>1. fut'[u] = fut[u] /\ fut[u].job \in Job /\ fut[u].job # fut[t].job
      BY <1>0, <1>1, <2>2 DEF IInv, OwnerInv
    <3> QED BY <1>1, <3>1 DEF SendInv, HandInv
  <2> QED BY <2>1, <2>2
<1>2. ASSUME slot["poll_send"] # None
      PROVE  \E u \in Task : /\ pc'[u] = "pending" /\ fut'[u].op = "poll_send"
                             /\ job'[slot["poll_send"]].arg = fut'[u].arg
  <2>1. PICK u \in Task : /\ pc[u] = "pending" /\ fut[u].op = "poll_send"
                          /\ job[slot["poll_send"]].arg = fut[u].arg
    BY <1>2 DEF SendInv, HandInv
  <2>2. slot["poll_send"] \in Job /\ slot["poll_send"] # fut[t].job
    BY <1>0, <1>2 DEF IInv, OwnerInv
  <2> QED BY <2>1, <2>2
<1> QED BY <1>1, <1>2 DEF HandInv

(* poll_send takes the pool's task out of the slot, or poll_recv does.     *)
LEMMA SendTaken ==
  ASSUME IInv, SendInv, OneSender, NEW t \in Task, NEW c \in Channel, PollTake(t, c)
  PROVE  SendInv'
<1>0. /\ pc \in [Task -> Pcs] /\ fut \in [Task -> FutType] /\ job \in [Job -> JobType]
      /\ None \notin Job /\ slot \in [Channel -> Job \cup {None}]
      /\ \A u \in Task : fut[u] \in FutType /\ fut[u].job \in Job \cup {None}
      /\ "poll_send" \in Channel
  BY Types DEF Channel
<1>1. /\ pc[t] = "pending" /\ fut[t].op = c /\ slot[c] # None /\ job' = job
      /\ slot' = [slot EXCEPT ![c] = None] /\ wire' = wire /\ okd' = okd /\ program' = program
      /\ fut' = [fut EXCEPT ![t] = [@ EXCEPT !.job = slot[c]]]
      /\ pc' = [pc EXCEPT ![t] = "polling"]
  BY DEF PollTake, Polls, At, Goto, life, history
<1>2. /\ fut'[t].job = slot[c] /\ fut'[t].op = c /\ fut'[t].arg = fut[t].arg
      /\ pc'[t] = "polling" /\ slot'[c] = None
      /\ \A u \in Task : u # t => pc'[u] = pc[u] /\ fut'[u] = fut[u]
      /\ c # "poll_send" => slot'["poll_send"] = slot["poll_send"]
      /\ fut[t].job = None
  BY <1>0, <1>1 DEF FutType, IInv, TaskInv, Fits, Working
<1>3. ASSUME c = "poll_send", NEW u \in Task, u # t PROVE fut[u].op # "poll_send"
  BY <1>1, <1>3, TheSender DEF SendInv
<1>4. HandInv'
  <2>1. ASSUME NEW u \in Task, fut'[u].job # None, IsSend(fut'[u].op)
        PROVE  job'[fut'[u].job].arg = fut'[u].arg
    <3>1. CASE u = t
      <4>1. c = "poll_send"
        BY <1>2, <2>1, <3>1 DEF IsSend, Channel
      <4>2. PICK v \in Task : /\ pc[v] = "pending" /\ fut[v].op = "poll_send"
                              /\ job[slot["poll_send"]].arg = fut[v].arg
        BY <1>1, <4>1 DEF SendInv, HandInv
      <4> QED BY <1>1, <1>2, <1>3, <3>1, <4>1, <4>2
    <3>2. CASE u # t
      BY <1>1, <1>2, <2>1, <3>2 DEF SendInv, HandInv
    <3> QED BY <3>1, <3>2
  <2>2. ASSUME slot'["poll_send"] # None
        PROVE  \E u \in Task : /\ pc'[u] = "pending" /\ fut'[u].op = "poll_send"
                               /\ job'[slot'["poll_send"]].arg = fut'[u].arg
    <3>1. c # "poll_send" /\ slot'["poll_send"] = slot["poll_send"]
      BY <1>2, <2>2
    <3>2. PICK u \in Task : /\ pc[u] = "pending" /\ fut[u].op = "poll_send"
                            /\ job[slot["poll_send"]].arg = fut[u].arg
      BY <2>2, <3>1 DEF SendInv, HandInv
    <3> QED BY <1>1, <1>2, <3>1, <3>2
  <2> QED BY <2>1, <2>2 DEF HandInv
<1>5. ~Fresh(t)'
  BY <1>2 DEF Fresh, At
<1>6. ASSUME NEW u \in Task, NEW j \in Job, u # t, IsSend(fut[u].op), At(u, "pending"),
             j = slot["poll_send"]
      PROVE  j = slot'["poll_send"]
  <2>1. fut[u].op = "poll_send"
    BY <1>6 DEF At, IsSend, IInv, TaskInv, Fits, Channel
  <2> QED BY <1>2, <1>3, <1>6, <2>1
<1>7. ASSUME NEW j \in Job, IsSend(fut[t].op), WorksFor(j, t) PROVE WorksFor(j, t)'
  <2>1. c = "poll_send"
    BY <1>1, <1>7 DEF IsSend, Channel
  <2> QED BY <1>0, <1>2, <1>7, <2>1 DEF WorksFor, At
<1>8. slot[c] \in Job \cup {None}
  BY <1>0
<1> QED BY <1>1, <1>2, <1>3, <1>4, <1>5, <1>6, <1>7, <1>8, SendGoesOn

(* It puts it back, with its waker. *)
LEMMA SendPutBack ==
  ASSUME IInv, SendInv, NEW t \in Task, NEW c \in Channel, PollPending(t, c)
  PROVE  SendInv'
<1> DEFINE j == fut[t].job
           q == [job[j] EXCEPT !.waker = t]
<1>0. /\ pc \in [Task -> Pcs] /\ fut \in [Task -> FutType] /\ job \in [Job -> JobType]
      /\ None \notin Job /\ slot \in [Channel -> Job \cup {None}] /\ None \notin Task
      /\ \A u \in Task : fut[u] \in FutType /\ fut[u].job \in Job \cup {None}
      /\ \A k \in Job : job[k] \in JobType
      /\ "poll_send" \in Channel
  BY Types DEF Channel
<1>1. /\ pc[t] = "polling" /\ fut[t].op = c /\ slot' = [slot EXCEPT ![c] = j]
      /\ job' = [job EXCEPT ![j] = q] /\ wire' = wire /\ okd' = okd /\ program' = program
      /\ fut' = [fut EXCEPT ![t] = [@ EXCEPT !.job = None]]
      /\ pc' = [pc EXCEPT ![t] = "pending"]
  BY DEF PollPending, PutBack, At, Goto, life, history
<1>2. /\ fut'[t].job = None /\ fut'[t].op = c /\ fut'[t].arg = fut[t].arg
      /\ pc'[t] = "pending" /\ slot'[c] = j
      /\ \A u \in Task : u # t => pc'[u] = pc[u] /\ fut'[u] = fut[u]
      /\ c # "poll_send" => slot'["poll_send"] = slot["poll_send"]
  BY <1>0, <1>1 DEF FutType
<1>3. /\ j \in Job /\ slot[c] = None
      /\ \A u \in Task : u # t => fut[u].job # j
      /\ \A d \in Channel : slot[d] # j
  BY <1>0, <1>1 DEF IInv, TaskInv, Fits, Working, GuardInv, OwnerInv
<1>4. Touched(job[j], q)
  BY <1>0, <1>3 DEF JobType, Touched
<1>5. job'[j] = q /\ \A k \in Job : k # j => job'[k] = job[k]
  BY <1>0, <1>1, <1>3
<1>14. IsSend(fut[t].op) => job[j].arg = fut[t].arg
  BY <1>0, <1>3 DEF SendInv, HandInv
<1> HIDE DEF q
<1>6. HandInv'
  <2>1. ASSUME NEW u \in Task, fut'[u].job # None, IsSend(fut'[u].op)
        PROVE  job'[fut'[u].job].arg = fut'[u].arg
    <3>1. u # t /\ fut'[u] = fut[u]
      BY <1>2, <2>1
    <3>2. fut[u].job \in Job /\ fut[u].job # j
      BY <1>0, <1>3, <2>1, <3>1
    <3> QED BY <1>5, <2>1, <3>1, <3>2 DEF SendInv, HandInv
  <2>2. ASSUME slot'["poll_send"] # None
        PROVE  \E u \in Task : /\ pc'[u] = "pending" /\ fut'[u].op = "poll_send"
                               /\ job'[slot'["poll_send"]].arg = fut'[u].arg
    <3>1. CASE c = "poll_send"
      <4>1. job'[slot'["poll_send"]].arg = fut'[t].arg
        BY <1>1, <1>2, <1>4, <1>5, <1>14, <3>1 DEF IsSend, Touched
      <4> QED BY <1>2, <3>1, <4>1
    <3>2. CASE c # "poll_send"
      <4>1. slot'["poll_send"] = slot["poll_send"] /\ slot["poll_send"] \in Job
            /\ slot["poll_send"] # j
        BY <1>0, <1>2, <1>3, <2>2, <3>2
      <4>2. PICK u \in Task : /\ pc[u] = "pending" /\ fut[u].op = "poll_send"
                              /\ job[slot["poll_send"]].arg = fut[u].arg
        BY <2>2, <4>1 DEF SendInv, HandInv
      <4> QED BY <1>1, <1>2, <1>5, <3>2, <4>1, <4>2
    <3> QED BY <3>1, <3>2
  <2> QED BY <2>1, <2>2 DEF HandInv
<1>7. ~Fresh(t)'
  BY <1>0, <1>2, <1>3 DEF Fresh, At
<1>8. ASSUME NEW u \in Task, NEW k \in Job, k = slot["poll_send"] PROVE k = slot'["poll_send"]
  BY <1>0, <1>2, <1>3, <1>8
<1>9. slot'["poll_send"] = None => slot["poll_send"] = None
  BY <1>0, <1>2, <1>3
<1>10. ASSUME NEW k \in Job, IsSend(fut[t].op), WorksFor(k, t) PROVE WorksFor(k, t)'
  <2>1. c = "poll_send"
    BY <1>1, <1>10 DEF IsSend, Channel
  <2>2. k = j
    BY <1>1, <1>10 DEF WorksFor, At
  <2> QED BY <1>2, <2>1, <2>2 DEF WorksFor, At
<1> HIDE DEF j
<1>11. \A k \in Job : job'[k] = job[k] \/ Touched(job[k], job'[k])
  BY <1>4, <1>5
<1> QED BY <1>1, <1>6, <1>7, <1>8, <1>9, <1>10, <1>11, SendGoesOn

(* One try ends the call: the data that are sent are new to the wire.      *)
LEMMA SendTried ==
  ASSUME IInv, SendInv, NEW t \in Task, TryReturns(t),
         pc[t] = "try" \/ pc[t] = "pending", pc[t] = "pending" => slot[fut[t].op] = None,
         job' = job, slot' = slot, program' = program
  PROVE  SendInv'
<1>0. /\ pc \in [Task -> Pcs] /\ fut \in [Task -> FutType] /\ ~IsSend("none")
  BY Types DEF IsSend
<1>1. ASSUME NEW ok \in BOOLEAN, Return(t, ok), wire' = wire, ~ok \/ ~IsSend(fut[t].op)
      PROVE  SendInv'
  <2>1. WireGrows
    BY <1>1 DEF WireGrows
  <2>2. pc[t] = "pending" /\ fut[t].op = "poll_send" => slot["poll_send"] = None
    OBVIOUS
  <2> QED BY <1>1, <2>1, <2>2, SendReturned
<1>2. CASE Return(t, FALSE) /\ wire' = wire
  BY <1>1, <1>2
<1>3. CASE IsSend(fut[t].op) /\ Return(t, TRUE) /\ SendPacket(fut[t].arg)
  <2>1. Fresh(t)
    BY <1>3 DEF IsSend, Fresh, At, IInv, TaskInv, Fits, Channel, Awaited
  <2>2. /\ fut'[t].op = "none" /\ \A u \in Task : u # t => pc'[u] = pc[u] /\ fut'[u] = fut[u]
    <3>1. pc' = [pc EXCEPT ![t] = "idle"] /\ fut' = [fut EXCEPT ![t] = Idle]
      BY <1>3, ReturnMoves
    <3> QED BY <1>0, <3>1 DEF Idle
  <2>3. wire' = Append(wire, fut[t].arg) /\ wire \in Seq(1..data) /\ fut[t].arg \in 1..data
    BY <1>3, <2>1, FreshAlone, TypeParts DEF SendPacket
  <2>4. fut[t].arg \notin ToSet(wire)
    BY <2>1, FreshAlone
  <2>5. ASSUME NEW u \in Task, Fresh(u)' PROVE fut'[u].arg # fut[t].arg
    <3>1. IsSend(fut'[u].op)
      BY <2>5 DEF Fresh, IsSend
    <3> QED BY <1>0, <2>1, <2>2, <3>1, FreshAlone
  <2>6. ASSUME NEW j \in Job, Busy(j)' PROVE job'[j].arg # fut[t].arg
    BY <2>1, <2>6, FreshAlone DEF Busy
  <2>7. WireGrows
    BY <2>3, <2>4, <2>5, <2>6 DEF WireGrows
  <2>8. fut[t].arg \in ToSet(wire')
    <3>1. wire'[Len(wire) + 1] = fut[t].arg /\ Len(wire) + 1 \in DOMAIN wire'
      BY <2>3
    <3> QED BY <3>1 DEF ToSet
  <2>9. pc[t] = "pending" /\ fut[t].op = "poll_send" => slot["poll_send"] = None
    OBVIOUS
  <2> QED BY <1>3, <2>7, <2>8, <2>9, SendReturned
<1>4. ASSUME fut[t].op \in {"poll_recv", "recv"}, NEW n \in Nat, NEW m \in Nat,
             Return(t, n <= m), wire' = wire
      PROVE  SendInv'
  <2>1. ~IsSend(fut[t].op) /\ (n <= m) \in BOOLEAN
    BY <1>4 DEF IsSend
  <2> QED BY <1>1, <1>4, <2>1
<1>5. ASSUME fut[t].op \in {"poll_recv", "recv"}, ring # <<>>,
             Return(t, Head(ring).size <= fut[t].arg), wire' = wire
      PROVE  SendInv'
  <2>1. Head(ring) \in Packet /\ fut[t].arg \in Nat
    BY <1>5, Types, TypeParts
  <2>2. Head(ring).size \in Nat
    BY <2>1 DEF Packet
  <2> QED BY <1>4, <1>5, <2>1, <2>2
<1> QED BY <1>2, <1>3, <1>5 DEF TryReturns

(* A call ends with its task of the pool.  It returns Ok only if that task *)
(* reported success.                                                       *)
LEMMA SendEnded ==
  ASSUME IInv, SendInv, NEW t \in Task, pc[t] \in Working,
         NEW ok \in BOOLEAN, Return(t, ok),
         IsSend(fut[t].op) /\ ok => job[fut[t].job].at = "done" /\ job[fut[t].job].ok,
         wire' = wire, slot' = slot, program' = program,
         job' = job \/ job' = [job EXCEPT ![fut[t].job] = Free]
  PROVE  SendInv'
<1>1. /\ fut[t].job # None /\ fut[t].job \in Job /\ pc[t] # "pending"
  BY Types DEF IInv, TaskInv, Fits, Working
<1>2. IsSend(fut[t].op) /\ ok => fut[t].arg \in ToSet(wire')
  BY <1>1 DEF IInv, OwnerInv, SendInv, HandInv, ReportInv
<1>3. WireGrows
  BY DEF WireGrows
<1> QED BY <1>1, <1>2, <1>3, SendReturned

(* A call goes on, the slots as they are. *)
LEMMA SendMoves ==
  ASSUME IInv, SendInv, NEW t \in Task, pc[t] \in Working,
         NEW p, pc' = [pc EXCEPT ![t] = p],
         \/ fut' = fut
         \/ fut' = [fut EXCEPT ![t] = [@ EXCEPT !.job = None]] /\ ~IsSend(fut[t].op),
         p \in Working \/ ~IsSend(fut[t].op),
         \A k \in Job : \/ job'[k] = job[k]
                        \/ k = fut[t].job /\ Touched(job[k], job'[k])
                        \/ k = fut[t].job /\ job'[k] = Free /\ fut'[t].job = None,
         wire' = wire, okd' = okd, slot' = slot, program' = program
  PROVE  SendInv'
<1>0. /\ pc \in [Task -> Pcs] /\ fut \in [Task -> FutType] /\ fut[t] \in FutType
      /\ pc[t] # "pending" /\ fut[t].job \in Job \cup {None}
  BY Types DEF Working
<1>1. PICK x \in Job \cup {None} :
        /\ fut' = [fut EXCEPT ![t] = [@ EXCEPT !.job = x]]
        /\ x = fut[t].job \/ (x = None /\ ~IsSend(fut[t].op))
  <2>1. CASE fut' = fut
    <3>1. fut[t] = [fut[t] EXCEPT !.job = fut[t].job]
      BY <1>0 DEF FutType
    <3>2. fut' = [fut EXCEPT ![t] = [@ EXCEPT !.job = fut[t].job]]
      BY <1>0, <2>1, <3>1
    <3> QED BY <1>0, <3>2
  <2> QED BY <2>1
<1>2. /\ fut'[t].op = fut[t].op /\ fut'[t].arg = fut[t].arg /\ fut'[t].job = x
      /\ pc'[t] = p
      /\ \A u \in Task : u # t => pc'[u] = pc[u] /\ fut'[u] = fut[u]
  <2>1. fut'[t] = [fut[t] EXCEPT !.job = x]
    BY <1>0, <1>1
  <2>2. fut'[t].op = fut[t].op /\ fut'[t].arg = fut[t].arg /\ fut'[t].job = x
    BY <1>0, <2>1 DEF FutType
  <2> QED BY <1>0, <1>1, <2>2
<1>3. HandInv'
  <2>1. \A k \in Job : \/ job'[k] = job[k]
                       \/ k = fut[t].job /\ (Touched(job[k], job'[k]) \/ fut'[t].job = None)
    OBVIOUS
  <2>2. \/ fut'[t].job = None
        \/ fut'[t].job = fut[t].job /\ fut'[t].op = fut[t].op /\ fut'[t].arg = fut[t].arg
    BY <1>1, <1>2
  <2> QED BY <1>0, <1>2, <2>1, <2>2, HandStays
<1>4. ~Fresh(t)'
  BY <1>2 DEF Fresh, At, IsSend, Working
<1>5. ASSUME NEW j \in Job, IsSend(fut[t].op), WorksFor(j, t) PROVE WorksFor(j, t)'
  BY <1>0, <1>1, <1>2, <1>5 DEF WorksFor, At
<1>6. \A j \in Job : \/ job'[j] = job[j] \/ Touched(job[j], job'[j]) \/ job'[j] = Free
  OBVIOUS
<1> QED BY <1>1, <1>3, <1>4, <1>5, <1>6, SendGoesOn

(* The steps of a task. *)
LEMMA TaskSends ==
  ASSUME IInv, SendInv, OneSender, NEW t \in Task, TaskStep(t)
  PROVE  SendInv'
<1>0. /\ Fits(pc[t], fut[t]) /\ fut[t].job \in Job \cup {None} /\ None \notin Job
      /\ job \in [Job -> JobType] /\ \A j \in Job : job[j] \in JobType
      /\ \A j \in Job : job[j].ok \in BOOLEAN
      /\ fut \in [Task -> FutType] /\ fut[t].op \in AllOps \cup {"none"}
  BY Types, JobFields DEF IInv, TaskInv
<1>1. program' = program
  BY TaskMoves
<1>2. pc[t] \in Working => fut[t].job \in Job /\ job[fut[t].job].ok \in BOOLEAN
  BY <1>0 DEF Fits
<1>3. ASSUME NEW c \in Channel, PollTry(t, c) PROVE SendInv'
  BY <1>1, <1>3, SendTried DEF PollTry, Polls, At
<1>4. CASE Try(t)
  BY <1>1, <1>4, SendTried DEF Try, At
<1>5. ASSUME NEW c \in Channel, PollSpawn(t, c) PROVE SendInv'
  BY <1>1, <1>5, SendSpawned DEF PollSpawn, Polls, At, Goto, history
<1>6. CASE AwaitJob(t)
  <2>1. CASE Spawn(t) /\ Goto(t, "await") /\ okd' = okd
    BY <1>1, <1>6, <2>1, SendSpawned DEF AwaitJob, At, Goto
  <2>2. CASE Return(t, FALSE) /\ job' = job
    <3>1. WireGrows
      BY <1>6 DEF WireGrows, AwaitJob
    <3> QED BY <1>1, <1>6, <2>2, <3>1, SendReturned DEF AwaitJob, At
  <2> QED BY <1>6, <2>1, <2>2 DEF AwaitJob
<1>7. ASSUME NEW c \in Channel, PollReady(t, c) PROVE SendInv'
  <2>1. /\ pc[t] \in Working /\ fut[t].op = c /\ job[fut[t].job].at = "done"
        /\ job' = [job EXCEPT ![fut[t].job] = Free] /\ wire' = wire /\ slot' = slot
    BY <1>7 DEF PollReady, At, Working
  <2>2. CASE Return(t, job[fut[t].job].ok)
    BY <1>1, <1>2, <2>1, <2>2, SendEnded
  <2>3. ASSUME NEW ok \in BOOLEAN, c = "poll_recv", Return(t, ok) PROVE SendInv'
    BY <1>1, <2>1, <2>3, SendEnded DEF IsSend
  <2> QED BY <1>7, <2>2, <2>3 DEF PollReady, SendResult
<1>8. CASE AwaitReady(t)
  <2>1. /\ pc[t] \in Working /\ pc[t] = "await" /\ job[fut[t].job].at = "done"
        /\ job' = [job EXCEPT ![fut[t].job] = Free] /\ wire' = wire /\ slot' = slot
    BY <1>8 DEF AwaitReady, At, Working
  <2>2. CASE Return(t, job[fut[t].job].ok)
    BY <1>1, <1>2, <2>1, <2>2, SendEnded
  <2>3. CASE /\ fut[t].op = "recv" /\ Goto(t, "try") /\ okd' = okd
             /\ fut' = [fut EXCEPT ![t] = [@ EXCEPT !.job = None]]
    <3>1. fut'[t] = [fut[t] EXCEPT !.job = None] /\ fut[t] \in FutType
      BY <1>0, <2>3
    <3>2. fut'[t].job = None
      BY <3>1 DEF FutType
    <3>3. \A k \in Job : \/ job'[k] = job[k]
                         \/ k = fut[t].job /\ job'[k] = Free /\ fut'[t].job = None
      BY <1>0, <2>1, <3>2
    <3>4. ~IsSend(fut[t].op) /\ pc' = [pc EXCEPT ![t] = "try"]
      BY <2>3 DEF IsSend, Goto
    <3> QED BY <1>1, <2>1, <2>3, <3>3, <3>4, SendMoves
  <2> QED BY <1>8, <2>2, <2>3 DEF AwaitReady
<1>9. CASE Abandon(t)
  <2>1. pc[t] = "pending" /\ wire' = wire /\ slot' = slot /\ job' = job /\ Return(t, FALSE)
    BY <1>9 DEF Abandon, At
  <2>2. fut[t].op # "poll_send"
    BY <1>9, TheSender DEF Abandon, SendInv
  <2>3. WireGrows
    BY <2>1 DEF WireGrows
  <2> QED BY <1>1, <2>1, <2>2, <2>3, SendReturned
<1>10. ASSUME CancelBegin(t) \/ CancelTrigger(t) PROVE SendInv'
  <2>1. PoolChanges(t) /\ pc[t] \in Working /\ fut' = fut
        /\ wire' = wire /\ okd' = okd /\ slot' = slot
    BY <1>10, TaskPool DEF CancelBegin, CancelTrigger, At, Working, history
  <2>2. PICK p \in Working : pc' = [pc EXCEPT ![t] = p]
    BY <1>10 DEF CancelBegin, CancelTrigger, Goto, Working
  <2>3. fut[t].job \in Job /\ job[fut[t].job] \in JobType
    BY <1>0, <1>2, <2>1
  <2>4. \A k \in Job : job'[k] = job[k] \/ (k = fut[t].job /\ Touched(job[k], job'[k]))
    <3>1. ASSUME CancelBegin(t) PROVE job' = [job EXCEPT ![fut[t].job] = [@ EXCEPT !.detached = TRUE]]
      BY <3>1 DEF CancelBegin
    <3>2. ASSUME CancelTrigger(t) PROVE job' = [job EXCEPT ![fut[t].job] = [@ EXCEPT !.cancel = TRUE]]
      BY <3>2 DEF CancelTrigger, Trigger
    <3>3. /\ Touched(job[fut[t].job], [job[fut[t].job] EXCEPT !.detached = TRUE])
          /\ Touched(job[fut[t].job], [job[fut[t].job] EXCEPT !.cancel = TRUE])
      BY <2>3 DEF Touched, JobType
    <3> QED BY <1>0, <1>10, <2>3, <3>1, <3>2, <3>3
  <2> QED BY <1>1, <2>1, <2>2, <2>4, SendMoves
<1>11. CASE CancelEnds(t)
  <2>1. pc[t] \in Working /\ Return(t, FALSE) /\ wire' = wire /\ slot' = slot
    BY <1>11 DEF CancelEnds, At, Working
  <2>2. job' = job \/ job' = [job EXCEPT ![fut[t].job] = Free]
    <3>1. job' = [job EXCEPT ![fut[t].job] = Free] \/ job' = [job EXCEPT ![fut[t].job] = job[fut[t].job]]
      BY <1>11 DEF CancelEnds
    <3> QED BY <1>0, <3>1
  <2> QED BY <1>1, <2>1, <2>2, SendEnded
<1>12. CASE Poll(t)
  BY <1>3, <1>5, <1>7, <1>12, SendTaken, SendPutBack DEF Poll
<1>13. CASE Await(t)
  BY <1>4, <1>6, <1>8, <1>10, <1>11, <1>13 DEF Await
<1> QED BY <1>9, <1>10, <1>12, <1>13, SendBegun DEF TaskStep

(* A thread that is to send was to send it before.                         *)
LEMMA ThreadBusy ==
  ASSUME IInv, NEW j \in Job, JobStep(j) \/ JobFails(j)
  PROVE  /\ \A k \in Job : Busy(k)' => Busy(k) /\ job'[k].arg = job[k].arg
         /\ \A k \in Job : job'[k].exit =>
              \/ job'[k].at = "done" \/ job'[k] = job[k]
              \/ job[k].exit /\ job[k].at \notin {"free", "done"}
         /\ wire' = wire \/ (Busy(j) /\ wire' = Append(wire, job[j].arg))
<1>0. /\ job \in [Job -> JobType] /\ Free.at = "free" /\ ~Free.exit
      /\ job[j].at = "wait" => ~IsSend(job[j].op)
      /\ job[j].at \notin {"free", "done"}
  <2>1. job[j].at # "free"
    BY JobStepMoves DEF JobMoves
  <2>2. job[j].at # "done"
    BY DEF JobStep, JobStart, JobDiscard, JobLock, JobRecv, JobSend, JobWait, JobStops,
           JobExits, JobFails, Inside
  <2> QED BY <2>1, <2>2, Types DEF Free, IInv, JobInv, JobShape, IsSend
<1>2. PICK q \in JobType :
        /\ ThreadMoves(j, q)
        /\ Quiet(j, q) \/ Receives(j, q) \/ Refuses(j, q) \/ Sends(j, q)
  BY ThreadPool DEF ThreadActs
<1>3. /\ job'[j] = q /\ \A k \in Job : k # j => job'[k] = job[k]
      /\ GoesOn(job[j], q) \/ (q = Free /\ ~Wanted(j))
      /\ q.at \in {"run", "try"} => job[j].at \in {"queued", "run", "wait"}
  BY <1>0, <1>2 DEF ThreadMoves
<1>4. ASSUME NEW k \in Job, Busy(k)' PROVE Busy(k) /\ job'[k].arg = job[k].arg
  <2>1. CASE k = j
    <3>1. q.at \in {"queued", "run", "try"} /\ IsSend(q.op)
      BY <1>3, <1>4, <2>1 DEF Busy
    <3>2. GoesOn(job[j], q)
      BY <1>0, <1>3, <3>1
    <3> QED BY <1>0, <1>3, <2>1, <3>1, <3>2 DEF Busy, GoesOn
  <2>2. CASE k # j
    BY <1>3, <1>4, <2>2 DEF Busy
  <2> QED BY <2>1, <2>2
<1>5. ASSUME NEW k \in Job, job'[k].exit
      PROVE  \/ job'[k].at = "done" \/ job'[k] = job[k]
             \/ job[k].exit /\ job[k].at \notin {"free", "done"}
  BY <1>0, <1>3, <1>5 DEF GoesOn
<1>6. wire' = wire \/ (Busy(j) /\ wire' = Append(wire, job[j].arg))
  BY <1>2 DEF Quiet, Receives, Refuses, Sends, Busy
<1> QED BY <1>4, <1>5, <1>6

(* The steps of the pool's threads: what one sends it had not sent before. *)
LEMMA ThreadSends ==
  ASSUME IInv, SendInv, NEW j \in Job, JobStep(j) \/ JobFails(j)
  PROVE  SendInv'
<1>0. /\ job \in [Job -> JobType] /\ None \notin Job
      /\ slot \in [Channel -> Job \cup {None}] /\ "poll_send" \in Channel
      /\ Free.at = "free"
      /\ job[j].at = "wait" => ~IsSend(job[j].op)
  BY Types DEF Channel, Free, IInv, JobInv, JobShape, IsSend
<1>1. /\ pc' = pc /\ fut' = fut /\ slot' = slot /\ program' = program /\ okd' = okd
      /\ job[j].at # "free"
  BY JobStepMoves, ThreadHistory DEF JobMoves
<1>2. PICK q \in JobType :
        /\ ThreadMoves(j, q)
        /\ Quiet(j, q) \/ Receives(j, q) \/ Refuses(j, q) \/ Sends(j, q)
  BY ThreadPool DEF ThreadActs
<1>3. /\ job'[j] = q /\ \A k \in Job : k # j => job'[k] = job[k]
      /\ GoesOn(job[j], q) \/ (q = Free /\ ~Wanted(j))
      /\ q.at \in {"run", "try"} => job[j].at \in {"queued", "run", "wait"}
  BY <1>0, <1>2 DEF ThreadMoves
<1>4. q # Free => q.op = job[j].op /\ q.arg = job[j].arg
  BY <1>3 DEF GoesOn
<1>5. ASSUME q = Free
      PROVE  /\ \A t \in Task : fut[t].job # j
             /\ \A c \in Channel : slot[c] # j
  <2>1. ~Wanted(j)
    BY <1>0, <1>3, <1>5 DEF GoesOn
  <2>2. \A t \in Task : fut[t].job # j
    BY <2>1 DEF Wanted
  <2>3. job[j].detached
    BY <2>1 DEF Wanted
  <2>4. \A c \in Channel : slot[c] # None => ~job[slot[c]].detached
    BY DEF IInv, OwnerInv
  <2> QED BY <1>0, <2>2, <2>3, <2>4
<1>6. HandInv'
  <2>1. ASSUME NEW u \in Task, fut[u].job # None, IsSend(fut[u].op)
        PROVE  job'[fut[u].job].arg = fut[u].arg
    <3>1. fut[u].job \in Job /\ job[fut[u].job].arg = fut[u].arg
      BY <2>1, Types DEF SendInv, HandInv
    <3> QED BY <1>3, <1>4, <1>5, <3>1
  <2>2. ASSUME slot["poll_send"] # None
        PROVE  \E u \in Task : /\ pc[u] = "pending" /\ fut[u].op = "poll_send"
                               /\ job'[slot["poll_send"]].arg = fut[u].arg
    <3>1. PICK u \in Task : /\ pc[u] = "pending" /\ fut[u].op = "poll_send"
                            /\ job[slot["poll_send"]].arg = fut[u].arg
      BY <2>2 DEF SendInv, HandInv
    <3>2. slot["poll_send"] \in Job
      BY <1>0, <2>2
    <3>3. job'[slot["poll_send"]].arg = job[slot["poll_send"]].arg
      BY <1>0, <1>3, <1>4, <1>5, <3>2
    <3> QED BY <3>1, <3>3
  <2> QED BY <1>1, <2>1, <2>2 DEF HandInv
<1>7. ASSUME NEW k \in Job, Busy(k)' PROVE Busy(k) /\ job'[k].arg = job[k].arg
  BY <1>7, ThreadBusy
<1>8. \A t \in Task : Fresh(t)' <=> Fresh(t)
  BY <1>1 DEF Fresh, At
<1>9. ASSUME Sends(j, q) PROVE WireGrows /\ job[j].arg \in ToSet(wire')
  <2>1. Busy(j) /\ wire' = Append(wire, job[j].arg)
    BY <1>9 DEF Sends, Busy
  <2>2. job[j].arg \in 1..data /\ wire \in Seq(1..data)
    BY <1>1, <1>9, TypeParts DEF Sends, IInv, DataInv
  <2>3. job[j].arg \notin ToSet(wire)
    BY <2>1 DEF SendInv, UnsentInv
  <2>4. \A t \in Task : Fresh(t)' => fut'[t].arg # job[j].arg
    BY <1>1, <1>8, <2>1, FreshAlone
  <2>5. ASSUME NEW k \in Job, Busy(k)' PROVE job'[k].arg # job[j].arg
    <3>1. k # j
      BY <1>3, <1>9, <2>5 DEF Sends, Busy
    <3> QED BY <1>7, <2>1, <2>5, <3>1 DEF SendInv, UnsentInv
  <2>6. WireGrows
    BY <2>1, <2>2, <2>3, <2>4, <2>5 DEF WireGrows
  <2>7. wire'[Len(wire) + 1] = job[j].arg /\ Len(wire) + 1 \in DOMAIN wire'
    BY <2>1, <2>2
  <2> QED BY <2>6, <2>7 DEF ToSet
<1>10. WireGrows
  BY <1>2, <1>9 DEF WireGrows, Quiet, Receives, Refuses
<1>11. okd' \subseteq ToSet(wire')
  BY <1>1, <1>10, WireNext DEF SendInv, OkSentOnce
<1>12. ASSUME NEW k \in Job, job'[k].at \in {"exiting", "done"}, IsSend(job'[k].op), job'[k].ok
       PROVE  \/ /\ job[k].at \in {"exiting", "done"} /\ IsSend(job[k].op) /\ job[k].ok
                 /\ job'[k].arg = job[k].arg
              \/ job'[k].arg \in ToSet(wire')
  <2>1. CASE k # j
    BY <1>3, <1>12, <2>1
  <2>2. CASE k = j
    <3>1. q.at \in {"exiting", "done"} /\ IsSend(q.op) /\ q.ok /\ q # Free
      BY <1>0, <1>3, <1>12, <2>2
    <3>2. Quiet(j, q) \/ Sends(j, q)
      BY <1>0, <1>2, <3>1 DEF Receives, Refuses, IsSend
    <3>3. CASE Quiet(j, q)
      BY <1>3, <1>4, <2>2, <3>1, <3>3 DEF Quiet
    <3>4. CASE Sends(j, q)
      BY <1>3, <1>4, <1>9, <2>2, <3>1, <3>4
    <3> QED BY <3>2, <3>3, <3>4
  <2> QED BY <2>1, <2>2
<1>13. \A t \in Task, k \in Job : WorksFor(k, t) => WorksFor(k, t)'
  BY <1>1 DEF WorksFor, At
<1>14. \A t \in Task : Fresh(t)' => Fresh(t)
  BY <1>8
<1>15. \A t \in Task : fut'[t].op = "none" \/ (fut'[t].op = fut[t].op /\ fut'[t].arg = fut[t].arg)
  BY <1>1
<1> QED BY <1>1, <1>6, <1>7, <1>10, <1>11, <1>12, <1>13, <1>14, <1>15, SendKept

(* Nothing of what SendInv is about changes. *)
LEMMA SendSame ==
  ASSUME SendInv, pc' = pc, fut' = fut, job' = job, slot' = slot, wire' = wire, okd' = okd,
         program' = program
  PROVE  SendInv'
<1>1. CallInv' /\ HandInv' /\ ReportInv' /\ OkSentOnce'
  BY DEF SendInv, CallInv, HandInv, ReportInv, OkSentOnce
<1>2. UnsentInv'
  BY DEF SendInv, UnsentInv, Fresh, Busy, WorksFor, At
<1> QED BY <1>1, <1>2 DEF SendInv

(* The device is dropped: no call is on its way any more.                  *)
LEMMA SendDropped ==
  ASSUME IInv, SendInv, DropFields
  PROVE  SendInv'
<1>0. /\ job \in [Job -> JobType] /\ \A k \in Job : job[k] \in JobType
      /\ "poll_send" \in Channel /\ Free.at = "free" /\ ~IsSend("none")
  BY Types DEF Channel, Free, IsSend
<1>1. /\ pc' = pc /\ fut' = fut /\ program' = program /\ wire' = wire /\ okd' = okd
      /\ dropped = "shutdown" /\ slot'["poll_send"] = None
  BY <1>0 DEF DropFields, history
<1>2. \A t \in Task : pc[t] = "idle" /\ fut[t].op = "none" /\ fut[t].job = None
  BY <1>1 DEF IInv, TaskInv, Fits, Working
<1>3. ASSUME NEW k \in Job PROVE job'[k] = Free \/ Touched(job[k], job'[k])
  <2>1. job'[k] \in {job[k], Free, [job[k] EXCEPT !.detached = TRUE]}
    BY DEF DropFields
  <2>2. Touched(job[k], job[k]) /\ Touched(job[k], [job[k] EXCEPT !.detached = TRUE])
    BY <1>0 DEF Touched, JobType
  <2> QED BY <2>1, <2>2
<1>4. HandInv'
  BY <1>1, <1>2 DEF HandInv
<1>5. WireGrows /\ okd' \subseteq ToSet(wire')
  BY <1>1 DEF WireGrows, SendInv, OkSentOnce
<1>6. \A t \in Task : Fresh(t)' => Fresh(t)
  BY <1>1, <1>2 DEF Fresh, At
<1>7. \A k \in Job : Busy(k)' => Busy(k) /\ job'[k].arg = job[k].arg
  BY <1>0, <1>3 DEF Busy, Touched
<1>8. \A k \in Job : job'[k].at \in {"exiting", "done"} /\ IsSend(job'[k].op) /\ job'[k].ok =>
        /\ job[k].at \in {"exiting", "done"} /\ IsSend(job[k].op) /\ job[k].ok
        /\ job'[k].arg = job[k].arg
  BY <1>0, <1>3 DEF Touched
<1>9. \A t \in Task : ~IsSend(fut'[t].op) /\ fut'[t].op = "none"
  BY <1>0, <1>1, <1>2
<1> QED BY <1>1, <1>4, <1>5, <1>6, <1>7, <1>8, <1>9, SendKept

(* SendInv holds when the device has been made. *)
LEMMA SendInit ==
  ASSUME Init
  PROVE  SendInv
<1>0. /\ \A t \in Task : pc[t] = "idle" /\ fut[t] = Idle
      /\ \A j \in Job : job[j] = Free
      /\ slot["poll_send"] = None /\ wire = <<>> /\ okd = {}
      /\ Idle.op = "none" /\ Idle.job = None /\ Free.at = "free" /\ ~IsSend("none")
  BY DEF Init, Idle, Free, IsSend, Channel
<1>1. CallInv /\ HandInv /\ ReportInv
  BY <1>0 DEF CallInv, HandInv, ReportInv
<1>2. UnsentInv
  BY <1>0 DEF UnsentInv, Fresh, Busy, At
<1>3. OkSentOnce
  BY <1>0 DEF OkSentOnce
<1> QED BY <1>1, <1>2, <1>3 DEF SendInv

(* Every step keeps SendInv. *)
LEMMA SendStep ==
  ASSUME OneSender, IInv, SendInv, [Next]_vars
  PROVE  SendInv'
<1>1. CASE Next
  <2>1. ASSUME NEW t \in Task, TaskStep(t) PROVE SendInv'
    BY <2>1, TaskSends
  <2>2. ASSUME NEW j \in Job, JobStep(j) \/ JobFails(j) PROVE SendInv'
    BY <2>2, ThreadSends
  <2>3. CASE Outside
    BY <2>3, SendSame DEF Outside, Disable, Enable, Arrive, Drain, life, history
  <2>4. CASE DropBegin
    BY <2>4, SendSame DEF DropBegin, history
  <2>5. CASE DropFields
    BY <2>5, SendDropped
  <2> QED BY <1>1, <2>1, <2>2, <2>3, <2>4, <2>5, NextCases
<1>2. CASE UNCHANGED vars
  BY <1>2, SendSame DEF vars, deviceVars, life, history
<1> QED BY <1>1, <1>2

(* Ok means sent, and nothing is sent twice, as long as one task uses      *)
(* poll_send and polls it until it is Ready: what it was told is Pending   *)
(* is in the hands of a thread and not sent again.                         *)
THEOREM OkMeansSentOnce == OneSender => (Spec => []OkSentOnce)
<1>1. Init => IInv /\ SendInv
  BY InitOk, SendInit
<1>2. OneSender /\ IInv /\ SendInv /\ [Next]_vars => IInv' /\ SendInv'
  BY StepOk, SendStep
<1>3. SendInv => OkSentOnce
  BY DEF SendInv
<1> QED
  <2> SUFFICES ASSUME OneSender PROVE Spec => []OkSentOnce
    OBVIOUS
  <2>1. IInv /\ SendInv /\ [Next]_vars => IInv' /\ SendInv'
    BY <1>2
  <2> QED BY <1>1, <1>3, <2>1, PTL DEF Spec

(***************************************************************************)
(* CancelledStops: what is over stays over.                                *)
(***************************************************************************)

(* A call that is over has no thread that is still to send.                *)
LEMMA TaskEnds ==
  ASSUME IInv, SendInv, EndedInv, OneSender, InTime, NEW t \in Task, TaskStep(t)
  PROVE  \/ ended' = ended
         \/ /\ ended' = ended \cup {fut[t].arg} /\ IsSend(fut[t].op) /\ fut'[t].op = "none"
            /\ \A j \in Job : Busy(j) => ~WorksFor(j, t)
<1> DEFINE Over == /\ ended' = ended \cup {fut[t].arg} /\ IsSend(fut[t].op) /\ fut'[t].op = "none"
                   /\ \A j \in Job : Busy(j) => ~WorksFor(j, t)
<1>0. /\ Fits(pc[t], fut[t]) /\ fut[t].job \in Job \cup {None} /\ None \notin Job
      /\ fut \in [Task -> FutType] /\ program \in Programs
  BY Types DEF IInv, TaskInv
<1>1. ASSUME NEW ok, Return(t, ok), IsSend(fut[t].op),
             \A j \in Job : Busy(j) => ~WorksFor(j, t)
      PROVE  Over
  <2>1. fut' = [fut EXCEPT ![t] = Idle]
    BY <1>1, ReturnMoves
  <2> QED BY <1>0, <1>1, <2>1 DEF Return, Idle
<1>2. ASSUME NEW ok, Return(t, ok), ~IsSend(fut[t].op) PROVE ended' = ended
  BY <1>2 DEF Return
<1> HIDE DEF Over
<1>3. ASSUME NEW ok, Return(t, ok), pc[t] = "try" \/ (pc[t] = "pending" /\ slot[fut[t].op] = None)
      PROVE  ended' = ended \/ Over
  <2>1. fut[t].job = None
    BY <1>0, <1>3 DEF Fits, Working
  <2>2. IsSend(fut[t].op) /\ pc[t] = "pending" => fut[t].op = "poll_send"
    BY <1>0 DEF IsSend, Fits, Channel
  <2>3. ASSUME IsSend(fut[t].op), NEW j \in Job PROVE ~WorksFor(j, t)
    BY <1>0, <1>3, <2>1, <2>2, <2>3 DEF WorksFor, At
  <2> QED BY <1>1, <1>2, <1>3, <2>3
<1>4. ASSUME NEW ok, Return(t, ok), pc[t] \in Working, job[fut[t].job].at = "done"
      PROVE  ended' = ended \/ Over
  <2>1. ASSUME NEW j \in Job, WorksFor(j, t) PROVE ~Busy(j)
    BY <1>4, <2>1 DEF WorksFor, At, Busy, Working
  <2> QED BY <1>1, <1>2, <1>4, <2>1
<1>5. TryReturns(t) => \E ok : Return(t, ok)
  BY DEF TryReturns
<1>6. ASSUME NEW c \in Channel, PollTry(t, c) PROVE ended' = ended \/ Over
  BY <1>3, <1>5, <1>6 DEF PollTry, Polls, At
<1>7. CASE Try(t)
  BY <1>3, <1>5, <1>7 DEF Try, At, Over
<1>8. CASE AwaitJob(t)
  BY <1>3, <1>8 DEF AwaitJob, At, Over
<1>9. ASSUME NEW c \in Channel, PollReady(t, c) PROVE ended' = ended \/ Over
  BY <1>4, <1>9 DEF PollReady, At, Working
<1>10. CASE AwaitReady(t)
  BY <1>4, <1>10 DEF AwaitReady, At, Working, Over
<1>11. CASE Abandon(t)
  <2>1. fut[t].op # "poll_send"
    BY <1>11, TheSender DEF Abandon, SendInv
  <2>2. ~IsSend(fut[t].op)
    BY <1>0, <1>11, <2>1 DEF Abandon, At, Fits, IsSend, Channel
  <2> QED BY <1>2, <1>11, <2>2 DEF Abandon
<1>12. CASE CancelEnds(t)
  <2>1. pc[t] = "cancel" /\ fut[t].job \in Job /\ Return(t, FALSE)
    BY <1>0, <1>12 DEF CancelEnds, At, Fits, Working
  <2>2. CASE ~IsSend(fut[t].op)
    BY <1>2, <2>1, <2>2
  <2>3. CASE IsSend(fut[t].op)
    <3>1. fut[t].op = "send"
      BY <1>0, <2>1, <2>3 DEF Fits, IsSend, Awaited
    <3>2. ~program.exitLate
      BY <1>0, <3>1 DEF SendInv, CallInv, InTime
    <3>3. job[fut[t].job].exit /\ job[fut[t].job].at # "free"
      BY <1>0, <1>12, <2>1, <3>2 DEF CancelEnds, ExitSeen, IInv, OwnerInv
    <3>4. job[fut[t].job].at = "done"
      BY <2>1, <3>3 DEF EndedInv
    <3>5. pc[t] \in Working
      BY <2>1 DEF Working
    <3> QED BY <1>4, <2>1, <3>4, <3>5 DEF Over
  <2> QED BY <2>2, <2>3
<1>13. ASSUME NEW c \in Channel, PollTake(t, c) \/ PollSpawn(t, c) \/ PollPending(t, c)
       PROVE  ended' = ended
  BY <1>13 DEF PollTake, PollSpawn, PollPending, history
<1>14. CASE CancelTrigger(t) \/ CancelBegin(t)
  BY <1>14 DEF CancelTrigger, CancelBegin, history
<1>15. ASSUME NEW o \in AllOps, NEW n \in program.bufLen \cup {data + 1}, Begin(t, o, n)
       PROVE  ended' = ended
  BY <1>15 DEF Begin
<1>16. Poll(t) => ended' = ended \/ Over
  BY <1>6, <1>9, <1>13 DEF Poll
<1>17. Await(t) => ended' = ended \/ Over
  BY <1>7, <1>8, <1>10, <1>12, <1>14 DEF Await, Over
<1> QED BY <1>11, <1>14, <1>15, <1>16, <1>17 DEF TaskStep, Over

(* A step of a task keeps EndedInv: what it ends nobody sends any more. *)
LEMMA EndedTask ==
  ASSUME IInv, SendInv, EndedInv, OneSender, InTime, NEW t \in Task, TaskStep(t)
  PROVE  EndedInv'
<1>0. /\ job \in [Job -> JobType] /\ fut \in [Task -> FutType] /\ data \in Nat
      /\ ended \subseteq 1..data /\ ~IsSend("none") /\ Free.at = "free" /\ ~Free.exit
  BY Types, TypeParts DEF IsSend, Free
<1>1. \A u \in Task : u # t => fut'[u] = fut[u]
  BY <1>0, TaskMoves DEF Moves
<1>2. \/ fut'[t].op = "none"
      \/ fut'[t].op = fut[t].op /\ fut'[t].arg = fut[t].arg
      \/ IsSend(fut'[t].op) => fut'[t].arg = data + 1
  <2>1. ASSUME NEW o \in AllOps, NEW n \in program.bufLen \cup {data + 1}, Begin(t, o, n)
        PROVE  IsSend(fut'[t].op) => fut'[t].arg = data + 1
    <3>1. fut'[t] = [op |-> o, arg |-> n, job |-> None]
      BY <1>0, <2>1 DEF Begin
    <3>2. fut'[t].op = o /\ fut'[t].arg = n
      BY <3>1
    <3> QED BY <2>1, <3>2 DEF Begin
  <2> QED BY <2>1, TaskFuture
<1>3. data + 1 \notin ended
  BY <1>0
<1>4. ASSUME NEW j \in Job, Busy(j)'
      PROVE  \/ Busy(j) /\ job'[j].arg = job[j].arg
             \/ IsSend(fut[t].op) /\ job'[j].arg = fut[t].arg /\ fut'[t].op # "none"
  <2>1. CASE job' = job
    BY <1>4, <2>1 DEF Busy
  <2>2. ASSUME NEW k \in Job, NEW q \in JobType, job' = [job EXCEPT ![k] = q], Spawned(t, k, q)
        PROVE  \/ Busy(j) /\ job'[j].arg = job[j].arg
               \/ IsSend(fut[t].op) /\ job'[j].arg = fut[t].arg /\ fut'[t].op # "none"
    <3>1. CASE j = k
      <4>1. fut'[t] = [fut[t] EXCEPT !.job = k] /\ fut[t] \in FutType
        BY <1>0, <2>2 DEF Spawned
      <4>2. fut'[t].op = fut[t].op
        BY <4>1 DEF FutType
      <4>3. job'[j] = q
        BY <1>0, <2>2, <3>1
      <4> QED BY <1>4, <2>2, <4>2, <4>3 DEF Spawned, Busy
    <3>2. CASE j # k
      BY <1>0, <1>4, <2>2, <3>2 DEF Busy
    <3> QED BY <3>1, <3>2
  <2>3. ASSUME NEW k \in Job, NEW q \in JobType, job' = [job EXCEPT ![k] = q],
               Touched(job[k], q) \/ q = Free
        PROVE  Busy(j) /\ job'[j].arg = job[j].arg
    BY <1>0, <1>4, <2>3 DEF Busy, Touched
  <2> QED BY <2>1, <2>2, <2>3, TaskPool DEF PoolChanges
<1>5. ASSUME NEW j \in Job, job'[j].exit PROVE job'[j].at \in {"done", "free"}
  <2>1. \A k \in Job : job[k].exit => job[k].at \in {"done", "free"}
    BY DEF EndedInv
  <2>2. CASE job' = job
    BY <1>5, <2>1, <2>2
  <2>3. ASSUME NEW k \in Job, NEW q \in JobType, job' = [job EXCEPT ![k] = q],
               Spawned(t, k, q) \/ Touched(job[k], q) \/ q = Free
        PROVE  job'[j].at \in {"done", "free"}
    BY <1>0, <1>5, <2>1, <2>3 DEF Spawned, Touched
  <2> QED BY <2>2, <2>3, TaskPool DEF PoolChanges
<1>6. CASE ended' = ended
  <2>1. ASSUME NEW u \in Task, IsSend(fut'[u].op) PROVE fut'[u].arg \notin ended
    BY <1>0, <1>1, <1>2, <1>3, <2>1 DEF EndedInv
  <2>2. ASSUME NEW j \in Job, Busy(j)' PROVE job'[j].arg \notin ended
    BY <1>4, <2>2 DEF EndedInv
  <2> QED BY <1>5, <1>6, <2>1, <2>2 DEF EndedInv
<1>7. CASE /\ ended' = ended \cup {fut[t].arg} /\ IsSend(fut[t].op) /\ fut'[t].op = "none"
           /\ \A j \in Job : Busy(j) => ~WorksFor(j, t)
  <2>1. ASSUME NEW u \in Task, IsSend(fut'[u].op) PROVE fut'[u].arg \notin ended'
    <3>1. u # t /\ fut'[u] = fut[u]
      BY <1>0, <1>1, <1>7, <2>1
    <3>2. fut[u].arg # fut[t].arg
      BY <1>7, <2>1, <3>1 DEF SendInv, CallInv
    <3> QED BY <1>7, <2>1, <3>1, <3>2 DEF EndedInv
  <2>2. ASSUME NEW j \in Job, Busy(j)' PROVE job'[j].arg \notin ended'
    <3>1. Busy(j) /\ job'[j].arg = job[j].arg
      BY <1>4, <1>7, <2>2
    <3>2. job[j].arg # fut[t].arg
      BY <1>7, <3>1 DEF SendInv, UnsentInv
    <3> QED BY <1>7, <3>1, <3>2 DEF EndedInv
  <2> QED BY <1>5, <2>1, <2>2 DEF EndedInv
<1> QED BY <1>6, <1>7, TaskEnds

(* A step of a thread keeps EndedInv: it ends no call. *)
LEMMA EndedThread ==
  ASSUME IInv, EndedInv, NEW j \in Job, JobStep(j) \/ JobFails(j)
  PROVE  EndedInv'
<1>1. fut' = fut /\ ended' = ended
  BY JobStepMoves, ThreadHistory DEF JobMoves
<1>2. \A k \in Job : job'[k].exit => job'[k].at \in {"done", "free"}
  BY ThreadBusy DEF EndedInv
<1>3. \A k \in Job : Busy(k)' => job'[k].arg \notin ended
  BY ThreadBusy DEF EndedInv
<1>4. \A t \in Task : IsSend(fut'[t].op) => fut'[t].arg \notin ended
  BY <1>1 DEF EndedInv
<1> QED BY <1>1, <1>2, <1>3, <1>4 DEF EndedInv

(* DropFields keeps EndedInv. *)
LEMMA EndedDropped ==
  ASSUME IInv, EndedInv, DropFields
  PROVE  EndedInv'
<1>0. job \in [Job -> JobType] /\ Free.at = "free" /\ ~Free.exit
  BY Types DEF Free
<1>1. fut' = fut /\ ended' = ended
  BY DEF DropFields, history
<1>2. ASSUME NEW k \in Job
      PROVE  job'[k] = Free \/ Touched(job[k], job'[k])
  <2>1. job'[k] \in {job[k], Free, [job[k] EXCEPT !.detached = TRUE]}
    BY DEF DropFields
  <2>2. Touched(job[k], job[k]) /\ Touched(job[k], [job[k] EXCEPT !.detached = TRUE])
    BY Types DEF Touched, JobType
  <2> QED BY <2>1, <2>2
<1>3. \A k \in Job : job'[k].exit => job'[k].at \in {"done", "free"}
  BY <1>0, <1>2 DEF EndedInv, Touched
<1>4. \A k \in Job : Busy(k)' => job'[k].arg \notin ended
  BY <1>0, <1>2 DEF EndedInv, Busy, Touched
<1>5. \A t \in Task : IsSend(fut'[t].op) => fut'[t].arg \notin ended
  BY <1>1 DEF EndedInv
<1> QED BY <1>1, <1>3, <1>4, <1>5 DEF EndedInv

(* A step that touches neither calls nor the pool keeps EndedInv. *)
LEMMA EndedSame ==
  ASSUME EndedInv, fut' = fut, job' = job, ended' = ended
  PROVE  EndedInv'
  BY DEF EndedInv, Busy

(* Every step keeps EndedInv. *)
LEMMA EndedStep ==
  ASSUME IInv, SendInv, EndedInv, OneSender, InTime, [Next]_vars
  PROVE  EndedInv'
<1>1. CASE Next
  <2>1. ASSUME NEW t \in Task, TaskStep(t) PROVE EndedInv'
    BY <2>1, EndedTask
  <2>2. ASSUME NEW j \in Job, JobStep(j) \/ JobFails(j) PROVE EndedInv'
    BY <2>2, EndedThread
  <2>3. CASE Outside
    BY <2>3, EndedSame DEF Outside, Disable, Enable, Arrive, Drain, history
  <2>4. CASE DropBegin
    BY <2>4, EndedSame DEF DropBegin, history
  <2>5. CASE DropFields
    BY <2>5, EndedDropped
  <2> QED BY <1>1, <2>1, <2>2, <2>3, <2>4, <2>5, NextCases
<1>2. CASE UNCHANGED vars
  BY <1>2, EndedSame DEF vars, history
<1> QED BY <1>1, <1>2

(* What goes onto the wire is the data of a call that tries, or of a       *)
(* thread that is to send.                                                 *)
LEMMA TaskWire ==
  ASSUME IInv, NEW t \in Task, TaskStep(t)
  PROVE  wire' = wire \/ (IsSend(fut[t].op) /\ wire' = Append(wire, fut[t].arg))
<1>1. TryReturns(t) => wire' = wire \/ (IsSend(fut[t].op) /\ wire' = Append(wire, fut[t].arg))
  BY DEF TryReturns, SendPacket
<1>2. ASSUME NEW c \in Channel, PollTake(t, c) \/ PollSpawn(t, c) \/ PollPending(t, c) \/ PollReady(t, c)
      PROVE  wire' = wire
  BY <1>2 DEF PollTake, PollSpawn, PollPending, PollReady, history
<1>3. ASSUME \/ AwaitJob(t) \/ AwaitReady(t) \/ CancelBegin(t) \/ CancelTrigger(t)
             \/ CancelEnds(t) \/ Abandon(t)
      PROVE  wire' = wire
  BY <1>3 DEF AwaitJob, AwaitReady, CancelBegin, CancelTrigger, CancelEnds, Abandon, history
<1> QED BY <1>1, <1>2, <1>3 DEF TaskStep, Poll, Await, PollTry, Try, Begin

(* What a step puts onto the wire is not the data of a call that was over. *)
LEMMA EndedIsOver ==
  ASSUME IInv, EndedInv, [Next]_vars, Len(wire') > Len(wire)
  PROVE  wire'[Len(wire')] \notin ended
<1>1. wire \in Seq(1..data) /\ data \in Nat
  BY TypeParts
<1>2. ASSUME NEW d, wire' = Append(wire, d) PROVE wire'[Len(wire')] = d
  BY <1>1, <1>2
<1>3. wire' # wire
  <2>1. Len(wire) \in Nat
    BY <1>1
  <2> QED BY <2>1
<1>4. ASSUME NEW t \in Task, TaskStep(t) PROVE wire'[Len(wire')] \notin ended
  BY <1>2, <1>3, <1>4, TaskWire DEF EndedInv
<1>5. ASSUME NEW j \in Job, JobStep(j) \/ JobFails(j) PROVE wire'[Len(wire')] \notin ended
  BY <1>2, <1>3, <1>5, ThreadBusy DEF EndedInv
<1>6. ~Outside /\ ~DropBegin /\ ~DropFields /\ ~UNCHANGED vars
  BY <1>3 DEF Outside, Disable, Enable, Arrive, Drain, DropBegin, DropFields, vars, history
<1> QED BY <1>4, <1>5, <1>6, NextCases

(* After a send future has been dropped nothing of it is sent any more, if *)
(* its thread sees the cancel event within the 10 ms that the drop waits.  *)
THEOREM CancelledSendStops == OneSender /\ InTime => (Spec => CancelledStops)
<1> SUFFICES ASSUME OneSender, InTime PROVE Spec => CancelledStops
  OBVIOUS
<1>1. Init => IInv /\ SendInv /\ EndedInv
  <2>1. Init => EndedInv
    BY DEF Init, EndedInv, Busy, IsSend, Idle, Free
  <2> QED BY <2>1, InitOk, SendInit
<1>2. IInv /\ SendInv /\ EndedInv /\ [Next]_vars => IInv' /\ SendInv' /\ EndedInv'
  BY StepOk, SendStep, EndedStep
<1>3. IInv /\ EndedInv /\ [Next]_vars =>
        [Len(wire') > Len(wire) => wire'[Len(wire')] \notin ended]_vars
  BY EndedIsOver
<1> QED BY <1>1, <1>2, <1>3, PTL DEF Spec, CancelledStops
=============================================================================
