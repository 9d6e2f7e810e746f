--------------------------- MODULE BatchDelivery ---------------------------
(***************************************************************************)
(* What a caller of send_multiple may rely on, with no word about how the  *)
(* packets are grouped into buffers: in each call every packet of the      *)
(* batch reaches the kernel at most once, several of them may do so in one *)
(* write, a failed write loses the packets it carried, and the call        *)
(* reports success only if all of them arrived.                            *)
(***************************************************************************)
EXTENDS Naturals

CONSTANTS Sizes  \* the numbers of packets a batch may have

VARIABLES
  batch,      \* the packets of the current (or last) call
  delivered,  \* those the kernel has accepted
  lost,       \* those in failed writes
  running,    \* a call is under way
  result      \* what the last call returned

vars == <<batch, delivered, lost, running, result>>

Init ==
  /\ batch = {}
  /\ delivered = {}
  /\ lost = {}
  /\ running = FALSE
  /\ result = "none"

(* A call starts, or is answered at once. *)
Call(n) ==
  /\ ~running
  /\ batch' = 1..n
  /\ delivered' = {}
  /\ lost' = {}
  /\ \/ running' = TRUE /\ result' = "none"
     \/ running' = FALSE /\ result' = "err"
     \/ running' = FALSE /\ result' = "ok" /\ n = 0

Pending == batch \ (delivered \cup lost)

Deliver(S) ==
  /\ running
  /\ S # {} /\ S \subseteq Pending
  /\ delivered' = delivered \cup S
  /\ UNCHANGED <<batch, lost, running, result>>

(* A failed write; the call may give up with it. *)
Lose(S) ==
  /\ running
  /\ S # {} /\ S \subseteq Pending
  /\ lost' = lost \cup S
  /\ \/ UNCHANGED <<running, result>>
     \/ running' = FALSE /\ result' = "err"
  /\ UNCHANGED <<batch, delivered>>

Return(r) ==
  /\ running
  /\ r = "ok" => delivered = batch
  /\ running' = FALSE
  /\ result' = r
  /\ UNCHANGED <<batch, delivered, lost>>

Next ==
  \/ \E n \in Sizes : Call(n)
  \/ \E S \in SUBSET batch : Deliver(S) \/ Lose(S)
  \/ \E r \in {"ok", "err", "cancelled"} : Return(r)

Spec == Init /\ [][Next]_vars
=============================================================================
