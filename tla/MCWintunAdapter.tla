-------------------------- MODULE MCWintunAdapter --------------------------
(* Small instances of WintunAdapter for the model checker. *)
EXTENDS WintunAdapter, TLC

(* Threads of one kind are interchangeable; used in safety runs only. *)
Threads == Permutations(Worker) \cup Permutations(Controller)
=============================================================================
