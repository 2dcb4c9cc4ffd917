------------------------------ MODULE MCWSHub ------------------------------
(* Small instances of WSHub for TLC. *)
EXTENDS WSHub, TLC

(* Connections and runs are interchangeable; sound for invariants only. *)
Symmetry == Permutations(Clients) \cup Permutations(Runs)
=============================================================================
