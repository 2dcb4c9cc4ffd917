---------------------------- MODULE MCRunEngine ----------------------------
(* Small instances of RunEngine for TLC. *)
EXTENDS RunEngine, TLC

CONSTANTS r1, r2, i1, i2, c1, c2, v1, v2

(* One server with a worker and its recovery goroutine, and two of them. *)
OneServer  == [t \in {c1, v1} |-> i1]
TwoServers == (c1 :> i1) @@ (v1 :> i1) @@ (c2 :> i2) @@ (v2 :> i2)

(* Runs are interchangeable; used for safety properties only. *)
RunSymmetry == Permutations(Runs)

(* How often each hazard may occur. *)
Hazard(c, s, f, o, k) ==
  [crash |-> c, stop |-> s, fault |-> f, overrun |-> o, cancel |-> k]
Crashes   == Hazard(1, 1, 0, 0, 0)
Faults    == Hazard(0, 0, 1, 0, 1)
Overlap   == Hazard(0, 0, 0, 1, 1)
Drain     == Hazard(1, 1, 1, 0, 0)
OneCrash  == Hazard(1, 0, 0, 0, 0)
OneCancel == Hazard(0, 0, 0, 0, 1)
=============================================================================
