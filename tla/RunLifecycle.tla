---------------------------- MODULE RunLifecycle ----------------------------
(***************************************************************************)
(* What a client of the API may rely on about a run, whatever the workers  *)
(* do: the run starts at step 0, works through its steps one after the     *)
(* other without ever going back, ends once, and the verdict published to  *)
(* its subscribers is the one the row holds.                               *)
(*                                                                         *)
(* This is the promise of docs/PLAN.md ("create run (pending) -> ... ->    *)
(* enqueue next step or complete run"); RunEngine implements it as long as *)
(* nobody cancels, no call fails and no goroutine is overtaken by recovery.*)
(***************************************************************************)
EXTENDS Integers

CONSTANTS Runs, NumSteps

VARIABLES
  status,   \* of the run; "none" before it is created
  step,     \* the step it is at
  verdict   \* what was published about its end, "none" so far

vars == <<status, step, verdict>>

Init ==
  /\ status = [r \in Runs |-> "none"]
  /\ step = [r \in Runs |-> 0]
  /\ verdict = [r \in Runs |-> "none"]

Create(r) ==
  /\ status[r] = "none"
  /\ status' = [status EXCEPT ![r] = "pending"]
  /\ UNCHANGED <<step, verdict>>

(* The first step, another attempt of the step at hand, or the next step. *)
Begin(r, s) ==
  /\ \/ status[r] = "pending" /\ s = 0
     \/ status[r] = "running" /\ s \in {step[r], step[r] + 1}
  /\ s < NumSteps
  /\ status' = [status EXCEPT ![r] = "running"]
  /\ step' = [step EXCEPT ![r] = s]
  /\ UNCHANGED verdict

End(r, v) ==
  /\ status[r] = "running"
  /\ v = "completed" => step[r] = NumSteps - 1
  /\ status' = [status EXCEPT ![r] = v]
  /\ UNCHANGED <<step, verdict>>

Publish(r) ==
  /\ status[r] \in {"completed", "failed"} /\ verdict[r] = "none"
  /\ verdict' = [verdict EXCEPT ![r] = status[r]]
  /\ UNCHANGED <<status, step>>

Next == \E r \in Runs :
  \/ Create(r) \/ Publish(r)
  \/ \E s \in 0 .. NumSteps - 1 : Begin(r, s)
  \/ \E v \in {"completed", "failed"} : End(r, v)

Spec == Init /\ [][Next]_vars
=============================================================================
