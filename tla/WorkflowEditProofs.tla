------------------------ MODULE WorkflowEditProofs ------------------------
(***************************************************************************)
(* What WorkflowEdit promises, for any number of requests, runs and steps. *)
(***************************************************************************)
EXTENDS WorkflowEdit, FiniteSetTheorems, TLAPS

USE StepsAssumption, VersionAssumption

-----------------------------------------------------------------------------
(* The step rows of one version: how many there are, and of what type.     *)
LEMMA StepsOfLemma ==
  ASSUME NEW v, NEW n \in Nat
  PROVE  /\ IsFiniteSet(StepsOf(v, n)) /\ Cardinality(StepsOf(v, n)) = n
         /\ n > 0 => StepsOf(v, n) # {}
         /\ n = 0 => StepsOf(v, n) = {}
<1> DEFINE f == [i \in 0 .. n - 1 |-> [index |-> i, version |-> v]]
<1>1. f \in Bijection(0 .. n - 1, StepsOf(v, n))
  <2>1. f \in [0 .. n - 1 -> StepsOf(v, n)]
    BY DEF StepsOf
  <2>2. ASSUME NEW i \in 0 .. n - 1, NEW j \in 0 .. n - 1, f[i] = f[j] PROVE i = j
    <3>1. f[i].index = i /\ f[j].index = j
      OBVIOUS
    <3> QED
      BY <2>2, <3>1
  <2>3. \A s \in StepsOf(v, n) : \E i \in 0 .. n - 1 : f[i] = s
    BY DEF StepsOf
  <2> QED
    BY <2>1, <2>2, <2>3 DEF Bijection, Injection, Surjection, IsInjective
<1>2. IsFiniteSet(0 .. n - 1) /\ Cardinality(0 .. n - 1) = n
  BY FS_Interval
<1>3. ExistsBijection(0 .. n - 1, StepsOf(v, n))
  BY <1>1 DEF ExistsBijection
<1>4. IsFiniteSet(StepsOf(v, n)) /\ Cardinality(StepsOf(v, n)) = n
  BY <1>2, <1>3, FS_Bijection
<1>5. n > 0 => [index |-> 0, version |-> v] \in StepsOf(v, n)
  BY DEF StepsOf
<1>6. n = 0 => StepsOf(v, n) = {}
  BY DEF StepsOf
<1> QED
  BY <1>4, <1>5, <1>6

LEMMA StepsOfType ==
  ASSUME NEW v \in Versions, NEW n \in 0 .. MaxSteps
  PROVE  StepsOf(v, n) \subseteq StepRow
BY DEF StepsOf, StepRow

(* One more row after the first n.                                         *)
LEMMA StepsOfNext ==
  ASSUME NEW v, NEW n \in Nat
  PROVE  StepsOf(v, n + 1) = StepsOf(v, n) \cup {[index |-> n, version |-> v]}
<1>1. 0 .. (n + 1) - 1 = (0 .. n - 1) \cup {n}
  OBVIOUS
<1> QED
  BY <1>1 DEF StepsOf

-----------------------------------------------------------------------------
(* The workflow and the edits.  The lock is held by whoever is between     *)
(* LockRow and the end of its transaction; that transaction has deleted    *)
(* the rows there are and inserted the first of its own.                   *)
EditOK(e) ==
  /\ edit[e] \in {"clearing", "inserting"} <=> lock = e
  /\ lock = e => want[e] > 0 /\ row # Absent
  /\ edit[e] = "inserting" =>
       cleared[e] = steps /\ \E n \in 0 .. want[e] : draft[e] = StepsOf(e, n)
  /\ edit[e] # "inserting" => draft[e] = {} /\ cleared[e] = {}
  /\ edit[e] # "answered" => size[e] = 0

EditType ==
  /\ row \in Versions \cup {Absent}
  /\ lock \in Editors \cup {Absent}
  /\ edit \in [Editors -> {"idle", "checked", "clearing", "inserting", "answered"}]
  /\ want \in [Editors -> 0 .. MaxSteps]
  /\ cleared \in [Editors -> SUBSET StepRow]
  /\ draft \in [Editors -> SUBSET StepRow]
  /\ size \in [Versions -> 0 .. MaxSteps]
  /\ steps \subseteq StepRow

EditInv == EditType /\ StepsWhole /\ \A e \in Editors : EditOK(e)

LEMMA EditInit == Init => EditInv
BY DEF Init, EditInv, EditType, EditOK, StepsWhole, Versions

(* A run's steps leave all of this alone.                                  *)
LEMMA RunLeavesEdits ==
  ASSUME NEW r \in Runs, Run(r)
  PROVE  UNCHANGED <<row, steps, lock, editing, size>>
BY DEF Run, FindWorkflow, CountSteps, InsertRun, Cancel, FetchStatus, FetchStep,
       ExecuteStep, Advance, RetryStep, StepGivenUp

LEMMA EditKept == EditInv /\ UNCHANGED <<row, steps, lock, editing, size>> => EditInv'
BY DEF EditInv, EditType, EditOK, StepsWhole, editing

LEMMA CreateKept ==
  ASSUME EditInv, CreateWorkflow
  PROVE  EditInv'
<1>1. PICK n \in 1 .. MaxSteps : /\ steps' = StepsOf(First, n)
                                 /\ size' = [size EXCEPT ![First] = n]
  BY DEF CreateWorkflow
<1>2. row = Absent /\ row' = First /\ UNCHANGED <<lock, editing>>
  BY DEF CreateWorkflow
<1>3. steps' # {} /\ steps' \subseteq StepRow
  BY <1>1, StepsOfLemma, StepsOfType DEF Versions
<1>4. EditType' /\ StepsWhole'
  BY <1>1, <1>2, <1>3 DEF EditInv, EditType, StepsWhole, Versions, editing
<1>5. \A e \in Editors : EditOK(e)'
  BY <1>1, <1>2 DEF EditInv, EditType, EditOK, Versions, editing
<1> QED
  BY <1>4, <1>5 DEF EditInv

LEMMA EditStep ==
  ASSUME EditInv, NEW e \in Editors, Edit(e)
  PROVE  EditInv'
<1> USE DEF EditInv
<1>1. ASSUME NEW n \in 0 .. MaxSteps, Check(e, n) PROVE EditInv'
  <2>1. /\ UNCHANGED <<row, steps, lock, cleared, draft, size>> /\ edit[e] = "idle"
        /\ want' = [want EXCEPT ![e] = n]
        /\ \/ edit' = [edit EXCEPT ![e] = "checked"]
           \/ edit' = [edit EXCEPT ![e] = "answered"]
    BY <1>1 DEF Check, Admit
  <2>2. EditType' /\ StepsWhole'
    BY <2>1 DEF EditType, StepsWhole
  <2>3. \A d \in Editors : EditOK(d)'
    BY <2>1 DEF EditType, EditOK
  <2> QED
    BY <2>2, <2>3
<1>2. CASE LockRow(e)
  <2>1. EditType' /\ StepsWhole'
    BY <1>2 DEF LockRow, EditType, StepsWhole
  <2>2. \A d \in Editors : EditOK(d)'
    BY <1>2 DEF LockRow, Free, EditType, EditOK
  <2> QED
    BY <2>1, <2>2
<1>3. CASE DeleteSteps(e)
  <2>1. EditType' /\ StepsWhole'
    BY <1>3 DEF DeleteSteps, EditType, StepsWhole
  <2>2. draft[e] = StepsOf(e, 0) /\ 0 \in 0 .. want[e]
    BY <1>3, StepsOfLemma DEF DeleteSteps, EditOK, EditType
  <2>3. \A d \in Editors : EditOK(d)'
    BY <1>3, <2>2 DEF DeleteSteps, EditType, EditOK
  <2> QED
    BY <2>1, <2>3
<1>4. CASE InsertStep(e)
  <2>1. PICK n \in 0 .. want[e] : draft[e] = StepsOf(e, n)
    BY <1>4 DEF InsertStep, EditOK
  <2>2. n \in Nat /\ want[e] \in Nat /\ Cardinality(draft[e]) = n /\ n < want[e]
    BY <1>4, <2>1, StepsOfLemma DEF InsertStep, MoreToInsert, EditType
  <2>3. draft' = [draft EXCEPT ![e] = StepsOf(e, n + 1)]
    BY <1>4, <2>1, <2>2, StepsOfNext DEF InsertStep
  <2>4. StepsOf(e, n + 1) \subseteq StepRow /\ n + 1 \in 0 .. want[e]
    BY <2>2, StepsOfType DEF EditType, Versions
  <2>5. UNCHANGED <<row, steps, lock, edit, want, cleared, size>> /\ edit[e] = "inserting"
    BY <1>4 DEF InsertStep
  <2>6. EditType' /\ StepsWhole'
    BY <2>3, <2>4, <2>5 DEF EditType, StepsWhole
  <2>7. \A d \in Editors : EditOK(d)'
    BY <2>3, <2>4, <2>5 DEF EditType, EditOK
  <2> QED
    BY <2>6, <2>7
<1>5. CASE Commit(e)
  <2>1. PICK n \in 0 .. want[e] : draft[e] = StepsOf(e, n)
    BY <1>5 DEF Commit, EditOK
  <2>2. n \in Nat /\ n = want[e] /\ n > 0 /\ lock = e
    BY <1>5, <2>1, StepsOfLemma DEF Commit, EditType, EditOK
  <2>3. cleared[e] = steps
    BY <1>5 DEF Commit, EditOK
  <2>4. steps' = StepsOf(e, n) /\ steps' # {} /\ steps' \subseteq StepRow
    BY <1>5, <2>1, <2>2, <2>3, StepsOfLemma DEF Commit, After, EditType
  <2>5. /\ row' = e /\ size' = [size EXCEPT ![e] = n] /\ want' = want
        /\ edit' = [edit EXCEPT ![e] = "answered"] /\ lock' = Absent
        /\ cleared' = [cleared EXCEPT ![e] = {}] /\ draft' = [draft EXCEPT ![e] = {}]
    BY <1>5, <2>2 DEF Commit, EndTransaction
  <2>6. EditType' /\ StepsWhole'
    BY <2>2, <2>4, <2>5 DEF EditType, StepsWhole, Versions
  <2>7. \A d \in Editors : EditOK(d)'
    BY <2>2, <2>5 DEF EditType, EditOK, Versions
  <2> QED
    BY <2>6, <2>7
<1>6. CASE GiveUp(e)
  <2>1. /\ UNCHANGED <<row, steps, want, size>> /\ Admitted(e)
        /\ edit' = [edit EXCEPT ![e] = "answered"]
        /\ lock' = IF lock = e THEN Absent ELSE lock
        /\ cleared' = [cleared EXCEPT ![e] = {}] /\ draft' = [draft EXCEPT ![e] = {}]
    BY <1>6 DEF GiveUp, EndTransaction
  <2>2. EditType' /\ StepsWhole'
    BY <2>1 DEF EditType, StepsWhole
  <2>3. \A d \in Editors : EditOK(d)'
    BY <2>1 DEF EditType, EditOK
  <2> QED
    BY <2>2, <2>3
<1>7. CASE DeleteWorkflow(e)
  <2>1. /\ UNCHANGED <<lock, want, cleared, draft, size>> /\ lock = Absent
        /\ edit[e] = "checked" /\ edit' = [edit EXCEPT ![e] = "answered"]
        /\ row' = Absent /\ steps' = {}
    BY <1>7 DEF DeleteWorkflow, Free
  <2>2. EditType' /\ StepsWhole'
    BY <2>1 DEF EditType, StepsWhole
  <2>3. \A d \in Editors : EditOK(d)'
    BY <2>1 DEF EditType, EditOK
  <2> QED
    BY <2>2, <2>3
<1> QED
  BY <1>1, <1>2, <1>3, <1>4, <1>5, <1>6, <1>7 DEF Edit

LEMMA EditNext == EditInv /\ [Next]_vars => EditInv'
<1>1. UNCHANGED vars => UNCHANGED <<row, steps, lock, editing, size>>
  BY DEF vars
<1> QED
  BY <1>1, CreateKept, EditStep, RunLeavesEdits, EditKept DEF Next

-----------------------------------------------------------------------------
(* The runs.  While an edit is admitted, every run that is active or in a  *)
(* worker's hands is one it did not count: later ones see it (InsertRun),  *)
(* earlier ones were over, or missed by its check.                         *)
Involved(r) == Active(r) \/ Busy(r)

RunType ==
  /\ call \in [Runs -> {"idle", "found", "counted", "answered"}]
  /\ status \in [Runs -> {"none", "pending", "running", "completed", "failed", "cancelled"}]
  /\ at \in [Runs -> 0 .. MaxSteps - 1]
  /\ work \in [Runs -> {"waiting", "checked", "found", "executed", "gone"}]
  /\ hand \in [Runs -> StepRow \cup {Absent}]
  /\ done \in [Runs -> SUBSET StepRow]
  /\ uncounted \in [Runs -> BOOLEAN]
  /\ ignored \in [Runs -> BOOLEAN]

RunOK(r) ==
  /\ row = Absent => status[r] = "none"
  /\ call[r] # "answered" =>
       status[r] = "none" /\ work[r] = "waiting" /\ at[r] = 0 /\ done[r] = {}
  /\ work[r] = "found" => hand[r] \in StepRow
  /\ status[r] = "completed" => ~Busy(r)
  /\ (\E e \in Editors : Admitted(e)) /\ Involved(r) => uncounted[r]

RunInv == RunType /\ \A r \in Runs : RunOK(r)

LEMMA RunInit == Init => RunInv
BY DEF Init, RunInv, RunType, RunOK, Involved, Active, Busy

(* A step of one run leaves the other runs alone.                          *)
LEMMA OneRun ==
  ASSUME RunType, NEW r \in Runs, Run(r), NEW q \in Runs, q # r
  PROVE  /\ call'[q] = call[q] /\ status'[q] = status[q] /\ at'[q] = at[q]
         /\ work'[q] = work[q] /\ hand'[q] = hand[q] /\ done'[q] = done[q]
         /\ uncounted'[q] = uncounted[q] /\ ignored'[q] = ignored[q]
BY DEF RunType, Run, FindWorkflow, CountSteps, InsertRun, Cancel, FetchStatus,
       FetchStep, ExecuteStep, Advance, RetryStep, StepGivenUp, working, Set, Go,
       Enqueue

(* What a step of a run does to it, and the types it keeps.                *)
LEMMA RunTypeStep ==
  ASSUME EditInv, RunInv, NEW r \in Runs, Run(r)
  PROVE  RunType' /\ RunOK(r)'
<1> USE DEF RunInv, Go, Enqueue, Set, Stored, Involved, Active, Busy
<1>1. UNCHANGED <<row, steps, lock, editing, size>>
  BY RunLeavesEdits
<1>2. \A e \in Editors : Admitted(e)' = Admitted(e)
  BY <1>1 DEF Admitted, editing
<1>3. steps \subseteq StepRow
  BY DEF EditInv, EditType
<1>4. row = Absent => steps = {}
  BY DEF EditInv, StepsWhole
<1>5. CASE FindWorkflow(r) \/ CountSteps(r)
  BY <1>1, <1>2, <1>5 DEF FindWorkflow, CountSteps, working, RunType, RunOK
<1>6. CASE InsertRun(r)
  BY <1>1, <1>2, <1>6 DEF InsertRun, Referable, RunType, RunOK
<1>7. CASE Cancel(r)
  BY <1>1, <1>2, <1>7 DEF Cancel, working, RunType, RunOK
<1>8. CASE FetchStatus(r)
  BY <1>1, <1>2, <1>8 DEF FetchStatus, RunType, RunOK
<1>9. CASE FetchStep(r)
  BY <1>1, <1>2, <1>3, <1>4, <1>9 DEF FetchStep, RunType, RunOK
<1>10. CASE ExecuteStep(r)
  <2>1. /\ UNCHANGED <<call, at, uncounted>> /\ work[r] = "found" /\ Go(r, "executed")
        /\ Set(r, "running") /\ hand' = [hand EXCEPT ![r] = Absent]
    BY <1>10 DEF ExecuteStep
  <2>2. hand[r] \in StepRow
    BY <2>1 DEF RunOK
  <2>3. done' \in [Runs -> SUBSET StepRow] /\ ignored' \in [Runs -> BOOLEAN]
    <3>1. \/ done' = [done EXCEPT ![r] = done[r] \cup {hand[r]}] /\ ignored' = ignored
          \/ done' = done /\ ignored' = [ignored EXCEPT ![r] = TRUE]
      BY <1>10 DEF ExecuteStep
    <3>2. done[r] \cup {hand[r]} \in SUBSET StepRow
      BY <2>2 DEF RunType
    <3> DEFINE more == done[r] \cup {hand[r]}
    <3>3. more \in SUBSET StepRow => [done EXCEPT ![r] = more] \in [Runs -> SUBSET StepRow]
      BY DEF RunType
    <3> QED
      BY <3>1, <3>2, <3>3 DEF RunType
  <2>4. RunType'
    BY <2>1, <2>3 DEF RunType
  <2>5. RunOK(r)'
    BY <1>1, <1>2, <2>1 DEF RunType, RunOK
  <2> QED
    BY <2>4, <2>5
<1>11. CASE Advance(r)
  <2>1. PICK total \in {Cardinality(steps), 0} :
          /\ ignored' = [ignored EXCEPT ![r] = @ \/ total # Cardinality(steps)]
          /\ \/ /\ at[r] + 1 < total
                /\ at' = [at EXCEPT ![r] = @ + 1]
                /\ Enqueue(r) /\ UNCHANGED status
             \/ Set(r, "completed") /\ Go(r, "gone") /\ UNCHANGED at
    BY <1>11 DEF Advance
  <2>2. UNCHANGED <<call, hand, done, uncounted>> /\ work[r] = "executed"
    BY <1>11 DEF Advance
  <2>3. CASE /\ at[r] + 1 < total
             /\ at' = [at EXCEPT ![r] = @ + 1]
             /\ Enqueue(r) /\ UNCHANGED status
    <3>1. PICK n \in 0 .. MaxSteps : Cardinality(steps) = n
      <4>1. CASE row = Absent
        BY <4>1, <1>4, FS_EmptySet
      <4>2. CASE row # Absent
        BY <4>2, StepsOfLemma DEF EditInv, EditType, StepsWhole
      <4> QED
        BY <4>1, <4>2
    <3>2. at[r] + 1 \in 0 .. MaxSteps - 1
      BY <2>3, <3>1 DEF RunType
    <3> QED
      BY <1>1, <1>2, <2>1, <2>2, <2>3, <3>2 DEF RunType, RunOK
  <2>4. CASE Set(r, "completed") /\ Go(r, "gone") /\ UNCHANGED at
    BY <1>1, <1>2, <2>1, <2>2, <2>4 DEF RunType, RunOK
  <2> QED
    BY <2>1, <2>3, <2>4
<1>12. CASE RetryStep(r)
  BY <1>1, <1>2, <1>12 DEF RetryStep, RunType, RunOK
<1>13. CASE StepGivenUp(r)
  BY <1>1, <1>2, <1>13 DEF StepGivenUp, RunType, RunOK
<1> QED
  BY <1>5, <1>6, <1>7, <1>8, <1>9, <1>10, <1>11, <1>12, <1>13 DEF Run

LEMMA RunStep ==
  ASSUME EditInv, RunInv, NEW r \in Runs, Run(r)
  PROVE  RunInv'
<1>1. RunType' /\ RunOK(r)'
  BY RunTypeStep
<1>2. ASSUME NEW q \in Runs, q # r PROVE RunOK(q)'
  BY <1>2, OneRun, RunLeavesEdits DEF RunInv, RunOK, Involved, Active, Busy,
                                      Admitted, editing
<1> QED
  BY <1>1, <1>2 DEF RunInv

(* An edit is admitted only after it marked the runs involved.             *)
LEMMA EditMarks ==
  ASSUME EditInv, RunInv, NEW e \in Editors, Edit(e)
  PROVE  RunInv'
<1> USE DEF RunInv
<1>1. ASSUME NEW n \in 0 .. MaxSteps, Check(e, n) PROVE RunInv'
  <2>1. UNCHANGED <<row, running>> /\ edit[e] = "idle"
    BY <1>1 DEF Check
  <2>2. \/ /\ edit' = [edit EXCEPT ![e] = "checked"]
           /\ uncounted' = [r \in Runs |-> uncounted[r] \/ Involved(r)]
        \/ edit' = [edit EXCEPT ![e] = "answered"] /\ uncounted' = uncounted
    <3>1. ActiveRuns = {} => \A r \in Runs : Involved(r) <=> Straggling(r)
      BY DEF ActiveRuns, Counted, Involved, Straggling, Active
    <3>2. \A r \in Runs : Involved(r) <=> Active(r) \/ Straggling(r)
      BY DEF Involved, Straggling
    <3> QED
      BY <1>1, <3>1, <3>2 DEF Check, Admit
  <2>3. RunType'
    BY <2>1, <2>2 DEF RunType, running, working
  <2>4. \A d \in Editors : Admitted(d)' => d = e \/ Admitted(d)
    BY <2>2 DEF Admitted, EditInv, EditType
  <2>5. edit' = [edit EXCEPT ![e] = "answered"] => ~Admitted(e)'
    BY DEF Admitted, EditInv, EditType
  <2>6. ASSUME NEW r \in Runs PROVE RunOK(r)'
    BY <2>1, <2>2, <2>4, <2>5 DEF RunOK, Involved, Active, Busy, running, working,
                                  RunType
  <2> QED
    BY <2>3, <2>6
<1>2. ASSUME UNCHANGED <<running, uncounted>>, row' = Absent => row = Absent,
             \A d \in Editors : Admitted(d)' => Admitted(d)
      PROVE  RunInv'
  BY <1>2 DEF RunType, RunOK, Involved, Active, Busy, running, working
<1>3. CASE LockRow(e) \/ DeleteSteps(e) \/ InsertStep(e) \/ Commit(e) \/ GiveUp(e)
  <2>1. UNCHANGED <<running, uncounted>>
    BY <1>3 DEF LockRow, DeleteSteps, InsertStep, Commit, GiveUp
  <2>2. row' = Absent => row = Absent
    BY <1>3 DEF LockRow, DeleteSteps, InsertStep, Commit, GiveUp
  <2>3. \A d \in Editors : Admitted(d)' => Admitted(d)
    BY <1>3 DEF LockRow, DeleteSteps, InsertStep, Commit, GiveUp, EndTransaction,
                Admitted, EditInv, EditType
  <2> QED
    BY <1>2, <2>1, <2>2, <2>3
<1>4. CASE DeleteWorkflow(e)
  <2>1. /\ status' = [r \in Runs |-> "none"]
        /\ done' = [r \in Runs |-> {}]
        /\ UNCHANGED <<call, at, work, hand, ignored, uncounted>>
        /\ \A d \in Editors : Admitted(d)' => Admitted(d)
    BY <1>4 DEF DeleteWorkflow, Admitted, EditInv, EditType
  <2> QED
    BY <2>1 DEF RunType, RunOK, Involved, Active, Busy
<1> QED
  BY <1>1, <1>3, <1>4 DEF Edit

LEMMA RunNext == EditInv /\ RunInv /\ [Next]_vars => RunInv'
<1> SUFFICES ASSUME EditInv, RunInv, [Next]_vars PROVE RunInv'
  OBVIOUS
<1>1. CASE CreateWorkflow
  BY <1>1 DEF CreateWorkflow, RunInv, RunType, RunOK, Involved, Active, Busy,
              Admitted, editing, running, working
<1>2. CASE UNCHANGED vars
  BY <1>2 DEF vars, RunInv, RunType, RunOK, Involved, Active, Busy, Admitted,
              editing, running, working
<1> QED
  BY <1>1, <1>2, EditMarks, RunStep DEF Next

LEMMA WorkflowInv == Spec => [](EditInv /\ RunInv)
BY EditInit, RunInit, EditNext, RunNext, PTL DEF Spec

(* Every state of WorkflowEdit is well typed.                              *)
THEOREM EditTyped == Spec => []TypeOK
<1>1. EditInv /\ RunInv => TypeOK
  BY DEF EditInv, EditType, RunInv, RunType, TypeOK
<1> QED
  BY <1>1, WorkflowInv, PTL

(* The committed steps are those of one version, whatever edits overlap.   *)
THEOREM StepsAreWhole == Spec => []StepsWhole
<1>1. EditInv /\ RunInv => StepsWhole
  BY DEF EditInv
<1> QED
  BY <1>1, WorkflowInv, PTL

(* No run is without its workflow.                                         *)
THEOREM NoOrphanRuns == Spec => []RunsHaveWorkflow
<1>1. EditInv /\ RunInv => RunsHaveWorkflow
  BY DEF RunInv, RunOK, RunsHaveWorkflow
<1> QED
  BY <1>1, WorkflowInv, PTL

(* A run that every admitted edit counted keeps its definition.            *)
THEOREM DefinitionKept == Spec => KeepsDefinition
<1>1. ASSUME EditInv, RunInv, [Next]_vars, NEW r \in Runs, Active(r), ~uncounted[r]
      PROVE  row' = row /\ steps' = steps
  <2>1. row # Absent /\ \A e \in Editors : ~Admitted(e)
    BY <1>1 DEF RunInv, RunOK, Involved, Active
  <2>2. ~CreateWorkflow
    BY <2>1 DEF CreateWorkflow
  <2>3. ASSUME NEW e \in Editors, Edit(e) PROVE row' = row /\ steps' = steps
    BY <2>1, <2>3 DEF Edit, Check, LockRow, DeleteSteps, InsertStep, Commit, GiveUp,
                      DeleteWorkflow, Admitted
  <2>4. UNCHANGED vars => row' = row /\ steps' = steps
    BY DEF vars
  <2> QED
    BY <1>1, <2>2, <2>3, <2>4, RunLeavesEdits DEF Next
<1>2. EditInv /\ RunInv /\ [Next]_vars =>
        [\A r \in Runs : Active(r) /\ ~uncounted[r] => row' = row /\ steps' = steps]_vars
  BY <1>1
<1> QED
  BY <1>2, WorkflowInv, PTL DEF Spec, KeepsDefinition

-----------------------------------------------------------------------------
(* How far a run that every edit counted has come: nothing is recorded but *)
(* steps before the one it is at, and perhaps that one too, of the version *)
(* the workflow has; and as long as no error was ignored, all of them are. *)
(* So what is recorded of a completed one is of one version, and whole.    *)
Underway(r) ==
  /\ at[r] < size[row]
  /\ done[r] \subseteq StepsOf(row, at[r] + 1)
  /\ ignored[r] \/ StepsOf(row, at[r]) \subseteq done[r]
  /\ work[r] = "found" => hand[r] = [index |-> at[r], version |-> row]
  /\ work[r] = "executed" => ignored[r] \/ done[r] = StepsOf(row, at[r] + 1)
Finished(r) ==
  \E v \in Versions : /\ size[v] > 0
                      /\ done[r] \subseteq StepsOf(v, size[v])
                      /\ ignored[r] \/ done[r] = StepsOf(v, size[v])

Progress(r) ==
  ~uncounted[r] =>
    /\ status[r] # "none" /\ Involved(r) => Underway(r)
    /\ status[r] = "completed" => Finished(r)

Inv == EditInv /\ RunInv /\ \A r \in Runs : Progress(r)

(* The steps of the workflow a run belongs to.                             *)
LEMMA WorkflowThere ==
  ASSUME EditInv, RunInv, NEW r \in Runs, status[r] # "none"
  PROVE  /\ row \in Versions /\ size[row] \in Nat /\ size[row] > 0
         /\ steps = StepsOf(row, size[row]) /\ Cardinality(steps) = size[row]
         /\ at[r] \in Nat
<1>1. row \in Versions /\ at[r] \in Nat
  BY DEF EditInv, EditType, RunInv, RunOK, RunType
<1>2. size[row] \in Nat
  BY <1>1 DEF EditInv, EditType
<1>3. steps = StepsOf(row, size[row]) /\ steps # {}
  BY <1>1 DEF EditInv, StepsWhole, Versions
<1> QED
  BY <1>1, <1>2, <1>3, StepsOfLemma

(* The first n rows are among the first m.                                 *)
LEMMA StepsOfMore ==
  ASSUME NEW v, NEW n \in Nat, NEW m \in Nat, n <= m
  PROVE  StepsOf(v, n) \subseteq StepsOf(v, m)
BY DEF StepsOf

(* The steps of the run itself.                                            *)
LEMMA OwnProgress ==
  ASSUME Inv, NEW r \in Runs, Run(r)
  PROVE  Progress(r)'
<1> USE DEF Inv, Go, Enqueue, Set, Stored
<1>1. UNCHANGED <<row, steps, size>> /\ RunInv'
  BY RunLeavesEdits, RunStep
<1>2. CASE FindWorkflow(r) \/ CountSteps(r)
  BY <1>1, <1>2 DEF FindWorkflow, CountSteps, working, Progress, Underway, Finished,
                    Involved, Active, Busy
<1>3. CASE InsertRun(r)
  <2>1. /\ UNCHANGED <<at, hand, done, ignored>>
        /\ status[r] = "none" /\ at[r] = 0 /\ done[r] = {} /\ work[r] = "waiting"
        /\ \/ /\ status' = [status EXCEPT ![r] = "pending"] /\ row # Absent
              /\ work'[r] \in {"waiting", "gone"}
           \/ UNCHANGED <<status, uncounted, work>>
    BY <1>3 DEF InsertRun, Referable, RunInv, RunOK, RunType
  <2>2. CASE UNCHANGED <<status, uncounted, work>>
    BY <2>1, <2>2 DEF Progress
  <2>3. CASE /\ status' = [status EXCEPT ![r] = "pending"] /\ row # Absent
             /\ work'[r] \in {"waiting", "gone"}
    <3>1. status'[r] = "pending"
      BY <2>3 DEF RunInv, RunType
    <3>2. size[row] \in Nat /\ steps = StepsOf(row, size[row]) /\ steps # {}
      BY <2>3 DEF EditInv, EditType, StepsWhole
    <3>3. size[row] > 0 /\ StepsOf(row, at[r]) = {}
      BY <2>1, <3>2, StepsOfLemma
    <3> QED
      BY <1>1, <2>1, <2>3, <3>1, <3>3 DEF Progress, Underway
  <2> QED
    BY <2>1, <2>2, <2>3
<1>4. CASE Cancel(r)
  BY <1>1, <1>4 DEF Cancel, working, Progress, Underway, Involved, Active, Busy,
                    RunInv, RunType
<1>5. CASE FetchStatus(r)
  BY <1>1, <1>5 DEF FetchStatus, Progress, Underway, Finished, Involved, Active, Busy,
                    RunInv, RunType
<1>6. CASE FetchStep(r)
  <2>1. UNCHANGED <<at, done, ignored, uncounted>> /\ work[r] = "checked"
    BY <1>6 DEF FetchStep
  <2>2. CASE \E s \in steps : /\ s.index = at[r]
                              /\ hand' = [hand EXCEPT ![r] = s]
                              /\ Go(r, "found") /\ UNCHANGED status
    <3>1. PICK s \in steps : /\ s.index = at[r] /\ hand' = [hand EXCEPT ![r] = s]
                             /\ Go(r, "found") /\ UNCHANGED status
      BY <2>2
    <3>2. ASSUME status[r] # "none"
          PROVE  s = [index |-> at[r], version |-> row]
      BY <3>1, <3>2, WorkflowThere DEF StepsOf
    <3>3. hand'[r] = s /\ work'[r] = "found"
      BY <3>1 DEF RunInv, RunType
    <3> QED
      BY <1>1, <2>1, <3>1, <3>2, <3>3 DEF Progress, Underway, Finished, Involved, Busy
  <2>3. CASE Set(r, "failed") /\ Go(r, "gone")
    BY <1>1, <2>1, <2>3 DEF Progress, Underway, Finished, Involved, Active, Busy,
                            RunInv, RunType
  <2> QED
    BY <1>6, <2>2, <2>3 DEF FetchStep
<1>7. CASE ExecuteStep(r)
  <2>1. /\ UNCHANGED <<at, uncounted>> /\ work[r] = "found" /\ work'[r] = "executed"
        /\ status'[r] \in {Stored(r, "running"), status[r]}
        /\ \/ done'[r] = done[r] \cup {hand[r]} /\ UNCHANGED ignored
           \/ ignored'[r] /\ UNCHANGED done
    BY <1>7 DEF ExecuteStep, RunInv, RunType
  <2>2. status[r] # "completed"
    BY <2>1 DEF RunInv, RunOK, Busy
  <2>3. CASE status[r] = "none" \/ uncounted[r]
    BY <2>1, <2>2, <2>3 DEF Progress
  <2>4. CASE status[r] # "none" /\ ~uncounted[r]
    <3>1. Underway(r) /\ hand[r] = [index |-> at[r], version |-> row]
      BY <2>1, <2>4 DEF Progress, Involved, Underway, Busy
    <3>2. /\ StepsOf(row, at[r] + 1) = StepsOf(row, at[r]) \cup {hand[r]}
          /\ at[r] \in Nat
      BY <2>4, <3>1, WorkflowThere, StepsOfNext
    <3>3. Underway(r)'
      BY <1>1, <2>1, <3>1, <3>2 DEF Underway
    <3> QED
      BY <2>1, <2>2, <2>4, <3>3 DEF Progress
  <2> QED
    BY <2>3, <2>4
<1>8. CASE Advance(r)
  <2>1. PICK total \in {Cardinality(steps), 0} :
          /\ ignored' = [ignored EXCEPT ![r] = @ \/ total # Cardinality(steps)]
          /\ \/ /\ at[r] + 1 < total
                /\ at' = [at EXCEPT ![r] = @ + 1]
                /\ Enqueue(r) /\ UNCHANGED status
             \/ /\ at[r] + 1 >= total
                /\ Set(r, "completed") /\ Go(r, "gone") /\ UNCHANGED at
    BY <1>8 DEF Advance
  <2>2. UNCHANGED <<done, uncounted>> /\ work[r] = "executed"
    BY <1>8 DEF Advance
  <2>3. status[r] # "completed"
    BY <2>2 DEF RunInv, RunOK, Busy
  <2>4. ignored'[r] <=> ignored[r] \/ total # Cardinality(steps)
    BY <2>1 DEF RunInv, RunType
  <2>5. CASE status[r] = "none" \/ uncounted[r]
    BY <2>1, <2>2, <2>3, <2>5 DEF Progress, RunInv, RunType
  <2>6. CASE status[r] # "none" /\ ~uncounted[r]
    <3>1. Underway(r) /\ (ignored[r] \/ done[r] = StepsOf(row, at[r] + 1))
      BY <2>2, <2>6 DEF Progress, Involved, Underway, Busy
    <3>2. /\ Cardinality(steps) = size[row] /\ size[row] \in Nat /\ size[row] > 0
          /\ row \in Versions /\ at[r] \in Nat /\ at[r] < size[row]
          /\ done[r] \subseteq StepsOf(row, at[r] + 1)
      BY <2>6, <3>1, WorkflowThere DEF Underway
    <3>3. CASE /\ at[r] + 1 < total
               /\ at' = [at EXCEPT ![r] = @ + 1]
               /\ Enqueue(r) /\ UNCHANGED status
      <4>1. at'[r] = at[r] + 1 /\ at[r] + 1 < size[row]
            /\ work'[r] \in {"waiting", "gone"}
        BY <2>1, <3>2, <3>3 DEF RunInv, RunType
      <4>2. StepsOf(row, at[r] + 1) \subseteq StepsOf(row, at'[r] + 1)
        BY <3>2, <4>1, StepsOfMore
      <4> QED
        BY <1>1, <2>2, <2>3, <2>4, <3>1, <3>2, <3>3, <4>1, <4>2
           DEF Progress, Underway
    <3>4. CASE /\ at[r] + 1 >= total
               /\ Set(r, "completed") /\ Go(r, "gone") /\ UNCHANGED at
      <4>1. StepsOf(row, at[r] + 1) \subseteq StepsOf(row, size[row])
        BY <3>2, StepsOfMore
      <4>2. total = Cardinality(steps) => at[r] + 1 = size[row]
        BY <3>2, <3>4
      <4>3. Finished(r)'
        BY <1>1, <2>2, <2>4, <3>1, <3>2, <4>1, <4>2 DEF Finished
      <4>4. Underway(r)'
        BY <1>1, <2>2, <2>4, <3>1, <3>2, <3>4 DEF Underway, RunInv, RunType
      <4> QED
        BY <4>3, <4>4 DEF Progress
    <3> QED
      BY <2>1, <3>3, <3>4
  <2> QED
    BY <2>5, <2>6
<1>9. CASE RetryStep(r)
  BY <1>1, <1>9 DEF RetryStep, Progress, Underway, Finished, Involved, Active, Busy,
                    RunInv, RunType
<1>10. CASE StepGivenUp(r)
  BY <1>1, <1>10 DEF StepGivenUp, Progress, Underway, Finished, Involved, Active, Busy,
                     RunInv, RunType
<1> QED
  BY <1>2, <1>3, <1>4, <1>5, <1>6, <1>7, <1>8, <1>9, <1>10 DEF Run

(* The steps of the other runs, and of the edits.                          *)
LEMMA OthersProgress ==
  ASSUME Inv, NEW r \in Runs, NEW q \in Runs, q # r, Run(q)
  PROVE  Progress(r)'
<1>1. UNCHANGED <<row, steps, size>>
  BY RunLeavesEdits
<1>2. /\ status'[r] = status[r] /\ at'[r] = at[r] /\ work'[r] = work[r]
      /\ hand'[r] = hand[r] /\ done'[r] = done[r] /\ uncounted'[r] = uncounted[r]
      /\ ignored'[r] = ignored[r]
  BY OneRun DEF Inv, RunInv
<1> QED
  BY <1>1, <1>2 DEF Inv, Progress, Underway, Finished, Involved, Active, Busy

LEMMA EditProgress ==
  ASSUME Inv, NEW r \in Runs, NEW e \in Editors, Edit(e)
  PROVE  Progress(r)'
<1> USE DEF Inv
<1>1. uncounted[r] => uncounted'[r]
  BY DEF Edit, Check, LockRow, DeleteSteps, InsertStep, Commit, GiveUp,
         DeleteWorkflow, Admit, RunInv, RunType
<1>2. CASE DeleteWorkflow(e)
  BY <1>2 DEF DeleteWorkflow, Progress
<1>3. CASE Commit(e)
  <2>1. /\ UNCHANGED <<status, working>>
        /\ edit[e] = "inserting" /\ size' = [size EXCEPT ![e] = want[e]]
    BY <1>3 DEF Commit, running
  <2>2. size[e] = 0 /\ e \in Versions
    BY <2>1 DEF EditInv, EditOK, Versions
  <2>3. Involved(r) => uncounted[r]
    BY <2>1 DEF RunInv, RunOK, Admitted
  <2>4. Finished(r) => Finished(r)'
    <3>1. ASSUME NEW v \in Versions, size[v] > 0 PROVE size'[v] = size[v]
      BY <2>1, <2>2, <3>1 DEF EditInv, EditType
    <3> QED
      BY <2>1, <3>1 DEF Finished, working
  <2> QED
    BY <1>1, <2>1, <2>3, <2>4 DEF Progress, Involved, Active, Busy, working
<1>4. CASE \/ \E n \in 0 .. MaxSteps : Check(e, n)
           \/ LockRow(e) \/ DeleteSteps(e) \/ InsertStep(e) \/ GiveUp(e)
  <2>1. UNCHANGED <<row, status, size, working>>
    BY <1>4 DEF Check, LockRow, DeleteSteps, InsertStep, GiveUp, running
  <2> QED
    BY <1>1, <2>1 DEF Progress, Underway, Finished, Involved, Active, Busy, working
<1> QED
  BY <1>2, <1>3, <1>4 DEF Edit

LEMMA ProgressNext == Inv /\ [Next]_vars => Inv'
<1> SUFFICES ASSUME Inv, [Next]_vars, NEW r \in Runs PROVE Progress(r)'
  BY EditNext, RunNext DEF Inv
<1>1. CASE CreateWorkflow
  BY <1>1 DEF CreateWorkflow, Inv, RunInv, RunOK, Progress, running
<1>2. CASE UNCHANGED vars
  BY <1>2 DEF vars, running, working, Inv, Progress, Underway, Finished, Involved,
              Active, Busy
<1> QED
  BY <1>1, <1>2, OwnProgress, OthersProgress, EditProgress DEF Next

LEMMA ProgressInit == Init => Inv
BY EditInit, RunInit DEF Inv, Init, Progress

(* What is recorded of a run that every admitted edit counted are, when it *)
(* completes, the steps of one version: all of them, unless a worker       *)
(* ignored the error of an INSERT or a COUNT.                              *)
THEOREM CompletedRunsWhole == Spec => []CompletedWhole
<1>1. Inv => CompletedWhole
  BY DEF Inv, Progress, Finished, CompletedWhole, RecordOf
<1> QED
  BY <1>1, ProgressInit, ProgressNext, PTL DEF Spec
=============================================================================
