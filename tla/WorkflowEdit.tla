---------------------------- MODULE WorkflowEdit ----------------------------
(***************************************************************************)
(* Editing a workflow while it is being run.                               *)
(*                                                                         *)
(*   handler.WorkflowHandler  Create, Update, Delete                       *)
(*                                            internal/handler/workflow.go *)
(*   handler.RunHandler       Create, Cancel       internal/handler/run.go *)
(*   worker.Pool              processMessage     internal/worker/worker.go *)
(*   foreign keys, cascades     internal/db/migrations/001_init.up.sql     *)
(*                                                                         *)
(* One workflow row with its step rows, requests that update or delete it, *)
(* and runs of it.  Update works in a transaction (read committed): others *)
(* see the old rows until it commits, and the row it updated is locked     *)
(* against other updates and deletes, not against new runs.  The workers   *)
(* read step definitions afresh for every attempt and write the status     *)
(* without a condition.  Any call may fail; a message that is dropped, or  *)
(* that an error keeps from being added, leaves its run with none.  What   *)
(* crashes and recovery do to a run is the subject of RunEngine.           *)
(***************************************************************************)
EXTENDS Integers, FiniteSets

CONSTANTS
  Editors,   \* PUT and DELETE requests, and the versions PUTs write
  Runs,      \* POST requests that create a run, and the runs
  MaxSteps,  \* bound: steps of a workflow
  First,     \* the version the workflow is created with
  Absent     \* no such row

ASSUME StepsAssumption   == MaxSteps \in Nat \ {0}
ASSUME VersionAssumption == First \notin Editors /\ Absent \notin Editors \cup {First}

VARIABLES
  (* PostgreSQL, as committed *)
  row,        \* version of the workflows row
  steps,      \* workflow_steps: [index, version]
  lock,       \* request whose open transaction holds the row, or Absent
  (* Update and Delete: where the request stands, the number of steps it    *)
  (* wants (0: a delete), the step rows its transaction deleted and inserted *)
  edit, want, cleared, draft,
  (* runs: where Create stands, the status column, the step of the message, *)
  (* where the worker stands with it ("waiting": with none; "gone": there is *)
  (* no message), the definition it holds, and what step_executions has for *)
  (* the run, by the definitions executed                                   *)
  call, status, at, work, hand, done,
  (* observations *)
  size,       \* number of steps of each version
  uncounted,  \* an edit was admitted that did not count this run
  ignored     \* the run went on after a failed INSERT of an execution, or COUNT

editing == <<edit, want, cleared, draft>>
working == <<at, work, hand, done, ignored>>
running == <<call, status, working>>
vars    == <<row, steps, lock, editing, running, size, uncounted>>

Versions == Editors \cup {First}
StepRow  == [index : 0 .. MaxSteps - 1, version : Versions]
StepsOf(v, n) == {[index |-> i, version |-> v] : i \in 0 .. n - 1}

OnlyRunning == {"running"}   \* mutant: the check forgets pending runs
Counted     == {"pending", "running"}
Active(r)   == status[r] \in {"pending", "running"}
ActiveRuns  == {r \in Runs : status[r] \in Counted}

(* A worker has taken the run's message, and the run is over by now. *)
Busy(r)       == work[r] \in {"checked", "found", "executed"}
Straggling(r) == Busy(r) /\ ~Active(r)

(* UPDATE workflow_runs: a run that was deleted stays deleted.  The worker *)
(* only logs an error of it.                                               *)
Stored(r, s) == IF status[r] = "none" THEN "none" ELSE s
Set(r, s)    == status' = [status EXCEPT ![r] = Stored(r, s)] \/ UNCHANGED status

(* XADD, whose error the worker ignores. *)
Go(r, place) == work' = [work EXCEPT ![r] = place]
Enqueue(r)   == Go(r, "waiting") \/ Go(r, "gone")

(* An edit that has passed its check and may still write. *)
Admitted(e) == edit[e] \in {"checked", "clearing", "inserting"}

TypeOK ==
  /\ row \in Versions \cup {Absent}
  /\ steps \subseteq StepRow
  /\ lock \in Editors \cup {Absent}
  /\ edit \in [Editors -> {"idle", "checked", "clearing", "inserting", "answered"}]
  /\ want \in [Editors -> 0 .. MaxSteps]
  /\ cleared \in [Editors -> SUBSET StepRow]
  /\ draft \in [Editors -> SUBSET StepRow]
  /\ call \in [Runs -> {"idle", "found", "counted", "answered"}]
  /\ status \in [Runs -> {"none", "pending", "running", "completed", "failed", "cancelled"}]
  /\ at \in [Runs -> 0 .. MaxSteps - 1]
  /\ work \in [Runs -> {"waiting", "checked", "found", "executed", "gone"}]
  /\ hand \in [Runs -> StepRow \cup {Absent}]
  /\ size \in [Versions -> 0 .. MaxSteps]
  /\ done \in [Runs -> SUBSET StepRow]
  /\ uncounted \in [Runs -> BOOLEAN]
  /\ ignored \in [Runs -> BOOLEAN]

Init ==
  /\ row = Absent /\ steps = {} /\ lock = Absent
  /\ edit = [e \in Editors |-> "idle"]
  /\ want = [e \in Editors |-> 0]
  /\ cleared = [e \in Editors |-> {}]
  /\ draft = [e \in Editors |-> {}]
  /\ call = [r \in Runs |-> "idle"]
  /\ status = [r \in Runs |-> "none"]
  /\ at = [r \in Runs |-> 0]
  /\ work = [r \in Runs |-> "waiting"]
  /\ hand = [r \in Runs |-> Absent]
  /\ size = [v \in Versions |-> 0]
  /\ done = [r \in Runs |-> {}]
  /\ uncounted = [r \in Runs |-> FALSE]
  /\ ignored = [r \in Runs |-> FALSE]

-----------------------------------------------------------------------------
(* The step rows as the transaction of e leaves them; who may write the    *)
(* row and who may refer to it.  Mutants first: no lock, no foreign key.   *)
After(e) == (steps \ cleared[e]) \cup draft[e]

AlwaysFree == TRUE
Free       == lock = Absent

NoForeignKey == TRUE
Referable    == row # Absent

(* WorkflowHandler.Create: row and steps in one transaction; nobody can    *)
(* name the workflow before it commits.                                    *)
CreateWorkflow ==
  /\ row = Absent /\ size[First] = 0
  /\ \E n \in 1 .. MaxSteps :
       /\ steps' = StepsOf(First, n)
       /\ size' = [size EXCEPT ![First] = n]
  /\ row' = First
  /\ UNCHANGED <<lock, editing, running, uncounted>>

-----------------------------------------------------------------------------
(* Update and Delete: count the active runs, outside of any transaction.   *)
(* The error of the query is ignored and leaves the count at 0.            *)
Admit(e, missed) ==
  /\ edit' = [edit EXCEPT ![e] = "checked"]
  /\ uncounted' = [r \in Runs |-> uncounted[r] \/ r \in missed]

Check(e, n) ==
  /\ edit[e] = "idle" /\ size[First] > 0
  /\ want' = [want EXCEPT ![e] = n]
  /\ \/ ActiveRuns = {} /\ Admit(e, {r \in Runs : Straggling(r)})
     \/ /\ ActiveRuns # {}
        /\ edit' = [edit EXCEPT ![e] = "answered"]
        /\ UNCHANGED uncounted
     \/ Admit(e, {r \in Runs : Active(r) \/ Straggling(r)})
  /\ UNCHANGED <<row, steps, lock, cleared, draft, running, size>>

(* Update: UPDATE workflows takes the row's lock, or finds no row.         *)
LockRow(e) ==
  /\ edit[e] = "checked" /\ want[e] > 0 /\ Free
  /\ \/ /\ row # Absent
        /\ lock' = e
        /\ edit' = [edit EXCEPT ![e] = "clearing"]
     \/ /\ row = Absent
        /\ edit' = [edit EXCEPT ![e] = "answered"]
        /\ UNCHANGED lock
  /\ UNCHANGED <<row, steps, want, cleared, draft, running, size, uncounted>>

DeleteSteps(e) ==
  /\ edit[e] = "clearing"
  /\ edit' = [edit EXCEPT ![e] = "inserting"]
  /\ cleared' = [cleared EXCEPT ![e] = steps]
  /\ UNCHANGED <<row, steps, lock, want, draft, running, size, uncounted>>

OneTooMany(e)   == Cardinality(draft[e]) <= want[e]   \* mutant
MoreToInsert(e) == Cardinality(draft[e]) < want[e]

InsertStep(e) ==
  /\ edit[e] = "inserting" /\ MoreToInsert(e)
  /\ draft' = [draft EXCEPT ![e] =
       @ \cup {[index |-> Cardinality(draft[e]), version |-> e]}]
  /\ UNCHANGED <<row, steps, lock, edit, want, cleared, running, size, uncounted>>

EndTransaction(e) ==
  /\ edit' = [edit EXCEPT ![e] = "answered"]
  /\ lock' = IF lock = e THEN Absent ELSE lock
  /\ cleared' = [cleared EXCEPT ![e] = {}]
  /\ draft' = [draft EXCEPT ![e] = {}]

Commit(e) ==
  /\ edit[e] = "inserting" /\ Cardinality(draft[e]) = want[e]
  /\ row' = e /\ steps' = After(e)
  /\ size' = [size EXCEPT ![e] = want[e]]
  /\ EndTransaction(e)
  /\ UNCHANGED <<want, running, uncounted>>

(* A call fails or the server dies: the transaction is rolled back. *)
GiveUp(e) ==
  /\ Admitted(e)
  /\ EndTransaction(e)
  /\ UNCHANGED <<row, steps, want, running, size, uncounted>>

(* Delete: one statement; steps, runs and executions go with the row.      *)
DeleteWorkflow(e) ==
  /\ edit[e] = "checked" /\ want[e] = 0 /\ Free
  /\ edit' = [edit EXCEPT ![e] = "answered"]
  /\ row' = Absent /\ steps' = {}
  /\ status' = [r \in Runs |-> "none"]
  /\ done' = [r \in Runs |-> {}]
  /\ UNCHANGED <<lock, want, cleared, draft, call, at, work, hand, ignored, size, uncounted>>

-----------------------------------------------------------------------------
(* RunHandler.Create: look for the workflow, count its steps (an error     *)
(* counts as none), insert the run, add its first message.                 *)
FindWorkflow(r) ==
  /\ call[r] = "idle" /\ size[First] > 0
  /\ call' = [call EXCEPT ![r] = IF row # Absent THEN "found" ELSE "answered"]
  /\ UNCHANGED <<row, steps, lock, editing, status, working, size, uncounted>>

CountSteps(r) ==
  /\ call[r] = "found"
  /\ \/ steps # {} /\ call' = [call EXCEPT ![r] = "counted"]
     \/ call' = [call EXCEPT ![r] = "answered"]
  /\ UNCHANGED <<row, steps, lock, editing, status, working, size, uncounted>>

InsertRun(r) ==
  /\ call[r] = "counted"
  /\ call' = [call EXCEPT ![r] = "answered"]
  /\ \/ /\ Referable
        /\ status' = [status EXCEPT ![r] = "pending"]
        /\ uncounted' = [uncounted EXCEPT ![r] = \E e \in Editors : Admitted(e)]
        /\ Enqueue(r)
     \/ UNCHANGED <<status, uncounted, work>>
  /\ UNCHANGED <<row, steps, lock, editing, at, hand, done, ignored, size>>

Cancel(r) ==
  /\ Active(r)
  /\ status' = [status EXCEPT ![r] = "cancelled"]
  /\ UNCHANGED <<row, steps, lock, editing, call, working, size, uncounted>>

-----------------------------------------------------------------------------
(* processMessage: the status is checked once; a run that is over, or the  *)
(* failure to find out, drops the message.                                 *)
FetchStatus(r) ==
  /\ work[r] = "waiting" /\ status[r] # "none"
  /\ (Active(r) /\ Go(r, "checked")) \/ Go(r, "gone")
  /\ UNCHANGED <<row, steps, lock, editing, call, status, at, hand, done, ignored,
                 size, uncounted>>

(* The definition of the step is looked up.  If there is none, or the      *)
(* query fails, the run fails.                                             *)
FetchStep(r) ==
  /\ work[r] = "checked"
  /\ \/ \E s \in steps :
          /\ s.index = at[r]
          /\ hand' = [hand EXCEPT ![r] = s]
          /\ Go(r, "found") /\ UNCHANGED status
     \/ Set(r, "failed") /\ Go(r, "gone") /\ UNCHANGED hand
  /\ UNCHANGED <<row, steps, lock, editing, call, at, done, ignored, size, uncounted>>

(* Run the action and record the attempt.  That the record is refused (the *)
(* run was deleted) or fails is only logged.                               *)
ExecuteStep(r) ==
  /\ work[r] = "found" /\ Go(r, "executed")
  /\ Set(r, "running")
  /\ \/ /\ status[r] # "none"
        /\ done' = [done EXCEPT ![r] = @ \cup {hand[r]}]
        /\ UNCHANGED ignored
     \/ ignored' = [ignored EXCEPT ![r] = TRUE] /\ UNCHANGED done
  /\ hand' = [hand EXCEPT ![r] = Absent]
  /\ UNCHANGED <<row, steps, lock, editing, call, at, size, uncounted>>

(* The step succeeded: the next one is asked for, or the run is complete.  *)
(* A COUNT that fails leaves the number of steps at 0.                     *)
Advance(r) ==
  /\ work[r] = "executed"
  /\ \E total \in {Cardinality(steps), 0} :
       /\ ignored' = [ignored EXCEPT ![r] = @ \/ total # Cardinality(steps)]
       /\ \/ /\ at[r] + 1 < total
             /\ at' = [at EXCEPT ![r] = @ + 1]
             /\ Enqueue(r) /\ UNCHANGED status
          \/ /\ at[r] + 1 >= total
             /\ Set(r, "completed") /\ Go(r, "gone") /\ UNCHANGED at
  /\ UNCHANGED <<row, steps, lock, editing, call, hand, done, size, uncounted>>

(* The step failed: it is tried again if the run is still active, or the   *)
(* run fails, or - it is over, the pool stops, a query fails - nothing     *)
(* more happens to it.                                                     *)
RetryStep(r) ==
  /\ work[r] = "executed" /\ Active(r)
  /\ Enqueue(r)
  /\ UNCHANGED <<row, steps, lock, editing, call, status, at, hand, done, ignored,
                 size, uncounted>>

StepGivenUp(r) ==
  /\ work[r] = "executed" /\ Go(r, "gone")
  /\ Set(r, "failed")
  /\ UNCHANGED <<row, steps, lock, editing, call, at, hand, done, ignored, size, uncounted>>

-----------------------------------------------------------------------------
Edit(e) ==
  \/ \E n \in 0 .. MaxSteps : Check(e, n)
  \/ LockRow(e) \/ DeleteSteps(e) \/ InsertStep(e) \/ Commit(e) \/ GiveUp(e)
  \/ DeleteWorkflow(e)

Run(r) ==
  \/ FindWorkflow(r) \/ CountSteps(r) \/ InsertRun(r) \/ Cancel(r)
  \/ FetchStatus(r) \/ FetchStep(r) \/ ExecuteStep(r)
  \/ Advance(r) \/ RetryStep(r) \/ StepGivenUp(r)

Next ==
  \/ CreateWorkflow
  \/ \E e \in Editors : Edit(e)
  \/ \E r \in Runs : Run(r)

Spec == Init /\ [][Next]_vars

-----------------------------------------------------------------------------
(* Properties.                                                             *)

(* Whatever edits overlap, the committed steps are those of one version,   *)
(* numbered from 0 without a gap, and go with the row: transactions and    *)
(* the row's lock keep two updates, or an update and a delete, apart.      *)
StepsWhole ==
  IF row = Absent THEN steps = {} ELSE steps = StepsOf(row, size[row]) /\ steps # {}

(* No run is left without its workflow, however creation and deletion      *)
(* overlap (foreign key and cascade).                                      *)
RunsHaveWorkflow == row = Absent => \A r \in Runs : status[r] = "none"

(* A run keeps its definition: unless an edit was admitted that did not    *)
(* count it (it was created after the check, was over but still had a      *)
(* worker, or the count failed), nothing changes or deletes the workflow   *)
(* of an active run (the check in Update and Delete).                      *)
KeepsDefinition ==
  [][\A r \in Runs : Active(r) /\ ~uncounted[r] => row' = row /\ steps' = steps]_vars

(* ... and what is recorded of such a run, when it completes, are the      *)
(* steps of one version and nothing else: each of them, or, if the worker  *)
(* went on after a failed INSERT of an execution or took a failed COUNT    *)
(* for "no more steps" (processMessage), some of them.                     *)
RecordOf(S, r) ==
  \E v \in Versions : /\ S \subseteq StepsOf(v, size[v])
                      /\ ignored[r] \/ S = StepsOf(v, size[v])
CompletedWhole ==
  \A r \in Runs : status[r] = "completed" /\ ~uncounted[r] => RecordOf(done[r], r)

-----------------------------------------------------------------------------
(* What the handlers say of themselves.                                    *)

(* "Cannot update workflow with active runs" (workflow.go:226). *)
NoUpdateWhileActive ==
  [][(\E r \in Runs : Active(r)) => row' \in {row, Absent}]_vars

(* "Cannot delete workflow with active runs" (workflow.go:319). *)
NoDeleteWhileActive ==
  [][(\E r \in Runs : Active(r)) => row' # Absent]_vars
=============================================================================
