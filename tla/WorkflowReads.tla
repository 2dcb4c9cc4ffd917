--------------------------- MODULE WorkflowReads ---------------------------
(***************************************************************************)
(* Reading a workflow or a run while it changes: WorkflowEdit next to one  *)
(* GET request.                                                            *)
(*                                                                         *)
(*   handler.WorkflowHandler  GetByID, getSteps  internal/handler/workflow.go *)
(*   handler.RunHandler       GetByID                 internal/handler/run.go *)
(*                                                                         *)
(* Both handlers answer with a header row and the detail rows that belong  *)
(* to it - a workflow and its steps, a run and its step executions - read  *)
(* by two statements that are not one transaction.                         *)
(***************************************************************************)
EXTENDS WorkflowEdit, Sequences

CONSTANT Workflow   \* the subject of a request that is not about a run

ASSUME SubjectAssumption == Workflow \notin Runs
ASSUME HeaderAssumption  ==
  Absent \notin {"pending", "running", "completed", "failed", "cancelled"}

VARIABLES
  subject,   \* what the request is about
  turn,      \* statements executed; 3 once the header was not found
  header,    \* the row read: version of the workflow, or status of the run
  details,   \* the step or execution rows read
  answer,    \* "cut" when the connection broke while they were being read
  (* observation *)
  since      \* versions the workflow has had since the header was read

reading   == <<subject, turn, header, details, answer>>
readsVars == <<vars, reading, since>>

ReadsTypeOK ==
  /\ TypeOK
  /\ subject \in Runs \cup {Workflow}
  /\ turn \in 0 .. 3
  /\ header \in Versions \cup {Absent, "pending", "running", "completed", "failed", "cancelled"}
  /\ details \subseteq StepRow /\ answer \in {"whole", "cut"}
  /\ since \subseteq Versions \cup {Absent}

ReadsInit ==
  /\ Init
  /\ subject \in Runs \cup {Workflow}
  /\ turn = 0 /\ header = Absent /\ details = {} /\ answer = "whole" /\ since = {}

(* The header is read first.                                               *)
DetailsFirst == <<"details", "header">>   \* mutant
ReadOrder    == <<"header", "details">>

(* What the statements return; executions are deleted with their run.      *)
HeaderRow ==
  IF subject = Workflow THEN row
  ELSE IF status[subject] = "none" THEN Absent ELSE status[subject]
DetailRows ==
  IF subject = Workflow THEN steps ELSE done[subject]

(* The handlers read rows until Next says no, and do not ask rows.Err()    *)
(* whether that was the end: an answer that broke off looks complete.      *)
(* Both statements order their rows by step_index.                         *)
FirstOf(S) == {T \in SUBSET S : \A s \in T, u \in S \ T : s.index <= u.index}

ReadHeader ==
  /\ ReadOrder[turn + 1] = "header"
  /\ header' = HeaderRow
  /\ turn' = IF HeaderRow = Absent THEN 3 ELSE turn + 1
  /\ since' = {row}
  /\ UNCHANGED <<subject, details, answer>>

ReadDetails ==
  /\ ReadOrder[turn + 1] = "details"
  /\ \/ details' = DetailRows /\ UNCHANGED answer
     \/ details' \in FirstOf(DetailRows) /\ answer' = "cut"
  /\ turn' = turn + 1
  /\ UNCHANGED <<subject, header, since>>

Get == turn < 2 /\ (ReadHeader \/ ReadDetails) /\ UNCHANGED vars

(* Everybody else goes on.                                                 *)
Meanwhile ==
  /\ Next
  /\ since' = IF since # {} /\ turn < 2 THEN since \cup {row'} ELSE since
  /\ UNCHANGED reading

ReadsNext == Get \/ Meanwhile
ReadsSpec == ReadsInit /\ [][ReadsNext]_readsVars

-----------------------------------------------------------------------------
(* Properties.                                                             *)

RowsOf(v) == IF v = Absent THEN {} ELSE StepsOf(v, size[v])

(* An update between the two statements mixes an old header with new steps *)
(* - never a new header with old steps, which a client that compares       *)
(* updated_at would keep for good: the steps answered are those of one     *)
(* version current when the header was read or later, or none if the       *)
(* workflow is gone (GetByID reads the row first); all of them, unless the *)
(* connection broke.                                                       *)
StepsNotOlder ==
  subject = Workflow /\ turn = 2 =>
    \E v \in since : details \subseteq RowsOf(v) /\ (answer = "cut" \/ details = RowsOf(v))

(* A run answered as completed comes with executions of the steps of one   *)
(* version, each of them unless an error was ignored on the way - by the   *)
(* worker (CompletedWhole) or by the handler: workers record executions    *)
(* before they complete the run, and GetByID reads them after the run.     *)
(* (Unless an edit did not count the run, or it was deleted in between.)   *)
CompletedShown ==
  subject \in Runs /\ turn = 2 /\ header = "completed" /\ Absent \notin since =>
    \/ uncounted[subject]
    \/ \E v \in Versions : /\ details \subseteq RowsOf(v)
                           /\ \/ answer = "cut" \/ ignored[subject]
                              \/ details = RowsOf(v)
=============================================================================
