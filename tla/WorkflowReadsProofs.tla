------------------------ MODULE WorkflowReadsProofs ------------------------
(***************************************************************************)
(* What a GET request is answered while the workflow or the run changes,   *)
(* for any number of requests, runs and steps; from WorkflowEditProofs.    *)
(***************************************************************************)
EXTENDS WorkflowReads, WorkflowEditProofs

USE VersionAssumption, SubjectAssumption, HeaderAssumption

-----------------------------------------------------------------------------
(* The reader changes nothing that WorkflowEdit keeps.                     *)
LEMMA ReadsStep == [ReadsNext]_readsVars => [Next]_vars
BY DEF ReadsNext, Get, Meanwhile, readsVars

LEMMA ReadsInv == ReadsSpec => []Inv
<1>1. ReadsInit => Inv
  BY ProgressInit DEF ReadsInit
<1> QED
  BY <1>1, ReadsStep, ProgressNext, PTL DEF ReadsSpec

-----------------------------------------------------------------------------
(* Between the statements the versions the workflow takes are noted; what  *)
(* has once been a version stays as it is.                                 *)
Noted ==
  /\ turn \in 0 .. 3
  /\ header # Absent => turn \in {1, 2}
  /\ turn = 1 => row \in since
  /\ \A v \in since : v = Absent \/ (v \in Versions /\ size[v] > 0)
  /\ header # Absent /\ subject \in Runs => call[subject] = "answered"

(* A run answered as completed has not changed before the second statement.*)
StillCompleted ==
  subject \in Runs /\ turn = 1 /\ header = "completed" /\ Absent \notin since =>
    status[subject] = "completed"

Shown ==
  subject \in Runs /\ turn = 2 /\ header = "completed" /\ Absent \notin since =>
    \/ uncounted[subject]
    \/ \E v \in Versions : /\ size[v] > 0 /\ details \subseteq RowsOf(v)
                           /\ answer = "cut" \/ ignored[subject] \/ details = RowsOf(v)

ReadInv == Noted /\ StillCompleted /\ StepsNotOlder /\ Shown
           /\ subject \in Runs \cup {Workflow}

(* A version that has steps keeps them.                                    *)
LEMMA SizeKept ==
  ASSUME EditInv, [Next]_vars, NEW v \in Versions, size[v] > 0
  PROVE  size'[v] = size[v]
<1>1. CASE CreateWorkflow
  BY <1>1 DEF CreateWorkflow, EditInv, EditType
<1>2. ASSUME NEW e \in Editors, Edit(e) PROVE size'[v] = size[v]
  <2>1. CASE Commit(e)
    BY <2>1 DEF Commit, EditInv, EditType, EditOK, Versions
  <2> QED
    BY <1>2, <2>1 DEF Edit, Check, LockRow, DeleteSteps, InsertStep, GiveUp,
                      DeleteWorkflow
<1>3. UNCHANGED vars => size' = size
  BY DEF vars
<1> QED
  BY <1>1, <1>2, <1>3, RunLeavesEdits DEF Next

(* An edit that missed a run is not forgotten once the run exists, nor is  *)
(* an error that was ignored; and a completed run stays completed, unless  *)
(* its workflow is deleted.                                                *)
LEMMA CompletedKept ==
  ASSUME Inv, [Next]_vars, NEW r \in Runs, call[r] = "answered"
  PROVE  /\ call'[r] = "answered" /\ (uncounted[r] => uncounted'[r])
         /\ ignored[r] => ignored'[r]
         /\ status[r] = "completed" => status'[r] = "completed" \/ row' = Absent
<1> USE DEF Inv, RunInv, RunType
<1>1. status[r] = "completed" => ~Busy(r)
  BY DEF RunOK
<1> DEFINE Kept == /\ call'[r] = "answered" /\ (uncounted[r] => uncounted'[r])
                   /\ ignored[r] => ignored'[r]
                   /\ status[r] = "completed" =>
                        status'[r] = "completed" \/ row' = Absent
<1>2. CASE CreateWorkflow \/ UNCHANGED vars
  BY <1>2 DEF CreateWorkflow, vars, running, working
<1>3. ASSUME NEW e \in Editors, Edit(e) PROVE Kept
  BY <1>3 DEF Edit, Check, Admit, LockRow, DeleteSteps, InsertStep, Commit, GiveUp,
              DeleteWorkflow, running, working
<1>4. ASSUME NEW q \in Runs, Run(q) PROVE Kept
  <2>1. CASE q # r
    BY <1>4, <2>1, OneRun
  <2>2. CASE q = r
    BY <1>1, <1>4, <2>2 DEF Run, FindWorkflow, CountSteps, InsertRun, Cancel,
         FetchStatus, FetchStep, ExecuteStep, Advance, RetryStep, StepGivenUp,
         working, Active, Busy, Set
  <2> QED
    BY <2>1, <2>2
<1> QED
  BY <1>2, <1>3, <1>4 DEF Next

(* Everybody else's steps.                                                 *)
LEMMA MeanwhileKeeps ==
  ASSUME Inv, Inv', ReadInv, Meanwhile
  PROVE  ReadInv'
<1> USE DEF ReadInv
<1>1. UNCHANGED <<subject, turn, header, details, answer>> /\ [Next]_vars
  BY DEF Meanwhile, reading
<1>2. since' = since \/ (since' = since \cup {row'} /\ turn < 2)
  BY DEF Meanwhile
<1>3. turn = 1 => since' = since \cup {row'}
  BY DEF Meanwhile, Noted
<1>4. row' = Absent \/ (row' \in Versions /\ size'[row'] > 0)
  BY StepsOfLemma DEF Inv, EditInv, EditType, StepsWhole
<1>5. \A v \in Versions : size[v] > 0 => size'[v] = size[v]
  BY <1>1, SizeKept DEF Inv
<1>6. Noted'
  BY <1>1, <1>2, <1>3, <1>4, <1>5, CompletedKept DEF Noted
<1>7. StillCompleted'
  BY <1>1, <1>3, CompletedKept DEF StillCompleted, Noted
<1>8. StepsNotOlder'
  BY <1>1, <1>2, <1>5 DEF StepsNotOlder, Noted, RowsOf
<1>9. Shown'
  <2> SUFFICES ASSUME subject \in Runs, turn = 2, header = "completed",
                      Absent \notin since, ~uncounted'[subject]
               PROVE  \E v \in Versions :
                        /\ size'[v] > 0 /\ details' \subseteq RowsOf(v)'
                        /\ answer' = "cut" \/ ignored'[subject] \/ details' = RowsOf(v)'
    BY <1>1, <1>2 DEF Shown
  <2>1. ~uncounted[subject] /\ (ignored[subject] => ignored'[subject])
    BY <1>1, CompletedKept DEF Noted
  <2>2. PICK v \in Versions :
          /\ size[v] > 0 /\ details \subseteq RowsOf(v)
          /\ answer = "cut" \/ ignored[subject] \/ details = RowsOf(v)
    BY <2>1 DEF Shown
  <2>3. size'[v] > 0 /\ RowsOf(v)' = RowsOf(v)
    BY <1>5, <2>2 DEF RowsOf, StepsOf
  <2> QED
    BY <1>1, <2>1, <2>2, <2>3 DEF RowsOf
<1> QED
  BY <1>1, <1>6, <1>7, <1>8, <1>9

(* The statements of the GET.                                              *)
LEMMA GetKeeps ==
  ASSUME Inv, ReadInv, Get
  PROVE  ReadInv'
<1> USE DEF ReadInv
<1>1. /\ UNCHANGED <<row, steps, call, status, size, done, uncounted, ignored>>
      /\ UNCHANGED subject /\ turn < 2
  BY DEF Get, ReadHeader, ReadDetails, vars, running, working
<1>2. row = Absent \/ (row \in Versions /\ size[row] > 0)
  BY StepsOfLemma DEF Inv, EditInv, EditType, StepsWhole
<1>3. CASE ReadHeader
  <2>1. turn = 0 /\ header' = HeaderRow /\ since' = {row}
        /\ turn' = IF HeaderRow = Absent THEN 3 ELSE 1
    BY <1>1, <1>3 DEF ReadHeader, ReadOrder, Noted
  <2>2. subject \in Runs /\ HeaderRow # Absent =>
          call[subject] = "answered" /\ HeaderRow = status[subject]
    BY DEF HeaderRow, Inv, RunInv, RunOK
  <2> QED
    BY <1>1, <1>2, <2>1, <2>2 DEF Noted, StillCompleted, StepsNotOlder, Shown
<1>4. CASE ReadDetails
  <2>1. /\ turn = 1 /\ turn' = 2 /\ UNCHANGED <<header, since>>
        /\ details' \subseteq DetailRows /\ (answer' = "cut" \/ details' = DetailRows)
    BY <1>1, <1>4 DEF ReadDetails, ReadOrder, FirstOf, Noted
  <2>2. subject = Workflow => row \in since /\ DetailRows = RowsOf(row)'
    BY <1>1, <2>1 DEF DetailRows, RowsOf, Noted, Inv, EditInv, StepsWhole
  <2>3. ASSUME subject \in Runs, header = "completed", Absent \notin since,
               ~uncounted[subject]
        PROVE  \E v \in Versions :
                 /\ size[v] > 0 /\ details' \subseteq RowsOf(v)
                 /\ answer' = "cut" \/ ignored[subject] \/ details' = RowsOf(v)
    <3>1. status[subject] = "completed" /\ DetailRows = done[subject]
      BY <2>1, <2>3 DEF StillCompleted, DetailRows
    <3>2. PICK v \in Versions :
            /\ size[v] > 0 /\ done[subject] \subseteq StepsOf(v, size[v])
            /\ ignored[subject] \/ done[subject] = StepsOf(v, size[v])
      BY <2>3, <3>1 DEF Inv, Progress, Finished
    <3> QED
      BY <2>1, <3>1, <3>2 DEF RowsOf, Versions
  <2>4. StepsNotOlder'
    BY <1>1, <2>1, <2>2 DEF StepsNotOlder
  <2>5. Shown'
    BY <1>1, <2>1, <2>3 DEF Shown, RowsOf
  <2> QED
    BY <1>1, <2>1, <2>4, <2>5 DEF Noted, StillCompleted
<1> QED
  BY <1>3, <1>4 DEF Get

LEMMA ReadNext == Inv /\ Inv' /\ ReadInv /\ [ReadsNext]_readsVars => ReadInv'
<1>1. ASSUME ReadInv, UNCHANGED readsVars PROVE ReadInv'
  <2>1. /\ UNCHANGED <<row, call, status, size, uncounted, ignored, since>>
        /\ UNCHANGED reading
    BY <1>1 DEF readsVars, vars, running, working
  <2>2. \A v : RowsOf(v)' = RowsOf(v)
    BY <2>1 DEF RowsOf
  <2>3. Noted' /\ StillCompleted' /\ StepsNotOlder'
    BY <1>1, <2>1, <2>2 DEF reading, ReadInv, Noted, StillCompleted, StepsNotOlder
  <2>4. Shown'
    BY <1>1, <2>1, <2>2 DEF reading, ReadInv, Shown
  <2> QED
    BY <1>1, <2>1, <2>3, <2>4 DEF reading, ReadInv
<1> QED
  BY <1>1, GetKeeps, MeanwhileKeeps DEF ReadsNext

LEMMA ReadsInvariant == ReadsSpec => [](Inv /\ ReadInv)
<1>1. ReadsInit => ReadInv
  BY DEF ReadsInit, ReadInv, Noted, StillCompleted, StepsNotOlder, Shown
<1> QED
  BY <1>1, ReadsInv, ReadNext, PTL DEF ReadsSpec

(* The steps a GET of the workflow is answered are those of one version,   *)
(* and of none older than the header it comes with; all of them, unless    *)
(* the connection broke while they were read.                              *)
THEOREM AnswersNotOlder == ReadsSpec => []StepsNotOlder
BY ReadsInvariant, PTL DEF ReadInv

(* A run that is answered as completed is answered with executions of one  *)
(* version of the workflow, and with one of each step unless the error of  *)
(* a worker's INSERT or COUNT, or of the reading itself, was ignored.      *)
THEOREM CompletedRunsShown == ReadsSpec => []CompletedShown
<1>1. ReadInv => CompletedShown
  BY DEF ReadInv, Shown, CompletedShown
<1> QED
  BY <1>1, ReadsInvariant, PTL

-----------------------------------------------------------------------------
(* Whatever moment the statements hit, the answer is a header and rows of  *)
(* the right kind.                                                         *)
THEOREM ReadsTyped == ReadsSpec => []ReadsTypeOK
<1>1. Inv => TypeOK
  BY DEF Inv, EditInv, EditType, RunInv, RunType, TypeOK
<1>2. ReadsInit /\ Inv => ReadsTypeOK
  BY <1>1 DEF ReadsInit, ReadsTypeOK
<1>3. ASSUME Inv, Inv', ReadsTypeOK, [ReadsNext]_readsVars
      PROVE  ReadsTypeOK'
  <2>1. TypeOK /\ TypeOK'
    BY <1>3 DEF Inv, EditInv, EditType, RunInv, RunType, TypeOK
  <2>2. CASE ReadHeader /\ turn < 2
    <3>1. HeaderRow \in Versions \cup {Absent, "pending", "running", "completed",
                                       "failed", "cancelled"}
      BY <1>3, <2>1 DEF HeaderRow, ReadsTypeOK, TypeOK
    <3> QED
      BY <1>3, <2>1, <2>2, <3>1 DEF ReadHeader, ReadsTypeOK, TypeOK
  <2>3. CASE ReadDetails /\ turn < 2
    <3>1. DetailRows \subseteq StepRow
      BY <1>3, <2>1 DEF DetailRows, ReadsTypeOK, TypeOK
    <3> QED
      BY <1>3, <2>1, <2>3, <3>1 DEF ReadDetails, FirstOf, ReadsTypeOK
  <2>4. CASE Meanwhile
    BY <1>3, <2>1, <2>4 DEF Meanwhile, reading, ReadsTypeOK, TypeOK
  <2>5. CASE UNCHANGED readsVars
    BY <1>3, <2>1, <2>5 DEF readsVars, reading, ReadsTypeOK
  <2> QED
    BY <1>3, <2>2, <2>3, <2>4, <2>5 DEF ReadsNext, Get
<1> QED
  BY <1>2, <1>3, ReadsInv, PTL DEF ReadsSpec
=============================================================================
