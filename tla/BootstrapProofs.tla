---------------------------- MODULE BootstrapProofs ----------------------------
(***************************************************************************)
(* Proofs about the bootstrap service, for any number of steps, flags and  *)
(* faults.                                                                 *)
(*                                                                         *)
(* The argument is write-ahead: a step runs only while it is recorded as   *)
(* running, in memory and on disk, and a deploy has in memory exactly the  *)
(* successes that the files record.                                        *)
(***************************************************************************)
EXTENDS Bootstrap, TLAPS

Stepping == InStep \cup {"steps"}

Marked == /\ pc \in InStep => mem[cursor] = "running"
          /\ pc = "run" => primary = Saved(mem)

Restarted == pc \in {"clear", "clearLegacy"} => opts.restart = "yes"

(* A deploy starts from nothing, or from what the files record.            *)
Blank == /\ pc \in {"validate", "clear", "clearLegacy"} => mem = NoSteps
         /\ pc = "clearLegacy" => primary = Missing

InMemory == pc \in Stepping =>
              \A s \in Step : Recorded(s) <=> mem[s] = "success"

IInv == TypeOK /\ Marked /\ Restarted /\ Blank /\ InMemory

(* Without a legacy file and a destroy, what is recorded is done.          *)
Undisturbed == destroys = 0 /\ origin = "new"

RecordsDone ==
  Undisturbed =>
    /\ legacy = Missing
    /\ \A s \in Step : primary.steps[s] = "success" => s \in done
    /\ pc # "idle" => \A s \in Step : mem[s] = "success" => s \in done
    /\ pc = "completed" => cursor \in done

USE StepAssumption, InvocationAssumption, BoundAssumption
USE DEF Step, Before, InStep, After, Fine, Fault, Constant
------------------------------------------------------------------------------
(* The files a deploy writes are files.                                    *)
LEMMA FileType ==
  /\ NoSteps \in [Step -> Status]
  /\ Missing \in File
  /\ Torn \in File
  /\ \A m \in [Step -> Status] : Saved(m) \in File
  /\ \A f \in File : f.steps \in [Step -> Status]
<1>1. NoSteps \in [Step -> Status]
  BY DEF NoSteps, Status
<1> QED
  BY <1>1 DEF Missing, Torn, Saved, File

(* The states an older release left are states.                            *)
LEMMA OldType == \A k \in 0..N : OldState(k) \in [Step -> Status]
BY DEF OldState, Status

(* A missing or torn file records nothing.                                 *)
LEMMA NothingRecorded ==
  \A s \in Step : Missing.steps[s] # "success" /\ Torn.steps[s] # "success"
BY DEF Missing, Torn, NoSteps

(* What setStepStatus does to the state, and the file that it saves.       *)
LEMMA SetStatusType ==
  ASSUME mem \in [Step -> Status], cursor \in Step,
         NEW status \in Status, SetStatus(status)
  PROVE  /\ mem' \in [Step -> Status]
         /\ primary' = Saved(mem')
         /\ primary' \in File
         /\ mem'[cursor] = status
         /\ \A s \in Step : s # cursor => mem'[s] = mem[s]
BY FileType DEF SetStatus

(* The flags select an interval of the steps.                              *)
LEMMA SelectType ==
  ASSUME opts \in Flags, Known
  PROVE  First \in 1..N+1 /\ Last \in 0..N
BY DEF Flags, Known, First, Last

LEMMA InitIInv == Init => IInv
<1> SUFFICES ASSUME Init PROVE IInv
  OBVIOUS
<1>1. legacy \in File /\ done \subseteq Step
  <2>1. CASE legacy = Missing /\ done = {}
    BY <2>1, FileType
  <2>2. CASE \E k \in OldRuns : legacy = Saved(OldState(k)) /\ done = 1..k
    BY <2>2, FileType, OldType, OldRunsAssumption
  <2> QED
    BY <2>1, <2>2 DEF Init
<1>2. opts \in Flags
  BY DEF Init, Plain, Flags
<1>3. TypeOK
  BY <1>1, <1>2, FileType DEF Init, TypeOK
<1> QED
  BY <1>3 DEF Init, IInv, Marked, Restarted, Blank, InMemory, Stepping

LEMMA TypeNext == IInv /\ [Next]_vars => TypeOK'
<1> SUFFICES ASSUME IInv, [Next]_vars PROVE TypeOK'
  OBVIOUS
<1>0. TypeOK
  BY DEF IInv
<1> USE <1>0 DEF TypeOK, Goto, ReturnError, files, deploy, budget
<1>1. ASSUME NEW f \in Invocations, Start(f) PROVE TypeOK'
  BY <1>1, FileType DEF Start
<1>2. CASE Validate \/ LoadFails \/ StepsDone \/ WaitForReady \/ Finish
  <2>1. faults' \in 0..MaxFaults
    BY <1>2 DEF Validate, LoadFails, StepsDone, WaitForReady, Finish
  <2> QED
    BY <1>2, <2>1 DEF Validate, LoadFails, StepsDone, WaitForReady, Finish
<1>3. CASE Clear \/ Remove \/ RemoveLegacy
  <2>1. faults' \in 0..MaxFaults
    BY <1>3 DEF Clear, Remove, RemoveLegacy
  <2>2. primary' \in File /\ legacy' \in File
    BY <1>3, FileType DEF Clear, Remove, RemoveLegacy
  <2> QED
    BY <1>3, <2>1, <2>2 DEF Clear, Remove, RemoveLegacy
<1>4. ASSUME SelectSteps
      PROVE  cursor' \in 1..N+1 /\ last' \in 0..N /\ pc' \in {"steps", "idle"}
  BY <1>4, SelectType DEF SelectSteps
<1>5. CASE ClearLegacy
  BY <1>4, <1>5, FileType DEF ClearLegacy
<1>6. CASE Load
  <2>1. mem' \in [Step -> Status]
    BY <1>6, FileType DEF Load, StateOf, Resumed
  <2> QED
    BY <1>4, <1>6, <2>1 DEF Load
<1>7. CASE Skip
  BY <1>7 DEF Skip, NextStep
<1>8. CASE MarkRunning \/ RecordSuccess \/ RecordFailure
  <2>1. cursor \in Step /\ cursor <= last
    BY <1>8 DEF MarkRunning, RecordSuccess, RecordFailure
  <2>2. PICK status \in Status : SetStatus(status)
    BY <1>8 DEF MarkRunning, RecordSuccess, RecordFailure, Status
  <2>3. mem' \in [Step -> Status] /\ primary' \in File
    BY <2>1, <2>2, SetStatusType
  <2>4. cursor' \in 1..N+1 /\ (pc' \in InStep => cursor' <= last')
    BY <1>8, <2>1 DEF MarkRunning, RecordSuccess, RecordFailure, NextStep
  <2>5. pc' \in {"run", "steps", "idle"}
    BY <1>8 DEF MarkRunning, RecordSuccess, RecordFailure
  <2>6. /\ legacy' = legacy /\ done' = done /\ opts' = opts /\ last' = last
        /\ faults' = faults /\ destroys' = destroys /\ origin' = origin
    BY <1>8 DEF MarkRunning, RecordSuccess, RecordFailure
  <2> QED
    BY <2>3, <2>4, <2>5, <2>6
<1>9. CASE RunSucceeds \/ RunFails
  <2>1. cursor \in Step
    BY <1>9 DEF RunSucceeds, RunFails
  <2>2. done' \subseteq Step
    <3>1. CASE RunSucceeds
      BY <2>1, <3>1 DEF RunSucceeds
    <3>2. CASE RunFails
      BY <3>2 DEF RunFails
    <3> QED
      BY <1>9, <3>1, <3>2
  <2> QED
    BY <1>9, <2>1, <2>2 DEF RunSucceeds, RunFails
<1>10. CASE SaveFails
  <2>1. primary' \in File
    BY <1>10, FileType DEF SaveFails
  <2> QED
    BY <1>10, <2>1 DEF SaveFails
<1>11. CASE Crash
  <2>1. primary' \in File
    BY <1>11, FileType DEF Crash
  <2>2. done' \subseteq Step
    BY <1>11 DEF Crash
  <2>3. faults' \in 0..MaxFaults
    BY <1>11 DEF Crash
  <2> QED
    BY <1>11, <2>1, <2>2, <2>3 DEF Crash
<1>12. CASE Destroy
  BY <1>12, FileType DEF Destroy
<1>13. CASE UNCHANGED vars
  BY <1>13 DEF vars
<1> QED
  BY <1>1, <1>2, <1>3, <1>5, <1>6, <1>7, <1>8, <1>9, <1>10, <1>11, <1>12, <1>13
     DEF Next, Proceed

(* The rest of IInv, and the step property, action by action.              *)
Progress == \A s \in Step :
              /\ ~IgnoresState
              /\ pc \notin {"idle", "remove", "removeLegacy"}
              /\ Recorded(s)
              => (Recorded(s))' \/ primary' = Torn

LEMMA SaveNext ==
  ASSUME IInv, MarkRunning \/ RecordSuccess \/ RecordFailure
  PROVE  Marked' /\ InMemory' /\ Progress
<1> USE DEF Goto, ReturnError, budget
<1>1. /\ cursor \in Step /\ mem \in [Step -> Status]
      /\ pc \in Stepping /\ opts' = opts
  BY DEF IInv, TypeOK, MarkRunning, RecordSuccess, RecordFailure, Stepping
<1>2. PICK status \in Status : SetStatus(status)
  BY DEF MarkRunning, RecordSuccess, RecordFailure, Status
<1>3. /\ primary' = Saved(mem')
      /\ mem'[cursor] = status
      /\ \A s \in Step : s # cursor => mem'[s] = mem[s]
  BY <1>1, <1>2, SetStatusType
<1>4. \A s \in Step : (Recorded(s))' <=> mem'[s] = "success"
  BY <1>3 DEF Recorded, Resumed, Saved
<1>5. Marked'
  <2>1. CASE MarkRunning
    <3>1. mem'[cursor] = "running" /\ cursor' = cursor
      BY <1>1, <2>1 DEF MarkRunning, SetStatus
    <3> QED
      BY <2>1, <3>1, <1>3 DEF Marked, MarkRunning
  <2> QED
    BY <2>1 DEF Marked, RecordSuccess, RecordFailure
<1>6. InMemory'
  BY <1>4 DEF InMemory
<1>7. Progress
  <2>1. SUFFICES ASSUME NEW s \in Step, ~IgnoresState, Recorded(s)
                 PROVE  (Recorded(s))'
    BY DEF Progress
  <2>2. mem[s] = "success"
    BY <1>1, <2>1 DEF IInv, InMemory
  <2>3. s # cursor
    BY <2>1, <2>2 DEF IInv, Marked, MarkRunning, RecordSuccess, RecordFailure, Skips
  <2> QED
    BY <1>3, <1>4, <2>2, <2>3
<1> QED
  BY <1>5, <1>6, <1>7

LEMMA RestNext ==
  ASSUME IInv, [Next]_vars
  PROVE  Marked' /\ Restarted' /\ Blank' /\ InMemory' /\ Progress
<1> USE DEF IInv, Goto, ReturnError, files, deploy, budget
<1> USE DEF Marked, Restarted, Blank, InMemory, Progress, Stepping, Recorded,
            Resumed, IgnoresState
<1>1. ASSUME NEW f \in Invocations, Start(f)
      PROVE  Marked' /\ Restarted' /\ Blank' /\ InMemory' /\ Progress
  BY <1>1 DEF Start
<1>2. CASE Validate \/ LoadFails \/ StepsDone \/ WaitForReady \/ Finish
  BY <1>2 DEF Validate, LoadFails, StepsDone, WaitForReady, Finish
<1>3. CASE Clear \/ Remove \/ RemoveLegacy
  BY <1>3 DEF Clear, Remove, RemoveLegacy
<1>4. CASE ClearLegacy
  <2>1. /\ mem' = NoSteps /\ primary' = Missing
        /\ pc' \in {"steps", "idle"} /\ ~(pc' = "steps" /\ legacy' # Missing)
        /\ opts.restart = "yes" /\ opts' = opts
    BY <1>4 DEF ClearLegacy, SelectSteps
  <2>2. pc' = "steps" => (Resumed = Missing)'
    BY <2>1
  <2>3. InMemory'
    BY <2>1, <2>2, NothingRecorded DEF NoSteps
  <2> QED
    BY <2>1, <2>3
<1>5. CASE Load
  BY <1>5 DEF Load, SelectSteps, StateOf
<1>6. CASE Skip
  BY <1>6 DEF Skip
<1>7. CASE MarkRunning \/ RecordSuccess \/ RecordFailure
  <2>1. Restarted' /\ Blank'
    BY <1>7 DEF MarkRunning, RecordSuccess, RecordFailure
  <2> QED
    BY <1>7, <2>1, SaveNext
<1>8. CASE RunSucceeds \/ RunFails
  BY <1>8 DEF RunSucceeds, RunFails
<1>9. CASE SaveFails \/ Crash \/ Destroy
  BY <1>9 DEF SaveFails, Crash, Destroy
<1>10. CASE UNCHANGED vars
  BY <1>10 DEF vars
<1> QED
  BY <1>1, <1>2, <1>3, <1>4, <1>5, <1>6, <1>7, <1>8, <1>9, <1>10
     DEF Next, Proceed

LEMMA Inductive == Spec => []IInv
<1>1. IInv /\ [Next]_vars => IInv'
  BY TypeNext, RestNext DEF IInv
<1> QED
  BY InitIInv, <1>1, PTL DEF Spec

(* The state of the service is well typed; in particular the flags never   *)
(* select a step that the provider does not have.                          *)
THEOREM TypeCorrect == Spec => []TypeOK
<1>1. IInv => TypeOK
  BY DEF IInv
<1> QED
  BY Inductive, <1>1, PTL

(* A deploy without flags never loses progress that the files record.      *)
THEOREM KeepsProgressCorrect == Spec => KeepsProgress
<1>1. IInv /\ [Next]_vars => [Progress]_vars
  BY RestNext
<1>2. KeepsProgress <=> [][Progress]_vars
  BY PTL DEF KeepsProgress, Progress
<1> QED
  BY Inductive, <1>1, <1>2, PTL DEF Spec
------------------------------------------------------------------------------
LEMMA InitRecordsDone == Init => RecordsDone
BY NothingRecorded DEF Undisturbed, Init, RecordsDone, NoSteps

LEMMA RecordsDoneNext ==
  ASSUME IInv, RecordsDone, [Next]_vars
  PROVE  RecordsDone'
<1> USE DEF RecordsDone, Undisturbed, Goto, ReturnError, files, deploy, budget
<1>1. ASSUME NEW f \in Invocations, Start(f) PROVE RecordsDone'
  BY <1>1 DEF Start, NoSteps
<1>2. CASE Validate \/ LoadFails \/ StepsDone \/ WaitForReady \/ Finish \/ Skip
  BY <1>2 DEF Validate, LoadFails, StepsDone, WaitForReady, Finish, Skip
<1>3. CASE Clear \/ Remove \/ RemoveLegacy
  BY <1>3, NothingRecorded DEF Clear, Remove, RemoveLegacy
<1>4. CASE ClearLegacy
  BY <1>4 DEF ClearLegacy, SelectSteps
<1>5. CASE Load
  BY <1>5, NothingRecorded DEF Load, SelectSteps, StateOf, Resumed
<1>6. CASE MarkRunning \/ RecordSuccess \/ RecordFailure
  <2>0. budget' = budget
    BY <1>6 DEF MarkRunning, RecordSuccess, RecordFailure
  <2> SUFFICES ASSUME Undisturbed PROVE RecordsDone'
    BY <2>0
  <2>1. cursor \in Step /\ mem \in [Step -> Status] /\ done' = done
    BY <1>6 DEF IInv, TypeOK, MarkRunning, RecordSuccess, RecordFailure
  <2>2. PICK status \in Status :
          SetStatus(status) /\ (status = "success" => cursor \in done)
    BY <1>6 DEF MarkRunning, RecordSuccess, RecordFailure, Status
  <2>3. /\ primary' = Saved(mem')
        /\ mem'[cursor] = status
        /\ \A s \in Step : s # cursor => mem'[s] = mem[s]
    BY <2>1, <2>2, SetStatusType
  <2>4. \A s \in Step : mem'[s] = "success" => s \in done
    BY <1>6, <2>2, <2>3 DEF MarkRunning, RecordSuccess, RecordFailure
  <2>5. \A s \in Step : primary'.steps[s] = mem'[s]
    BY <2>3 DEF Saved
  <2> QED
    BY <1>6, <2>1, <2>4, <2>5 DEF MarkRunning, RecordSuccess, RecordFailure
<1>7. CASE RunSucceeds
  BY <1>7 DEF RunSucceeds
<1>8. ASSUME pc = "run"
      PROVE  mem[cursor] = "running" /\ primary.steps[cursor] = "running"
  BY <1>8 DEF IInv, Marked, Saved
<1>9. CASE RunFails
  BY <1>8, <1>9 DEF RunFails
<1>10. CASE SaveFails
  BY <1>10, NothingRecorded DEF SaveFails
<1>11. CASE Crash
  BY <1>8, <1>11, NothingRecorded DEF Crash
<1>12. CASE Destroy
  BY <1>12 DEF Destroy, IInv, TypeOK
<1>13. CASE UNCHANGED vars
  BY <1>13 DEF vars
<1> QED
  BY <1>1, <1>2, <1>3, <1>4, <1>5, <1>6, <1>7, <1>9, <1>10, <1>11, <1>12, <1>13
     DEF Next, Proceed

(* A deploy skips only steps whose last run completed, if no older release *)
(* left a file and no destroy came between.                                *)
THEOREM SkipsOnlyDoneCorrect == Spec => []SkipsOnlyDone
<1>1. IInv /\ RecordsDone /\ [Next]_vars => RecordsDone'
  BY RecordsDoneNext
<1>2. IInv /\ RecordsDone => SkipsOnlyDone
  BY DEF IInv, TypeOK, RecordsDone, Undisturbed, SkipsOnlyDone, SkipsDone, Skips
<1> QED
  BY InitRecordsDone, Inductive, <1>1, <1>2, PTL DEF Spec
------------------------------------------------------------------------------
(* The order of steps: RecordsDone says it of the step that is skipped and *)
(* of the one that has just completed, and no other step loses its place.  *)
LEMMA EarlierDoneNext ==
  ASSUME IInv, RecordsDone, EarlierDone, [Next]_vars
  PROVE  EarlierDone'
<1> USE DEF EarlierDone, Goto, ReturnError, files, deploy, budget
<1>0. /\ cursor \in 1..N+1 /\ last \in 0..N /\ First \in Int
      /\ pc \in InStep => cursor <= last
      /\ pc \in Before \cup {"steps"} \cup InStep \cup After
      /\ destroys \in Nat
  BY DEF IInv, TypeOK, Flags, First
<1>1. ASSUME UNCHANGED <<opts, cursor, done, destroys, origin>>,
             pc' \in {"steps"} \cup InStep \cup After =>
               pc \in {"steps"} \cup InStep \cup After
      PROVE  EarlierDone'
  BY <1>0, <1>1 DEF First
<1>2. CASE \/ \E f \in Invocations : Start(f)
           \/ Validate \/ Clear \/ LoadFails \/ SaveFails \/ RecordFailure
           \/ Crash \/ Destroy
  BY <1>2 DEF Start, Validate, Clear, LoadFails, SaveFails, RecordFailure, Crash,
              Destroy
<1>3. CASE MarkRunning
  BY <1>1, <1>3 DEF MarkRunning
<1>4. CASE StepsDone \/ WaitForReady \/ Remove \/ RemoveLegacy \/ Finish
  BY <1>1, <1>4 DEF StepsDone, WaitForReady, Remove, RemoveLegacy, Finish
<1>5. CASE ClearLegacy \/ Load
  <2>1. pc' = "idle" \/ (pc' = "steps" /\ cursor' = First /\ First' = First)
    BY <1>5 DEF ClearLegacy, Load, SelectSteps, First
  <2> QED
    BY <1>0, <2>1
<1>6. CASE Skip \/ RecordSuccess
  <2>1. /\ UNCHANGED <<opts, done, destroys, origin>> /\ cursor' = cursor + 1
        /\ pc \in {"steps"} \cup InStep /\ First' = First /\ cursor \in Step
    BY <1>0, <1>6 DEF Skip, RecordSuccess, NextStep, First
  <2>2. Undisturbed => cursor \in done
    BY <1>6, <2>1 DEF Skip, Skips, RecordSuccess, RecordsDone, Undisturbed
  <2> QED
    BY <1>0, <2>1, <2>2 DEF Undisturbed
<1>7. CASE RunSucceeds \/ RunFails
  <2>1. /\ UNCHANGED <<opts, cursor, destroys, origin>> /\ First' = First
        /\ pc = "run" /\ done \ {cursor} \subseteq done'
    BY <1>7 DEF RunSucceeds, RunFails, First
  <2> QED
    BY <1>0, <2>1
<1>8. CASE UNCHANGED vars
  BY <1>1, <1>8 DEF vars
<1> QED
  BY <1>2, <1>3, <1>4, <1>5, <1>6, <1>7, <1>8 DEF Next, Proceed

(* Deploys keep the order of the steps, and one that reports success has   *)
(* every step that it was asked for in place.                              *)
THEOREM EarlierDoneCorrect == Spec => []EarlierDone
<1>1. Init => EarlierDone
  BY DEF Init, EarlierDone
<1>2. IInv /\ RecordsDone /\ [Next]_vars => RecordsDone'
  BY RecordsDoneNext
<1>3. IInv /\ RecordsDone /\ EarlierDone /\ [Next]_vars => EarlierDone'
  BY EarlierDoneNext
<1> QED
  BY InitRecordsDone, Inductive, <1>1, <1>2, <1>3, PTL DEF Spec
------------------------------------------------------------------------------
(* The refinement mapping: what the files record, the step that runs, and  *)
(* whether the record can be trusted.                                      *)
Recordeds == {s \in Step : Recorded(s)}
RunningStep == IF pc = "run" THEN {cursor} ELSE {}
AbstractStep == Resuming!Next \/ UNCHANGED <<done, Recordeds, RunningStep, Undisturbed>>

LEMMA InitResumption == Init => Resuming!Init
<1> SUFFICES ASSUME Init PROVE Resuming!Init
  OBVIOUS
<1>1. CASE origin = "new" /\ legacy = Missing /\ done = {}
  BY <1>1, NothingRecorded DEF Init, Resuming!Init, Recorded, Resumed
<1>2. CASE origin = "old" /\ \E k \in OldRuns : legacy = Saved(OldState(k)) /\ done = 1..k
  BY <1>2, OldRunsAssumption DEF Init, Resuming!Init
<1> QED
  BY <1>1, <1>2 DEF Init

(* The actions that leave the files and the world alone.                   *)
LEMMA QuietStep ==
  ASSUME UNCHANGED <<files, done, destroys, origin>>, pc # "run", pc' # "run"
  PROVE  AbstractStep
<1>1. Recordeds' = Recordeds
  BY DEF Recordeds, Recorded, Resumed, files
<1> QED
  BY <1>1 DEF AbstractStep, RunningStep, Undisturbed

(* A save of the state of the step under the cursor.                       *)
LEMMA SaveStep ==
  ASSUME IInv, RecordsDone, MarkRunning \/ RecordSuccess \/ RecordFailure
  PROVE  AbstractStep
<1> USE DEF Goto, ReturnError, budget
<1>1. /\ cursor \in Step /\ mem \in [Step -> Status] /\ pc \in Stepping
      /\ UNCHANGED <<done, destroys, origin>> /\ pc # "run"
      /\ RunningStep = {} /\ Undisturbed' = Undisturbed
  BY DEF IInv, TypeOK, MarkRunning, RecordSuccess, RecordFailure, Stepping,
         RunningStep, Undisturbed
<1>2. PICK status \in Status : SetStatus(status)
  BY DEF MarkRunning, RecordSuccess, RecordFailure, Status
<1>3. /\ primary' = Saved(mem')
      /\ mem'[cursor] = status
      /\ \A s \in Step : s # cursor => mem'[s] = mem[s]
  BY <1>1, <1>2, SetStatusType
<1>4. Recordeds = {s \in Step : mem[s] = "success"}
  BY <1>1 DEF IInv, InMemory, Recordeds
<1>5. Recordeds' = {s \in Step : mem'[s] = "success"}
  BY <1>3 DEF Recordeds, Recorded, Resumed, Saved
<1>6. CASE MarkRunning
  <2>1. mem'[cursor] = "running" /\ RunningStep' = {cursor}
    BY <1>1, <1>6 DEF MarkRunning, SetStatus, RunningStep
  <2>2. Recordeds' = Recordeds \ {cursor}
    BY <1>3, <1>4, <1>5, <2>1
  <2>3. Resuming!Begin(cursor)
    BY <1>1, <2>1, <2>2 DEF Resuming!Begin, Recordeds, RunningStep, Undisturbed
  <2> QED
    BY <1>1, <2>3 DEF AbstractStep, Resuming!Next
<1>7. CASE RecordSuccess
  <2>1. mem'[cursor] = "success" /\ RunningStep' = {} /\ pc = "completed"
    BY <1>1, <1>7 DEF RecordSuccess, SetStatus, RunningStep
  <2>2. Recordeds' = Recordeds \cup {cursor}
    BY <1>1, <1>3, <1>4, <1>5, <2>1
  <2>3. Undisturbed => cursor \in done
    BY <2>1 DEF RecordsDone
  <2>4. Resuming!Record(cursor)
    BY <1>1, <2>1, <2>2, <2>3 DEF Resuming!Record, Recordeds, RunningStep, Undisturbed
  <2> QED
    BY <1>1, <2>4 DEF AbstractStep, Resuming!Next
<1>8. CASE RecordFailure
  <2>1. mem'[cursor] = "failed" /\ RunningStep' = {} /\ mem[cursor] = "running"
    BY <1>1, <1>8 DEF RecordFailure, SetStatus, RunningStep, IInv, Marked
  <2>2. Recordeds' = Recordeds
    BY <1>3, <1>4, <1>5, <2>1
  <2> QED
    BY <1>1, <2>1, <2>2 DEF AbstractStep
<1> QED
  BY <1>6, <1>7, <1>8

(* A file that is removed or torn between steps: the record is lost, or,   *)
(* if an older release left a file, replaced by the one in that file.      *)
LEMMA LossStep ==
  ASSUME RecordsDone, UNCHANGED <<done, destroys, origin>>,
         pc # "run", pc' # "run",
         \/ primary' \in {primary, Missing, Torn} /\ legacy' = legacy
         \/ primary' = primary /\ legacy' \in {legacy, Missing}
  PROVE  AbstractStep
<1>1. RunningStep = {} /\ RunningStep' = {} /\ Undisturbed' = Undisturbed
  BY DEF RunningStep, Undisturbed
<1>2. Missing.is = "missing" /\ Torn.is = "torn"
  BY DEF Missing, Torn
<1>3. CASE Recordeds' = Recordeds
  BY <1>1, <1>3 DEF AbstractStep
<1>4. CASE Recordeds' = {}
  <2>1. Resuming!Forget
    BY <1>1, <1>4 DEF Resuming!Forget, Recordeds, RunningStep, Undisturbed
  <2> QED
    BY <2>1 DEF AbstractStep, Resuming!Next
<1>5. CASE primary' = Missing /\ legacy' = legacy /\ Undisturbed
  <2>1. legacy = Missing
    BY <1>5 DEF RecordsDone
  <2>2. Recordeds' = {}
    BY <1>2, <1>5, <2>1, NothingRecorded DEF Recordeds, Recorded, Resumed
  <2> QED
    BY <1>4, <2>2
<1>6. CASE ~Undisturbed
  <2>1. Resuming!Resurface
    BY <1>1, <1>6 DEF Resuming!Resurface, Recordeds, RunningStep, Undisturbed
  <2> QED
    BY <2>1 DEF AbstractStep, Resuming!Next
<1>7. CASE primary' = Torn
  <2>1. Recordeds' = {}
    BY <1>2, <1>7, NothingRecorded DEF Recordeds, Recorded, Resumed
  <2> QED
    BY <1>4, <2>1
<1>8. CASE primary' = primary /\ legacy' \in {legacy, Missing}
  <2>1. CASE primary.is = "missing" /\ legacy' = Missing
    <3>1. Recordeds' = {}
      BY <1>8, <2>1, NothingRecorded DEF Recordeds, Recorded, Resumed
    <3> QED
      BY <1>4, <3>1
  <2>2. CASE primary.is # "missing" \/ legacy' = legacy
    <3>1. Recordeds' = Recordeds
      BY <1>8, <2>2 DEF Recordeds, Recorded, Resumed
    <3> QED
      BY <1>3, <3>1
  <2> QED
    BY <1>8, <2>1, <2>2
<1> QED
  BY <1>5, <1>6, <1>7, <1>8

LEMMA ResumptionNext ==
  ASSUME IInv, RecordsDone, [Next]_vars
  PROVE  AbstractStep
<1> USE DEF Goto, ReturnError, files, deploy, budget
<1>1. CASE \/ \E f \in Invocations : Start(f)
           \/ Validate \/ Load \/ LoadFails \/ Skip \/ StepsDone
           \/ WaitForReady \/ Finish
  <2>1. UNCHANGED <<files, done, destroys, origin>> /\ pc # "run" /\ pc' # "run"
    BY <1>1 DEF Start, Validate, Load, LoadFails, Skip, StepsDone, WaitForReady,
                Finish, SelectSteps
  <2> QED
    BY <2>1, QuietStep
<1>2. CASE MarkRunning \/ RecordSuccess \/ RecordFailure
  BY <1>2, SaveStep
<1>3. CASE \/ Clear \/ ClearLegacy \/ SaveFails \/ Remove \/ RemoveLegacy
           \/ Crash /\ pc # "run"
  <2>1. /\ UNCHANGED <<done, destroys, origin>> /\ pc # "run" /\ pc' # "run"
        /\ \/ primary' \in {primary, Missing, Torn} /\ legacy' = legacy
           \/ primary' = primary /\ legacy' \in {legacy, Missing}
    BY <1>3 DEF Clear, ClearLegacy, SaveFails, AtSave, Remove, RemoveLegacy, Crash,
                SelectSteps
  <2> QED
    BY <2>1, LossStep
<1>4. CASE RunSucceeds \/ RunFails \/ (Crash /\ pc = "run")
  <2>1. /\ UNCHANGED <<files, destroys, origin>> /\ pc = "run" /\ pc' # "run"
        /\ done' \in {done \cup {cursor}, done \ {cursor}} /\ cursor \in Step
    BY <1>4 DEF RunSucceeds, RunFails, Crash, AtSave, IInv, TypeOK
  <2>2. /\ Recordeds' = Recordeds /\ Undisturbed' = Undisturbed
        /\ RunningStep = {cursor} /\ RunningStep' = {}
    BY <2>1 DEF Recordeds, Recorded, Resumed, Undisturbed, RunningStep
  <2>3. Resuming!Complete(cursor) \/ Resuming!Break(cursor)
    BY <2>1, <2>2 DEF Resuming!Complete, Resuming!Break, Recordeds, RunningStep,
                      Undisturbed
  <2> QED
    BY <2>1, <2>3 DEF AbstractStep, Resuming!Next
<1>5. CASE Destroy
  <2>1. /\ pc = "idle" /\ pc' = pc /\ destroys' # 0 /\ done' \subseteq done
        /\ primary' = primary /\ legacy' \in {legacy, Missing}
    BY <1>5 DEF Destroy, IInv, TypeOK
  <2>2. Recordeds' \in {Recordeds, {}}
    BY <2>1, NothingRecorded DEF Recordeds, Recorded, Resumed
  <2>3. Resuming!Undo
    BY <2>1, <2>2 DEF Resuming!Undo, Recordeds, RunningStep
  <2> QED
    BY <2>3 DEF AbstractStep, Resuming!Next
<1>6. CASE UNCHANGED vars
  <2>1. UNCHANGED <<primary, legacy, done, pc, cursor, destroys, origin>>
    BY <1>6 DEF vars
  <2> QED
    BY <2>1 DEF AbstractStep, Recordeds, Recorded, Resumed, RunningStep, Undisturbed
<1> QED
  BY <1>1, <1>2, <1>3, <1>4, <1>5, <1>6 DEF Next, Proceed

(* The state files are the record of a resumable deploy.                   *)
THEOREM ResumptionImplemented == Spec => ImplementsResumption
<1>1. IInv /\ RecordsDone /\ [Next]_vars => RecordsDone'
  BY RecordsDoneNext
<1>2. IInv /\ RecordsDone /\ [Next]_vars => [Resuming!Next]_Resuming!vars
  BY ResumptionNext DEF AbstractStep, Resuming!vars, Recordeds, RunningStep,
                        Undisturbed
<1> QED
  BY InitRecordsDone, InitResumption, Inductive, <1>1, <1>2, PTL
  DEF Spec, ImplementsResumption, Resuming!Spec

(* What a resumable deploy promises: a record that can be trusted names    *)
(* only steps that are in place, and never the one that runs.              *)
LEMMA ResumptionFaithful == Resuming!Spec => []Resuming!Faithful
<1>1. Resuming!Init => Resuming!Faithful
  BY DEF Resuming!Init, Resuming!Faithful
<1>2. Resuming!Faithful /\ [Resuming!Next]_Resuming!vars => Resuming!Faithful'
  BY DEF Resuming!Faithful, Resuming!Next, Resuming!vars, Resuming!Begin,
         Resuming!Complete, Resuming!Break, Resuming!Record, Resuming!Forget,
         Resuming!Undo, Resuming!Resurface
<1> QED
  BY <1>1, <1>2, PTL DEF Resuming!Spec

(* The state files keep it.                                                *)
THEOREM RecordFaithful == Spec => []Resuming!Faithful
BY ResumptionImplemented, ResumptionFaithful, PTL DEF ImplementsResumption
==============================================================================
