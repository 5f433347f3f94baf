------------------------------- MODULE Bootstrap -------------------------------
(***************************************************************************)
(* cluster.BootstrapService (internal/cluster/bootstrap_service.go): a     *)
(* deploy runs the provider's steps in order and keeps the status of each  *)
(* in a state file, so that a later deploy of the cluster resumes.  The    *)
(* deploy holds the cluster's lock (FileLock), so there is one at a time;  *)
(* it can die at any point, and `cluster destroy' can come between two.    *)
(*                                                                         *)
(* A file is missing, torn (os.WriteFile truncates before it writes, so a  *)
(* write that fails or is interrupted can leave JSON that does not parse)  *)
(* or saved with a status per step.  The legacy file is only read and      *)
(* removed; an older release may have left one.                            *)
(*                                                                         *)
(* What a step does to the world is external: `done' holds the steps whose *)
(* last run completed and that no destroy has undone since.  `origin' is a *)
(* history variable: whether an older release left a legacy file.          *)
(*                                                                         *)
(* Bounds: MaxFaults counts crashes and everything else that goes wrong    *)
(* once and need not go wrong again; MaxDestroys counts destroys.          *)
(***************************************************************************)
EXTENDS Integers

CONSTANTS N,            \* the provider's steps are 1..N
          Invocations,  \* the flag combinations deploys are started with
          OldRuns,      \* how many steps a legacy file may record as done
          MaxFaults, MaxDestroys

Step == 1..N
Status == {"none", "running", "failed", "success"}
NoSteps == [s \in Step |-> "none"]

(* 0 stands for an absent --step or --from-step, N + 1 for an unknown id.  *)
(* The command refuses --step together with --from-step.                   *)
Flags == {f \in [restart : {"yes", "no"}, only : 0..N+1, from : 0..N+1] :
            f.only = 0 \/ f.from = 0}

ASSUME StepAssumption == N \in Nat \ {0}
ASSUME InvocationAssumption == Invocations \subseteq Flags
ASSUME OldRunsAssumption == OldRuns \subseteq 0..N
ASSUME BoundAssumption == MaxFaults \in Nat /\ MaxDestroys \in Nat

File == [is : {"missing", "torn", "saved"}, steps : [Step -> Status]]
Missing == [is |-> "missing", steps |-> NoSteps]
Torn == [is |-> "torn", steps |-> NoSteps]
Saved(m) == [is |-> "saved", steps |-> m]

VARIABLES primary, legacy,       \* the two files
          done,
          pc, opts, mem,         \* the running deploy: its place, flags, state
          cursor, last,          \* the step it is at, the last one selected
          faults, destroys,
          origin

files == <<primary, legacy>>
deploy == <<opts, mem, cursor, last>>
budget == <<faults, destroys, origin>>
vars == <<files, done, pc, deploy, budget>>

Before == {"idle", "validate", "clear", "clearLegacy", "load"}
InStep == {"run", "completed", "failed"}
After == {"ready", "remove", "removeLegacy", "finish"}

TypeOK == /\ primary \in File
          /\ legacy \in File
          /\ done \subseteq Step
          /\ pc \in Before \cup {"steps"} \cup InStep \cup After
          /\ opts \in Flags
          /\ mem \in [Step -> Status]
          /\ cursor \in 1..N+1
          /\ last \in 0..N
          /\ pc \in InStep => cursor <= last
          /\ faults \in 0..MaxFaults
          /\ destroys \in 0..MaxDestroys
          /\ origin \in {"new", "old"}

(* The legacy file of a deploy that an older release left unfinished.      *)
OldState(k) == [s \in Step |-> IF s <= k THEN "success"
                               ELSE IF s = k + 1 THEN "failed" ELSE "none"]

Plain == [restart |-> "no", only |-> 0, from |-> 0]

Init == /\ primary = Missing
        /\ \/ origin = "new" /\ legacy = Missing /\ done = {}
           \/ /\ origin = "old"
              /\ \E k \in OldRuns : legacy = Saved(OldState(k)) /\ done = 1..k
        /\ pc = "idle"
        /\ opts = Plain
        /\ mem = NoSteps
        /\ cursor = 1
        /\ last = 0
        /\ faults = 0
        /\ destroys = 0
------------------------------------------------------------------------------
Goto(l) == pc' = l
ReturnError == Goto("idle")

(* Something went well, or it went wrong once more.                        *)
Fine == faults' = faults
Fault == faults < MaxFaults /\ faults' = faults + 1
Constant == UNCHANGED <<destroys, origin>>

Start(f) == /\ pc = "idle"
            /\ opts' = f
            /\ mem' = NoSteps
            /\ cursor' = 1
            /\ last' = 0
            /\ Goto("validate")
            /\ UNCHANGED <<files, done, budget>>

Validate == /\ pc = "validate"
            /\ \/ Goto(IF opts.restart = "yes" THEN "clear" ELSE "load") /\ Fine
               \/ ReturnError /\ Fault
            /\ UNCHANGED <<files, done, deploy>> /\ Constant

(* --restart removes both files first; an error ends the deploy.           *)
Clear == /\ pc = "clear"
         /\ \/ primary' = Missing /\ Goto("clearLegacy") /\ Fine
            \/ primary' = primary /\ ReturnError /\ Fault
         /\ UNCHANGED <<legacy, done, deploy>> /\ Constant

(* filterSteps: the interval of steps that the flags select.  The mutant   *)
(* lets an unknown id pass.                                                *)
KnownAlways == TRUE
Known == opts.only <= N /\ opts.from <= N
First == IF opts.only # 0 THEN opts.only
         ELSE IF opts.from # 0 THEN opts.from ELSE 1
Last == IF opts.only # 0 THEN opts.only ELSE N
IgnoresState == opts.restart = "yes" \/ opts.only # 0 \/ opts.from # 0

SelectSteps == \/ /\ Known
                  /\ cursor' = First
                  /\ last' = Last
                  /\ Goto("steps")
               \/ /\ ~Known
                  /\ ReturnError
                  /\ UNCHANGED <<cursor, last>>

ClearLegacy == /\ pc = "clearLegacy"
               /\ \/ legacy' = Missing /\ SelectSteps /\ Fine
                  \/ /\ legacy' = legacy /\ ReturnError /\ Fault
                     /\ UNCHANGED <<cursor, last>>
               /\ UNCHANGED <<primary, done, opts, mem>> /\ Constant

(* loadBootstrapStateWithFallback: the legacy file counts only when the    *)
(* primary one does not exist.                                             *)
Resumed == IF primary.is = "missing" THEN legacy ELSE primary

(* The mutant drops what was loaded.                                       *)
StateForgotten(f) == NoSteps
StateOf(f) == f.steps

Load == /\ pc = "load"
        /\ Resumed.is # "torn"
        /\ mem' = StateOf(Resumed)
        /\ SelectSteps
        /\ UNCHANGED <<files, done, opts, budget>>

(* What the file holds does not parse, or it cannot be read.               *)
LoadFails == /\ pc = "load"
             /\ \/ Resumed.is = "torn" /\ Fine
                \/ Fault
             /\ ReturnError
             /\ UNCHANGED <<files, done, deploy>> /\ Constant
------------------------------------------------------------------------------
(* The mutant stays at the step it has finished.                           *)
SameStep == cursor
NextStep == cursor + 1

(* The mutant skips every step that was tried.                             *)
SkipsTried == ~IgnoresState /\ mem[cursor] # "none"
Skips == ~IgnoresState /\ mem[cursor] = "success"

Skip == /\ pc = "steps"
        /\ cursor <= last
        /\ Skips
        /\ cursor' = NextStep
        /\ UNCHANGED <<files, done, pc, opts, mem, last, budget>>

(* setStepStatus and saveBootstrapState, when the write succeeds.  The     *)
(* mutant does not save that a step begins.                                *)
SavedAtEnd(status) ==
  /\ mem' = [mem EXCEPT ![cursor] = status]
  /\ primary' = IF status = "running" THEN primary ELSE Saved(mem')
SetStatus(status) == /\ mem' = [mem EXCEPT ![cursor] = status]
                     /\ primary' = Saved(mem')

MarkRunning == /\ pc = "steps"
               /\ cursor <= last
               /\ ~Skips
               /\ SetStatus("running")
               /\ Goto("run")
               /\ UNCHANGED <<legacy, done, opts, cursor, last, budget>>

(* The step's effects are in place when it succeeds and uncertain when it  *)
(* does not.                                                               *)
RunSucceeds == /\ pc = "run"
               /\ done' = done \cup {cursor}
               /\ Goto("completed")
               /\ UNCHANGED <<files, deploy, budget>>

RunFails == /\ pc = "run"
            /\ done' = done \ {cursor}
            /\ Goto("failed")
            /\ Fault
            /\ UNCHANGED <<files, deploy>> /\ Constant

RecordSuccess == /\ pc = "completed"
                 /\ SetStatus("success")
                 /\ cursor' = NextStep
                 /\ Goto("steps")
                 /\ UNCHANGED <<legacy, done, opts, last, budget>>

RecordFailure == /\ pc = "failed"
                 /\ SetStatus("failed")
                 /\ ReturnError
                 /\ UNCHANGED <<legacy, done, opts, cursor, last, budget>>

AtSave == \/ pc = "steps" /\ cursor <= last /\ ~Skips
          \/ pc \in {"completed", "failed"}

(* A save fails, which ends the deploy whatever the step's result was.     *)
SaveFails == /\ AtSave
             /\ primary' \in {primary, Torn}
             /\ ReturnError
             /\ Fault
             /\ UNCHANGED <<legacy, done, deploy>> /\ Constant

(* Every selected step is done: the deploy waits for the API server.       *)
StepsDone == /\ pc = "steps"
             /\ cursor > last
             /\ Goto("ready")
             /\ UNCHANGED <<files, done, deploy, budget>>

WaitForReady == /\ pc = "ready"
                /\ \/ Goto("remove") /\ Fine
                   \/ ReturnError /\ Fault
                /\ UNCHANGED <<files, done, deploy>> /\ Constant

(* Both files are removed whichever steps were selected.  A removal that   *)
(* fails is only logged.                                                   *)
Remove == /\ pc = "remove"
          /\ \/ primary' = Missing /\ Fine
             \/ primary' = primary /\ Fault
          /\ Goto("removeLegacy")
          /\ UNCHANGED <<legacy, done, deploy>> /\ Constant

RemoveLegacy == /\ pc = "removeLegacy"
                /\ \/ legacy' = Missing /\ Fine
                   \/ legacy' = legacy /\ Fault
                /\ Goto("finish")
                /\ UNCHANGED <<primary, done, deploy>> /\ Constant

Finish == /\ pc = "finish"
          /\ Goto("idle")
          /\ UNCHANGED <<files, done, deploy, budget>>
------------------------------------------------------------------------------
(* The deploy dies.  A step it was running is left half done, a file it    *)
(* was writing may be torn.                                                *)
Crash == /\ pc # "idle"
         /\ Fault
         /\ \/ primary' = primary
            \/ AtSave /\ primary' = Torn
         /\ done' = IF pc = "run" THEN done \ {cursor} ELSE done
         /\ Goto("idle")
         /\ UNCHANGED <<legacy, deploy>> /\ Constant

(* `cluster destroy' undoes the steps, unless --skip-infrastructure, and   *)
(* with --remove-files removes the cluster's directory and the legacy file *)
(* in it; the state directory, where the primary file is, it leaves alone. *)
Destroy == /\ pc = "idle"
           /\ destroys < MaxDestroys
           /\ destroys' = destroys + 1
           /\ done' \in {done, {}}
           /\ legacy' \in {legacy, Missing}
           /\ UNCHANGED <<primary, pc, deploy, faults, origin>>

Proceed == \/ Validate \/ Clear \/ ClearLegacy \/ Load \/ LoadFails
           \/ Skip \/ MarkRunning \/ RunSucceeds \/ RunFails
           \/ RecordSuccess \/ RecordFailure \/ SaveFails
           \/ StepsDone \/ WaitForReady \/ Remove \/ RemoveLegacy \/ Finish

Next == \/ \E f \in Invocations : Start(f)
        \/ Proceed \/ Crash \/ Destroy

Spec == Init /\ [][Next]_vars

(* A deploy goes on until it returns.  The operator tries again, with      *)
(* --restart or without, whatever else he tries in between.                *)
Restarting == [Plain EXCEPT !.restart = "yes"]

Persistence ==
  /\ WF_vars(Proceed)
  /\ \A f \in Invocations \cap {Plain, Restarting} : SF_vars(Start(f))

FairSpec == Spec /\ Persistence
------------------------------------------------------------------------------
Recorded(s) == Resumed.steps[s] = "success"

(* A deploy without flags never loses recorded progress: until the cluster *)
(* is ready, a step that the next deploy would skip stays so, unless a     *)
(* write tears the file.                                                   *)
KeepsProgress ==
  [][\A s \in Step :
       /\ ~IgnoresState
       /\ pc \notin {"idle", "remove", "removeLegacy"}
       /\ Recorded(s)
       => (Recorded(s))' \/ primary' = Torn]_vars

SkipsDone == pc = "steps" /\ cursor <= last /\ Skips => cursor \in done

(* A step that a deploy skips is in place: its last run completed, however  *)
(* deploys ran it again, failed or died since.  A destroy leaves the state  *)
(* file as it is, and after one this does not hold.  With a legacy file it  *)
(* does not either: see SkipsDone.                                          *)
SkipsOnlyDone == destroys = 0 /\ origin = "new" => SkipsDone

(* Deploys keep the order: every selected step before the one that a       *)
(* deploy has reached is in place, those it skipped included, and when it  *)
(* reports success all of them are.  The next step may rely on that.       *)
EarlierDone ==
  destroys = 0 /\ origin = "new" /\ pc \in {"steps"} \cup InStep \cup After =>
    \A s \in First..cursor - 1 : s \in done

(* The files and the memory of deploys, through all their saves, failures  *)
(* and crashes, are one record that is written ahead of the steps.  It can *)
(* be trusted unless a destroy or an older release meddled with it.        *)
Resuming == INSTANCE Resumption
  WITH recorded <- {s \in Step : Recorded(s)},
       running <- IF pc = "run" THEN {cursor} ELSE {},
       trusted <- destroys = 0 /\ origin = "new"
ImplementsResumption == Resuming!Spec

(* "The deploy process is resumable": deploys that are tried again bring   *)
(* the cluster up in the end, once faults have ceased.                     *)
Completes == <>(pc = "finish")
==============================================================================
