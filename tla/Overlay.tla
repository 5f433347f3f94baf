------------------------------- MODULE Overlay -------------------------------
(***************************************************************************)
(* The overlay applications/overlays/<cluster> of a GitOps repository, as  *)
(* the commands that render it leave it: `cluster generate', `cluster      *)
(* generate --render-only [--force]', `cluster service enable [--render]'  *)
(* and `cluster service disable [--render]' (internal/gitops/copy.go,      *)
(* descriptor_renderer.go and their callers in cmd and internal/cluster).  *)
(*                                                                         *)
(* A command is a script of stages.  A full render removes all that the    *)
(* renderer owns and only then plans and copies; a render of one service   *)
(* plans first.  Templates are written to a private workspace, which is    *)
(* part of `plan', and copied from there file by file.  No command here    *)
(* takes the cluster lock, so that commands of two operators overlap.  A   *)
(* command can fail, or its process die, at any stage.                     *)
(*                                                                         *)
(* Data: the files of one service are one path, and so are the aggregate   *)
(* kustomizations (`list') and the root one.  A service is off (0) or on   *)
(* with one of some sets of parameters; the services of Explicit have a    *)
(* descriptor with aggregate targets, the others an automatic one.         *)
(*                                                                         *)
(* Bounds: MaxRuns commands besides `generate', which only Operator runs,  *)
(* and MaxFaults failures and deaths.  History variable: `unrendered', the *)
(* services that may lack their files: those enabled and not rendered      *)
(* since, and all of them once two commands overlapped or one was stopped  *)
(* after it began to change the overlay.  A full render empties it.        *)
(***************************************************************************)
EXTENDS Integers, Sequences

CONSTANTS Proc, Operator, Service, Explicit, MaxVersion, MaxRuns, MaxFaults

ASSUME SetAssumption == /\ Operator \in Proc
                        /\ Explicit \subseteq Service
                        /\ {"root", "list", "all"} \cap Service = {}
ASSUME BoundAssumption == /\ MaxVersion \in Nat \ {0}
                          /\ MaxRuns \in Nat
                          /\ MaxFaults \in Nat

VARIABLES config,   \* the services of the configuration file
          files,    \* the overlay
          backups,  \* the copies <file>.bak-<time> beside the files
          cmd,      \* the command of each process
          runs, faults, unrendered

vars == <<config, files, backups, cmd, runs, faults, unrendered>>

Version == 0..MaxVersion
Config == [Service -> Version]
Path == {"root", "list"} \cup Service
File == [is : {"absent", "torn", "whole"}, ver : Version, of : SUBSET Service]
Absent == [is |-> "absent", ver |-> 0, of |-> {}]
Torn == [is |-> "torn", ver |-> 0, of |-> {}]

Op == {"generate", "render", "enable", "disable"}
Stage == {"save", "load", "backup", "clean", "plan", "copy"}

Enabled(c) == {s \in Service : c[s] > 0}

(* What a render of configuration c writes to path q.                      *)
Content(q, c) ==
  [is |-> "whole",
   ver |-> IF q \in Service THEN c[q] ELSE 0,
   of |-> IF q = "list" THEN Enabled(c) ELSE {}]

(* The paths of a full render, and the overlay it should leave.            *)
Wanted(c) == {"root", "list"} \cup Enabled(c)
Target(c) == [q \in Path |-> IF q \in Wanted(c) THEN Content(q, c) ELSE Absent]

Single(s) == {s} \cup (IF s \in Explicit THEN {"list"} ELSE {})

(* `svc' is "all" for a full render.                                       *)
Command == [op : Op, svc : Service \cup {"all"}, cfg : Config,
            todo : Seq(Stage), left : SUBSET Path, alone : {"yes", "no"}]
Idle == [op |-> "generate", svc |-> "all", cfg |-> [s \in Service |-> 0],
         todo |-> <<>>, left |-> {}, alone |-> "yes"]

TypeOK == /\ config \in Config
          /\ files \in [Path -> File]
          /\ backups \in [Path -> File]
          /\ cmd \in [Proc -> Command]
          /\ runs \in 0..MaxRuns
          /\ faults \in 0..MaxFaults
          /\ unrendered \subseteq Service

Running(p) == cmd[p].todo # <<>>
At(p, stage) == Running(p) /\ Head(cmd[p].todo) = stage
Others(p) == {q \in Proc \ {p} : Running(q)}

(* A configuration after init, with a repository without an overlay.       *)
Init == /\ config \in Config
        /\ files = [q \in Path |-> Absent]
        /\ backups = [q \in Path |-> Absent]
        /\ cmd = [p \in Proc |-> Idle]
        /\ runs = 0
        /\ faults = 0
        /\ unrendered = Enabled(config)
------------------------------------------------------------------------------
(* The scripts; `flag' is --render or --force.  The mutant removes the     *)
(* files of a service before it knows that it can render it.               *)
CleanFirst == <<"save", "clean", "plan", "copy">>
EnableAndRender == <<"save", "plan", "clean", "copy">>

(* `generate' saves its status in the configuration file before and after, *)
(* each time from a copy it has just loaded.  What it writes elsewhere in  *)
(* the repository is left out: a CopyBase that fails is a `clean' that     *)
(* fails before it removed anything.                                       *)
Script(op, flag) ==
  CASE op = "generate" -> <<"save", "load", "clean", "plan", "copy", "load", "save">>
    [] op = "render" /\ flag -> <<"backup", "clean", "plan", "copy">>
    [] op = "render" /\ ~flag -> <<"clean", "plan", "copy">>
    [] op = "enable" /\ flag -> EnableAndRender
    [] op = "disable" /\ flag -> <<"save", "clean", "plan", "copy">>
    [] op \in {"enable", "disable"} /\ ~flag -> <<"save">>

(* Without --force, --render-only refuses an overlay that has a root       *)
(* kustomization; `generate' does not ask.  The mutant does.               *)
RefusesRendered(op, flag) == op \in {"generate", "render"} /\ files["root"].is # "absent"
Refuses(op, flag) == op = "render" /\ ~flag /\ files["root"].is # "absent"

(* A command loads the configuration and, to enable or disable a service,  *)
(* changes what it loaded.                                                 *)
Start(p, op, s, v, flag) ==
  /\ ~Running(p)
  /\ s = "all" <=> op \in {"generate", "render"}
  /\ op = "enable" => v > 0
  /\ op = "disable" => v = 0 /\ config[s] > 0
  /\ op \in {"generate", "render"} => v = 0
  /\ op = "generate" => ~flag /\ p = Operator
  /\ ~Refuses(op, flag)
  /\ IF op = "generate" THEN UNCHANGED runs ELSE runs < MaxRuns /\ runs' = runs + 1
  /\ LET c == [op |-> op, svc |-> IF op = "enable" THEN s ELSE "all",
               cfg |-> IF s = "all" THEN config ELSE [config EXCEPT ![s] = v],
               todo |-> Script(op, flag), left |-> {},
               alone |-> IF Others(p) = {} THEN "yes" ELSE "no"]
     IN cmd' = [q \in Proc |-> IF q = p THEN c
                               ELSE IF Running(q) THEN [cmd[q] EXCEPT !.alone = "no"]
                               ELSE cmd[q]]
  /\ UNCHANGED <<config, files, backups, faults, unrendered>>

Go(c, todo) == IF todo = <<>> THEN Idle ELSE [c EXCEPT !.todo = todo]
Done(c) == Go(c, Tail(c.todo))
Becomes(p, c) == cmd' = [cmd EXCEPT ![p] = c]

(* The configuration file is replaced at once.                             *)
Save(p) ==
  /\ At(p, "save")
  /\ config' = cmd[p].cfg
  /\ unrendered' = unrendered \cup (Enabled(cmd[p].cfg) \ Enabled(config))
  /\ Becomes(p, Done(cmd[p]))
  /\ UNCHANGED <<files, backups, runs, faults>>

Load(p) == /\ At(p, "load")
           /\ Becomes(p, Done([cmd[p] EXCEPT !.cfg = config]))
           /\ UNCHANGED <<config, files, backups, runs, faults, unrendered>>

Backup(p) ==
  /\ At(p, "backup")
  /\ backups' = [q \in Path |-> IF files[q].is = "absent" THEN backups[q] ELSE files[q]]
  /\ Becomes(p, Done(cmd[p]))
  /\ UNCHANGED <<config, files, runs, faults, unrendered>>

(* A full render removes the services with all that lies in their          *)
(* directories.  The mutants take "all" for a service, and leave the files *)
(* that are not going to be written.                                       *)
PlannedByName(c) == Single(c.svc)
Planned(c) == IF c.svc = "all" THEN Wanted(c.cfg) ELSE Single(c.svc)
OwnedByPlan(c) == Planned(c)
Owned(c) == IF c.svc = "all" THEN Path ELSE Single(c.svc)

Clean(p) ==
  LET c == cmd[p]
      dirs == IF c.svc = "all" THEN Path \ {"root"} ELSE {c.svc}
  IN
  /\ At(p, "clean")
  /\ files' = [q \in Path |-> IF q \in Owned(c) THEN Absent ELSE files[q]]
  /\ backups' = [q \in Path |-> IF q \in dirs THEN Absent ELSE backups[q]]
  /\ Becomes(p, Done(c))
  /\ UNCHANGED <<config, runs, faults, unrendered>>

Plan(p) == /\ At(p, "plan")
           /\ Becomes(p, Done([cmd[p] EXCEPT !.left = Planned(cmd[p])]))
           /\ UNCHANGED <<config, files, backups, runs, faults, unrendered>>

Exact(c) == c.svc = "all" /\ c.alone = "yes"

(* The walk meets the root kustomization before the directories.           *)
Copy(p, q) ==
  LET c == cmd[p] IN
  /\ At(p, "copy")
  /\ q \in c.left
  /\ "root" \in c.left => q = "root"
  /\ files' = [files EXCEPT ![q] = Content(q, c.cfg)]
  /\ IF c.left # {q}
       THEN /\ Becomes(p, [c EXCEPT !.left = @ \ {q}])
            /\ UNCHANGED unrendered
       ELSE /\ Becomes(p, Done([c EXCEPT !.left = {}]))
            /\ unrendered' = CASE Exact(c) -> {}
                               [] c.alone = "no" -> Service
                               [] OTHER -> unrendered \ {c.svc}
  /\ UNCHANGED <<config, backups, runs, faults>>

(* An error ends the command, after `generate' has saved its status.  A    *)
(* status that cannot be loaded or saved is only a warning.                *)
AfterError(c) ==
  Go([c EXCEPT !.left = {}], IF c.op = "generate" THEN <<"load", "save">> ELSE <<>>)
Fails(c) ==
  CASE c.op = "generate" /\ Head(c.todo) = "save" -> Done(c)
    [] c.todo = <<"load", "save">> -> Idle
    [] OTHER -> AfterError(c)

(* The command has begun to change the overlay.                            *)
Touched(c) == \/ Head(c.todo) \in {"clean", "copy"}
              \/ c.svc = "all" /\ Head(c.todo) = "plan"

(* A fault: a removal, which leaves the root file to the end, may have     *)
(* reached some paths, a copy may have truncated the file it writes.       *)
Interrupt(p) ==
  LET c == cmd[p] IN
  /\ Running(p)
  /\ faults < MaxFaults
  /\ faults' = faults + 1
  /\ Becomes(p, Fails(c)) \/ Becomes(p, Idle)
  /\ unrendered' = IF Touched(c) THEN Service ELSE unrendered
  /\ \/ /\ Head(c.todo) = "clean"
        /\ \E gone \in SUBSET (Owned(c) \ {"root"}) :
             files' = [q \in Path |-> IF q \in gone THEN Absent ELSE files[q]]
     \/ /\ Head(c.todo) = "copy"
        /\ \E q \in c.left : files' \in {files, [files EXCEPT ![q] = Torn]}
     \/ Head(c.todo) \notin {"clean", "copy"} /\ UNCHANGED files
  /\ UNCHANGED <<config, backups, runs>>

Step(p) == \/ Save(p) \/ Load(p) \/ Backup(p) \/ Clean(p)
           \/ Plan(p) \/ \E q \in Path : Copy(p, q)

Regenerate == Start(Operator, "generate", "all", 0, FALSE)

Next == \E p \in Proc :
  \/ \E op \in Op, s \in Service \cup {"all"}, v \in Version, flag \in BOOLEAN :
       Start(p, op, s, v, flag)
  \/ Step(p)
  \/ Interrupt(p)

(* Nothing holds a command up, and Operator generates again and again.     *)
Spec == /\ Init /\ [][Next]_vars
        /\ \A p \in Proc : WF_vars(Step(p))
        /\ WF_vars(Regenerate)
------------------------------------------------------------------------------
(* A full render that no other command overlaps leaves exactly what its    *)
(* configuration says, whatever was there before: the rest of crashed or   *)
(* interleaved commands, disabled services, files of old settings.         *)
FullRenderExact ==
  [][\A p \in Proc :
       /\ At(p, "copy") /\ Exact(cmd[p])
       /\ faults' = faults /\ cmd'[p].todo = Tail(cmd[p].todo)
       => files' = Target(cmd[p].cfg)]_vars

(* Between commands, a service that the aggregate kustomizations name has  *)
(* its files, so that kustomize can build the overlay, but for one enabled *)
(* without --render, which the render of another service lists, and for    *)
(* what an overlap or an interrupted change left.  A render of a service   *)
(* that cannot be planned breaks nothing.                                  *)
ListedExists ==
  (\A p \in Proc : ~Running(p)) =>
    \A s \in files["list"].of \ unrendered : files[s].is = "whole"

(* Once faults have ended, generating again brings the overlay to what the *)
(* configuration says, whatever state it was left in.                      *)
InSync == files = Target(config)
Converges == []<>InSync

(* --force is offered as what `creates backups': a forced render keeps a   *)
(* copy of every file that it removes.  (One that finds the root file is a *)
(* forced one.)                                                            *)
BackupsKept ==
  [][\A p \in Proc : At(p, "clean") /\ cmd[p].op = "render" /\ cmd[p].alone = "yes"
                      /\ files["root"].is # "absent" =>
       \A q \in Path : files'[q] = files[q] \/ backups'[q] = files[q]]_vars
==============================================================================
