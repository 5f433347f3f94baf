---------------------------- MODULE OverlayProofs ----------------------------
(***************************************************************************)
(* Proofs about Overlay: the variables keep their types, a full render     *)
(* that runs alone leaves exactly what its configuration says, and the     *)
(* aggregate kustomizations name services that have their files, for any   *)
(* number of operators, services, commands and faults.                     *)
(***************************************************************************)
EXTENDS Overlay, SequenceTheorems, TLAPS

(* The order of a script.  A full render cleans, plans and copies; a       *)
(* render of one service plans, cleans and copies.                         *)
Ordered(svc, t) == \A i \in 1..Len(t) :
  /\ svc = "all" =>
       /\ t[i] = "clean" => i < Len(t) /\ t[i + 1] = "plan"
       /\ t[i] = "plan" => i < Len(t) /\ t[i + 1] = "copy"
       /\ i < Len(t) /\ t[i + 1] = "plan" => t[i] = "clean"
       /\ i < Len(t) /\ t[i + 1] = "copy" => t[i] = "plan"
  /\ svc # "all" =>
       /\ t[i] = "plan" => i < Len(t) /\ t[i + 1] = "clean"
       /\ t[i] = "clean" => i < Len(t) /\ t[i + 1] = "copy"
       /\ i < Len(t) /\ t[i + 1] = "clean" => t[i] = "plan"
       /\ i < Len(t) /\ t[i + 1] = "copy" => t[i] = "clean"

(* `generate' loads the configuration again after it has saved it.         *)
Reloads(t) == \A i \in 1..Len(t) : t[i] = "save" /\ i < Len(t) => t[i + 1] = "load"

Is(c, stage) == c.todo # <<>> /\ Head(c.todo) = stage

(* What a command that runs alone has found and left, given the overlay f  *)
(* and the configuration g.                                                *)
Partial(c) == [q \in Path |-> IF q \in Wanted(c.cfg) \ c.left THEN Content(q, c.cfg)
                                                              ELSE Absent]
Current(c, g) ==
  c.todo # <<>> /\ c.alone = "yes" /\ ~Is(c, "save") /\ ~Is(c, "load") => c.cfg = g
FullWork(c, f) ==
  Exact(c) => /\ Is(c, "plan") => f = [q \in Path |-> Absent]
              /\ Is(c, "copy") => c.left \subseteq Wanted(c.cfg) /\ f = Partial(c)
SingleWork(c, f) ==
  c.svc # "all" /\ c.alone = "yes" =>
    /\ Is(c, "clean") => c.svc \in c.left
    /\ Is(c, "copy") => c.svc \in c.left \/ f[c.svc].is = "whole"
Good(c, f, g) == /\ Ordered(c.svc, c.todo)
                 /\ c.op = "generate" => Reloads(c.todo)
                 /\ Current(c, g)
                 /\ FullWork(c, f)
                 /\ SingleWork(c, f)

AloneInv == \A p, q \in Proc : Running(p) /\ cmd[p].alone = "yes" /\ Running(q) => p = q

(* The overlay is covered but for what a command is about to write.        *)
Touching(c) == c.todo # <<>> /\ Touched(c)
Muddled == \E p \in Proc : Touching(cmd[p]) /\ cmd[p].alone = "no"
Covered(S) == \A s \in S \ unrendered :
                \/ files[s].is = "whole"
                \/ \E p \in Proc : Touching(cmd[p]) /\ s \in Owned(cmd[p])
CoverInv == ~Muddled => Covered(files["list"].of) /\ Covered(Enabled(config))

IInv == /\ TypeOK
        /\ \A p \in Proc : Good(cmd[p], files, config)
        /\ AloneInv
        /\ CoverInv
------------------------------------------------------------------------------
(* Scripts.                                                                *)

LEMMA TailFacts ==
  ASSUME NEW t \in Seq(Stage), t # <<>>
  PROVE  /\ Head(t) = t[1] /\ Head(t) \in Stage
         /\ Len(t) \in Nat \ {0}
         /\ Tail(t) \in Seq(Stage)
         /\ Len(Tail(t)) = Len(t) - 1
         /\ \A i \in 1..Len(Tail(t)) : Tail(t)[i] = t[i + 1]
         /\ Tail(t) # t
         /\ Tail(t) # <<>> => Len(t) > 1 /\ Head(Tail(t)) = t[2]
         /\ Len(t) > 1 => Tail(t) # <<>>
  <1>1. /\ Head(t) = t[1] /\ Head(t) \in Stage
        /\ Len(t) \in Nat \ {0}
        /\ Tail(t) \in Seq(Stage)
        /\ Len(Tail(t)) = Len(t) - 1
        /\ \A i \in 1..Len(Tail(t)) : Tail(t)[i] = t[i + 1]
    BY HeadTailProperties, EmptySeq, LenProperties
  <1>2. Tail(t) # t
    <2>1. Len(t) \in Nat /\ Len(Tail(t)) = Len(t) - 1
      BY <1>1
    <2>2. \A n \in Nat : n - 1 # n
      OBVIOUS
    <2> QED  BY <2>1, <2>2
  <1>3. Tail(t) # <<>> <=> Len(Tail(t)) # 0
    BY <1>1, EmptySeq
  <1>4. ASSUME Tail(t) # <<>> PROVE Len(t) > 1 /\ Head(Tail(t)) = t[2]
    <2>1. Head(Tail(t)) = Tail(t)[1]
      BY <1>1, <1>4, HeadTailProperties
    <2> QED  BY <2>1, <1>1, <1>3, <1>4
  <1>5. Len(t) > 1 => Tail(t) # <<>>
    BY <1>1, <1>3
  <1> QED  BY <1>1, <1>2, <1>4, <1>5

LEMMA ReloadsTail ==
  ASSUME NEW t \in Seq(Stage), t # <<>>, Reloads(t)
  PROVE  /\ Reloads(Tail(t))
         /\ Head(t) = "save" /\ Tail(t) # <<>> => Head(Tail(t)) = "load"
  <1>1. Reloads(Tail(t))
    BY TailFacts DEF Reloads
  <1>2. Head(t) = t[1] /\ 1 \in 1..Len(t)
    BY TailFacts
  <1>3. Tail(t) # <<>> => Len(t) > 1 /\ Head(Tail(t)) = t[1 + 1]
    BY TailFacts
  <1> QED  BY <1>1, <1>2, <1>3 DEF Reloads

LEMMA OrderedTail ==
  ASSUME NEW svc, NEW t \in Seq(Stage), t # <<>>, Ordered(svc, t)
  PROVE  /\ Ordered(svc, Tail(t))
         /\ svc = "all" =>
              /\ Head(t) = "clean" => Tail(t) # <<>> /\ Head(Tail(t)) = "plan"
              /\ Head(t) = "plan" => Tail(t) # <<>> /\ Head(Tail(t)) = "copy"
              /\ Tail(t) # <<>> /\ Head(Tail(t)) = "plan" => Head(t) = "clean"
              /\ Tail(t) # <<>> /\ Head(Tail(t)) = "copy" => Head(t) = "plan"
         /\ svc # "all" =>
              /\ Head(t) = "plan" => Tail(t) # <<>> /\ Head(Tail(t)) = "clean"
              /\ Head(t) = "clean" => Tail(t) # <<>> /\ Head(Tail(t)) = "copy"
              /\ Tail(t) # <<>> /\ Head(Tail(t)) = "clean" => Head(t) = "plan"
              /\ Tail(t) # <<>> /\ Head(Tail(t)) = "copy" => Head(t) = "clean"
  <1>1. Ordered(svc, Tail(t))
    BY TailFacts DEF Ordered
  <1>2. Head(t) = t[1] /\ 1 \in 1..Len(t)
    BY TailFacts
  <1>3. Tail(t) # <<>> => Len(t) > 1 /\ Head(Tail(t)) = t[1 + 1]
    BY TailFacts
  <1>4. Len(t) > 1 => Tail(t) # <<>>
    BY TailFacts
  <1> QED  BY <1>1, <1>2, <1>3, <1>4 DEF Ordered

(* A script is one of stages, in order.                                    *)
LEMMA ScriptFacts ==
  ASSUME NEW op \in Op, NEW flag \in BOOLEAN, NEW svc,
         op = "enable" <=> svc # "all", op = "generate" => ~flag
  PROVE  /\ Script(op, flag) \in Seq(Stage) /\ Script(op, flag) # <<>>
         /\ Ordered(svc, Script(op, flag))
         /\ op = "generate" => Reloads(Script(op, flag))
         /\ Head(Script(op, flag)) \in {"save", "backup", "clean"}
         /\ Head(Script(op, flag)) # "save" => op = "render"
  <1>1. CASE op = "generate"
    <2>1. Script(op, flag) = <<"save", "load", "clean", "plan", "copy", "load", "save">>
      BY <1>1 DEF Script
    <2> QED  BY <2>1, <1>1 DEF Ordered, Reloads, Stage
  <1>2. CASE op = "render"
    <2>1. CASE flag
      <3>1. Script(op, flag) = <<"backup", "clean", "plan", "copy">>
        BY <1>2, <2>1 DEF Script
      <3> QED  BY <3>1, <1>2 DEF Ordered, Stage
    <2>2. CASE ~flag
      <3>1. Script(op, flag) = <<"clean", "plan", "copy">>
        BY <1>2, <2>2 DEF Script
      <3> QED  BY <3>1, <1>2 DEF Ordered, Stage
    <2> QED  BY <2>1, <2>2
  <1>3. CASE op \in {"enable", "disable"} /\ ~flag
    <2>1. Script(op, flag) = <<"save">>
      BY <1>3 DEF Script
    <2> QED  BY <2>1, <1>3 DEF Ordered, Stage
  <1>4. CASE op = "enable" /\ flag
    <2>1. Script(op, flag) = <<"save", "plan", "clean", "copy">>
      BY <1>4 DEF Script, EnableAndRender
    <2> QED  BY <2>1, <1>4 DEF Ordered, Stage
  <1>5. CASE op = "disable" /\ flag
    <2>1. Script(op, flag) = <<"save", "clean", "plan", "copy">>
      BY <1>5 DEF Script
    <2> QED  BY <2>1, <1>5 DEF Ordered, Stage
  <1> QED  BY <1>1, <1>2, <1>3, <1>4, <1>5 DEF Op

------------------------------------------------------------------------------
(* What becomes of a command.                                              *)

LEMMA GoFacts ==
  ASSUME NEW c \in Command, NEW t \in Seq(Stage)
  PROVE  /\ Go(c, t) \in Command
         /\ Go(c, t).todo = t
         /\ t = <<>> => Go(c, t) = Idle
         /\ t # <<>> => /\ Go(c, t).op = c.op /\ Go(c, t).svc = c.svc
                        /\ Go(c, t).cfg = c.cfg /\ Go(c, t).left = c.left
                        /\ Go(c, t).alone = c.alone
  <1>1. Idle \in Command
    BY BoundAssumption, EmptySeq DEF Idle, Command, Op, Config, Version
  <1> QED  BY <1>1 DEF Go, Command, Idle

LEMMA LeftFacts ==
  ASSUME NEW c \in Command, NEW S \in SUBSET Path
  PROVE  LET d == [c EXCEPT !.left = S] IN
         /\ d \in Command
         /\ d.op = c.op /\ d.svc = c.svc /\ d.cfg = c.cfg /\ d.todo = c.todo
         /\ d.left = S /\ d.alone = c.alone
  BY DEF Command

LEMMA CfgFacts ==
  ASSUME NEW c \in Command, NEW g \in Config
  PROVE  LET d == [c EXCEPT !.cfg = g] IN
         /\ d \in Command
         /\ d.op = c.op /\ d.svc = c.svc /\ d.cfg = g /\ d.todo = c.todo
         /\ d.left = c.left /\ d.alone = c.alone
  BY DEF Command

LEMMA NotAloneFacts ==
  ASSUME NEW c \in Command
  PROVE  LET d == [c EXCEPT !.alone = "no"] IN
         /\ d \in Command
         /\ d.op = c.op /\ d.svc = c.svc /\ d.cfg = c.cfg /\ d.todo = c.todo
         /\ d.left = c.left /\ d.alone = "no"
  BY DEF Command

LEMMA ContentType ==
  ASSUME NEW q \in Path, NEW g \in Config
  PROVE  /\ Content(q, g) \in File /\ Absent \in File /\ Torn \in File
         /\ Content(q, g).is = "whole" /\ Absent.is = "absent"
         /\ Absent.of = {} /\ Content("list", g).of = Enabled(g)
         /\ Content(q, g).of \subseteq Enabled(g)
  BY BoundAssumption DEF Content, Absent, Torn, File, Version, Config, Enabled

LEMMA PlannedFacts ==
  ASSUME NEW c \in Command
  PROVE  /\ Planned(c) \subseteq Owned(c) /\ Owned(c) \subseteq Path
         /\ c.svc # "all" => c.svc \in Service /\ c.svc \in Planned(c)
         /\ c.svc # "all" => Owned(c) \cap Service = {c.svc}
         /\ c.svc = "all" => Planned(c) = Wanted(c.cfg) /\ Owned(c) = Path
  BY SetAssumption DEF Planned, Owned, Wanted, Single, Path, Enabled, Command
------------------------------------------------------------------------------
(* A step of a command p that is d afterwards.                             *)

LEMMA OtherGood ==
  ASSUME IInv, NEW p \in Proc, Running(p), NEW q \in Proc, q # p, NEW f, NEW g
  PROVE  Good(cmd[q], f, g)
  <1>1. ~(cmd[q].todo # <<>> /\ cmd[q].alone = "yes")
    BY DEF IInv, AloneInv, Running
  <1>2. /\ Ordered(cmd[q].svc, cmd[q].todo)
        /\ cmd[q].op = "generate" => Reloads(cmd[q].todo)
    BY DEF IInv, Good
  <1> QED  BY <1>1, <1>2 DEF Good, Current, FullWork, SingleWork, Exact, Is

LEMMA StepKeeps ==
  ASSUME IInv, NEW p \in Proc, Running(p), NEW d \in Command, Becomes(p, d),
         d.todo # <<>> => d.alone = cmd[p].alone,
         Good(d, files', config'), CoverInv',
         config' \in Config, files' \in [Path -> File], backups' \in [Path -> File],
         runs' \in 0..MaxRuns, faults' \in 0..MaxFaults, unrendered' \subseteq Service
  PROVE  IInv'
  <1>1. /\ cmd \in [Proc -> Command]
        /\ cmd' \in [Proc -> Command] /\ cmd'[p] = d
        /\ \A q \in Proc : q # p => cmd'[q] = cmd[q]
    BY DEF IInv, TypeOK, Becomes
  <1>2. TypeOK'
    BY <1>1 DEF TypeOK
  <1>3. \A q \in Proc : Good(cmd'[q], files', config')
    BY <1>1, OtherGood
  <1>4. AloneInv'
    BY <1>1 DEF IInv, AloneInv, Running
  <1> QED  BY <1>2, <1>3, <1>4 DEF IInv

LEMMA CoverKept ==
  ASSUME IInv, NEW p \in Proc, NEW d \in Command, Becomes(p, d),
         Touching(cmd[p]) => Touching(d) /\ d.svc = cmd[p].svc /\ d.alone = cmd[p].alone,
         unrendered \subseteq unrendered',
         \A s \in Service : files[s].is = "whole" /\ files'[s].is # "whole" =>
            Touching(d) /\ s \in Owned(d),
         Enabled(config') \ unrendered' \subseteq Enabled(config),
         \/ files'["list"].of \subseteq files["list"].of
         \/ ~Muddled' => files'["list"].of \subseteq Enabled(config),
         files["list"].of \subseteq Service
  PROVE  CoverInv'
  <1> SUFFICES ASSUME ~Muddled'
               PROVE  (Covered(files["list"].of) /\ Covered(Enabled(config)))'
    BY DEF CoverInv
  <1>1. /\ cmd \in [Proc -> Command] /\ cmd'[p] = d
        /\ \A q \in Proc : q # p => cmd'[q] = cmd[q]
    BY DEF IInv, TypeOK, Becomes
  <1>2. ~Muddled
    BY <1>1 DEF Muddled
  <1>3. Covered(files["list"].of) /\ Covered(Enabled(config))
    BY <1>2 DEF IInv, CoverInv
  <1>4. ASSUME NEW s \in Service,
               \/ files[s].is = "whole"
               \/ \E q \in Proc : Touching(cmd[q]) /\ s \in Owned(cmd[q])
        PROVE  \/ files'[s].is = "whole"
               \/ \E q \in Proc : Touching(cmd'[q]) /\ s \in Owned(cmd'[q])
    <2>1. CASE files[s].is = "whole"
      BY <2>1, <1>1
    <2>2. CASE \E q \in Proc : Touching(cmd[q]) /\ s \in Owned(cmd[q])
      <3>1. PICK q \in Proc : Touching(cmd[q]) /\ s \in Owned(cmd[q])
        BY <2>2
      <3>2. CASE q = p
        <4>1. Owned(d) = Owned(cmd[p])
          BY <3>1, <3>2 DEF Owned
        <4> QED  BY <3>1, <3>2, <4>1, <1>1
      <3>3. CASE q # p
        BY <3>1, <3>3, <1>1
      <3> QED  BY <3>2, <3>3
    <2> QED  BY <1>4, <2>1, <2>2
  <1>5. Enabled(config) \subseteq Service /\ Enabled(config') \subseteq Service
    BY DEF Enabled
  <1>6. ASSUME NEW s \in files'["list"].of \ unrendered'
        PROVE  /\ s \in Service
               /\ \/ files[s].is = "whole"
                  \/ \E q \in Proc : Touching(cmd[q]) /\ s \in Owned(cmd[q])
    BY <1>3, <1>5, <1>6 DEF Covered
  <1>7. ASSUME NEW s \in Enabled(config') \ unrendered'
        PROVE  /\ s \in Service
               /\ \/ files[s].is = "whole"
                  \/ \E q \in Proc : Touching(cmd[q]) /\ s \in Owned(cmd[q])
    BY <1>3, <1>5, <1>7 DEF Covered
  <1> QED  BY <1>4, <1>6, <1>7 DEF Covered
------------------------------------------------------------------------------
(* The steps.                                                              *)

LEMMA IdleFacts ==
  /\ Idle \in Command /\ Idle.todo = <<>>
  /\ \A f, g : Good(Idle, f, g)
  <1>1. Idle \in Command /\ Idle.todo = <<>>
    BY BoundAssumption, EmptySeq DEF Idle, Command, Op, Config, Version
  <1>2. Len(Idle.todo) = 0
    BY <1>1, EmptySeq
  <1> QED
    BY <1>1, <1>2 DEF Good, Ordered, Reloads, Current, FullWork, SingleWork, Is

LEMMA InitInv == Init => IInv
  <1> SUFFICES ASSUME Init PROVE IInv
    OBVIOUS
  <1>1. TypeOK
    BY ContentType, IdleFacts, BoundAssumption DEF Init, TypeOK, Enabled
  <1>2. \A p \in Proc : cmd[p] = Idle
    BY DEF Init
  <1>3. \A p \in Proc : Good(cmd[p], files, config)
    BY <1>2, IdleFacts
  <1>4. AloneInv
    BY <1>2, IdleFacts DEF AloneInv, Running
  <1>5. "list" \in Path
    BY DEF Path
  <1>6. files["list"].of = {} /\ unrendered = Enabled(config)
    BY <1>5 DEF Init, Absent
  <1>7. CoverInv
    BY <1>6 DEF CoverInv, Covered
  <1> QED  BY <1>1, <1>3, <1>4, <1>7 DEF IInv

(* What all steps of p start from.                                         *)
LEMMA Before ==
  ASSUME IInv, NEW p \in Proc, Running(p)
  PROVE  /\ cmd[p] \in Command /\ cmd[p].todo \in Seq(Stage) /\ cmd[p].todo # <<>>
         /\ cmd[p].left \subseteq Path /\ cmd[p].cfg \in Config
         /\ cmd[p].alone \in {"yes", "no"}
         /\ Good(cmd[p], files, config)
         /\ config \in Config /\ files \in [Path -> File] /\ backups \in [Path -> File]
         /\ runs \in 0..MaxRuns /\ faults \in 0..MaxFaults /\ unrendered \subseteq Service
         /\ "list" \in Path /\ "root" \in Path /\ files["list"].of \subseteq Service
  <1>1. "list" \in Path /\ "root" \in Path
    BY DEF Path
  <1> QED
    BY <1>1 DEF IInv, TypeOK, Command, Running, File

(* A command goes on to its next stage.                                    *)
LEMMA DoneFacts ==
  ASSUME NEW c \in Command, NEW t \in Seq(Stage), c.todo = t, t # <<>>,
         Ordered(c.svc, t), c.op = "generate" => Reloads(t)
  PROVE  LET d == Done(c) IN
         /\ d \in Command /\ d.todo = Tail(t)
         /\ Ordered(d.svc, d.todo)
         /\ d.op = "generate" => Reloads(d.todo)
         /\ d.todo # <<>> => /\ d.op = c.op /\ d.svc = c.svc /\ d.cfg = c.cfg
                             /\ d.left = c.left /\ d.alone = c.alone
         /\ d.todo = <<>> => \A f, g : Good(d, f, g)
  <1>1. Tail(t) \in Seq(Stage)
    BY TailFacts
  <1>2. CASE Tail(t) = <<>>
    BY <1>1, <1>2, GoFacts, IdleFacts DEF Done, Good
  <1>3. CASE Tail(t) # <<>>
    <2> DEFINE d == Done(c)
    <2>1. /\ d \in Command /\ d.todo = Tail(t)
          /\ d.op = c.op /\ d.svc = c.svc /\ d.cfg = c.cfg
          /\ d.left = c.left /\ d.alone = c.alone
      BY <1>1, <1>3, GoFacts DEF Done
    <2>2. Ordered(d.svc, d.todo)
      BY <2>1, OrderedTail
    <2>3. d.op = "generate" => Reloads(d.todo)
      BY <2>1, ReloadsTail
    <2> QED  BY <1>3, <2>1, <2>2, <2>3
  <1> QED  BY <1>2, <1>3

LEMMA SaveStep ==
  ASSUME IInv, NEW p \in Proc, Save(p)
  PROVE  IInv'
  <1> DEFINE c == cmd[p]
             d == Done(c)
  <1>1. /\ Running(p) /\ Head(c.todo) = "save"
        /\ config' = c.cfg /\ files' = files /\ backups' = backups
        /\ runs' = runs /\ faults' = faults
        /\ unrendered' = unrendered \cup (Enabled(c.cfg) \ Enabled(config))
        /\ Becomes(p, d)
    BY DEF Save, At
  <1>2. /\ c \in Command /\ c.todo \in Seq(Stage) /\ c.todo # <<>>
        /\ Ordered(c.svc, c.todo) /\ (c.op = "generate" => Reloads(c.todo))
        /\ c.cfg \in Config
    BY <1>1, Before DEF Good
  <1> HIDE DEF c
  <1>3. /\ d \in Command /\ d.todo = Tail(c.todo)
        /\ Ordered(d.svc, d.todo) /\ (d.op = "generate" => Reloads(d.todo))
        /\ d.todo # <<>> => /\ d.op = c.op /\ d.svc = c.svc /\ d.cfg = c.cfg
                            /\ d.left = c.left /\ d.alone = c.alone
        /\ d.todo = <<>> => \A f, g : Good(d, f, g)
    BY <1>2, DoneFacts
  <1> HIDE DEF d
  <1>4. Good(d, files', config')
    <2>1. CASE d.todo = <<>>
      BY <2>1, <1>3
    <2>2. CASE d.todo # <<>>
      <3>1. /\ c.svc = "all" => ~Is(d, "plan") /\ ~Is(d, "copy")
            /\ c.svc # "all" => ~Is(d, "clean") /\ ~Is(d, "copy")
        BY <1>1, <1>2, <1>3, OrderedTail DEF Is
      <3> QED  BY <3>1, <2>2, <1>1, <1>3 DEF Good, Current, FullWork, SingleWork, Exact
    <2> QED  BY <2>1, <2>2
  <1>5. ~Touching(c)
    BY <1>1 DEF Touching, Touched
  <1>6. Enabled(c.cfg) \subseteq Service
    BY DEF Enabled
  <1>7. CoverInv'
    <2>1. Enabled(config') \ unrendered' \subseteq Enabled(config)
      BY <1>1
    <2>2. files["list"].of \subseteq Service
      BY <1>1, Before
    <2>3. ~Touching(cmd[p])
      BY <1>5 DEF c
    <2> QED  BY <1>1, <1>3, <2>1, <2>2, <2>3, CoverKept
  <1> QED
    BY <1>1, <1>2, <1>3, <1>4, <1>6, <1>7, StepKeeps, Before DEF c

(* The facts of Before and DoneFacts for the step at hand.                 *)
LEMMA AtFacts ==
  ASSUME IInv, NEW p \in Proc, NEW stage, At(p, stage),
         NEW c \in Command, c.todo = cmd[p].todo, c.op = cmd[p].op, c.svc = cmd[p].svc
  PROVE  LET d == Done(c) IN
         /\ Running(p) /\ Head(c.todo) = stage
         /\ c.todo \in Seq(Stage) /\ c.todo # <<>> /\ Ordered(c.svc, c.todo)
         /\ (c.op = "generate" => Reloads(c.todo))
         /\ d \in Command /\ d.todo = Tail(c.todo)
         /\ Ordered(d.svc, d.todo)
         /\ (d.op = "generate" => Reloads(d.todo))
         /\ d.todo # <<>> => /\ d.op = c.op /\ d.svc = c.svc /\ d.cfg = c.cfg
                             /\ d.left = c.left /\ d.alone = c.alone
         /\ d.todo = <<>> => \A f, g : Good(d, f, g)
  <1>1. /\ Running(p) /\ Head(c.todo) = stage
        /\ c.todo \in Seq(Stage) /\ c.todo # <<>> /\ Ordered(c.svc, c.todo)
        /\ (c.op = "generate" => Reloads(c.todo))
    BY Before DEF At, Good
  <1> QED  BY <1>1, DoneFacts

LEMMA LoadStep ==
  ASSUME IInv, NEW p \in Proc, Load(p)
  PROVE  IInv'
  <1> DEFINE c == [cmd[p] EXCEPT !.cfg = config]
             d == Done(c)
  <1>1. /\ At(p, "load") /\ Running(p) /\ Head(cmd[p].todo) = "load" /\ Becomes(p, d)
        /\ config' = config /\ files' = files /\ backups' = backups
        /\ runs' = runs /\ faults' = faults /\ unrendered' = unrendered
    BY DEF Load, At
  <1>2. /\ c \in Command /\ c.todo = cmd[p].todo /\ c.op = cmd[p].op
        /\ c.svc = cmd[p].svc /\ c.cfg = config /\ c.alone = cmd[p].alone
    BY <1>1, Before, CfgFacts
  <1> HIDE DEF c
  <1>3. /\ c.todo \in Seq(Stage) /\ c.todo # <<>> /\ Ordered(c.svc, c.todo)
        /\ d \in Command /\ d.todo = Tail(c.todo)
        /\ Ordered(d.svc, d.todo) /\ (d.op = "generate" => Reloads(d.todo))
        /\ d.todo # <<>> => /\ d.op = c.op /\ d.svc = c.svc /\ d.cfg = c.cfg
                            /\ d.left = c.left /\ d.alone = c.alone
        /\ d.todo = <<>> => \A f, g : Good(d, f, g)
    BY <1>1, <1>2, AtFacts
  <1> HIDE DEF d
  <1>4. Good(d, files', config')
    <2>1. CASE d.todo = <<>>
      BY <2>1, <1>3
    <2>2. CASE d.todo # <<>>
      <3>1. /\ c.svc = "all" => ~Is(d, "plan") /\ ~Is(d, "copy")
            /\ c.svc # "all" => ~Is(d, "clean") /\ ~Is(d, "copy")
        BY <1>1, <1>2, <1>3, OrderedTail DEF Is
      <3> QED  BY <3>1, <2>2, <1>1, <1>2, <1>3
               DEF Good, Current, FullWork, SingleWork, Exact
    <2> QED  BY <2>1, <2>2
  <1>5. ~Touching(cmd[p])
    BY <1>1 DEF Touching, Touched
  <1>6. files["list"].of \subseteq Service
    BY <1>1, Before
  <1>7. CoverInv'
    BY <1>1, <1>3, <1>5, <1>6, CoverKept
  <1> QED
    BY <1>1, <1>2, <1>3, <1>4, <1>7, StepKeeps, Before

LEMMA BackupStep ==
  ASSUME IInv, NEW p \in Proc, Backup(p)
  PROVE  IInv'
  <1> DEFINE c == cmd[p]
             d == Done(c)
  <1>1. /\ At(p, "backup") /\ Running(p) /\ Head(c.todo) = "backup" /\ Becomes(p, d)
        /\ config' = config /\ files' = files
        /\ runs' = runs /\ faults' = faults /\ unrendered' = unrendered
    BY DEF Backup, At
  <1>2. backups' \in [Path -> File]
    BY <1>1, Before DEF Backup
  <1>3. /\ c \in Command
        /\ c.todo \in Seq(Stage) /\ c.todo # <<>> /\ Ordered(c.svc, c.todo)
        /\ d \in Command /\ d.todo = Tail(c.todo)
        /\ Ordered(d.svc, d.todo) /\ (d.op = "generate" => Reloads(d.todo))
        /\ d.todo # <<>> => /\ d.op = c.op /\ d.svc = c.svc /\ d.cfg = c.cfg
                            /\ d.left = c.left /\ d.alone = c.alone
        /\ d.todo = <<>> => \A f, g : Good(d, f, g)
    BY <1>1, Before, AtFacts
  <1>4. Current(c, config)
    BY <1>1, Before DEF Good
  <1>5. Good(d, files', config')
    <2>1. CASE d.todo = <<>>
      BY <2>1, <1>3
    <2>2. CASE d.todo # <<>>
      <3>1. LET t == c.todo IN
            /\ c.svc = "all" /\ Tail(t) # <<>> => Head(Tail(t)) \notin {"plan", "copy"}
            /\ c.svc # "all" /\ Tail(t) # <<>> => Head(Tail(t)) \notin {"clean", "copy"}
        BY ONLY <1>1, <1>3, OrderedTail
      <3>2. /\ c.svc = "all" => ~Is(d, "plan") /\ ~Is(d, "copy")
            /\ c.svc # "all" => ~Is(d, "clean") /\ ~Is(d, "copy")
        BY ONLY <1>3, <3>1 DEF Is
      <3>3. Current(d, config)
        BY <2>2, <1>1, <1>3, <1>4 DEF Current, Is
      <3> HIDE DEF c, d
      <3> QED  BY <3>2, <3>3, <2>2, <1>1, <1>3 DEF Good, FullWork, SingleWork, Exact
    <2> QED  BY <2>1, <2>2
  <1>6. ~Touching(cmd[p])
    BY <1>1 DEF Touching, Touched
  <1>7. files["list"].of \subseteq Service
    BY <1>1, Before
  <1>8. CoverInv'
    BY <1>1, <1>3, <1>6, <1>7, CoverKept
  <1> QED
    BY <1>1, <1>2, <1>3, <1>5, <1>8, StepKeeps, Before

LEMMA CleanStep ==
  ASSUME IInv, NEW p \in Proc, Clean(p)
  PROVE  IInv'
  <1> DEFINE c == cmd[p]
             d == Done(c)
  <1>1. /\ At(p, "clean") /\ Running(p) /\ Head(c.todo) = "clean" /\ Becomes(p, d)
        /\ config' = config /\ runs' = runs /\ faults' = faults
        /\ unrendered' = unrendered
        /\ files' = [q \in Path |-> IF q \in Owned(c) THEN Absent ELSE files[q]]
    BY DEF Clean, At
  <1>2. /\ backups' \in [Path -> File] /\ files' \in [Path -> File]
        /\ files'["list"].of \subseteq files["list"].of
    <2>1. files' \in [Path -> File] /\ files'["list"].of \subseteq files["list"].of
      BY <1>1, Before, ContentType
    <2>2. backups' \in [Path -> File]
      BY <1>1, Before, ContentType DEF Clean
    <2> QED  BY <2>1, <2>2
  <1>3. /\ c \in Command
        /\ c.todo \in Seq(Stage) /\ c.todo # <<>> /\ Ordered(c.svc, c.todo)
        /\ d \in Command /\ d.todo = Tail(c.todo)
        /\ Ordered(d.svc, d.todo) /\ (d.op = "generate" => Reloads(d.todo))
        /\ d.todo # <<>> => /\ d.op = c.op /\ d.svc = c.svc /\ d.cfg = c.cfg
                            /\ d.left = c.left /\ d.alone = c.alone
    BY <1>1, Before, AtFacts
  <1>4. Current(c, config) /\ SingleWork(c, files)
    BY <1>1, Before DEF Good
  <1>5. /\ d.todo # <<>>
        /\ c.svc = "all" => Head(d.todo) = "plan"
        /\ c.svc # "all" => Head(d.todo) = "copy"
    BY <1>1, <1>3, OrderedTail
  <1>6. Good(d, files', config')
    <2>1. Current(d, config)
      BY <1>1, <1>3, <1>4 DEF Current, Is
    <2>2. FullWork(d, files')
      <3> SUFFICES ASSUME Exact(d) PROVE files' = [q \in Path |-> Absent] /\ ~Is(d, "copy")
        BY DEF FullWork
      <3>1. c.svc = "all" /\ ~Is(d, "copy")
        BY <1>3, <1>5 DEF Exact, Is
      <3>2. Owned(c) = Path
        BY <3>1 DEF Owned
      <3> HIDE DEF c, d
      <3> QED  BY <3>1, <3>2, <1>1
    <2>3. SingleWork(d, files')
      BY <1>1, <1>3, <1>4, <1>5 DEF SingleWork, Is
    <2> HIDE DEF c, d
    <2> QED  BY <2>1, <2>2, <2>3, <1>1, <1>3 DEF Good
  <1>7. Touching(d) /\ d.svc = c.svc /\ d.alone = c.alone
    BY <1>3, <1>5 DEF Touching, Touched
  <1>8. \A s \in Service : files[s].is = "whole" /\ files'[s].is # "whole" =>
            Touching(d) /\ s \in Owned(d)
    <2>1. Owned(d) = Owned(c)
      BY <1>7 DEF Owned
    <2>2. Service \subseteq Path
      BY DEF Path
    <2> QED  BY <2>1, <2>2, <1>1, <1>7
  <1>9. files["list"].of \subseteq Service
    BY <1>1, Before
  <1>10. CoverInv'
    BY <1>1, <1>2, <1>3, <1>7, <1>8, <1>9, CoverKept
  <1> QED
    BY <1>1, <1>2, <1>3, <1>6, <1>10, StepKeeps, Before

LEMMA PlanStep ==
  ASSUME IInv, NEW p \in Proc, Plan(p)
  PROVE  IInv'
  <1> DEFINE b == cmd[p]
             c == [b EXCEPT !.left = Planned(b)]
             d == Done(c)
  <1>1. /\ At(p, "plan") /\ Running(p) /\ Head(b.todo) = "plan" /\ Becomes(p, d)
        /\ config' = config /\ files' = files /\ backups' = backups
        /\ runs' = runs /\ faults' = faults /\ unrendered' = unrendered
    BY DEF Plan, At
  <1>2. /\ b \in Command /\ Planned(b) \subseteq Path
        /\ b.svc = "all" => Planned(b) = Wanted(b.cfg)
        /\ b.svc # "all" => b.svc \in Planned(b)
        /\ Good(b, files, config)
    BY <1>1, Before, PlannedFacts
  <1>3. /\ c \in Command /\ c.todo = b.todo /\ c.op = b.op /\ c.svc = b.svc
        /\ c.cfg = b.cfg /\ c.alone = b.alone /\ c.left = Planned(b)
    BY <1>2, LeftFacts
  <1> HIDE DEF c
  <1>4. /\ c.todo \in Seq(Stage) /\ c.todo # <<>> /\ Ordered(c.svc, c.todo)
        /\ d \in Command /\ d.todo = Tail(c.todo)
        /\ Ordered(d.svc, d.todo) /\ (d.op = "generate" => Reloads(d.todo))
        /\ d.todo # <<>> => /\ d.op = c.op /\ d.svc = c.svc /\ d.cfg = c.cfg
                            /\ d.left = c.left /\ d.alone = c.alone
    BY <1>1, <1>3, AtFacts
  <1> HIDE DEF d
  <1>5. /\ d.todo # <<>>
        /\ b.svc = "all" => Head(d.todo) = "copy"
        /\ b.svc # "all" => Head(d.todo) = "clean"
    <2>1. Head(c.todo) = "plan" /\ b.svc = c.svc
      BY <1>1, <1>3
    <2> HIDE DEF b
    <2>2. /\ Tail(c.todo) # <<>>
          /\ c.svc = "all" => Head(Tail(c.todo)) = "copy"
          /\ c.svc # "all" => Head(Tail(c.todo)) = "clean"
      BY <2>1, <1>4, OrderedTail
    <2> QED  BY <2>1, <2>2, <1>4
  <1>6. Good(d, files', config')
    <2>1. Current(d, config)
      BY <1>1, <1>2, <1>3, <1>4 DEF Good, Current, Is
    <2>2. FullWork(d, files)
      <3> SUFFICES ASSUME Exact(d)
                   PROVE  ~Is(d, "plan") /\ d.left \subseteq Wanted(d.cfg) /\ files = Partial(d)
        BY DEF FullWork
      <3>1. b.svc = "all" /\ Exact(b)
        BY <1>3, <1>4, <1>5 DEF Exact
      <3>2. files = [q \in Path |-> Absent]
        BY <3>1, <1>1, <1>2 DEF Good, FullWork, Is, At, Running
      <3>3. d.left = Wanted(d.cfg)
        BY <3>1, <1>2, <1>3, <1>4, <1>5
      <3>4. Partial(d) = [q \in Path |-> Absent]
        BY <3>3 DEF Partial
      <3>5. ~Is(d, "plan")
        BY <3>1, <1>5 DEF Is
      <3> QED  BY <3>2, <3>3, <3>4, <3>5
    <2>3. SingleWork(d, files)
      <3>1. d.svc # "all" => d.svc \in d.left /\ ~Is(d, "copy")
        BY <1>2, <1>3, <1>4, <1>5 DEF Is
      <3> QED  BY <3>1 DEF SingleWork
    <2> QED  BY <2>1, <2>2, <2>3, <1>1, <1>4 DEF Good
  <1>7. Touching(b) => Touching(d) /\ d.svc = b.svc /\ d.alone = b.alone
    BY <1>1, <1>3, <1>4, <1>5 DEF Touching, Touched
  <1>8. files["list"].of \subseteq Service
    BY <1>1, Before
  <1>9. CoverInv'
    <2>1. \A s \in Service : ~(files[s].is = "whole" /\ files'[s].is # "whole")
      BY <1>1
    <2>2. Enabled(config') \ unrendered' \subseteq Enabled(config)
      BY <1>1
    <2>3. files'["list"].of \subseteq files["list"].of /\ unrendered \subseteq unrendered'
      BY <1>1
    <2> HIDE DEF b
    <2>4. Touching(cmd[p]) => Touching(d) /\ d.svc = cmd[p].svc /\ d.alone = cmd[p].alone
      BY <1>7 DEF b
    <2> QED  BY <1>1, <1>4, <1>8, <2>1, <2>2, <2>3, <2>4, CoverKept
  <1> QED
    BY <1>1, <1>3, <1>4, <1>6, <1>9, StepKeeps, Before

(* A copy that is not the last one.                                        *)
LEMMA CopyStep ==
  ASSUME IInv, NEW p \in Proc, NEW q \in Path, Copy(p, q), cmd[p].left # {q}
  PROVE  IInv'
  <1> DEFINE c == cmd[p]
             d == [c EXCEPT !.left = c.left \ {q}]
  <1>1. /\ At(p, "copy") /\ Running(p) /\ Is(c, "copy") /\ Becomes(p, d) /\ q \in c.left
        /\ config' = config /\ backups' = backups
        /\ runs' = runs /\ faults' = faults /\ unrendered' = unrendered
        /\ files' = [files EXCEPT ![q] = Content(q, c.cfg)]
    BY DEF Copy, At, Running, Is
  <1>2. /\ c \in Command /\ c.left \ {q} \in SUBSET Path /\ Good(c, files, config)
        /\ c.cfg \in Config /\ c.alone \in {"yes", "no"}
        /\ files \in [Path -> File] /\ "list" \in Path /\ files["list"].of \subseteq Service
    BY <1>1, Before
  <1>3. Running(p)
    BY <1>1
  <1> HIDE DEF c
  <1>4. /\ d \in Command /\ d.op = c.op /\ d.svc = c.svc /\ d.cfg = c.cfg
        /\ d.todo = c.todo /\ d.left = c.left \ {q} /\ d.alone = c.alone
    BY <1>2, LeftFacts
  <1> HIDE DEF d
  <1>5. files' \in [Path -> File]
    BY <1>1, <1>2, ContentType
  <1>6. Good(d, files', config')
    <2>1. Current(d, config)
      BY <1>2, <1>4 DEF Good, Current, Is
    <2>2. FullWork(d, files')
      <3> SUFFICES ASSUME Exact(d)
                   PROVE  /\ ~Is(d, "plan") /\ d.left \subseteq Wanted(d.cfg)
                          /\ files' = Partial(d)
        BY DEF FullWork
      <3>1. ~Is(d, "plan")
        BY <1>1, <1>4 DEF Is
      <3>2. c.left \subseteq Wanted(c.cfg) /\ files = Partial(c)
        BY <1>1, <1>2, <1>4 DEF Good, FullWork, Exact
      <3>3. \A x \in Path : files'[x] = Partial(d)[x]
        BY <1>1, <1>2, <1>4, <3>2 DEF Partial
      <3>4. files' = Partial(d)
        BY <3>3, <1>5 DEF Partial
      <3> QED  BY <3>1, <3>2, <3>4, <1>4
    <2>3. SingleWork(d, files')
      <3>1. ASSUME c.svc # "all", c.alone = "yes"
            PROVE  ~Is(d, "clean") /\ (c.svc \in d.left \/ files'[c.svc].is = "whole")
        <4>1. c.svc \in c.left \/ files[c.svc].is = "whole"
          BY <1>1, <1>2, <3>1 DEF Good, SingleWork
        <4>2. c.svc \in Path
          BY <1>2, <3>1, PlannedFacts DEF Path
        <4>3. CASE c.svc = q
          BY <4>2, <4>3, <1>1, <1>2, <1>4, ContentType DEF Is
        <4>4. CASE c.svc # q
          BY <4>1, <4>2, <4>4, <1>1, <1>2, <1>4 DEF Is
        <4> QED  BY <4>3, <4>4
      <3> QED  BY <3>1, <1>4 DEF SingleWork
    <2> QED  BY <2>1, <2>2, <2>3, <1>1, <1>2, <1>4 DEF Good
  <1>7. Touching(d) /\ d.svc = c.svc /\ d.alone = c.alone
    BY <1>1, <1>4 DEF Touching, Touched, Is
  <1>8. \A s \in Service : ~(files[s].is = "whole" /\ files'[s].is # "whole")
    BY <1>1, <1>2, ContentType DEF Path
  <1>9. \/ files'["list"].of \subseteq files["list"].of
        \/ ~Muddled' => files'["list"].of \subseteq Enabled(config)
    <2>1. CASE q = "list"
      <3>1. files'["list"].of = Enabled(c.cfg)
        BY <2>1, <1>1, <1>2, ContentType
      <3>2. ASSUME ~Muddled' PROVE c.cfg = config
        <4>1. cmd'[p] = d
          BY <1>1, <1>3 DEF IInv, TypeOK, Becomes
        <4>2. c.alone = "yes"
          BY <3>2, <4>1, <1>2, <1>7 DEF Muddled
        <4> QED  BY <4>2, <1>1, <1>2 DEF Good, Current, Is
      <3> QED  BY <3>1, <3>2
    <2>2. CASE q # "list"
      BY <2>2, <1>1, <1>2
    <2> QED  BY <2>1, <2>2
  <1>10. CoverInv'
    <2>1. Enabled(config') \ unrendered' \subseteq Enabled(config)
      BY <1>1
    <2>2. d.svc = cmd[p].svc /\ d.alone = cmd[p].alone
      BY <1>7 DEF c
    <2> QED  BY <1>1, <1>2, <1>4, <1>7, <1>8, <1>9, <2>1, <2>2, CoverKept
  <1> QED
    BY <1>1, <1>2, <1>4, <1>5, <1>6, <1>10, StepKeeps, Before DEF c

(* The last copy of a full render that runs alone.                         *)
LEMMA LastCopy ==
  ASSUME IInv, NEW p \in Proc, NEW q \in Path, Copy(p, q), cmd[p].left = {q},
         Exact(cmd[p])
  PROVE  files' = Target(cmd[p].cfg)
  <1> DEFINE c == cmd[p]
  <1>1. At(p, "copy") /\ files' = [files EXCEPT ![q] = Content(q, c.cfg)]
    BY DEF Copy
  <1>2. Is(c, "copy") /\ Running(p)
    BY <1>1 DEF At, Is, Running
  <1>3. FullWork(c, files) /\ files \in [Path -> File] /\ c.cfg \in Config
    BY <1>2, Before DEF Good
  <1> HIDE DEF c
  <1>4. q \in Wanted(c.cfg) /\ files = Partial(c) /\ c.left = {q}
    BY <1>2, <1>3 DEF FullWork, c
  <1>5. \A x \in Path : files'[x] = Target(c.cfg)[x]
    BY <1>1, <1>3, <1>4 DEF Partial, Target
  <1>6. DOMAIN files' = Path /\ DOMAIN Target(c.cfg) = Path
    BY <1>1, <1>3 DEF Target
  <1>7. files' = [x \in Path |-> files'[x]] /\ Target(c.cfg) = [x \in Path |-> Target(c.cfg)[x]]
    BY <1>1, <1>3, <1>6 DEF Target
  <1>8. files' = Target(c.cfg)
    BY <1>5, <1>7
  <1> QED  BY <1>8 DEF c

LEMMA LastCopyStep ==
  ASSUME IInv, NEW p \in Proc, NEW q \in Path, Copy(p, q), cmd[p].left = {q}
  PROVE  IInv'
  <1> DEFINE b == cmd[p]
             c == [b EXCEPT !.left = {}]
             d == Done(c)
  <1>1. /\ At(p, "copy") /\ Running(p) /\ Is(b, "copy") /\ Becomes(p, d)
        /\ config' = config /\ backups' = backups /\ runs' = runs /\ faults' = faults
        /\ files' = [files EXCEPT ![q] = Content(q, b.cfg)]
        /\ unrendered' = CASE Exact(b) -> {}
                            [] b.alone = "no" -> Service
                            [] OTHER -> unrendered \ {b.svc}
    BY DEF Copy, At, Running, Is
  <1>2. /\ b \in Command /\ Good(b, files, config) /\ b.cfg \in Config
        /\ b.alone \in {"yes", "no"} /\ config \in Config
        /\ files \in [Path -> File] /\ "list" \in Path /\ files["list"].of \subseteq Service
        /\ unrendered \subseteq Service
    BY <1>1, Before
  <1>3. /\ c \in Command /\ c.op = b.op /\ c.svc = b.svc /\ c.cfg = b.cfg
        /\ c.todo = b.todo /\ c.alone = b.alone
    BY <1>2, LeftFacts
  <1> HIDE DEF c
  <1>4. /\ c.todo \in Seq(Stage) /\ c.todo # <<>> /\ Ordered(c.svc, c.todo)
        /\ Head(c.todo) = "copy"
        /\ d \in Command /\ d.todo = Tail(c.todo)
        /\ Ordered(d.svc, d.todo) /\ (d.op = "generate" => Reloads(d.todo))
        /\ d.todo # <<>> => /\ d.op = c.op /\ d.svc = c.svc /\ d.cfg = c.cfg
                            /\ d.left = c.left /\ d.alone = c.alone
        /\ d.todo = <<>> => \A f, g : Good(d, f, g)
    BY <1>1, <1>3, AtFacts
  <1> HIDE DEF d
  <1>5. Good(d, files', config')
    <2>1. CASE d.todo = <<>>
      BY <2>1, <1>4
    <2>2. CASE d.todo # <<>>
      <3>1. /\ c.svc = "all" => ~Is(d, "plan") /\ ~Is(d, "copy")
            /\ c.svc # "all" => ~Is(d, "clean") /\ ~Is(d, "copy")
        BY <1>4, OrderedTail DEF Is
      <3>2. Current(d, config)
        BY <2>2, <1>1, <1>2, <1>3, <1>4 DEF Good, Current, Is
      <3> QED  BY <3>1, <3>2, <2>2, <1>1, <1>4 DEF Good, FullWork, SingleWork, Exact
    <2> QED  BY <2>1, <2>2
  <1>6. /\ files' \in [Path -> File] /\ unrendered' \subseteq Service
        /\ files'["list"].of \subseteq Service
    <2>1. files' \in [Path -> File]
      BY <1>1, <1>2, ContentType
    <2>2. unrendered' \subseteq Service
      BY <1>1, <1>2
    <2> QED  BY <2>1, <2>2, <1>2 DEF File
  <1>7. b.alone = "yes" => b.cfg = config
    BY <1>1, <1>2 DEF Good, Current, Is
  <1>8. CoverInv'
    <2>1. CASE Exact(b)
      <3>1. files' = Target(config)
        BY <2>1, <1>7, LastCopy DEF Exact, Copy
      <3>2. /\ files'["list"].of = Enabled(config)
            /\ \A s \in Enabled(config) : files'[s].is = "whole"
        BY <3>1, <1>2 DEF Target, Wanted, Content, Path, Enabled
      <3> QED  BY <3>2, <1>1 DEF CoverInv, Covered
    <2>2. CASE b.alone = "no"
      <3>1. unrendered' = Service
        BY <2>2, <1>1 DEF Exact
      <3>2. Enabled(config') \subseteq Service
        BY DEF Enabled
      <3> QED  BY <3>1, <3>2, <1>6 DEF CoverInv, Covered
    <2>3. CASE b.alone = "yes" /\ b.svc # "all"
      <3>1. unrendered' = unrendered \ {b.svc}
        BY <2>3, <1>1 DEF Exact
      <3>2. \A r \in Proc : Running(r) => r = p
        BY <2>3, <1>1 DEF IInv, AloneInv
      <3>3. Covered(files["list"].of) /\ Covered(Enabled(config))
        <4>1. ~Muddled
          BY <3>2, <2>3 DEF Muddled, Touching, Running
        <4> QED  BY <4>1 DEF IInv, CoverInv
      <3>4. b.svc \in Service /\ Owned(b) \cap Service = {b.svc} /\ b.svc \in Path
        BY <2>3, <1>2, PlannedFacts DEF Path
      <3>5. files'[b.svc].is = "whole"
        <4>1. b.svc \in {q} \/ files[b.svc].is = "whole"
          BY <2>3, <1>1, <1>2 DEF Good, SingleWork
        <4>2. CASE b.svc = q
          BY <4>2, <3>4, <1>1, <1>2, ContentType
        <4>3. CASE b.svc # q
          BY <4>1, <4>3, <3>4, <1>1, <1>2
        <4> QED  BY <4>2, <4>3
      <3>6. \A s \in Service : files[s].is = "whole" => files'[s].is = "whole"
        BY <1>1, <1>2, ContentType DEF Path
      <3>7. ASSUME NEW s \in (files["list"].of \cup Enabled(config)) \ unrendered'
            PROVE  files'[s].is = "whole"
        <4>1. CASE s = b.svc
          BY <4>1, <3>5
        <4>2. CASE s # b.svc
          <5>1. s \in Service /\ s \notin unrendered
            BY <4>2, <3>1, <3>7, <1>2 DEF Enabled
          <5>2. ~\E r \in Proc : Touching(cmd[r]) /\ s \in Owned(cmd[r])
            BY <4>2, <5>1, <3>2, <3>4 DEF Touching, Running
          <5>3. files[s].is = "whole"
            BY <5>1, <5>2, <3>3, <3>7 DEF Covered
          <5> QED  BY <5>1, <5>3, <3>6
        <4> QED  BY <4>1, <4>2
      <3>8. files'["list"].of \in {files["list"].of, Enabled(config)}
        BY <2>3, <1>1, <1>2, <1>7, ContentType
      <3> QED  BY <3>7, <3>8, <1>1 DEF CoverInv, Covered
    <2> QED  BY <2>1, <2>2, <2>3, <1>2 DEF Exact
  <1> HIDE DEF b
  <1>9. d.todo # <<>> => d.alone = cmd[p].alone
    BY <1>3, <1>4 DEF b
  <1> QED
    BY <1>1, <1>2, <1>4, <1>5, <1>6, <1>8, <1>9, StepKeeps, Before

(* What a fault makes of a command.                                        *)
LEMMA FailsFacts ==
  ASSUME NEW c \in Command, c.todo # <<>>, Ordered(c.svc, c.todo),
         c.op = "generate" => Reloads(c.todo), NEW d \in {Fails(c), Idle}
  PROVE  /\ d \in Command /\ \A f, g : Good(d, f, g)
         /\ d.todo # <<>> => d.alone = c.alone
  <1>1. c.todo \in Seq(Stage)
    BY DEF Command
  <1>2. CASE d = Idle
    BY <1>2, IdleFacts
  <1>3. CASE d = Done(c) /\ c.op = "generate" /\ Head(c.todo) = "save"
    <2>1. /\ d \in Command /\ d.todo = Tail(c.todo)
          /\ Ordered(d.svc, d.todo) /\ (d.op = "generate" => Reloads(d.todo))
          /\ d.todo # <<>> => d.svc = c.svc /\ d.alone = c.alone
          /\ d.todo = <<>> => \A f, g : Good(d, f, g)
      BY <1>1, <1>3, DoneFacts
    <2>2. d.todo # <<>> => Head(d.todo) = "load"
      BY <1>1, <1>3, <2>1, ReloadsTail
    <2>3. d.todo # <<>> => \A f, g : Good(d, f, g)
      BY <2>1, <2>2 DEF Good, Current, FullWork, SingleWork, Is
    <2> QED  BY <2>1, <2>3
  <1>4. CASE d = AfterError(c) /\ c.op = "generate"
    <2> DEFINE b == [c EXCEPT !.left = {}]
               t == <<"load", "save">>
    <2>1. t \in Seq(Stage) /\ t # <<>> /\ Head(t) = "load"
          /\ \A svc : Ordered(svc, t)
          /\ Reloads(t)
      BY DEF Stage, Ordered, Reloads
    <2>2. b \in Command /\ b.alone = c.alone /\ b.op = c.op
      BY LeftFacts
    <2>3. d = Go(b, t)
      BY <1>4 DEF AfterError
    <2> HIDE DEF b, t
    <2>4. d \in Command /\ d.todo = t /\ d.alone = c.alone
      BY <2>1, <2>2, <2>3, GoFacts
    <2> QED  BY <2>1, <2>4 DEF Good, Current, FullWork, SingleWork, Is
  <1>5. CASE d = AfterError(c) /\ c.op # "generate"
    <2>1. d = Idle
      BY <1>5 DEF AfterError, Go
    <2> QED  BY <2>1, IdleFacts
  <1> QED  BY <1>2, <1>3, <1>4, <1>5 DEF Fails

LEMMA InterruptStep ==
  ASSUME IInv, NEW p \in Proc, Interrupt(p)
  PROVE  IInv'
  <1> DEFINE c == cmd[p]
  <1>1. PICK d \in {Fails(c), Idle} : Becomes(p, d)
    BY DEF Interrupt
  <1>2. /\ Running(p) /\ faults < MaxFaults /\ faults' = faults + 1
        /\ config' = config /\ backups' = backups /\ runs' = runs
        /\ unrendered' = IF Touched(c) THEN Service ELSE unrendered
    BY DEF Interrupt
  <1>3. /\ c \in Command /\ c.todo # <<>> /\ Ordered(c.svc, c.todo)
        /\ (c.op = "generate" => Reloads(c.todo))
        /\ config \in Config /\ files \in [Path -> File] /\ "list" \in Path
        /\ files["list"].of \subseteq Service /\ unrendered \subseteq Service
        /\ faults \in 0..MaxFaults
    BY <1>2, Before DEF Good
  <1>4. files' \in [Path -> File] /\ (~Touched(c) => files' = files)
    <2>1. CASE Head(c.todo) = "clean"
      <3>1. PICK gone \in SUBSET (Owned(c) \ {"root"}) :
              files' = [q \in Path |-> IF q \in gone THEN Absent ELSE files[q]]
        BY <2>1 DEF Interrupt
      <3> QED  BY <3>1, <2>1, <1>3, ContentType DEF Touched
    <2>2. CASE Head(c.todo) = "copy"
      <3>1. PICK q \in c.left : files' \in {files, [files EXCEPT ![q] = Torn]}
        BY <2>2 DEF Interrupt
      <3>2. q \in Path
        BY <1>2, Before
      <3> QED  BY <3>1, <3>2, <2>2, <1>3, ContentType DEF Touched
    <2>3. CASE Head(c.todo) \notin {"clean", "copy"}
      BY <2>3, <1>3 DEF Interrupt
    <2> QED  BY <2>1, <2>2, <2>3
  <1>5. d \in Command /\ Good(d, files', config') /\ (d.todo # <<>> => d.alone = c.alone)
    BY <1>1, <1>3, FailsFacts
  <1>6. CoverInv'
    <2>1. CASE Touched(c)
      <3>1. unrendered' = Service
        BY <2>1, <1>2
      <3>2. files'["list"].of \subseteq Service
        BY <1>3, <1>4 DEF File
      <3>3. Enabled(config') \subseteq Service
        BY DEF Enabled
      <3> QED  BY <3>1, <3>2, <3>3 DEF CoverInv, Covered
    <2>2. CASE ~Touched(c)
      <3>1. ~Touching(cmd[p]) /\ files' = files /\ unrendered' = unrendered
        BY <2>2, <1>2, <1>4 DEF Touching
      <3>2. /\ \A s \in Service : ~(files[s].is = "whole" /\ files'[s].is # "whole")
            /\ files'["list"].of \subseteq files["list"].of
            /\ Enabled(config') \ unrendered' \subseteq Enabled(config)
        BY <3>1, <1>2
      <3> HIDE DEF c
      <3> QED  BY <3>1, <3>2, <1>1, <1>3, <1>5, CoverKept
    <2> QED  BY <2>1, <2>2
  <1>7. faults' \in 0..MaxFaults
    BY <1>2, <1>3, BoundAssumption
  <1> QED
    BY <1>1, <1>2, <1>3, <1>4, <1>5, <1>6, <1>7, StepKeeps, Before

LEMMA StartStep ==
  ASSUME IInv, NEW p \in Proc, NEW op \in Op, NEW s \in Service \cup {"all"},
         NEW v \in Version, NEW flag \in BOOLEAN, Start(p, op, s, v, flag)
  PROVE  IInv'
  <1> DEFINE svc == IF op = "enable" THEN s ELSE "all"
             cfg == IF s = "all" THEN config ELSE [config EXCEPT ![s] = v]
             alone == IF Others(p) = {} THEN "yes" ELSE "no"
             c == [op |-> op, svc |-> svc, cfg |-> cfg, todo |-> Script(op, flag),
                   left |-> {}, alone |-> alone]
  <1>1. /\ ~Running(p)
        /\ s = "all" <=> op \in {"generate", "render"}
        /\ op = "generate" => ~flag
        /\ runs' \in 0..MaxRuns
        /\ config' = config /\ files' = files /\ backups' = backups
        /\ faults' = faults /\ unrendered' = unrendered
        /\ cmd' = [q \in Proc |-> IF q = p THEN c
                                  ELSE IF Running(q) THEN [cmd[q] EXCEPT !.alone = "no"]
                                  ELSE cmd[q]]
    BY BoundAssumption DEF Start, IInv, TypeOK
  <1>2. /\ Script(op, flag) \in Seq(Stage) /\ Script(op, flag) # <<>>
        /\ Ordered(svc, Script(op, flag))
        /\ op = "generate" => Reloads(Script(op, flag))
        /\ Head(Script(op, flag)) \in {"save", "backup", "clean"}
        /\ Head(Script(op, flag)) # "save" => op = "render"
    <2>1. op = "enable" <=> svc # "all"
      BY <1>1 DEF Op
    <2> QED  BY <2>1, <1>1, ScriptFacts
  <1>3. cfg \in Config /\ svc \in Service \cup {"all"}
    BY DEF IInv, TypeOK, Config
  <1>4. /\ c \in Command /\ c.op = op /\ c.svc = svc /\ c.cfg = cfg
        /\ c.todo = Script(op, flag) /\ c.alone = alone
    BY <1>2, <1>3 DEF Command
  <1>5. Good(c, files, config)
    <2>1. ~Is(c, "plan") /\ ~Is(c, "copy") /\ (Is(c, "clean") => svc = "all")
      BY <1>2, <1>4 DEF Is
    <2>2. ~Is(c, "save") => cfg = config
      BY <1>1, <1>2, <1>4 DEF Is
    <2> HIDE DEF c
    <2>3. Current(c, config)
      BY <2>2, <1>4 DEF Current
    <2>4. FullWork(c, files) /\ SingleWork(c, files)
      BY <2>1, <1>4 DEF FullWork, SingleWork
    <2>5. Ordered(c.svc, c.todo) /\ (c.op = "generate" => Reloads(c.todo))
      BY <1>2, <1>4
    <2> QED  BY <2>3, <2>4, <2>5 DEF Good
  <1> HIDE DEF c
  <1>6. cmd'[p] = c
    BY <1>1
  <1>7. ASSUME NEW q \in Proc, q # p
        PROVE  /\ cmd'[q] \in Command /\ cmd'[q].op = cmd[q].op
               /\ cmd'[q].svc = cmd[q].svc /\ cmd'[q].todo = cmd[q].todo
               /\ cmd'[q].todo # <<>> => cmd'[q].alone = "no"
    <2>1. cmd[q] \in Command
      BY DEF IInv, TypeOK
    <2>2. CASE Running(q)
      <3>1. cmd'[q] = [cmd[q] EXCEPT !.alone = "no"]
        BY <1>1, <1>7, <2>2
      <3> QED  BY <3>1, <2>1, NotAloneFacts
    <2>3. CASE ~Running(q)
      BY <1>1, <1>7, <2>1, <2>3 DEF Running
    <2> QED  BY <2>2, <2>3
  <1>8. TypeOK'
    <2>1. \A q \in Proc : cmd'[q] \in Command
      BY <1>4, <1>6, <1>7
    <2>2. cmd' \in [Proc -> Command]
      BY <2>1, <1>1
    <2> QED  BY <2>2, <1>1 DEF IInv, TypeOK
  <1>9. ASSUME NEW q \in Proc PROVE Good(cmd'[q], files, config)
    <2>1. CASE q = p
      BY <2>1, <1>5, <1>6
    <2>2. CASE q # p
      <3>1. /\ Ordered(cmd[q].svc, cmd[q].todo)
            /\ cmd[q].op = "generate" => Reloads(cmd[q].todo)
        BY DEF IInv, Good
      <3> QED  BY <3>1, <2>2, <1>7 DEF Good, Current, FullWork, SingleWork, Exact, Is
    <2> QED  BY <2>1, <2>2
  <1>10. AloneInv'
    <2> SUFFICES ASSUME NEW q \in Proc, NEW r \in Proc, cmd'[q].todo # <<>>,
                        cmd'[q].alone = "yes", cmd'[r].todo # <<>>, q # r
                 PROVE  FALSE
      BY DEF AloneInv, Running
    <2>1. q = p
      BY <1>7
    <2>2. Running(r)
      BY <2>1, <1>7 DEF Running
    <2>3. r \in Others(p)
      BY <2>1, <2>2 DEF Others
    <2> QED  BY <2>1, <2>3, <1>4, <1>6
  <1>11. CoverInv'
    <2> SUFFICES ASSUME ~Muddled'
                 PROVE  (Covered(files["list"].of) /\ Covered(Enabled(config)))'
      BY DEF CoverInv
    <2>1. ASSUME NEW q \in Proc, Touching(cmd[q])
          PROVE  q # p /\ Touching(cmd'[q]) /\ Owned(cmd'[q]) = Owned(cmd[q])
      <3>1. q # p
        BY <2>1, <1>1 DEF Touching, Running
      <3> QED  BY <3>1, <2>1, <1>7 DEF Touching, Touched, Owned
    <2>2. ~Muddled
      BY <2>1, <1>7 DEF Muddled, Touching
    <2>3. Covered(files["list"].of) /\ Covered(Enabled(config))
      BY <2>2 DEF IInv, CoverInv
    <2>4. Enabled(config') = Enabled(config)
      BY <1>1
    <2> QED  BY <2>1, <2>3, <2>4, <1>1 DEF Covered
  <1> QED  BY <1>1, <1>8, <1>9, <1>10, <1>11 DEF IInv

LEMMA NextInv == IInv /\ [Next]_vars => IInv'
  <1> SUFFICES ASSUME IInv, [Next]_vars PROVE IInv'
    OBVIOUS
  <1>1. CASE Next
    <2>1. PICK p \in Proc :
            \/ \E op \in Op, s \in Service \cup {"all"}, v \in Version, flag \in BOOLEAN :
                 Start(p, op, s, v, flag)
            \/ Step(p)
            \/ Interrupt(p)
      BY <1>1 DEF Next
    <2>2. CASE \E q \in Path : Copy(p, q)
      <3>1. PICK q \in Path : Copy(p, q)
        BY <2>2
      <3> QED  BY <3>1, CopyStep, LastCopyStep
    <2> QED
      BY <2>1, <2>2, StartStep, SaveStep, LoadStep, BackupStep, CleanStep, PlanStep,
         InterruptStep DEF Step
  <1>2. CASE UNCHANGED vars
    <2>1. /\ config' = config /\ files' = files /\ backups' = backups /\ cmd' = cmd
          /\ runs' = runs /\ faults' = faults /\ unrendered' = unrendered
      BY <1>2 DEF vars
    <2>2. TypeOK'
      BY <2>1 DEF IInv, TypeOK
    <2>3. \A p \in Proc : Good(cmd'[p], files', config')
      BY <2>1 DEF IInv
    <2>4. AloneInv'
      BY <2>1 DEF IInv, AloneInv, Running
    <2>5. CoverInv'
      BY <2>1 DEF IInv, CoverInv, Muddled, Covered
    <2> QED  BY <2>2, <2>3, <2>4, <2>5 DEF IInv
  <1> QED  BY <1>1, <1>2

LEMMA Always == Spec => []IInv
  BY InitInv, NextInv, PTL DEF Spec
------------------------------------------------------------------------------
(* The state keeps its types.                                              *)
THEOREM TypeCorrect == Spec => []TypeOK
  BY Always, PTL DEF IInv

(* Between commands the aggregate kustomizations name services that have   *)
(* their files, but for those that an overlap, a fault or an enable        *)
(* without --render excuses.                                               *)
THEOREM ListedCorrect == Spec => []ListedExists
  <1>1. IInv => ListedExists
    <2> SUFFICES ASSUME IInv, \A p \in Proc : ~Running(p)
                 PROVE  \A s \in files["list"].of \ unrendered : files[s].is = "whole"
      BY DEF ListedExists
    <2>1. \A p \in Proc : ~Touching(cmd[p])
      BY DEF Running, Touching
    <2> QED  BY <2>1 DEF IInv, CoverInv, Muddled, Covered
  <1> QED  BY <1>1, Always, PTL

(* A full render that runs alone leaves what its configuration says,       *)
(* whatever earlier commands, crashes or overlaps left there.              *)
THEOREM ExactCorrect == Spec => FullRenderExact
  <1> DEFINE Step_ == \A p \in Proc :
               /\ At(p, "copy") /\ Exact(cmd[p])
               /\ faults' = faults /\ cmd'[p].todo = Tail(cmd[p].todo)
               => files' = Target(cmd[p].cfg)
  <1>1. IInv /\ [Next]_vars => [Step_]_vars
    <2> SUFFICES ASSUME IInv, [Next]_vars, NEW p \in Proc, At(p, "copy"), Exact(cmd[p]),
                        faults' = faults, cmd'[p].todo = Tail(cmd[p].todo)
                 PROVE  files' = Target(cmd[p].cfg)
      OBVIOUS
    <2>1. Running(p) /\ Head(cmd[p].todo) = "copy"
      BY DEF At
    <2>2. Tail(cmd[p].todo) # cmd[p].todo
      BY <2>1, Before, TailFacts
    <2>3. cmd' # cmd /\ Next
      BY <2>2 DEF vars
    <2>4. PICK q \in Proc :
            \/ \E op \in Op, s \in Service \cup {"all"}, v \in Version, flag \in BOOLEAN :
                 Start(q, op, s, v, flag)
            \/ Step(q)
            \/ Interrupt(q)
      BY <2>3 DEF Next
    <2>5. cmd \in [Proc -> Command]
      BY DEF IInv, TypeOK
    <2>6. ~Interrupt(q)
      <3>1. faults \in Nat
        BY BoundAssumption DEF IInv, TypeOK
      <3> QED  BY <3>1 DEF Interrupt
    <2>7. ASSUME NEW op \in Op, NEW s \in Service \cup {"all"}, NEW v \in Version,
                 NEW flag \in BOOLEAN, Start(q, op, s, v, flag)
          PROVE  FALSE
      <3>1. q # p
        BY <2>1, <2>7 DEF Start
      <3>2. cmd'[p] = [cmd[p] EXCEPT !.alone = "no"]
        BY <3>1, <2>1, <2>7 DEF Start
      <3>3. cmd'[p].todo = cmd[p].todo
        BY <3>2, <2>5, NotAloneFacts
      <3> QED  BY <3>3, <2>2
    <2>8. Step(q)
      BY <2>4, <2>6, <2>7
    <2>9. \E d : cmd' = [cmd EXCEPT ![q] = d]
      BY <2>8 DEF Step, Save, Load, Backup, Clean, Plan, Copy, Becomes
    <2>10. q = p
      BY <2>2, <2>5, <2>9
    <2>11. PICK x \in Path : Copy(p, x)
      BY <2>1, <2>8, <2>10 DEF Step, Save, Load, Backup, Clean, Plan, At
    <2>12. cmd[p].left = {x}
      <3> SUFFICES ASSUME cmd[p].left # {x} PROVE FALSE
        OBVIOUS
      <3>1. cmd'[p] = [cmd[p] EXCEPT !.left = cmd[p].left \ {x}]
        BY <2>5, <2>11 DEF Copy, Becomes
      <3>2. cmd[p].left \ {x} \in SUBSET Path
        BY <2>1, Before
      <3>3. cmd'[p].todo = cmd[p].todo
        BY <3>1, <3>2, <2>5, LeftFacts
      <3> QED  BY <3>3, <2>2
    <2> QED  BY <2>11, <2>12, LastCopy
  <1> QED  BY <1>1, Always, PTL DEF Spec, FullRenderExact
==============================================================================
