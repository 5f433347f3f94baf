--------------------------- MODULE SecretStoreProofs ---------------------------
(***************************************************************************)
(* Proofs about the secret store's client, for any processes, payloads,    *)
(* attempts, threshold and bounds.  The breaker needs nothing but counting *)
(* (Counted).  The rest holds while calm, where one command runs at most:  *)
(* Progress says that each attempt of a put so far cost a fault, and what  *)
(* the lookup and the deletion that led to the present stage established.  *)
(***************************************************************************)
EXTENDS SecretStore, TLAPS

(* The breaker saw one failure per attempt of PutSecret at most, and the   *)
(* attempt in progress has none of its own before it creates.              *)
Counted(c) ==
  /\ c.stage \in {"describe", "remove", "get"} => c.failures <= c.outer - 1
  /\ c.stage = "create" => c.failures <= c.outer
  /\ c.stage = "idle" => c.failures <= MaxAttempts + 1

CountedAll == \A p \in Proc : Counted(cmd[p])

(* A put has a payload, and each command keeps to its stages.              *)
WellFormed(c) == /\ c.op = "put" => c.val \in Value /\ c.stage # "get"
                 /\ c.stage = "create" => c.op = "put"
                 /\ c.stage = "remove" => c.op \in {"put", "delete"}

(* While calm, over a store S: the attempts that failed cost a fault each, *)
(* and so did those of the lookup if there was something to find.  Once    *)
(* the deletion has to be tried again it has cost one as well.             *)
Progress(c, S) ==
  /\ c.faults < MaxAttempts
  /\ c.op = "put" => c.result # "error"
  /\ c.stage \in {"describe", "remove"} /\ c.at = "use" =>
       \E s \in S : s.id = c.ref
  /\ c.op = "put" /\ c.stage # "idle" =>
       /\ c.faults >= c.outer - 1
       /\ c.stage = "describe" /\ S # {} => c.inner <= c.faults + 2 - c.outer
       /\ c.stage = "remove" /\ (c.inner > 1 \/ S = {}) => c.faults >= c.outer
       /\ c.stage = "create" => S = {}

Alone == \A p, q \in Proc : Running(p) /\ Running(q) => p = q

(* A write that has not ended well leaves open what is wanted.             *)
Open == \A p \in Proc : Running(p) /\ cmd[p].op \in {"put", "delete"} =>
                          wanted.is = "unknown"

CalmInv == calm = "yes" =>
  /\ Alone /\ Open
  /\ \A p \in Proc : Progress(cmd[p], store)
  /\ \A s, t \in store : s = t
  /\ wanted.is = "known" => {s.val : s \in store} = wanted.vals

IInv == /\ TypeOK
        /\ CountedAll
        /\ \A p \in Proc : WellFormed(cmd[p])
        /\ CalmInv

USE ConfigAssumption, BoundAssumption
------------------------------------------------------------------------------
(* The fields of what a command becomes.                                   *)
LEMMA NewFields ==
  ASSUME NEW op \in Op \cup {"none"}, NEW v \in Value \cup {NoValue},
         NEW s \in Stage
  PROVE  /\ New(op, v, s) \in Command
         /\ New(op, v, s).op = op
         /\ New(op, v, s).val = v
         /\ New(op, v, s).stage = s
         /\ New(op, v, s).at = "list"
         /\ New(op, v, s).outer = 1
         /\ New(op, v, s).inner = 1
         /\ New(op, v, s).failures = 0
         /\ New(op, v, s).faults = 0
         /\ New(op, v, s).result = "none"
BY DEF New, Command

LEMMA FirstStageType ==
  ASSUME NEW op \in Op
  PROVE  /\ FirstStage(op) \in {"describe", "remove", "get"}
         /\ op = "put" => FirstStage(op) = "describe"
         /\ FirstStage(op) = "remove" => op = "delete"
BY DEF FirstStage, Op

LEMMA EnterFields ==
  ASSUME NEW c \in Command, NEW s \in Stage
  PROVE  /\ Enter(c, s) \in Command
         /\ Enter(c, s).op = c.op
         /\ Enter(c, s).val = c.val
         /\ Enter(c, s).stage = s
         /\ Enter(c, s).at = "list"
         /\ Enter(c, s).outer = c.outer
         /\ Enter(c, s).inner = 1
         /\ Enter(c, s).failures = c.failures
         /\ Enter(c, s).faults = c.faults
         /\ Enter(c, s).result = c.result
<1> DEFINE d == [c EXCEPT !.at = "list"]
           e == [d EXCEPT !.inner = 1]
<1>1. d = [op |-> c.op, val |-> c.val, stage |-> c.stage, at |-> "list",
           ref |-> c.ref, outer |-> c.outer, inner |-> c.inner,
           failures |-> c.failures, faults |-> c.faults, result |-> c.result]
  BY DEF Command
<1>2. Enter(c, s) = [e EXCEPT !.stage = s]
  BY Zenon DEF Enter
<1> HIDE DEF d
<1>3. e = [op |-> c.op, val |-> c.val, stage |-> c.stage, at |-> "list",
           ref |-> c.ref, outer |-> c.outer, inner |-> 1,
           failures |-> c.failures, faults |-> c.faults, result |-> c.result]
  BY <1>1
<1>4. 1 \in 1..MaxAttempts
  OBVIOUS
<1> HIDE DEF e
<1> QED
  BY <1>2, <1>3, <1>4 DEF Command

LEMMA EndFields ==
  ASSUME NEW c \in Command, NEW r \in {"ok", "error", "killed"}
  PROVE  /\ End(c, r) \in Command
         /\ End(c, r).op = c.op
         /\ End(c, r).val = c.val
         /\ End(c, r).stage = "idle"
         /\ End(c, r).faults = 0
         /\ End(c, r).failures = c.failures
         /\ End(c, r).result = r
<1> DEFINE n == New(c.op, c.val, "idle")
<1>1. /\ n \in Command /\ n.op = c.op /\ n.val = c.val
      /\ n.stage = "idle" /\ n.faults = 0
  BY NewFields DEF Command, Stage
<1> HIDE DEF n
<1>2. End(c, r) = [n EXCEPT !.failures = c.failures, !.result = r]
  BY DEF End, n
<1>3. /\ DOMAIN n = {"op", "val", "stage", "at", "ref", "outer", "inner", "failures",
                     "faults", "result"}
      /\ c.failures \in Nat
  BY <1>1 DEF Command
<1>4. /\ End(c, r).op = c.op /\ End(c, r).val = c.val /\ End(c, r).stage = "idle"
      /\ End(c, r).faults = 0 /\ End(c, r).failures = c.failures
      /\ End(c, r).result = r
  BY ONLY <1>1, <1>2, <1>3
<1>5. End(c, r) \in Command
  BY <1>1, <1>2, <1>3 DEF Command
<1> QED
  BY <1>4, <1>5

LEMMA FailureFields ==
  ASSUME NEW c \in Command
  PROVE  /\ Failure(c) \in Command
         /\ Failure(c).op = c.op
         /\ Failure(c).val = c.val
         /\ Failure(c).stage = c.stage
         /\ Failure(c).at = c.at
         /\ Failure(c).outer = c.outer
         /\ Failure(c).inner = c.inner
         /\ Failure(c).failures = c.failures + 1
         /\ Failure(c).faults = c.faults
         /\ Failure(c).result = c.result
BY DEF Failure, Command

LEMMA SuccessFields ==
  ASSUME NEW c \in Command
  PROVE  /\ Success(c) \in Command
         /\ Success(c).op = c.op
         /\ Success(c).val = c.val
         /\ Success(c).stage = c.stage
         /\ Success(c).outer = c.outer
         /\ Success(c).failures = 0
         /\ Success(c).faults = c.faults
         /\ Success(c).result = c.result
BY DEF Success, Command

LEMMA FaultyFields ==
  ASSUME NEW c \in Command, c.faults < MaxFaults
  PROVE  /\ Faulty(c) \in Command
         /\ Faulty(c).op = c.op
         /\ Faulty(c).val = c.val
         /\ Faulty(c).stage = c.stage
         /\ Faulty(c).at = c.at
         /\ Faulty(c).outer = c.outer
         /\ Faulty(c).inner = c.inner
         /\ Faulty(c).failures = c.failures
         /\ Faulty(c).faults = c.faults + 1
         /\ Faulty(c).result = c.result
BY DEF Faulty, Command
------------------------------------------------------------------------------
(* An attempt of PutSecret that failed leads to the next one, or ends it.  *)
LEMMA AttemptFailedFields ==
  ASSUME NEW c \in Command
  PROVE  /\ AttemptFailed(c) \in Command
         /\ AttemptFailed(c).op = c.op
         /\ \/ /\ c.outer < MaxAttempts
               /\ AttemptFailed(c).stage = "describe"
               /\ AttemptFailed(c).at = "list"
               /\ AttemptFailed(c).outer = c.outer + 1
               /\ AttemptFailed(c).inner = 1
               /\ AttemptFailed(c).failures = c.failures
               /\ AttemptFailed(c).faults = c.faults
               /\ AttemptFailed(c).result = c.result
               /\ AttemptFailed(c).val = c.val
            \/ /\ c.outer = MaxAttempts
               /\ AttemptFailed(c).stage = "idle"
               /\ AttemptFailed(c).failures = c.failures + 1
               /\ AttemptFailed(c).result = "error"
               /\ AttemptFailed(c).val = c.val
<1>1. CASE c.outer < MaxAttempts
  <2> DEFINE d == [c EXCEPT !.outer = @ + 1]
  <2>1. /\ d \in Command /\ d.op = c.op /\ d.val = c.val
        /\ d.outer = c.outer + 1 /\ d.failures = c.failures
        /\ d.faults = c.faults /\ d.result = c.result
    BY <1>1 DEF Command
  <2>2. AttemptFailed(c) = Enter(d, "describe")
    BY <1>1 DEF AttemptFailed
  <2> HIDE DEF d
  <2> QED
    BY <1>1, <2>1, <2>2, EnterFields DEF Stage
<1>2. CASE ~(c.outer < MaxAttempts)
  <2>1. AttemptFailed(c) = End(Failure(c), "error")
    BY <1>2 DEF AttemptFailed
  <2>2. c.outer = MaxAttempts
    BY <1>2 DEF Command
  <2> QED
    BY <2>1, <2>2, FailureFields, EndFields
<1> QED
  BY <1>1, <1>2

(* A called method that is out of attempts.                                *)
LEMMA MethodFailedFields ==
  ASSUME NEW c \in Command, c.stage \in {"describe", "remove", "get"}
  PROVE  \/ /\ c.op = "put" /\ c.stage = "describe"
            /\ MethodFailed(c) = Enter(c, "create")
         \/ /\ c.op = "put" /\ c.stage = "remove"
            /\ MethodFailed(c) = AttemptFailed(c)
         \/ /\ c.op = "put" => c.stage = "get"
            /\ MethodFailed(c) = End(c, "error")
BY DEF MethodFailed

(* A request that failed leads to the next one, or to the end of the       *)
(* method's attempts.                                                      *)
LEMMA RequestFailedFields ==
  ASSUME NEW c \in Command
  PROVE  \/ /\ c.inner < MaxAttempts
            /\ RequestFailed(c) \in Command
            /\ RequestFailed(c).op = c.op
            /\ RequestFailed(c).val = c.val
            /\ RequestFailed(c).stage = c.stage
            /\ RequestFailed(c).at = "list"
            /\ RequestFailed(c).outer = c.outer
            /\ RequestFailed(c).inner = c.inner + 1
            /\ RequestFailed(c).failures = c.failures
            /\ RequestFailed(c).faults = c.faults
            /\ RequestFailed(c).result = c.result
         \/ /\ c.inner = MaxAttempts
            /\ RequestFailed(c) = MethodFailed(Failure(c))
<1>1. CASE c.inner < MaxAttempts
  <2>1. RequestFailed(c) = [op |-> c.op, val |-> c.val, stage |-> c.stage,
                            at |-> "list", ref |-> c.ref, outer |-> c.outer,
                            inner |-> c.inner + 1, failures |-> c.failures,
                            faults |-> c.faults, result |-> c.result]
    BY <1>1 DEF RequestFailed, Command
  <2>2. c.inner + 1 \in 1..MaxAttempts
    BY <1>1 DEF Command
  <2> QED
    BY <1>1, <2>1, <2>2 DEF Command
<1>2. CASE ~(c.inner < MaxAttempts)
  BY <1>2 DEF RequestFailed, Command
<1> QED
  BY <1>1, <1>2

LEMMA MethodDoneFields ==
  ASSUME NEW c \in Command
  PROVE  \/ /\ c.op = "put" /\ c.stage = "describe"
            /\ MethodDone(c) = Enter(Success(c), "remove")
         \/ /\ c.op = "put" /\ c.stage = "remove"
            /\ MethodDone(c) = Enter(Success(c), "create")
         \/ /\ c.op = "put" => c.stage \notin {"describe", "remove"}
            /\ MethodDone(c) = End(Success(c), "ok")
BY DEF MethodDone
------------------------------------------------------------------------------
(* Each of these is a command again, and counted.                          *)
LEMMA AttemptFailedCounted ==
  ASSUME NEW c \in Command, c.failures <= c.outer
  PROVE  AttemptFailed(c) \in Command /\ Counted(AttemptFailed(c))
<1>1. c.outer \in Nat /\ c.failures \in Nat /\ c.outer <= MaxAttempts
  BY DEF Command
<1> QED
  BY <1>1, AttemptFailedFields DEF Counted

LEMMA RequestFailedCounted ==
  ASSUME NEW c \in Command, c.stage \in {"describe", "remove", "get"},
         Counted(c)
  PROVE  RequestFailed(c) \in Command /\ Counted(RequestFailed(c))
<1> DEFINE f == Failure(c)
<1>1. /\ c.outer \in Nat /\ c.failures \in Nat /\ c.outer <= MaxAttempts
      /\ c.failures <= c.outer - 1
  BY DEF Command, Counted
<1>2. CASE c.inner < MaxAttempts
  <2>1. /\ RequestFailed(c) \in Command
        /\ RequestFailed(c).stage = c.stage
        /\ RequestFailed(c).outer = c.outer
        /\ RequestFailed(c).failures = c.failures
    BY <1>2, RequestFailedFields
  <2> QED
    BY <1>1, <2>1 DEF Counted
<1>3. CASE c.inner = MaxAttempts
  <2>1. /\ f \in Command /\ f.stage = c.stage
        /\ f.outer = c.outer /\ f.failures = c.failures + 1
    BY FailureFields
  <2>2. RequestFailed(c) = MethodFailed(f)
    BY <1>3, RequestFailedFields
  <2> HIDE DEF f
  <2>3. Enter(f, "create") \in Command /\ Counted(Enter(f, "create"))
    BY <1>1, <2>1, EnterFields DEF Counted, Stage
  <2>4. AttemptFailed(f) \in Command /\ Counted(AttemptFailed(f))
    BY <1>1, <2>1, AttemptFailedCounted
  <2>5. End(f, "error") \in Command /\ Counted(End(f, "error"))
    BY <1>1, <2>1, EndFields DEF Counted
  <2> QED
    BY <2>1, <2>2, <2>3, <2>4, <2>5, MethodFailedFields
<1> QED
  BY <1>2, <1>3, RequestFailedFields

LEMMA MethodDoneCounted ==
  ASSUME NEW c \in Command
  PROVE  MethodDone(c) \in Command /\ Counted(MethodDone(c))
<1> DEFINE d == Success(c)
<1>1. /\ d \in Command /\ d.outer = c.outer /\ d.failures = 0
      /\ c.outer \in Nat \ {0}
  BY SuccessFields DEF Command
<1>2. MethodDone(c) \in {Enter(d, "remove"), Enter(d, "create"), End(d, "ok")}
  BY MethodDoneFields
<1> HIDE DEF d
<1>3. End(d, "ok") \in Command /\ Counted(End(d, "ok"))
  BY <1>1, EndFields DEF Counted
<1>4. \A s \in {"remove", "create"} : Enter(d, s) \in Command
                                     /\ Counted(Enter(d, s))
  BY <1>1, EnterFields DEF Counted, Stage
<1> QED
  BY <1>2, <1>3, <1>4
------------------------------------------------------------------------------
LEMMA AttemptFailedProgress ==
  ASSUME NEW c \in Command, NEW S, c.op = "put", WellFormed(c),
         c.result # "error", c.faults < MaxAttempts, c.faults >= c.outer
  PROVE  /\ Progress(AttemptFailed(c), S)
         /\ WellFormed(AttemptFailed(c))
         /\ AttemptFailed(c).op = "put"
<1>1. c.outer \in 1..MaxAttempts /\ c.faults \in Nat
  BY DEF Command
<1>2. c.outer < MaxAttempts
  BY <1>1
<1> QED
  BY <1>1, <1>2, AttemptFailedFields DEF Progress, WellFormed

(* A request that failed while calm: either it had nothing to find, or its *)
(* fault is counted already.                                               *)
LEMMA RequestFailedProgress ==
  ASSUME NEW c \in Command, NEW S,
         c.stage \in {"describe", "remove", "get"}, WellFormed(c),
         c.faults < MaxAttempts,
         c.op = "put" =>
           /\ c.result # "error" /\ c.faults >= c.outer - 1
           /\ c.stage = "describe" /\ S # {} => c.inner <= c.faults + 1 - c.outer
           /\ c.stage = "remove" => c.faults >= c.outer
  PROVE  /\ Progress(RequestFailed(c), S)
         /\ WellFormed(RequestFailed(c))
         /\ RequestFailed(c).op = c.op
<1>1. /\ c.outer \in 1..MaxAttempts /\ c.inner \in 1..MaxAttempts
      /\ c.faults \in Nat
  BY DEF Command
<1>2. CASE c.inner < MaxAttempts
  <2> DEFINE d == RequestFailed(c)
  <2>1. /\ d.op = c.op /\ d.val = c.val /\ d.stage = c.stage
        /\ d.at = "list" /\ d.outer = c.outer /\ d.inner = c.inner + 1
        /\ d.faults = c.faults /\ d.result = c.result
    BY <1>2, RequestFailedFields
  <2> HIDE DEF d
  <2> QED
    BY <1>1, <2>1 DEF Progress, WellFormed, d
<1>3. CASE c.inner = MaxAttempts
  <2> DEFINE f == Failure(c)
  <2>1. /\ f \in Command /\ f.op = c.op /\ f.val = c.val
        /\ f.stage = c.stage /\ f.outer = c.outer /\ f.faults = c.faults
        /\ f.result = c.result
    BY FailureFields
  <2>2. RequestFailed(c) = MethodFailed(f)
    BY <1>3, RequestFailedFields
  <2> HIDE DEF f
  <2>3. CASE c.op = "put" /\ c.stage = "describe"
    <3>1. RequestFailed(c) = Enter(f, "create")
      BY <2>1, <2>2, <2>3, MethodFailedFields
    <3>2. S = {}
      BY <1>1, <1>3, <2>3
    <3> QED
      BY <1>1, <2>1, <2>3, <3>1, <3>2, EnterFields
      DEF Progress, WellFormed, Stage
  <2>4. CASE c.op = "put" /\ c.stage = "remove"
    <3>1. RequestFailed(c) = AttemptFailed(f)
      BY <2>1, <2>2, <2>4, MethodFailedFields
    <3>2. WellFormed(f)
      BY <2>1, <2>4 DEF WellFormed
    <3> QED
      BY <2>1, <2>4, <3>1, <3>2, AttemptFailedProgress
  <2>5. CASE c.op # "put"
    <3>1. RequestFailed(c) = End(f, "error")
      BY <2>1, <2>2, <2>5, MethodFailedFields
    <3> QED
      BY <2>1, <2>5, <3>1, EndFields DEF Progress, WellFormed
  <2> QED
    BY <2>3, <2>4, <2>5 DEF WellFormed
<1> QED
  BY <1>1, <1>2, <1>3

(* A command changes and the others stay.                                  *)
LEMMA BecomesType ==
  ASSUME NEW p \in Proc, cmd \in [Proc -> Command], NEW d \in Command,
         Becomes(p, d)
  PROVE  /\ cmd' \in [Proc -> Command]
         /\ cmd'[p] = d
         /\ \A q \in Proc : q # p => cmd'[q] = cmd[q]
BY DEF Becomes

(* An idle command has made no progress that the store could undo.         *)
LEMMA IdleProgress ==
  ASSUME NEW c \in Command, NEW S, NEW T, c.stage = "idle", Progress(c, S)
  PROVE  Progress(c, T)
BY DEF Progress

LEMMA Others ==
  ASSUME NEW p \in Proc, Alone, Running(p)
  PROVE  \A q \in Proc : q # p => ~Running(q)
BY DEF Alone

(* What a step of p has to establish.                                      *)
LEMMA StepIInv ==
  ASSUME IInv, NEW p \in Proc, NEW d \in Command, Becomes(p, d),
         Counted(d), WellFormed(d),
         made' \in Nat, store' \subseteq [id : 1..made', val : Value],
         runs' \in 0..MaxRuns, calm' \in {"yes", "no"},
         wanted' \in [is : {"known", "unknown"}, vals : SUBSET Value],
         calm' = "yes" =>
           /\ calm = "yes"
           /\ \A q \in Proc : q # p => ~Running(q)
           /\ Progress(d, store')
           /\ d.stage # "idle" /\ d.op \in {"put", "delete"} =>
                wanted'.is = "unknown"
           /\ \A s, t \in store' : s = t
           /\ wanted'.is = "known" => {s.val : s \in store'} = wanted'.vals
  PROVE  IInv'
<1>1. /\ cmd' \in [Proc -> Command]
      /\ cmd'[p] = d
      /\ \A q \in Proc : q # p => cmd'[q] = cmd[q]
  BY BecomesType DEF IInv, TypeOK
<1>2. TypeOK'
  BY <1>1 DEF TypeOK
<1>3. CountedAll' /\ \A q \in Proc : WellFormed(cmd[q])'
  BY <1>1 DEF IInv, CountedAll
<1>4. ASSUME calm' = "yes" PROVE Alone' /\ Open'
  BY <1>1, <1>4 DEF Alone, Open, Running
<1>5. ASSUME calm' = "yes", NEW q \in Proc PROVE Progress(cmd[q], store)'
  <2>1. CASE q = p
    BY <1>1, <1>5, <2>1
  <2>2. CASE q # p
    <3>1. cmd[q] \in Command /\ cmd[q].stage = "idle" /\ Progress(cmd[q], store)
      BY <1>5, <2>2 DEF IInv, TypeOK, CalmInv, Running
    <3>2. Progress(cmd[q], store')
      BY <3>1, IdleProgress
    <3> QED
      BY <1>1, <2>2, <3>2
  <2> QED
    BY <2>1, <2>2
<1>6. CalmInv'
  BY <1>4, <1>5 DEF CalmInv
<1> QED
  BY <1>2, <1>3, <1>6 DEF IInv

LEMMA InitIInv == Init => IInv
<1> SUFFICES ASSUME Init PROVE IInv
  OBVIOUS
<1> DEFINE n == New("none", NoValue, "idle")
<1>1. /\ n \in Command /\ n.op = "none" /\ n.stage = "idle"
      /\ n.failures = 0 /\ n.faults = 0
  BY NewFields DEF Stage
<1>2. cmd = [p \in Proc |-> n]
  BY DEF Init
<1> HIDE DEF n
<1>3. TypeOK
  BY <1>1, <1>2 DEF Init, TypeOK, Known
<1>4. CountedAll /\ \A p \in Proc : WellFormed(cmd[p])
  BY <1>1, <1>2 DEF CountedAll, Counted, WellFormed
<1>5. Alone /\ Open /\ \A p \in Proc : Progress(cmd[p], store)
  BY <1>1, <1>2 DEF Alone, Open, Running, Progress
<1>6. /\ \A s, t \in store : s = t
      /\ {s.val : s \in store} = wanted.vals
  BY DEF Init, Known
<1> QED
  BY <1>3, <1>4, <1>5, <1>6 DEF IInv, CalmInv

LEMMA StartIInv ==
  ASSUME IInv, NEW p \in Proc, NEW op \in Op, NEW v \in Value \cup {NoValue},
         Start(p, op, v)
  PROVE  IInv'
<1> DEFINE d == New(op, v, FirstStage(op))
<1>1. /\ d \in Command /\ d.op = op /\ d.val = v /\ d.at = "list"
      /\ d.stage = FirstStage(op) /\ d.outer = 1 /\ d.inner = 1
      /\ d.failures = 0 /\ d.faults = 0 /\ d.result = "none"
  BY FirstStageType, NewFields DEF Stage
<1>2. Becomes(p, d)
  BY DEF Start
<1>3. op = "put" => v \in Value
  BY DEF Start
<1> HIDE DEF d
<1>4. Counted(d) /\ WellFormed(d) /\ Progress(d, store)
  BY <1>1, <1>3, FirstStageType DEF Counted, WellFormed, Progress
<1>5. store' = store /\ made' = made /\ runs' \in 0..MaxRuns
  BY DEF Start, IInv, TypeOK
<1>6. /\ wanted' \in [is : {"known", "unknown"}, vals : SUBSET Value]
      /\ op \in {"put", "delete"} => wanted'.is = "unknown"
      /\ wanted' = wanted \/ wanted'.is = "unknown"
  BY DEF Start, Unknown, IInv, TypeOK
<1>7. /\ calm' \in {"yes", "no"}
      /\ calm' = "yes" => calm = "yes" /\ \A q \in Proc : ~Running(q)
  BY DEF Start, IInv, TypeOK
<1> QED
  BY <1>1, <1>2, <1>4, <1>5, <1>6, <1>7, StepIInv DEF IInv, CalmInv, TypeOK

LEMMA FaultFacts ==
  ASSUME IInv, NEW p \in Proc, Fault(p)
  PROVE  /\ cmd[p] \in Command
         /\ cmd[p].faults < MaxFaults
         /\ calm' \in {"yes", "no"}
         /\ calm' = "yes" => calm = "yes" /\ cmd[p].faults + 1 < MaxAttempts
BY DEF Fault, IInv, TypeOK

(* A request failed: there was nothing to find, or a fault, which may have *)
(* removed something all the same.                                         *)
LEMMA RequestFailedIInv ==
  ASSUME IInv, NEW p \in Proc, NEW e,
         cmd[p].stage \in {"describe", "remove", "get"},
         Becomes(p, RequestFailed(e)),
         made' = made, runs' = runs, wanted' = wanted,
         store' \subseteq store,
         cmd[p].stage # "remove" => store' = store,
         \/ /\ e = cmd[p] /\ calm' = calm /\ store' = store
            /\ \/ cmd[p].stage = "get"
               \/ calm = "yes" => cmd[p].at = "list" /\ store = {}
         \/ e = Faulty(cmd[p]) /\ Fault(p)
  PROVE  IInv'
<1> DEFINE c == cmd[p]
<1>1. /\ c \in Command /\ Counted(c) /\ WellFormed(c)
      /\ c.stage \in {"describe", "remove", "get"}
      /\ c.outer \in 1..MaxAttempts /\ c.inner \in 1..MaxAttempts
      /\ c.faults \in Nat
      /\ calm = "yes" => Progress(c, store)
  BY DEF IInv, TypeOK, CountedAll, CalmInv, Command
<1>2. /\ e \in Command /\ e.op = c.op /\ e.val = c.val
      /\ e.stage = c.stage /\ e.outer = c.outer /\ e.inner = c.inner
      /\ e.failures = c.failures /\ e.result = c.result
  BY <1>1, FaultFacts, FaultyFields
<1>3. Counted(e) /\ WellFormed(e)
  BY <1>1, <1>2 DEF Counted, WellFormed
<1>4. RequestFailed(e) \in Command /\ Counted(RequestFailed(e))
  BY <1>1, <1>2, <1>3, RequestFailedCounted
<1>5. WellFormed(RequestFailed(e)) /\ RequestFailed(e).op = c.op
  <2>1. CASE e.inner < MaxAttempts
    BY <1>2, <1>3, <2>1, RequestFailedFields DEF WellFormed, Command
  <2>2. CASE e.inner = MaxAttempts
    <3> DEFINE f == Failure(e)
    <3>1. /\ f \in Command /\ f.op = e.op /\ f.val = e.val /\ f.stage = e.stage
      BY <1>2, FailureFields
    <3>2. RequestFailed(e) = MethodFailed(f)
      BY <1>2, <2>2, RequestFailedFields
    <3> HIDE DEF f
    <3>3. Enter(f, "create").op = f.op /\ Enter(f, "create").val = f.val
          /\ Enter(f, "create").stage = "create"
      BY <3>1, EnterFields DEF Stage
    <3>4. End(f, "error").op = f.op /\ End(f, "error").val = f.val
          /\ End(f, "error").stage = "idle"
      BY <3>1, EndFields
    <3>5. AttemptFailed(f).op = f.op /\ AttemptFailed(f).val = f.val
          /\ AttemptFailed(f).stage \in {"describe", "idle"}
      BY <3>1, AttemptFailedFields
    <3> QED
      BY <1>1, <1>2, <1>3, <3>1, <3>2, <3>3, <3>4, <3>5, MethodFailedFields
      DEF WellFormed
  <2> QED
    BY <1>1, <1>2, <2>1, <2>2
<1>6. ASSUME calm' = "yes"
      PROVE  calm = "yes" /\ Progress(RequestFailed(e), store')
  <2>1. calm = "yes" /\ Progress(c, store)
    BY <1>1, <1>6, FaultFacts
  <2>2. CASE e = Faulty(c) /\ Fault(p)
    <3>1. e.faults = c.faults + 1 /\ e.faults < MaxAttempts
      BY <1>1, <1>6, <2>2, FaultFacts, FaultyFields
    <3>2. c.op = "put" =>
            /\ c.result # "error" /\ c.faults >= c.outer - 1
            /\ c.stage = "describe" /\ store # {} =>
                 c.inner <= c.faults + 2 - c.outer
      BY <1>1, <2>1 DEF Progress
    <3>3. c.stage = "describe" => store' = store
      OBVIOUS
    <3> QED
      BY <1>1, <1>2, <1>3, <2>1, <3>1, <3>2, <3>3, RequestFailedProgress
  <2>3. CASE e = c /\ store' = store /\ c.stage # "get"
             /\ ~(e = Faulty(c) /\ Fault(p))
    <3>1. c.at = "list" /\ store = {}
      BY <2>1, <2>3
    <3>2. c.faults < MaxAttempts
          /\ (c.op = "put" =>
                /\ c.result # "error" /\ c.faults >= c.outer - 1
                /\ c.stage = "remove" => c.faults >= c.outer)
      BY <1>1, <2>1, <3>1 DEF Progress
    <3> QED
      BY <1>1, <2>1, <2>3, <3>1, <3>2, RequestFailedProgress
  <2>4. CASE e = c /\ store' = store /\ c.stage = "get"
    <3>1. c.faults < MaxAttempts /\ c.op # "put"
      BY <1>1, <2>1, <2>4 DEF Progress, WellFormed
    <3> QED
      BY <1>1, <2>1, <2>4, <3>1, RequestFailedProgress
  <2> QED
    BY <2>2, <2>3, <2>4
<1>7. calm' = "yes" => /\ \A q \in Proc : q # p => ~Running(q)
                       /\ c.op \in {"put", "delete"} => wanted.is = "unknown"
                       /\ \A s, t \in store' : s = t
                       /\ store' # store => wanted.is = "unknown"
                       /\ wanted.is = "known" =>
                            {s.val : s \in store} = wanted.vals
  BY <1>1, <1>6, Others DEF IInv, CalmInv, Open, Running, WellFormed
<1>8. /\ made' \in Nat /\ store' \subseteq [id : 1..made', val : Value]
      /\ runs' \in 0..MaxRuns /\ calm' \in {"yes", "no"}
      /\ wanted' \in [is : {"known", "unknown"}, vals : SUBSET Value]
  BY FaultFacts DEF IInv, TypeOK
<1> QED
  BY <1>4, <1>5, <1>6, <1>7, <1>8, StepIInv

LEMMA ListIInv ==
  ASSUME IInv, NEW p \in Proc, List(p)
  PROVE  IInv'
<1> DEFINE c == cmd[p]
<1>1. /\ c.stage \in {"describe", "remove", "get"} /\ c.at = "list"
      /\ store' = store /\ made' = made /\ runs' = runs /\ wanted' = wanted
  BY DEF List
<1>2. ASSUME NEW s \in store, Becomes(p, [c EXCEPT !.ref = s.id, !.at = "use"]),
             calm' = calm
      PROVE  IInv'
  <2> DEFINE r == [c EXCEPT !.ref = s.id]
             d == [r EXCEPT !.at = "use"]
  <2>1. c \in Command /\ s.id \in Nat
    BY DEF IInv, TypeOK
  <2>2. r = [op |-> c.op, val |-> c.val, stage |-> c.stage, at |-> c.at,
             ref |-> s.id, outer |-> c.outer, inner |-> c.inner,
             failures |-> c.failures, faults |-> c.faults, result |-> c.result]
    BY <2>1 DEF Command
  <2> HIDE DEF r
  <2>3. /\ d \in Command /\ d.op = c.op /\ d.val = c.val /\ d.stage = c.stage
        /\ d.at = "use" /\ d.ref = s.id /\ d.outer = c.outer
        /\ d.inner = c.inner /\ d.failures = c.failures
        /\ d.faults = c.faults /\ d.result = c.result
    BY <2>1, <2>2 DEF Command
  <2>4. Becomes(p, d)
    BY <1>2 DEF r
  <2> HIDE DEF d
  <2>5. Counted(d) /\ WellFormed(d)
    BY <2>3 DEF IInv, CountedAll, Counted, WellFormed
  <2>6. calm = "yes" => Progress(d, store)
    BY <2>3 DEF IInv, CalmInv, Progress
  <2>7. calm = "yes" => /\ \A q \in Proc : q # p => ~Running(q)
                        /\ c.op \in {"put", "delete"} => wanted.is = "unknown"
    BY <1>1, Others DEF IInv, CalmInv, Open, Running
  <2> QED
    BY <1>1, <1>2, <2>3, <2>4, <2>5, <2>6, <2>7, StepIInv
    DEF IInv, TypeOK, CalmInv
<1>3. CASE store = {} /\ Becomes(p, RequestFailed(c)) /\ UNCHANGED calm
  BY <1>1, <1>3, RequestFailedIInv
<1>4. CASE Fault(p) /\ Becomes(p, RequestFailed(Faulty(c)))
  BY <1>1, <1>4, RequestFailedIInv
<1> QED
  BY <1>2, <1>3, <1>4 DEF List

LEMMA ReadIInv ==
  ASSUME IInv, NEW p \in Proc, Read(p)
  PROVE  IInv'
<1> DEFINE c == cmd[p]
           d == MethodDone(c)
<1>1. /\ c.stage \in {"describe", "get"} /\ c.at = "use"
      /\ store' = store /\ made' = made /\ runs' = runs /\ wanted' = wanted
      /\ c \in Command
  BY DEF Read, IInv, TypeOK
<1>2. CASE Listed(c) # {} /\ Becomes(p, d) /\ UNCHANGED calm
  <2> DEFINE g == Success(c)
  <2>1. /\ g \in Command /\ g.op = c.op /\ g.val = c.val
        /\ g.outer = c.outer /\ g.faults = c.faults /\ g.result = c.result
    BY <1>1, SuccessFields
  <2>2. d \in Command /\ Counted(d)
    BY <1>1, MethodDoneCounted
  <2>3. store # {}
    BY <1>2 DEF Listed
  <2>4. calm = "yes" => /\ \A q \in Proc : q # p => ~Running(q)
                        /\ c.op \in {"put", "delete"} => wanted.is = "unknown"
                        /\ Progress(c, store)
    BY <1>1, Others DEF IInv, CalmInv, Open, Running
  <2>5. WellFormed(d) /\ d.op = c.op /\ (calm = "yes" => Progress(d, store))
    <3>1. CASE c.op = "put"
      <4>1. c.stage = "describe" /\ c.val \in Value
        BY <1>1, <3>1 DEF IInv, WellFormed
      <4>2. d = Enter(g, "remove")
        BY <1>1, <3>1, <4>1, MethodDoneFields
      <4> HIDE DEF g, d
      <4>3. calm = "yes" => /\ c.faults < MaxAttempts /\ c.result # "error"
                            /\ c.faults >= c.outer - 1
        BY <1>1, <2>4, <3>1, <4>1 DEF Progress
      <4> QED
        BY <2>1, <2>3, <3>1, <4>1, <4>2, <4>3, EnterFields
        DEF Progress, WellFormed, Stage
    <3>2. CASE c.op # "put"
      <4>1. d = End(g, "ok")
        BY <1>1, <3>2, MethodDoneFields
      <4> HIDE DEF g, d
      <4> QED
        BY <2>1, <3>2, <4>1, EndFields DEF Progress, WellFormed
    <3> QED
      BY <3>1, <3>2
  <2> HIDE DEF d
  <2> QED
    BY <1>1, <1>2, <2>2, <2>4, <2>5, StepIInv DEF IInv, TypeOK, CalmInv
<1>3. CASE Listed(c) = {} /\ Becomes(p, RequestFailed(c)) /\ UNCHANGED calm
  <2>1. c.stage = "describe" => calm # "yes"
    BY <1>1, <1>3 DEF IInv, CalmInv, Progress, Listed
  <2> QED
    BY <1>1, <1>3, <2>1, RequestFailedIInv
<1>4. CASE Fault(p) /\ Becomes(p, RequestFailed(Faulty(c)))
  BY <1>1, <1>4, RequestFailedIInv
<1> QED
  BY <1>2, <1>3, <1>4 DEF Read

LEMMA RemoveIInv ==
  ASSUME IInv, NEW p \in Proc, Remove(p)
  PROVE  IInv'
<1> DEFINE c == cmd[p]
           d == MethodDone(c)
<1>1. /\ c.stage = "remove" /\ c.at = "use" /\ made' = made /\ runs' = runs
      /\ c \in Command /\ c.op \in {"put", "delete"}
  BY DEF Remove, IInv, TypeOK, WellFormed
<1>2. CASE /\ Listed(c) # {} /\ store' = store \ Listed(c) /\ Becomes(p, d)
           /\ wanted' = IF c.op = "delete" THEN Known({}) ELSE wanted
           /\ UNCHANGED calm
  <2> DEFINE g == Success(c)
  <2>1. /\ g \in Command /\ g.op = c.op /\ g.val = c.val
        /\ g.outer = c.outer /\ g.faults = c.faults /\ g.result = c.result
    BY <1>1, SuccessFields
  <2>2. d \in Command /\ Counted(d)
    BY <1>1, MethodDoneCounted
  <2>3. calm = "yes" => /\ \A q \in Proc : q # p => ~Running(q)
                        /\ wanted.is = "unknown"
                        /\ Progress(c, store)
    BY <1>1, Others DEF IInv, CalmInv, Open, Running
  <2>4. calm = "yes" => store' = {}
    <3>1. calm = "yes" => \A s, t \in store : s = t
      BY DEF IInv, CalmInv
    <3>2. \E s \in store : s \in Listed(c)
      BY <1>2 DEF Listed
    <3> QED
      BY <1>2, <3>1, <3>2
  <2>5. /\ WellFormed(d) /\ d.op = c.op
        /\ calm = "yes" => Progress(d, store')
        /\ c.op = "put" \/ d.stage = "idle"
    <3>1. CASE c.op = "put"
      <4>1. c.val \in Value
        BY <3>1 DEF IInv, WellFormed
      <4>2. d = Enter(g, "create")
        BY <1>1, <3>1, MethodDoneFields
      <4> HIDE DEF g, d
      <4>3. calm = "yes" => /\ c.faults < MaxAttempts /\ c.result # "error"
                            /\ c.faults >= c.outer - 1
        BY <1>1, <2>3, <3>1 DEF Progress
      <4> QED
        BY <2>1, <2>4, <3>1, <4>1, <4>2, <4>3, EnterFields
        DEF Progress, WellFormed, Stage
    <3>2. CASE c.op # "put"
      <4>1. d = End(g, "ok")
        BY <1>1, <3>2, MethodDoneFields
      <4> HIDE DEF g, d
      <4> QED
        BY <2>1, <3>2, <4>1, EndFields DEF Progress, WellFormed
    <3> QED
      BY <3>1, <3>2
  <2>6. /\ wanted' \in [is : {"known", "unknown"}, vals : SUBSET Value]
        /\ c.op = "put" => wanted' = wanted
        /\ c.op = "delete" => wanted'.vals = {}
    BY <1>2 DEF Known, IInv, TypeOK
  <2> HIDE DEF d
  <2> QED
    BY <1>1, <1>2, <2>2, <2>3, <2>4, <2>5, <2>6, StepIInv DEF IInv, TypeOK
<1>3. CASE /\ Listed(c) = {} /\ UNCHANGED store /\ Becomes(p, RequestFailed(c))
           /\ UNCHANGED <<calm, wanted>>
  <2>1. calm # "yes"
    BY <1>1, <1>3 DEF IInv, CalmInv, Progress, Listed
  <2> QED
    BY <1>1, <1>3, <2>1, RequestFailedIInv
<1>4. CASE /\ Fault(p) /\ store' \in {store, store \ Listed(c)}
           /\ Becomes(p, RequestFailed(Faulty(c))) /\ UNCHANGED wanted
  BY <1>1, <1>4, RequestFailedIInv
<1> QED
  BY <1>2, <1>3, <1>4 DEF Remove

LEMMA CreateIInv ==
  ASSUME IInv, NEW p \in Proc, Create(p)
  PROVE  IInv'
<1> DEFINE c == cmd[p]
           new == [id |-> made + 1, val |-> c.val]
<1>1. /\ c.stage = "create" /\ made' = made + 1 /\ runs' = runs
      /\ c \in Command /\ c.op = "put" /\ c.val \in Value
      /\ WellFormed(c) /\ c.failures <= c.outer
      /\ c.outer \in 1..MaxAttempts /\ c.failures \in Nat /\ c.faults \in Nat
  BY DEF Create, IInv, TypeOK, CountedAll, Counted, WellFormed, Command
<1>2. /\ made' \in Nat
      /\ store \subseteq [id : 1..made', val : Value]
      /\ new \in [id : 1..made', val : Value]
  BY <1>1 DEF IInv, TypeOK
<1>3. calm = "yes" => /\ \A q \in Proc : q # p => ~Running(q)
                      /\ wanted.is = "unknown"
                      /\ store = {}
                      /\ c.faults < MaxAttempts /\ c.result # "error"
                      /\ c.faults >= c.outer - 1
  BY <1>1, Others DEF IInv, CalmInv, Open, Running, Progress
<1> HIDE DEF new
<1>4. CASE /\ store' = store \cup {new} /\ Becomes(p, End(Success(c), "ok"))
           /\ wanted' = Known({c.val}) /\ UNCHANGED calm
  <2> DEFINE d == End(Success(c), "ok")
  <2>1. /\ d \in Command /\ d.op = c.op /\ d.val = c.val /\ d.stage = "idle"
        /\ d.faults = 0 /\ d.failures = 0 /\ d.result = "ok"
    BY <1>1, SuccessFields, EndFields
  <2> HIDE DEF d
  <2>2. Counted(d) /\ WellFormed(d) /\ Progress(d, store')
    BY <1>1, <2>1 DEF Counted, WellFormed, Progress
  <2>3. /\ wanted' \in [is : {"known", "unknown"}, vals : SUBSET Value]
        /\ wanted'.vals = {c.val}
    BY <1>1, <1>4 DEF Known
  <2>4. calm = "yes" => /\ \A s, t \in store' : s = t
                        /\ {s.val : s \in store'} = {c.val}
    <3>1. new.val = c.val
      BY DEF new
    <3>2. calm = "yes" => store' = {new}
      BY <1>3, <1>4
    <3> QED
      BY <3>1, <3>2
  <2> QED
    BY <1>1, <1>2, <1>3, <1>4, <2>1, <2>2, <2>3, <2>4, StepIInv
    DEF IInv, TypeOK, d
<1>5. CASE /\ Fault(p) /\ store' \in {store, store \cup {new}}
           /\ Becomes(p, AttemptFailed(Faulty(c))) /\ UNCHANGED wanted
  <2> DEFINE e == Faulty(c)
             d == AttemptFailed(e)
  <2>1. /\ e \in Command /\ e.op = c.op /\ e.val = c.val
        /\ e.stage = c.stage /\ e.outer = c.outer
        /\ e.failures = c.failures /\ e.faults = c.faults + 1
        /\ e.result = c.result
    BY <1>1, <1>5, FaultFacts, FaultyFields
  <2> HIDE DEF e
  <2>2. d \in Command /\ Counted(d)
    BY <1>1, <2>1, AttemptFailedCounted
  <2>3. WellFormed(e)
    BY <1>1, <2>1 DEF WellFormed
  <2>4. WellFormed(d) /\ d.op = "put"
    BY <1>1, <2>1, <2>3, AttemptFailedFields DEF WellFormed
  <2>5. /\ calm' \in {"yes", "no"}
        /\ calm' = "yes" => calm = "yes" /\ c.faults + 1 < MaxAttempts
    BY <1>5, FaultFacts
  <2>6. calm' = "yes" => Progress(d, store')
    BY <1>1, <1>3, <2>1, <2>3, <2>5, AttemptFailedProgress
  <2>7. store' \subseteq [id : 1..made', val : Value]
    BY <1>2, <1>5
  <2>8. calm' = "yes" => \A s, t \in store' : s = t
    BY <1>3, <1>5, <2>5
  <2>9. Becomes(p, d)
    BY <1>5 DEF e
  <2> HIDE DEF d
  <2> QED
    BY <1>1, <1>2, <1>3, <1>5, <2>2, <2>4, <2>5, <2>6, <2>7, <2>8, <2>9,
       StepIInv DEF IInv, TypeOK
<1> QED
  BY <1>4, <1>5 DEF Create, new

LEMMA KillIInv ==
  ASSUME IInv, NEW p \in Proc, Kill(p)
  PROVE  IInv'
<1> DEFINE c == cmd[p]
           d == End(c, "killed")
<1>1. /\ c \in Command /\ Counted(c) /\ WellFormed(c) /\ c.stage # "idle"
      /\ c.outer \in 1..MaxAttempts /\ c.failures \in Nat
      /\ c.stage \in {"describe", "remove", "create", "get"}
      /\ UNCHANGED <<store, made, runs, calm, wanted>> /\ Becomes(p, d)
  BY DEF Kill, Running, IInv, TypeOK, CountedAll, Command, Stage
<1>2. /\ d \in Command /\ d.op = c.op /\ d.val = c.val /\ d.stage = "idle"
      /\ d.faults = 0 /\ d.failures = c.failures /\ d.result = "killed"
  BY <1>1, EndFields
<1> HIDE DEF d
<1>3. Counted(d) /\ WellFormed(d) /\ Progress(d, store)
  BY <1>1, <1>2 DEF Counted, WellFormed, Progress
<1>4. calm = "yes" => \A q \in Proc : q # p => ~Running(q)
  BY Others DEF IInv, CalmInv, Kill
<1> QED
  BY <1>1, <1>2, <1>3, <1>4, StepIInv DEF IInv, TypeOK, CalmInv

LEMMA IInvAlways == Spec => []IInv
<1>1. IInv /\ [Next]_vars => IInv'
  <2> SUFFICES ASSUME IInv, [Next]_vars PROVE IInv'
    OBVIOUS
  <2>1. ASSUME NEW p \in Proc, NEW op \in Op, NEW v \in Value \cup {NoValue},
               Start(p, op, v)
        PROVE  IInv'
    BY <2>1, StartIInv
  <2>2. ASSUME NEW p \in Proc, Step(p) \/ Kill(p) PROVE IInv'
    BY <2>2, ListIInv, ReadIInv, RemoveIInv, CreateIInv, KillIInv DEF Step
  <2>3. CASE UNCHANGED vars
    <3>1. /\ store' = store /\ made' = made /\ cmd' = cmd /\ runs' = runs
          /\ calm' = calm /\ wanted' = wanted
      BY <2>3 DEF vars
    <3>2. TypeOK' /\ CountedAll' /\ \A p \in Proc : WellFormed(cmd[p])'
      BY <3>1 DEF IInv, TypeOK, CountedAll
    <3>3. Alone' = Alone /\ Open' = Open
      BY <3>1 DEF Alone, Open, Running
    <3>4. CalmInv'
      BY <3>1, <3>3 DEF IInv, CalmInv
    <3> QED
      BY <3>2, <3>4 DEF IInv
  <2> QED
    BY <2>1, <2>2, <2>3 DEF Next
<1> QED
  BY InitIInv, <1>1, PTL DEF Spec
------------------------------------------------------------------------------
(* The state keeps its types.                                              *)
THEOREM TypeCorrect == Spec => []TypeOK
BY IInvAlways, PTL DEF IInv

(* PutSecret inside its own breaker: no nesting of failures reaches the    *)
(* threshold, so that no call of a command is ever refused.                *)
THEOREM NestedBreaker == Spec => []BreakerStaysClosed
<1>1. IInv => BreakerStaysClosed
  <2> SUFFICES ASSUME IInv, NEW p \in Proc
               PROVE  cmd[p].failures < FailureThreshold
    BY DEF BreakerStaysClosed
  <2> DEFINE c == cmd[p]
  <2>1. /\ c.outer \in 1..MaxAttempts /\ c.failures \in Nat
        /\ c.stage \in Stage /\ Counted(c)
    BY DEF IInv, TypeOK, CountedAll, Command
  <2> HIDE DEF c
  <2>2. c.failures <= MaxAttempts + 1
    BY <2>1 DEF Counted, Stage
  <2> QED
    BY <2>1, <2>2 DEF c
<1> QED
  BY IInvAlways, <1>1, PTL

(* PutSecret replaces and never adds, while commands do not overlap and    *)
(* none meets as many faults as it has attempts.                           *)
THEOREM Unique == Spec => []UniqueSecret
<1>1. IInv => UniqueSecret
  BY DEF IInv, CalmInv, UniqueSecret
<1> QED
  BY IInvAlways, <1>1, PTL

(* Under the same condition the retries of PutSecret are enough.           *)
THEOREM PutSucceeds == Spec => []PutSurvivesFaults
<1>1. IInv => PutSurvivesFaults
  BY DEF IInv, CalmInv, PutSurvivesFaults, Progress
<1> QED
  BY IInvAlways, <1>1, PTL

(* And a reader finds what was last written.                               *)
THEOREM LastWrite == Spec => []LastWriteWins
<1>1. IInv => LastWriteWins
  BY DEF IInv, CalmInv, LastWriteWins
<1> QED
  BY IInvAlways, <1>1, PTL
------------------------------------------------------------------------------
(* The requests that the attempts of PutSecret after this one may send.    *)
Later(o) == (MaxAttempts - o) * PutRequests

LEMMA LaterFacts ==
  ASSUME NEW o \in 1..MaxAttempts
  PROVE  /\ Later(o) \in Nat
         /\ o < MaxAttempts => Later(o + 1) = Later(o) - PutRequests
<1>1. \A m, k \in Nat : m * k \in Nat /\ (m > 0 => (m - 1) * k = m * k - k)
  OBVIOUS
<1>2. PutRequests \in Nat /\ MaxAttempts - o \in Nat
  BY DEF PutRequests
<1>3. o < MaxAttempts => MaxAttempts - (o + 1) = (MaxAttempts - o) - 1
  OBVIOUS
<1> QED
  BY <1>1, <1>2, <1>3 DEF Later

LEMMA LeftFacts ==
  ASSUME NEW c \in Command, WellFormed(c)
  PROVE  /\ MethodLeft(c) \in 1..2 * MaxAttempts
         /\ c.at = "list" => MethodLeft(c) = 2 * (MaxAttempts - c.inner) + 2
         /\ c.stage = "idle" => Left(c) = 0
         /\ c.op # "put" /\ c.stage # "idle" => Left(c) = MethodLeft(c)
         /\ c.op = "put" => c.stage \in {"idle", "describe", "remove", "create"}
         /\ c.op = "put" /\ c.stage = "describe" =>
              Left(c) = Later(c.outer) + MethodLeft(c) + 2 * MaxAttempts + 1
         /\ c.op = "put" /\ c.stage = "remove" =>
              Left(c) = Later(c.outer) + MethodLeft(c) + 1
         /\ c.op = "put" /\ c.stage = "create" => Left(c) = Later(c.outer) + 1
<1>1. /\ c.inner \in 1..MaxAttempts /\ c.at \in {"list", "use"}
      /\ c.outer \in 1..MaxAttempts /\ c.stage \in Stage
  BY DEF Command
<1>2. MethodLeft(c) \in 1..2 * MaxAttempts
  BY <1>1 DEF MethodLeft
<1>3. Later(c.outer) \in Nat
  BY <1>1, LaterFacts
<1> QED
  BY <1>1, <1>2, <1>3 DEF MethodLeft, Left, AttemptLeft, Later, WellFormed, Stage

LEMMA FaultyLeft ==
  ASSUME NEW c \in Command, c.faults < MaxFaults, WellFormed(c)
  PROVE  Left(Faulty(c)) = Left(c) /\ WellFormed(Faulty(c))
BY FaultyFields DEF Left, AttemptLeft, MethodLeft, WellFormed

(* A command that runs has something left, and nothing when it has ended.  *)
LEMMA EndLeft ==
  ASSUME NEW c \in Command, WellFormed(c), c.stage # "idle",
         NEW d \in Command, d.stage = "idle"
  PROVE  Left(d) \in 0..Left(c) - 1
<1>1. Left(d) = 0
  BY DEF Left
<1>2. Later(c.outer) \in Nat
  BY LaterFacts DEF Command
<1>3. Left(c) \in Nat /\ Left(c) >= 1
  BY <1>2, LeftFacts
<1> QED
  BY <1>1, <1>3

(* A failed attempt of PutSecret leaves the later ones.                    *)
LEMMA AttemptFailedLeft ==
  ASSUME NEW c \in Command, NEW b \in Command, WellFormed(b),
         b.op = "put", b.stage \in {"remove", "create"},
         c.op = "put", c.outer = b.outer,
         WellFormed(AttemptFailed(c))
  PROVE  Left(AttemptFailed(c)) \in 0..Left(b) - 1
<1> DEFINE d == AttemptFailed(c)
<1>1. CASE d.stage = "idle"
  BY <1>1, EndLeft, AttemptFailedFields
<1>2. CASE d.stage # "idle"
  <2>1. /\ d \in Command /\ d.op = "put" /\ d.stage = "describe" /\ d.at = "list"
        /\ c.outer < MaxAttempts /\ d.outer = c.outer + 1 /\ d.inner = 1
    BY <1>2, AttemptFailedFields
  <2> HIDE DEF d
  <2>2. Left(d) = Later(c.outer + 1) + 4 * MaxAttempts + 1
    <3>1. /\ Left(d) = Later(d.outer) + MethodLeft(d) + 2 * MaxAttempts + 1
          /\ MethodLeft(d) = 2 * (MaxAttempts - 1) + 2
      BY <2>1, LeftFacts DEF d
    <3>2. Later(c.outer + 1) \in Nat
      BY <2>1, LaterFacts DEF Command
    <3> QED
      BY <2>1, <3>1, <3>2
  <2>3. /\ Later(c.outer) \in Nat /\ Later(c.outer + 1) \in Nat
        /\ Later(c.outer + 1) = Later(c.outer) - PutRequests
    BY <2>1, LaterFacts DEF Command
  <2>4. Left(d) = Later(b.outer)
    BY <2>2, <2>3 DEF PutRequests
  <2>5. Left(b) >= Later(b.outer) + 1 /\ Left(b) \in Nat
    BY <2>3, LeftFacts
  <2> QED
    BY <2>3, <2>4, <2>5 DEF d
<1> QED
  BY <1>1, <1>2

LEMMA RequestFailedLeft ==
  ASSUME NEW c \in Command, WellFormed(c),
         c.stage \in {"describe", "remove", "get"}, WellFormed(RequestFailed(c))
  PROVE  Left(RequestFailed(c)) \in 0..Left(c) - 1
<1> DEFINE d == RequestFailed(c)
<1>0. /\ c.outer \in 1..MaxAttempts /\ c.inner \in 1..MaxAttempts
      /\ c.at \in {"list", "use"} /\ Later(c.outer) \in Nat
  BY LaterFacts DEF Command
<1>1. CASE c.inner < MaxAttempts
  <2>1. /\ d \in Command /\ d.op = c.op /\ d.stage = c.stage /\ d.at = "list"
        /\ d.outer = c.outer /\ d.inner = c.inner + 1
    BY <1>1, RequestFailedFields
  <2> HIDE DEF d
  <2>2. MethodLeft(d) \in Nat /\ MethodLeft(c) \in Nat /\ MethodLeft(d) < MethodLeft(c)
    BY <1>0, <1>1, <2>1 DEF MethodLeft
  <2>3. WellFormed(d)
    BY DEF d
  <2>4. /\ c.op = "put" /\ c.stage = "describe" =>
             /\ Left(c) = Later(c.outer) + MethodLeft(c) + 2 * MaxAttempts + 1
             /\ Left(d) = Later(c.outer) + MethodLeft(d) + 2 * MaxAttempts + 1
        /\ c.op = "put" /\ c.stage = "remove" =>
             /\ Left(c) = Later(c.outer) + MethodLeft(c) + 1
             /\ Left(d) = Later(c.outer) + MethodLeft(d) + 1
        /\ c.op # "put" => Left(c) = MethodLeft(c) /\ Left(d) = MethodLeft(d)
        /\ c.op = "put" => c.stage \in {"describe", "remove"}
    BY <2>1, <2>3, LeftFacts
  <2> QED
    BY <1>0, <2>2, <2>4 DEF d
<1>2. CASE c.inner = MaxAttempts
  <2> DEFINE f == Failure(c)
  <2>1. /\ f \in Command /\ f.op = c.op /\ f.stage = c.stage /\ f.outer = c.outer
        /\ f.val = c.val
    BY FailureFields
  <2>2. d = MethodFailed(f)
    BY <1>2, RequestFailedFields DEF Command
  <2> HIDE DEF f
  <2>3. CASE c.op = "put" /\ c.stage = "describe" /\ d = Enter(f, "create")
    <3>1. /\ d \in Command /\ d.op = "put" /\ d.stage = "create" /\ d.outer = c.outer
      BY <2>1, <2>3, EnterFields DEF Stage
    <3> HIDE DEF d
    <3>2. /\ Left(d) = Later(c.outer) + 1
          /\ Left(c) = Later(c.outer) + MethodLeft(c) + 2 * MaxAttempts + 1
          /\ MethodLeft(c) \in 1..2 * MaxAttempts
      BY <2>3, <3>1, LeftFacts DEF d
    <3> QED
      BY <1>0, <3>2 DEF d
  <2>4. CASE c.op = "put" /\ c.stage = "remove" /\ d = AttemptFailed(f)
    BY <2>1, <2>4, AttemptFailedLeft
  <2>5. CASE d = End(f, "error")
    BY <2>1, <2>5, EndFields, EndLeft
  <2> QED
    BY <2>1, <2>2, <2>3, <2>4, <2>5, MethodFailedFields
<1> QED
  BY <1>0, <1>1, <1>2

LEMMA MethodDoneLeft ==
  ASSUME NEW c \in Command, WellFormed(c),
         c.stage \in {"describe", "remove", "get"}, WellFormed(MethodDone(c))
  PROVE  Left(MethodDone(c)) \in 0..Left(c) - 1
<1> DEFINE d == MethodDone(c)
           e == Success(c)
<1>0. Later(c.outer) \in Nat /\ MethodLeft(c) \in 1..2 * MaxAttempts
  BY LaterFacts, LeftFacts DEF Command
<1>1. e \in Command /\ e.op = c.op /\ e.stage = c.stage /\ e.outer = c.outer
  BY SuccessFields
<1> HIDE DEF e
<1>2. CASE c.op = "put" /\ c.stage = "describe" /\ d = Enter(e, "remove")
  <2>1. /\ d \in Command /\ d.op = "put" /\ d.stage = "remove" /\ d.outer = c.outer
        /\ d.inner = 1 /\ d.at = "list"
    BY <1>1, <1>2, EnterFields DEF Stage
  <2> HIDE DEF d
  <2>2. /\ Left(d) = Later(c.outer) + MethodLeft(d) + 1
        /\ MethodLeft(d) = 2 * (MaxAttempts - 1) + 2
        /\ Left(c) = Later(c.outer) + MethodLeft(c) + 2 * MaxAttempts + 1
    BY <1>2, <2>1, LeftFacts DEF d
  <2> QED
    BY <1>0, <2>2 DEF d
<1>3. CASE c.op = "put" /\ c.stage = "remove" /\ d = Enter(e, "create")
  <2>1. /\ d \in Command /\ d.op = "put" /\ d.stage = "create" /\ d.outer = c.outer
    BY <1>1, <1>3, EnterFields DEF Stage
  <2> HIDE DEF d
  <2>2. /\ Left(d) = Later(c.outer) + 1
        /\ Left(c) = Later(c.outer) + MethodLeft(c) + 1
    BY <1>3, <2>1, LeftFacts DEF d
  <2> QED
    BY <1>0, <2>2 DEF d
<1>4. CASE d = End(e, "ok")
  BY <1>1, <1>4, EndFields, EndLeft
<1> QED
  BY <1>2, <1>3, <1>4, MethodDoneFields DEF e

(* A command that has listed a secret has one request less in its attempt. *)
LEMMA UseLeft ==
  ASSUME NEW c \in Command, WellFormed(c), c.at = "list",
         c.stage \in {"describe", "remove", "get"}, NEW r \in Nat
  PROVE  Left([c EXCEPT !.ref = r, !.at = "use"]) \in 0..Left(c) - 1
<1> DEFINE d == [c EXCEPT !.ref = r, !.at = "use"]
<1>1. /\ d \in Command /\ d.op = c.op /\ d.val = c.val /\ d.stage = c.stage
      /\ d.at = "use" /\ d.inner = c.inner /\ d.outer = c.outer
  BY DEF Command
<1> HIDE DEF d
<1>2. WellFormed(d) /\ Later(c.outer) \in Nat
  BY <1>1, LaterFacts DEF WellFormed, Command
<1>3. /\ MethodLeft(d) = MethodLeft(c) - 1
      /\ MethodLeft(d) \in Nat /\ MethodLeft(c) \in Nat
  BY <1>1 DEF MethodLeft, Command
<1>4. \/ /\ c.op = "put" /\ c.stage = "describe"
         /\ Left(c) = Later(c.outer) + MethodLeft(c) + 2 * MaxAttempts + 1
         /\ Left(d) = Later(c.outer) + MethodLeft(d) + 2 * MaxAttempts + 1
      \/ /\ c.op = "put" /\ c.stage = "remove"
         /\ Left(c) = Later(c.outer) + MethodLeft(c) + 1
         /\ Left(d) = Later(c.outer) + MethodLeft(d) + 1
      \/ Left(c) = MethodLeft(c) /\ Left(d) = MethodLeft(d)
  BY <1>1, <1>2, LeftFacts
<1> QED
  BY <1>2, <1>3, <1>4 DEF d

(* Each request of a command is one of those that were left to it.  A put  *)
(* begins with MaxAttempts * PutRequests: 39 with the default of three     *)
(* attempts.                                                               *)
THEOREM RequestsBoundedCorrect == Spec => RequestsBounded
<1> DEFINE Uses(p) == Running(p) /\ cmd'[p] # cmd[p] =>
                        Left(cmd'[p]) \in 0..Left(cmd[p]) - 1
<1>1. ASSUME IInv, IInv', [Next]_vars, NEW p \in Proc, Running(p),
             cmd'[p] # cmd[p]
      PROVE  Left(cmd'[p]) \in 0..Left(cmd[p]) - 1
  <2> DEFINE c == cmd[p]
             d == cmd'[p]
  <2>1. /\ c \in Command /\ WellFormed(c) /\ d \in Command /\ WellFormed(d)
        /\ c.stage # "idle" /\ cmd \in [Proc -> Command]
    BY <1>1 DEF IInv, TypeOK, Running
  <2>2. Step(p) \/ Kill(p)
    <3>1. cmd' # cmd
      BY <1>1
    <3>2. PICK q \in Proc : \/ \E op \in Op, v \in Value \cup {NoValue} : Start(q, op, v)
                           \/ Step(q) \/ Kill(q)
      BY <1>1, <3>1 DEF Next, vars
    <3>3. \E b : Becomes(q, b)
      BY <3>2, Zenon DEF Start, Step, Kill, List, Read, Remove, Create
    <3>4. q = p
      BY <1>1, <2>1, <3>3 DEF Becomes
    <3> QED
      BY <1>1, <3>2, <3>4 DEF Start
  <2>3. ASSUME NEW b, Becomes(p, b) PROVE d = b
    BY <2>1, <2>3 DEF Becomes
  <2>4. CASE d.stage = "idle"
    BY <2>1, <2>4, EndLeft
  <2>5. CASE /\ c.stage \in {"describe", "remove", "get"} /\ Fault(p)
             /\ d = RequestFailed(Faulty(c))
    <3>1. c.faults < MaxFaults
      BY <2>5 DEF Fault
    <3>2. /\ Faulty(c) \in Command /\ Faulty(c).stage = c.stage
          /\ Left(Faulty(c)) = Left(c) /\ WellFormed(Faulty(c))
      BY <2>1, <3>1, FaultyFields, FaultyLeft
    <3> QED
      BY <2>1, <2>5, <3>2, RequestFailedLeft
  <2>6. CASE c.stage \in {"describe", "remove", "get"} /\ d = RequestFailed(c)
    BY <2>1, <2>6, RequestFailedLeft
  <2>7. CASE c.stage \in {"describe", "remove", "get"} /\ d = MethodDone(c)
    BY <2>1, <2>7, MethodDoneLeft
  <2>8. CASE List(p)
    <3>1. CASE \E s \in store : Becomes(p, [c EXCEPT !.ref = s.id, !.at = "use"])
      <4>1. PICK s \in store : d = [c EXCEPT !.ref = s.id, !.at = "use"]
        BY <2>3, <3>1
      <4>2. s.id \in Nat
        BY <1>1 DEF IInv, TypeOK
      <4>3. c.at = "list" /\ c.stage \in {"describe", "remove", "get"}
        BY <2>8 DEF List
      <4> HIDE DEF c, d
      <4> QED
        BY <2>1, <4>1, <4>2, <4>3, UseLeft DEF c, d
    <3> QED
      BY <2>3, <2>5, <2>6, <2>8, <3>1 DEF List
  <2>9. CASE Read(p) \/ Remove(p)
    BY <2>3, <2>5, <2>6, <2>7, <2>9 DEF Read, Remove
  <2>10. CASE Create(p)
    <3>1. CASE Becomes(p, End(Success(c), "ok"))
      BY <2>1, <2>3, <2>4, <3>1, SuccessFields, EndFields
    <3>2. CASE Fault(p) /\ Becomes(p, AttemptFailed(Faulty(c)))
      <4>1. c.faults < MaxFaults /\ c.stage = "create" /\ c.op = "put"
        BY <2>1, <2>10, <3>2 DEF Fault, Create, WellFormed
      <4>2. /\ Faulty(c) \in Command /\ Faulty(c).op = "put"
            /\ Faulty(c).outer = c.outer
        BY <2>1, <4>1, FaultyFields
      <4>3. d = AttemptFailed(Faulty(c))
        BY <2>3, <3>2
      <4> QED
        BY <2>1, <4>1, <4>2, <4>3, AttemptFailedLeft
    <3> QED
      BY <2>10, <3>1, <3>2 DEF Create
  <2>11. CASE Kill(p)
    <3>1. d = End(c, "killed")
      BY <2>3, <2>11 DEF Kill
    <3> QED
      BY <2>1, <2>4, <3>1, EndFields
  <2> QED
    BY <2>2, <2>8, <2>9, <2>10, <2>11 DEF Step
<1>2. IInv /\ IInv' /\ [Next]_vars => [\A p \in Proc : Uses(p)]_vars
  BY <1>1
<1> QED
  BY IInvAlways, <1>2, PTL DEF Spec, RequestsBounded
==============================================================================
