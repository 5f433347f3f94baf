------------------------------ MODULE SecretStore ------------------------------
(***************************************************************************)
(* barbican.Client (internal/barbican/client.go) as the commands `secrets  *)
(* set', `get', `describe' and `delete' use it: every command makes a      *)
(* client of its own, so that a circuit breaker lives as long as one       *)
(* command.  Every method is breaker.Call(retry.Do(operation)), and        *)
(* PutSecret calls DescribeSecret and DeleteSecret inside its own          *)
(* operation: a retry within a retry, a breaker entered twice.             *)
(*                                                                         *)
(* The store is external.  It keeps any number of secrets of one name and  *)
(* lists them in an order the client does not choose; other names do not   *)
(* interfere.  A request can fail without effect, or take effect and lose  *)
(* its reply.  Commands of several operators overlap, and may be killed.   *)
(* The contexts of the commands are never cancelled, and a delay between   *)
(* two attempts is the time others take in between.                        *)
(*                                                                         *)
(* Bounds: MaxRuns commands, MaxFaults failed requests per command.        *)
(* History variables: `calm' until commands overlap or one of them meets   *)
(* MaxAttempts faults; `wanted', what the last completed write asked for.  *)
(***************************************************************************)
EXTENDS Integers

CONSTANTS Proc, Value, MaxAttempts, FailureThreshold, MaxFaults, MaxRuns

(* DefaultConfig has 3 attempts and DefaultCircuitBreakerConfig opens      *)
(* after 5 failures: BreakerStaysClosed is why no open circuit is          *)
(* modelled here.                                                          *)
ASSUME ConfigAssumption == /\ MaxAttempts \in Nat \ {0}
                           /\ FailureThreshold \in Nat
                           /\ MaxAttempts + 1 < FailureThreshold
ASSUME BoundAssumption == MaxFaults \in Nat /\ MaxRuns \in Nat

VARIABLES store,   \* the secrets of the name that exist
          made,    \* how many were ever created: their identities are 1..made
          cmd,     \* the command of each process
          runs,
          calm, wanted

vars == <<store, made, cmd, runs, calm, wanted>>

NoValue == "none"
Op == {"put", "delete", "describe", "get"}
Stage == {"idle", "describe", "remove", "create", "get"}

(* `failures' is the breaker's FailureCount; `outer' and `inner' are the   *)
(* attempts of PutSecret and of the method that it calls.                  *)
Command == [op : Op \cup {"none"}, val : Value \cup {NoValue}, stage : Stage, at : {"list", "use"},
            ref : Nat, outer : 1..MaxAttempts, inner : 1..MaxAttempts,
            failures : Nat, faults : 0..MaxFaults,
            result : {"none", "ok", "error", "killed"}]

Unknown == [is |-> "unknown", vals |-> {}]
Known(V) == [is |-> "known", vals |-> V]

New(op, v, s) == [op |-> op, val |-> v, stage |-> s, at |-> "list", ref |-> 0,
                  outer |-> 1, inner |-> 1, failures |-> 0, faults |-> 0,
                  result |-> "none"]

TypeOK == /\ made \in Nat
          /\ store \subseteq [id : 1..made, val : Value]
          /\ cmd \in [Proc -> Command]
          /\ runs \in 0..MaxRuns
          /\ calm \in {"yes", "no"}
          /\ wanted \in [is : {"known", "unknown"}, vals : SUBSET Value]

Running(p) == cmd[p].stage # "idle"

(* The name may be in use already.                                         *)
Init == /\ \/ store = {} /\ made = 0
           \/ made = 1 /\ \E v \in Value : store = {[id |-> 1, val |-> v]}
        /\ cmd = [p \in Proc |-> New("none", NoValue, "idle")]
        /\ runs = 0
        /\ calm = "yes"
        /\ wanted = Known({s.val : s \in store})
------------------------------------------------------------------------------
(* What becomes of a command's state.  A method starts at its first        *)
(* attempt, with the listing.                                              *)
Enter(c, s) == [c EXCEPT !.at = "list", !.inner = 1, !.stage = s]
End(c, r) == [New(c.op, c.val, "idle") EXCEPT !.failures = c.failures,
                                              !.result = r]
Failure(c) == [c EXCEPT !.failures = @ + 1]
Success(c) == [c EXCEPT !.failures = 0]

(* An attempt of PutSecret failed.  The mutants give up at the first one,  *)
(* and do not count.                                                       *)
AttemptFailedForGood(c) == End(Failure(c), "error")
AttemptUncounted(c) ==
  IF c.outer < MaxAttempts THEN Enter(c, "describe") ELSE End(Failure(c), "error")
AttemptFailed(c) ==
  IF c.outer < MaxAttempts THEN Enter([c EXCEPT !.outer = @ + 1], "describe")
                           ELSE End(Failure(c), "error")

(* A called method is out of attempts: PutSecret takes any error of the    *)
(* lookup for a secret that does not exist.                                *)
MethodFailed(c) ==
  CASE c.op = "put" /\ c.stage = "describe" -> Enter(c, "create")
    [] c.op = "put" /\ c.stage = "remove" -> AttemptFailed(c)
    [] OTHER -> End(c, "error")

(* A request of a method failed.  Only the exhausted retries are a failure *)
(* for the breaker.  The mutants count each attempt, as a breaker inside   *)
(* the retries would, make one attempt too many, and never stop.           *)
BreakerInside(c) ==
  IF c.inner < MaxAttempts
    THEN Failure([c EXCEPT !.inner = @ + 1, !.at = "list"])
    ELSE MethodFailed(Failure(c))
OneTooMany(c) ==
  IF c.inner <= MaxAttempts THEN [c EXCEPT !.inner = @ + 1, !.at = "list"]
                            ELSE MethodFailed(Failure(c))
RetryForever(c) == [c EXCEPT !.at = "list"]
RequestFailed(c) ==
  IF c.inner < MaxAttempts THEN [c EXCEPT !.inner = @ + 1, !.at = "list"]
                           ELSE MethodFailed(Failure(c))

(* A called method succeeded.  The mutant does not delete what PutSecret   *)
(* found.                                                                  *)
KeepsExisting(c) ==
  CASE c.op = "put" -> Enter(Success(c), "create")
    [] OTHER -> End(Success(c), "ok")
MethodDone(c) ==
  CASE c.op = "put" /\ c.stage = "describe" -> Enter(Success(c), "remove")
    [] c.op = "put" /\ c.stage = "remove" -> Enter(Success(c), "create")
    [] OTHER -> End(Success(c), "ok")

FirstStage(op) == CASE op \in {"put", "describe"} -> "describe"
                    [] op = "delete" -> "remove"
                    [] op = "get" -> "get"

(* One more fault of the command, the MaxAttempts-th of which ends calm.   *)
Faulty(c) == [c EXCEPT !.faults = @ + 1]
Fault(p) == /\ cmd[p].faults < MaxFaults
            /\ calm' = IF cmd[p].faults + 1 < MaxAttempts THEN calm ELSE "no"
Becomes(p, c) == cmd' = [cmd EXCEPT ![p] = c]
------------------------------------------------------------------------------
Start(p, op, v) ==
  /\ ~Running(p)
  /\ v = NoValue <=> op # "put"
  /\ runs < MaxRuns
  /\ runs' = runs + 1
  /\ Becomes(p, New(op, v, FirstStage(op)))
  /\ calm' = IF \E q \in Proc : Running(q) THEN "no" ELSE calm
  /\ wanted' = IF op \in {"put", "delete"} THEN Unknown ELSE wanted
  /\ UNCHANGED <<store, made>>

(* Each method lists the secrets of the name and takes the first; none is  *)
(* an error like any other.                                                *)
List(p) ==
  LET c == cmd[p] IN
  /\ c.stage \in {"describe", "remove", "get"}
  /\ c.at = "list"
  /\ \/ \E s \in store : Becomes(p, [c EXCEPT !.ref = s.id, !.at = "use"])
        /\ UNCHANGED calm
     \/ store = {} /\ Becomes(p, RequestFailed(c)) /\ UNCHANGED calm
     \/ Fault(p) /\ Becomes(p, RequestFailed(Faulty(c)))
  /\ UNCHANGED <<store, made, runs, wanted>>

Listed(c) == {s \in store : s.id = c.ref}

(* DescribeSecret and GetSecret ask for the one they took.                 *)
Read(p) ==
  LET c == cmd[p] IN
  /\ c.stage \in {"describe", "get"}
  /\ c.at = "use"
  /\ \/ Listed(c) # {} /\ Becomes(p, MethodDone(c)) /\ UNCHANGED calm
     \/ Listed(c) = {} /\ Becomes(p, RequestFailed(c)) /\ UNCHANGED calm
     \/ Fault(p) /\ Becomes(p, RequestFailed(Faulty(c)))
  /\ UNCHANGED <<store, made, runs, wanted>>

(* DeleteSecret deletes it.  The mutant reports a success it has not had.  *)
RemoveNothing(p) ==
  /\ cmd[p].stage = "remove" /\ cmd[p].at = "use"
  /\ Becomes(p, MethodDone(cmd[p]))
  /\ wanted' = IF cmd[p].op = "delete" THEN Known({}) ELSE wanted
  /\ UNCHANGED <<store, made, runs, calm>>
Remove(p) ==
  LET c == cmd[p] IN
  /\ c.stage = "remove"
  /\ c.at = "use"
  /\ \/ /\ Listed(c) # {}
        /\ store' = store \ Listed(c)
        /\ Becomes(p, MethodDone(c))
        /\ wanted' = IF c.op = "delete" THEN Known({}) ELSE wanted
        /\ UNCHANGED calm
     \/ /\ Listed(c) = {} /\ UNCHANGED store
        /\ Becomes(p, RequestFailed(c))
        /\ UNCHANGED <<calm, wanted>>
     \/ /\ Fault(p)
        /\ store' \in {store, store \ Listed(c)}
        /\ Becomes(p, RequestFailed(Faulty(c)))
        /\ UNCHANGED wanted
  /\ UNCHANGED <<made, runs>>

(* PutSecret creates the new one: a single request of its own attempt.     *)
Create(p) ==
  LET c == cmd[p]
      new == [id |-> made + 1, val |-> c.val]
  IN
  /\ c.stage = "create"
  /\ \/ /\ store' = store \cup {new}
        /\ Becomes(p, End(Success(c), "ok"))
        /\ wanted' = Known({c.val})
        /\ UNCHANGED calm
     \/ /\ Fault(p)
        /\ store' \in {store, store \cup {new}}
        /\ Becomes(p, AttemptFailed(Faulty(c)))
        /\ UNCHANGED wanted
  /\ made' = made + 1
  /\ UNCHANGED runs

Kill(p) == /\ Running(p)
           /\ Becomes(p, End(cmd[p], "killed"))
           /\ UNCHANGED <<store, made, runs, calm, wanted>>

Step(p) == List(p) \/ Read(p) \/ Remove(p) \/ Create(p)

Next == \E p \in Proc : \/ \E op \in Op, v \in Value \cup {NoValue} : Start(p, op, v)
                        \/ Step(p) \/ Kill(p)

(* The client sends its next request: nothing holds it up but the delays.  *)
Spec == Init /\ [][Next]_vars /\ \A p \in Proc : WF_vars(Step(p))
------------------------------------------------------------------------------
(* The nested calls of a command never open its breaker, however they      *)
(* fail: the breaker sees one failure per attempt of PutSecret at most.    *)
(* If they did, PutSecret would take the refusal for a missing secret.     *)
BreakerStaysClosed == \A p \in Proc : cmd[p].failures < FailureThreshold

(* Commands that do not overlap leave one secret of the name at most, and  *)
(* never create a second one over a lookup that failed for another reason  *)
(* or a creation whose reply was lost, until one meets MaxAttempts faults. *)
UniqueSecret == calm = "yes" => \A s, t \in store : s = t

(* As long, a put that is not killed succeeds: the retries make up for a   *)
(* deletion that took effect without a reply, so that no payload is lost.  *)
PutSurvivesFaults ==
  calm = "yes" => \A p \in Proc : cmd[p].op = "put" => cmd[p].result # "error"

(* And the store then holds what the last completed write asked for, and   *)
(* nothing else that a reader could list first.                            *)
LastWriteWins ==
  calm = "yes" /\ wanted.is = "known" => {s.val : s \in store} = wanted.vals

(* The requests that a command may still send: a method sends two in each  *)
(* of its attempts, and PutSecret calls two methods and sends one request  *)
(* of its own in each attempt.                                             *)
MethodLeft(c) == 2 * (MaxAttempts - c.inner) + IF c.at = "list" THEN 2 ELSE 1
AttemptLeft(c) == CASE c.stage = "describe" -> MethodLeft(c) + 2 * MaxAttempts + 1
                    [] c.stage = "remove" -> MethodLeft(c) + 1
                    [] OTHER -> 1
PutRequests == 4 * MaxAttempts + 1
Left(c) == CASE c.stage = "idle" -> 0
             [] c.stage # "idle" /\ c.op = "put" ->
                  (MaxAttempts - c.outer) * PutRequests + AttemptLeft(c)
             [] OTHER -> MethodLeft(c)

(* Retries inside retries multiply and no more than that: each request of  *)
(* a command uses up one of those it had left, whatever came of it and of  *)
(* the others.  A put has MaxAttempts times PutRequests when it starts.    *)
RequestsBounded ==
  [][\A p \in Proc : Running(p) /\ cmd'[p] # cmd[p] =>
                       Left(cmd'[p]) \in 0..Left(cmd[p]) - 1]_vars

(* Every command ends, one way or another.                                 *)
EveryCommandEnds == \A p \in Proc : Running(p) ~> ~Running(p)
==============================================================================
