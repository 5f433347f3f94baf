---------------------------- MODULE CircuitBreaker ----------------------------
(***************************************************************************)
(* resilience.circuitBreaker (internal/resilience/circuit_breaker.go):     *)
(* calls that run concurrently between beforeCall and afterCall, which are *)
(* atomic under cb.mu.  A call is admitted in one state and may finish in  *)
(* another; the code does not remember where it was admitted.              *)
(*                                                                         *)
(* Call is the set of calls that can be in flight at once.  A call made    *)
(* from inside another one (barbican's PutSecret calls DescribeSecret) is  *)
(* one more of them.  No operation panics: nothing between an operation    *)
(* and main recovers, so that the breaker would die with the process.      *)
(*                                                                         *)
(* `cooling' counts down from Timeout after OpenedAt was set.  Two history *)
(* variables: `probe', the calls in flight that the current half-open      *)
(* period admitted, and `streak', the failures recorded since the last     *)
(* recorded success, counted up to FailureThreshold.                       *)
(***************************************************************************)
EXTENDS Integers, FiniteSets

CONSTANTS Call, FailureThreshold, SuccessThreshold, Timeout, HalfOpenRequests

ASSUME CallAssumption == IsFiniteSet(Call)
ASSUME ConfigAssumption == /\ FailureThreshold \in Nat \ {0}
                           /\ SuccessThreshold \in Nat \ {0}
                           /\ Timeout \in Nat \ {0}
                           /\ HalfOpenRequests \in Nat \ {0}

VARIABLES state, failureCount, successCount, halfOpenRequests, cooling,
          inFlight,  \* the calls whose operation runs
          probe, streak

counters == <<failureCount, successCount, halfOpenRequests>>
vars == <<state, counters, cooling, inFlight, probe, streak>>

TypeOK == /\ state \in {"closed", "open", "half-open"}
          /\ failureCount \in Nat
          /\ successCount \in Nat
          /\ halfOpenRequests \in Int
          /\ cooling \in 0..Timeout
          /\ inFlight \subseteq Call
          /\ probe \subseteq inFlight
          /\ streak \in 0..FailureThreshold

Init == /\ state = "closed"
        /\ failureCount = 0
        /\ successCount = 0
        /\ halfOpenRequests = 0
        /\ cooling = 0
        /\ inFlight = {}
        /\ probe = {}
        /\ streak = 0
------------------------------------------------------------------------------
(* beforeCall lets a call through: always when closed ...                  *)
AdmitClosed(c) ==
  /\ state = "closed"
  /\ inFlight' = inFlight \cup {c}
  /\ UNCHANGED <<state, counters, cooling, probe, streak>>

(* ... the first one after the timeout, which begins a half-open period,   *)
AdmitFirstProbe(c) ==
  /\ state = "open"
  /\ cooling = 0
  /\ state' = "half-open"
  /\ successCount' = 0
  /\ failureCount' = 0
  /\ halfOpenRequests' = 1
  /\ inFlight' = inFlight \cup {c}
  /\ probe' = {c}
  /\ UNCHANGED <<cooling, streak>>

(* ... and those for which the period has a slot left.  All other calls    *)
(* get an error and change nothing.                                        *)
AdmitProbe(c) ==
  /\ state = "half-open"
  /\ halfOpenRequests < HalfOpenRequests
  /\ halfOpenRequests' = halfOpenRequests + 1
  /\ inFlight' = inFlight \cup {c}
  /\ probe' = probe \cup {c}
  /\ UNCHANGED <<state, failureCount, successCount, cooling, streak>>

BeforeCall(c) == /\ c \notin inFlight
                 /\ AdmitClosed(c) \/ AdmitFirstProbe(c) \/ AdmitProbe(c)

Finish(c) == inFlight' = inFlight \ {c}

(* A success while closed forgets the failures.  One mutant keeps them,    *)
(* another takes one back.                                                 *)
SuccessClosedKeeps(c) ==
  /\ state = "closed"
  /\ UNCHANGED <<state, counters, probe>>

SuccessClosedDecrements(c) ==
  /\ state = "closed"
  /\ failureCount' = failureCount - 1
  /\ UNCHANGED <<state, successCount, halfOpenRequests, probe>>

SuccessClosed(c) ==
  /\ state = "closed"
  /\ failureCount' = 0
  /\ UNCHANGED <<state, successCount, halfOpenRequests, probe>>

(* The slot a finished call frees.  The mutants keep it, and free two.     *)
SlotKept == halfOpenRequests
TwoSlotsFreed == halfOpenRequests - 2
SlotFreed == halfOpenRequests - 1

(* A success while half-open frees a slot and counts, whoever it is from;  *)
(* enough of them close the circuit.                                       *)
SuccessHalfOpen(c) ==
  /\ state = "half-open"
  /\ failureCount' = 0
  /\ \/ /\ successCount + 1 < SuccessThreshold
        /\ successCount' = successCount + 1
        /\ halfOpenRequests' = SlotFreed
        /\ probe' = probe \ {c}
        /\ UNCHANGED state
     \/ /\ successCount + 1 >= SuccessThreshold
        /\ state' = "closed"
        /\ successCount' = 0
        /\ halfOpenRequests' = 0
        /\ probe' = {}

(* A late success while open resets the failures.  The mutant closes the   *)
(* circuit.                                                                *)
SuccessOpenCloses(c) ==
  /\ state = "open"
  /\ state' = "closed"
  /\ failureCount' = 0
  /\ UNCHANGED <<successCount, halfOpenRequests, probe>>

SuccessOpen(c) ==
  /\ state = "open"
  /\ failureCount' = 0
  /\ UNCHANGED <<state, successCount, halfOpenRequests, probe>>

OnSuccess(c) ==
  /\ c \in inFlight
  /\ SuccessClosed(c) \/ SuccessHalfOpen(c) \/ SuccessOpen(c)
  /\ Finish(c)
  /\ streak' = 0
  /\ UNCHANGED cooling

(* Enough failures.  The mutant asks for one more.                         *)
TripsLate(n) == n > FailureThreshold
Trips(n) == n >= FailureThreshold

FailureClosed(c) ==
  /\ state = "closed"
  /\ failureCount' = failureCount + 1
  /\ successCount' = 0
  /\ \/ /\ ~Trips(failureCount + 1)
        /\ UNCHANGED <<state, cooling>>
     \/ /\ Trips(failureCount + 1)
        /\ state' = "open"
        /\ cooling' = Timeout
  /\ UNCHANGED <<halfOpenRequests, probe>>

(* Any failure while half-open opens the circuit again.                    *)
FailureHalfOpen(c) ==
  /\ state = "half-open"
  /\ state' = "open"
  /\ cooling' = Timeout
  /\ failureCount' = FailureThreshold
  /\ successCount' = 0
  /\ halfOpenRequests' = 0
  /\ probe' = {}

FailureOpen(c) ==
  /\ state = "open"
  /\ failureCount' = failureCount + 1
  /\ UNCHANGED <<state, successCount, halfOpenRequests, cooling, probe>>

OnFailure(c) ==
  /\ c \in inFlight
  /\ FailureClosed(c) \/ FailureHalfOpen(c) \/ FailureOpen(c)
  /\ Finish(c)
  /\ streak' = IF streak < FailureThreshold THEN streak + 1 ELSE streak

(* Reset forgets everything but the calls in flight.                       *)
Reset ==
  /\ state' = "closed"
  /\ failureCount' = 0
  /\ successCount' = 0
  /\ halfOpenRequests' = 0
  /\ cooling' = 0
  /\ probe' = {}
  /\ UNCHANGED <<inFlight, streak>>

Tick == /\ cooling > 0
        /\ cooling' = cooling - 1
        /\ UNCHANGED <<state, counters, inFlight, probe, streak>>

Next == \/ \E c \in Call : BeforeCall(c) \/ OnSuccess(c) \/ OnFailure(c)
        \/ Reset \/ Tick

Spec == Init /\ [][Next]_vars
------------------------------------------------------------------------------
(* The counters trip when they must: a closed circuit has fewer failures,  *)
(* and a half-open one fewer successes, than would have moved it on.       *)
BelowThresholds ==
  /\ state = "closed" => failureCount < FailureThreshold
  /\ state = "half-open" => successCount < SuccessThreshold

(* A half-open circuit never counts a slot that no probe uses, however the *)
(* results of older calls arrive.  So when nothing is in flight a slot is  *)
(* free, and the circuit can always learn whether the service recovered.   *)
NoLeakedSlots ==
  state = "half-open" => halfOpenRequests <= Cardinality(probe)

(* What remains of the limit (see HalfOpenLimit): a success of an older    *)
(* call lets one more probe in, but each of them also counts towards the   *)
(* closing of the circuit, so that there are fewer than SuccessThreshold   *)
(* probes too many.                                                        *)
OverrunBounded == Cardinality(probe) < HalfOpenRequests + SuccessThreshold

(* An open circuit that still cools admits no call, and nothing but Reset  *)
(* or a failure ends or restarts the cooling: late results of calls that   *)
(* were admitted before do not.                                            *)
FailsFast ==
  [][state = "open" /\ cooling > 0 =>
       \/ state' = "closed" /\ inFlight' = inFlight
       \/ state' = "open" /\ inFlight' \subseteq inFlight
                          /\ cooling' <= cooling]_vars

(* A closed circuit opens only after FailureThreshold failures in a row    *)
(* ("Open after N consecutive failures"): no success came between them.    *)
TripsOnStreak ==
  [][state = "closed" /\ state' = "open" => streak' = FailureThreshold]_vars

(* CircuitBreakerConfig: "Max concurrent requests in half-open state".     *)
HalfOpenLimit == Cardinality(probe) <= HalfOpenRequests
==============================================================================
