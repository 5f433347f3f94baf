------------------------ MODULE CircuitBreakerProofs ------------------------
(***************************************************************************)
(* Proofs about the circuit breaker, for any finite set of calls and any   *)
(* configuration.  The invariant adds to the properties that the failure   *)
(* counter of a closed circuit never runs ahead of the real streak of      *)
(* failures, which is why it trips for a streak only.                      *)
(***************************************************************************)
EXTENDS CircuitBreaker, FiniteSetTheorems, TLAPS

CountsStreak == state = "closed" => failureCount <= streak

(* Only a half-open circuit has probes.                                    *)
ProbesHalfOpen == state # "half-open" => probe = {}

(* A probe has a slot, or some success of the period has given it away.    *)
ProbesCounted ==
  state = "half-open" => /\ Cardinality(probe) <= halfOpenRequests + successCount
                         /\ halfOpenRequests <= HalfOpenRequests

IInv == /\ TypeOK /\ BelowThresholds /\ NoLeakedSlots
        /\ CountsStreak /\ ProbesHalfOpen /\ ProbesCounted

USE CallAssumption, ConfigAssumption DEF SlotFreed, Trips
------------------------------------------------------------------------------
(* How the number of probes changes.                                       *)
LEMMA ProbeCount ==
  ASSUME NEW S \in SUBSET Call, NEW c \in Call
  PROVE  /\ Cardinality(S) \in Nat
         /\ Cardinality({c}) = 1
         /\ c \notin S => Cardinality(S \cup {c}) = Cardinality(S) + 1
         /\ Cardinality(S \ {c}) \in {Cardinality(S) - 1, Cardinality(S)}
<1>1. IsFiniteSet(S)
  BY FS_Subset
<1>2. Cardinality(S) \in Nat
  BY <1>1, FS_CardinalityType
<1>3. Cardinality({c}) = 1
  BY FS_Singleton
<1>4. c \notin S => Cardinality(S \cup {c}) = Cardinality(S) + 1
  BY <1>1, FS_AddElement
<1>5. Cardinality(S \ {c}) \in {Cardinality(S) - 1, Cardinality(S)}
  <2>1. CASE c \in S
    <3>1. Cardinality(S \ {c}) = Cardinality(S) - 1
      BY <1>1, <2>1, FS_RemoveElement
    <3> QED
      BY <1>2, <3>1
  <2>2. CASE c \notin S
    <3>1. S \ {c} = S
      BY <2>2
    <3> QED
      BY <1>2, <3>1
  <2> QED
    BY <2>1, <2>2
<1> QED
  BY <1>2, <1>3, <1>4, <1>5

LEMMA InitIInv == Init => IInv
BY DEF Init, IInv, TypeOK, BelowThresholds, NoLeakedSlots, CountsStreak,
            ProbesHalfOpen, ProbesCounted

LEMMA BeforeCallIInv ==
  ASSUME IInv, NEW c \in Call, BeforeCall(c)
  PROVE  IInv'
<1> USE DEF IInv, TypeOK, BelowThresholds, NoLeakedSlots, CountsStreak,
            ProbesHalfOpen, ProbesCounted, BeforeCall, counters
<1>1. CASE AdmitClosed(c)
  BY <1>1 DEF AdmitClosed
<1>2. CASE AdmitFirstProbe(c)
  <2>1. Cardinality(probe') = 1
    BY <1>2, ProbeCount DEF AdmitFirstProbe
  <2> QED
    BY <1>2, <2>1 DEF AdmitFirstProbe
<1>3. CASE AdmitProbe(c)
  <2>1. Cardinality(probe') = Cardinality(probe) + 1
    BY <1>3, ProbeCount DEF AdmitProbe
  <2>2. Cardinality(probe) \in Nat
    BY ProbeCount
  <2> QED
    BY <1>3, <2>1, <2>2 DEF AdmitProbe
<1> QED
  BY <1>1, <1>2, <1>3

LEMMA OnSuccessIInv ==
  ASSUME IInv, NEW c \in Call, OnSuccess(c)
  PROVE  IInv'
<1> USE DEF IInv, TypeOK, BelowThresholds, NoLeakedSlots, CountsStreak,
            ProbesHalfOpen, ProbesCounted, OnSuccess, Finish
<1>1. CASE SuccessClosed(c)
  BY <1>1 DEF SuccessClosed
<1>2. CASE SuccessHalfOpen(c)
  <2>1. /\ Cardinality(probe) \in Nat
        /\ Cardinality(probe \ {c}) \in Nat
        /\ Cardinality(probe \ {c}) \in {Cardinality(probe) - 1, Cardinality(probe)}
    BY ProbeCount
  <2> QED
    BY <1>2, <2>1 DEF SuccessHalfOpen
<1>3. CASE SuccessOpen(c)
  BY <1>3 DEF SuccessOpen
<1> QED
  BY <1>1, <1>2, <1>3

LEMMA OnFailureIInv ==
  ASSUME IInv, NEW c \in Call, OnFailure(c)
  PROVE  IInv'
<1> USE DEF IInv, TypeOK, BelowThresholds, NoLeakedSlots, CountsStreak,
            ProbesHalfOpen, ProbesCounted, OnFailure, Finish
<1>1. CASE FailureClosed(c)
  BY <1>1 DEF FailureClosed
<1>2. CASE FailureHalfOpen(c)
  BY <1>2 DEF FailureHalfOpen
<1>3. CASE FailureOpen(c)
  BY <1>3 DEF FailureOpen
<1> QED
  BY <1>1, <1>2, <1>3

LEMMA IInvAlways == Spec => []IInv
<1>1. IInv /\ [Next]_vars => IInv'
  <2> SUFFICES ASSUME IInv, [Next]_vars PROVE IInv'
    OBVIOUS
  <2>1. ASSUME NEW c \in Call, BeforeCall(c) \/ OnSuccess(c) \/ OnFailure(c)
        PROVE  IInv'
    BY <2>1, BeforeCallIInv, OnSuccessIInv, OnFailureIInv
  <2> USE DEF IInv, TypeOK, BelowThresholds, NoLeakedSlots, CountsStreak,
              ProbesHalfOpen, ProbesCounted, counters
  <2>2. CASE Reset
    BY <2>2 DEF Reset
  <2>3. CASE Tick
    BY <2>3 DEF Tick
  <2>4. CASE UNCHANGED vars
    BY <2>4 DEF vars
  <2> QED
    BY <2>1, <2>2, <2>3, <2>4 DEF Next
<1> QED
  BY InitIInv, <1>1, PTL DEF Spec

(* The type invariant.                                                     *)
THEOREM TypeCorrect == Spec => []TypeOK
<1>1. IInv => TypeOK
  BY DEF IInv
<1> QED
  BY <1>1, IInvAlways, PTL

(* The counters never stand at a threshold that should have moved the      *)
(* circuit on.                                                             *)
THEOREM BelowThresholdsCorrect == Spec => []BelowThresholds
<1>1. IInv => BelowThresholds
  BY DEF IInv
<1> QED
  BY <1>1, IInvAlways, PTL

(* No result, however late, makes a half-open circuit lose a probe slot.   *)
THEOREM NoLeakedSlotsCorrect == Spec => []NoLeakedSlots
<1>1. IInv => NoLeakedSlots
  BY DEF IInv
<1> QED
  BY <1>1, IInvAlways, PTL

(* However the results of older calls arrive, a half-open period has fewer *)
(* than SuccessThreshold probes more in flight than it is configured for.  *)
THEOREM OverrunBoundedCorrect == Spec => []OverrunBounded
<1>1. IInv => OverrunBounded
  <2> SUFFICES ASSUME IInv PROVE OverrunBounded
    OBVIOUS
  <2>1. CASE state = "half-open"
    <3>1. Cardinality(probe) \in Nat
      BY FS_Subset, FS_CardinalityType DEF IInv, TypeOK
    <3> QED
      BY <2>1, <3>1 DEF IInv, TypeOK, ProbesCounted, BelowThresholds, OverrunBounded
  <2>2. CASE state # "half-open"
    <3>1. Cardinality(probe) = 0
      BY <2>2, FS_EmptySet DEF IInv, ProbesHalfOpen
    <3> QED
      BY <3>1 DEF OverrunBounded
  <2> QED
    BY <2>1, <2>2
<1> QED
  BY <1>1, IInvAlways, PTL

(* A cooling circuit admits nothing and goes on cooling.                   *)
THEOREM FailsFastCorrect == Spec => FailsFast
<1>1. ASSUME IInv, [Next]_vars, state = "open" /\ cooling > 0
      PROVE  \/ state' = "closed" /\ inFlight' = inFlight
             \/ state' = "open" /\ inFlight' \subseteq inFlight
                                /\ cooling' <= cooling
  <2> USE <1>1 DEF IInv, TypeOK
  <2>1. ASSUME NEW c \in Call, BeforeCall(c) PROVE FALSE
    BY <2>1 DEF BeforeCall, AdmitClosed, AdmitFirstProbe, AdmitProbe
  <2>2. ASSUME NEW c \in Call, OnSuccess(c)
        PROVE  state' = "open" /\ inFlight' \subseteq inFlight
                               /\ cooling' = cooling
    BY <2>2 DEF OnSuccess, SuccessClosed, SuccessHalfOpen, SuccessOpen, Finish
  <2>3. ASSUME NEW c \in Call, OnFailure(c)
        PROVE  state' = "open" /\ inFlight' \subseteq inFlight
                               /\ cooling' = cooling
    BY <2>3 DEF OnFailure, FailureClosed, FailureHalfOpen, FailureOpen, Finish
  <2>4. CASE Reset
    BY <2>4 DEF Reset
  <2>5. CASE Tick
    BY <2>5 DEF Tick
  <2>6. CASE UNCHANGED vars
    BY <2>6 DEF vars
  <2> QED
    BY <2>1, <2>2, <2>3, <2>4, <2>5, <2>6 DEF Next
<1> QED
  BY <1>1, IInvAlways, PTL DEF Spec, FailsFast

(* A closed circuit opens only for FailureThreshold failures in a row.     *)
THEOREM TripsOnStreakCorrect == Spec => TripsOnStreak
<1>1. ASSUME IInv, [Next]_vars, state = "closed" /\ state' = "open"
      PROVE  streak' = FailureThreshold
  <2> USE <1>1 DEF IInv, TypeOK
  <2>1. PICK c \in Call : OnFailure(c) /\ FailureClosed(c)
    BY DEF Next, BeforeCall, AdmitClosed, AdmitFirstProbe, AdmitProbe,
           OnSuccess, SuccessClosed, SuccessHalfOpen, SuccessOpen,
           OnFailure, FailureHalfOpen, FailureOpen, Reset, Tick, vars
  <2>2. failureCount + 1 >= FailureThreshold
    BY <2>1 DEF FailureClosed
  <2> QED
    BY <2>1, <2>2 DEF OnFailure, CountsStreak, BelowThresholds
<1> QED
  BY <1>1, IInvAlways, PTL DEF Spec, TripsOnStreak
==============================================================================
