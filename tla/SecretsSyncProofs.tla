-------------------------- MODULE SecretsSyncProofs --------------------------
(***************************************************************************)
(* Proofs about SecretsSync, for any number of clusters, services, secrets *)
(* and commands and any --concurrency: the variables keep their types, the *)
(* stop flag keeps its promise, the reports of a goroutine that is alone   *)
(* with its cluster are true though all share one environment, and         *)
(* validate --fix repairs what it can read and write.                      *)
(***************************************************************************)
EXTENDS SecretsSync, FiniteSetTheorems, TLAPS

(* The stages of a goroutine: it has not begun; it looks at service at[c]; *)
(* it is past the check of the stop flag; it holds a slot.                 *)
Early == {"idle", "queued", "waiting", "checking"}
Serving == {"reading", "setting", "decrypting", "comparing", "writing", "filling"}
Busy == Serving \cup {"loading", "picking", "failing"}
Past == {c \in Cluster : stage[c] \in Busy}
Holding == {c \in Cluster : stage[c] \in Busy \cup {"checking"}}

(* Where the goroutines work, and those that are alone there.              *)
home == [c \in Cluster |-> Home(c)]
Lonely == {c \in Cluster : Alone(c)}

CommandInv ==
  /\ stopped => cmd.stop
  /\ cmd.stop => cmd.op = "all"
  /\ checking => cmd.op = "validate"
  /\ cmd.op = "validate" => cmd.services = Service
  /\ cmd.fix => cmd.op = "validate"
  /\ cmd.op # "all" => \A c, d \in Cluster :
                         stage[c] # "idle" /\ stage[d] # "idle" => c = d
  /\ ~running => /\ \A c \in Cluster : stage[c] = "idle"
                 /\ \A c \in Cluster, s \in Service : result[c][s] = "none"
                 /\ cmd.op = "all" /\ slots = 0 /\ ~stopped /\ late = 0 /\ ~checking /\ valid

SlotInv ==
  /\ cmd.op = "all" => slots = Cardinality(Holding) /\ slots <= cmd.limit
  /\ cmd.op # "all" => /\ slots = 0
                       /\ \A c \in Cluster : stage[c] \notin {"queued", "waiting", "checking"}

LateInv ==
  /\ ~stopped => late = 0
  /\ stopped => late + Cardinality(Past) < cmd.limit

LocalInv ==
  \A c \in Cluster :
    /\ stage[c] \in Serving => at[c] \in Service \ todo[c]
    /\ stage[c] = "comparing" /\ got[c] # Torn /\ c \in Lonely
         => got[c] = manifest[home[c]][at[c]]
    /\ stage[c] = "filling" /\ c \in Lonely => manifest[home[c]][at[c]] = Empty

(* What a goroutine is done with; what it has reported about it, it has    *)
(* done, and nobody else has undone.                                       *)
Done(c, s) == s \notin todo[c] /\ (stage[c] \in Serving => s # at[c])
ResultInv ==
  \A c \in Cluster, s \in Service :
    /\ stage[c] \in Early \cup {"loading"} \/ checking \/ ~Done(c, s) => result[c][s] = "none"
    /\ result[c][s] \in {"updated", "unchanged"} /\ c \in Lonely
         => manifest[home[c]][s] = loaded[c][s]

(* A validation that has found nothing wrong so far has looked at all the  *)
(* manifests that it is done with and could read; its sync writes what it  *)
(* is done with.                                                           *)
Agrees(c, s) == /\ loaded[c][s] # None /\ manifest[c][s] \in Secret
                /\ Digest(manifest[c][s]) = Digest(loaded[c][s])
CheckInv ==
  \A c \in Cluster, s \in Service :
    /\ checking => stage[c] \notin {"writing", "filling"}
    /\ checking /\ valid /\ s \in seen \ unread /\ Done(c, s)
         /\ stage[c] \in Serving \cup {"picking"} => Agrees(c, s)
    /\ checking /\ cmd.fix /\ c \notin failed /\ stage[c] = "ended"
         /\ loaded[c][s] # None /\ s \notin unread => Agrees(c, s)
FixInv ==
  \A c \in Cluster, s \in Service :
    /\ cmd.op = "validate" /\ ~checking => stage[c] \notin Serving \ {"writing", "filling"}
    /\ cmd.op = "validate" /\ ~checking /\ c \notin failed /\ loaded[c][s] # None
         /\ Done(c, s) /\ stage[c] \in {"picking", "writing", "filling", "ended"}
         => result[c][s] \in {"updated", "error"}
    /\ cmd.op = "validate" /\ c \notin failed /\ stage[c] = "ended" => s \notin todo[c]

IInv == /\ TypeOK /\ CommandInv /\ SlotInv /\ LateInv
        /\ LocalInv /\ ResultInv /\ CheckInv /\ FixInv

(* TypeOK without the range of slots.                                      *)
Typed == /\ config \in [Cluster -> [Service -> Secret \cup {None}]]
         /\ manifest \in [Cluster -> [Service -> Secret \cup {None, Empty, Torn}]]
         /\ named \in [Cluster -> Cluster]
         /\ found \subseteq Cluster
         /\ running \in BOOLEAN
         /\ cmd \in Command
         /\ env \in Cluster \cup {None}
         /\ stopped \in BOOLEAN
         /\ failed \subseteq Cluster
         /\ checking \in BOOLEAN
         /\ valid \in BOOLEAN
         /\ seen \subseteq Service
         /\ unread \subseteq Service
         /\ stage \in [Cluster -> Stage]
         /\ loaded \in [Cluster -> [Service -> Secret \cup {None}]]
         /\ todo \in [Cluster -> SUBSET Service]
         /\ at \in [Cluster -> Service \cup {None}]
         /\ saved \in [Cluster -> Cluster \cup {None}]
         /\ got \in [Cluster -> Secret \cup {Torn}]
         /\ result \in [Cluster -> [Service -> Outcome]]
         /\ runs \in 0..MaxRuns
         /\ edits \in 0..MaxEdits
         /\ faults \in 0..MaxFaults
         /\ late \in Nat
------------------------------------------------------------------------------
(* The steps one by one.                                                   *)

LEMMA Moving ==
  ASSUME stage \in [Cluster -> Stage],
         NEW c \in Cluster, NEW from, NEW to \in Stage, Moves(c, from, to)
  PROVE  /\ stage' \in [Cluster -> Stage]
         /\ stage[c] = from /\ stage'[c] = to
         /\ \A d \in Cluster : d # c => stage'[d] = stage[d]
  BY DEF Moves

LEMMA Manifesting ==
  ASSUME manifest \in [Cluster -> [Service -> Secret \cup {None, Empty, Torn}]],
         NEW c \in Cluster, NEW s \in Service, NEW v \in Secret \cup {None, Empty, Torn},
         manifest' = [manifest EXCEPT ![c][s] = v]
  PROVE  /\ manifest' \in [Cluster -> [Service -> Secret \cup {None, Empty, Torn}]]
         /\ manifest'[c][s] = v
         /\ \A d \in Cluster, t \in Service : d # c \/ t # s => manifest'[d][t] = manifest[d][t]
  <1>1. manifest[c] \in [Service -> Secret \cup {None, Empty, Torn}]
    OBVIOUS
  <1>2. [manifest[c] EXCEPT ![s] = v] \in [Service -> Secret \cup {None, Empty, Torn}]
    BY <1>1
  <1> QED
    BY <1>1, <1>2

LEMMA Reporting ==
  ASSUME result \in [Cluster -> [Service -> Outcome]],
         NEW c \in Cluster, NEW s \in Service, NEW v \in Outcome,
         result' = [result EXCEPT ![c][s] = v]
  PROVE  /\ result' \in [Cluster -> [Service -> Outcome]]
         /\ result'[c][s] = v
         /\ \A d \in Cluster, t \in Service : d # c \/ t # s => result'[d][t] = result[d][t]
  <1>1. result[c] \in [Service -> Outcome]
    OBVIOUS
  <1>2. [result[c] EXCEPT ![s] = v] \in [Service -> Outcome]
    BY <1>1
  <1> QED
    BY <1>1, <1>2

LEMMA Exits ==
  ASSUME Exit
  PROVE  /\ cmd' \in Command /\ cmd'.op = "all" /\ ~cmd'.stop /\ ~cmd'.fix
         /\ cmd'.limit = Concurrency
         /\ stage' = [c \in Cluster |-> "idle"]
         /\ loaded' \in [Cluster -> [Service -> Secret \cup {None}]]
         /\ todo' \in [Cluster -> SUBSET Service]
         /\ at' \in [Cluster -> Service \cup {None}]
         /\ saved' \in [Cluster -> Cluster \cup {None}]
         /\ got' \in [Cluster -> Secret \cup {Torn}]
         /\ result' = [c \in Cluster |-> [s \in Service |-> "none"]]
         /\ running' = FALSE /\ env' = None /\ slots' = 0 /\ stopped' = FALSE
         /\ failed' = {} /\ checking' = FALSE /\ valid' = TRUE /\ late' = 0
         /\ seen' = {} /\ unread' = {}
  BY BoundAssumption DEF Exit, Plain, Blank, Command

LEMMA Homes ==
  ASSUME TypeOK, NEW c \in Cluster
  PROVE  Home(c) \in Cluster
  BY DEF TypeOK, Home

LEMMA Loading ==
  ASSUME TypeOK, NEW c \in Cluster, NEW listing \in SUBSET Service, Loads(c, listing)
  PROVE  /\ loaded' \in [Cluster -> [Service -> Secret \cup {None}]]
         /\ todo' \in [Cluster -> SUBSET Service]
         /\ seen' \subseteq Service
         /\ loaded'[c] = config[Home(c)]
         /\ ~checking => todo'[c] = {s \in cmd.services : config[Home(c)][s] # None}
         /\ checking => todo'[c] = listing /\ seen' = listing
         /\ \A d \in Cluster : d # c => loaded'[d] = loaded[d] /\ todo'[d] = todo[d]
  <1>1. cmd.services \subseteq Service /\ Home(c) \in Cluster
    BY Homes DEF TypeOK, Command
  <1> QED
    BY <1>1 DEF Loads, TypeOK

LEMMA Typing ==
  ASSUME TypeOK, LocalInv, [Next]_vars
  PROVE  Typed'
  <1> USE SetAssumption, BoundAssumption
      DEF TypeOK, Typed, Stage, Outcome, files, shared, check, local, counts, vars
  <1>1. ASSUME NEW c \in Cluster, NEW s \in Service, NEW v \in Secret \cup {None},
           Edit(c, s, v)
       PROVE  Typed'
    BY <1>1 DEF Edit
  <1>2. ASSUME NEW k \in Command, NEW targets \in SUBSET Cluster, Start(k, targets)
       PROVE  Typed'
    BY <1>2 DEF Start, Command
  <1>3. ASSUME NEW c \in Cluster, Spawn(c)
       PROVE  Typed'
    BY <1>3 DEF Spawn, Moves
  <1>4. ASSUME Break
       PROVE  Typed'
    BY <1>4 DEF Break
  <1>5. ASSUME NEW c \in Cluster, Acquire(c)
       PROVE  Typed'
    BY <1>5 DEF Acquire, Moves
  <1>6. ASSUME NEW c \in Cluster, Check(c)
       PROVE  Typed'
    BY <1>6 DEF Check, Proceed, Release, Moves
  <1>7. ASSUME NEW c \in Cluster, Load(c)
       PROVE  Typed'
    <2>1. stage' \in [Cluster -> Stage]
      BY <1>7 DEF Load, Loads, Moves
    <2>2. Loads(c, Listed(c)) /\ UNCHANGED faults /\ Listed(c) \subseteq Service
      BY <1>7 DEF Load, Listed
    <2> QED
      BY ONLY <2>1, <2>2, Loading, TypeOK, c \in Cluster DEF Typed, TypeOK, Loads, files, shared
  <1>8. ASSUME NEW c \in Cluster, NEW s \in Service, Pick(c, s)
       PROVE  Typed'
    <2>1. stage' \in [Cluster -> Stage]
      <3>1. \E to \in Stage : Moves(c, "picking", to)
        BY ONLY <1>8 DEF Pick, Inspects, Updates, Takes, Stage
      <3> QED
        BY <3>1, Moving
    <2>2. todo' \in [Cluster -> SUBSET Service]
      BY <1>8 DEF Pick, Inspects, Updates, Takes
    <2>3. at' \in [Cluster -> Service \cup {None}]
      BY <1>8 DEF Pick, Inspects, Updates, Takes
    <2>4. result' \in [Cluster -> [Service -> Outcome]]
      <3>1. UNCHANGED result \/ result' = [result EXCEPT ![c][s] = "skipped"]
        BY ONLY <1>8 DEF Pick, Inspects, Updates, Takes
      <3> QED
        BY <3>1, Reporting
    <2>5. valid' \in BOOLEAN
      BY <1>8 DEF Pick, Inspects, Updates, Takes
    <2> QED
      BY <1>8, <2>1, <2>2, <2>3, <2>4, <2>5 DEF Pick, Inspects, Updates, Takes
  <1>9. ASSUME NEW c \in Cluster, GetEnv(c)
       PROVE  Typed'
    BY <1>9 DEF GetEnv, Moves
  <1>10. ASSUME NEW c \in Cluster, SetEnv(c)
       PROVE  Typed'
    BY <1>10, Homes DEF SetEnv, Moves
  <1>11. ASSUME NEW c \in Cluster, Decrypt(c)
       PROVE  Typed'
    BY <1>11 DEF LocalInv, Serving, Decrypt, Moves
  <1>12. ASSUME NEW c \in Cluster, Compare(c)
       PROVE  Typed'
    <2>1. stage' \in [Cluster -> Stage]
      <3>1. \E to \in Stage : Moves(c, "comparing", to)
        BY ONLY <1>12 DEF Compare, Stage
      <3> QED
        BY <3>1, Moving
    <2>2. result' \in [Cluster -> [Service -> Outcome]]
      <3>1. /\ UNCHANGED result \/ result' = [result EXCEPT ![c][at[c]] = "unchanged"]
            /\ stage[c] = "comparing"
        BY ONLY <1>12 DEF Compare, Moves
      <3>2. at[c] \in Service
        BY <3>1 DEF LocalInv, Serving
      <3> QED
        BY <3>1, <3>2, Reporting
    <2>3. valid' \in BOOLEAN
      BY <1>12 DEF Compare
    <2>4. env' \in Cluster \cup {None} /\ saved' \in [Cluster -> Cluster \cup {None}]
      BY <1>12 DEF Compare
    <2>5. got' \in [Cluster -> Secret \cup {Torn}]
      BY <1>12 DEF Compare
    <2> QED
      BY <1>12, <2>1, <2>2, <2>3, <2>4, <2>5 DEF Compare
  <1>13. ASSUME NEW c \in Cluster, Truncate(c)
       PROVE  Typed'
    <2>1. stage[c] = "writing" /\ stage' \in [Cluster -> Stage]
      BY <1>13 DEF Truncate, Moves
    <2>2. manifest' \in [Cluster -> [Service -> Secret \cup {None, Empty, Torn}]]
      BY <1>13, <2>1, Manifesting, Homes DEF Truncate, LocalInv, Serving
    <2> QED
      BY <1>13, <2>1, <2>2 DEF Truncate
  <1>14. ASSUME NEW c \in Cluster, Fill(c)
       PROVE  Typed'
    <2>1. stage[c] = "filling" /\ stage' \in [Cluster -> Stage] /\ at[c] \in Service
      BY <1>14 DEF Fill, Moves, LocalInv, Serving
    <2>2. loaded[c][at[c]] \in Secret \cup {None, Empty, Torn}
      BY <2>1
    <2>3. manifest' \in [Cluster -> [Service -> Secret \cup {None, Empty, Torn}]]
      BY <1>14, <2>1, <2>2, Manifesting, Homes DEF Fill
    <2>4. result' \in [Cluster -> [Service -> Outcome]]
      BY <1>14, <2>1, Reporting DEF Fill
    <2> QED
      BY <1>14, <2>1, <2>3, <2>4 DEF Fill
  <1>15. ASSUME NEW c \in Cluster, Finish(c)
       PROVE  Typed'
    <2>1. stage' \in [Cluster -> Stage]
      BY <1>15 DEF Finish, Returns, Moves
    <2>2. valid' \in BOOLEAN /\ checking' \in BOOLEAN
      BY <1>15 DEF Finish
    <2>3. late' \in Nat
      BY <1>15 DEF Finish, Returns
    <2> QED
      BY <1>15, <2>1, <2>2, <2>3 DEF Finish
  <1>16. ASSUME NEW c \in Cluster, Fail(c)
       PROVE  Typed'
    BY <1>16 DEF Fail, Moves, Returns, Release
  <1>17. ASSUME End
       PROVE  Typed'
    <2>1. Exit /\ UNCHANGED <<files, counts>>
      BY <1>17 DEF End
    <2> QED
      BY <1>17, <2>1, Exits
  <1>18. ASSUME NEW c \in Cluster, Fault(c)
       PROVE  Typed'
    <2> USE <1>18
    <2>1. faults' \in 0..MaxFaults
      BY DEF Fault
    <2>2. CASE FailsToLoad(c)
      <3>1. CASE UNCHANGED <<loaded, todo, seen>>
        <4>1. stage' \in [Cluster -> Stage]
          BY ONLY <2>2, stage \in [Cluster -> Stage] DEF FailsToLoad, Loads, Moves, Stage
        <4>2. UNCHANGED <<files, running, cmd, shared, check, at, saved, got,
                          result, runs, edits, late>>
          BY ONLY <2>2, <3>1 DEF FailsToLoad, Loads, check, local
        <4> QED
          BY <2>1, <3>1, <4>1, <4>2
      <3>2. ASSUME NEW L \in SUBSET Listed(c), Loads(c, L)
            PROVE  Typed'
        <4>1. L \subseteq Service
          BY DEF Listed
        <4>2. stage' \in [Cluster -> Stage]
          BY <3>2 DEF Loads, Moves
        <4> QED
          BY ONLY <2>1, <3>2, <4>1, <4>2, Loading, TypeOK, c \in Cluster
          DEF Typed, TypeOK, Loads, files, shared
      <3> QED
        BY <2>2, <3>1, <3>2 DEF FailsToLoad
    <2>3. ASSUME NEW s \in Service, FailsToPick(c, s)
          PROVE  Typed'
      <3>1. stage' \in [Cluster -> Stage]
        <4>1. \E to \in Stage : Moves(c, "picking", to)
          BY ONLY <2>3 DEF FailsToPick, Stage
        <4> QED
          BY <4>1, Moving
      <3>2. result' \in [Cluster -> [Service -> Outcome]]
        <4>1. UNCHANGED result \/ result' = [result EXCEPT ![c][s] = "skipped"]
          BY ONLY <2>3 DEF FailsToPick
        <4> QED
          BY <4>1, Reporting
      <3>3. unread' \subseteq Service
        BY <2>3 DEF FailsToPick
      <3>4. valid' = valid /\ Takes(c, s)
        BY ONLY <2>3 DEF FailsToPick
      <3> QED
        BY <2>1, <3>1, <3>2, <3>3, <3>4 DEF Takes
    <2>4. CASE FailsToDecrypt(c)
      BY <2>1, <2>4 DEF FailsToDecrypt, Moves
    <2>5. CASE FailsToWrite(c)
      <3>1. stage[c] \in {"writing", "filling"} /\ stage' \in [Cluster -> Stage]
        BY <2>5 DEF FailsToWrite, Moves
      <3>2. at[c] \in Service
        BY <3>1 DEF LocalInv, Serving
      <3>3. result' \in [Cluster -> [Service -> Outcome]]
        BY <2>5, <3>2, Reporting DEF FailsToWrite
      <3>4. manifest' \in [Cluster -> [Service -> Secret \cup {None, Empty, Torn}]]
        <4>1. \/ UNCHANGED manifest
              \/ manifest' = [manifest EXCEPT ![Home(c)][at[c]] = Torn]
          BY ONLY <2>5 DEF FailsToWrite
        <4> QED
          BY <3>2, <4>1, Manifesting, Homes
      <3> QED
        BY <2>1, <2>5, <3>1, <3>3, <3>4 DEF FailsToWrite
    <2> QED
      BY <2>2, <2>3, <2>4, <2>5 DEF Fault
  <1>19. ASSUME Die
       PROVE  Typed'
    <2>1. Exit
      BY <1>19 DEF Die
    <2>2. manifest' \in [Cluster -> [Service -> Secret \cup {None, Empty, Torn}]]
      BY <1>19 DEF Die
    <2>3. faults' \in 0..MaxFaults
      BY <1>19 DEF Die
    <2>4. UNCHANGED <<config, named, found, runs, edits>>
      BY <1>19 DEF Die
    <2> QED
      BY <1>19, <2>1, <2>2, <2>3, <2>4, Exits
  <1>20. ASSUME NEW c \in Cluster, NEW S \in SUBSET Service, Render(c, S)
       PROVE  Typed'
    BY <1>20 DEF Render
  <1>21. CASE UNCHANGED vars
    BY <1>21
  <1> QED
    BY <1>1, <1>2, <1>3, <1>4, <1>5, <1>6, <1>7, <1>8, <1>9, <1>10,
       <1>11, <1>12, <1>13, <1>14, <1>15, <1>16, <1>17, <1>18, <1>19, <1>20, <1>21
       DEF Next, Progress, Step

LEMMA Frame ==
  ASSUME TypeOK, NEW c \in Cluster, Step(c) \/ Fault(c)
  PROVE  /\ stage' \in [Cluster -> Stage]
         /\ \A d \in Cluster : d # c => stage'[d] = stage[d]
         /\ stage'[c] \in Early => stage[c] \in Early
         /\ UNCHANGED <<config, named, found, running, cmd>>
  <1>1. ASSUME Spawn(c)
       PROVE  /\ \E from, to \in Stage : Moves(c, from, to) /\ (to \in Early => from \in Early)
              /\ UNCHANGED <<config, named, found, running, cmd>>
    BY ONLY <1>1 DEF Spawn, Stage, Early, files, shared, check, local, counts
  <1>2. ASSUME Acquire(c)
       PROVE  /\ \E from, to \in Stage : Moves(c, from, to) /\ (to \in Early => from \in Early)
              /\ UNCHANGED <<config, named, found, running, cmd>>
    BY ONLY <1>2 DEF Acquire, Stage, Early, files, shared, check, local, counts
  <1>3. ASSUME Check(c)
       PROVE  /\ \E from, to \in Stage : Moves(c, from, to) /\ (to \in Early => from \in Early)
              /\ UNCHANGED <<config, named, found, running, cmd>>
    BY ONLY <1>3 DEF Check, Proceed, Stage, Early, files, shared, check, local, counts
  <1>4. ASSUME Load(c)
       PROVE  /\ \E from, to \in Stage : Moves(c, from, to) /\ (to \in Early => from \in Early)
              /\ UNCHANGED <<config, named, found, running, cmd>>
    BY ONLY <1>4 DEF Load, Loads, Stage, Early, files, shared, check, local, counts
  <1>5. ASSUME NEW s \in Service, Pick(c, s)
       PROVE  /\ \E from, to \in Stage : Moves(c, from, to) /\ (to \in Early => from \in Early)
              /\ UNCHANGED <<config, named, found, running, cmd>>
    BY ONLY <1>5
    DEF Pick, Inspects, Updates, Takes, Stage, Early, files, shared, check, local, counts
  <1>6. ASSUME GetEnv(c)
       PROVE  /\ \E from, to \in Stage : Moves(c, from, to) /\ (to \in Early => from \in Early)
              /\ UNCHANGED <<config, named, found, running, cmd>>
    BY ONLY <1>6 DEF GetEnv, Stage, Early, files, shared, check, local, counts
  <1>7. ASSUME SetEnv(c)
       PROVE  /\ \E from, to \in Stage : Moves(c, from, to) /\ (to \in Early => from \in Early)
              /\ UNCHANGED <<config, named, found, running, cmd>>
    BY ONLY <1>7 DEF SetEnv, Stage, Early, files, shared, check, local, counts
  <1>8. ASSUME Decrypt(c)
       PROVE  /\ \E from, to \in Stage : Moves(c, from, to) /\ (to \in Early => from \in Early)
              /\ UNCHANGED <<config, named, found, running, cmd>>
    BY ONLY <1>8 DEF Decrypt, Stage, Early, files, shared, check, local, counts
  <1>9. ASSUME Compare(c)
       PROVE  /\ \E from, to \in Stage : Moves(c, from, to) /\ (to \in Early => from \in Early)
              /\ UNCHANGED <<config, named, found, running, cmd>>
    BY ONLY <1>9 DEF Compare, Stage, Early, files, shared, check, local, counts
  <1>10. ASSUME Truncate(c)
       PROVE  /\ \E from, to \in Stage : Moves(c, from, to) /\ (to \in Early => from \in Early)
              /\ UNCHANGED <<config, named, found, running, cmd>>
    BY ONLY <1>10 DEF Truncate, Stage, Early, files, shared, check, local, counts
  <1>11. ASSUME Fill(c)
       PROVE  /\ \E from, to \in Stage : Moves(c, from, to) /\ (to \in Early => from \in Early)
              /\ UNCHANGED <<config, named, found, running, cmd>>
    BY ONLY <1>11 DEF Fill, Stage, Early, files, shared, check, local, counts
  <1>12. ASSUME Finish(c)
       PROVE  /\ \E from, to \in Stage : Moves(c, from, to) /\ (to \in Early => from \in Early)
              /\ UNCHANGED <<config, named, found, running, cmd>>
    BY ONLY <1>12 DEF Finish, Returns, Stage, Early, files, shared, check, local, counts
  <1>13. ASSUME Fail(c)
       PROVE  /\ \E from, to \in Stage : Moves(c, from, to) /\ (to \in Early => from \in Early)
              /\ UNCHANGED <<config, named, found, running, cmd>>
    BY ONLY <1>13 DEF Fail, Returns, Stage, Early, files, shared, check, local, counts
  <1>14. ASSUME Fault(c)
       PROVE  /\ \E from, to \in Stage : Moves(c, from, to) /\ (to \in Early => from \in Early)
              /\ UNCHANGED <<config, named, found, running, cmd>>
    BY ONLY <1>14 DEF Fault, FailsToLoad, FailsToPick, FailsToDecrypt,
                    FailsToWrite, Loads, Takes, Stage, Early, files, shared, check, local, counts
  <1>15. /\ \E from, to \in Stage : Moves(c, from, to) /\ (to \in Early => from \in Early)
         /\ UNCHANGED <<config, named, found, running, cmd>>
    BY <1>1, <1>2, <1>3, <1>4, <1>5, <1>6, <1>7, <1>8, <1>9, <1>10, <1>11, <1>12, <1>13,
       <1>14 DEF Step
  <1> QED
    BY <1>15, Moving DEF TypeOK

(* A goroutine that is alone with its cluster has been so since it began:  *)
(* those that have begun elsewhere do not touch its manifests.             *)
LEMMA Lone ==
  ASSUME TypeOK, NEW c \in Cluster, Step(c) \/ Fault(c)
  PROVE  /\ home \in [Cluster -> Cluster] /\ home' = home
         /\ home[c] = Home(c)
         /\ Lonely' \subseteq Lonely
         /\ stage[c] \notin Early => \A d \in Lonely : d # c => home[d] # home[c]
  <1>1. /\ \A d \in Cluster : d # c => stage'[d] = stage[d]
        /\ stage'[c] \in Early => stage[c] \in Early
        /\ named' = named /\ cmd' = cmd
    BY Frame
  <1>2. \A d \in Cluster : Home(d) \in Cluster /\ Home(d)' = Home(d)
    BY <1>1 DEF Home, TypeOK
  <1>3. home \in [Cluster -> Cluster] /\ home' = home /\ home[c] = Home(c)
    BY <1>2 DEF home
  <1>4. ASSUME NEW d \in Cluster, Alone(d)'
        PROVE  Alone(d)
    BY <1>1, <1>2, <1>4 DEF Alone, Early
  <1>5. ASSUME stage[c] \notin Early, NEW d \in Lonely, d # c
        PROVE  home[d] # home[c]
    BY <1>5 DEF Lonely, Alone, home, Early
  <1> QED
    BY <1>3, <1>4, <1>5 DEF Lonely

(* A write of c is to its own manifest only, whoever else is alone.        *)
Spares(c) ==
  /\ \A s \in Service : s # at[c] => manifest'[home[c]][s] = manifest[home[c]][s]
  /\ \A d \in Cluster, s \in Service :
       d \in Lonely /\ d # c => manifest'[home[d]][s] = manifest[home[d]][s]

LEMMA Elsewhere ==
  ASSUME TypeOK, LocalInv, NEW c \in Cluster, Step(c) \/ Fault(c),
         stage[c] \in {"writing", "filling"}, NEW v \in Secret \cup {None, Empty, Torn},
         manifest' = [manifest EXCEPT ![Home(c)][at[c]] = v]
  PROVE  at[c] \in Service /\ manifest'[home[c]][at[c]] = v /\ Spares(c)
  <1>1. at[c] \in Service /\ stage[c] \notin Early /\ Lonely \subseteq Cluster
    BY DEF LocalInv, Serving, Early, Lonely
  <1>2. /\ manifest'[Home(c)][at[c]] = v
        /\ \A h \in Cluster, s \in Service :
             h # Home(c) \/ s # at[c] => manifest'[h][s] = manifest[h][s]
    BY ONLY <1>1, Homes, Manifesting, TypeOK, c \in Cluster, v \in Secret \cup {None,
       Empty, Torn},
       manifest' = [manifest EXCEPT ![Home(c)][at[c]] = v] DEF TypeOK
  <1> QED
    BY <1>1, <1>2, Lone DEF Spares

(* A command for one cluster works on that one, and alone.                 *)
LEMMA Sole ==
  ASSUME CommandInv, cmd.op # "all", NEW c \in Cluster, stage[c] # "idle"
  PROVE  /\ c \in Lonely /\ home[c] = c /\ Home(c) = c
         /\ \A d \in Cluster : d # c => stage[d] = "idle"
  BY DEF CommandInv, Lonely, Alone, home, Home

LEMMA Commands ==
  ASSUME TypeOK, CommandInv, LocalInv, [Next]_vars
  PROVE  CommandInv'
  <1> USE DEF TypeOK, CommandInv, Stage, files, shared, check, local, counts, vars
  <1>1. ASSUME NEW c \in Cluster, NEW s \in Service, NEW v \in Secret \cup {None},
           Edit(c, s, v)
       PROVE  CommandInv'
    BY <1>1 DEF Edit
  <1>2. ASSUME NEW k \in Command, NEW targets \in SUBSET Cluster, Start(k, targets)
       PROVE  CommandInv'
    <2>1. cmd' = k /\ running' /\ ~stopped' /\ k.stop \in BOOLEAN
      BY <1>2 DEF Start, Command
    <2>2. k.op # "all" => \A d, e \in Cluster :
                            stage'[d] # "idle" /\ stage'[e] # "idle" => d = e
      <3>1. ASSUME k.op # "all"
            PROVE  \E t : targets = {t}
        <4>1. IsFiniteSet(targets)
          BY FS_Subset, SetAssumption
        <4> QED
          BY <1>2, <3>1, <4>1, FS_Singleton DEF Start
      <3>2. \A d \in Cluster : d \notin targets => stage'[d] = "idle"
        BY <1>2 DEF Start
      <3> QED
        BY <3>1, <3>2
    <2>3. k.stop => k.op = "all"
      BY <1>2 DEF Start
    <2>4. /\ checking' => k.op = "validate"
          /\ k.op = "validate" => k.services = Service
          /\ k.fix => k.op = "validate"
      BY <1>2 DEF Start
    <2> QED
      BY <2>1, <2>2, <2>3, <2>4
  <1>3. ASSUME NEW c \in Cluster, Spawn(c)
       PROVE  CommandInv'
    BY <1>3 DEF Spawn, Moves
  <1>4. ASSUME Break
       PROVE  CommandInv'
    BY <1>4 DEF Break
  <1>5. ASSUME NEW c \in Cluster, Acquire(c)
       PROVE  CommandInv'
    BY <1>5 DEF Acquire, Moves
  <1>6. ASSUME NEW c \in Cluster, Check(c)
       PROVE  CommandInv'
    BY <1>6 DEF Check, Proceed, Release, Moves
  <1>7. ASSUME NEW c \in Cluster, Load(c)
       PROVE  CommandInv'
    BY <1>7 DEF Load, Loads, Moves
  <1>8. ASSUME NEW c \in Cluster, NEW s \in Service, Pick(c, s)
       PROVE  CommandInv'
    <2>1. /\ stage[c] # "idle" /\ UNCHANGED <<cmd, running, stopped>>
          /\ \A d \in Cluster : d # c => stage'[d] = stage[d]
          /\ checking' = checking
      BY ONLY <1>8, stage \in [Cluster -> Stage] DEF Pick, Inspects, Updates, Takes, Moves
    <2>2. running
      BY <2>1
    <2> QED
      BY <2>1, <2>2
  <1>9. ASSUME NEW c \in Cluster, GetEnv(c)
       PROVE  CommandInv'
    BY <1>9 DEF GetEnv, Moves
  <1>10. ASSUME NEW c \in Cluster, SetEnv(c)
       PROVE  CommandInv'
    BY <1>10 DEF SetEnv, Moves
  <1>11. ASSUME NEW c \in Cluster, Decrypt(c)
       PROVE  CommandInv'
    BY <1>11 DEF Decrypt, Moves
  <1>12. ASSUME NEW c \in Cluster, Compare(c)
       PROVE  CommandInv'
    <2>1. /\ stage[c] # "idle" /\ UNCHANGED <<cmd, running, stopped>>
          /\ \A d \in Cluster : d # c => stage'[d] = stage[d]
          /\ checking' = checking
      BY ONLY <1>12, stage \in [Cluster -> Stage] DEF Compare, Moves
    <2>2. running
      BY <2>1
    <2> QED
      BY <2>1, <2>2
  <1>13. ASSUME NEW c \in Cluster, Truncate(c)
       PROVE  CommandInv'
    BY <1>13 DEF Truncate, Moves
  <1>14. ASSUME NEW c \in Cluster, Fill(c)
       PROVE  CommandInv'
    BY <1>14 DEF Fill, Moves
  <1>15. ASSUME NEW c \in Cluster, Finish(c)
       PROVE  CommandInv'
    <2>1. /\ stage[c] = "picking" /\ stage' \in [Cluster -> Stage]
          /\ \A d \in Cluster : d # c => stage'[d] = stage[d]
      BY ONLY <1>15, stage \in [Cluster -> Stage], c \in Cluster
      DEF Finish, Moves, Returns, Stage
    <2>2. UNCHANGED <<running, cmd, stopped>> /\ (checking' => checking)
      BY <1>15 DEF Finish
    <2>3. running
      BY <2>1
    <2> QED
      BY <2>1, <2>2, <2>3
  <1>16. ASSUME NEW c \in Cluster, Fail(c)
       PROVE  CommandInv'
    BY <1>16 DEF Fail, Moves, Returns, Release
  <1>17. ASSUME End
       PROVE  CommandInv'
    BY <1>17, Exits DEF End
  <1>18. ASSUME NEW c \in Cluster, Fault(c)
       PROVE  CommandInv'
    <2>1. stage[c] # "idle" /\ UNCHANGED <<stopped, checking, late, slots, valid>>
      BY ONLY <1>18
      DEF Fault, FailsToLoad, FailsToPick, FailsToDecrypt, FailsToWrite, Loads, Takes,
         Moves, shared
    <2>2. /\ UNCHANGED <<cmd, running>> /\ running
          /\ \A d \in Cluster : d # c => stage'[d] = stage[d]
      BY <1>18, <2>1, Frame
    <2> QED
      BY <2>1, <2>2
  <1>19. ASSUME Die
       PROVE  CommandInv'
    BY <1>19, Exits DEF Die
  <1>20. ASSUME NEW c \in Cluster, NEW S \in SUBSET Service, Render(c, S)
       PROVE  CommandInv'
    BY <1>20 DEF Render
  <1>21. CASE UNCHANGED vars
    BY <1>21
  <1> QED
    BY <1>1, <1>2, <1>3, <1>4, <1>5, <1>6, <1>7, <1>8, <1>9, <1>10,
       <1>11, <1>12, <1>13, <1>14, <1>15, <1>16, <1>17, <1>18, <1>19, <1>20, <1>21
       DEF Next, Progress, Step

LEMMA Steady ==
  ASSUME TypeOK, LocalInv, NEW c \in Cluster, Step(c) \/ Fault(c),
         UNCHANGED <<manifest, at, got>>,
         \A d \in Cluster : d # c => todo'[d] = todo[d],
         stage'[c] \in Serving => stage[c] \in Serving /\ todo'[c] = todo[c],
         stage'[c] \notin {"comparing", "filling"}
  PROVE  LocalInv'
  <1>1. \A d \in Cluster : d # c => stage'[d] = stage[d]
    BY Frame
  <1>2. home' = home /\ Lonely' \subseteq Lonely
    BY Lone
  <1> QED
    BY ONLY <1>1, <1>2, UNCHANGED <<manifest, at, got>>, c \in Cluster, LocalInv,
       \A d \in Cluster : d # c => todo'[d] = todo[d],
       stage'[c] \in Serving => stage[c] \in Serving /\ todo'[c] = todo[c],
       stage'[c] \notin {"comparing", "filling"}
    DEF LocalInv

LEMMA Taking ==
  ASSUME TypeOK, LocalInv, NEW c \in Cluster, NEW s \in Service, Step(c) \/ Fault(c),
         Takes(c, s), stage'[c] \in {"reading", "writing", "picking"}
  PROVE  LocalInv'
  <1>1. \A d \in Cluster : d # c => stage'[d] = stage[d]
    BY Frame
  <1>2. home' = home /\ Lonely' \subseteq Lonely
    BY Lone
  <1>3. /\ at'[c] = s /\ todo'[c] = todo[c] \ {s} /\ UNCHANGED <<manifest, got>>
        /\ \A d \in Cluster : d # c => todo'[d] = todo[d] /\ at'[d] = at[d]
    BY DEF Takes, TypeOK, files
  <1> QED
    BY ONLY <1>1, <1>2, <1>3, c \in Cluster, s \in Service, LocalInv,
       stage'[c] \in {"reading", "writing", "picking"}
    DEF LocalInv

(* After a write to the cluster of c, those that are alone elsewhere stand. *)
LEMMA Apart ==
  ASSUME TypeOK, LocalInv, NEW c \in Cluster, Step(c) \/ Fault(c), UNCHANGED <<at, todo, got>>,
         stage[c] \in Serving, stage'[c] \notin {"comparing", "filling"},
         Spares(c)
  PROVE  LocalInv'
  <1>1. \A d \in Cluster : d # c => stage'[d] = stage[d]
    BY Frame
  <1>2. home' = home /\ Lonely' \subseteq Lonely
    BY Lone
  <1>3. at[c] \in Service \ todo[c]
    BY DEF LocalInv
  <1>4. ASSUME NEW d \in Cluster, d # c
        PROVE  /\ stage'[d] \in Serving => at[d] \in Service \ todo[d]
               /\ stage'[d] = "comparing" /\ got[d] # Torn /\ d \in Lonely'
                    => got[d] = manifest'[home[d]][at[d]]
               /\ stage'[d] = "filling" /\ d \in Lonely' => manifest'[home[d]][at[d]] = Empty
    BY <1>1, <1>2, <1>4 DEF LocalInv, Serving, Spares
  <1> QED
    BY ONLY <1>2, <1>3, <1>4, UNCHANGED <<at, todo, got>>, c \in Cluster,
       stage'[c] \notin {"comparing", "filling"}
    DEF LocalInv

LEMMA Locals ==
  ASSUME TypeOK, CommandInv, LocalInv, [Next]_vars
  PROVE  LocalInv'
  <1> USE DEF TypeOK, LocalInv, Stage, Serving, files, shared, check, local, counts, vars
  <1>1. ASSUME NEW c \in Cluster, NEW s \in Service, NEW v \in Secret \cup {None},
           Edit(c, s, v)
       PROVE  LocalInv'
    <2>1. UNCHANGED <<manifest, named, cmd, stage, at, todo, got>>
      BY <1>1 DEF Edit
    <2> QED
      BY ONLY <2>1, LocalInv DEF LocalInv, Lonely, Alone, home, Home
  <1>2. ASSUME NEW k \in Command, NEW targets \in SUBSET Cluster, Start(k, targets)
       PROVE  LocalInv'
    BY <1>2 DEF Start
  <1>3. ASSUME NEW c \in Cluster, Spawn(c)
       PROVE  LocalInv'
    <2>1. /\ Step(c) /\ UNCHANGED <<manifest, at, todo, got>>
          /\ stage'[c] \in Serving => stage[c] \in Serving
          /\ stage'[c] \notin {"comparing", "filling"}
      BY ONLY <1>3, stage \in [Cluster -> Stage], c \in Cluster
      DEF Spawn, Moves, Step, Serving, files
    <2> QED
      BY ONLY <2>1, Steady, TypeOK, LocalInv, c \in Cluster
  <1>4. ASSUME Break
       PROVE  LocalInv'
    <2>1. /\ UNCHANGED <<manifest, named, cmd, at, todo, got>>
          /\ \A d \in Cluster : \/ stage'[d] = stage[d]
                                \/ stage[d] = "queued" /\ stage'[d] = "idle"
      BY <1>4 DEF Break
    <2>2. home' = home /\ Lonely' \subseteq Lonely
      BY ONLY <2>1 DEF Lonely, Alone, home, Home
    <2> QED
      BY ONLY <2>1, <2>2, LocalInv DEF LocalInv, Serving
  <1>5. ASSUME NEW c \in Cluster, Acquire(c)
       PROVE  LocalInv'
    <2>1. /\ Step(c) /\ UNCHANGED <<manifest, at, todo, got>>
          /\ stage'[c] \in Serving => stage[c] \in Serving
          /\ stage'[c] \notin {"comparing", "filling"}
      BY ONLY <1>5, stage \in [Cluster -> Stage], c \in Cluster
      DEF Acquire, Moves, Step, Serving, files
    <2> QED
      BY ONLY <2>1, Steady, TypeOK, LocalInv, c \in Cluster
  <1>6. ASSUME NEW c \in Cluster, Check(c)
       PROVE  LocalInv'
    <2>1. /\ Step(c) /\ UNCHANGED <<manifest, at, todo, got>>
          /\ stage'[c] \in Serving => stage[c] \in Serving
          /\ stage'[c] \notin {"comparing", "filling"}
      BY ONLY <1>6, stage \in [Cluster -> Stage], c \in Cluster
      DEF Check, Proceed, Moves, Step, Serving, files
    <2> QED
      BY ONLY <2>1, Steady, TypeOK, LocalInv, c \in Cluster
  <1>7. ASSUME NEW c \in Cluster, Load(c)
       PROVE  LocalInv'
    <2>1. /\ Step(c) /\ UNCHANGED <<manifest, at, got>> /\ stage'[c] = "picking"
          /\ Loads(c, Listed(c)) /\ Listed(c) \subseteq Service
      BY ONLY <1>7, stage \in [Cluster -> Stage], c \in Cluster
      DEF Load, Loads, Listed, Moves, Step, files
    <2>2. \A d \in Cluster : d # c => todo'[d] = todo[d]
      BY ONLY <2>1, Loading, TypeOK, c \in Cluster
    <2> QED
      BY ONLY <2>1, <2>2, Steady, TypeOK, LocalInv, c \in Cluster DEF Serving
  <1>8. ASSUME NEW c \in Cluster, NEW s \in Service, Pick(c, s)
       PROVE  LocalInv'
    <2>1. /\ Takes(c, s) /\ Step(c) /\ UNCHANGED <<manifest, got>>
          /\ stage'[c] \in {"reading", "writing", "picking"}
      BY ONLY <1>8, stage \in [Cluster -> Stage], c \in Cluster
      DEF Pick, Inspects, Updates, Takes, Moves, Step, files
    <2> QED
      BY ONLY <2>1, Taking, TypeOK, LocalInv, c \in Cluster, s \in Service
  <1>9. ASSUME NEW c \in Cluster, GetEnv(c)
       PROVE  LocalInv'
    <2>1. /\ Step(c) /\ UNCHANGED <<manifest, at, todo, got>>
          /\ stage'[c] \in Serving => stage[c] \in Serving
          /\ stage'[c] \notin {"comparing", "filling"}
      BY ONLY <1>9, stage \in [Cluster -> Stage], c \in Cluster
      DEF GetEnv, Moves, Step, Serving, files
    <2> QED
      BY ONLY <2>1, Steady, TypeOK, LocalInv, c \in Cluster
  <1>10. ASSUME NEW c \in Cluster, SetEnv(c)
       PROVE  LocalInv'
    <2>1. /\ Step(c) /\ UNCHANGED <<manifest, at, todo, got>>
          /\ stage'[c] \in Serving => stage[c] \in Serving
          /\ stage'[c] \notin {"comparing", "filling"}
      BY ONLY <1>10, stage \in [Cluster -> Stage], c \in Cluster
      DEF SetEnv, Moves, Step, Serving, files
    <2> QED
      BY ONLY <2>1, Steady, TypeOK, LocalInv, c \in Cluster
  <1>11. ASSUME NEW c \in Cluster, Decrypt(c)
       PROVE  LocalInv'
    <2>1. /\ stage[c] = "decrypting" /\ stage'[c] = "comparing" /\ Step(c)
          /\ got' = [got EXCEPT ![c] = IF env = Home(c) /\ manifest[Home(c)][at[c]] \in Secret
                                       THEN manifest[Home(c)][at[c]] ELSE Torn]
          /\ UNCHANGED <<manifest, at, todo>>
      BY ONLY <1>11, stage \in [Cluster -> Stage], c \in Cluster
      DEF Decrypt, Moves, Step, files
    <2>2. /\ got'[c] \in {manifest[Home(c)][at[c]], Torn}
          /\ \A d \in Cluster : d # c => got'[d] = got[d] /\ stage'[d] = stage[d]
          /\ home' = home /\ home[c] = Home(c) /\ Lonely' \subseteq Lonely
      BY <2>1, Lone, Frame
    <2> QED
      BY ONLY <2>1, <2>2, LocalInv, c \in Cluster DEF LocalInv, Serving
  <1>12. ASSUME NEW c \in Cluster, Compare(c)
       PROVE  LocalInv'
    <2>1. /\ stage[c] = "comparing" /\ stage'[c] \in {"failing", "picking", "writing"}
          /\ Step(c) /\ got' = [got EXCEPT ![c] = Torn] /\ UNCHANGED <<manifest, at, todo>>
      BY ONLY <1>12, stage \in [Cluster -> Stage], c \in Cluster
      DEF Compare, Moves, Step, files
    <2>2. /\ \A d \in Cluster : d # c => got'[d] = got[d] /\ stage'[d] = stage[d]
          /\ home' = home /\ Lonely' \subseteq Lonely
      BY <2>1, Lone, Frame
    <2> QED
      BY ONLY <2>1, <2>2, LocalInv, c \in Cluster DEF LocalInv, Serving
  <1>13. ASSUME NEW c \in Cluster, Truncate(c)
       PROVE  LocalInv'
    <2>1. /\ stage[c] = "writing" /\ stage'[c] = "filling" /\ Step(c)
          /\ manifest' = [manifest EXCEPT ![Home(c)][at[c]] = Empty]
          /\ UNCHANGED <<at, got, todo>>
      BY ONLY <1>13, stage \in [Cluster -> Stage], c \in Cluster DEF Truncate, Moves, Step
    <2>2. \A d \in Cluster : d # c => stage'[d] = stage[d]
      BY ONLY <2>1, Frame, TypeOK, c \in Cluster
    <2>3. home' = home /\ Lonely' \subseteq Lonely
      BY ONLY <2>1, Lone, TypeOK, c \in Cluster
    <2>4. at[c] \in Service /\ manifest'[home[c]][at[c]] = Empty /\ Spares(c)
      BY ONLY <2>1, Elsewhere, TypeOK, LocalInv, c \in Cluster
    <2> QED
      BY ONLY <2>1, <2>2, <2>3, <2>4, LocalInv, c \in Cluster DEF LocalInv, Serving, Spares
  <1>14. ASSUME NEW c \in Cluster, Fill(c)
       PROVE  LocalInv'
    <2>1. /\ stage[c] = "filling" /\ stage'[c] = "picking" /\ Step(c)
          /\ UNCHANGED <<at, got, todo>>
          /\ \E m \in {loaded[c][at[c]], Torn} :
               manifest' = [manifest EXCEPT ![Home(c)][at[c]] = m]
      BY ONLY <1>14, stage \in [Cluster -> Stage], c \in Cluster DEF Fill, Moves, Step
    <2>2. at[c] \in Service /\ loaded[c][at[c]] \in Secret \cup {None}
      BY <2>1
    <2>3. Spares(c)
      <3>1. PICK m \in {loaded[c][at[c]], Torn} :
              manifest' = [manifest EXCEPT ![Home(c)][at[c]] = m]
        BY <2>1
      <3>2. m \in Secret \cup {None, Empty, Torn}
        BY <2>2
      <3>3. stage[c] \in {"writing", "filling"} /\ Step(c)
        BY <2>1
      <3> QED
        BY ONLY <3>1, <3>2, <3>3, Elsewhere, TypeOK, LocalInv, c \in Cluster
    <2> QED
      BY ONLY <2>1, <2>3, Apart, TypeOK, LocalInv, c \in Cluster DEF Serving
  <1>15. ASSUME NEW c \in Cluster, Finish(c)
       PROVE  LocalInv'
    <2>1. /\ Step(c) /\ UNCHANGED <<manifest, at, todo, got>>
          /\ stage'[c] \in Serving => stage[c] \in Serving
          /\ stage'[c] \notin {"comparing", "filling"}
      BY ONLY <1>15, stage \in [Cluster -> Stage], c \in Cluster
      DEF Finish, Returns, Moves, Step, Serving, files
    <2> QED
      BY ONLY <2>1, Steady, TypeOK, LocalInv, c \in Cluster
  <1>16. ASSUME NEW c \in Cluster, Fail(c)
       PROVE  LocalInv'
    <2>1. /\ Step(c) /\ UNCHANGED <<manifest, at, todo, got>>
          /\ stage'[c] \in Serving => stage[c] \in Serving
          /\ stage'[c] \notin {"comparing", "filling"}
      BY ONLY <1>16, stage \in [Cluster -> Stage], c \in Cluster
      DEF Fail, Returns, Moves, Step, Serving, files
    <2> QED
      BY ONLY <2>1, Steady, TypeOK, LocalInv, c \in Cluster
  <1>17. ASSUME End
       PROVE  LocalInv'
    BY <1>17, Exits DEF End
  <1>18. ASSUME NEW c \in Cluster, Fault(c)
       PROVE  LocalInv'
    <2>1. CASE FailsToLoad(c)
      <3>1. /\ UNCHANGED <<manifest, at, got>> /\ stage'[c] \in {"failing", "picking"}
            /\ \A d \in Cluster : d # c => todo'[d] = todo[d]
        BY <2>1 DEF FailsToLoad, Loads, Moves
      <3> QED
        BY ONLY <1>18, <3>1, Steady, TypeOK, LocalInv, c \in Cluster DEF Serving
    <2>2. ASSUME NEW s \in Service, FailsToPick(c, s)
          PROVE  LocalInv'
      <3>1. Takes(c, s) /\ stage'[c] \in {"writing", "picking"}
        BY ONLY <2>2, stage \in [Cluster -> Stage], c \in Cluster DEF FailsToPick, Moves
      <3> QED
        BY ONLY <1>18, <3>1, Taking, TypeOK, LocalInv, c \in Cluster, s \in Service
    <2>3. CASE FailsToDecrypt(c)
      <3>1. /\ stage[c] = "decrypting" /\ stage'[c] = "comparing"
            /\ got' = [got EXCEPT ![c] = Torn] /\ UNCHANGED <<manifest, at, todo>>
        BY ONLY <2>3, stage \in [Cluster -> Stage], c \in Cluster
        DEF FailsToDecrypt, Moves, files
      <3>2. /\ got'[c] = Torn
            /\ \A d \in Cluster : d # c => got'[d] = got[d] /\ stage'[d] = stage[d]
            /\ home' = home /\ Lonely' \subseteq Lonely
        BY <1>18, <3>1, Lone, Frame
      <3> QED
        BY ONLY <3>1, <3>2, LocalInv, c \in Cluster DEF LocalInv, Serving
    <2>4. CASE FailsToWrite(c)
      <3>1. /\ stage[c] \in {"writing", "filling"} /\ stage'[c] = "picking"
            /\ UNCHANGED <<at, got, todo>>
            /\ \/ UNCHANGED manifest
               \/ manifest' = [manifest EXCEPT ![Home(c)][at[c]] = Torn]
        BY ONLY <2>4, stage \in [Cluster -> Stage], c \in Cluster DEF FailsToWrite, Moves
      <3>2. Spares(c)
        <4>1. CASE UNCHANGED manifest
          BY <4>1 DEF Spares
        <4>2. CASE manifest' = [manifest EXCEPT ![Home(c)][at[c]] = Torn]
          BY ONLY <1>18, <3>1, <4>2, Elsewhere, TypeOK, LocalInv, c \in Cluster
        <4> QED
          BY ONLY <3>1, <4>1, <4>2
      <3> QED
        BY ONLY <1>18, <3>1, <3>2, Apart, TypeOK, LocalInv, c \in Cluster DEF Serving
    <2> QED
      BY <1>18, <2>1, <2>2, <2>3, <2>4 DEF Fault
  <1>19. ASSUME Die
       PROVE  LocalInv'
    BY <1>19, Exits DEF Die
  <1>20. ASSUME NEW c \in Cluster, NEW S \in SUBSET Service, Render(c, S)
       PROVE  LocalInv'
    <2>1. \A d \in Cluster : stage'[d] = "idle"
      BY <1>20 DEF Render, CommandInv
    <2> QED
      BY <2>1
  <1>21. CASE UNCHANGED vars
    <2>1. UNCHANGED <<manifest, named, cmd, stage, at, todo, got>>
      BY <1>21
    <2> QED
      BY ONLY <2>1, LocalInv DEF LocalInv, Lonely, Alone, home, Home
  <1> QED
    BY <1>1, <1>2, <1>3, <1>4, <1>5, <1>6, <1>7, <1>8, <1>9, <1>10,
       <1>11, <1>12, <1>13, <1>14, <1>15, <1>16, <1>17, <1>18, <1>19, <1>20, <1>21
       DEF Next, Progress, Step

(* The service that a goroutine takes next has no result yet.              *)
LEMMA Picking ==
  ASSUME TypeOK, ResultInv, NEW c \in Cluster, NEW s \in Service, Step(c) \/ Fault(c),
         Takes(c, s), stage[c] = "picking", stage'[c] \in {"reading", "writing", "picking"},
         \/ UNCHANGED result
         \/ /\ result' = [result EXCEPT ![c][s] = "skipped"]
            /\ stage'[c] = "picking" /\ ~checking
  PROVE  ResultInv'
  <1>1. /\ \A d \in Cluster : d # c => stage'[d] = stage[d]
        /\ home' = home /\ Lonely' \subseteq Lonely
    BY Frame, Lone
  <1>2. /\ UNCHANGED <<manifest, loaded, checking>>
        /\ s \in todo[c] /\ todo'[c] = todo[c] \ {s} /\ at'[c] = s
        /\ \A d \in Cluster : d # c => todo'[d] = todo[d] /\ at'[d] = at[d]
    BY DEF Takes, TypeOK, files
  <1>3. \A d \in Cluster, t \in Service : d # c \/ t # s => result'[d][t] = result[d][t]
    BY Reporting DEF TypeOK, Outcome
  <1>4. result'[c][s] \in {result[c][s], "skipped"}
    BY Reporting DEF TypeOK, Outcome
  <1>5. ASSUME NEW t \in Service, ~Done(c, t)'
        PROVE  ~Done(c, t) /\ result'[c][t] = result[c][t]
    BY <1>2, <1>3, <1>5 DEF Done, Serving
  <1> QED
    BY <1>1, <1>2, <1>3, <1>4, <1>5 DEF ResultInv, Done, Serving, Early

LEMMA Keeping ==
  ASSUME TypeOK, ResultInv, NEW c \in Cluster, Step(c) \/ Fault(c),
         UNCHANGED <<manifest, loaded, todo, at, result>>, checking' => checking,
         stage'[c] \in Serving => stage[c] \in Serving,
         stage'[c] \in Early \cup {"loading"}
           => stage[c] \in Early \cup {"loading"} \/ checking
  PROVE  ResultInv'
  <1>1. /\ \A d \in Cluster : d # c => stage'[d] = stage[d]
        /\ home' = home /\ Lonely' \subseteq Lonely
    BY Frame, Lone
  <1>2. ASSUME NEW d \in Cluster, NEW t \in Service, ~Done(d, t)'
        PROVE  ~Done(d, t)
    BY <1>1, <1>2 DEF Done
  <1>3. ASSUME NEW d \in Cluster, stage'[d] \in Early \cup {"loading"} \/ checking'
        PROVE  stage[d] \in Early \cup {"loading"} \/ checking
    BY <1>1, <1>3
  <1> QED
    BY ONLY <1>1, <1>2, <1>3, UNCHANGED <<manifest, loaded, result>>, ResultInv DEF ResultInv

(* After a write the reports on other services and clusters stand.         *)
LEMMA Writing ==
  ASSUME TypeOK, LocalInv, ResultInv, NEW c \in Cluster, Step(c) \/ Fault(c),
         stage[c] \in {"writing", "filling"}, stage'[c] \in {"filling", "picking"},
         UNCHANGED <<loaded, todo, at, checking>>, ~checking,
         Spares(c),
         stage'[c] = "filling" => result'[c][at[c]] = "none",
         result'[c][at[c]] = "updated" /\ c \in Lonely
           => manifest'[Home(c)][at[c]] = loaded[c][at[c]],
         result'[c][at[c]] # "unchanged",
         \A d \in Cluster, t \in Service :
           d # c \/ t # at[c] => result'[d][t] = result[d][t]
  PROVE  ResultInv'
  <1>1. /\ \A d \in Cluster : d # c => stage'[d] = stage[d]
        /\ home' = home /\ home[c] = Home(c) /\ Lonely' \subseteq Lonely
    BY Frame, Lone
  <1>2. at[c] \in Service \ todo[c]
    BY DEF LocalInv, Serving
  <1>3. /\ \A s \in Service : s # at[c] => manifest'[home[c]][s] = manifest[home[c]][s]
        /\ \A d \in Cluster, s \in Service :
             d \in Lonely /\ d # c => manifest'[home[d]][s] = manifest[home[d]][s]
    BY DEF Spares
  <1>4. ASSUME NEW d \in Cluster, NEW t \in Service, ~Done(d, t)'
        PROVE  ~Done(d, t)
    BY <1>1, <1>4 DEF Done, Serving
  <1>5. ASSUME NEW d \in Cluster, NEW t \in Service,
               stage'[d] \in Early \cup {"loading"} \/ checking' \/ ~Done(d, t)'
        PROVE  result'[d][t] = "none"
    <2>1. CASE d # c \/ t # at[c]
      BY <1>1, <1>4, <1>5, <2>1 DEF ResultInv, Early
    <2>2. CASE d = c /\ t = at[c]
      <3>1. stage'[c] = "filling" \/ t \in todo[c]
        BY <1>5, <2>2 DEF Done, Serving, Early
      <3>2. stage'[c] = "filling" => result'[c][at[c]] = "none"
        OBVIOUS
      <3> QED
        BY <1>2, <2>2, <3>1, <3>2
    <2> QED
      BY <2>1, <2>2
  <1>6. ASSUME NEW d \in Cluster, NEW t \in Service, d \in Lonely',
               result'[d][t] \in {"updated", "unchanged"}
        PROVE  manifest'[home[d]][t] = loaded[d][t]
    <2>1. CASE d # c \/ t # at[c]
      BY <1>1, <1>3, <1>6, <2>1 DEF ResultInv
    <2>2. CASE d = c /\ t = at[c]
      BY <1>1, <1>6, <2>2
    <2> QED
      BY <2>1, <2>2
  <1> QED
    BY ONLY <1>1, <1>5, <1>6, UNCHANGED loaded DEF ResultInv

LEMMA Starting ==
  ASSUME TypeOK, ResultInv, NEW c \in Cluster, NEW listing \in SUBSET Service,
         Step(c) \/ Fault(c), Loads(c, listing), stage[c] = "loading", stage'[c] = "picking",
         UNCHANGED <<manifest, checking, result>>
  PROVE  ResultInv'
  <1>1. /\ \A d \in Cluster : d # c => stage'[d] = stage[d]
        /\ home' = home /\ Lonely' \subseteq Lonely
    BY Frame, Lone
  <1>2. /\ UNCHANGED at
        /\ \A d \in Cluster : d # c => loaded'[d] = loaded[d] /\ todo'[d] = todo[d]
    BY Loading DEF Loads
  <1>3. \A t \in Service : result[c][t] = "none"
    BY DEF ResultInv
  <1> QED
    BY ONLY <1>1, <1>2, <1>3, UNCHANGED <<manifest, checking, result>>, ResultInv, c \in Cluster
    DEF ResultInv, Done

LEMMA Results ==
  ASSUME TypeOK, CommandInv, LocalInv, CheckInv, ResultInv, [Next]_vars
  PROVE  ResultInv'
  <1> USE SetAssumption
      DEF TypeOK, CommandInv, LocalInv, ResultInv, Done, Serving, Early,
          Stage, files, shared, check, local, counts, vars
  <1>1. ASSUME NEW c \in Cluster, NEW s \in Service, NEW v \in Secret \cup {None},
           Edit(c, s, v)
       PROVE  ResultInv'
    <2>1. UNCHANGED <<manifest, named, cmd, stage, loaded, todo, at, result, checking>>
      BY <1>1 DEF Edit
    <2> QED
      BY ONLY <2>1, ResultInv DEF ResultInv, Done, Lonely, Alone, home, Home
  <1>2. ASSUME NEW k \in Command, NEW targets \in SUBSET Cluster, Start(k, targets)
       PROVE  ResultInv'
    BY <1>2 DEF Start
  <1>3. ASSUME NEW c \in Cluster, Spawn(c)
       PROVE  ResultInv'
    <2>1. /\ Step(c) /\ UNCHANGED <<manifest, loaded, todo, at, result, checking>>
          /\ stage'[c] \in Serving => stage[c] \in Serving
          /\ stage'[c] \in Early \cup {"loading"} => stage[c] \in Early \cup {"loading"}
      BY ONLY <1>3, stage \in [Cluster -> Stage], c \in Cluster
      DEF Spawn, Moves, Step, Serving, Early, files, check
    <2> QED
      BY ONLY <2>1, Keeping, TypeOK, ResultInv, c \in Cluster
  <1>4. ASSUME Break
       PROVE  ResultInv'
    BY <1>4 DEF Break, Lonely, Alone, Home, home
  <1>5. ASSUME NEW c \in Cluster, Acquire(c)
       PROVE  ResultInv'
    <2>1. /\ Step(c) /\ UNCHANGED <<manifest, loaded, todo, at, result, checking>>
          /\ stage'[c] \in Serving => stage[c] \in Serving
          /\ stage'[c] \in Early \cup {"loading"} => stage[c] \in Early \cup {"loading"}
      BY ONLY <1>5, stage \in [Cluster -> Stage], c \in Cluster
      DEF Acquire, Moves, Step, Serving, Early, files, check
    <2> QED
      BY ONLY <2>1, Keeping, TypeOK, ResultInv, c \in Cluster
  <1>6. ASSUME NEW c \in Cluster, Check(c)
       PROVE  ResultInv'
    <2>1. /\ Step(c) /\ UNCHANGED <<manifest, loaded, todo, at, result, checking>>
          /\ stage'[c] \in Serving => stage[c] \in Serving
          /\ stage'[c] \in Early \cup {"loading"} => stage[c] \in Early \cup {"loading"}
      BY ONLY <1>6, stage \in [Cluster -> Stage], c \in Cluster
      DEF Check, Proceed, Moves, Step, Serving, Early, files, check
    <2> QED
      BY ONLY <2>1, Keeping, TypeOK, ResultInv, c \in Cluster
  <1>7. ASSUME NEW c \in Cluster, Load(c)
       PROVE  ResultInv'
    <2>1. /\ stage[c] = "loading" /\ stage'[c] = "picking" /\ Step(c)
          /\ Loads(c, Listed(c)) /\ Listed(c) \subseteq Service
          /\ UNCHANGED <<manifest, checking, result>>
      BY ONLY <1>7, stage \in [Cluster -> Stage], c \in Cluster
      DEF Load, Loads, Listed, Moves, Step, files
    <2> QED
      BY ONLY <2>1, Starting, TypeOK, ResultInv, c \in Cluster
  <1>8. ASSUME NEW c \in Cluster, NEW s \in Service, Pick(c, s)
       PROVE  ResultInv'
    <2>1. /\ Takes(c, s) /\ stage[c] = "picking" /\ Step(c)
          /\ stage'[c] \in {"reading", "writing", "picking"}
          /\ \/ UNCHANGED result
             \/ /\ result' = [result EXCEPT ![c][s] = "skipped"]
                /\ stage'[c] = "picking" /\ ~checking
      BY ONLY <1>8, stage \in [Cluster -> Stage], c \in Cluster 
      DEF Pick, Inspects, Updates, Moves, Step
    <2> QED
      BY <2>1, Picking, Frame
  <1>9. ASSUME NEW c \in Cluster, GetEnv(c)
       PROVE  ResultInv'
    <2>1. /\ Step(c) /\ UNCHANGED <<manifest, loaded, todo, at, result, checking>>
          /\ stage'[c] \in Serving => stage[c] \in Serving
          /\ stage'[c] \in Early \cup {"loading"} => stage[c] \in Early \cup {"loading"}
      BY ONLY <1>9, stage \in [Cluster -> Stage], c \in Cluster
      DEF GetEnv, Moves, Step, Serving, Early, files, check
    <2> QED
      BY ONLY <2>1, Keeping, TypeOK, ResultInv, c \in Cluster
  <1>10. ASSUME NEW c \in Cluster, SetEnv(c)
       PROVE  ResultInv'
    <2>1. /\ Step(c) /\ UNCHANGED <<manifest, loaded, todo, at, result, checking>>
          /\ stage'[c] \in Serving => stage[c] \in Serving
          /\ stage'[c] \in Early \cup {"loading"} => stage[c] \in Early \cup {"loading"}
      BY ONLY <1>10, stage \in [Cluster -> Stage], c \in Cluster
      DEF SetEnv, Moves, Step, Serving, Early, files, check
    <2> QED
      BY ONLY <2>1, Keeping, TypeOK, ResultInv, c \in Cluster
  <1>11. ASSUME NEW c \in Cluster, Decrypt(c)
       PROVE  ResultInv'
    <2>1. /\ Step(c) /\ UNCHANGED <<manifest, loaded, todo, at, result, checking>>
          /\ stage'[c] \in Serving => stage[c] \in Serving
          /\ stage'[c] \in Early \cup {"loading"} => stage[c] \in Early \cup {"loading"}
      BY ONLY <1>11, stage \in [Cluster -> Stage], c \in Cluster
      DEF Decrypt, Moves, Step, Serving, Early, files, check
    <2> QED
      BY ONLY <2>1, Keeping, TypeOK, ResultInv, c \in Cluster
  <1>12. ASSUME NEW c \in Cluster, Compare(c)
       PROVE  ResultInv'
    <2>1. /\ stage[c] = "comparing" /\ Step(c)
          /\ stage'[c] \in {"failing", "picking", "writing"}
          /\ UNCHANGED <<manifest, loaded, checking, todo, at>>
          /\ \/ UNCHANGED result
             \/ /\ result' = [result EXCEPT ![c][at[c]] = "unchanged"]
                /\ stage'[c] = "picking" /\ ~checking /\ ~Changed(c)
      BY ONLY <1>12, stage \in [Cluster -> Stage], c \in Cluster
      DEF Compare, Moves, Step, files
    <2>2. CASE UNCHANGED result
      BY <2>1, <2>2, Keeping
    <2>3. CASE /\ result' = [result EXCEPT ![c][at[c]] = "unchanged"]
               /\ stage'[c] = "picking" /\ ~checking /\ ~Changed(c)
      <3>1. /\ \A d \in Cluster : d # c => stage'[d] = stage[d]
            /\ home' = home /\ Lonely' \subseteq Lonely
        BY <2>1, Frame, Lone
      <3>2. at[c] \in Service /\ got[c] = loaded[c][at[c]]
        BY <2>1, <2>3 DEF Changed
      <3>3. loaded[c][at[c]] # Torn
        BY <3>2
      <3>4. c \in Lonely => manifest[home[c]][at[c]] = loaded[c][at[c]]
        BY <2>1, <3>2, <3>3
      <3>5. /\ result'[c][at[c]] = "unchanged" /\ at[c] \notin todo[c]
            /\ \A d \in Cluster, t \in Service :
                 d # c \/ t # at[c] => result'[d][t] = result[d][t]
        BY <2>1, <2>3, <3>2, Reporting DEF Outcome
      <3>6. ASSUME NEW t \in Service, ~Done(c, t)'
            PROVE  t # at[c] /\ ~Done(c, t)
        BY <2>1, <2>3, <3>5, <3>6
      <3> QED
        BY ONLY <2>1, <2>3, <3>1, <3>4, <3>5, <3>6, ResultInv, c \in Cluster
        DEF ResultInv, Done, Serving, Early
    <2> QED
      BY ONLY <2>1, <2>2, <2>3
  <1>13. ASSUME NEW c \in Cluster, Truncate(c)
       PROVE  ResultInv'
    <2>1. /\ stage[c] = "writing" /\ stage'[c] = "filling" /\ Step(c)
          /\ manifest' = [manifest EXCEPT ![Home(c)][at[c]] = Empty]
          /\ UNCHANGED <<loaded, checking, todo, at, result>>
      BY ONLY <1>13, stage \in [Cluster -> Stage], c \in Cluster
      DEF Truncate, Moves, Step, check
    <2>2. ~checking /\ at[c] \in Service
      BY <2>1 DEF CheckInv
    <2>3. result[c][at[c]] = "none"
      BY <2>1, <2>2
    <2>4. Spares(c)
      BY ONLY <2>1, Elsewhere, TypeOK, LocalInv, c \in Cluster
    <2> QED
      BY ONLY <2>1, <2>2, <2>3, <2>4, Writing, TypeOK, LocalInv, ResultInv, c \in Cluster
  <1>14. ASSUME NEW c \in Cluster, Fill(c)
       PROVE  ResultInv'
    <2>1. /\ stage[c] = "filling" /\ stage'[c] = "picking" /\ Step(c)
          /\ UNCHANGED <<loaded, checking, todo, at>>
          /\ result' = [result EXCEPT ![c][at[c]] = "updated"]
          /\ \E m \in {loaded[c][at[c]], Torn} :
               /\ manifest[Home(c)][at[c]] = Empty => m = loaded[c][at[c]]
               /\ manifest' = [manifest EXCEPT ![Home(c)][at[c]] = m]
      BY ONLY <1>14, stage \in [Cluster -> Stage], c \in Cluster
      DEF Fill, Moves, Step, check
    <2>2. /\ ~checking /\ at[c] \in Service /\ loaded[c][at[c]] \in Secret \cup {None}
          /\ home[c] = Home(c)
      BY <2>1, Lone DEF CheckInv
    <2>3. PICK m \in {loaded[c][at[c]], Torn} :
            /\ manifest[Home(c)][at[c]] = Empty => m = loaded[c][at[c]]
            /\ manifest' = [manifest EXCEPT ![Home(c)][at[c]] = m]
      BY <2>1
    <2>4. m \in Secret \cup {None, Empty, Torn}
      BY <2>2
    <2>5. manifest'[Home(c)][at[c]] = m /\ Spares(c)
      <3>1. stage[c] \in {"writing", "filling"} /\ Step(c)
        BY <2>1
      <3>2. manifest' = [manifest EXCEPT ![Home(c)][at[c]] = m]
        BY <2>3
      <3>3. manifest'[home[c]][at[c]] = m /\ Spares(c)
        BY ONLY <2>4, <3>1, <3>2, Elsewhere, TypeOK, LocalInv, c \in Cluster
      <3> QED
        BY ONLY <2>2, <3>3
    <2>6. c \in Lonely => m = loaded[c][at[c]]
      BY ONLY <2>1, <2>2, <2>3, LocalInv, c \in Cluster DEF LocalInv
    <2>7. /\ result'[c][at[c]] = "updated"
          /\ \A d \in Cluster, t \in Service :
               d # c \/ t # at[c] => result'[d][t] = result[d][t]
      BY <2>1, <2>2, Reporting DEF Outcome
    <2>8. /\ result'[c][at[c]] = "updated" /\ c \in Lonely
               => manifest'[Home(c)][at[c]] = loaded[c][at[c]]
          /\ result'[c][at[c]] # "unchanged" /\ stage'[c] # "filling"
      BY ONLY <2>1, <2>5, <2>6, <2>7
    <2> QED
      BY ONLY <2>1, <2>2, <2>5, <2>7, <2>8, Writing, TypeOK, LocalInv, ResultInv, c \in Cluster
  <1>15. ASSUME NEW c \in Cluster, Finish(c)
       PROVE  ResultInv'
    <2>1. /\ Step(c) /\ UNCHANGED <<manifest, loaded, todo, at, result>>
          /\ stage'[c] \in {"loading", "ended"} /\ (checking' => checking)
          /\ stage'[c] = "loading" => checking
      BY ONLY <1>15, stage \in [Cluster -> Stage], c \in Cluster
      DEF Finish, Returns, Moves, Step, files
    <2>2. /\ checking' => checking
          /\ stage'[c] \notin Serving
          /\ stage'[c] \in Early \cup {"loading"}
               => stage[c] \in Early \cup {"loading"} \/ checking
      BY ONLY <2>1 DEF Serving, Early
    <2> QED
      BY ONLY <2>1, <2>2, Keeping, TypeOK, ResultInv, c \in Cluster
  <1>16. ASSUME NEW c \in Cluster, Fail(c)
       PROVE  ResultInv'
    <2>1. /\ Step(c) /\ UNCHANGED <<manifest, loaded, todo, at, result, checking>>
          /\ stage'[c] \in Serving => stage[c] \in Serving
          /\ stage'[c] \in Early \cup {"loading"} => stage[c] \in Early \cup {"loading"}
      BY ONLY <1>16, stage \in [Cluster -> Stage], c \in Cluster
      DEF Fail, Returns, Moves, Step, Serving, Early, files, check
    <2> QED
      BY ONLY <2>1, Keeping, TypeOK, ResultInv, c \in Cluster
  <1>17. ASSUME End
       PROVE  ResultInv'
    BY <1>17, Exits DEF End
  <1>18. ASSUME NEW c \in Cluster, Fault(c)
       PROVE  ResultInv'
    <2>1. CASE FailsToLoad(c)
      <3>1. CASE UNCHANGED <<loaded, todo, seen>>
        <4>1. /\ UNCHANGED <<manifest, loaded, todo, at, result, checking>>
              /\ stage'[c] \in {"failing", "picking"} /\ stage[c] = "loading"
          BY ONLY <2>1, <3>1, stage \in [Cluster -> Stage], c \in Cluster
          DEF FailsToLoad, Loads, Moves, files, check
        <4> QED
          BY <1>18, <4>1, Keeping
      <3>2. ASSUME NEW L \in SUBSET Listed(c), Loads(c, L)
            PROVE  ResultInv'
        <4>1. /\ stage[c] = "loading" /\ stage'[c] = "picking"
              /\ UNCHANGED <<manifest, checking, result>>
          BY ONLY <3>2, stage \in [Cluster -> Stage], c \in Cluster DEF Loads, Moves, files
        <4>2. L \subseteq Service
          BY DEF Listed
        <4> QED
          BY ONLY <1>18, <3>2, <4>1, <4>2, Starting, TypeOK, ResultInv, c \in Cluster
      <3> QED
        BY ONLY <2>1, <3>1, <3>2 DEF FailsToLoad, check, local
    <2>2. ASSUME NEW s \in Service, FailsToPick(c, s)
          PROVE  ResultInv'
      <3>1. /\ Takes(c, s) /\ stage[c] = "picking"
            /\ stage'[c] \in {"reading", "writing", "picking"}
            /\ \/ UNCHANGED result
               \/ /\ result' = [result EXCEPT ![c][s] = "skipped"]
                  /\ stage'[c] = "picking" /\ ~checking
        BY ONLY <2>2, stage \in [Cluster -> Stage], c \in Cluster DEF FailsToPick, Moves
      <3> QED
        BY <1>18, <3>1, Picking, Frame
    <2>3. CASE FailsToDecrypt(c)
      <3>1. /\ UNCHANGED <<manifest, loaded, todo, at, result, checking>>
            /\ stage[c] = "decrypting" /\ stage'[c] = "comparing"
        BY ONLY <2>3, stage \in [Cluster -> Stage], c \in Cluster
        DEF FailsToDecrypt, Moves, files, check
      <3> QED
        BY <1>18, <3>1, Keeping
    <2>4. CASE FailsToWrite(c)
      <3>1. /\ stage[c] \in {"writing", "filling"} /\ stage'[c] = "picking"
            /\ UNCHANGED <<loaded, checking, todo, at>>
            /\ result' = [result EXCEPT ![c][at[c]] = "error"]
            /\ \/ UNCHANGED manifest
               \/ manifest' = [manifest EXCEPT ![Home(c)][at[c]] = Torn]
        BY ONLY <2>4, stage \in [Cluster -> Stage], c \in Cluster
        DEF FailsToWrite, Moves, check
      <3>2. ~checking /\ at[c] \in Service
        BY <3>1 DEF CheckInv
      <3>3. /\ result'[c][at[c]] = "error"
            /\ \A d \in Cluster, t \in Service :
                 d # c \/ t # at[c] => result'[d][t] = result[d][t]
        BY <3>1, <3>2, Reporting DEF Outcome
      <3>4. Spares(c)
        <4>1. CASE UNCHANGED manifest
          BY <4>1 DEF Spares
        <4>2. CASE manifest' = [manifest EXCEPT ![Home(c)][at[c]] = Torn]
          BY ONLY <1>18, <3>1, <4>2, Elsewhere, TypeOK, LocalInv, c \in Cluster
        <4> QED
          BY ONLY <3>1, <4>1, <4>2
      <3>5. result'[c][at[c]] \notin {"updated", "unchanged"} /\ stage'[c] # "filling"
        BY <3>1, <3>3
      <3>6. UNCHANGED <<loaded, todo, at, checking>> /\ stage'[c] \in {"filling", "picking"}
        BY <3>1
      <3>7. stage[c] \in {"writing", "filling"}
        BY <3>1
      <3> QED
        BY ONLY <1>18, <3>2, <3>3, <3>4, <3>5, <3>6, <3>7, Writing,
           TypeOK, LocalInv, ResultInv, c \in Cluster
    <2> QED
      BY <1>18, <2>1, <2>2, <2>3, <2>4 DEF Fault
  <1>19. ASSUME Die
       PROVE  ResultInv'
    BY <1>19, Exits DEF Die
  <1>20. ASSUME NEW c \in Cluster, NEW S \in SUBSET Service, Render(c, S)
       PROVE  ResultInv'
    <2>1. /\ UNCHANGED <<checking, cmd, named, stage, loaded, todo, at, result>>
          /\ \A d \in Cluster, t \in Service : result[d][t] = "none"
      BY <1>20 DEF Render
    <2> QED
      BY ONLY <2>1, ResultInv DEF ResultInv, Done
  <1>21. CASE UNCHANGED vars
    <2>1. UNCHANGED <<manifest, named, cmd, stage, loaded, todo, at, result, checking>>
      BY <1>21
    <2> QED
      BY ONLY <2>1, ResultInv DEF ResultInv, Done, Lonely, Alone, home, Home
  <1> QED
    BY <1>1, <1>2, <1>3, <1>4, <1>5, <1>6, <1>7, <1>8, <1>9, <1>10,
       <1>11, <1>12, <1>13, <1>14, <1>15, <1>16, <1>17, <1>18, <1>19, <1>20, <1>21
       DEF Next, Progress, Step

LEMMA Begun ==
  ASSUME NEW c \in Cluster, Step(c) \/ Fault(c)
  PROVE  stage[c] # "idle"
  <1>1. ASSUME Fault(c)
        PROVE  stage[c] # "idle"
    BY ONLY <1>1 DEF Fault, FailsToLoad, FailsToPick, FailsToDecrypt, FailsToWrite, Loads, Moves
  <1>2. ASSUME Step(c)
        PROVE  stage[c] # "idle"
    BY ONLY <1>2 DEF Step, Spawn, Acquire, Check, Proceed, Load, Loads, Pick, Inspects, Updates,
       GetEnv, SetEnv, Decrypt, Compare, Truncate, Fill, Finish, Fail, Returns, Moves
  <1> QED
    BY <1>1, <1>2

(* Validate works on one cluster: what its goroutine leaves is the verdict. *)
LEMMA Verdict ==
  ASSUME TypeOK, CommandInv, NEW c \in Cluster, Step(c) \/ Fault(c), checking' => checking,
         checking => stage'[c] \notin {"writing", "filling"},
         checking /\ stage'[c] \in Serving \cup {"picking"}
           => \A s \in Service :
                valid' /\ s \in seen' \ unread' /\ Done(c, s)' => Agrees(c, s)',
         checking /\ cmd.fix /\ c \notin failed' /\ stage'[c] = "ended"
           => \A s \in Service :
                loaded'[c][s] # None /\ s \notin unread' => Agrees(c, s)'
  PROVE  CheckInv'
  <1>1. \A d \in Cluster : d # c => stage'[d] = stage[d]
    BY Frame
  <1>2. stage[c] # "idle" /\ cmd' = cmd
    BY Begun, Frame
  <1>3. checking => \A d \in Cluster : d # c => stage'[d] = "idle"
    BY <1>1, <1>2, Sole DEF CommandInv
  <1>4. SUFFICES ASSUME checking, NEW d \in Cluster, NEW s \in Service
                 PROVE  /\ stage'[d] \notin {"writing", "filling"}
                        /\ valid' /\ s \in seen' \ unread' /\ Done(d, s)'
                             /\ stage'[d] \in Serving \cup {"picking"} => Agrees(d, s)'
                        /\ cmd.fix /\ d \notin failed' /\ stage'[d] = "ended"
                             /\ loaded'[d][s] # None /\ s \notin unread' => Agrees(d, s)'
    BY <1>2, Zenon DEF CheckInv
  <1>5. CASE d # c
    BY ONLY <1>3, <1>4, <1>5 DEF Serving
  <1>6. CASE d = c
    BY <1>4, <1>6
  <1> QED
    BY <1>5, <1>6

LEMMA Looking ==
  ASSUME TypeOK, CommandInv, CheckInv, NEW c \in Cluster, Step(c) \/ Fault(c),
         UNCHANGED <<manifest, loaded, todo, at, checking, valid, seen, unread>>,
         stage[c] \in Serving, stage'[c] \in {"setting", "decrypting", "comparing"}
  PROVE  CheckInv'
  <1>1. \A s \in Service : (Done(c, s)' <=> Done(c, s)) /\ (Agrees(c, s)' <=> Agrees(c, s))
    BY DEF Done, Agrees, Serving
  <1>2. ASSUME NEW s \in Service, checking, valid', s \in seen' \ unread', Done(c, s)'
        PROVE  Agrees(c, s)'
    BY <1>1, <1>2 DEF CheckInv
  <1> QED
    BY <1>2, Verdict

LEMMA Checks ==
  ASSUME TypeOK, CommandInv, LocalInv, CheckInv, [Next]_vars
  PROVE  CheckInv'
  <1> USE DEF TypeOK, Stage, files, shared, check, local, counts, vars
  <1>1. ASSUME NEW c \in Cluster, NEW s \in Service, NEW v \in Secret \cup {None},
           Edit(c, s, v)
       PROVE  CheckInv'
    <2>1. UNCHANGED <<manifest, stage, loaded, todo, at, cmd, failed, checking, valid, seen, unread>>
      BY <1>1 DEF Edit
    <2> QED
      BY ONLY <2>1, CheckInv DEF CheckInv, Done, Agrees
  <1>2. ASSUME NEW k \in Command, NEW targets \in SUBSET Cluster, Start(k, targets)
       PROVE  CheckInv'
    <2>1. \A d \in Cluster : stage'[d] \in {"idle", "queued", "loading"}
      BY <1>2 DEF Start
    <2> QED
      BY ONLY <2>1 DEF CheckInv, Serving
  <1>3. ASSUME NEW c \in Cluster, Spawn(c)
       PROVE  CheckInv'
    <2>1. /\ Step(c) /\ UNCHANGED <<checking, cmd>>
          /\ stage'[c] \in {"waiting"}
      BY ONLY <1>3, stage \in [Cluster -> Stage], c \in Cluster
      DEF Spawn, Moves, Step, check
    <2> QED
      BY ONLY <2>1, Verdict, TypeOK, CommandInv, c \in Cluster DEF Serving
  <1>4. ASSUME Break
       PROVE  CheckInv'
    <2>1. /\ UNCHANGED <<manifest, loaded, todo, at, cmd, failed, checking, valid, seen, unread>>
          /\ \A d \in Cluster : stage'[d] \in {stage[d], "idle"}
      BY <1>4 DEF Break
    <2> QED
      BY ONLY <2>1, CheckInv DEF CheckInv, Done, Agrees, Serving
  <1>5. ASSUME NEW c \in Cluster, Acquire(c)
       PROVE  CheckInv'
    <2>1. /\ Step(c) /\ UNCHANGED <<checking, cmd>>
          /\ stage'[c] \in {"checking"}
      BY ONLY <1>5, stage \in [Cluster -> Stage], c \in Cluster
      DEF Acquire, Moves, Step, check
    <2> QED
      BY ONLY <2>1, Verdict, TypeOK, CommandInv, c \in Cluster DEF Serving
  <1>6. ASSUME NEW c \in Cluster, Check(c)
       PROVE  CheckInv'
    <2>1. /\ Step(c) /\ UNCHANGED checking
          /\ stage'[c] \in {"loading", "ended"} /\ (~stopped => stage'[c] = "loading")
      BY ONLY <1>6, stage \in [Cluster -> Stage], c \in Cluster
      DEF Check, Proceed, Moves, Step, check
    <2>2. checking => ~stopped
      BY DEF CommandInv
    <2> QED
      BY ONLY <2>1, <2>2, Verdict, TypeOK, CommandInv, c \in Cluster DEF Serving
  <1>7. ASSUME NEW c \in Cluster, Load(c)
       PROVE  CheckInv'
    <2>1. /\ Step(c) /\ UNCHANGED checking /\ stage'[c] = "picking"
          /\ Loads(c, Listed(c)) /\ Listed(c) \subseteq Service
      BY ONLY <1>7, stage \in [Cluster -> Stage], c \in Cluster
      DEF Load, Loads, Listed, Moves, Step
    <2>2. checking => todo'[c] = seen'
      BY ONLY <2>1, Loading, TypeOK, c \in Cluster
    <2>3. checking => \A t \in seen' : ~Done(c, t)'
      BY ONLY <2>2 DEF Done
    <2> QED
      BY ONLY <2>1, <2>3, Verdict, TypeOK, CommandInv, c \in Cluster
  <1>8. ASSUME NEW c \in Cluster, NEW s \in Service, Pick(c, s)
       PROVE  CheckInv'
    <2>1. /\ Takes(c, s) /\ Step(c) /\ stage[c] = "picking" /\ UNCHANGED unread
          /\ \/ stage'[c] = "reading" /\ valid' = valid
             \/ stage'[c] = "picking" /\ valid' = FALSE
             \/ ~checking
      BY ONLY <1>8, stage \in [Cluster -> Stage], c \in Cluster
      DEF Pick, Inspects, Updates, Takes, Moves, Step
    <2>2. /\ UNCHANGED <<manifest, loaded, checking, seen>>
          /\ todo'[c] = todo[c] \ {s} /\ at'[c] = s
      BY ONLY <2>1, TypeOK, c \in Cluster DEF Takes, TypeOK, files
    <2>3. ASSUME NEW t \in Service, Done(c, t)', stage'[c] = "reading"
          PROVE  Done(c, t)
      BY ONLY <2>1, <2>2, <2>3 DEF Done, Serving
    <2>4. ASSUME NEW t \in Service, checking, valid', t \in seen \ unread, Done(c, t)'
          PROVE  Agrees(c, t)'
      BY ONLY <2>1, <2>2, <2>3, <2>4, CheckInv, c \in Cluster DEF CheckInv, Agrees
    <2> QED
      BY ONLY <2>1, <2>2, <2>4, Verdict, TypeOK, CommandInv, c \in Cluster
  <1>9. ASSUME NEW c \in Cluster, GetEnv(c)
       PROVE  CheckInv'
    <2>1. /\ Step(c) /\ UNCHANGED <<manifest, loaded, todo, at, checking, valid, seen, unread>>
          /\ stage[c] \in Serving /\ stage'[c] \in {"setting", "decrypting", "comparing"}
      BY ONLY <1>9, stage \in [Cluster -> Stage], c \in Cluster
      DEF GetEnv, Moves, Step, Serving, files, check
    <2> QED
      BY ONLY <2>1, Looking, TypeOK, CommandInv, CheckInv, c \in Cluster
  <1>10. ASSUME NEW c \in Cluster, SetEnv(c)
       PROVE  CheckInv'
    <2>1. /\ Step(c) /\ UNCHANGED <<manifest, loaded, todo, at, checking, valid, seen, unread>>
          /\ stage[c] \in Serving /\ stage'[c] \in {"setting", "decrypting", "comparing"}
      BY ONLY <1>10, stage \in [Cluster -> Stage], c \in Cluster
      DEF SetEnv, Moves, Step, Serving, files, check
    <2> QED
      BY ONLY <2>1, Looking, TypeOK, CommandInv, CheckInv, c \in Cluster
  <1>11. ASSUME NEW c \in Cluster, Decrypt(c)
       PROVE  CheckInv'
    <2>1. /\ Step(c) /\ UNCHANGED <<manifest, loaded, todo, at, checking, valid, seen, unread>>
          /\ stage[c] \in Serving /\ stage'[c] \in {"setting", "decrypting", "comparing"}
      BY ONLY <1>11, stage \in [Cluster -> Stage], c \in Cluster
      DEF Decrypt, Moves, Step, Serving, files, check
    <2> QED
      BY ONLY <2>1, Looking, TypeOK, CommandInv, CheckInv, c \in Cluster
  <1>12. ASSUME NEW c \in Cluster, Compare(c)
       PROVE  CheckInv'
    <2>1. /\ Step(c) /\ stage[c] = "comparing"
          /\ UNCHANGED <<manifest, loaded, todo, at, checking, seen, unread>>
          /\ \/ ~checking
             \/ stage'[c] = "failing"
             \/ /\ stage'[c] = "picking" /\ got[c] # Torn
                /\ valid' = (valid /\ ~Drifted(c))
      BY ONLY <1>12, stage \in [Cluster -> Stage], c \in Cluster
      DEF Compare, Moves, Step, files
    <2>2. CASE checking /\ stage'[c] = "picking" /\ got[c] # Torn
               /\ valid' = (valid /\ ~Drifted(c))
      <3>1. c \in Lonely /\ home[c] = c /\ at[c] \in Service
        BY ONLY <2>1, <2>2, Sole, CommandInv, LocalInv, c \in Cluster
        DEF CommandInv, LocalInv, Serving
      <3>2. got[c] = manifest[c][at[c]] /\ got[c] \in Secret
        BY ONLY <2>1, <2>2, <3>1, LocalInv, TypeOK, c \in Cluster DEF LocalInv, TypeOK
      <3>3. valid' => valid /\ Agrees(c, at[c])
        BY ONLY <2>2, <3>2 DEF Drifted, Agrees
      <3>4. ASSUME NEW t \in Service, t # at[c], Done(c, t)'
            PROVE  Done(c, t)
        BY ONLY <2>1, <3>4 DEF Done
      <3>5. ASSUME NEW t \in Service, valid', t \in seen \ unread, Done(c, t)'
            PROVE  Agrees(c, t)
        BY ONLY <2>1, <2>2, <3>3, <3>4, <3>5, CheckInv, c \in Cluster DEF CheckInv, Serving
      <3>6. \A t \in Service : Agrees(c, t)' <=> Agrees(c, t)
        BY ONLY <2>1 DEF Agrees
      <3> QED
        BY ONLY <2>1, <2>2, <3>5, <3>6, Verdict, TypeOK, CommandInv, c \in Cluster
    <2>3. CASE ~checking \/ stage'[c] = "failing"
      BY ONLY <2>1, <2>3, Verdict, TypeOK, CommandInv, c \in Cluster DEF Serving
    <2> QED
      BY ONLY <2>1, <2>2, <2>3
  <1>13. ASSUME NEW c \in Cluster, Truncate(c)
       PROVE  CheckInv'
    <2>1. Step(c) /\ UNCHANGED checking /\ stage[c] = "writing"
      BY ONLY <1>13 DEF Truncate, Moves, Step, check
    <2> QED
      BY ONLY <2>1, Verdict, TypeOK, CommandInv, CheckInv, c \in Cluster DEF CheckInv
  <1>14. ASSUME NEW c \in Cluster, Fill(c)
       PROVE  CheckInv'
    <2>1. Step(c) /\ UNCHANGED checking /\ stage[c] = "filling"
      BY ONLY <1>14 DEF Fill, Moves, Step, check
    <2> QED
      BY ONLY <2>1, Verdict, TypeOK, CommandInv, CheckInv, c \in Cluster DEF CheckInv
  <1>15. ASSUME NEW c \in Cluster, Finish(c)
       PROVE  CheckInv'
    <2>1. /\ Step(c) /\ stage[c] = "picking" /\ todo[c] = {}
          /\ UNCHANGED <<manifest, loaded, cmd, seen, unread>>
          /\ \/ checking' = FALSE
             \/ /\ stage'[c] = "ended" /\ UNCHANGED checking
                /\ ~(checking /\ cmd.fix /\ ~(valid /\ Complete(c)))
      BY ONLY <1>15, stage \in [Cluster -> Stage], c \in Cluster
      DEF Finish, Returns, Moves, Step, files
    <2>2. CASE checking' = FALSE
      BY ONLY <2>2 DEF CheckInv
    <2>3. CASE /\ stage'[c] = "ended" /\ UNCHANGED checking
               /\ ~(checking /\ cmd.fix /\ ~(valid /\ Complete(c)))
      <3>1. ASSUME NEW t \in Service, checking, cmd.fix, loaded[c][t] # None, t \notin unread
            PROVE  Agrees(c, t)
        <4>1. valid /\ t \in seen
          BY ONLY <2>3, <3>1 DEF Complete
        <4>2. Done(c, t)
          BY ONLY <2>1 DEF Done, Serving
        <4> QED
          BY ONLY <2>1, <3>1, <4>1, <4>2, CheckInv, c \in Cluster DEF CheckInv
      <3>2. \A t \in Service : Agrees(c, t)' <=> Agrees(c, t)
        BY ONLY <2>1 DEF Agrees
      <3> QED
        BY ONLY <2>1, <2>3, <3>1, <3>2, Verdict, TypeOK, CommandInv, c \in Cluster DEF Serving
    <2> QED
      BY ONLY <2>1, <2>2, <2>3
  <1>16. ASSUME NEW c \in Cluster, Fail(c)
       PROVE  CheckInv'
    <2>1. /\ Step(c) /\ UNCHANGED checking /\ stage'[c] = "ended" /\ c \in failed'
      BY ONLY <1>16, stage \in [Cluster -> Stage], c \in Cluster
      DEF Fail, Returns, Moves, Step, check
    <2> QED
      BY ONLY <2>1, Verdict, TypeOK, CommandInv, c \in Cluster DEF Serving
  <1>17. ASSUME End
       PROVE  CheckInv'
    <2>1. checking' = FALSE
      BY <1>17, Exits DEF End
    <2> QED
      BY ONLY <2>1 DEF CheckInv
  <1>18. ASSUME NEW c \in Cluster, Fault(c)
       PROVE  CheckInv'
    <2>1. CASE FailsToLoad(c)
      <3>1. CASE stage'[c] = "failing"
        <4>1. UNCHANGED checking
          BY ONLY <2>1 DEF FailsToLoad, Loads, check
        <4> QED
          BY ONLY <1>18, <3>1, <4>1, Verdict, TypeOK, CommandInv, c \in Cluster DEF Serving
      <3>2. ASSUME NEW L \in SUBSET Listed(c), Loads(c, L)
            PROVE  CheckInv'
        <4>1. UNCHANGED checking /\ stage'[c] = "picking"
          BY ONLY <3>2, stage \in [Cluster -> Stage], c \in Cluster DEF Loads, Moves
        <4>2. L \subseteq Service
          BY DEF Listed
        <4>3. checking => todo'[c] = seen'
          BY ONLY <3>2, <4>2, Loading, TypeOK, c \in Cluster
        <4>4. checking => \A t \in seen' : ~Done(c, t)'
          BY ONLY <4>3 DEF Done
        <4> QED
          BY ONLY <1>18, <4>1, <4>4, Verdict, TypeOK, CommandInv, c \in Cluster
      <3> QED
        BY ONLY <2>1, <3>1, <3>2, stage \in [Cluster -> Stage], c \in Cluster
        DEF FailsToLoad, Moves
    <2>2. ASSUME NEW s \in Service, FailsToPick(c, s)
          PROVE  CheckInv'
      <3>1. /\ Takes(c, s) /\ stage[c] = "picking" /\ UNCHANGED valid
            /\ \/ stage'[c] = "picking" /\ unread' = unread \cup {s}
               \/ ~checking
        BY ONLY <2>2, stage \in [Cluster -> Stage], c \in Cluster DEF FailsToPick, Moves
      <3>2. /\ UNCHANGED <<manifest, loaded, checking, seen>>
            /\ todo'[c] = todo[c] \ {s}
        BY ONLY <3>1, TypeOK, c \in Cluster DEF Takes, TypeOK, files
      <3>3. ASSUME NEW t \in Service, checking, valid', t \in seen' \ unread', Done(c, t)'
            PROVE  Agrees(c, t)'
        <4>1. stage'[c] = "picking" /\ t \in seen \ unread /\ valid
          BY ONLY <3>1, <3>2, <3>3
        <4>2. Done(c, t)
          BY ONLY <3>1, <3>2, <3>3 DEF Done, Serving
        <4>3. Agrees(c, t)
          BY ONLY <3>1, <3>3, <4>1, <4>2, CheckInv, c \in Cluster DEF CheckInv
        <4> QED
          BY ONLY <3>2, <4>3 DEF Agrees
      <3> QED
        BY ONLY <1>18, <3>1, <3>2, <3>3, Verdict, TypeOK, CommandInv, c \in Cluster
    <2>3. CASE FailsToDecrypt(c)
      <3>1. /\ UNCHANGED <<manifest, loaded, todo, at, checking, valid, seen, unread>>
            /\ stage[c] \in Serving /\ stage'[c] = "comparing"
        BY ONLY <2>3, stage \in [Cluster -> Stage], c \in Cluster
        DEF FailsToDecrypt, Moves, Serving, files, check
      <3> QED
        BY ONLY <1>18, <3>1, Looking, TypeOK, CommandInv, CheckInv, c \in Cluster
    <2>4. CASE FailsToWrite(c)
      <3>1. UNCHANGED checking /\ stage[c] \in {"writing", "filling"}
        BY ONLY <2>4 DEF FailsToWrite, Moves, check
      <3> QED
        BY ONLY <1>18, <3>1, Verdict, TypeOK, CommandInv, CheckInv, c \in Cluster DEF CheckInv
    <2> QED
      BY <1>18, <2>1, <2>2, <2>3, <2>4 DEF Fault
  <1>19. ASSUME Die
       PROVE  CheckInv'
    <2>1. checking' = FALSE
      BY <1>19, Exits DEF Die
    <2> QED
      BY ONLY <2>1 DEF CheckInv
  <1>20. ASSUME NEW c \in Cluster, NEW S \in SUBSET Service, Render(c, S)
       PROVE  CheckInv'
    <2>1. stage' = stage /\ \A d \in Cluster : stage[d] = "idle"
      BY <1>20 DEF Render, CommandInv
    <2> QED
      BY ONLY <2>1 DEF CheckInv, Serving
  <1>21. CASE UNCHANGED vars
    <2>1. UNCHANGED <<manifest, stage, loaded, todo, at, cmd, failed, checking, valid, seen, unread>>
      BY <1>21
    <2> QED
      BY ONLY <2>1, CheckInv DEF CheckInv, Done, Agrees
  <1> QED
    BY ONLY [Next]_vars, <1>1, <1>2, <1>3, <1>4, <1>5, <1>6, <1>7, <1>8, <1>9, <1>10,
       <1>11, <1>12, <1>13, <1>14, <1>15, <1>16, <1>17, <1>18, <1>19, <1>20, <1>21
    DEF Next, Progress, Step

(* The same of its second phase, which writes all services.                *)
LEMMA Repair ==
  ASSUME TypeOK, CommandInv, NEW c \in Cluster, Step(c) \/ Fault(c),
         cmd.op = "validate" /\ ~checking' => stage'[c] \notin Serving \ {"writing", "filling"},
         cmd.op = "validate" /\ ~checking' /\ c \notin failed'
           /\ stage'[c] \in {"picking", "writing", "filling", "ended"}
           => \A s \in Service : loaded'[c][s] # None /\ Done(c, s)'
                                  => result'[c][s] \in {"updated", "error"},
         cmd.op = "validate" /\ c \notin failed' /\ stage'[c] = "ended"
           => \A s \in Service : s \notin todo'[c]
  PROVE  FixInv'
  <1>1. \A d \in Cluster : d # c => stage'[d] = stage[d]
    BY Frame
  <1>2. stage[c] # "idle" /\ cmd' = cmd
    BY Begun, Frame
  <1>3. cmd.op = "validate" => \A d \in Cluster : d # c => stage'[d] = "idle"
    BY <1>1, <1>2, Sole
  <1>4. SUFFICES ASSUME cmd.op = "validate", NEW d \in Cluster, NEW s \in Service
                 PROVE  /\ ~checking' => stage'[d] \notin Serving \ {"writing", "filling"}
                        /\ ~checking' /\ d \notin failed' /\ loaded'[d][s] # None /\ Done(d, s)'
                             /\ stage'[d] \in {"picking", "writing", "filling", "ended"}
                             => result'[d][s] \in {"updated", "error"}
                        /\ d \notin failed' /\ stage'[d] = "ended" => s \notin todo'[d]
    BY <1>2, Zenon DEF FixInv
  <1>5. CASE d # c
    BY ONLY <1>3, <1>4, <1>5 DEF Serving
  <1>6. CASE d = c
    BY <1>4, <1>6
  <1> QED
    BY <1>5, <1>6

LEMMA Resuming ==
  ASSUME TypeOK, CommandInv, NEW c \in Cluster, NEW listing \in SUBSET Service,
         Step(c) \/ Fault(c), Loads(c, listing), UNCHANGED checking, stage'[c] = "picking"
  PROVE  FixInv'
  <1>1. /\ loaded'[c] = config[Home(c)]
        /\ ~checking => todo'[c] = {s \in cmd.services : config[Home(c)][s] # None}
    BY Loading
  <1>2. ASSUME cmd.op = "validate", ~checking, NEW s \in Service, loaded'[c][s] # None
        PROVE  ~Done(c, s)'
    BY <1>1, <1>2 DEF CommandInv, Done
  <1> QED
    BY <1>2, Repair DEF Serving

LEMMA Overwriting ==
  ASSUME TypeOK, CommandInv, FixInv, NEW c \in Cluster, NEW s \in Service,
         Step(c) \/ Fault(c), Takes(c, s), stage[c] = "picking",
         stage'[c] \in {"reading", "writing", "picking"},
         ~checking /\ Forced => stage'[c] = "writing" /\ UNCHANGED result
  PROVE  FixInv'
  <1>1. /\ UNCHANGED <<loaded, checking, failed>>
        /\ todo'[c] = todo[c] \ {s} /\ at'[c] = s
    BY DEF Takes, TypeOK, shared
  <1>2. cmd.op = "validate" => Forced
    BY DEF Forced
  <1>3. ASSUME NEW t \in Service, stage'[c] = "writing", Done(c, t)'
        PROVE  Done(c, t)
    BY <1>1, <1>3 DEF Done, Serving
  <1>4. ASSUME NEW t \in Service, cmd.op = "validate", ~checking, c \notin failed,
               loaded[c][t] # None, Done(c, t)'
        PROVE  result'[c][t] \in {"updated", "error"}
    BY <1>2, <1>3, <1>4 DEF FixInv
  <1> QED
    BY <1>1, <1>2, <1>4, Repair DEF Serving

LEMMA Written ==
  ASSUME TypeOK, CommandInv, LocalInv, FixInv, NEW c \in Cluster, Step(c) \/ Fault(c),
         stage[c] \in {"writing", "filling"}, stage'[c] = "picking",
         UNCHANGED <<loaded, todo, at, failed, checking>>, NEW o \in {"updated", "error"},
         result' = [result EXCEPT ![c][at[c]] = o]
  PROVE  FixInv'
  <1>1. at[c] \in Service /\ o \in Outcome
    BY DEF LocalInv, Serving, Outcome
  <1>2. /\ result'[c][at[c]] = o
        /\ \A t \in Service : t # at[c] => result'[c][t] = result[c][t]
    BY <1>1, Reporting DEF TypeOK
  <1>3. ASSUME NEW t \in Service, t # at[c], Done(c, t)'
        PROVE  Done(c, t)
    BY <1>3 DEF Done
  <1>4. ASSUME NEW t \in Service, cmd.op = "validate", ~checking, c \notin failed,
               loaded[c][t] # None, Done(c, t)'
        PROVE  result'[c][t] \in {"updated", "error"}
    BY <1>2, <1>3, <1>4 DEF FixInv
  <1> QED
    BY <1>4, Repair DEF Serving

LEMMA Fixes ==
  ASSUME TypeOK, CommandInv, SlotInv, LocalInv, CheckInv, FixInv, [Next]_vars
  PROVE  FixInv'
  <1> USE DEF TypeOK, Stage, files, shared, check, local, counts, vars
  <1>1. ASSUME NEW c \in Cluster, NEW s \in Service, NEW v \in Secret \cup {None},
           Edit(c, s, v)
       PROVE  FixInv'
    <2>1. UNCHANGED <<stage, loaded, todo, at, cmd, failed, checking, result>>
      BY <1>1 DEF Edit
    <2> QED
      BY ONLY <2>1, FixInv DEF FixInv, Done
  <1>2. ASSUME NEW k \in Command, NEW targets \in SUBSET Cluster, Start(k, targets)
       PROVE  FixInv'
    <2>1. \A d \in Cluster : stage'[d] \in {"idle", "queued", "loading"}
      BY <1>2 DEF Start
    <2> QED
      BY ONLY <2>1 DEF FixInv, Serving
  <1>3. ASSUME NEW c \in Cluster, Spawn(c)
       PROVE  FixInv'
    <2>1. Step(c) /\ stage'[c] \in {"waiting"}
      BY ONLY <1>3, stage \in [Cluster -> Stage], c \in Cluster DEF Spawn, Moves, Step
    <2> QED
      BY ONLY <2>1, Repair, TypeOK, CommandInv, c \in Cluster DEF Serving
  <1>4. ASSUME Break
       PROVE  FixInv'
    <2>1. /\ UNCHANGED <<loaded, todo, at, cmd, failed, checking, result>>
          /\ \A d \in Cluster : stage'[d] \in {stage[d], "idle"}
      BY <1>4 DEF Break
    <2> QED
      BY ONLY <2>1, FixInv DEF FixInv, Done, Serving
  <1>5. ASSUME NEW c \in Cluster, Acquire(c)
       PROVE  FixInv'
    <2>1. Step(c) /\ stage'[c] \in {"checking"}
      BY ONLY <1>5, stage \in [Cluster -> Stage], c \in Cluster DEF Acquire, Moves, Step
    <2> QED
      BY ONLY <2>1, Repair, TypeOK, CommandInv, c \in Cluster DEF Serving
  <1>6. ASSUME NEW c \in Cluster, Check(c)
       PROVE  FixInv'
    <2>1. /\ Step(c) /\ stage'[c] \in {"loading", "ended"}
          /\ ~stopped => stage'[c] = "loading"
      BY ONLY <1>6, stage \in [Cluster -> Stage], c \in Cluster DEF Check, Proceed, Moves, Step
    <2>2. cmd.op = "validate" => ~stopped
      BY DEF CommandInv
    <2> QED
      BY ONLY <2>1, <2>2, Repair, TypeOK, CommandInv, c \in Cluster DEF Serving
  <1>7. ASSUME NEW c \in Cluster, Load(c)
       PROVE  FixInv'
    <2>1. /\ Step(c) /\ UNCHANGED checking /\ stage'[c] = "picking"
          /\ Loads(c, Listed(c)) /\ Listed(c) \subseteq Service
      BY ONLY <1>7, stage \in [Cluster -> Stage], c \in Cluster
      DEF Load, Loads, Listed, Moves, Step
    <2> QED
      BY ONLY <2>1, Resuming, TypeOK, CommandInv, c \in Cluster
  <1>8. ASSUME NEW c \in Cluster, NEW s \in Service, Pick(c, s)
       PROVE  FixInv'
    <2>1. /\ Step(c) /\ Takes(c, s) /\ stage[c] = "picking"
          /\ stage'[c] \in {"reading", "writing", "picking"}
          /\ ~checking /\ Forced => stage'[c] = "writing" /\ UNCHANGED result
      BY ONLY <1>8, stage \in [Cluster -> Stage], c \in Cluster 
      DEF Pick, Inspects, Updates, Moves, Step
    <2> QED
      BY ONLY <2>1, Overwriting, TypeOK, CommandInv, FixInv, c \in Cluster, s \in Service
  <1>9. ASSUME NEW c \in Cluster, GetEnv(c)
       PROVE  FixInv'
    <2>1. /\ Step(c) /\ UNCHANGED checking
          /\ stage[c] \in Serving \ {"writing", "filling"} /\ stage'[c] # "ended"
      BY ONLY <1>9, stage \in [Cluster -> Stage], c \in Cluster
      DEF GetEnv, Moves, Step, Serving, check
    <2> QED
      BY ONLY <2>1, Repair, TypeOK, CommandInv, FixInv, c \in Cluster DEF FixInv
  <1>10. ASSUME NEW c \in Cluster, SetEnv(c)
       PROVE  FixInv'
    <2>1. /\ Step(c) /\ UNCHANGED checking
          /\ stage[c] \in Serving \ {"writing", "filling"} /\ stage'[c] # "ended"
      BY ONLY <1>10, stage \in [Cluster -> Stage], c \in Cluster
      DEF SetEnv, Moves, Step, Serving, check
    <2> QED
      BY ONLY <2>1, Repair, TypeOK, CommandInv, FixInv, c \in Cluster DEF FixInv
  <1>11. ASSUME NEW c \in Cluster, Decrypt(c)
       PROVE  FixInv'
    <2>1. /\ Step(c) /\ UNCHANGED checking
          /\ stage[c] \in Serving \ {"writing", "filling"} /\ stage'[c] # "ended"
      BY ONLY <1>11, stage \in [Cluster -> Stage], c \in Cluster
      DEF Decrypt, Moves, Step, Serving, check
    <2> QED
      BY ONLY <2>1, Repair, TypeOK, CommandInv, FixInv, c \in Cluster DEF FixInv
  <1>12. ASSUME NEW c \in Cluster, Compare(c)
       PROVE  FixInv'
    <2>1. /\ Step(c) /\ UNCHANGED checking
          /\ stage[c] \in Serving \ {"writing", "filling"} /\ stage'[c] # "ended"
      BY ONLY <1>12, stage \in [Cluster -> Stage], c \in Cluster
      DEF Compare, Moves, Step, Serving, check
    <2> QED
      BY ONLY <2>1, Repair, TypeOK, CommandInv, FixInv, c \in Cluster DEF FixInv
  <1>13. ASSUME NEW c \in Cluster, Truncate(c)
       PROVE  FixInv'
    <2>1. /\ Step(c) /\ UNCHANGED <<loaded, todo, at, failed, checking, result>>
          /\ stage[c] = "writing" /\ stage'[c] = "filling"
      BY ONLY <1>13, stage \in [Cluster -> Stage], c \in Cluster
      DEF Truncate, Moves, Step, check, shared
    <2>2. \A t \in Service : Done(c, t)' <=> Done(c, t)
      BY ONLY <2>1 DEF Done, Serving
    <2>3. ASSUME NEW t \in Service, cmd.op = "validate", ~checking, c \notin failed,
                 loaded[c][t] # None, Done(c, t)'
          PROVE  result[c][t] \in {"updated", "error"}
      BY ONLY <2>1, <2>2, <2>3, FixInv, c \in Cluster DEF FixInv
    <2> QED
      BY ONLY <2>1, <2>3, Repair, TypeOK, CommandInv, c \in Cluster DEF Serving
  <1>14. ASSUME NEW c \in Cluster, Fill(c)
       PROVE  FixInv'
    <2>1. /\ Step(c) /\ UNCHANGED <<loaded, todo, at, failed, checking>>
          /\ stage[c] = "filling" /\ stage'[c] = "picking"
          /\ result' = [result EXCEPT ![c][at[c]] = "updated"]
      BY ONLY <1>14, stage \in [Cluster -> Stage], c \in Cluster
      DEF Fill, Moves, Step, check, shared
    <2> QED
      BY ONLY <2>1, Written, TypeOK, CommandInv, LocalInv, FixInv, c \in Cluster
  <1>15. ASSUME NEW c \in Cluster, Finish(c)
       PROVE  FixInv'
    <2>1. /\ Step(c) /\ stage[c] = "picking" /\ todo[c] = {}
          /\ UNCHANGED <<loaded, todo, at, failed, result>>
          /\ \/ stage'[c] = "loading"
             \/ stage'[c] = "ended" /\ UNCHANGED checking
      BY ONLY <1>15, stage \in [Cluster -> Stage], c \in Cluster
      DEF Finish, Returns, Moves, Step
    <2>2. ASSUME NEW t \in Service, cmd.op = "validate", ~checking, c \notin failed,
                 loaded[c][t] # None
          PROVE  result[c][t] \in {"updated", "error"}
      <3>1. Done(c, t)
        BY ONLY <2>1 DEF Done, Serving
      <3> QED
        BY ONLY <2>1, <2>2, <3>1, FixInv, c \in Cluster DEF FixInv
    <2> QED
      BY ONLY <2>1, <2>2, Repair, TypeOK, CommandInv, c \in Cluster DEF Serving
  <1>16. ASSUME NEW c \in Cluster, Fail(c)
       PROVE  FixInv'
    <2>1. Step(c) /\ stage'[c] = "ended" /\ c \in failed'
      BY ONLY <1>16, stage \in [Cluster -> Stage], c \in Cluster
      DEF Fail, Returns, Moves, Step
    <2> QED
      BY ONLY <2>1, Repair, TypeOK, CommandInv, c \in Cluster DEF Serving
  <1>17. ASSUME End
       PROVE  FixInv'
    <2>1. cmd'.op = "all"
      BY <1>17, Exits DEF End
    <2> QED
      BY ONLY <2>1 DEF FixInv
  <1>18. ASSUME NEW c \in Cluster, Fault(c)
       PROVE  FixInv'
    <2>1. CASE FailsToLoad(c)
      <3>1. CASE stage'[c] = "failing"
        BY ONLY <1>18, <3>1, Repair, TypeOK, CommandInv, c \in Cluster DEF Serving
      <3>2. ASSUME NEW L \in SUBSET Listed(c), Loads(c, L)
            PROVE  FixInv'
        <4>1. UNCHANGED checking /\ stage'[c] = "picking"
          BY ONLY <3>2, stage \in [Cluster -> Stage], c \in Cluster DEF Loads, Moves
        <4>2. L \subseteq Service
          BY DEF Listed
        <4> QED
          BY ONLY <1>18, <3>2, <4>1, <4>2, Resuming, TypeOK, CommandInv, c \in Cluster
      <3> QED
        BY ONLY <2>1, <3>1, <3>2, stage \in [Cluster -> Stage], c \in Cluster
        DEF FailsToLoad, Moves
    <2>2. ASSUME NEW s \in Service, FailsToPick(c, s)
          PROVE  FixInv'
      <3>1. /\ Takes(c, s) /\ stage[c] = "picking"
            /\ stage'[c] \in {"reading", "writing", "picking"}
            /\ ~checking /\ Forced => stage'[c] = "writing" /\ UNCHANGED result
        BY ONLY <2>2, stage \in [Cluster -> Stage], c \in Cluster DEF FailsToPick, Moves
      <3> QED
        BY ONLY <1>18, <3>1, Overwriting, TypeOK, CommandInv, FixInv, c \in Cluster,
           s \in Service
    <2>3. CASE FailsToDecrypt(c)
      <3>1. /\ UNCHANGED checking /\ stage[c] = "decrypting" /\ stage'[c] = "comparing"
        BY ONLY <2>3, stage \in [Cluster -> Stage], c \in Cluster
        DEF FailsToDecrypt, Moves, check
      <3> QED
        BY ONLY <1>18, <3>1, Repair, TypeOK, CommandInv, FixInv, c \in Cluster
        DEF FixInv, Serving
    <2>4. CASE FailsToWrite(c)
      <3>1. /\ UNCHANGED <<loaded, todo, at, failed, checking>>
            /\ stage[c] \in {"writing", "filling"} /\ stage'[c] = "picking"
            /\ result' = [result EXCEPT ![c][at[c]] = "error"]
        BY ONLY <2>4, stage \in [Cluster -> Stage], c \in Cluster
        DEF FailsToWrite, Moves, check, shared
      <3> QED
        BY ONLY <1>18, <3>1, Written, TypeOK, CommandInv, LocalInv, FixInv, c \in Cluster
    <2> QED
      BY <1>18, <2>1, <2>2, <2>3, <2>4 DEF Fault
  <1>19. ASSUME Die
       PROVE  FixInv'
    <2>1. cmd'.op = "all"
      BY <1>19, Exits DEF Die
    <2> QED
      BY ONLY <2>1 DEF FixInv
  <1>20. ASSUME NEW c \in Cluster, NEW S \in SUBSET Service, Render(c, S)
       PROVE  FixInv'
    <2>1. UNCHANGED <<stage, loaded, todo, at, cmd, failed, checking, result>>
      BY <1>20 DEF Render
    <2> QED
      BY ONLY <2>1, FixInv DEF FixInv, Done
  <1>21. CASE UNCHANGED vars
    <2>1. UNCHANGED <<stage, loaded, todo, at, cmd, failed, checking, result>>
      BY <1>21
    <2> QED
      BY ONLY <2>1, FixInv DEF FixInv, Done
  <1> QED
    BY ONLY [Next]_vars, <1>1, <1>2, <1>3, <1>4, <1>5, <1>6, <1>7, <1>8, <1>9, <1>10,
       <1>11, <1>12, <1>13, <1>14, <1>15, <1>16, <1>17, <1>18, <1>19, <1>20, <1>21
    DEF Next, Progress, Step

(* How a step of c changes the number of those that hold a slot.           *)
Counted(c) ==
  /\ Cardinality(Holding) \in Nat /\ Cardinality(Past) \in Nat
  /\ Cardinality(Past) <= Cardinality(Holding)
  /\ Cardinality(Holding') =
       Cardinality(Holding) + (IF stage'[c] \in Busy \cup {"checking"} THEN 1 ELSE 0)
                            - (IF stage[c] \in Busy \cup {"checking"} THEN 1 ELSE 0)
  /\ Cardinality(Past') =
       Cardinality(Past) + (IF stage'[c] \in Busy THEN 1 ELSE 0)
                         - (IF stage[c] \in Busy THEN 1 ELSE 0)

LEMMA Limit ==
  ASSUME TypeOK
  PROVE  cmd.limit \in Nat /\ slots \in Nat /\ late \in Nat /\ cmd.stop \in BOOLEAN
  BY BoundAssumption DEF TypeOK, Command

LEMMA Counting ==
  ASSUME TypeOK, NEW c \in Cluster,
         stage' \in [Cluster -> Stage], \A d \in Cluster : d # c => stage'[d] = stage[d]
  PROVE  Counted(c)
  <1>1. /\ IsFiniteSet(Holding) /\ IsFiniteSet(Past) /\ IsFiniteSet(Holding \ {c})
        /\ IsFiniteSet(Past \ {c}) /\ IsFiniteSet(Holding') /\ IsFiniteSet(Past')
    BY FS_Subset, SetAssumption DEF Holding, Past
  <1>2. /\ Cardinality(Holding) \in Nat /\ Cardinality(Past) \in Nat
        /\ Cardinality(Holding \ {c}) \in Nat /\ Cardinality(Past \ {c}) \in Nat
    BY <1>1, FS_CardinalityType
  <1>3. Cardinality(Past) <= Cardinality(Holding)
    BY <1>1, FS_Subset, Past \subseteq Holding DEF Past, Holding
  <1>4. /\ Holding' \ {c} = Holding \ {c} /\ Past' \ {c} = Past \ {c}
        /\ c \in Holding' <=> stage'[c] \in Busy \cup {"checking"}
        /\ c \in Holding <=> stage[c] \in Busy \cup {"checking"}
        /\ c \in Past' <=> stage'[c] \in Busy
        /\ c \in Past <=> stage[c] \in Busy
    BY DEF Holding, Past
  <1>5. ASSUME NEW S, IsFiniteSet(S)
        PROVE  Cardinality(S) = Cardinality(S \ {c}) + (IF c \in S THEN 1 ELSE 0)
    <2>1. Cardinality(S) \in Nat /\ Cardinality(S \ {c}) \in Nat
      BY <1>5, FS_CardinalityType, FS_Subset, S \ {c} \subseteq S
    <2>2. CASE c \in S
      <3>1. Cardinality(S \ {c}) = Cardinality(S) - 1
        BY <2>2, <1>5, FS_RemoveElement
      <3> QED
        BY <2>1, <2>2, <3>1
    <2>3. CASE c \notin S
      <3>1. S \ {c} = S
        BY <2>3
      <3> QED
        BY <2>1, <2>3, <3>1
    <2> QED
      BY <2>2, <2>3
  <1>6. /\ Cardinality(Holding) = Cardinality(Holding \ {c})
             + (IF c \in Holding THEN 1 ELSE 0)
        /\ Cardinality(Holding') = Cardinality(Holding \ {c})
             + (IF c \in Holding' THEN 1 ELSE 0)
        /\ Cardinality(Past) = Cardinality(Past \ {c}) + (IF c \in Past THEN 1 ELSE 0)
        /\ Cardinality(Past') = Cardinality(Past \ {c}) + (IF c \in Past' THEN 1 ELSE 0)
    BY <1>1, <1>4, <1>5
  <1> QED
    BY <1>2, <1>3, <1>4, <1>6 DEF Counted

LEMMA Slots ==
  ASSUME TypeOK, CommandInv, SlotInv, LateInv, LocalInv, [Next]_vars
  PROVE  SlotInv' /\ LateInv'
  <1> USE BoundAssumption
      DEF TypeOK, CommandInv, SlotInv, LateInv, Busy, Serving,
          Stage, files, shared, check, local, counts, vars
  <1>1. ASSUME NEW c \in Cluster, NEW s \in Service, NEW v \in Secret \cup {None},
           Edit(c, s, v)
       PROVE  SlotInv' /\ LateInv'
    BY <1>1 DEF Edit, Holding, Past
  <1>2. ASSUME NEW k \in Command, NEW targets \in SUBSET Cluster, Start(k, targets)
       PROVE  SlotInv' /\ LateInv'
    <2>1. /\ \A c \in Cluster : stage'[c] \in {"idle", "queued", "loading"}
          /\ k.op = "all" => \A c \in Cluster : stage'[c] # "loading"
          /\ k.op # "all" => \A c \in Cluster : stage'[c] # "queued"
          /\ cmd' = k /\ slots' = 0 /\ ~stopped' /\ late' = 0
      BY <1>2 DEF Start
    <2>2. k.op = "all" => Cardinality(Holding') = 0
      <3>1. k.op = "all" => Holding' = {}
        BY ONLY <2>1 DEF Holding, Busy, Serving
      <3> QED
        BY <3>1, FS_EmptySet
    <2>3. k.limit \in Nat
      BY BoundAssumption DEF Command
    <2> QED
      BY ONLY <2>1, <2>2, <2>3 DEF SlotInv, LateInv
  <1>3. ASSUME NEW c \in Cluster, Spawn(c)
       PROVE  SlotInv' /\ LateInv'
    <2>1. /\ stage[c] = "queued"
          /\ stage'[c] = "waiting" /\ UNCHANGED <<slots, stopped, late>>
      BY ONLY <1>3, stage \in [Cluster -> Stage], c \in Cluster
      DEF Spawn, Moves, Busy, Serving, shared
    <2>2. Step(c) \/ Fault(c)
      BY <1>3 DEF Step
    <2>3. /\ UNCHANGED cmd
          /\ \A d \in Cluster : d # c => stage'[d] = stage[d]
      BY <2>2, Frame
    <2>4. Counted(c)
      BY ONLY <2>2, Frame, Counting, TypeOK, c \in Cluster
    <2> QED
      BY ONLY <2>1, <2>3, <2>4, TypeOK, CommandInv, SlotInv, LateInv, Limit, c \in Cluster
      DEF SlotInv, LateInv, CommandInv, Counted, Busy, Serving
  <1>4. ASSUME Break
       PROVE  SlotInv' /\ LateInv'
    <2>1. Holding' = Holding /\ Past' = Past
      BY <1>4 DEF Break, Holding, Past
    <2>2. \A c \in Cluster : stage'[c] \in {stage[c], "idle"}
      BY <1>4 DEF Break
    <2> QED
      BY <1>4, <2>1, <2>2 DEF Break
  <1>5. ASSUME NEW c \in Cluster, Acquire(c)
       PROVE  SlotInv' /\ LateInv'
    <2>1. /\ stage[c] = "waiting"
          /\ stage'[c] = "checking" /\ slots < cmd.limit
          /\ slots' = slots + 1 /\ UNCHANGED <<stopped, late>>
      BY ONLY <1>5, stage \in [Cluster -> Stage], c \in Cluster
      DEF Acquire, Moves, Busy, Serving, shared
    <2>2. Step(c) \/ Fault(c)
      BY <1>5 DEF Step
    <2>3. /\ UNCHANGED cmd
          /\ \A d \in Cluster : d # c => stage'[d] = stage[d]
      BY <2>2, Frame
    <2>4. Counted(c)
      BY ONLY <2>2, Frame, Counting, TypeOK, c \in Cluster
    <2> QED
      BY ONLY <2>1, <2>3, <2>4, TypeOK, CommandInv, SlotInv, LateInv, Limit, c \in Cluster
      DEF SlotInv, LateInv, CommandInv, Counted, Busy, Serving
  <1>6. ASSUME NEW c \in Cluster, Check(c)
       PROVE  SlotInv' /\ LateInv'
    <2>1. /\ stage[c] = "checking"
          /\ UNCHANGED <<stopped, late>>
          /\ \/ ~stopped /\ stage'[c] = "loading" /\ UNCHANGED slots
             \/ stopped /\ stage'[c] = "ended" /\ slots' = slots - 1
      BY ONLY <1>6, stage \in [Cluster -> Stage], c \in Cluster
      DEF Check, Moves, Proceed, Release, Busy, Serving, shared
    <2>2. Step(c) \/ Fault(c)
      BY <1>6 DEF Step
    <2>3. /\ UNCHANGED cmd
          /\ \A d \in Cluster : d # c => stage'[d] = stage[d]
      BY <2>2, Frame
    <2>4. Counted(c)
      BY ONLY <2>2, Frame, Counting, TypeOK, c \in Cluster
    <2> QED
      BY ONLY <2>1, <2>3, <2>4, TypeOK, CommandInv, SlotInv, LateInv, Limit, c \in Cluster
      DEF SlotInv, LateInv, CommandInv, Counted, Busy, Serving
  <1>7. ASSUME NEW c \in Cluster, Load(c)
       PROVE  SlotInv' /\ LateInv'
    <2>1. /\ stage[c] = "loading"
          /\ stage'[c] = "picking" /\ UNCHANGED <<slots, stopped, late>>
      BY ONLY <1>7, stage \in [Cluster -> Stage], c \in Cluster
      DEF Load, Loads, Moves, Busy, Serving, shared
    <2>2. Step(c) \/ Fault(c)
      BY <1>7 DEF Step
    <2>3. /\ UNCHANGED cmd
          /\ \A d \in Cluster : d # c => stage'[d] = stage[d]
      BY <2>2, Frame
    <2>4. Counted(c)
      BY ONLY <2>2, Frame, Counting, TypeOK, c \in Cluster
    <2> QED
      BY ONLY <2>1, <2>3, <2>4, TypeOK, CommandInv, SlotInv, LateInv, Limit, c \in Cluster
      DEF SlotInv, LateInv, CommandInv, Counted, Busy, Serving
  <1>8. ASSUME NEW c \in Cluster, NEW s \in Service, Pick(c, s)
       PROVE  SlotInv' /\ LateInv'
    <2>1. /\ stage[c] = "picking"
          /\ stage'[c] \in Busy /\ UNCHANGED <<slots, stopped, late>>
      BY ONLY <1>8, stage \in [Cluster -> Stage], c \in Cluster
      DEF Pick, Inspects, Updates, Takes, Moves, Busy, Serving, shared
    <2>2. Step(c) \/ Fault(c)
      BY <1>8 DEF Step
    <2>3. /\ UNCHANGED cmd
          /\ \A d \in Cluster : d # c => stage'[d] = stage[d]
      BY <2>2, Frame
    <2>4. Counted(c)
      BY ONLY <2>2, Frame, Counting, TypeOK, c \in Cluster
    <2> QED
      BY ONLY <2>1, <2>3, <2>4, TypeOK, CommandInv, SlotInv, LateInv, Limit, c \in Cluster
      DEF SlotInv, LateInv, CommandInv, Counted, Busy, Serving
  <1>9. ASSUME NEW c \in Cluster, GetEnv(c)
       PROVE  SlotInv' /\ LateInv'
    <2>1. /\ stage[c] = "reading"
          /\ stage'[c] = "setting" /\ UNCHANGED <<slots, stopped, late>>
      BY ONLY <1>9, stage \in [Cluster -> Stage], c \in Cluster
      DEF GetEnv, Moves, Busy, Serving, shared
    <2>2. Step(c) \/ Fault(c)
      BY <1>9 DEF Step
    <2>3. /\ UNCHANGED cmd
          /\ \A d \in Cluster : d # c => stage'[d] = stage[d]
      BY <2>2, Frame
    <2>4. Counted(c)
      BY ONLY <2>2, Frame, Counting, TypeOK, c \in Cluster
    <2> QED
      BY ONLY <2>1, <2>3, <2>4, TypeOK, CommandInv, SlotInv, LateInv, Limit, c \in Cluster
      DEF SlotInv, LateInv, CommandInv, Counted, Busy, Serving
  <1>10. ASSUME NEW c \in Cluster, SetEnv(c)
       PROVE  SlotInv' /\ LateInv'
    <2>1. /\ stage[c] = "setting"
          /\ stage'[c] = "decrypting" /\ UNCHANGED <<slots, stopped, late>>
      BY ONLY <1>10, stage \in [Cluster -> Stage], c \in Cluster
      DEF SetEnv, Moves, Busy, Serving, shared
    <2>2. Step(c) \/ Fault(c)
      BY <1>10 DEF Step
    <2>3. /\ UNCHANGED cmd
          /\ \A d \in Cluster : d # c => stage'[d] = stage[d]
      BY <2>2, Frame
    <2>4. Counted(c)
      BY ONLY <2>2, Frame, Counting, TypeOK, c \in Cluster
    <2> QED
      BY ONLY <2>1, <2>3, <2>4, TypeOK, CommandInv, SlotInv, LateInv, Limit, c \in Cluster
      DEF SlotInv, LateInv, CommandInv, Counted, Busy, Serving
  <1>11. ASSUME NEW c \in Cluster, Decrypt(c)
       PROVE  SlotInv' /\ LateInv'
    <2>1. /\ stage[c] = "decrypting"
          /\ stage'[c] = "comparing" /\ UNCHANGED <<slots, stopped, late>>
      BY ONLY <1>11, stage \in [Cluster -> Stage], c \in Cluster
      DEF Decrypt, Moves, Busy, Serving, shared
    <2>2. Step(c) \/ Fault(c)
      BY <1>11 DEF Step
    <2>3. /\ UNCHANGED cmd
          /\ \A d \in Cluster : d # c => stage'[d] = stage[d]
      BY <2>2, Frame
    <2>4. Counted(c)
      BY ONLY <2>2, Frame, Counting, TypeOK, c \in Cluster
    <2> QED
      BY ONLY <2>1, <2>3, <2>4, TypeOK, CommandInv, SlotInv, LateInv, Limit, c \in Cluster
      DEF SlotInv, LateInv, CommandInv, Counted, Busy, Serving
  <1>12. ASSUME NEW c \in Cluster, Compare(c)
       PROVE  SlotInv' /\ LateInv'
    <2>1. /\ stage[c] = "comparing"
          /\ stage'[c] \in Busy /\ UNCHANGED <<slots, stopped, late>>
      BY ONLY <1>12, stage \in [Cluster -> Stage], c \in Cluster
      DEF Compare, Moves, Busy, Serving, shared
    <2>2. Step(c) \/ Fault(c)
      BY <1>12 DEF Step
    <2>3. /\ UNCHANGED cmd
          /\ \A d \in Cluster : d # c => stage'[d] = stage[d]
      BY <2>2, Frame
    <2>4. Counted(c)
      BY ONLY <2>2, Frame, Counting, TypeOK, c \in Cluster
    <2> QED
      BY ONLY <2>1, <2>3, <2>4, TypeOK, CommandInv, SlotInv, LateInv, Limit, c \in Cluster
      DEF SlotInv, LateInv, CommandInv, Counted, Busy, Serving
  <1>13. ASSUME NEW c \in Cluster, Truncate(c)
       PROVE  SlotInv' /\ LateInv'
    <2>1. /\ stage[c] = "writing"
          /\ stage'[c] = "filling" /\ UNCHANGED <<slots, stopped, late>>
      BY ONLY <1>13, stage \in [Cluster -> Stage], c \in Cluster
      DEF Truncate, Moves, Busy, Serving, shared
    <2>2. Step(c) \/ Fault(c)
      BY <1>13 DEF Step
    <2>3. /\ UNCHANGED cmd
          /\ \A d \in Cluster : d # c => stage'[d] = stage[d]
      BY <2>2, Frame
    <2>4. Counted(c)
      BY ONLY <2>2, Frame, Counting, TypeOK, c \in Cluster
    <2> QED
      BY ONLY <2>1, <2>3, <2>4, TypeOK, CommandInv, SlotInv, LateInv, Limit, c \in Cluster
      DEF SlotInv, LateInv, CommandInv, Counted, Busy, Serving
  <1>14. ASSUME NEW c \in Cluster, Fill(c)
       PROVE  SlotInv' /\ LateInv'
    <2>1. /\ stage[c] = "filling"
          /\ stage'[c] = "picking" /\ UNCHANGED <<slots, stopped, late>>
      BY ONLY <1>14, stage \in [Cluster -> Stage], c \in Cluster
      DEF Fill, Moves, Busy, Serving, shared
    <2>2. Step(c) \/ Fault(c)
      BY <1>14 DEF Step
    <2>3. /\ UNCHANGED cmd
          /\ \A d \in Cluster : d # c => stage'[d] = stage[d]
      BY <2>2, Frame
    <2>4. Counted(c)
      BY ONLY <2>2, Frame, Counting, TypeOK, c \in Cluster
    <2> QED
      BY ONLY <2>1, <2>3, <2>4, TypeOK, CommandInv, SlotInv, LateInv, Limit, c \in Cluster
      DEF SlotInv, LateInv, CommandInv, Counted, Busy, Serving
  <1>15. ASSUME NEW c \in Cluster, Finish(c)
       PROVE  SlotInv' /\ LateInv'
    <2>1. /\ stage[c] = "picking"
          /\ UNCHANGED stopped
          /\ \/ stage'[c] = "loading" /\ UNCHANGED <<slots, late>>
             \/ /\ stage'[c] = "ended"
                /\ slots' = IF cmd.op = "all" THEN slots - 1 ELSE slots
                /\ late' = IF stopped THEN late + 1 ELSE late
      BY ONLY <1>15, stage \in [Cluster -> Stage], c \in Cluster
      DEF Finish, Moves, Returns, Release, Busy, Serving, shared
    <2>2. Step(c) \/ Fault(c)
      BY <1>15 DEF Step
    <2>3. /\ UNCHANGED cmd
          /\ \A d \in Cluster : d # c => stage'[d] = stage[d]
      BY <2>2, Frame
    <2>4. Counted(c)
      BY ONLY <2>2, Frame, Counting, TypeOK, c \in Cluster
    <2> QED
      BY ONLY <2>1, <2>3, <2>4, TypeOK, CommandInv, SlotInv, LateInv, Limit, c \in Cluster
      DEF SlotInv, LateInv, CommandInv, Counted, Busy, Serving
  <1>16. ASSUME NEW c \in Cluster, Fail(c)
       PROVE  SlotInv' /\ LateInv'
    <2>1. /\ stage[c] = "failing"
          /\ stage'[c] = "ended" /\ stopped' = (stopped \/ cmd.stop)
          /\ slots' = IF cmd.op = "all" THEN slots - 1 ELSE slots
          /\ late' = IF stopped THEN late + 1 ELSE late
      BY ONLY <1>16, stage \in [Cluster -> Stage], c \in Cluster
      DEF Fail, Moves, Returns, Release, Busy, Serving, shared
    <2>2. Step(c) \/ Fault(c)
      BY <1>16 DEF Step
    <2>3. /\ UNCHANGED cmd
          /\ \A d \in Cluster : d # c => stage'[d] = stage[d]
      BY <2>2, Frame
    <2>4. Counted(c)
      BY ONLY <2>2, Frame, Counting, TypeOK, c \in Cluster
    <2> QED
      BY ONLY <2>1, <2>3, <2>4, TypeOK, CommandInv, SlotInv, LateInv, Limit, c \in Cluster
      DEF SlotInv, LateInv, CommandInv, Counted, Busy, Serving
  <1>17. ASSUME End
       PROVE  SlotInv' /\ LateInv'
    <2>1. Exit
      BY <1>17 DEF End
    <2>2. Holding' = {}
      BY <2>1, Exits DEF Holding
    <2> QED
      BY <2>1, <2>2, Exits, FS_EmptySet, BoundAssumption
  <1>18. ASSUME NEW c \in Cluster, Fault(c)
       PROVE  SlotInv' /\ LateInv'
    <2>1. /\ stage[c] \in Busy
          /\ stage'[c] \in Busy /\ UNCHANGED <<slots, stopped, late>>
      BY ONLY <1>18, stage \in [Cluster -> Stage], c \in Cluster
      DEF Fault, FailsToLoad, FailsToPick, FailsToDecrypt, FailsToWrite, Loads, Takes,
         Moves, Busy, Serving, shared
    <2>2. Step(c) \/ Fault(c)
      BY <1>18 DEF Step
    <2>3. /\ UNCHANGED cmd
          /\ \A d \in Cluster : d # c => stage'[d] = stage[d]
      BY <2>2, Frame
    <2>4. Counted(c)
      BY ONLY <2>2, Frame, Counting, TypeOK, c \in Cluster
    <2> QED
      BY ONLY <2>1, <2>3, <2>4, TypeOK, CommandInv, SlotInv, LateInv, Limit, c \in Cluster
      DEF SlotInv, LateInv, CommandInv, Counted, Busy, Serving
  <1>19. ASSUME Die
       PROVE  SlotInv' /\ LateInv'
    <2>1. Exit
      BY <1>19 DEF Die
    <2>2. Holding' = {}
      BY <2>1, Exits DEF Holding
    <2> QED
      BY <2>1, <2>2, Exits, FS_EmptySet, BoundAssumption
  <1>20. ASSUME NEW c \in Cluster, NEW S \in SUBSET Service, Render(c, S)
       PROVE  SlotInv' /\ LateInv'
    BY <1>20 DEF Render, Holding, Past
  <1>21. CASE UNCHANGED vars
    BY <1>21 DEF Holding, Past
  <1> QED
    BY <1>1, <1>2, <1>3, <1>4, <1>5, <1>6, <1>7, <1>8, <1>9, <1>10,
       <1>11, <1>12, <1>13, <1>14, <1>15, <1>16, <1>17, <1>18, <1>19, <1>20, <1>21
       DEF Next, Progress, Step

------------------------------------------------------------------------------
LEMMA Initially ==
  ASSUME Init
  PROVE  IInv
  <1> USE SetAssumption, BoundAssumption DEF Init, Blank, Plain
  <1>1. Plain \in Command
    BY DEF Command
  <1>2. TypeOK
    <2>1. config \in [Cluster -> [Service -> Secret \cup {None}]]
      OBVIOUS
    <2>2. manifest \in [Cluster -> [Service -> Secret \cup {None, Empty, Torn}]]
      OBVIOUS
    <2>3. /\ loaded \in [Cluster -> [Service -> Secret \cup {None}]]
          /\ todo \in [Cluster -> SUBSET Service] /\ got \in [Cluster -> Secret \cup {Torn}]
          /\ at \in [Cluster -> Service \cup {None}]
          /\ saved \in [Cluster -> Cluster \cup {None}]
      OBVIOUS
    <2>4. /\ result \in [Cluster -> [Service -> Outcome]] /\ stage \in [Cluster -> Stage]
      BY DEF Outcome, Stage
    <2>5. /\ cmd \in Command /\ found \subseteq Cluster /\ failed \subseteq Cluster
          /\ named \in [Cluster -> Cluster] /\ seen \subseteq Service /\ unread \subseteq Service
      BY <1>1 DEF Naming
    <2>6. /\ slots \in 0..Concurrency /\ runs \in 0..MaxRuns /\ edits \in 0..MaxEdits
          /\ faults \in 0..MaxFaults /\ late \in Nat
      OBVIOUS
    <2>7. /\ running \in BOOLEAN /\ stopped \in BOOLEAN /\ checking \in BOOLEAN
          /\ valid \in BOOLEAN /\ env \in Cluster \cup {None}
      OBVIOUS
    <2> QED
      BY ONLY <2>1, <2>2, <2>3, <2>4, <2>5, <2>6, <2>7 DEF TypeOK
  <1>3. CommandInv /\ LocalInv /\ ResultInv
    BY DEF CommandInv, LocalInv, ResultInv, Serving, Done
  <1>4. CheckInv /\ FixInv
    BY DEF CheckInv, FixInv, Serving
  <1>5. SlotInv /\ LateInv
    <2>1. Holding = {}
      BY DEF Holding, Busy, Serving
    <2> QED
      BY <2>1, FS_EmptySet DEF SlotInv, LateInv
  <1> QED
    BY <1>2, <1>3, <1>4, <1>5 DEF IInv

LEMMA Preserved ==
  ASSUME IInv, [Next]_vars
  PROVE  IInv'
  <1>1. /\ CommandInv' /\ SlotInv' /\ LateInv' /\ LocalInv'
        /\ ResultInv' /\ CheckInv' /\ FixInv' /\ Typed'
    BY Typing, Commands, Locals, Results, Checks, Fixes, Slots DEF IInv
  <1>2. slots' \in 0..Concurrency
    <2>1. cmd'.limit \in 1..Concurrency
      BY <1>1 DEF Typed, Command
    <2>2. Cardinality(Holding') \in Nat
      <3>1. IsFiniteSet(Holding')
        BY FS_Subset, SetAssumption DEF Holding
      <3> QED
        BY <3>1, FS_CardinalityType
    <2> QED
      BY <1>1, <2>1, <2>2, BoundAssumption DEF SlotInv
  <1> QED
    BY <1>1, <1>2 DEF IInv, Typed, TypeOK

THEOREM Invariance == Spec => []IInv
  BY Initially, Preserved, PTL DEF Spec

(* The variables keep their types; no goroutine releases a slot that it    *)
(* does not hold (defer in runMultiClusterSync).                           *)
THEOREM TypeCorrect == Spec => []TypeOK
  <1>1. IInv => TypeOK
    BY DEF IInv
  <1> QED
    BY <1>1, Invariance, PTL

(* --stop-on-error: after a cluster has failed, fewer than --concurrency   *)
(* others are synchronised (the second look at stopFlag).                  *)
THEOREM StopCorrect == Spec => []StopsEarly
  <1>1. IInv => StopsEarly
    <2>1. ASSUME IInv
          PROVE  Cardinality(Past) \in Nat /\ cmd.limit \in 1..Concurrency /\ late \in Nat
      <3>1. IsFiniteSet(Past)
        BY FS_Subset, SetAssumption DEF Past
      <3> QED
        BY <2>1, <3>1, FS_CardinalityType DEF IInv, TypeOK, Command
    <2> QED
      BY <2>1, BoundAssumption DEF IInv, LateInv, StopsEarly
  <1> QED
    BY <1>1, Invariance, PTL

(* What SyncSecrets reports as updated, or as unchanged after comparing,   *)
(* is true, whatever other goroutines do to SOPS_AGE_KEY_FILE and to the   *)
(* manifests of other clusters, as long as no other goroutine has begun    *)
(* with the same cluster (two of one name, discoverClusters).              *)
THEOREM ReportCorrect == Spec => []ReportTrue
  <1>1. IInv => ReportTrue
    BY DEF IInv, ResultInv, ReportTrue, Lonely, home
  <1> QED
    BY <1>1, Invariance, PTL

(* After validate --fix the manifests of all services with secrets agree   *)
(* with them as far as the next validation looks, but for those that could *)
(* not be written and those that validate passed over for it could not     *)
(* read them (isManifestEncrypted) and found nothing else to repair.       *)
THEOREM FixCorrect == Spec => []FixRepairs
  <1>1. ASSUME IInv
        PROVE  FixRepairs
    <2>1. SUFFICES ASSUME NEW c \in Cluster, NEW s \in Service,
                          stage[c] = "ended", cmd.fix, c \notin failed,
                          loaded[c][s] # None, result[c][s] # "error",
                          checking => s \notin unread
                   PROVE  /\ manifest[c][s] \in Secret
                          /\ Digest(manifest[c][s]) = Digest(loaded[c][s])
      BY DEF FixRepairs
    <2>2. CASE checking
      BY <1>1, <2>1, <2>2 DEF IInv, CheckInv, Agrees
    <2>3. CASE ~checking
      <3>1. cmd.op = "validate" /\ loaded[c][s] \in Secret
        BY <1>1, <2>1 DEF IInv, TypeOK, CommandInv
      <3>2. s \notin todo[c]
        BY <1>1, <2>1, <3>1 DEF IInv, FixInv
      <3>3. result[c][s] = "updated"
        BY <1>1, <2>1, <2>3, <3>1, <3>2 DEF IInv, FixInv, Done, Serving
      <3>4. c \in Lonely /\ home[c] = c
        BY <1>1, <2>1, <3>1, Sole DEF IInv
      <3> QED
        BY <1>1, <2>1, <3>1, <3>3, <3>4 DEF IInv, ResultInv
    <2> QED
      BY <2>2, <2>3
  <1> QED
    BY <1>1, Invariance, PTL
------------------------------------------------------------------------------
(* The refinement of WorkerPool.                                           *)

Ended == {c \in Cluster : stage[c] = "ended"}

LEMMA WorkingIsPast ==
  ASSUME stage \in [Cluster -> Stage], stage' \in [Cluster -> Stage]
  PROVE  Working = Past /\ Working' = Past'
  <1>1. \A t \in Stage : t \notin {"idle", "queued", "waiting", "checking", "ended"}
                         <=> t \in Busy
    BY DEF Stage, Busy, Serving
  <1> QED
    BY <1>1 DEF Working, Past

LEMMA SameCardinality ==
  ASSUME NEW S
  PROVE  Pool!Cardinality(S) = Cardinality(S)
  BY DEF Pool!Cardinality, Cardinality

LEMMA Staying ==
  ASSUME TypeOK, NEW c \in Cluster, Step(c) \/ Fault(c), UNCHANGED stopped,
         \/ stage[c] \in Busy /\ stage'[c] \in Busy
         \/ {stage[c], stage'[c]} \subseteq {"queued", "waiting", "checking"}
  PROVE  UNCHANGED Pool!vars
  <1>1. /\ stage \in [Cluster -> Stage] /\ stage' \in [Cluster -> Stage] /\ UNCHANGED cmd
        /\ \A d \in Cluster : d # c => stage'[d] = stage[d]
    BY Frame DEF TypeOK
  <1>2. UNCHANGED <<Past, Ended>>
    BY <1>1 DEF Past, Ended, Busy, Serving
  <1> QED
    BY <1>1, <1>2, WorkingIsPast DEF Pool!vars, Ended

(* One that goes on with a slot still leaves the limit, since all that     *)
(* have begun hold slots too.                                              *)
LEMMA Beginning ==
  ASSUME IInv, NEW c \in Cluster, Check(c)
  PROVE  Pool!Begin(c) \/ Pool!TurnAway(c)
  <1>1. /\ stage \in [Cluster -> Stage] /\ cmd.limit \in 1..Concurrency
        /\ stage[c] = "checking" /\ UNCHANGED stopped
        /\ \/ ~stopped /\ stage'[c] = "loading"
           \/ stopped /\ stage'[c] = "ended"
    BY DEF IInv, TypeOK, Command, Check, Proceed, Moves
  <1>2. /\ stage' \in [Cluster -> Stage] /\ UNCHANGED cmd
        /\ \A d \in Cluster : d # c => stage'[d] = stage[d]
    BY Frame DEF IInv, Step
  <1>3. Working = Past /\ Working' = Past' /\ c \notin Past \cup Ended
    BY <1>1, <1>2, WorkingIsPast DEF Past, Ended, Busy, Serving
  <1>4. Cardinality(Past) < cmd.limit
    <2>1. slots = Cardinality(Holding) /\ slots <= cmd.limit
      BY <1>1 DEF IInv, SlotInv
    <2>2. IsFiniteSet(Holding) /\ IsFiniteSet(Past) /\ Past \cup {c} \subseteq Holding
      BY <1>1, FS_Subset, SetAssumption DEF Holding, Past
    <2>3. /\ Cardinality(Past \cup {c}) = Cardinality(Past) + 1
          /\ Cardinality(Past \cup {c}) <= Cardinality(Holding)
      BY <1>3, <2>2, FS_AddElement, FS_Subset
    <2>4. Cardinality(Past) \in Nat /\ Cardinality(Holding) \in Nat
      BY <2>2, FS_CardinalityType
    <2> QED
      BY <1>1, <2>1, <2>3, <2>4, BoundAssumption
  <1>5. CASE ~stopped
    <2>1. Past' = Past \cup {c} /\ Ended' = Ended
      BY <1>1, <1>2, <1>5 DEF Past, Ended, Busy, Serving
    <2> QED
      BY <1>1, <1>2, <1>3, <1>4, <1>5, <2>1, SameCardinality DEF Pool!Begin, Ended
  <1>6. CASE stopped
    <2>1. Past' = Past /\ Ended' = Ended \cup {c}
      BY <1>1, <1>2, <1>6 DEF Past, Ended, Busy, Serving
    <2> QED
      BY <1>1, <1>2, <1>3, <1>6, <2>1 DEF Pool!TurnAway, Ended
  <1> QED
    BY <1>5, <1>6

LEMMA Returning ==
  ASSUME TypeOK, NEW c \in Cluster, Step(c), stage[c] \in Busy, stage'[c] = "ended",
         stopped \in {FALSE, stopped'}
  PROVE  Pool!Finish(c)
  <1>1. /\ stage \in [Cluster -> Stage] /\ stage' \in [Cluster -> Stage] /\ UNCHANGED cmd
        /\ \A d \in Cluster : d # c => stage'[d] = stage[d]
    BY Frame DEF TypeOK
  <1>2. c \in Past /\ Past' = Past \ {c} /\ Ended' = Ended \cup {c}
    BY <1>1 DEF Past, Ended, Busy, Serving
  <1> QED
    BY <1>1, <1>2, WorkingIsPast DEF Pool!Finish, Ended

LEMMA Opening ==
  ASSUME IInv, NEW k \in Command, NEW targets \in SUBSET Cluster, Start(k, targets)
  PROVE  Pool!Open
  <1>1. /\ \A c \in Cluster : stage[c] = "idle"
        /\ stage' = [c \in Cluster |-> IF c \notin targets THEN "idle"
                                       ELSE IF k.op = "all" THEN "queued" ELSE "loading"]
        /\ k.op # "all" => Cardinality(targets) = 1
        /\ cmd' = k /\ k.limit \in 1..Concurrency /\ UNCHANGED stopped
    BY DEF IInv, CommandInv, Start, Command, shared
  <1>2. /\ Working = {} /\ Ended = {} /\ Ended' = {}
        /\ Working' = IF k.op = "all" THEN {} ELSE targets
    BY <1>1 DEF Working, Ended
  <1>3. Working' \subseteq Cluster /\ Cardinality(Working') <= 1
    BY <1>1, <1>2, FS_EmptySet
  <1> QED
    BY <1>1, <1>2, <1>3, SameCardinality DEF Pool!Open, Ended

LEMMA Closing ==
  ASSUME Exit
  PROVE  Pool!Close
  <1>1. /\ stage' = [c \in Cluster |-> "idle"] /\ stopped' = FALSE
        /\ cmd'.limit \in 1..Concurrency
    BY Exits, BoundAssumption
  <1>2. Working' = {} /\ Ended' = {}
    BY <1>1 DEF Working, Ended
  <1> QED
    BY <1>1, <1>2 DEF Pool!Close, Ended

LEMMA PoolStep ==
  ASSUME IInv, [Next]_vars
  PROVE  [Pool!Next]_(Pool!vars)
  <1> USE DEF IInv, TypeOK, files, shared, check, local, counts, vars
  <1>1. ASSUME NEW c \in Cluster, NEW s \in Service, NEW v \in Secret \cup {None},
           Edit(c, s, v)
       PROVE  UNCHANGED Pool!vars
    BY <1>1 DEF Edit, Pool!vars, Working
  <1>2. ASSUME NEW k \in Command, NEW targets \in SUBSET Cluster, Start(k, targets)
       PROVE  Pool!Open
    BY <1>2, Opening
  <1>3. ASSUME NEW c \in Cluster, Spawn(c)
       PROVE  UNCHANGED Pool!vars
    <2>1. {stage[c], stage'[c]} \subseteq {"queued", "waiting", "checking"} /\ UNCHANGED stopped
      BY <1>3 DEF Spawn, Moves
    <2> QED
      BY <1>3, <2>1, Staying DEF Step
  <1>4. ASSUME Break
       PROVE  UNCHANGED Pool!vars
    <2>1. UNCHANGED <<Working, Ended>>
      BY <1>4 DEF Break, Working, Ended
    <2> QED
      BY <1>4, <2>1 DEF Break, Pool!vars, Ended
  <1>5. ASSUME NEW c \in Cluster, Acquire(c)
       PROVE  UNCHANGED Pool!vars
    <2>1. {stage[c], stage'[c]} \subseteq {"queued", "waiting", "checking"} /\ UNCHANGED stopped
      BY <1>5 DEF Acquire, Moves
    <2> QED
      BY <1>5, <2>1, Staying DEF Step
  <1>6. ASSUME NEW c \in Cluster, Check(c)
       PROVE  Pool!Begin(c) \/ Pool!TurnAway(c)
    BY <1>6, Beginning
  <1>7. ASSUME NEW c \in Cluster, Load(c)
       PROVE  UNCHANGED Pool!vars
    <2>1. stage[c] \in Busy /\ stage'[c] \in Busy /\ UNCHANGED stopped
      BY ONLY <1>7, stage \in [Cluster -> Stage], c \in Cluster
      DEF Load, Loads, Moves, Busy, Serving, shared
    <2> QED
      BY <1>7, <2>1, Staying DEF Step
  <1>8. ASSUME NEW c \in Cluster, NEW s \in Service, Pick(c, s)
       PROVE  UNCHANGED Pool!vars
    <2>1. stage[c] \in Busy /\ stage'[c] \in Busy /\ UNCHANGED stopped
      BY ONLY <1>8, stage \in [Cluster -> Stage], c \in Cluster
      DEF Pick, Inspects, Updates, Takes, Moves, Busy, Serving, shared
    <2> QED
      BY <1>8, <2>1, Staying DEF Step
  <1>9. ASSUME NEW c \in Cluster, GetEnv(c)
       PROVE  UNCHANGED Pool!vars
    <2>1. stage[c] \in Busy /\ stage'[c] \in Busy /\ UNCHANGED stopped
      BY ONLY <1>9, stage \in [Cluster -> Stage], c \in Cluster
      DEF GetEnv, Moves, Busy, Serving, shared
    <2> QED
      BY <1>9, <2>1, Staying DEF Step
  <1>10. ASSUME NEW c \in Cluster, SetEnv(c)
       PROVE  UNCHANGED Pool!vars
    <2>1. stage[c] \in Busy /\ stage'[c] \in Busy /\ UNCHANGED stopped
      BY ONLY <1>10, stage \in [Cluster -> Stage], c \in Cluster
      DEF SetEnv, Moves, Busy, Serving, shared
    <2> QED
      BY <1>10, <2>1, Staying DEF Step
  <1>11. ASSUME NEW c \in Cluster, Decrypt(c)
       PROVE  UNCHANGED Pool!vars
    <2>1. stage[c] \in Busy /\ stage'[c] \in Busy /\ UNCHANGED stopped
      BY ONLY <1>11, stage \in [Cluster -> Stage], c \in Cluster
      DEF Decrypt, Moves, Busy, Serving, shared
    <2> QED
      BY <1>11, <2>1, Staying DEF Step
  <1>12. ASSUME NEW c \in Cluster, Compare(c)
       PROVE  UNCHANGED Pool!vars
    <2>1. stage[c] \in Busy /\ stage'[c] \in Busy /\ UNCHANGED stopped
      BY ONLY <1>12, stage \in [Cluster -> Stage], c \in Cluster
      DEF Compare, Moves, Busy, Serving, shared
    <2> QED
      BY <1>12, <2>1, Staying DEF Step
  <1>13. ASSUME NEW c \in Cluster, Truncate(c)
       PROVE  UNCHANGED Pool!vars
    <2>1. stage[c] \in Busy /\ stage'[c] \in Busy /\ UNCHANGED stopped
      BY ONLY <1>13, stage \in [Cluster -> Stage], c \in Cluster
      DEF Truncate, Moves, Busy, Serving, shared
    <2> QED
      BY <1>13, <2>1, Staying DEF Step
  <1>14. ASSUME NEW c \in Cluster, Fill(c)
       PROVE  UNCHANGED Pool!vars
    <2>1. stage[c] \in Busy /\ stage'[c] \in Busy /\ UNCHANGED stopped
      BY ONLY <1>14, stage \in [Cluster -> Stage], c \in Cluster
      DEF Fill, Moves, Busy, Serving, shared
    <2> QED
      BY <1>14, <2>1, Staying DEF Step
  <1>15. ASSUME NEW c \in Cluster, Finish(c)
       PROVE  UNCHANGED Pool!vars \/ Pool!Finish(c)
    <2>1. /\ stage[c] \in Busy /\ UNCHANGED stopped
          /\ stage'[c] \in Busy \/ stage'[c] = "ended"
      BY ONLY <1>15, stage \in [Cluster -> Stage], c \in Cluster
      DEF Finish, Returns, Moves, Busy, Serving
    <2> QED
      BY <1>15, <2>1, Staying, Returning DEF Step
  <1>16. ASSUME NEW c \in Cluster, Fail(c)
       PROVE  Pool!Finish(c)
    <2>1. stage[c] \in Busy /\ stage'[c] = "ended" /\ stopped' = (stopped \/ cmd.stop)
      BY ONLY <1>16, stage \in [Cluster -> Stage], c \in Cluster
      DEF Fail, Returns, Moves, Busy, Serving
    <2>2. stopped \in {FALSE, stopped'}
      BY ONLY <2>1, stopped \in BOOLEAN
    <2> QED
      BY <1>16, <2>1, <2>2, Returning DEF Step
  <1>17. ASSUME End
       PROVE  Pool!Close
    BY <1>17, Closing DEF End
  <1>18. ASSUME NEW c \in Cluster, Fault(c)
       PROVE  UNCHANGED Pool!vars
    <2>1. stage[c] \in Busy /\ stage'[c] \in Busy /\ UNCHANGED stopped
      BY ONLY <1>18, stage \in [Cluster -> Stage], c \in Cluster
      DEF Fault, FailsToLoad, FailsToPick, FailsToDecrypt, FailsToWrite, Loads, Takes,
         Moves, Busy, Serving, shared
    <2> QED
      BY <1>18, <2>1, Staying DEF Step
  <1>19. ASSUME Die
       PROVE  Pool!Close
    BY <1>19, Closing DEF Die
  <1>20. ASSUME NEW c \in Cluster, NEW S \in SUBSET Service, Render(c, S)
       PROVE  UNCHANGED Pool!vars
    BY <1>20 DEF Render, Pool!vars, Working
  <1>21. CASE UNCHANGED vars
    BY <1>21 DEF Pool!vars, Working
  <1> QED
    BY ONLY [Next]_vars, <1>1, <1>2, <1>3, <1>4, <1>5, <1>6, <1>7, <1>8, <1>9, <1>10,
       <1>11, <1>12, <1>13, <1>14, <1>15, <1>16, <1>17, <1>18, <1>19, <1>20, <1>21
    DEF Next, Progress, Step, Pool!Next

(* The goroutines of runMultiClusterSync, with the semaphore, the stop     *)
(* flag and whatever they do to manifests and environment, implement the   *)
(* pool of workers, whose jobs are the clusters as discoverClusters lists  *)
(* them.  Which clusters their names lead to does not matter to it.        *)
THEOREM PoolImplemented == Spec => ImplementsPool
  <1>1. Init => Pool!Init
    <2>1. Init => /\ cmd.limit \in 1..Concurrency /\ ~stopped
                  /\ Working = {} /\ Ended = {}
      BY BoundAssumption DEF Init, Plain, Working, Ended
    <2> QED
      BY <2>1 DEF Init, Pool!Init, Ended
  <1> QED
    BY <1>1, PoolStep, Invariance, PTL DEF Spec, ImplementsPool, Pool!Spec

(* The goroutines that synchronise at a time never exceed --concurrency,   *)
(* and none that has returned works again.  Two of one name may work on    *)
(* one cluster: this bounds the goroutines.                                *)
THEOREM PoolBounded == Spec => []Pool!Bounded
  <1>1. ASSUME IInv
        PROVE  Pool!Bounded
    <2>1. stage \in [Cluster -> Stage] /\ cmd.limit \in 1..Concurrency
      BY <1>1 DEF IInv, TypeOK, Command
    <2>2. Cardinality(Past) <= cmd.limit
      <3>1. CASE cmd.op = "all"
        <4>1. IsFiniteSet(Holding) /\ Past \subseteq Holding
          BY FS_Subset, SetAssumption DEF Holding, Past
        <4>2. /\ Cardinality(Past) <= Cardinality(Holding)
              /\ Cardinality(Past) \in Nat /\ Cardinality(Holding) \in Nat
          BY <4>1, FS_Subset, FS_CardinalityType
        <4> QED
          BY <1>1, <2>1, <3>1, <4>2, BoundAssumption DEF IInv, SlotInv
      <3>2. CASE cmd.op # "all"
        <4>1. \A c, d \in Past : c = d
          BY <1>1, <3>2 DEF IInv, CommandInv, Past, Busy, Serving
        <4>2. Past = {} \/ \E c \in Cluster : Past = {c}
          BY <4>1 DEF Past
        <4>3. Cardinality(Past) \in {0, 1}
          BY <4>2, FS_EmptySet, FS_Singleton
        <4> QED
          BY <2>1, <4>3, BoundAssumption
      <3> QED
        BY <3>1, <3>2
    <2>3. Past \cap Ended = {}
      BY DEF Past, Ended, Busy, Serving
    <2>4. Working = Past
      BY <2>1 DEF Working, Past, Stage, Busy, Serving
    <2> QED
      BY <2>1, <2>2, <2>3, <2>4, SameCardinality DEF Pool!Bounded, Ended
  <1> QED
    BY <1>1, Invariance, PTL
==============================================================================
