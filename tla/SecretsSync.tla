----------------------------- MODULE SecretsSync -----------------------------
(***************************************************************************)
(* `secrets sync', `secrets sync --all' and `secrets validate' (package    *)
(* internal/secrets, manager.go; cmd/secrets_sync.go): the secrets of the  *)
(* configuration files are written to encrypted manifests, one for each    *)
(* cluster and service.                                                    *)
(*                                                                         *)
(* `sync --all' lists the clusters of all organizations, or of one, and    *)
(* starts a goroutine for each; a semaphore lets --concurrency of them     *)
(* work at a time, and --stop-on-error keeps those that have not begun     *)
(* from beginning.  A goroutine is given the name of its cluster without   *)
(* the organization, and looks the cluster up by it: `named' is the        *)
(* cluster that the name leads to, the first of that name.  If two         *)
(* organizations have a cluster of one name, two goroutines work on the    *)
(* first and none on the second.                                           *)
(*                                                                         *)
(* To compare a manifest with the configuration it is decrypted by the     *)
(* program sops, which finds the key file through the variable             *)
(* SOPS_AGE_KEY_FILE of the environment; all goroutines set and restore    *)
(* this one variable.                                                      *)
(*                                                                         *)
(* Data: the secrets of a service are one value, a pair of its first eight *)
(* characters and the rest.  Each cluster has its own key, with which all  *)
(* its manifests are encrypted.  `found' are the clusters whose key file   *)
(* is among those that sync searches for; validate takes the one that the  *)
(* configuration names.  A manifest is None (no file), Empty (a file       *)
(* opened for writing), Torn (another that sops does not decrypt) or what  *)
(* it decrypts to.                                                         *)
(*                                                                         *)
(* One command runs at a time and starts without the variable set, with    *)
(* the renders of the overlay in between; the configurations change at     *)
(* any time.  A dry run, which takes the same steps but for the write, is  *)
(* left out.                                                               *)
(*                                                                         *)
(* A command that names no services has all of them; `services' is empty   *)
(* when those that it names do not exist.  `limit' is --concurrency, which *)
(* Concurrency bounds; nothing refuses 0, with which no goroutine would    *)
(* ever begin.                                                             *)
(*                                                                         *)
(* Bounds: MaxRuns commands besides plain `sync --all' of all clusters,    *)
(* MaxEdits changes of a configuration and renders, MaxFaults failures and *)
(* deaths of the process.                                                  *)
(* History variables: `late', the goroutines that were done after the stop *)
(* flag was set; `unread', the services whose manifests validate passed    *)
(* over.                                                                   *)
(***************************************************************************)
EXTENDS Integers, FiniteSets

CONSTANTS Cluster, Service, Secret, None, Empty, Torn, Initial,
          Concurrency, MaxRuns, MaxEdits, MaxFaults

(* Where names may lead: the first cluster of a name is what its own name  *)
(* leads to.                                                               *)
Naming == {n \in [Cluster -> Cluster] : \A c \in Cluster : n[n[c]] = n[c]}

ASSUME SetAssumption ==
  /\ IsFiniteSet(Cluster)
  /\ None \notin Cluster /\ Cluster # {}
  /\ {None, Empty, Torn} \cap Secret = {}
  /\ None # Empty /\ None # Torn /\ Empty # Torn
  /\ Initial \subseteq [config : [Cluster -> [Service -> Secret \cup {None}]],
                        named : Naming, found : SUBSET Cluster]
ASSUME BoundAssumption == /\ Concurrency \in Nat \ {0}
                          /\ MaxRuns \in Nat /\ MaxEdits \in Nat /\ MaxFaults \in Nat

VARIABLES config, manifest, named, found,  \* the files
          running, cmd,                    \* the command
          env, slots, stopped, failed,     \* its environment and shared variables
          checking, valid, seen, unread,   \* of validate: in its first phase; its verdict;
                                           \* the services it has found, could not read
          stage, loaded, todo, at,         \* of the goroutine of each cluster
          saved, got, result,
          runs, edits, faults, late

files == <<config, manifest, named, found>>
shared == <<env, slots, stopped, failed>>
check == <<checking, valid, seen, unread>>
local == <<stage, loaded, todo, at, saved, got, result>>
counts == <<runs, edits, faults>>
vars == <<files, running, cmd, shared, check, local, counts, late>>

Stage == {"idle", "queued", "waiting", "checking", "loading", "picking", "reading",
          "setting", "decrypting", "comparing", "writing", "filling", "failing", "ended"}
Command == [op : {"sync", "all", "validate"}, force : BOOLEAN, stop : BOOLEAN,
            fix : BOOLEAN, services : SUBSET Service, limit : 1..Concurrency]

(* A manifest that sync skips, having no key to compare it with, it        *)
(* reports as unchanged too.                                               *)
Outcome == {"none", "updated", "unchanged", "skipped", "error"}

(* What drift detection compares: meant to be a hash of the value, it is   *)
(* the hexadecimal form of its first eight bytes.                          *)
Digest(secret) == secret[1]

(* The cluster that the goroutine of c works on; a command for one cluster *)
(* can name it with its organization.                                      *)
Home(c) == IF cmd.op = "all" THEN named[c] ELSE c

TypeOK == /\ config \in [Cluster -> [Service -> Secret \cup {None}]]
          /\ manifest \in [Cluster -> [Service -> Secret \cup {None, Empty, Torn}]]
          /\ named \in [Cluster -> Cluster]
          /\ found \subseteq Cluster
          /\ running \in BOOLEAN
          /\ cmd \in Command
          /\ env \in Cluster \cup {None}
          /\ slots \in 0..Concurrency
          /\ stopped \in BOOLEAN
          /\ failed \subseteq Cluster
          /\ checking \in BOOLEAN
          /\ valid \in BOOLEAN
          /\ seen \subseteq Service
          /\ unread \subseteq Service
          /\ stage \in [Cluster -> Stage]
          /\ loaded \in [Cluster -> [Service -> Secret \cup {None}]]
          /\ todo \in [Cluster -> SUBSET Service]
          /\ at \in [Cluster -> Service \cup {None}]
          /\ saved \in [Cluster -> Cluster \cup {None}]
          /\ got \in [Cluster -> Secret \cup {Torn}]
          /\ result \in [Cluster -> [Service -> Outcome]]
          /\ runs \in 0..MaxRuns
          /\ edits \in 0..MaxEdits
          /\ faults \in 0..MaxFaults
          /\ late \in Nat

Plain == [op |-> "all", force |-> FALSE, stop |-> FALSE, fix |-> FALSE,
          services |-> Service, limit |-> Concurrency]

(* The memory of a process before it does anything.                        *)
Blank(l, t, a, v, g, r) ==
  /\ l = [c \in Cluster |-> [s \in Service |-> None]]
  /\ t = [c \in Cluster |-> {}]
  /\ a = [c \in Cluster |-> None]
  /\ v = [c \in Cluster |-> None]
  /\ g = [c \in Cluster |-> Torn]
  /\ r = [c \in Cluster |-> [s \in Service |-> "none"]]

Init == /\ \E i \in Initial : config = i.config /\ named = i.named /\ found = i.found
        /\ manifest = [c \in Cluster |-> [s \in Service |-> None]]
        /\ running = FALSE
        /\ cmd = Plain
        /\ env = None /\ slots = 0 /\ stopped = FALSE /\ failed = {}
        /\ checking = FALSE /\ valid = TRUE /\ seen = {} /\ unread = {}
        /\ stage = [c \in Cluster |-> "idle"]
        /\ Blank(loaded, todo, at, saved, got, result)
        /\ runs = 0 /\ edits = 0 /\ faults = 0 /\ late = 0
------------------------------------------------------------------------------
(* `secrets set' or an editor.                                             *)
Edit(c, s, v) ==
  /\ edits < MaxEdits
  /\ v # config[c][s]
  /\ config' = [config EXCEPT ![c][s] = v]
  /\ edits' = edits + 1
  /\ UNCHANGED <<manifest, named, found, running, cmd, shared, check, local, runs, faults,
                 late>>

(* A render of the overlay, in full or of one service (Clean of Overlay),  *)
(* removes the directories of the services with the manifests in them,     *)
(* and does not write manifests itself.                                    *)
Render(c, S) ==
  /\ ~running
  /\ edits < MaxEdits
  /\ S = Service \/ Cardinality(S) = 1
  /\ \E s \in S : manifest[c][s] # None
  /\ manifest' = [manifest EXCEPT ![c] = [s \in Service |-> IF s \in S THEN None ELSE @[s]]]
  /\ edits' = edits + 1
  /\ UNCHANGED <<config, named, found, running, cmd, shared, check, local, runs, faults,
                 late>>

(* The targets of --all are the clusters that it lists: those of --org     *)
(* only, and not those whose directory it cannot read.                     *)
Start(k, targets) ==
  /\ ~running
  /\ running' = TRUE
  /\ cmd' = k
  /\ targets # {}
  /\ k.op # "all" => Cardinality(targets) = 1
  /\ k.stop \/ k.limit # Concurrency => k.op = "all"
  /\ k.op = "validate" => ~k.force /\ k.services = Service
  /\ k.fix => k.op = "validate"
  /\ IF k = Plain /\ targets = Cluster THEN UNCHANGED runs
                                     ELSE runs < MaxRuns /\ runs' = runs + 1
  /\ stage' = [c \in Cluster |-> IF c \notin targets THEN "idle"
                                 ELSE IF k.op = "all" THEN "queued" ELSE "loading"]
  /\ checking' = (k.op = "validate")
  /\ UNCHANGED <<files, shared, valid, seen, unread, loaded, todo, at, saved, got,
                 result, edits, faults, late>>

Moves(c, from, to) == stage[c] = from /\ stage' = [stage EXCEPT ![c] = to]

(* The loop that starts the goroutines.                                    *)
Spawn(c) ==
  /\ running /\ ~stopped
  /\ Moves(c, "queued", "waiting")
  /\ UNCHANGED <<files, running, cmd, shared, check, loaded, todo, at, saved, got, result,
                 counts, late>>

Break ==
  /\ running /\ stopped
  /\ \E c \in Cluster : stage[c] = "queued"
  /\ stage' = [c \in Cluster |-> IF stage[c] = "queued" THEN "idle" ELSE stage[c]]
  /\ UNCHANGED <<files, running, cmd, shared, check, loaded, todo, at, saved, got, result,
                 counts, late>>

Acquire(c) ==
  /\ slots < cmd.limit
  /\ slots' = slots + 1
  /\ Moves(c, "waiting", "checking")
  /\ UNCHANGED <<files, running, cmd, env, stopped, failed, check,
                 loaded, todo, at, saved, got, result, counts, late>>

(* A goroutine returns, and with it goes the slot.  Mutant: the slot stays. *)
KeepsSlot == UNCHANGED slots
Release == slots' = slots - 1

(* Mutant: the flag is not asked for again once the semaphore is held.     *)
NeverStops(c) == Moves(c, "checking", "loading") /\ UNCHANGED slots
Proceed(c) == \/ ~stopped /\ Moves(c, "checking", "loading") /\ UNCHANGED slots
              \/ stopped /\ Moves(c, "checking", "ended") /\ Release

Check(c) ==
  /\ Proceed(c)
  /\ UNCHANGED <<files, running, cmd, env, stopped, failed, check,
                 loaded, todo, at, saved, got, result, counts, late>>

(* Validate goes through the manifests that it lists, sync through the     *)
(* services that have secrets.                                             *)
Listed(c) == {s \in Service : manifest[Home(c)][s] # None}
Loads(c, listing) ==
  /\ Moves(c, "loading", "picking")
  /\ loaded' = [loaded EXCEPT ![c] = config[Home(c)]]
  /\ todo' = [todo EXCEPT ![c] =
               IF checking THEN listing
                           ELSE {s \in cmd.services : config[Home(c)][s] # None}]
  /\ seen' = IF checking THEN listing ELSE seen
  /\ UNCHANGED <<files, running, cmd, shared, checking, valid, unread, at, saved, got,
                 result, runs, edits, late>>

Load(c) == Loads(c, Listed(c)) /\ UNCHANGED faults

Forced == cmd.force \/ cmd.op = "validate"

(* Service s is next.                                                   *)
Takes(c, s) ==
  /\ s \in todo[c]
  /\ todo' = [todo EXCEPT ![c] = @ \ {s}]
  /\ at' = [at EXCEPT ![c] = s]
  /\ UNCHANGED <<files, running, cmd, shared, checking, seen, loaded, saved, got,
                 runs, edits, late>>

(* A validation sees that a manifest is not encrypted, or goes on to       *)
(* decrypt it.                                                             *)
Inspects(c, m) ==
  /\ checking
  /\ \/ m # Empty /\ Moves(c, "picking", "reading") /\ UNCHANGED valid
     \/ m \in {Empty, Torn} /\ Moves(c, "picking", "picking") /\ valid' = FALSE
  /\ UNCHANGED result

(* A sync creates or overwrites the manifest, compares it first, or, when  *)
(* it finds no key to compare it with, leaves it.                          *)
Updates(c, s, m) ==
  /\ ~checking
  /\ \/ /\ m = None \/ Forced
        /\ Moves(c, "picking", "writing")
        /\ UNCHANGED result
     \/ /\ m # None /\ ~Forced /\ Home(c) \in found
        /\ Moves(c, "picking", "reading")
        /\ UNCHANGED result
     \/ /\ m # None /\ ~Forced /\ Home(c) \notin found
        /\ Moves(c, "picking", "picking")
        /\ result' = [result EXCEPT ![c][s] = "skipped"]
  /\ UNCHANGED valid

Pick(c, s) ==
  LET m == manifest[Home(c)][s] IN
  /\ Takes(c, s)
  /\ Inspects(c, m) \/ Updates(c, s, m)
  /\ UNCHANGED <<unread, faults>>

(* decryptManifest.                                                        *)
GetEnv(c) ==
  /\ Moves(c, "reading", "setting")
  /\ saved' = [saved EXCEPT ![c] = env]
  /\ UNCHANGED <<files, running, cmd, shared, check, loaded, todo, at, got, result,
                 counts, late>>

SetEnv(c) ==
  /\ Moves(c, "setting", "decrypting")
  /\ env' = Home(c)
  /\ UNCHANGED <<files, running, cmd, slots, stopped, failed, check,
                 loaded, todo, at, saved, got, result, counts, late>>

(* Got Torn: no result.                                                    *)
Decrypt(c) ==
  LET m == manifest[Home(c)][at[c]] IN
  /\ Moves(c, "decrypting", "comparing")
  /\ got' = [got EXCEPT ![c] = IF env = Home(c) /\ m \in Secret THEN m ELSE Torn]
  /\ UNCHANGED <<files, running, cmd, shared, check, loaded, todo, at, saved, result,
                 counts, late>>

(* A sync overwrites what it could not decrypt; the mutant leaves it.      *)
OnlyWhatDiffers(c) == got[c] # Torn /\ got[c] # loaded[c][at[c]]
Changed(c) == got[c] # loaded[c][at[c]]

Drifted(c) == loaded[c][at[c]] = None \/ Digest(got[c]) # Digest(loaded[c][at[c]])

Compare(c) ==
  /\ env' = saved[c]
  /\ saved' = [saved EXCEPT ![c] = None]
  /\ got' = [got EXCEPT ![c] = Torn]
  /\ \/ /\ Moves(c, "comparing", "failing")
        /\ checking /\ got[c] = Torn
        /\ UNCHANGED <<valid, result>>
     \/ /\ Moves(c, "comparing", "picking")
        /\ checking /\ got[c] # Torn
        /\ valid' = (valid /\ ~Drifted(c))
        /\ UNCHANGED result
     \/ /\ Moves(c, "comparing", "writing")
        /\ ~checking /\ Changed(c)
        /\ UNCHANGED <<valid, result>>
     \/ /\ Moves(c, "comparing", "picking")
        /\ ~checking /\ ~Changed(c)
        /\ result' = [result EXCEPT ![c][at[c]] = "unchanged"]
        /\ UNCHANGED valid
  /\ UNCHANGED <<files, running, cmd, slots, stopped, failed, checking, seen, unread,
                 loaded, todo, at, counts, late>>

(* The manifest is encrypted as a temporary file; the place of the old one *)
(* is then emptied and its content written there.                          *)
Truncate(c) ==
  /\ Moves(c, "writing", "filling")
  /\ manifest' = [manifest EXCEPT ![Home(c)][at[c]] = Empty]
  /\ UNCHANGED <<config, named, found, running, cmd, shared, check, loaded, todo, at,
                 saved, got, result, counts, late>>

(* Over what another goroutine has written in the meantime, the end of     *)
(* which may be left.                                                      *)
Fill(c) ==
  /\ Moves(c, "filling", "picking")
  /\ \E m \in {loaded[c][at[c]], Torn} :
       /\ manifest[Home(c)][at[c]] = Empty => m = loaded[c][at[c]]
       /\ manifest' = [manifest EXCEPT ![Home(c)][at[c]] = m]
  /\ result' = [result EXCEPT ![c][at[c]] = "updated"]
  /\ UNCHANGED <<config, named, found, running, cmd, shared, check, loaded, todo, at,
                 saved, got, counts, late>>

(* Validate adds the manifests that are missing and, with --fix, goes on   *)
(* as a forced sync.  The mutant does not miss any.                        *)
NothingMissing(c) == TRUE
Complete(c) == \A s \in Service : loaded[c][s] # None => s \in seen

(* Its result is recorded and, under --all, the slot released.  Mutant: a  *)
(* slot is released that was never taken.                                  *)
ReleasesAlways(c, from) ==
  /\ Moves(c, from, "ended")
  /\ Release
  /\ late' = IF stopped THEN late + 1 ELSE late
Returns(c, from) ==
  /\ Moves(c, from, "ended")
  /\ IF cmd.op = "all" THEN Release ELSE UNCHANGED slots
  /\ late' = IF stopped THEN late + 1 ELSE late

(* Errors of single services are no failure of the cluster.                *)
Finish(c) ==
  /\ todo[c] = {}
  /\ \/ /\ Moves(c, "picking", "loading")
        /\ checking /\ cmd.fix /\ ~(valid /\ Complete(c))
        /\ checking' = FALSE /\ valid' = FALSE
        /\ UNCHANGED <<slots, late>>
     \/ /\ Returns(c, "picking")
        /\ ~(checking /\ cmd.fix /\ ~(valid /\ Complete(c)))
        /\ valid' = (valid /\ (checking => Complete(c)))
        /\ UNCHANGED checking
  /\ UNCHANGED <<files, running, cmd, env, stopped, failed, seen, unread,
                 loaded, todo, at, saved, got, result, counts>>

Fail(c) ==
  /\ Returns(c, "failing")
  /\ failed' = failed \cup {c}
  /\ stopped' = (stopped \/ cmd.stop)
  /\ UNCHANGED <<files, running, cmd, env, check,
                 loaded, todo, at, saved, got, result, counts>>

(* The memory and the environment of the process are gone.                 *)
Exit ==
  /\ running' = FALSE
  /\ cmd' = Plain
  /\ env' = None /\ slots' = 0 /\ stopped' = FALSE /\ failed' = {}
  /\ checking' = FALSE /\ valid' = TRUE /\ seen' = {} /\ unread' = {}
  /\ stage' = [c \in Cluster |-> "idle"]
  /\ Blank(loaded', todo', at', saved', got', result')
  /\ late' = 0

End ==
  /\ running
  /\ \A c \in Cluster : stage[c] \in {"idle", "ended"}
  /\ Exit
  /\ UNCHANGED <<files, counts>>

(* The configuration or the key cannot be read; validate cannot read some  *)
(* of the directories.                                                     *)
FailsToLoad(c) ==
  \/ /\ Moves(c, "loading", "failing")
     /\ UNCHANGED <<files, running, cmd, shared, check, loaded, todo, at, saved, got,
                    result, runs, edits, late>>
  \/ /\ checking
     /\ \E listing \in SUBSET Listed(c) : listing # Listed(c) /\ Loads(c, listing)

(* Validate passes over a manifest that it cannot read.  Sync takes one    *)
(* that it cannot find out about for missing, and skips one when it        *)
(* cannot read the key file.                                               *)
FailsToPick(c, s) ==
  /\ Takes(c, s)
  /\ \/ /\ checking
        /\ Moves(c, "picking", "picking")
        /\ unread' = unread \cup {s}
        /\ UNCHANGED result
     \/ /\ ~checking
        /\ Moves(c, "picking", "writing")
        /\ UNCHANGED <<unread, result>>
     \/ /\ ~checking /\ manifest[Home(c)][s] # None /\ ~Forced
        /\ Moves(c, "picking", "picking")
        /\ result' = [result EXCEPT ![c][s] = "skipped"]
        /\ UNCHANGED unread
  /\ UNCHANGED valid

FailsToDecrypt(c) ==
  /\ Moves(c, "decrypting", "comparing")
  /\ got' = [got EXCEPT ![c] = Torn]
  /\ UNCHANGED <<files, running, cmd, shared, check, loaded, todo, at, saved, result,
                 runs, edits, late>>

(* The manifest cannot be encrypted or opened, or written but in part.     *)
FailsToWrite(c) ==
  /\ \/ Moves(c, "writing", "picking") /\ UNCHANGED manifest
     \/ /\ Moves(c, "filling", "picking")
        /\ manifest' \in {manifest, [manifest EXCEPT ![Home(c)][at[c]] = Torn]}
  /\ result' = [result EXCEPT ![c][at[c]] = "error"]
  /\ UNCHANGED <<config, named, found, running, cmd, shared, check, loaded, todo, at,
                 saved, got, runs, edits, late>>

Fault(c) ==
  /\ faults < MaxFaults
  /\ faults' = faults + 1
  /\ \/ FailsToLoad(c) \/ \E s \in Service : FailsToPick(c, s)
     \/ FailsToDecrypt(c) \/ FailsToWrite(c)

(* The process dies, perhaps in the middle of writing.                     *)
Die ==
  /\ running
  /\ faults < MaxFaults
  /\ faults' = faults + 1
  /\ Exit
  /\ \E D \in SUBSET {c \in Cluster : stage[c] = "filling"} :
       manifest' = [h \in Cluster |-> [s \in Service |->
                      IF \E c \in D : h = Home(c) /\ s = at[c] THEN Torn
                                                            ELSE manifest[h][s]]]
  /\ UNCHANGED <<config, named, found, runs, edits>>

Step(c) ==
  \/ Spawn(c) \/ Acquire(c) \/ Check(c) \/ Load(c) \/ \E s \in Service : Pick(c, s)
  \/ GetEnv(c) \/ SetEnv(c) \/ Decrypt(c) \/ Compare(c) \/ Truncate(c) \/ Fill(c)
  \/ Finish(c) \/ Fail(c)

Progress == Break \/ End \/ \E c \in Cluster : Step(c)

Next ==
  \/ \E k \in Command, targets \in SUBSET Cluster : Start(k, targets)
  \/ Progress
  \/ \E c \in Cluster : Fault(c)
  \/ Die
  \/ \E c \in Cluster, s \in Service, v \in Secret \cup {None} : Edit(c, s, v)
  \/ \E c \in Cluster, S \in SUBSET Service : Render(c, S)

(* As long as a goroutine can run one runs, sops ends, and the operator    *)
(* runs `sync --all' again and again.                                      *)
Spec == Init /\ [][Next]_vars /\ WF_vars(Progress) /\ WF_vars(Start(Plain, Cluster))
------------------------------------------------------------------------------
(* Once a goroutine has failed under --stop-on-error, at most the          *)
(* Concurrency - 1 others that had begun go on to their end.               *)
StopsEarly == late < cmd.limit

(* No other goroutine that has begun works on the cluster of c.            *)
Alone(c) == \A d \in Cluster \ {c} :
              Home(d) = Home(c) => stage[d] \in {"idle", "queued", "waiting", "checking"}

(* A service that a sync reports as updated, or as unchanged after         *)
(* comparing it, has a manifest with the secrets that the sync read,       *)
(* though other goroutines change the variable while sops runs, and write  *)
(* the manifests of other clusters: as long as no other goroutine of the   *)
(* command has begun to work on the same cluster by a name that it shares. *)
ReportTrue ==
  \A c \in Cluster, s \in Service :
    stage[c] = "ended" /\ Alone(c) /\ result[c][s] \in {"updated", "unchanged"}
      => manifest[Home(c)][s] = loaded[c][s]

(* After `validate --fix' every service with secrets has a manifest that   *)
(* no validation objects to, but for those that could not be written and,  *)
(* when nothing else was wrong, those that could not be read.              *)
FixRepairs ==
  \A c \in Cluster, s \in Service :
    /\ stage[c] = "ended" /\ cmd.fix /\ c \notin failed
    /\ loaded[c][s] # None /\ result[c][s] # "error"
    /\ checking => s \notin unread
    => manifest[c][s] \in Secret /\ Digest(manifest[c][s]) = Digest(loaded[c][s])

(* The goroutines with their semaphore and their stop flag are a pool of   *)
(* workers, whose jobs are the clusters as they were listed, whichever     *)
(* their names lead to: however the goroutines are scheduled and fail,     *)
(* --concurrency holds, none is taken up twice, and none begins once the   *)
(* flag is set.                                                            *)
Working == {c \in Cluster : stage[c] \notin {"idle", "queued", "waiting", "checking", "ended"}}
Pool == INSTANCE WorkerPool
  WITH Job <- Cluster, MaxLimit <- Concurrency, limit <- cmd.limit, working <- Working,
       over <- {c \in Cluster : stage[c] = "ended"}
ImplementsPool == Pool!Spec

(* Every command ends.                                                     *)
EveryCommandEnds == running ~> ~running

(* Synchronising again repairs what crashes and partial failures left and  *)
(* carries over every change, for the clusters whose key is found and      *)
(* whose name no other cluster has.                                        *)
Unique == {c \in Cluster : \A d \in Cluster : named[d] = c <=> d = c}
InSync == \A c \in found \cap Unique, s \in Service :
            config[c][s] # None => manifest[c][s] = config[c][s]
Converges == []<>InSync
==============================================================================
