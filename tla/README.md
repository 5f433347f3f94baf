# Verification of the opencenter CLI in TLA+

The opencenter CLI (`src/`, Go) creates, deploys and destroys Kubernetes
clusters: it keeps a configuration per cluster, renders a GitOps repository from
it, manages keys and secrets, and drives OpenTofu, Ansible, Flux and cloud APIs.
It is a command-line program: most state lives in files, and concurrency comes
from several commands at once, from goroutines that share a breaker, and from
servers (Redis, OpenStack) that answer late or not at all. This directory models
the parts where order, failure and time decide whether the program is right.
TLC checks the models on small instances, TLAPS proves what matters most for
every instance.

## Inventory

| Component | State | Operations | Interacts with | What is hard |
|---|---|---|---|---|
| Cluster lock, file backend: `internal/resilience/lock_manager.go`, `cmd/cluster.go` | the lock file (name, inode, flock, metadata), a descriptor per process | inspect, prompt, force-break, acquire with retry and timeout, release | `cluster deploy`, `cluster destroy` | unlinked inodes, check-then-act, crashes, timeouts |
| Distributed lock, Redis backend: same file | a key with a ttl; the client's lock object | SetNX, compare-and-expire, compare-and-delete, DEL | callers of `LockManager` | lost replies, requests executed late, expiry, several clocks |
| Circuit breaker: `circuit_breaker.go` | state, three counters, time of opening | `Call` (before, after), `Reset` | Barbican client | results that arrive in another state than they were admitted in |
| Retry: `retry.go` | an attempt counter | `Do`, `DoWithResult` | Barbican client | retrying what is not idempotent, retries inside retries |
| Barbican client: `internal/barbican` | secrets at the server | put, get, describe, delete, list | breaker, retry, `secrets set/get/describe/delete` | delete-then-create, lost replies, duplicates, a breaker entered twice |
| GitOps overlay: `internal/gitops/copy.go`, `descriptor_renderer.go`, their callers in `cmd` and `internal/cluster` | the configuration file, the rendered overlay, the backups beside its files | generate, render-only, forced render, service enable and disable | configuration, templates, secrets sync | removal before rendering, no lock, one service rendered into shared files |
| Secrets manifests: `internal/secrets/manager.go`, `cmd/secrets_sync.go` | an encrypted manifest per cluster and service; an environment variable, a semaphore, a stop flag | sync, sync --all, validate, validate --fix | the overlay, sops, the configuration | goroutines that share the environment and, by a name in two organizations, a cluster; torn files, partial failures |
| Secrets keys: `internal/secrets` (registry, rotation, revocation, rollback) | key registry, SOPS rules, archives | rotate, complete, revoke, roll back | SOPS, audit log | several files that must change together |
| GitOps transactions: checkpoints, `Transaction`, pipeline, stages | workspace tree, checkpoints | commit, roll back | no command | roll-back of half-done stages |
| Path resolver, validation: `internal/core` | TTL caches | resolve, validate, invalidate | every command | stale entries |
| Configuration: `internal/config` | YAML files | load, set, persist | every command | read-change-write of a file |
| Operations: `internal/operations` | backup archives and manifests | back up, restore, detect drift | cluster files | partial backups |
| Audit log: `internal/security` | an append-only file | log, rotate | secrets | rotation under concurrent writers |

The remaining components (DI container, templates, services and plugins,
importer, local development, cloud clients, provisioning, UI, logging, utilities,
test support, the CI harness under `.github`) are listed in `PROJECT.json` with
the reason why they are not modelled: they convert data, call other programs, or
are filled once at start-up.

What makes each of these correct, and what would break it, is the list "hazards"
of `PROJECT.json`, each at its line.

## Plan

Built, in this order:

1. `LeaseLock` (abstract) and `RedisLock`, which implements it;
2. `FileLock`, the lock of `cluster deploy` and `cluster destroy`;
3. `CircuitBreaker`;
4. `Bootstrap`, whose deploys exclude each other by the lock of 2;
5. a proof module for each of `RedisLock`, `FileLock`, `CircuitBreaker`,
   `Bootstrap`;
6. `SecretStore`: `barbican.Client` with the attempts of `retry.go` and the
   breaker of one command, which `PutSecret` and the calls inside it share;
7. `Overlay`: the commands that render a GitOps overlay, two operators at once;
8. `SecretsSync`, whose manifests lie in the directories that `Overlay` removes:
   its action `Render` is the effect of `Clean` of `Overlay` on them;
9. a proof module for each of these three;
10. two more abstract specifications, `Resumption`, which `Bootstrap` implements,
    and `WorkerPool`, which `SecretsSync` implements.

What is left to prove: an abstract specification of the store that `SecretStore`
implements as long as it is calm; conditions under which `FileLock` does exclude
(no inspection while a lock file is empty, no forced break).

What was considered and is not worth a model, with the reasons, is under "Not
modelled".

Modules are written to be proved about: constants with named assumptions, one
action per operation, invariants as conjunctions of named parts, no recursive
operators.

## Modules

### LeaseLock
What a lock with leases promises: `holder` owns the resource, `sure` is whoever
may act on it, `spent` are the acquisitions that have been decided. A lease is
granted when free, ends only when nobody relies on it, or is broken; no
acquisition is decided twice. It is independent of clocks and messages. `Owned`
and `NeverAgain` say what follows: who may act owns, and an acquisition that was
refused or lost the lock never has it again.

### RedisLock
`redisLockBackend` for one resource. `store` is the key (token and ticks to
live); a client is idle, trying, holding, or waiting: for its request to be
executed (acquiring, refreshing, releasing) or for the reply to one that
succeeded (granted, extended). The set of tokens bounds the attempts. A request,
its execution and the reply to a success are three steps. A client that stops
waiting (`GiveUp`) leaves a request that was not executed in `late`, and the
server may execute it at any later time (`ServerLate`) or never. Retries inside
the Redis client library are not modelled. `pend` and `est` measure the lease
by the client's clock, from the moment the request was sent: `acquiredAt` is read
before SetNX (`lock_manager.go:552`). A holder that crashed, a key that expired
and an operator's `ForceBreak` complete the picture. The commands of this
release use the file backend (`DefaultLockConfig`); Redis is a configured option
of `LockManager`.

Abstracted: the payload is its token (owner and nanoseconds, unique per attempt);
a client refreshes with the ttl it acquired with; all clocks tick together, so
clock drift is outside the model.

### FileLock
`AcquireLockWithPrompt` over the file backend, one process per command, one
action per system call: `Inspect` (GetLockInfo), `Answer` (flag or prompt),
`ForceBreak`, `OpenFile`, `Flock`, `WriteMetadata` or `WriteFails`, `Retry`,
`AcquireTimesOut`, `ReleaseUnlock`, `ReleaseRemove`, `DestroyForceBreak`,
`Crash`. Names and inodes are apart: `dirent` is what the path names, `fd` what a
process has open, `flock` who locked an inode. An inode without a name and a
descriptor is free again. The one-hour lease and the 30-second acquire timeout
are countdowns in ticks. A file without metadata has time 0 left, because its
zero expiry has passed.

Not in it: the map `fb.locks` (each command builds its own manager, so the map
never holds another command's lock) and `Refresh` (no command calls it). A
metadata write replaces the file's metadata; in the code a longer old tail can
stay behind the new lines, which adds extra metadata keys and is not modelled.

### CircuitBreaker
`beforeCall` and `afterCall` are atomic under the mutex, the operation between
them is not: `inFlight` holds the calls whose operation runs, and a result is
handled in whatever state the circuit is by then, as the code does. `cooling` is
the time left until the open state may be tried. The history variables `probe`
(calls in flight that the current half-open period admitted) and `streak`
(failures since the last success) exist for the properties only.

### Bootstrap
One deploy at a time (it holds the cluster lock) over `primary` (`state.json` in
the state directory) and `legacy` (the file older releases wrote). A file is
missing, torn, or saved with a status per step. The actions follow
`Bootstrap`, `provisionInfrastructure` and `executeBootstrapSteps` in order:
validate, clear both files on `--restart`, load with fallback, select the steps,
and for each one skip, or mark running and save, run, record and save; then wait
for readiness and remove both files. Each can fail, a save can tear the file, and
the process can die anywhere. `done` is the world: the steps whose last run
completed and that no destroy has undone.

Abstracted: the provider's steps are 1..N, a step completes or leaves things
uncertain; the status "skipped", which nothing ever writes; the version field;
dry runs; log files. Two deploys that get past the lock (finding `FileLockMutex`)
are outside this model.

### Resumption
What a resumable deploy promises, without files, flags and order: `done` are the
steps in place, `recorded` those the next deploy would skip, `running` the one
that runs. A step leaves the record when it begins and enters it only when it is
done; the record is lost only as a whole (`Forget`: a torn save, a removal, a
`--restart`). `trusted` ends with a destroy (`Undo`), which changes the world but
not the record, and does not hold where an older release left a second file
(`Resurface`). `Bootstrap` implements it with `recorded` read from the file that
the next load would take, `running` from its place in the program.

### SecretStore
`PutSecret`, `GetSecret`, `DescribeSecret` and `DeleteSecret` over a server that
may hold several secrets of one name and lists them in any order. `store` is what
it holds, `cmd` the command of each process: its `stage` (describe, remove,
create, get), whether it lists the names or uses the one it took (`at`), the
attempts of `PutSecret` (`outer`) and of the method it calls (`inner`), and the
failure count of its breaker, which lives as long as the command. `List`, `Read`,
`Remove` and `Create` are one request each: it succeeds, finds nothing, fails
without effect, or, for the two that write, takes effect and loses its reply.
`RequestFailed`, `AttemptFailed`, `MethodFailed` and `MethodDone` are what the
nested retries make of a result: every error is retried, "not found" included,
and `PutSecret` takes any error of the lookup for a secret that does not exist.
`Kill` ends a command anywhere.

The breaker is reduced to its failure count: `BreakerStaysClosed` is an invariant,
so that its open and half-open states, which `CircuitBreaker` models, cannot occur
here. `calm` is true until two commands overlap or one meets as many faults as it
has attempts. The properties about payloads hold as long, and not longer:
overlapping puts create two secrets of one name, a put that is killed between
deletion and creation leaves none, and so does one whose creation fails at every
attempt; one whose lookup fails at every attempt creates beside what exists. A
`secrets delete` whose deletion lost its reply reports an error, because its next
attempt finds nothing; the secret is gone nevertheless.

`Left` is what a command may still send, by its stage and attempts
(`RequestsBounded`): retries inside retries multiply, and no more than that.

### Overlay
A command is a script (`Script`) of stages: save the configuration, load it, back
up the overlay, remove what the renderer owns (`Clean`), plan and render into a
private workspace (`Plan`), copy from there file by file (`Copy`). A full render
cleans before it plans, a render of one service plans first. `generate` saves a
status before and after, each time into a configuration it has just loaded.
`config` is the configuration file, `files` the overlay with, for each path, the
configuration that it was rendered from, `cmd` a command with its remaining
script (`todo`) and the paths still to copy (`left`). No command takes the cluster
lock, so those of two operators interleave. `Interrupt` is an error or a death at
any stage, in the middle of a removal or a copy too; an error of `generate` still
saves the status.

Abstracted: the files of a service are one path, the aggregate kustomizations
another, the root one a third; templates are their configuration. `Explicit`
are the services whose descriptor names aggregate targets: only these are added to
the aggregate files by the render of a single service. `unrendered` is a history
variable, the services that may lack their files: it says exactly when
`ListedExists` can be asked for.

### SecretsSync
`secrets sync`, `sync --all` and `secrets validate`, one command at a time.
`config` and `manifest` are the files, `stage` is where the goroutine of each
cluster stands, `todo` and `at` the services it has still to look at and the
one it looks at. `Spawn`, `Break`, `Acquire` and `Check` are the loop of `--all`
with its semaphore (`slots`) and its stop flag (`stopped`), asked before the
goroutine is started and again when it holds a slot. `Load` and `Pick` are the
loops of `SyncSecrets` and `ValidateSecrets` up to the decryption (`Updates` for
the first, `Inspects` for the second); `GetEnv`, `SetEnv`, `Decrypt` and
`Compare` are `decryptManifest`, in which every goroutine saves, sets and
restores the same environment variable, so that sops may run with the key of
another cluster; `Truncate` and `Fill` are the two halves of the `WriteFile` over
the manifest; `Finish` and `Fail` return, and `validate --fix` goes from its first
phase on to a forced sync.

**Names.** `sync --all` takes any set of the clusters, since `discoverClusters`
keeps to `--org` and skips what it cannot read. It hands on the name without the
organization, and `getConfigPath` (`manager.go:630-651`) leads a name of several
organizations to the first of them: `named` is where the name of each cluster
leads, `Home(c)` the cluster that the goroutine of `c` works on. A cluster that has
its name for itself is in `Unique`. Nothing keeps two organizations from having a
cluster of one name. Two goroutines of one command then compare and write the
same manifests at the same time, and none writes those of the second cluster,
although its goroutine reports success. Nothing is claimed of that beyond
what the pool promises: `ReportTrue` is about goroutines that are alone with their
cluster (`Alone`), `Converges` about the clusters in `Unique`, and both fail
without these conditions. `secrets sync` and `validate` of one cluster can name it
with its organization, and are modelled so.

**Faults.** `Fault` is a read, a sops run or a write that fails, `Die` the death of
the process. A read that fails has a different effect at each place: without
configuration or key the cluster fails (`FailsToLoad`); a directory that validate
cannot list hides its manifests, which then are missing; a manifest that
validate cannot read (`manager.go:257-262`) is logged, counts as found and leaves
the verdict as it is (`FailsToPick`, `unread`); sync writes over one that it cannot
find out about, and skips one when it cannot read the key file. A write that
is cut short leaves a manifest Empty or Torn, and so may two goroutines that fill
one at the same time: the encrypted texts differ in length, as fields of
an existing manifest are kept (`generateSecretManifest`), and the end of the
longer one can stay behind the other.

The secrets of a service are one value whose first part is all that `hashValue`
keeps of it, so that values that only differ later are the same for validate and
not for sync. `found` are the clusters whose key file sync finds; for the others
a manifest that exists is left (`skipped`, which the program reports as
unchanged). `Edit` changes a configuration at any time, `Render` removes manifests
between two commands as `Overlay` does. Reading the manifest by sops and finding
the key in the variable are one step.

Consequences of the code that the model has and no property forbids: a wrong key
makes sync write a manifest that had not changed (`manager_sync_test.go`
expects it to be skipped); errors of single services do not count as a failure of
the cluster for `--stop-on-error`; manifests of services without secrets stay;
`validate --fix` repairs nothing in a cluster whose only fault is a manifest
that it could not read, and calls it valid. `FixRepairs` excepts just these, and
only while nothing else was wrong: as soon as `--fix` goes on to its sync, they
are written over with the rest.

### WorkerPool
A command that works on several jobs at a time: `limit`, the jobs `working` and
`over`, and `stopped`. A job begins only below the limit, only once, and only
until a job that failed stops the pool; after that, jobs are turned away. Jobs are
the entries of a list: two of them may concern the same thing, as two goroutines
of one name concern one cluster. The pool has no semaphore: `SecretsSync` implements it with the goroutines past the second look
at the stop flag, a subset of those that hold slots. A command for one cluster is a
pool that opens with its one job begun (`Open`).

## Runs

| Run | Instance | States | Shows |
|---|---|---|---|
| `FileLock` | 2 processes, 3 inodes, ttl 2, timeout 2, operators who break or refuse | 12,762 | `TypeOK` `HolderNamed` `NoFlockLeaks` `NoStaleFile` `AcquireEnds` |
| `FileLockMutex` | same, timeout 1, operators who only refuse | to the violation | `MutualExclusion` fails |
| `RedisLock` | 2 clients, 2 tokens, ttl 2, timeout 1 | 272,364 | `TypeOK` `LeaseBacked` `Exclusive` `ImplementsLease` `OrphanLapses` |
| `CircuitBreaker` | 4 calls, thresholds 3 and 2, timeout 2, 2 half-open requests | 172 (symmetric) | `TypeOK` `BelowThresholds` `NoLeakedSlots` `OverrunBounded` `FailsFast` `TripsOnStreak` |
| `CircuitBreakerLimit` | 4 calls, thresholds 2, 1 half-open request | to the violation | `HalfOpenLimit` fails |
| `Bootstrap` | 3 steps, all flags, legacy file with 0 or 2 steps done or none, 2 faults, 1 destroy | 153,683 | `TypeOK` `SkipsOnlyDone` `EarlierDone` `KeepsProgress` `ImplementsResumption` `Completes` |
| `BootstrapTorn` | 2 steps, plain deploys only, 1 fault | to the violation | `Completes` fails |
| `BootstrapLegacy` | 2 steps, all flags, legacy file with 1 step done, 2 faults | to the violation | `SkipsDone` fails |
| `SecretStore` | 2 processes, 2 payloads, 2 attempts, threshold 4, 2 faults per command, 2 commands | 135,937 | `TypeOK` `BreakerStaysClosed` `UniqueSecret` `PutSurvivesFaults` `LastWriteWins` `RequestsBounded` `EveryCommandEnds` |
| `Overlay` | 2 operators, a service with and one without aggregate targets, 2 commands besides `generate`, 1 fault | 490,315 | `TypeOK` `ListedExists` `FullRenderExact` `Converges` |
| `OverlayBackups` | same | to the violation | `BackupsKept` fails |
| `SecretsSync` | 2 clusters, with names of their own or of one name, 1 service, 3 secrets of which 2 begin alike, concurrency 1 or 2, 1 command besides `sync --all`, 1 edit or render, 1 fault | 502,319 | `TypeOK` `StopsEarly` `ReportTrue` `FixRepairs` `ImplementsPool` `EveryCommandEnds` `Converges` |

### Why the bounds are enough

* Locks: every property relates at most two owners, one before and one after a
  loss of the lock; two processes show each interleaving of the two. Three
  inodes: one named, and one open in each process, are all that can exist at a
  time. Two ticks of lease let the clock run between any two steps of an
  acquisition and before expiry. Two tokens let one client have an old request
  on its way and a new lock, or each client one lock.
* Breaker: three calls in flight are needed to open the circuit and have an old
  result left over; the fourth is a probe beside it. Without old results the
  counters stay below the thresholds, so more calls repeat the same states.
  The counters have no bound of their own: they are limited by the calls that
  can fail while open.
* Bootstrap: three steps give a first, a middle and a last one, so that
  `--from-step` leaves a prefix and `--step` both sides. Two faults let one fault
  hit the deploy that recovers from another. The budget is over the whole
  behaviour; deploys themselves are unbounded.
* Secret store: two commands are one that leaves something and one that finds it,
  or two that overlap. Two attempts have a first and a last; the default is
  three, and the threshold of the run keeps the relation that the assumption
  needs (attempts + 1 below the threshold; the defaults are 3 and 5). Two faults
  can use up the attempts of a method.
* Overlay: `generate` is unbounded and two other commands leave something for it
  or cut in. A service with and one without aggregate targets are the two cases of
  a single render. One fault interrupts one command; what it leaves is what a
  second fault would meet.
* Secrets sync: two clusters race for one variable and one slot, and two of one
  name for one manifest too; in that instance only the first has its key found,
  so that commands that skip occur as well. One service is
  enough for each cluster, since services of one are worked on one after the
  other; the proofs have any number. One edit or render changes a manifest's
  reason to be written while a goroutine is anywhere or between two commands.

### Fairness, and why the code has it

* `FileLock`: time passes; a process inside `acquire` takes its next system call;
  the retry loop's `select` picks a ready case at random, so that a context that
  is done is not ignored for ever (strong fairness of `AcquireTimesOut`).
  Nothing is assumed of operators and holders.
* `RedisLock`: time passes and Redis drops expired keys. No client has to do
  anything.
* `Bootstrap`: a deploy that runs goes on until it returns (its program steps end
  because each is bounded by a timeout or a process exit, which the model takes
  for granted), and the operator deploys again, plain and with `--restart`,
  whenever possible infinitely often. Faults are finite. `BootstrapTorn` keeps
  the first of these and has an operator who never uses `--restart`.
* `CircuitBreaker` has safety properties only: nobody has to call it.
* `SecretStore`: a command sends its next request. Requests end by the HTTP
  client, and the delays between attempts end.
* `Overlay`: a command goes on to its next stage, and one operator generates
  again whenever no command of hers runs. Nothing is assumed of the other
  operator, whose commands are finite.
* `SecretsSync`: as long as some goroutine can go on, one does (weak fairness of
  `Progress` as a whole, no fairness among goroutines), sops ends, and the
  operator runs `sync --all` again whenever no command runs.

### Disagreements with documents

The five violation runs are listed as findings in `PROJECT.json`, each with the
lines it contradicts. In short: a lock file is created empty, and a command that
reads it in that moment removes it as expired; a success of a call from before
the half-open period frees a half-open slot; the state file is rewritten in
place, and a torn one stops all later plain deploys; `--restart` removes two
files, and between the two removals the older one counts; a forced render
removes the backups that it has just made (`cluster_render.go:81` offers `--force`
with "creates backups"). Smaller ones have no run: `circuit_breaker.go:206` says of a success while open "This shouldn't
happen", while a call admitted before the opening can do just that; and
`docs/CODEMAPS/cluster-lifecycle.md:113` says that `--restart` "resumes from last
incomplete step", while it runs all of them; `manager.go:157` decides by a
`Stat` after the write whether a manifest was created, so that none ever is;
and `secrets_sync.go:81` promises to "Sync secrets for all clusters in
organization", of which those that share their name with a cluster of an earlier
organization are not.

## Proofs

All theorems hold for every value of the constants under the assumptions named in
the modules: tokens are not `NoToken`, lease and breaker parameters are positive,
`N` is positive, invocations are flag combinations, bounds are natural numbers.
`IsFiniteSet(Call)` and `IsFiniteSet(Cluster)` are there for cardinalities.

* **RedisLock.** `Typed` adds to the types that every token in a request or a
  lock object was generated. `LeaseBacked` is not inductive by itself; `Tokens`
  adds that tokens in use differ from client to client, and that a late delete
  names no token in use; `ReplyBacked`, that a client whose reply is on its way
  owns the key already, for as long as it will think. A step that changes the store is then an expiry (no
  estimate is left by then: all clocks tick together, and the estimate never
  exceeds the key's time), a script whose comparison matches the owner only, or
  a forced break, which puts the token in `broken`. `Exclusive` follows: two
  clients that own the same key have the same token. `LeaseImplemented` needs
  `Fresh` besides (a SetNX not executed yet is for a token that neither the store
  nor a lock object has), and maps every action to a step of `LeaseLock` or a
  stutter. `OwnedCorrect` and `NeverAgainCorrect` are proved of `LeaseLock` and
  carried over by the refinement.
* **FileLock.** `Descriptors` says that a file is open exactly while its process
  locks, writes or holds it, and that a process at write or held has its flock.
  So only the flock's owner writes an inode, a flocked inode is in use and is not
  recycled, and `HolderNamed` follows. `NoStaleFile` and `NoFlockLeaks` are
  inductive with it.
* **CircuitBreaker.** `NoLeakedSlots` counts slots against probes: an admission
  adds one to both, a success takes one slot and at most one probe.
  `ProbesHalfOpen` (no probes in other states) makes it inductive. `CountsStreak`
  (the failure counter of a closed circuit never runs ahead of the streak) gives
  `TripsOnStreak`. `HalfOpenLimit` is false, since successes of older calls free
  slots; how far it can be exceeded is `OverrunBounded`: `ProbesCounted` says that
  the probes are at most the slots plus the successes counted, since a slot is
  freed only by a success, which is counted, and `SuccessThreshold` of those end
  the period. The bound is reached: TLC refutes one that is smaller by 1.
* **Bootstrap.** Write-ahead: a step runs only while it is recorded as running,
  in memory and on disk (`Marked`), and a deploy without flags has every recorded
  success in memory (`InMemory`), so that saving loses nothing
  (`KeepsProgress`). With no destroy and no legacy file, what is recorded as a
  success is done (`RecordsDone`), which gives `SkipsOnlyDone`; a `--restart`
  and an interrupted save only forget. `EarlierDone` needs both: a step before the
  cursor is there because it was skipped, and then recorded and done, or because
  it ran and was saved, and nothing undoes it while the deploy goes on.
  For `ResumptionImplemented` memory and file must agree exactly, not only in one
  direction (`InMemory` is an equivalence, `Blank` says what memory is before the
  load): else a save could record, beside the step it is for, others that only
  memory knew. Each save is then a `Begin`, a `Record` or a stutter, each
  interrupted save a `Forget`. `RecordFaithful` is proved of `Resumption` and
  carried over.
* **SecretStore.** `Counted` bounds the breaker's count by the attempts of
  `PutSecret`: a nested method adds at most one failure, at its end, and either
  the next success clears it or the attempt is over. While calm, `Progress` says
  that each failed attempt of a put cost a fault, and so did each repetition of a
  lookup that had something to find or of a deletion; fewer faults than
  attempts then leave no way to run out of either, to create over a secret that
  still exists, or to end a put with an error. `RequestsBoundedCorrect` needs no
  calm: `Left` is a measure over the outer attempt, the stage and the inner
  attempt, and each of the ways a request can go (`UseLeft` splits them as the
  retry handlers do) leaves less of it. A put starts with
  `MaxAttempts * (4 * MaxAttempts + 1)`, 39 for the default of three attempts.
* **Overlay.** `Good` ties the overlay to the place in the script: after the
  removal of a lone full render it is empty, during its copy it is the target
  without what is left to copy (`FullRenderExact`); the service of a lone single
  render is whole or still to be copied. `CoverInv` says that a listed or enabled
  service is whole, in `unrendered`, or owned by a command that is touching it,
  as long as no overlapping command touches the overlay; `ListedExists` is what
  remains when nobody runs.
* **SecretsSync.** `SlotInv` equates slots with the goroutines past the
  semaphore, and `LateInv` adds those past the check of the flag to the ones
  already counted late (`StopsEarly`). `LocalInv` says that what a goroutine got
  from sops is the manifest or nothing, as long as it is in `Lonely`: then nobody
  else writes a manifest of its cluster (`home`), and a wrong key decrypts
  nothing, which is why the shared variable cannot make its report false
  (`ReportTrue`, from `ResultInv`). A goroutine that has begun keeps its stages
  out of `Early`, so that it takes its companions out of `Lonely` for the rest of
  the command, and a write spares the manifests of whoever is in `Lonely`
  (`Spares`, `Elsewhere`). `CheckInv` follows the first phase of validate: while the verdict is
  good, the manifests that it is done with agree with the configuration, but for
  those in `unread`, and `seen` are all it will look at. `FixInv` follows the
  second, in which every service is written or reported, unread or not. A
  cluster that ends in the first has manifests for all its secrets (`Complete`);
  both together are `FixRepairs`. `PoolImplemented` follows
  from `SlotInv`: a goroutine that passes the check holds a slot and so do all
  that have begun, so that they are fewer than `cmd.limit` without it
  (`Beginning`); which cluster it works on does not matter. `PoolBounded` is the
  limit for every command, those for a single cluster included, which take no
  slot, and says that no goroutine works again once it has returned.

Checked by TLC only: `AcquireEnds`, `OrphanLapses`, `Completes`,
`EveryCommandEnds` and `Converges` (liveness under fairness is outside what the
prover does), and the violation runs.

## Not modelled

Components that have hazards worth a model and still have none:

* **Key registry, rotation and revocation.** No run of the shipped program reaches
  their states. Only a rotation registers a key, so the registry stays empty;
  `createSOPSManager` (`cmd/secrets_helpers.go:85-88`) passes no key manager, which
  `RotateAgeKey` then dereferences (`rotation.go:545`); `EmergencyRevoke` expects
  two active keys (`revocation.go:431`), which `RegisterKey` refuses to have. A
  model would have to start where the program never is.
* **Checkpoints, transactions, pipeline, stages.** Tested by themselves, but no
  command calls them; the commands render through `copy.go`.
* **`internal/secrets/multi_cluster.go`**: a second way to synchronise all
  clusters that no command uses.
* **Path and validation caches.** They live as long as one command, shorter than
  their entries.
* **Lost updates of the configuration file.** `Overlay` has them (a command saves
  what it loaded earlier), and no property forbids them: the code makes no
  promise to two operators.

The rest of the table of `PROJECT.json` converts data, calls other programs or is
filled once at start-up.

Of the modelled components: the shared in-memory map of the file backend and its
data race with `Refresh`; `GetLockInfo` of the Redis backend, whose two requests
are not atomic but decide nothing; clock drift between processes; ttls below a
millisecond; panics inside a breaker (nothing recovers from them, the process
ends); what provider steps do; cancelled contexts of the Barbican client (the
commands never cancel them), logins and tokens; the infrastructure directory and
the base files of a render, which are written over and never removed; dry runs;
several sync or validate commands at once, and edits of the list of clusters; the plaintext file `secret-*.yaml`
that a crash between writing and encrypting it leaves; `--concurrency 0`, with
which no goroutine ever begins and `sync --all` never returns.

## Running

In this directory: `tlc -config MCRedisLock.cfg MCRedisLock.tla` checks a run,
`tlapm RedisLockProofs.tla` the proofs of a module. `PROJECT.json` lists runs,
properties, theorems, mutants (a changed definition for each property that must
make its run fail) and the source lines of every definition.
