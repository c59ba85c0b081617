# bbsit: TLA+ models and proofs

bbsit is a pull-based deployment daemon. It polls container registries for the
digests of the images its projects use, and redeploys a project's compose stack
when one of them changes. It records what it deployed in SQLite, rolls back a
deployment that fails, and takes orders (deploy, rollback, stop, start) from a
web API and a local admin socket.

What is hard about it is concurrency and failure. Several goroutines operate on
one project: the polling loop, and one per request. They share a mutex that only
some of them take, a database row that each of them reads, keeps while compose
and the registry take their time, and later writes back whole, and a compose
stack on the host. Every step can fail, and the process can die between any two.
That is what this project models, checks and proves.

## Inventory

| Component | State | Operations | Interacts with | What makes it correct |
|---|---|---|---|---|
| Deployer (`internal/deployer`) | one mutex per project; compose files and containers on the host | `Deploy` (with rollback), `ManualRollback`, `Stop`, `Start` | store, compose, health checks, event listeners | one deployment at a time; record, row and host tell the same story, after failures too |
| Scheduler (`internal/scheduler`) | a ticker goroutine | `reconcileAll`, `reconcileOne`, `TriggerManualReconcile` | registry, store, deployer | every new version gets deployed; an up-to-date answer is true |
| State and history (`internal/db`: `project_state`, `deployments`) | current, previous and desired digests, status; deployment records | `GetState`, `UpdateState`, `InsertDeployment`, `FinishDeployment`, `ResetStaleStates` | everything | records end once; recorded digests were deployed |
| Daemon (`cmd/bbsit`) | the process | startup order, shutdown, restart by systemd | all | nothing of an interrupted operation survives a restart as "in progress" |
| Web and admin API (`internal/web`) | goroutines of requests | deploy, rollback, stop, start; project CRUD, import, export | scheduler, deployer, store, tunnels | operations do not undo each other |
| Registry client, health checks | none | digest lookup; HTTP and TCP probes | scheduler, deployer | environment of the models |
| WebSocket hub (`web/ws.go`, `useWebSocket.ts`) | clients, their buffers and subscriptions | register, unregister, broadcast | listeners of the deployer | a slow client never blocks a deployment; no send on a closed channel |
| Backup and restore (`internal/backup`) | a mutex per project; `backup_runs`; files | `Run`, `Restore`, clone | compose exec, store, deployer | a success names a file that this run wrote |
| Project lifecycle and transfer (`web/api.go`, `web/admin.go`) | the project's row, its stack directory, tar bundles | create, update, delete, export, import | deployer, store, `bbsit-ctl pack` | a deleted project leaves nothing behind; a bundle that is kept is whole |
| Tunnel manager (`internal/tunnel`) | config.yml, credentials, a system project per tunnel, DNS records | `ReconcileTunnel`, `DeleteTunnel`, DNS sync | deployer, store, Cloudflare API | cloudflared runs with the last configuration, exactly when the tunnel is enabled |
| Migrations and secrets (`db.go`, `secrets.go`) | schema, encrypted columns | versioned steps at every boot | SQLite | steps are safe to repeat; no plaintext is left |
| Project secrets (`project_secrets.go`) | none | merge of submitted and stored secrets | API | a redacted value never overwrites a secret |
| Snapshots (`ops/snapshot`) | staged and published snapshots | export, pull, prune | rsync, cron | a published snapshot is complete |
| `bbsit-ctl`, login and sessions, frontend pages, config, packaging | none that matters to the others | – | – | see *Not modelled* |

`PROJECT.json` lists every component with its status, and under "hazards" the
places in the code where an order of steps, a stale copy, a crash or a failure
could go wrong, with the properties that cover each.

## Modules

```
ProjectStore   the state row and the deployment records, one operator per SQL statement
   |
Deployer       Deploy, ManualRollback, Stop, Start, step by step, with the host
   |
Scheduler      reconcileOne, step by step
   |
Bbsit          the daemon: workers, requests, registry, crashes; properties
   |       \
   |        DeploymentLog   abstract specification of the history (INSTANCEd by Bbsit)
BbsitProofs    theorems and their proofs

Lifecycle      a project that is created, operated, deleted and created again
ProjectSecrets masking, merging and classifying an environment (operators)
   |
ProjectApi     the requests that use them, concurrently
Migrations     the start of the daemon on an older database, with crashes
Backup         backup runs and restores ------> BackupLog, the abstract table
TunnelManager  tunnels, their files and cloudflared
ZoneMatch      the zone of a hostname (operators)
   |
DnsSync        the DNS records of tunnels
Hub            WebSocket fan-out and the page that listens
VolumePaths    host paths of volumes, stored, packed and mounted (operators)
   |
Transfer       pack and import of a project's files
Snapshots      the export and pull scripts of ops/snapshot
```

`ProjectApiProofs`, `LifecycleProofs`, `MigrationsProofs`, `BackupProofs`,
`TunnelProofs` (of TunnelManager), `HubProofs` and `SnapshotsProofs` hold the theorems
about the module they are named after. `TunnelProofs` also holds those about DnsSync
and ZoneMatch, the other half of the tunnel manager, and `LifecycleProofs` those about
Transfer and VolumePaths, the other half of the admin API; the names of the
specifications (`DnsSpec`, `TransferSpec`) keep the halves apart.

TLC runs most modules as they are. `MCProjectApi`, `MCTransfer`, `MCDnsSync` and
`MCSnapshots` add a symmetry set or constants that a cfg cannot write.

### The core: deployments

**ProjectStore.** `row` is the project's `project_state` row, `deployments` its
records in the order of their ids. A digest map is a total function that is
`NoDigest` on missing keys, as reading a Go map gives `""`; `EmptyMap` is a map
of length 0. `UpdateState` overwrites every column, as its SQL does.
`ResetStaleStates` is two statements outside a transaction, hence two operators.

**Deployer.** A *worker* is a goroutine that operates on the project. `pc` says
which call it makes next, `st`, `target` and `dep` are its local variables
`state`, `targetDigests` and `deployID`. The actions follow the functions:

| Code | Actions |
|---|---|
| `Deploy`: TryLock; GetState and InsertDeployment; mark deploying | `DeployTryLock`, `DeployInsert`, `DeployMark` |
| `executeDeploy`: compose files; pull and up | `DeployWrite`, `DeployUp` |
| health checks and `FinishDeployment(success)`; last `UpdateState`, Unlock | `DeployHealth`, `DeploySave` |
| failure: `FinishDeployment(failed)`; `executeRollback`; `FinishDeployment(rolled_back)`; `UpdateState`, Unlock | `DeployFinishFailed`, `RollbackWrite`, `RollbackUp`, `RollbackHealth`, `DeploySaveFailed` |
| `ManualRollback` | `ManualRollback`, then Deploy's actions |
| `Stop` | `Stop`, `StopMark`, `StopDown`, `StopSave` |
| `Start` | `Start`, `StartMark`, `StartWrite`, `StartUp`, `StartSave` |

Calls are merged into one action only where no other worker could tell: between
GetState and InsertDeployment (the insert does not read the row, and only the
mutex's holder touches the records), between pull and up (a pull changes
nothing that anybody reads), between the verdict of the health checks and
FinishDeployment, and between the last write of the row and the Unlock (which
only a TryLock sees). Each failing
call leaves what it may leave: the old, the new or a truncated override file, or any
mixture of old, new and missing containers. `Image` is what compose runs for a service:
the pin of `compose.override.yaml`, or else the tag, resolved at the registry
because generated compose files say `pull_policy: always` unless the user asks
for another policy.

**Scheduler.** `ReconcileBegin` is the caller's GetState, `ReconcileCheck` the
first write-back, `ReconcilePoll` one lookup (of any service not yet looked up:
the properties do not depend on the order), `ReconcileDecide` the second
write-back with the three ways on. A failing lookup writes the row too.

**Bbsit.** The polling goroutine is a worker that only ever reconciles
(`Tick`); a request goroutine runs one operation at a time (`Api`). `Push`
moves a tag of the registry. `Crash` loses mutexes and goroutines and keeps
database, files and containers; `Boot` is `ResetStaleStates`, during which the
process can die again. A crash inside a compose command is a failing command
followed by a crash. A shutdown by signal is a crash as far as a project is
concerned, except that the poller may finish first, which is a crash a bit later.

**DeploymentLog** is what the history promises by itself: at most one deployment
in progress; each starts from nothing or from digests that an earlier one
deployed; it ends once; and only the newest, failed one can still become
`rolled_back`.

#### What the core leaves out

One project, which exists throughout, with a fixed set of polled services.
Services that are not polled have no digest and no influence on the row.
Database statements succeed: Deploy and reconcileOne ignore the errors of
`UpdateState`, and an unreachable local SQLite file is outside of what bbsit
handles. `last_error`, timestamps, triggers, events and log lines are left out.
The poll interval is left out: a pass may begin whenever the poller is idle,
which covers every interval. The poller walks its projects one after the other;
with one project, the delay one project's deployment causes another is not modelled.
Stop of a project that was never deployed or started succeeds here, where compose
would refuse for want of a `compose.yaml`: the model allows more than the code.

### The other components

**Lifecycle** asks what the operations of the deployer do when the project they
read at their start is deleted, or deleted and created again under the same id.
`gen` is the row's generation, 0 when there is none; a digest is known by the
generation it was deployed for. `DeleteProject` is the second half of
`apiDeleteProject`, after a `Stop` whose error the handler ignores; `UpdateState`
changes no row when there is none, as its SQL does; the deployments of a deleted
project go with it. `Request` begins deploy, start, stop and delete on any
goroutine; the steps after it are those of Deployer, with the digests left out.

**ProjectSecrets, ProjectApi.** The operators are the functions of
`project_secrets.go`: what is masked in an answer, when a submitted mask can be
resolved, which keys are secret afterwards, which become visible. A handler of
ProjectApi reads the row and merges in one action (`apiUpdateProject`,
`apiCreateProject`, `upsertProject`, `apiDeleteProject`) and writes in another,
because the code does, without a lock or a version check.

**Migrations** is one start of the daemon, one action per committed statement:
`OpenWithKey` with the creation of the key file, v3 (projects, states, deployments),
v4, the clean-up marker, v8 (encryption), `CleanUp` (checkpoint and vacuum) and v9
(classification). The state
is what the file, its write-ahead log and the rows hold, a value being known by the
key that encrypts it. The operator may lose, exchange and restore the key file, and
the API may store projects between two starts.

**Backup** has the goroutines of `Service.Run` and `Service.Restore`, the lock per
project, the table and the files in `backups/` with their modification times. The
command is a process of its own inside the container: it may write, write nothing,
hang, and go on after the daemon has stopped waiting for it; the daemon stops waiting
when the timeout kills its client *and* the output pipes are closed (`ExecKilled`). A
restore may go into the project, into a clone that is checked, created and started in
three steps, or into such a clone as the project it is by then; its command too may
outlive it.
**BackupLog** is what the table promises: a run is appended in progress and ends once.

**TunnelManager** has the tunnel rows, the ingress that projects ask for, the
system projects, the two files, the containers with the files *as they read them
when they started*, the manager's mutex, and the background starts, restarts and
scheduled deployments that run without it. `ListTunnels`, `ReconcileLock`,
`collectIngressFor`, `writeFiles`, `updateSystemProject` and what follows are the
steps of a reconciliation; the handlers of `tunnels.go` merge, write the row and
leave a goroutine behind. A deletion is four steps under the mutex: `deleteStop`,
`deleteProject`, `removeAll`, `deleteTunnel`. A start that finds no files puts
directories in their place (`Dirs`), as `WriteComposeFiles` does with every bind mount;
`overtaken` holds the tunnels whose directory was removed while a start or a deployment
was still to come.

**DnsSync** has the reconciliations again, reduced to what decides about DNS: an error
if the row is gone, no goroutine when the system project is created or the tunnel is
disabled, and otherwise a `syncDNS` goroutine with the hostnames *and the target* of
that moment. For each hostname it lists the records, decides, and creates or updates
one. Targets change, tunnels are disabled, deleted and created again, hostnames move.
The records of a hostname keep their order and unrelated types. Pending reconciliations
of one tunnel are one element of `waiting`; a second one does what a request for a
sync (`saveTunnel` with the same row) does when the first has run. **ZoneMatch** is the loop of `FindZoneForHostname` on names that are
sequences of characters, against the definition of the most specific owning zone.

**Hub** has the hub's goroutine, the two pumps of each client, the buffered event
and send channels, the goroutine that unregisters a slow client, `Stop`, and the
page of `useWebSocket.ts` with its reconnects. A send on or a close of a closed
channel sets `panic`.

**Transfer** packs the files of a project, one `Stat` and one copy each, while the
containers change or remove them; `PackEnd` is the deferred `Close` of the
archive. The import extracts entry by entry and writes the row last.
**VolumePaths** follows a host path from the request through `Clean`,
`normaliseVolumeHostPath` and the choice of a tar entry to the mount on another host.

**Snapshots** has the two scripts of `ops/snapshot`. A directory is the set of its
entries; `rm -rf`, `rsync` and `cp -al` are several steps, a rename is one. A power
loss drops what was not flushed; it keeps renames in their order, as a journalled
file system does.

## Properties and runs

Bounds are constants of each cfg. States are distinct ones; every run takes less than
four minutes. `TypeOK` is checked for the core; in the other modules it documents the state, and
holds on the same instances when added to their cfg. It is proved for the core, for
`ProjectApi` and for `Migrations`; the other proofs have `Types` of their own, without
the bounds on counters that only limit the runs.

| Run | Instance | Checks | Result |
|---|---|---|---|
| `crash_recovery` | 1 service, 2 digests, poller and a request of any kind, 1 push, 1 failure, 1 crash | `TypeOK`, `InProgressIsOwned`, `DigestsWereDeployed`, `LogRefinement`, `DeploymentsEnd` | holds, 1.0 million states |
| `scheduler_alone` | 2 services, 3 digests, poller only, 2 pushes, 1 failure, 1 crash | `DeployingHasDeployer`, `RecordedIsRunning`, `Converges` | holds, 819 thousand states |
| `stuck_deploying` | poller and 1 manual deploy, no failure | `Converges` | **violated** |
| `lifecycle` | 2 goroutines, 4 operations, 2 creations of one id, 1 failure | `RecordsAreOwned`, `NothingLeftBehind`, `StatusMatchesHost` | holds, 198 thousand states |
| `secrets` | 2 handlers, 2 keys, 2 values, any number of requests | `MaskNotStored`, `NothingLeaks`, `ExportImportIdentity`, `UpdateKeepsSecrets` | holds, 166 thousand states |
| `transfer` | every host path of up to 3 elements out of 6, 2 files of size 0 or 1, 2 changes, 2 imports | `ImportIsWhole`, `KeptBundlesAreWhole`, `DataFollowsMount` | holds, 2.3 million states |
| `migrate` | 2 projects of every legacy shape, 2 keys, 2 crashes, 2 stores, key lost, exchanged, restored | `NoPlaintextWhenUp`, `RowsCurrent`, `EnvSurvives`, `KeyOpensDatabase`, `KeyedStartsSucceed` | holds, 1.6 million states |
| `backup` | 2 goroutines, 2 runs, 2 restores, any timeouts, 1 failure or crash | `InProgressIsOwned`, `OneInFlight`, `LogRefinement`, `RecordedFileIsOwn`, `BackupsEnd` | holds, 2.2 million states |
| `tunnel` | 1 tunnel, 1 hostname, 2 tunnel ids and 2 secrets, 3 requests on 2 goroutines, 1 failure or crash | `FilesMatchRows`, `IngressConverges` | holds, 1.0 million states |
| `dns` | 2 tunnels, 2 targets, 1 hostname, every listing of up to 2 zones of up to 3 characters, 3 requests, 1 failing call | `DnsFollowsRoutes`, `LongestSuffix`, `SiblingsKept` | holds, 739 thousand states |
| `hub` | 2 connections, buffers of 2 and 1, 3 events, 2 changes of the page's projects, a stop | `NoPanic`, `NoSilentGap`, `SubscriptionsFollow`, `SlowClientsLeave` | holds, 602 thousand states |
| `snapshots` | 3 runs, 1 failing command, 1 power loss on each side | `KeptRunsAreWhole`, `LatestIsWhole`, `NewestArrives` | holds, 2.4 million states |

What the properties say is written above each of them in its module; what they
show is this.

**Deployments.** The *history* is sound under every interleaving, failure and
crash: `InProgressIsOwned`, `LogRefinement`, `DeploymentsEnd`. So are the recorded
*digests* (`DigestsWereDeployed`): Deploy finishes the record before it saves the
row, so that whatever a stale write restores was deployed once. The *status*, and
the agreement of the row with the host and the registry, hold for the polling loop
by itself, crashes and failures included (`scheduler_alone`). They do not hold when
a request overlaps a poll: `reconcileOne` writes its copy of the row back after its
lookups. In `stuck_deploying` a poll reads the row while a manual deploy has it
marked `deploying`, and writes that back after the deploy has finished; from then
on every poll sees a new version and skips it ("deployment already in progress"),
until the daemon restarts.

**Lifecycle.** The mutex and the records survive a deletion (`RecordsAreOwned`:
`FinishDeployment` of a deleted record changes nothing, and the mutex is that of the
id). For the host, more is needed. `disturbed` remembers what ever
overlapped: `NothingLeftBehind` says that a deletion leaves no containers whatever
overlapped before it, and `StatusMatchesHost` that the status describes the host
while no operation ever overlapped another.

**Secrets.** The mask never becomes a value, no value that was only ever submitted
as a secret is shown, and an export can be imported back, under any interleaving.
What an update does to a value it did not touch, and its audit warning, are right
(`UpdateKeepsSecrets`) if nothing was written between its read and its write; the
field `fresh` of a handler says so.

**Transfer.** An import that reports success has written the whole bundle. A bundle
that `bbsit-ctl` keeps is whole if no container wrote during the export. Storing a
path keeps the directory it names, and what an import extracts is what the target's
container mounts.

**Migrations.** The steps are safe to repeat from any crash, no secret stays
readable in the database or its log, no variable or classification is lost and no
start draws a second key for an encrypted database. `customs` holds the projects
that were stored in custom mode after encryption, which v4 treats otherwise (below).

**Backups.** Records are owned, whatever hangs or crashes, and the table implements
`BackupLog`. A run ends, with one exception: its timeout has killed the client, the
command in the container hangs on, and so do the output pipes (`Held`). While no context
expires and the daemon lives, a success names the file its own command wrote, if it
wrote one (`RecordedFileIsOwn`), and "one backup or restore in flight per project" holds
for the commands in the containers and not just for the goroutines, of a project and of
a clone that two restores reach in different ways (`OneInFlight`).

**Tunnels.** What is on disk follows the rows, through crashes too; the one exception,
an `overtaken` tunnel with directories for files, is part of `FilesMatchRows`. What runs
follows as long as nothing disturbs the tunnel: `disturbed` holds the tunnels that
were disabled, deleted, or met a failing command or a crash. DNS records follow the
routes and targets, through moves, changes, deletions and re-creations, with three
exceptions that `DnsFollowsRoutes` names: a hostname whose last goroutine was started
while one with another target was still at it (`contested`), a tunnel whose last
reconciliation created its system project (`unsynced`), and a name with several address
records. That writers of one target are harmless however they overlap, and that a
goroutine that is done cannot undo anything, is what is left and what is proved. The
zone of a hostname is the most specific one in every listing order.

**Hub.** Buffers of two and one stand for 64 and 256: the properties are about full
and empty buffers, and three events fill them.

**Snapshots.** The exporter keeps one run and the puller two daily ones, so that
both prune what the other may read, and three runs make each of them do it.

### Known limits of the code

The conditions of the properties are not there for the checker's sake: each stands
for a behaviour of the code that the model has and that the property would not
survive. Without the condition TLC shows it in a few steps. Two items are read off the
code and are in no model: absolute volumes of a clone, and secrets in the text of a
custom compose file.

* *Stop and Start take no mutex* (`deployer.go:265`, `292`), so compose down or an
  unpinned up can run inside a deployment. `docs/backups.md:149` says otherwise.
  `Start` also writes compose files without pins (`deployer.go:301`): once the tag
  has moved, it runs an image the row does not name. Hence `RecordedIsRunning` is
  checked without requests, and `StatusMatchesHost` without overlaps.
* *A poll undoes a rollback in the row* (`scheduler.go:185`), by the same stale write
  as in `stuck_deploying`. And up to date is decided against the row
  (`scheduler.go:175`): after a crash between compose up and the last save, and a
  tag that is moved back, the containers stay on the other version. `Converges` is
  therefore about the recorded digests.
* *Deletion* (`api.go:218`) ignores the error of `Stop` and waits for nobody: a
  failing compose down, or a deployment in flight, leaves containers without a
  project, and the last write of such a deployment lands in the next project of the
  same id (`deployer.go:150`).
* *Updates of a project* (`api.go:193`) have neither lock nor version: a rotation of
  a secret between another update's read and write is undone, and a key classified
  meanwhile becomes visible without a warning. The export of a project without
  variables, imported over one with secrets, keeps their values and makes them
  visible (`project_secrets.go:64`).
* *Export* (`admin.go:252`): an error while packing is only logged, the deferred
  `Close` makes the archive valid, and `bbsit-ctl` keeps it. A directory such as
  `..data` is outside the stack when its path is stored (`api.go:546`) and inside
  when it is packed.
* *Migration v4* runs at every start (`db.go:490`) and cannot parse an environment
  that is encrypted: a custom-mode project that was stored with services loses it.
  If all rows are of that kind, v4 has replaced every value before v8 looks, and an
  exchanged key is accepted. The text of a custom compose file is never encrypted:
  `NoPlaintextWhenUp` does not count what an operator wrote into it. The key file is
  created empty and then written (`secrets.go:77`); after a crash in between, every
  later start refuses it (`KeyedStartsSucceed` is about a complete key).
* *Backup files*: `newestMatch` tolerates five seconds (`backup.go:199`), so that a
  command that writes nothing may be credited with its predecessor's file, against
  `docs/backups.md:152`. A command that outlived its context goes on writing while
  the lock is free (`backup.go:97`), and a restore's goes on replacing data. `Exec` sets
  no `WaitDelay` (`exec.go:86`): if a child of the killed client holds the output pipes,
  the run and its lock wait for the command after all, perhaps for good. A clone keeps
  absolute volume paths (`restore.go:168`), so that a restore into it replaces the data
  of the project, which `restore.go:24-27` says it does not touch; each has its own
  lock, so that a backup of the one may meet a restore of the other. A clone stays
  behind as a project when its start fails (`restore.go:64`).
* *cloudflared* (`manager.go:116`, `129`, `137`): a tunnel that is enabled again is
  only restarted, and only if `config.yml` changed; a failed restart is not
  repeated; a background start may come after a disable or a deletion; a new
  secret is written and not loaded; two overlapping updates may undo a
  rotation (`tunnels.go:127`). `DeleteTunnel` removes the directory (`manager.go:404`)
  without waiting for the start of line 116: a start that comes later makes directories
  of the two bind-mounted files, and every reconciliation of a new tunnel of that id
  fails in `writeCredentials`.
* *DNS*: of two goroutines with different targets for one hostname, that of the former
  tunnel or target may write last (`manager.go:145`). The reconciliation that creates
  the system project returns before the sync (`manager.go:120`): the records of a new
  tunnel wait for the next save. Next to a second address record Cloudflare refuses the
  CNAME, and `ensureCNAME` replaces only the first (`manager.go:208`).
* *Events* (`ws.go:61`): an event that finds the hub's buffer full is dropped for all
  pages, none of which can tell. `NoSilentGap` is about the buffers of the clients.
* *Snapshots*: `cp -al` builds a weekly or monthly point under its final name
  (`bbsit-snapshot-pull:149`), and a power loss leaves a part of it that later pulls
  take for the whole: no property is about these points. A pull that ends between
  its two renames leaves `latest` one snapshot behind until the next run (line 189),
  hence the condition of `LatestIsWhole`; one that ends during the copy leaves a
  `.partial` directory that refuses the run for good, hence that of `NewestArrives`.

### Bounds, deadlock, fairness, mutants

One service and two digests suffice for `crash_recovery`, whose properties are
about the row, the mutex and the history as wholes. Two services are used where
"all services together" matters: partial failures of compose, and tags that move
between two lookups. Three digests allow a current, a previous and a new version at
once. Two goroutines are enough for every race found here, all of which are between
one goroutine's read and its write. The clock of `Backup` ticks once, and a tick is
longer than the tolerance of `newestMatch` (`Skew = 0`): files of one tick are not
told apart. One hostname is enough for `dns`: hostnames share nothing but the goroutine
that takes them in turn. Three requests route it, delete its tunnel and create that again, or
change a target twice under a goroutine that is still at work. Tunnels are
interchangeable there, and so are targets, hence the symmetry; the run has no liveness
property.

The runs of `Bbsit` check for deadlock. The others say `CHECK_DEADLOCK FALSE`:
their requests are bounded and a system with nothing to do may stop. A goroutine that
waits for ever would show in the liveness properties of `migrate`, `backup`, `tunnel`,
`hub` and `snapshots`; nothing waits in the other modules.

Fairness is assumed of a goroutine's next step, of the ticker and of the restart by
systemd (`Restart=always`), never of requests, pushes, failures or crashes, nor of
the exporter. Goroutines are scheduled, and files, registry lookups, health checks
(30 s timeout, bounded retries) and compose commands return. For compose this is an
assumption on docker: `composeCmd` has no timeout. Three cases deserve a word:

* reconciliations of tunnels wait for a mutex that others take again and again: Go's
  mutex does not starve a waiter, hence strong fairness of `Step` in TunnelManager.
  Everywhere else weak fairness is enough, in the hub too, where each case of the
  `select` stays ready until it is taken;
* the backup's command may hang for ever: `Exec` has a context that expires, and
  that expiry, not the command's end, is what `BackupsEnd` relies on. The return of the
  killed client is only assumed once nothing can hold its pipes, that is, when the
  command has ended (`~Held`); `BackupsEnd` excepts the run that waits for it;
* `KeyedStartsSucceed` assumes that systemd goes on restarting the daemon.

Each property of a passing run has a mutant, an operator that changes one
definition the way a plausible bug would (no check of TryLock, row saved before
the record, a missing statement of the restart's clean-up, a dropped sync, ...), under which the
property fails.

## Proofs

Every theorem holds for every value of the module's constants: any sets of projects,
keys, connections, goroutines, and any bound on faults, crashes and requests. The
assumptions are the named `ASSUME`s of the modules, which TLC evaluates in the runs:
special values differ from ordinary ones, sizes are natural numbers, and, for the
core, the workers are the poller and the request goroutines. `TunnelAssumption` says,
for the proof, that `NoProject` is none of the rows a system project can have.

| Module | Theorem | States |
|---|---|---|
| `BbsitProofs` | `Invariance` | `[](TypeOK /\ IInv)` |
| | `Ownership` | `[]InProgressIsOwned` |
| | `RecordedDigests` | `[]DigestsWereDeployed` |
| | `HistoryRefinement` | `LogRefinement`: Bbsit implements DeploymentLog |
| | `MarkHasDeployer` | `[]DeployingHasDeployer`, if `Requests = {}` |
| | `RunsWhatIsRecorded` | `[]RecordedIsRunning`, if `Requests = {}` |
| `ProjectApiProofs` | `TypeCorrect` | `[]TypeOK` |
| | `MaskNeverStored` | `[]MaskNotStored` |
| | `NoLeak` | `[]NothingLeaks` |
| | `ExportImport` | `[]ExportImportIdentity` |
| | `UpdatesKeepSecrets` | `UpdateKeepsSecrets`, an action property |
| `LifecycleProofs` | `RecordsOwned` | `[]RecordsAreOwned` |
| | `NoContainersLeft` | `[]NothingLeftBehind` |
| | `StatusTrue` | `[]StatusMatchesHost` |
| | `ImportsAreWhole` | `[]ImportIsWhole` of Transfer |
| | `QuietExportsAreComplete` | `[]KeptBundlesAreWhole` of Transfer |
| | `DataFollows` | `[]DataFollowsMount` of Transfer, for paths of any length |
| `BackupProofs` | `OwnedInProgress` | `[]InProgressIsOwned` |
| | `AuditRefinesLog` | `LogRefinement`: Backup implements BackupLog |
| | `CommandsExclude` | `[]OneInFlight` |
| | `SuccessNamesOwnFile` | `RecordedFileIsOwn`, an action property |
| `HubProofs` | `HubNeverPanics` | `[]NoPanic` |
| | `NoGapIsSilent` | `[]NoSilentGap` |
| | `SubscriptionsArrive` | `[]SubscriptionsFollow` |
| `MigrationsProofs` | `MigrationTypes` | `[]TypeOK` |
| | `NoPlaintext` | `[]NoPlaintextWhenUp` |
| | `KeyOpens` | `[]KeyOpensDatabase` |
| | `VariablesSurvive` | `[]EnvSurvives` |
| | `RowsAreCurrent` | `[]RowsCurrent` |
| `TunnelProofs` | `RowsReachFiles` | `[]FilesMatchRows` |
| | `DnsConverges` | `[]DnsFollowsRoutes` of DnsSync |
| | `TxtRecordsStay` | `SiblingsKept` of DnsSync, an action property |
| | `ZoneOfHostname` | `[]LongestSuffix` of DnsSync, for names and listings of any length |
| `SnapshotsProofs` | `KeptWhole` | `[]KeptRunsAreWhole` |
| | `LatestWhole` | `[]LatestIsWhole` |

One hypothesis restricts two theorems to a configuration, and the code needs it. With
request goroutines beside the poller, a stale write can leave `deploying` in the row
(the `stuck_deploying` run), and `start` runs unpinned images. The run
`scheduler_alone` is an instance in which the hypothesis holds.

Hardly any of these properties is inductive. Each proof module defines an inductive
invariant, checked by TLC on the component's run before it was proved, as a
conjunction of named parts; the proof has a lemma or a step per action and, under it, one per
part that the action can disturb.

**The core, `IInv`** (defined in Bbsit).

* `LockInv`: the mutex's holder is exactly the worker inside Deploy, and nobody
  runs while the daemon is down;
* `RecordInv`: that worker's record is the newest one, has its `from` and `to`,
  and has the status that fits the step the worker is at;
* `TargetInv`: a target has a digest for some service, because a finished poll
  has one for each, and ManualRollback refuses an empty map;
* `CopiesInv`: the row *and every worker's copy of it*, however stale, name only
  deployed digests. Without the copies, `UpdateState(st[w])` would break it;
* `HistoryInv`: only the newest record can be in progress, and its owner is past
  the insert.

The refinement maps DeployInsert to `Open`, the three finishing actions to `Close` and
`RollBack`, and the boot to `Close` of the newest record or to a stutter.

**The polling loop alone, `AloneInv`.** `RowInv`: the loop's copy of the row is not
stale, the row says `deploying` exactly while Deploy is past its mark (or until the
restart resets it), and current digests are for all services or for none. `HostInv`:
override file and containers follow Deploy's steps. `PinsAll` and `UpRunsPins` carry
the argument: a map with every digest is its own override file, and `compose up` with
every service pinned runs exactly the pins.

**ProjectApi, `ApiInv`.** `SoundInv`: the row and every project on its way to it have
their secrets, and none is the mask. `VisibleInv`: what a response would show of them
is among the values submitted as visible. `FreshInv`: an update that no write came in
between was computed from the present row. The lemmas are about the merge: it turns a
sound project and an accepted request into a sound project.

**Lifecycle, `LifeInv`.** `LockInv` and `RecordInv` as in the core, over projects that
come and go. `DeletionInv` and `QuietInv` are conditional on the history variable
`disturbed`: while no deletion was disturbed, a deletion runs alone and nothing runs
for a project that is gone; while nothing overlapped at all, the one operation works
on its own generation, and its copy of the state is true again when it is written.

**Backup, `BackupInv`.** `LockInv` and `RecordInv`: the goroutine inside `Run` holds
the lock and owns the one record in progress; after a crash that record is left and no
other. `ClockInv`: nothing is from the future. `FileInv`: as long as no context
expired and the daemon lived, commands run only while their goroutine waits, so that a
finished command's file is complete and the newest until the run ends. `RestoreInv` says
the same of the commands of restores (`SourceInv`: each has a number and a target). With
`LockInv` it gives `OneInFlight`: whoever waits for a command holds the lock of the
target the command is at work in.

**Hub, `HubInv`.** `ChannelInv`: registered clients and closed channels are disjoint,
a connection that was never registered is neither, and a client that missed an event
is leaving. `OrderInv`: what the browser has is older than what is buffered, which is
older than what the hub has yet to hand out. `PageInv`: the newest message on its way,
or else the server's subscriptions, is what the page wants.

**Migrations, `MigInv`.** `PhaseInv`: what the steps behind the daemon have
established. `RowInv`: where the variables of a project are, in its environment or still in its
custom compose text. `FileInv`: the files show what the rows hold, and after the
recorded clean-up nothing else. `KeyInv`: who can open the encrypted values when the
key file is lost, exchanged or restored. One lemma per step that changes rows.

**TunnelManager, `TunnelInv`.** `LockInv`, and `SyncInv`: a tunnel that nobody will
reconcile again from the start is being reconciled or deleted *from the present
tables*, or is as its row says. The present tables are the point: the argument is that
a handler that changes a row leaves its own reconciliation pending. `SyncInv` gives up
on a tunnel whose files are directories; `DirInv` says when that can be: a system
project has files and whoever makes one has written them, so that only a start or a
deployment that a deletion has overtaken finds none.

**Transfer, `BundleInv` and `PathInv`.** `TarInv`: the entries come in the order of the
walk, and only the last may be incomplete, because no header follows an incomplete
entry. `OutInv`: a kept bundle never changes and has its closing blocks exactly if
its last entry is complete. `ImportInv`: what the running import has passed is whole on
the disk, whatever earlier imports left there. `UndisturbedInv`: while nothing changed, the
walk meets no error, and every file behind it has an entry. `PathInv`: the row holds
the normalised path, and only a volume below the stack is walked.
`DataFollows` rests on the algebra of paths: what `Clean` leaves (`CleanedElements`,
`CleanedHead`), that it is idempotent (`CleanedTwice`) and can be applied before or
after `Join` (`CleanedBelow`), and that `Rel` undoes `Join` (`RelBelow`, `RelOfBelow`).
`StoringKeepsDirectory` and `StoringTwice` say what `normaliseVolumeHostPath` keeps.

**DnsSync, `DnsInv`.** `Given` extends the hostnames that `DnsFollowsRoutes` speaks of
to states that are not quiet: the tunnel's routes and target have been handed to a
goroutine since they last changed. `WritersInv`: whoever is still at such a hostname
writes the same target. `IndexInv`: the address record in a goroutine's listing, however
old, is still at its place. `RoutesInv`: such a hostname is served, or a goroutine whose
listing is up to date or still to come has it before it. The point is a create or update
that is decided on an old listing: it does nothing, or writes what is wanted.
`ZoneOfHostname` goes from the loop of `FindZoneForHostname`
(`LoopFindsLongest`) and its string comparison (`SuffixEnds`, `MatchesIsOwns`) to the
definition of the most specific zone that owns the name.

`DataFollows` and `ZoneOfHostname` are inductions over data. The library's induction theorems take
an operator, which the provers cannot instantiate; these proofs use first-order ones
instead: `SetInduction` and `SeqInduction` have a set in the place of the predicate,
and `LoopExists` says that the function a loop computes exists, as the function that
`CHOOSE` picks in a recursive definition must.

**Snapshots, `SnapInv`.** `StageInv` and `CopyInv`: what is in a `.partial` directory
and what of it is flushed at each step, that everything is before its rename, and that
a run that is copied is newer than every daily snapshot, because `ready/` never
reaches less far than it did (`Reached`). `ReadyInv`, `DailyInv`: what is kept is
whole. `LatestInv`: every snapshot that `latest` is behind, but the one being linked,
has cost a failed pull, so that retention cannot reach what `latest` names.
`NewestRemove`, `NewestAdd`, `NewestAbove` and `PruningKeepsNewest` say, of any
directories and retention, that pruning and adding disturb no directory that is kept.

### Only model-checked

* Liveness (`Converges`, `DeploymentsEnd`, `BackupsEnd`, `KeyedStartsSucceed`,
  `IngressConverges`, `SlowClientsLeave`, `NewestArrives`): the prover has
  no rules for fairness and `ENABLED`.

Every invariant and every other action property of the passing runs is a theorem.

## Not modelled

* *Login and sessions* (`server.go`, the auth table): no other component reads
  that state.
* *`bbsit-ctl`* except for `writeNewFile`: one request per command.
* *Registry client and health checks*: their outcome is an input of the core; how a
  digest is found in a command's output, and how often a probe is repeated, is not.
* *Container runtime, Cloudflare, rsync, SQLite, the file system*: external; the
  models take from them what the code relies on.
* *Validation* of ports, schedules and names, *listings*, log and error texts,
  timestamps and metrics: no property is about them.
* *Configuration, frontend pages, installation scripts*: they keep no state that the
  daemon relies on. (Nothing refetches a page's data after a reconnect.)
* *DNS of tunnels without an API token* (nothing is synced) and a *crash of the daemon*
  in DnsSync: the goroutines are lost like with an expired context, and the startup
  reconciles every tunnel again.
* *Several projects at once* in the core: projects share only the polling loop.
* *The composition of the components with each other.* Backup, TunnelManager and
  Lifecycle use the deployer's operations as steps of their own rather than
  composing Deployer, whose interleavings the core covers.

## Plan

All components of the plan are modelled, and every safety property that the passing
runs check is proved. What could be added, in this order:

1. `Lifecycle` and `TunnelManager`: action properties that the invariants above
   already support.
2. Several projects in the core, for the delay that one project's deployment causes
   in the polling loop of the others.
