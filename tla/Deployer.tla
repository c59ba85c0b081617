------------------------------ MODULE Deployer ------------------------------
(***************************************************************************)
(* internal/deployer: the operations that change a project's compose stack.*)
(* Each is run by some goroutine ("worker"), and each database call, file  *)
(* write and compose command of it is a step of its own, so that the steps *)
(* of several workers interleave the way the goroutines' do.               *)
(*                                                                         *)
(* A worker keeps in st the *types.ProjectState it read, and writes the    *)
(* WHOLE row back from it later; what other workers wrote meanwhile is     *)
(* lost.  Only Deploy takes the project's mutex; Stop and Start do not.    *)
(***************************************************************************)
EXTENDS ProjectStore

CONSTANTS
    Workers,     \* goroutines that operate on the project
    NoWorker,    \* "the mutex is free"
    Down,        \* what a service runs when it has no container
    MaxFaults    \* bound: failures of files, compose, health checks, polls

ASSUME DeployerAssumption ==
    NoWorker \notin Workers /\ Down \notin Digests /\ MaxFaults \in Nat

VARIABLES
    lock,        \* holder of the project's mutex (Deployer.locks), or NoWorker
    pc,          \* the step each worker is about to take
    st,          \* each worker's *types.ProjectState
    target,      \* each worker's targetDigests
    dep,         \* each worker's deployID (0: none)
    override,    \* compose.override.yaml: the pinned services and their digest
    containers,  \* what each service's container runs
    remote,      \* what the registry serves for each service's tag
    faults       \* failures so far, bounded by MaxFaults

hostVars  == <<override, containers>>
localVars == <<st, target, dep>>

DeployPC == {"insert", "mark", "write", "up", "health", "save", "finishFailed",
             "rbWrite", "rbUp", "rbHealth", "saveFailed"}
StopPC   == {"stopMark", "down", "stopSave"}
StartPC  == {"startMark", "startWrite", "startUp", "startSave"}

\* The override file names only pinned services; no entry at all is no file.
Overrides == UNION {[S -> Digests] : S \in SUBSET Services}

DeployerTypeOK ==
    /\ lock \in Workers \cup {NoWorker}
    /\ st \in [Workers -> ProjectState]
    /\ target \in [Workers -> DigestMap]
    /\ dep \in [Workers -> Nat]
    /\ override \in Overrides
    /\ containers \in [Services -> Digests \cup {Down}]
    /\ remote \in [Services -> Digests]
    /\ faults \in 0..MaxFaults

DeployerInit ==
    /\ lock = NoWorker
    /\ pc = [w \in Workers |-> "idle"]
    /\ st = [w \in Workers |-> NewRow]
    /\ target = [w \in Workers |-> EmptyMap]
    /\ dep = [w \in Workers |-> 0]
    /\ override = << >>
    /\ containers = [s \in Services |-> Down]
    /\ remote \in [Services -> Digests]
    /\ faults = 0

-----------------------------------------------------------------------------
\* Control flow of worker w.
Goto(w, label) == pc' = [pc EXCEPT ![w] = label]

Step(w, from, to) == pc[w] = from /\ Goto(w, to)

SetStatus(w, status) == st' = [st EXCEPT ![w].status = status]

Fault == faults < MaxFaults /\ faults' = faults + 1

NoFault == UNCHANGED faults

\* The operation returns: its locals are gone.
Return(w) ==
    /\ Goto(w, "idle")
    /\ st' = [st EXCEPT ![w] = NewRow]
    /\ target' = [target EXCEPT ![w] = EmptyMap]
    /\ dep' = [dep EXCEPT ![w] = 0]

\* GetState into the worker's own copy.
ReadState(w) == st' = [st EXCEPT ![w] = row]

-----------------------------------------------------------------------------
\* The host: compose files and the compose command.

\* Mutant: nothing is pinned.
MutNoOverrides(digests) == << >>

\* Services whose digest is known are pinned, the others stay on their tag.
buildImageOverrides(digests) ==
    [s \in {t \in Services : digests[t] # NoDigest} |-> digests[s]]

\* compose.yaml first, then the override is written or removed, then .env and
\* the volume directories: an error leaves the old override, the new one, or one
\* that was truncated and not written, which pins nothing.
WriteComposeFiles(overrides) == override' = overrides

WriteComposeFilesFails(overrides) ==
    Fault /\ override' \in {override, overrides, << >>}

\* The image compose would run: the pin if the override file has one, else the
\* tag, which the default pull_policy "always" resolves at the registry.
Image(s) == IF s \in DOMAIN override THEN override[s] ELSE remote[s]

composeUp == containers' = [s \in Services |-> Image(s)]

\* A failing up may have recreated, removed or not reached each container.
composeUpFails ==
    /\ Fault
    /\ containers' \in [Services -> Digests \cup {Down}]
    /\ \A s \in Services : containers'[s] \in {containers[s], Image(s), Down}

composeDown == containers' = [s \in Services |-> Down]

composeDownFails ==
    /\ Fault
    /\ containers' \in [Services -> Digests \cup {Down}]
    /\ \A s \in Services : containers'[s] \in {containers[s], Down}

-----------------------------------------------------------------------------
\* Deploy(p, target[w]).

\* Mutant: the result of TryLock is ignored.
MutNoTryLock(w) ==
    /\ Step(w, "tryLock", "insert")
    /\ lock' = w
    /\ UNCHANGED <<localVars, hostVars, storeVars, remote, faults>>

\* mu.TryLock(): go on with the mutex, or return "already in progress".
DeployTryLock(w) ==
    /\ pc[w] = "tryLock"
    /\ \/ /\ lock = NoWorker
          /\ lock' = w
          /\ Goto(w, "insert")
          /\ UNCHANGED localVars
       \/ /\ lock # NoWorker
          /\ Return(w)
          /\ UNCHANGED lock
    /\ UNCHANGED <<hostVars, storeVars, remote, faults>>

\* GetState and InsertDeployment.  Only the mutex's holder touches the history,
\* so that nothing can tell the two calls from one step.
DeployInsert(w) ==
    /\ Step(w, "insert", "mark")
    /\ ReadState(w)
    /\ InsertDeployment(row.current, target[w])
    /\ dep' = [dep EXCEPT ![w] = Len(deployments) + 1]
    /\ UNCHANGED <<lock, target, row, hostVars, remote, faults>>

\* state.Status = deploying, DesiredDigests = target; UpdateState.
DeployMark(w) ==
    /\ Step(w, "mark", "write")
    /\ st' = [st EXCEPT ![w].status = "deploying", ![w].desired = target[w]]
    /\ UpdateState(st'[w])
    /\ UNCHANGED <<lock, target, dep, deployments, hostVars, remote, faults>>

\* executeDeploy, first half: the compose files, with the target pinned.
DeployWrite(w) ==
    /\ \/ /\ Step(w, "write", "up")
          /\ WriteComposeFiles(buildImageOverrides(target[w]))
          /\ NoFault
       \/ /\ Step(w, "write", "finishFailed")
          /\ WriteComposeFilesFails(buildImageOverrides(target[w]))
    /\ UNCHANGED <<lock, localVars, storeVars, containers, remote>>

\* Second half: compose pull, then compose up.  A failing pull leaves every
\* container alone, which is one of the outcomes of a failing up.
DeployUp(w) ==
    /\ \/ Step(w, "up", "health") /\ composeUp /\ NoFault
       \/ Step(w, "up", "finishFailed") /\ composeUpFails
    /\ UNCHANGED <<lock, localVars, storeVars, override, remote>>

\* Mutant: the row is saved before the record is finished.
MutSaveFirst(w) ==
    /\ Step(w, "health", "save")
    /\ UpdateState([st[w] EXCEPT !.current = target[w]])
    /\ UNCHANGED <<deployments, lock, localVars, hostVars, remote, faults>>

\* runHealthChecks of the new stack; when they pass, the record is finished.
DeployHealth(w) ==
    /\ \/ /\ Step(w, "health", "save")
          /\ FinishDeployment(dep[w], "success")
          /\ NoFault
       \/ /\ Step(w, "health", "finishFailed")
          /\ Fault
          /\ UNCHANGED deployments
    /\ UNCHANGED <<lock, localVars, row, hostVars, remote>>

\* Mutant: the deployment's status is stored as the project's.
MutSucceeded(s, digests) ==
    [s EXCEPT !.previous = s.current, !.current = digests, !.status = "success"]

\* The row a successful deployment leaves.
Succeeded(s, digests) ==
    [s EXCEPT !.previous = s.current, !.current = digests, !.status = "running"]

\* The last UpdateState, then the deferred mu.Unlock().
DeploySave(w) ==
    /\ pc[w] = "save"
    /\ UpdateState(Succeeded(st[w], target[w]))
    /\ lock' = NoWorker
    /\ Return(w)
    /\ UNCHANGED <<deployments, hostVars, remote, faults>>

\* Deploy's failure branch.  The record is failed before the rollback starts;
\* executeRollback gives up at once without digests to go back to.
DeployFinishFailed(w) ==
    /\ pc[w] = "finishFailed"
    /\ FinishDeployment(dep[w], "failed")
    /\ \/ /\ st[w].current = EmptyMap
          /\ Goto(w, "saveFailed")
          /\ SetStatus(w, "failed")
       \/ /\ st[w].current # EmptyMap
          /\ Goto(w, "rbWrite")
          /\ UNCHANGED st
    /\ UNCHANGED <<lock, target, dep, row, hostVars, remote, faults>>

\* executeRollback(p, state.CurrentDigests): compose files, up, health checks.
RollbackWrite(w) ==
    /\ \/ /\ Step(w, "rbWrite", "rbUp")
          /\ WriteComposeFiles(buildImageOverrides(st[w].current))
          /\ NoFault /\ UNCHANGED st
       \/ /\ Step(w, "rbWrite", "saveFailed")
          /\ WriteComposeFilesFails(buildImageOverrides(st[w].current))
          /\ SetStatus(w, "failed")
    /\ UNCHANGED <<lock, target, dep, storeVars, containers, remote>>

RollbackUp(w) ==
    /\ \/ Step(w, "rbUp", "rbHealth") /\ composeUp /\ NoFault /\ UNCHANGED st
       \/ Step(w, "rbUp", "saveFailed") /\ composeUpFails /\ SetStatus(w, "failed")
    /\ UNCHANGED <<lock, target, dep, storeVars, override, remote>>

\* A rollback that ends healthy turns the record from failed to rolled_back.
RollbackHealth(w) ==
    /\ Step(w, "rbHealth", "saveFailed")
    /\ \/ /\ SetStatus(w, "rolled_back")
          /\ FinishDeployment(dep[w], "rolled_back")
          /\ NoFault
       \/ /\ SetStatus(w, "failed")
          /\ Fault
          /\ UNCHANGED deployments
    /\ UNCHANGED <<lock, target, dep, row, hostVars, remote>>

\* The failure branch's UpdateState; the digests stay what they were.
DeploySaveFailed(w) ==
    /\ pc[w] = "saveFailed"
    /\ UpdateState(st[w])
    /\ lock' = NoWorker
    /\ Return(w)
    /\ UNCHANGED <<deployments, hostVars, remote, faults>>

DeployStep(w) ==
    \/ DeployTryLock(w)  \/ DeployInsert(w)  \/ DeployMark(w)
    \/ DeployWrite(w)    \/ DeployUp(w)      \/ DeployHealth(w)
    \/ DeploySave(w)     \/ DeployFinishFailed(w)
    \/ RollbackWrite(w)  \/ RollbackUp(w)    \/ RollbackHealth(w)
    \/ DeploySaveFailed(w)

-----------------------------------------------------------------------------
\* ManualRollback reads the previous digests BEFORE Deploy takes the mutex.
ManualRollback(w) ==
    /\ pc[w] = "idle"
    /\ row.previous # EmptyMap
    /\ target' = [target EXCEPT ![w] = row.previous]
    /\ Goto(w, "tryLock")
    /\ UNCHANGED <<lock, st, dep, storeVars, hostVars, remote, faults>>

\* Stop: GetState; status stopping; compose down; status stopped or failed.
Stop(w) ==
    /\ Step(w, "idle", "stopMark")
    /\ ReadState(w)
    /\ UNCHANGED <<lock, target, dep, storeVars, hostVars, remote, faults>>

StopMark(w) ==
    /\ Step(w, "stopMark", "down")
    /\ SetStatus(w, "stopping")
    /\ UpdateState(st'[w])
    /\ UNCHANGED <<lock, target, dep, deployments, hostVars, remote, faults>>

\* compose down; a failing one is recorded as a failure.
StopDown(w) ==
    /\ Step(w, "down", "stopSave")
    /\ \/ composeDown /\ NoFault /\ SetStatus(w, "stopped")
       \/ composeDownFails /\ SetStatus(w, "failed")
    /\ UNCHANGED <<lock, target, dep, storeVars, override, remote>>

StopSave(w) ==
    /\ pc[w] = "stopSave"
    /\ UpdateState(st[w])
    /\ Return(w)
    /\ UNCHANGED <<lock, deployments, hostVars, remote, faults>>

\* Start: GetState; status starting; compose files WITHOUT pins; compose up;
\* status running or failed.  The digests of the row are not touched.
Start(w) ==
    /\ Step(w, "idle", "startMark")
    /\ ReadState(w)
    /\ UNCHANGED <<lock, target, dep, storeVars, hostVars, remote, faults>>

StartMark(w) ==
    /\ Step(w, "startMark", "startWrite")
    /\ SetStatus(w, "starting")
    /\ UpdateState(st'[w])
    /\ UNCHANGED <<lock, target, dep, deployments, hostVars, remote, faults>>

StartWrite(w) ==
    /\ \/ /\ Step(w, "startWrite", "startUp")
          /\ WriteComposeFiles(buildImageOverrides(EmptyMap))
          /\ NoFault /\ UNCHANGED st
       \/ /\ Step(w, "startWrite", "startSave")
          /\ WriteComposeFilesFails(buildImageOverrides(EmptyMap))
          /\ SetStatus(w, "failed")
    /\ UNCHANGED <<lock, target, dep, storeVars, containers, remote>>

StartUp(w) ==
    /\ Step(w, "startUp", "startSave")
    /\ \/ composeUp /\ NoFault /\ SetStatus(w, "running")
       \/ composeUpFails /\ SetStatus(w, "failed")
    /\ UNCHANGED <<lock, target, dep, storeVars, override, remote>>

StartSave(w) ==
    /\ pc[w] = "startSave"
    /\ UpdateState(st[w])
    /\ Return(w)
    /\ UNCHANGED <<lock, deployments, hostVars, remote, faults>>

StopStartStep(w) ==
    \/ StopMark(w)  \/ StopDown(w)   \/ StopSave(w)
    \/ StartMark(w) \/ StartWrite(w) \/ StartUp(w) \/ StartSave(w)
=============================================================================
