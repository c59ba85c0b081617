------------------------------- MODULE Bbsit -------------------------------
(***************************************************************************)
(* The daemon around one project: the polling loop, the requests of the    *)
(* web and admin APIs, each on a goroutine of its own, the registry, and   *)
(* crashes of the process followed by a restart (cmd/bbsit/main.go).       *)
(***************************************************************************)
EXTENDS Scheduler, FiniteSets

CONSTANTS
    Poller,       \* the scheduler's goroutine
    Requests,     \* request goroutines
    Enabled,      \* types.Project.Enabled: is the project polled at all
    Commands,     \* the API operations the run issues
    MaxRequests,  \* bound: API operations
    MaxPushes,    \* bound: times a tag of the registry moves
    MaxCrashes    \* bound: crashes of the daemon

ASSUME BbsitAssumption ==
    /\ Workers = Requests \cup {Poller}
    /\ Enabled \in BOOLEAN
    /\ Commands \subseteq {"deploy", "rollback", "stop", "start"}
    /\ MaxRequests \in Nat /\ MaxPushes \in Nat /\ MaxCrashes \in Nat

VARIABLES
    phase,      \* "up"; "down" after a crash; "booting" inside ResetStaleStates
    requests, pushes, crashes   \* used up so far of the bounds above

daemonVars == <<phase, requests, pushes, crashes>>
deployerVars == <<row, deployments, lock, pc, st, target, dep,
                  override, containers, remote, faults>>
vars == <<deployerVars, todo, daemonVars>>

TypeOK ==
    /\ StoreTypeOK
    /\ DeployerTypeOK
    /\ SchedulerTypeOK
    /\ phase \in {"up", "down", "booting"}
    /\ requests \in 0..MaxRequests
    /\ pushes \in 0..MaxPushes
    /\ crashes \in 0..MaxCrashes

\* A project that was just created, in a daemon that is up.
Init ==
    /\ CreateProject
    /\ DeployerInit
    /\ SchedulerInit
    /\ phase = "up"
    /\ requests = 0 /\ pushes = 0 /\ crashes = 0

-----------------------------------------------------------------------------
\* One pass of reconcileAll over the project, on a tick or at startup.
Tick ==
    /\ phase = "up" /\ Enabled
    /\ ReconcileBegin(Poller)
    /\ UNCHANGED daemonVars

\* An API request starts its operation on a goroutine of its own.
Request(w, command) ==
    /\ phase = "up"
    /\ command \in Commands
    /\ requests < MaxRequests /\ requests' = requests + 1
    /\ UNCHANGED <<phase, pushes, crashes>>

apiDeploy(w) == Request(w, "deploy") /\ ReconcileBegin(w)

apiRollback(w) == Request(w, "rollback") /\ ManualRollback(w) /\ UNCHANGED todo

apiStop(w) == Request(w, "stop") /\ Stop(w) /\ UNCHANGED todo

apiStart(w) == Request(w, "start") /\ Start(w) /\ UNCHANGED todo

\* The next step of an operation that worker w is in the middle of.
Work(w) ==
    /\ \/ (DeployStep(w) \/ StopStartStep(w)) /\ UNCHANGED todo
       \/ ReconcileStep(w)
    /\ UNCHANGED daemonVars

\* Somebody moves a tag to another image.
Push ==
    /\ pushes < MaxPushes /\ pushes' = pushes + 1
    /\ \E s \in Services, d \in Digests :
        d # remote[s] /\ remote' = [remote EXCEPT ![s] = d]
    /\ UNCHANGED <<storeVars, lock, pc, localVars, hostVars, faults, todo,
                   phase, requests, crashes>>

\* The process dies: mutexes and goroutines are gone; the database, the files
\* and the containers stay.
Crash ==
    /\ phase # "down"
    /\ crashes < MaxCrashes /\ crashes' = crashes + 1
    /\ phase' = "down"
    /\ lock' = NoWorker
    /\ pc' = [w \in Workers |-> "idle"]
    /\ st' = [w \in Workers |-> NewRow]
    /\ target' = [w \in Workers |-> EmptyMap]
    /\ dep' = [w \in Workers |-> 0]
    /\ todo' = [w \in Workers |-> {}]
    /\ UNCHANGED <<storeVars, hostVars, remote, faults, requests, pushes>>

\* main: ResetStaleStates before anything else runs, one statement at a time.
BootResetStatus ==
    /\ phase = "down" /\ phase' = "booting"
    /\ ResetStaleStatus
    /\ UNCHANGED <<deployments, lock, pc, localVars, hostVars, remote, faults,
                   todo, requests, pushes, crashes>>

BootResetDeployments ==
    /\ phase = "booting" /\ phase' = "up"
    /\ ResetStaleDeployments
    /\ UNCHANGED <<row, lock, pc, localVars, hostVars, remote, faults,
                   todo, requests, pushes, crashes>>

Boot == BootResetStatus \/ BootResetDeployments

Api(w) == apiDeploy(w) \/ apiRollback(w) \/ apiStop(w) \/ apiStart(w)

Next ==
    \/ Tick
    \/ \E w \in Requests : Api(w)
    \/ \E w \in Workers : Work(w)
    \/ Push
    \/ Crash
    \/ Boot

Spec == Init /\ [][Next]_vars

\* systemd restarts the daemon, the ticker keeps firing, and every file,
\* compose, registry and database call a goroutine makes returns.
Fairness ==
    /\ WF_vars(Boot)
    /\ WF_vars(Tick)
    /\ \A w \in Workers : WF_vars(Work(w))

FairSpec == Spec /\ Fairness

-----------------------------------------------------------------------------
Quiet == phase = "up" /\ \A w \in Workers : pc[w] = "idle"

\* The targets of the deployments the history calls successful, and nothing.
Deployed ==
    {EmptyMap} \cup
    {deployments[i].to : i \in {j \in DOMAIN deployments :
                                   deployments[j].status = "success"}}

\* A record is in progress only while the worker that inserted it holds the
\* mutex, or until the restart after a crash has cleared it (Deploy's mutex and
\* defer, ResetStaleStates).
InProgressIsOwned ==
    \A i \in DOMAIN deployments :
        deployments[i].status = "in_progress" =>
            phase # "up" \/ (lock # NoWorker /\ dep[lock] = i)

\* The recorded current and previous digests are always the target of a
\* deployment the history calls successful, even across crashes and stale
\* writes of the row (Deploy finishes the record before it saves the row).
DigestsWereDeployed == row.current \in Deployed /\ row.previous \in Deployed

\* The history behaves as DeploymentLog promises.
Log == INSTANCE DeploymentLog WITH
    log <- deployments, Maps <- DigestMap, Empty <- EmptyMap

LogRefinement == Log!LogSpec

\* Status "deploying" means that somebody is deploying: reconcileOne skips a
\* new version on that ground.
DeployingHasDeployer ==
    phase = "up" /\ row.status = "deploying" => lock # NoWorker

\* When nothing is going on and a deployed project is running or was rolled
\* back, its containers run the recorded current digests, all services together
\* (reconcileOne compares the registry with the record, not the containers).
RecordedIsRunning ==
    Quiet /\ row.status \in {"running", "rolled_back"} /\ row.current # EmptyMap =>
        containers = row.current

-----------------------------------------------------------------------------
\* The inductive invariant behind InProgressIsOwned, DigestsWereDeployed and
\* LogRefinement, in parts.

\* The mutex is held exactly by the worker inside Deploy.
LockInv ==
    /\ \A w \in Workers : lock = w <=> pc[w] \in DeployPC
    /\ phase # "up" => \A w \in Workers : pc[w] = "idle"

\* Deploy's record is the newest one and is as far as Deploy is.
RecordOf(w) ==
    /\ dep[w] = Len(deployments) /\ dep[w] \in DOMAIN deployments
    /\ deployments[dep[w]].from = st[w].current
    /\ deployments[dep[w]].to = target[w]
    /\ pc[w] \in {"mark", "write", "up", "health", "finishFailed"} =>
          deployments[dep[w]].status = "in_progress"
    /\ pc[w] = "save" => deployments[dep[w]].status = "success"
    /\ pc[w] \in {"rbWrite", "rbUp", "rbHealth"} =>
          deployments[dep[w]].status = "failed" /\ st[w].current # EmptyMap
    /\ pc[w] = "saveFailed" => deployments[dep[w]].status # "in_progress"

RecordInv == \A w \in Workers : pc[w] \in DeployPC \ {"insert"} => RecordOf(w)

\* What is deployed is never empty: every polled service got a digest.
TargetOf(w) ==
    /\ pc[w] \in DeployPC \cup {"tryLock"} => target[w] # EmptyMap
    /\ pc[w] = "poll" =>
          \A s \in Services \ todo[w] : st[w].desired[s] \in Digests

TargetInv == \A w \in Workers : TargetOf(w)

\* Every copy of the row, stale ones included, names deployed digests.
CopiesInv ==
    /\ row.current \in Deployed /\ row.previous \in Deployed
    /\ \A w \in Workers :
          st[w].current \in Deployed /\ st[w].previous \in Deployed

\* Only the newest record can be in progress, and only as long as its owner
\* is: RecordInv names the owner's steps.
HistoryInv ==
    \A i \in DOMAIN deployments : deployments[i].status = "in_progress" =>
        /\ i = Len(deployments)
        /\ phase = "up" => lock # NoWorker /\ dep[lock] = i
                             /\ pc[lock] # "insert"

IInv == LockInv /\ RecordInv /\ TargetInv /\ CopiesInv /\ HistoryInv

-----------------------------------------------------------------------------
\* Once tags stop moving and failures end, the polling loop brings the recorded
\* digests to the ones the registry serves, whatever crashed or failed before.
Converges == <>[](row.current = remote)

\* No deployment stays in progress forever: Deploy's every path finishes its
\* record, and so does the restart after a crash.
DeploymentsEnd ==
    []<>(\A i \in DOMAIN deployments : deployments[i].status # "in_progress")
=============================================================================
